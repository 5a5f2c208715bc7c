---------------------------- MODULE GroupedProofs ----------------------------
(***************************************************************************)
(* What the planners of a grouped matmul rest on, for any experts and      *)
(* threads: quotients, totals over the experts, loops written as folds,    *)
(* the handing out of threads one at a time, ranges split into slices,     *)
(* sequences that list a set, and experts taken in batches.                *)
(***************************************************************************)
EXTENDS Grouped, TLAPS, FiniteSetTheorems

(***************************************************************************)
(* Arithmetic                                                              *)
(***************************************************************************)

\* A set of natural numbers with an upper bound has a largest element.
LEMMA MaxOfBounded ==
  ASSUME NEW S \in SUBSET Nat, S # {}, NEW b \in Nat, \A x \in S : x <= b
  PROVE  Max(S) \in S /\ \A x \in S : x <= Max(S)
<1> DEFINE T == {y \in Nat : b - y \in S}
<1> DEFINE R == OpToRel(<, Nat)
<1>1. \A x \in S : x \in Nat /\ b - x \in T
  <2> SUFFICES ASSUME NEW x \in S PROVE x \in Nat /\ b - x \in T OBVIOUS
  <2>1. x \in Nat /\ x <= b OBVIOUS
  <2>2. b - x \in Nat /\ b - (b - x) = x BY <2>1
  <2> QED BY <2>1, <2>2
<1>2. T # {} /\ T \subseteq Nat BY <1>1
<1>3. PICK y \in T : \A z \in T : ~(<<z, y>> \in R)
  <2> HIDE DEF T, R
  <2> QED BY <1>2, NatLessThanWellFounded, WFMin DEF R
<1>4. \A z \in T : y <= z
  <2>1. \A z, x \in Nat : z < x => <<z, x>> \in R BY DEF OpToRel
  <2> HIDE DEF R, T
  <2>2. ASSUME NEW z \in T PROVE y <= z
    <3>1. z \in Nat /\ y \in Nat BY <1>2, <1>3
    <3>2. ~(z < y) BY <1>3, <2>1, <3>1
    <3> QED BY <3>1, <3>2
  <2> QED BY <2>2
<1>5. b - y \in S /\ \A x \in S : b - y >= x
  <2>1. y \in Nat /\ b - y \in S OBVIOUS
  <2>2. ASSUME NEW x \in S PROVE b - y >= x
    <3>1. x \in Nat /\ b - x \in T /\ b - x \in Nat BY <1>1
    <3>2. y <= b - x BY <3>1, <1>4
    <3> QED BY <3>1, <3>2, <2>1
  <2> QED BY <2>1, <2>2
<1>6. Max(S) \in S /\ \A x \in S : Max(S) >= x
  <2> HIDE DEF T
  <2> QED BY <1>5 DEF Max
<1> QED BY <1>6

\* Induction over the natural numbers, for the set of those that satisfy the
\* hypothesis.
LEMMA SetInduction ==
  ASSUME NEW S, 0 \in S, \A k \in Nat : k \in S => k + 1 \in S
  PROVE  \A k \in Nat : k \in S
<1> SUFFICES ASSUME NEW b \in Nat, b \notin S PROVE FALSE OBVIOUS
<1> DEFINE T == {a \in Nat : a <= b /\ b - a \notin S}
<1>1. 0 \in T /\ T \subseteq Nat /\ \A a \in T : a <= b OBVIOUS
<1>2. PICK a \in T : \A x \in T : x <= a
  <2> HIDE DEF T
  <2>1. T \in SUBSET Nat /\ T # {} BY <1>1
  <2> QED BY <1>1, <2>1, MaxOfBounded
<1>3. a \in Nat /\ a <= b /\ b - a \notin S OBVIOUS
<1>4. b - a # 0 BY <1>3
<1>5. a + 1 \in Nat /\ a + 1 <= b /\ b - (a + 1) \in Nat /\ (b - (a + 1)) + 1 = b - a
  BY <1>3, <1>4
<1>6. b - (a + 1) \notin S BY <1>3, <1>5
<1>7. a + 1 \in T BY <1>5, <1>6
<1>8. a + 1 <= a BY <1>2, <1>7
<1> QED BY <1>3, <1>8

\* A quotient of natural numbers lies between its multiples ...
LEMMA DivBounds ==
  ASSUME NEW a \in Nat, NEW b \in Nat \ {0}
  PROVE  /\ a \div b \in Nat
         /\ b * (a \div b) <= a
         /\ a < b * ((a \div b) + 1)
<1>1. a \div b \in Nat /\ a % b \in 0 .. b - 1 /\ a = b * (a \div b) + (a % b) OBVIOUS
<1>2. PICK q \in Nat : q = a \div b BY <1>1
<1>3. b * (q + 1) = b * q + b OBVIOUS
<1> QED BY <1>1, <1>2, <1>3

\* ... and compares with another number as the multiple of that number does.
LEMMA DivCompares ==
  ASSUME NEW a \in Nat, NEW b \in Nat \ {0}, NEW k \in Nat
  PROVE  /\ b * k <= a => k <= a \div b
         /\ a < b * k => a \div b < k
<1>1. PICK q \in Nat : q = a \div b /\ b * q <= a /\ a < b * (q + 1) BY DivBounds
<1>2. ASSUME b * k <= a, q < k PROVE FALSE
  <2>1. PICK d \in Nat : k = q + 1 + d
    <3>1. k - (q + 1) \in Nat /\ k = q + 1 + (k - (q + 1)) BY <1>2
    <3> QED BY <3>1
  <2>2. b * k = b * (q + 1) + b * d /\ b * d \in Nat BY <2>1
  <2> QED BY <1>1, <1>2, <2>2
<1>3. ASSUME a < b * k, k <= q PROVE FALSE
  <2>1. PICK d \in Nat : q = k + d
    <3>1. q - k \in Nat /\ q = k + (q - k) BY <1>3
    <3> QED BY <3>1
  <2>2. b * q = b * k + b * d /\ b * d \in Nat BY <2>1
  <2> QED BY <1>1, <1>3, <2>2
<1> QED BY <1>1, <1>2, <1>3

\* A larger factor makes a product no smaller.
LEMMA TimesMonotone ==
  ASSUME NEW a \in Nat, NEW k \in Nat, NEW l \in Nat, k <= l
  PROVE  a * k <= a * l /\ a * k \in Nat
<1>1. PICK d \in Nat : l = k + d
  <2>1. l - k \in Nat /\ l = k + (l - k) OBVIOUS
  <2> QED BY <2>1
<1>2. a * l = a * k + a * d /\ a * d \in Nat /\ a * k \in Nat BY <1>1
<1> QED BY <1>2

(***************************************************************************)
(* Totals                                                                  *)
(***************************************************************************)

\* Induction over the subsets of a finite set, one element at a time.
LEMMA FiniteInduction ==
  ASSUME NEW S, IsFiniteSet(S), NEW C, {} \in C,
         \A T \in C : T \subseteq S => \A x \in S \ T : T \cup {x} \in C
  PROVE  S \in C
<1> DEFINE P == {n \in Nat : \A T \in SUBSET S : Cardinality(T) = n => T \in C}
<1>1. \A T \in SUBSET S : IsFiniteSet(T) /\ Cardinality(T) \in Nat
  BY FS_Subset, FS_CardinalityType
<1>2. 0 \in P
  <2>1. \A T \in SUBSET S : Cardinality(T) = 0 => T = {} BY <1>1, FS_EmptySet
  <2> QED BY <2>1
<1>3. ASSUME NEW n \in Nat, n \in P PROVE n + 1 \in P
  <2>1. ASSUME NEW T \in SUBSET S, Cardinality(T) = n + 1 PROVE T \in C
    <3>1. T # {} BY <1>1, <2>1, FS_EmptySet
    <3>2. PICK x \in T : TRUE BY <3>1
    <3>3. PICK R : R = T \ {x} OBVIOUS
    <3>4. Cardinality(R) = Cardinality(T) - 1 BY <1>1, <3>2, <3>3, FS_RemoveElement
    <3>5. Cardinality(R) = n BY <2>1, <3>4
    <3>6. R \in SUBSET S /\ x \in S \ R /\ T = R \cup {x} BY <3>2, <3>3
    <3>7. R \in C BY <1>3, <3>5, <3>6
    <3> QED BY <3>6, <3>7
  <2> QED BY <2>1
<1> HIDE DEF P
<1>4. \A n \in Nat : n \in P BY <1>2, <1>3, SetInduction
<1>5. Cardinality(S) \in P BY <1>1, <1>4
<1> QED BY <1>5 DEF P

\* The recursion of Total is one that a function satisfies ...
Chosen(s) == CHOOSE x \in s : TRUE

SumRec(g, f, S) ==
  g = [s \in SUBSET S |-> IF s = {} THEN 0 ELSE g[s \ {Chosen(s)}] + f[Chosen(s)]]

UpTo(S, n) == {s \in SUBSET S : Cardinality(s) <= n}

LEMMA SumDefined ==
  ASSUME NEW S, IsFiniteSet(S), NEW f
  PROVE  \E g : SumRec(g, f, S)
<1> DEFINE Step(g, s) == IF s = {} THEN 0 ELSE g[s \ {Chosen(s)}] + f[Chosen(s)]
<1> DEFINE P == {n \in Nat : \E g : g = [s \in UpTo(S, n) |-> Step(g, s)]}
<1>1. \A T \in SUBSET S : IsFiniteSet(T) /\ Cardinality(T) \in Nat
  BY FS_Subset, FS_CardinalityType
<1>2. \A s \in SUBSET S : s # {} => /\ Chosen(s) \in s /\ s \ {Chosen(s)} \in SUBSET S
                                    /\ Cardinality(s \ {Chosen(s)}) = Cardinality(s) - 1
  <2> SUFFICES ASSUME NEW s \in SUBSET S, s # {}
               PROVE  /\ Chosen(s) \in s /\ s \ {Chosen(s)} \in SUBSET S
                      /\ Cardinality(s \ {Chosen(s)}) = Cardinality(s) - 1
    OBVIOUS
  <2>1. Chosen(s) \in s BY DEF Chosen
  <2> QED BY <1>1, <2>1, FS_RemoveElement
<1>3. \A n \in Nat : \A s \in UpTo(S, n + 1) : s # {} => s \ {Chosen(s)} \in UpTo(S, n)
  <2> SUFFICES ASSUME NEW n \in Nat, NEW s \in UpTo(S, n + 1), s # {}
               PROVE  s \ {Chosen(s)} \in UpTo(S, n)
    OBVIOUS
  <2>1. s \in SUBSET S /\ Cardinality(s) <= n + 1 /\ Cardinality(s) \in Nat
    BY <1>1 DEF UpTo
  <2>2. Cardinality(s) - 1 <= n BY <2>1
  <2> QED BY <1>2, <2>1, <2>2 DEF UpTo
<1>4. 0 \in P
  <2>1. \A s \in UpTo(S, 0) : s = {} BY <1>1, FS_EmptySet DEF UpTo
  <2>2. PICK g : g = [s \in UpTo(S, 0) |-> 0] OBVIOUS
  <2>3. g = [s \in UpTo(S, 0) |-> Step(g, s)] BY <2>1, <2>2
  <2> QED BY <2>3
<1>5. ASSUME NEW n \in Nat, n \in P PROVE n + 1 \in P
  <2>1. PICK g : g = [s \in UpTo(S, n) |-> Step(g, s)] BY <1>5
  <2>2. PICK h : h = [s \in UpTo(S, n + 1) |-> Step(g, s)] OBVIOUS
  <2>3. UpTo(S, n) \subseteq UpTo(S, n + 1) BY <1>1 DEF UpTo
  <2>4. \A s \in UpTo(S, n) : h[s] = g[s] BY <2>1, <2>2, <2>3
  <2>5. \A s \in UpTo(S, n + 1) : h[s] = Step(h, s)
    <3> SUFFICES ASSUME NEW s \in UpTo(S, n + 1) PROVE h[s] = Step(h, s) OBVIOUS
    <3>1. h[s] = Step(g, s) BY <2>2
    <3>2. s # {} => h[s \ {Chosen(s)}] = g[s \ {Chosen(s)}] BY <1>3, <2>4
    <3> QED BY <3>1, <3>2
  <2>6. h = [s \in UpTo(S, n + 1) |-> h[s]] BY <2>2
  <2>7. h = [s \in UpTo(S, n + 1) |-> Step(h, s)] BY <2>5, <2>6
  <2> QED BY <2>7
<1> HIDE DEF P
<1>6. Cardinality(S) \in P BY <1>1, <1>4, <1>5, SetInduction
<1>7. UpTo(S, Cardinality(S)) = SUBSET S BY FS_Subset DEF UpTo
<1> QED BY <1>6, <1>7 DEF P, SumRec

\* ... and only one: on the subsets the functions of two sets share, with
\* summands that agree, they agree.
LEMMA SumsAgree ==
  ASSUME NEW S, IsFiniteSet(S), NEW T \in SUBSET S, NEW f, NEW k, NEW g, NEW h,
         SumRec(g, f, S), SumRec(h, k, T), \A x \in T : f[x] = k[x]
  PROVE  g[T] = h[T]
<1> DEFINE P == {n \in Nat : \A s \in UpTo(T, n) : g[s] = h[s]}
<1>1. \A R \in SUBSET S : IsFiniteSet(R) /\ Cardinality(R) \in Nat
  BY FS_Subset, FS_CardinalityType
<1>2. \A s \in SUBSET T : g[s] = IF s = {} THEN 0 ELSE g[s \ {Chosen(s)}] + f[Chosen(s)]
  BY DEF SumRec
<1>3. \A s \in SUBSET T : h[s] = IF s = {} THEN 0 ELSE h[s \ {Chosen(s)}] + k[Chosen(s)]
  BY DEF SumRec
<1>4. 0 \in P
  <2>1. \A s \in UpTo(T, 0) : s = {} BY <1>1, FS_EmptySet DEF UpTo
  <2> QED BY <1>2, <1>3, <2>1
<1>5. ASSUME NEW n \in Nat, n \in P PROVE n + 1 \in P
  <2>1. ASSUME NEW s \in UpTo(T, n + 1) PROVE g[s] = h[s]
    <3>1. s \in SUBSET T /\ Cardinality(s) <= n + 1 /\ Cardinality(s) \in Nat
      BY <1>1 DEF UpTo
    <3>2. CASE s = {} BY <1>2, <1>3, <3>2
    <3>3. CASE s # {}
      <4>1. PICK x : x = Chosen(s) OBVIOUS
      <4>2. x \in s BY <3>3, <4>1 DEF Chosen
      <4>3. PICK r : r = s \ {x} OBVIOUS
      <4>4. Cardinality(r) = Cardinality(s) - 1 BY <1>1, <3>1, <4>2, <4>3, FS_RemoveElement
      <4>5. Cardinality(r) <= n BY <3>1, <4>4
      <4>6. r \in UpTo(T, n) BY <3>1, <4>3, <4>5 DEF UpTo
      <4>7. g[r] = h[r] BY <1>5, <4>6
      <4>8. f[x] = k[x] BY <3>1, <4>2
      <4>9. g[s] = g[r] + f[x] /\ h[s] = h[r] + k[x]
        BY <1>2, <1>3, <3>1, <3>3, <4>1, <4>3
      <4> QED BY <4>7, <4>8, <4>9
    <3> QED BY <3>2, <3>3
  <2> QED BY <2>1
<1> HIDE DEF P
<1>6. Cardinality(T) \in P BY <1>1, <1>4, <1>5, SetInduction
<1>7. T \in UpTo(T, Cardinality(T)) BY <1>1 DEF UpTo
<1> QED BY <1>6, <1>7 DEF P

LEMMA TotalIsSum ==
  ASSUME NEW S, IsFiniteSet(S), NEW f
  PROVE  \E g : SumRec(g, f, S) /\ Total(f, S) = g[S]
<1>1. Total(f, S) = (CHOOSE g : SumRec(g, f, S))[S]
  BY DEF Total, FoldSet, MapThenFoldSet, SumRec, Chosen
<1>2. SumRec(CHOOSE g : SumRec(g, f, S), f, S) BY SumDefined
<1> QED BY <1>1, <1>2

LEMMA TotalOfNone == ASSUME NEW f PROVE Total(f, {}) = 0
<1>1. PICK g : SumRec(g, f, {}) /\ Total(f, {}) = g[{}] BY TotalIsSum, FS_EmptySet
<1> QED BY <1>1 DEF SumRec

\* A total depends on the summands of its own set only.
LEMMA TotalSame ==
  ASSUME NEW S, IsFiniteSet(S), NEW f, NEW k, \A x \in S : f[x] = k[x]
  PROVE  Total(f, S) = Total(k, S)
<1>1. PICK g : SumRec(g, f, S) /\ Total(f, S) = g[S] BY TotalIsSum
<1>2. PICK h : SumRec(h, k, S) /\ Total(k, S) = h[S] BY TotalIsSum
<1> QED BY <1>1, <1>2, SumsAgree

\* Whichever summand is taken out, the others' total is left.
LEMMA TotalTakesOut ==
  ASSUME NEW S, IsFiniteSet(S), NEW f, \A x \in S : f[x] \in Int
  PROVE  /\ Total(f, S) \in Int
         /\ \A x \in S : Total(f, S) = Total(f, S \ {x}) + f[x]
<1> DEFINE Out(T) == /\ Total(f, T) \in Int
                     /\ \A x \in T : Total(f, T) = Total(f, T \ {x}) + f[x]
<1> DEFINE P == {n \in Nat : \A T \in UpTo(S, n) : Out(T)}
<1>1. \A T \in SUBSET S : IsFiniteSet(T) /\ Cardinality(T) \in Nat
  BY FS_Subset, FS_CardinalityType
<1>2. 0 \in P
  <2>1. \A s \in UpTo(S, 0) : s = {} BY <1>1, FS_EmptySet DEF UpTo
  <2>2. Out({}) BY TotalOfNone
  <2> HIDE DEF Out
  <2> QED BY <2>1, <2>2
<1>3. ASSUME NEW T \in SUBSET S, T # {}
      PROVE  \E y \in T : Total(f, T) = Total(f, T \ {y}) + f[y]
  <2>1. PICK g : SumRec(g, f, T) /\ Total(f, T) = g[T] BY <1>1, TotalIsSum
  <2>2. PICK y \in T : y = Chosen(T) BY <1>3 DEF Chosen
  <2>3. PICK R : R = T \ {y} OBVIOUS
  <2>4. g[T] = g[R] + f[y] BY <1>3, <2>1, <2>2, <2>3 DEF SumRec
  <2>5. PICK h : SumRec(h, f, R) /\ Total(f, R) = h[R] BY <1>1, <2>3, TotalIsSum
  <2>6. g[R] = h[R]
    <3>1. IsFiniteSet(T) /\ R \in SUBSET T /\ \A x \in R : f[x] = f[x] BY <1>1, <2>3
    <3> QED BY <2>1, <2>5, <3>1, SumsAgree
  <2> QED BY <2>1, <2>3, <2>4, <2>5, <2>6
<1>4. ASSUME NEW n \in Nat, n \in P PROVE n + 1 \in P
  <2>1. ASSUME NEW T \in UpTo(S, n + 1) PROVE Out(T)
    <3>1. T \in SUBSET S /\ Cardinality(T) <= n + 1 /\ Cardinality(T) \in Nat
      BY <1>1 DEF UpTo
    <3>2. CASE T = {} BY <3>2, TotalOfNone
    <3>3. CASE T # {}
      <4>1. \A x \in T : T \ {x} \in UpTo(S, n)
        <5> SUFFICES ASSUME NEW x \in T PROVE T \ {x} \in UpTo(S, n) OBVIOUS
        <5>1. Cardinality(T \ {x}) = Cardinality(T) - 1 BY <1>1, <3>1, FS_RemoveElement
        <5>2. Cardinality(T \ {x}) <= n BY <3>1, <5>1
        <5> QED BY <3>1, <5>2 DEF UpTo
      <4>2. \A x \in T : Out(T \ {x}) BY <1>4, <4>1
      <4>3. PICK y \in T : Total(f, T) = Total(f, T \ {y}) + f[y] BY <1>3, <3>1, <3>3
      <4>4. f[y] \in Int /\ Total(f, T \ {y}) \in Int BY <3>1, <4>2
      <4>5. ASSUME NEW x \in T PROVE Total(f, T) = Total(f, T \ {x}) + f[x]
        <5>1. CASE x = y BY <4>3, <5>1
        <5>2. CASE x # y
          <6>1. PICK a, b, r : a = T \ {x} /\ b = T \ {y} /\ r = T \ {x, y} OBVIOUS
          <6>2. y \in a /\ x \in b /\ a \ {y} = r /\ b \ {x} = r BY <5>2, <6>1
          <6>3. Out(a) /\ Out(b) BY <4>2, <6>1
          <6>4. Total(f, a) = Total(f, r) + f[y] /\ Total(f, b) = Total(f, r) + f[x]
            BY <6>2, <6>3
          <6>5. a \ {y} \in UpTo(S, n)
            <7>1. Cardinality(a) <= n /\ a \in SUBSET S BY <4>1, <6>1 DEF UpTo
            <7>2. Cardinality(a) \in Nat /\ Cardinality(a \ {y}) = Cardinality(a) - 1
              BY <1>1, <6>2, <7>1, FS_RemoveElement
            <7>3. Cardinality(a \ {y}) <= n BY <7>1, <7>2
            <7> QED BY <7>1, <7>3 DEF UpTo
          <6>6. Total(f, r) \in Int BY <1>4, <6>2, <6>5
          <6>7. f[x] \in Int /\ f[y] \in Int BY <3>1
          <6>8. Total(f, T) = Total(f, b) + f[y] BY <4>3, <6>1
          <6>9. Total(f, T) = Total(f, a) + f[x] BY <6>4, <6>6, <6>7, <6>8
          <6> QED BY <6>1, <6>9
        <5> QED BY <5>1, <5>2
      <4>6. Total(f, T) \in Int BY <4>3, <4>4
      <4> HIDE DEF P
      <4> QED BY <4>5, <4>6, Zenon
    <3> QED BY <3>2, <3>3
  <2> HIDE DEF Out
  <2> QED BY <2>1
<1> HIDE DEF P
<1>5. Cardinality(S) \in P BY <1>1, <1>2, <1>4, SetInduction
<1>6. S \in UpTo(S, Cardinality(S)) BY <1>1 DEF UpTo
<1> QED BY <1>5, <1>6 DEF P

LEMMA TotalAdds ==
  ASSUME NEW S, IsFiniteSet(S), NEW x, x \notin S, NEW f,
         \A y \in S \cup {x} : f[y] \in Int
  PROVE  Total(f, S \cup {x}) = Total(f, S) + f[x] /\ Total(f, S) \in Int
<1>1. PICK T : T = S \cup {x} OBVIOUS
<1>2. IsFiniteSet(T) BY <1>1, FS_AddElement
<1>3. T \ {x} = S /\ x \in T /\ \A y \in T : f[y] \in Int BY <1>1
<1>4. Total(f, T) = Total(f, S) + f[x] BY <1>2, <1>3, TotalTakesOut
<1> QED BY <1>1, <1>4, TotalTakesOut

\* Sums compare as their summands do.
LEMMA TotalMonotone ==
  ASSUME NEW S, IsFiniteSet(S), NEW f, NEW k,
         \A x \in S : f[x] \in Int /\ k[x] \in Int /\ f[x] <= k[x]
  PROVE  Total(f, S) <= Total(k, S)
<1> DEFINE C == {T \in SUBSET S : Total(f, T) <= Total(k, T)}
<1>1. {} \in C BY TotalOfNone
<1>2. ASSUME NEW T \in C, NEW x \in S \ T PROVE T \cup {x} \in C
  <2>1. IsFiniteSet(T) BY FS_Subset
  <2>2. Total(f, T \cup {x}) = Total(f, T) + f[x] /\ Total(f, T) \in Int BY <2>1, TotalAdds
  <2>3. Total(k, T \cup {x}) = Total(k, T) + k[x] /\ Total(k, T) \in Int BY <2>1, TotalAdds
  <2>4. Total(f, T) + f[x] <= Total(k, T) + k[x] BY <2>2, <2>3
  <2> QED BY <2>2, <2>3, <2>4
<1> HIDE DEF C
<1>3. S \in C BY <1>1, <1>2, FiniteInduction
<1> QED BY <1>3 DEF C

LEMMA TotalIsNat ==
  ASSUME NEW S, IsFiniteSet(S), NEW f, \A x \in S : f[x] \in Nat
  PROVE  /\ Total(f, S) \in Nat
         /\ \A T \in SUBSET S : Total(f, T) \in Nat /\ Total(f, T) <= Total(f, S)
         /\ \A x \in S : f[x] <= Total(f, S)
<1>1. ASSUME NEW T \in SUBSET S PROVE Total(f, T) \in Nat
  <2> DEFINE C == {R \in SUBSET T : Total(f, R) \in Nat}
  <2>1. {} \in C BY TotalOfNone
  <2>2. ASSUME NEW R \in C, NEW x \in T \ R PROVE R \cup {x} \in C
    <3>1. IsFiniteSet(R) BY FS_Subset
    <3>3. \A y \in R \cup {x} : f[y] \in Int OBVIOUS
    <3>2. Total(f, R \cup {x}) = Total(f, R) + f[x] BY <3>1, <3>3, TotalAdds
    <3> QED BY <3>2
  <2> HIDE DEF C
  <2>3. T \in C BY <2>1, <2>2, FS_Subset, FiniteInduction
  <2> QED BY <2>3 DEF C
<1>2. ASSUME NEW T \in SUBSET S PROVE Total(f, T) <= Total(f, S)
  <2> DEFINE C == {R \in SUBSET (S \ T) : Total(f, T) <= Total(f, T \cup R)}
  <2>1. {} \in C
    <3>1. T \cup {} = T OBVIOUS
    <3> QED BY <1>1, <3>1
  <2>2. ASSUME NEW R \in C, NEW x \in (S \ T) \ R PROVE R \cup {x} \in C
    <3>1. PICK Q : Q = T \cup R /\ Q \in SUBSET S OBVIOUS
    <3>2. IsFiniteSet(Q) /\ x \notin Q BY <3>1, FS_Subset
    <3>8. \A y \in Q \cup {x} : f[y] \in Int BY <3>1
    <3>3. Total(f, Q \cup {x}) = Total(f, Q) + f[x] BY <3>2, <3>8, TotalAdds
    <3>4. T \cup (R \cup {x}) = Q \cup {x} BY <3>1
    <3>5. Total(f, T) \in Nat /\ Total(f, Q) \in Nat /\ f[x] \in Nat BY <1>1, <3>1
    <3>6. Total(f, T) <= Total(f, Q) BY <3>1
    <3>7. Total(f, T) <= Total(f, Q) + f[x] BY <3>5, <3>6
    <3> QED BY <3>3, <3>4, <3>7
  <2> HIDE DEF C
  <2>3. IsFiniteSet(S \ T) BY FS_Subset
  <2>4. S \ T \in C BY <2>1, <2>2, <2>3, FiniteInduction
  <2>5. T \cup (S \ T) = S OBVIOUS
  <2> QED BY <2>4, <2>5 DEF C
<1>3. ASSUME NEW x \in S PROVE f[x] <= Total(f, S)
  <2>1. Total(f, S) = Total(f, S \ {x}) + f[x] BY TotalTakesOut
  <2>2. Total(f, S \ {x}) \in Nat BY <1>1
  <2> QED BY <2>1, <2>2
<1> QED BY <1>1, <1>2, <1>3

\* One more for some of the summands is as many more as they are.
LEMMA TotalCounts ==
  ASSUME NEW S, IsFiniteSet(S), NEW A \in SUBSET S, NEW n \in Nat,
         NEW f, \A x \in S : f[x] = IF x \in A THEN n + 1 ELSE n
  PROVE  Total(f, S) = n * Cardinality(S) + Cardinality(A)
<1> DEFINE C == {T \in SUBSET S : Total(f, T) = n * Cardinality(T) + Cardinality(T \cap A)}
<1>1. {} \in C
  <2>1. {} \cap A = {} /\ Cardinality({}) = 0 BY FS_EmptySet
  <2>2. Total(f, {}) = n * 0 + 0 BY TotalOfNone
  <2> QED BY <2>1, <2>2
<1>2. ASSUME NEW T \in C, NEW x \in S \ T PROVE T \cup {x} \in C
  <2>1. IsFiniteSet(T) /\ IsFiniteSet(T \cap A) BY FS_Subset
  <2>2. PICK m, k \in Nat : m = Cardinality(T) /\ k = Cardinality(T \cap A)
    BY <2>1, FS_CardinalityType
  <2>3. Cardinality(T \cup {x}) = m + 1 BY <2>1, <2>2, FS_AddElement
  <2>4. Total(f, T) = n * m + k BY <2>2
  <2>5. \A y \in T \cup {x} : f[y] \in Int OBVIOUS
  <2>6. Total(f, T \cup {x}) = Total(f, T) + f[x] BY <2>1, <2>5, TotalAdds
  <2>7. n * (m + 1) = n * m + n /\ n * m \in Nat OBVIOUS
  <2>8. CASE x \in A
    <3>1. (T \cup {x}) \cap A = (T \cap A) \cup {x} /\ x \notin T \cap A BY <2>8
    <3>2. Cardinality((T \cup {x}) \cap A) = k + 1 BY <2>1, <2>2, <3>1, FS_AddElement
    <3>3. Total(f, T \cup {x}) = n * (m + 1) + (k + 1) BY <2>4, <2>6, <2>7, <2>8
    <3> QED BY <2>3, <3>2, <3>3
  <2>9. CASE x \notin A
    <3>1. (T \cup {x}) \cap A = T \cap A BY <2>9
    <3>2. Total(f, T \cup {x}) = n * (m + 1) + k BY <2>4, <2>6, <2>7, <2>9
    <3> QED BY <2>2, <2>3, <3>1, <3>2
  <2> QED BY <2>8, <2>9
<1> HIDE DEF C
<1>3. S \in C BY <1>1, <1>2, FiniteInduction
<1>4. S \cap A = A OBVIOUS
<1> QED BY <1>3, <1>4 DEF C

\* A total of sums is the sum of the totals.
LEMMA TotalOfSum ==
  ASSUME NEW S, IsFiniteSet(S), NEW f, NEW g, NEW h,
         \A x \in S : f[x] \in Nat /\ g[x] \in Nat /\ h[x] = f[x] + g[x]
  PROVE  Total(h, S) = Total(f, S) + Total(g, S)
<1> DEFINE C == {T \in SUBSET S : Total(h, T) = Total(f, T) + Total(g, T)}
<1>1. {} \in C BY TotalOfNone
<1>2. ASSUME NEW T \in C, NEW x \in S \ T PROVE T \cup {x} \in C
  <2>1. IsFiniteSet(T) BY FS_Subset
  <2>2. \A y \in T \cup {x} : f[y] \in Int /\ g[y] \in Int /\ h[y] \in Int
    <3>1. \A y \in S : f[y] \in Int /\ g[y] \in Int /\ h[y] \in Int OBVIOUS
    <3> QED BY <3>1
  <2>3. Total(f, T \cup {x}) = Total(f, T) + f[x] /\ Total(f, T) \in Int
    BY <2>1, <2>2, TotalAdds
  <2>4. Total(g, T \cup {x}) = Total(g, T) + g[x] /\ Total(g, T) \in Int
    BY <2>1, <2>2, TotalAdds
  <2>5. Total(h, T \cup {x}) = Total(h, T) + h[x] BY <2>1, <2>2, TotalAdds
  <2>6. f[x] \in Nat /\ g[x] \in Nat /\ h[x] = f[x] + g[x] OBVIOUS
  <2>7. Total(h, T) = Total(f, T) + Total(g, T) OBVIOUS
  <2>8. Total(h, T \cup {x}) = Total(f, T \cup {x}) + Total(g, T \cup {x})
    BY <2>3, <2>4, <2>5, <2>6, <2>7
  <2> QED BY <2>8
<1> HIDE DEF C
<1>3. S \in C BY <1>1, <1>2, FiniteInduction
<1> QED BY <1>3 DEF C

\* Shares of m in proportion to f, each rounded down, add up to m at most.
LEMMA SharesFit ==
  ASSUME NEW S, IsFiniteSet(S), NEW f, \A x \in S : f[x] \in Nat,
         NEW p \in Nat \ {0}, p = Total(f, S), NEW m \in Nat,
         NEW g, \A x \in S : g[x] = (f[x] * m) \div p
  PROVE  (\A x \in S : g[x] \in Nat) /\ Total(g, S) <= m
<1>1. \A x \in S : g[x] \in Nat /\ p * g[x] <= f[x] * m
  <2> SUFFICES ASSUME NEW x \in S PROVE g[x] \in Nat /\ p * g[x] <= f[x] * m OBVIOUS
  <2>1. PICK a \in Nat : a = f[x] * m
    <3>1. PICK y \in Nat : y = f[x] OBVIOUS
    <3>2. y * m \in Nat OBVIOUS
    <3> QED BY <3>1, <3>2
  <2> QED BY <2>1, DivBounds
<1> DEFINE C == {T \in SUBSET S : /\ Total(g, T) \in Nat /\ Total(f, T) \in Nat
                                  /\ p * Total(g, T) <= Total(f, T) * m}
<1>2. {} \in C
  <2>1. Total(g, {}) = 0 /\ Total(f, {}) = 0 BY TotalOfNone
  <2>2. p * 0 <= 0 * m OBVIOUS
  <2> QED BY <2>1, <2>2
<1>3. ASSUME NEW T \in C, NEW x \in S \ T PROVE T \cup {x} \in C
  <2>1. IsFiniteSet(T) BY FS_Subset
  <2>2. \A y \in T \cup {x} : f[y] \in Int /\ g[y] \in Int
    <3>1. \A y \in S : f[y] \in Int /\ g[y] \in Int BY <1>1
    <3> QED BY <3>1
  <2>3. Total(f, T \cup {x}) = Total(f, T) + f[x] BY <2>1, <2>2, TotalAdds
  <2>4. Total(g, T \cup {x}) = Total(g, T) + g[x] BY <2>1, <2>2, TotalAdds
  <2>5. PICK a, b, u, v \in Nat : a = Total(f, T) /\ b = Total(g, T) /\ u = f[x] /\ v = g[x]
    BY <1>1
  <2>6. p * b <= a * m /\ p * v <= u * m BY <1>1, <2>5
  <2>7. p * (b + v) = p * b + p * v /\ (a + u) * m = a * m + u * m OBVIOUS
  <2>8. p * b \in Nat /\ p * v \in Nat /\ a * m \in Nat /\ u * m \in Nat OBVIOUS
  <2>9. p * (b + v) <= (a + u) * m BY <2>6, <2>7, <2>8
  <2>10. b + v \in Nat /\ a + u \in Nat OBVIOUS
  <2> QED BY <2>3, <2>4, <2>5, <2>9, <2>10
<1> HIDE DEF C
<1>4. S \in C BY <1>2, <1>3, FiniteInduction
<1>5. PICK b \in Nat : b = Total(g, S) /\ p * b <= p * m BY <1>4 DEF C
<1>6. b <= m
  <2>0. SUFFICES ASSUME m + 1 <= b PROVE FALSE BY <1>5
  <2>1. p * (m + 1) <= p * b /\ p * (m + 1) \in Nat BY <2>0, TimesMonotone
  <2>2. p * (m + 1) = p * m + p /\ p * m \in Nat /\ p * b \in Nat OBVIOUS
  <2> QED BY <1>5, <2>1, <2>2
<1> QED BY <1>1, <1>5, <1>6

\* Summands that are zero may be left out.
LEMMA TotalOfPart ==
  ASSUME NEW S, IsFiniteSet(S), NEW T \in SUBSET S, NEW f, \A x \in S : f[x] \in Nat,
         \A x \in S \ T : f[x] = 0
  PROVE  Total(f, S) = Total(f, T)
<1> DEFINE C == {U \in SUBSET (S \ T) : Total(f, T \cup U) = Total(f, T)}
<1>1. IsFiniteSet(S \ T) /\ S = T \cup (S \ T) BY FS_Subset
<1>2. {} \in C
  <2>1. T \cup {} = T OBVIOUS
  <2> QED BY <2>1
<1>3. ASSUME NEW U \in C, U \subseteq S \ T, NEW x \in (S \ T) \ U PROVE U \cup {x} \in C
  <2>1. PICK V : V = T \cup U OBVIOUS
  <2>2. IsFiniteSet(V) /\ x \notin V
    <3>1. V \subseteq S /\ x \notin V BY <1>3, <2>1
    <3> QED BY <3>1, FS_Subset
  <2>3. \A y \in V \cup {x} : f[y] \in Int BY <1>3, <2>1
  <2>4. Total(f, V \cup {x}) = Total(f, V) + f[x] /\ Total(f, V) \in Int
    BY <2>2, <2>3, TotalAdds
  <2>5. Total(f, V \cup {x}) = Total(f, V) BY <2>4
  <2>6. V \cup {x} = T \cup (U \cup {x}) BY <2>1
  <2>7. Total(f, V) = Total(f, T) BY <1>3, <2>1
  <2>8. U \cup {x} \in SUBSET (S \ T) BY <1>3
  <2> QED BY <2>5, <2>6, <2>7, <2>8
<1>4. S \ T \in C
  <2> HIDE DEF C
  <2> QED BY <1>1, <1>2, <1>3, FiniteInduction
<1> QED BY <1>1, <1>4

(***************************************************************************)
(* Loops: a fold over the numbers up to n                                  *)
(***************************************************************************)

\* The recursion FoldLeft leaves to CHOOSE, the body of the loop as a function.
FoldRec(g, G, base, n) ==
  g = [s \in SUBSET (1 .. n) |-> IF s = {} THEN base ELSE G[<<g[s \ {Max(s)}], Max(s)>>]]

LEMMA LastOfPlaces ==
  ASSUME NEW k \in Nat, NEW s \in SUBSET (1 .. k + 1), s # {}
  PROVE  Max(s) \in s /\ s \ {Max(s)} \in SUBSET (1 .. k)
<1>1. k + 1 \in Nat /\ s \in SUBSET Nat /\ \A x \in s : x <= k + 1 OBVIOUS
<1>2. PICK m \in s : m = Max(s) /\ \A x \in s : x <= m BY <1>1, MaxOfBounded
<1>3. ASSUME NEW x \in s \ {m} PROVE x \in 1 .. k
  <2>1. x \in 1 .. k + 1 /\ m \in 1 .. k + 1 /\ x <= m /\ x # m BY <1>2
  <2> QED BY <2>1
<1> QED BY <1>2, <1>3

LEMMA FoldDefined ==
  ASSUME NEW G, NEW base
  PROVE  \A n \in Nat : \E g : FoldRec(g, G, base, n)
<1> DEFINE Step(g, s) == IF s = {} THEN base ELSE G[<<g[s \ {Max(s)}], Max(s)>>]
<1> DEFINE P == {n \in Nat : \E g : g = [s \in SUBSET (1 .. n) |-> Step(g, s)]}
<1>1. 0 \in P
  <2>1. \A s \in SUBSET (1 .. 0) : s = {} OBVIOUS
  <2>2. PICK g : g = [s \in SUBSET (1 .. 0) |-> base] OBVIOUS
  <2>3. g = [s \in SUBSET (1 .. 0) |-> Step(g, s)] BY <2>1, <2>2
  <2> QED BY <2>3
<1>2. ASSUME NEW n \in Nat, n \in P PROVE n + 1 \in P
  <2>1. PICK g : g = [s \in SUBSET (1 .. n) |-> Step(g, s)] BY <1>2
  <2>2. PICK h : h = [s \in SUBSET (1 .. n + 1) |-> Step(g, s)] OBVIOUS
  <2>3. SUBSET (1 .. n) \subseteq SUBSET (1 .. n + 1) OBVIOUS
  <2>4. \A s \in SUBSET (1 .. n) : h[s] = g[s] BY <2>1, <2>2, <2>3
  <2>5. \A s \in SUBSET (1 .. n + 1) : h[s] = Step(h, s)
    <3> SUFFICES ASSUME NEW s \in SUBSET (1 .. n + 1) PROVE h[s] = Step(h, s) OBVIOUS
    <3>1. h[s] = Step(g, s) BY <2>2
    <3>2. s # {} => h[s \ {Max(s)}] = g[s \ {Max(s)}] BY <2>4, LastOfPlaces
    <3> QED BY <3>1, <3>2
  <2>6. h = [s \in SUBSET (1 .. n + 1) |-> h[s]] BY <2>2
  <2>7. h = [s \in SUBSET (1 .. n + 1) |-> Step(h, s)] BY <2>5, <2>6
  <2>8. n + 1 \in Nat OBVIOUS
  <2> QED BY <2>7, <2>8
<1> HIDE DEF P
<1>3. \A n \in Nat : n \in P BY <1>1, <1>2, SetInduction
<1> QED BY <1>3 DEF P, FoldRec

\* What the loop keeps, turn after turn.
Keeps(G, X, base, n) ==
  /\ \A k \in 0 .. n : base \in X[k]
  /\ \A k \in 0 .. n - 1 : \A a \in X[k] : \A i \in 1 .. n : G[<<a, i>>] \in X[k + 1]

LEMMA FoldKeeps ==
  ASSUME NEW n \in Nat, NEW G, NEW X, NEW base, NEW g, FoldRec(g, G, base, n),
         Keeps(G, X, base, n)
  PROVE  \A k \in 0 .. n : \A s \in SUBSET (1 .. k) : g[s] \in X[k]
<1> DEFINE P == {k \in Nat : k <= n => \A s \in SUBSET (1 .. k) : g[s] \in X[k]}
<1>1. \A s \in SUBSET (1 .. n) :
        g[s] = IF s = {} THEN base ELSE G[<<g[s \ {Max(s)}], Max(s)>>]
  BY DEF FoldRec
<1>2. 0 \in P
  <2>1. \A s \in SUBSET (1 .. 0) : s = {} /\ s \in SUBSET (1 .. n) OBVIOUS
  <2>2. base \in X[0] BY DEF Keeps
  <2> QED BY <1>1, <2>1, <2>2
<1>3. ASSUME NEW k \in Nat, k \in P PROVE k + 1 \in P
  <2>0. SUFFICES ASSUME k + 1 <= n PROVE \A s \in SUBSET (1 .. k + 1) : g[s] \in X[k + 1]
    OBVIOUS
  <2>4. \A s \in SUBSET (1 .. k) : g[s] \in X[k]
    <3>1. k <= n BY <2>0
    <3> QED BY <1>3, <3>1
  <2> SUFFICES ASSUME NEW s \in SUBSET (1 .. k + 1) PROVE g[s] \in X[k + 1]
    OBVIOUS
  <2>1. s \in SUBSET (1 .. n) /\ k + 1 \in 0 .. n BY <2>0
  <2>2. CASE s = {}
    <3>1. base \in X[k + 1] BY <2>1 DEF Keeps
    <3> QED BY <1>1, <2>1, <2>2, <3>1
  <2>3. CASE s # {}
    <3>1. PICK m \in 1 .. n : m = Max(s) BY <2>1, <2>3, LastOfPlaces
    <3>2. PICK r : r = s \ {m} OBVIOUS
    <3>3. r \in SUBSET (1 .. k) BY <2>3, <3>1, <3>2, LastOfPlaces
    <3>4. g[r] \in X[k] BY <2>4, <3>3
    <3>5. g[s] = G[<<g[r], m>>] BY <1>1, <2>1, <2>3, <3>1, <3>2
    <3>6. k \in 0 .. n - 1 BY <2>0
    <3> QED BY <3>1, <3>4, <3>5, <3>6 DEF Keeps
  <2> QED BY <2>2, <2>3
<1> HIDE DEF P
<1>4. \A k \in Nat : k \in P BY <1>2, <1>3, SetInduction
<1> QED BY <1>4 DEF P

\* A loop whose body stays in D is a recursion some function satisfies.
LEMMA LoopExists ==
  ASSUME NEW n \in Nat, NEW D, NEW base \in D, NEW G,
         \A a \in D : \A i \in 1 .. n : G[<<a, i>>] \in D
  PROVE  \E h : FoldRec(h, G, base, n) /\ \A s \in SUBSET (1 .. n) : h[s] \in D
<1>1. PICK h : FoldRec(h, G, base, n) BY FoldDefined
<1>2. PICK X : X = [k \in 0 .. n |-> D] OBVIOUS
<1>3. ASSUME NEW k \in 0 .. n - 1, NEW a \in X[k], NEW i \in 1 .. n
      PROVE  G[<<a, i>>] \in X[k + 1]
  <2>1. k \in 0 .. n /\ k + 1 \in 0 .. n OBVIOUS
  <2> QED BY <1>2, <2>1
<1>4. Keeps(G, X, base, n) BY <1>2, <1>3 DEF Keeps
<1>5. n \in 0 .. n /\ X[n] = D BY <1>2
<1>6. \A s \in SUBSET (1 .. n) : h[s] \in X[n] BY <1>1, <1>4, <1>5, FoldKeeps
<1> QED BY <1>1, <1>5, <1>6

LEMMA LoopPlaces ==
  ASSUME NEW n \in Nat
  PROVE  \A s \in SUBSET (1 .. n) : s # {} => Max(s) \in 1 .. n /\ s \ {Max(s)} \in SUBSET (1 .. n)
<1>1. \A s \in SUBSET (1 .. n) : s \in SUBSET (1 .. n + 1) OBVIOUS
<1> QED BY <1>1, LastOfPlaces

LEMMA LastTurn ==
  ASSUME NEW k \in Nat
  PROVE  1 .. k + 1 # {} /\ Max(1 .. k + 1) = k + 1 /\ (1 .. k + 1) \ {k + 1} = 1 .. k
<1>1. PICK S : S = 1 .. k + 1 OBVIOUS
<1>2. S \in SUBSET Nat /\ k + 1 \in S /\ k + 1 \in Nat /\ \A x \in S : x <= k + 1 BY <1>1
<1>3. PICK m \in S : m = Max(S) /\ \A x \in S : x <= m BY <1>2, MaxOfBounded
<1>4. m \in Nat /\ m <= k + 1 /\ k + 1 <= m BY <1>2, <1>3
<1>5. m = k + 1 BY <1>2, <1>4
<1> QED BY <1>1, <1>2, <1>3, <1>5

\* One turn after the other, for as long as the body is at home in D.
Turns(g, G, D, base, n) ==
  /\ g[{}] = base
  /\ \A k \in 0 .. n - 1 : g[1 .. k] \in D => g[1 .. k + 1] = G[<<g[1 .. k], k + 1>>]

LEMMA LoopKeeps ==
  ASSUME NEW n \in Nat, NEW D, NEW G, NEW X, NEW base, NEW g, Turns(g, G, D, base, n),
         base \in X[0], \A k \in 0 .. n : X[k] \subseteq D,
         \A k \in 0 .. n - 1 : \A a \in X[k] : G[<<a, k + 1>>] \in X[k + 1]
  PROVE  \A k \in 0 .. n : g[1 .. k] \in X[k]
<1> DEFINE P == {k \in Nat : k <= n => g[1 .. k] \in X[k]}
<1>1. 0 \in P
  <2>1. 1 .. 0 = {} OBVIOUS
  <2>2. g[1 .. 0] = base BY <2>1 DEF Turns
  <2> QED BY <2>2
<1>2. ASSUME NEW k \in Nat, k \in P PROVE k + 1 \in P
  <2>1. SUFFICES ASSUME k + 1 <= n PROVE g[1 .. k + 1] \in X[k + 1] OBVIOUS
  <2>2. k \in 0 .. n /\ k \in 0 .. n - 1 /\ k <= n BY <2>1
  <2>3. g[1 .. k] \in X[k] BY <1>2, <2>2
  <2>4. g[1 .. k] \in D BY <2>2, <2>3
  <2>5. g[1 .. k + 1] = G[<<g[1 .. k], k + 1>>] BY <2>2, <2>4 DEF Turns
  <2> QED BY <2>2, <2>3, <2>5
<1> HIDE DEF P
<1>3. \A k \in Nat : k \in P BY <1>1, <1>2, SetInduction
<1> QED BY <1>3 DEF P

(***************************************************************************)
(* The loop that hands out threads                                         *)
(***************************************************************************)

\* No expert loses a thread, and n at most are handed out.
Filled(alloc, E, k) ==
  {a \in [E -> Nat] : /\ \A e \in E : alloc[e] <= a[e]
                      /\ Total(a, E) <= Total(alloc, E) + k}

OneMore(a, b) == [a EXCEPT ![b] = @ + 1]

LEMMA OneMoreIsFilled ==
  ASSUME NEW E, IsFiniteSet(E), NEW alloc \in [E -> Nat], NEW k \in Nat,
         NEW a \in Filled(alloc, E, k), NEW b
  PROVE  OneMore(a, b) \in Filled(alloc, E, k + 1) /\ a \in Filled(alloc, E, k + 1)
<1>1. a \in [E -> Nat] /\ (\A e \in E : alloc[e] <= a[e]) BY DEF Filled
<1>2. Total(a, E) \in Nat /\ Total(alloc, E) \in Nat BY <1>1, TotalIsNat
<1>3. a \in Filled(alloc, E, k + 1)
  <2>1. Total(a, E) <= Total(alloc, E) + k BY DEF Filled
  <2>2. Total(a, E) <= Total(alloc, E) + (k + 1) BY <1>2, <2>1
  <2> QED BY <1>1, <2>2 DEF Filled
<1>4. CASE b \notin E
  <2>1. OneMore(a, b) = a BY <1>1, <1>4 DEF OneMore
  <2> QED BY <1>3, <2>1
<1>5. CASE b \in E
  <2>1. PICK d : d = OneMore(a, b) OBVIOUS
  <2>2. /\ d \in [E -> Nat] /\ d[b] = a[b] + 1
        /\ \A e \in E \ {b} : d[e] = a[e]
    BY <1>1, <1>5, <2>1 DEF OneMore
  <2>3. \A e \in E : alloc[e] <= d[e]
    <3> SUFFICES ASSUME NEW e \in E PROVE alloc[e] <= d[e] OBVIOUS
    <3>1. alloc[e] \in Nat /\ a[e] \in Nat /\ alloc[e] <= a[e] BY <1>1
    <3>2. d[e] = a[e] \/ d[e] = a[e] + 1 BY <2>2
    <3> QED BY <3>1, <3>2
  <2>4. PICK R : R = E \ {b} /\ IsFiniteSet(R) BY FS_Subset
  <2>5. Total(a, E) = Total(a, R) + a[b] /\ Total(d, E) = Total(d, R) + d[b]
    <3>1. (\A e \in E : a[e] \in Int) /\ \A e \in E : d[e] \in Int BY <1>1, <2>2
    <3> QED BY <1>5, <2>4, <3>1, TotalTakesOut
  <2>6. Total(a, R) = Total(d, R) BY <2>2, <2>4, TotalSame
  <2>7. Total(a, R) \in Nat /\ a[b] \in Nat
    <3>1. \A e \in R : a[e] \in Nat BY <1>1, <2>4
    <3> QED BY <1>1, <1>5, <2>4, <3>1, TotalIsNat
  <2>8. Total(d, E) = Total(a, E) + 1 BY <2>2, <2>5, <2>6, <2>7
  <2>9. Total(a, E) <= Total(alloc, E) + k BY DEF Filled
  <2>10. Total(d, E) <= Total(alloc, E) + (k + 1) BY <1>2, <2>8, <2>9
  <2>11. d \in Filled(alloc, E, k + 1) BY <2>2, <2>3, <2>10 DEF Filled
  <2> QED BY <1>3, <2>1, <2>11
<1> QED BY <1>4, <1>5

LEMMA WaterFills ==
  ASSUME NEW E, IsFiniteSet(E), NEW alloc \in [E -> Nat], NEW n \in Nat,
         NEW G, NEW h, FoldRec(h, G, alloc, n),
         \A a \in [E -> Nat] : \A i \in 1 .. n :
            G[<<a, i>>] = a \/ \E b : G[<<a, i>>] = OneMore(a, b)
  PROVE  \A s \in SUBSET (1 .. n) : h[s] \in Filled(alloc, E, n)
<1> DEFINE X == [k \in 0 .. n |-> Filled(alloc, E, k)]
<1>1. \A k \in 0 .. n : alloc \in X[k]
  <2> SUFFICES ASSUME NEW k \in 0 .. n PROVE alloc \in Filled(alloc, E, k) OBVIOUS
  <2>1. Total(alloc, E) \in Nat BY TotalIsNat
  <2>2. Total(alloc, E) <= Total(alloc, E) + k BY <2>1
  <2>3. \A e \in E : alloc[e] \in Nat OBVIOUS
  <2>4. \A e \in E : alloc[e] <= alloc[e] BY <2>3
  <2> QED BY <2>2, <2>4 DEF Filled
<1>2. ASSUME NEW k \in 0 .. n - 1, NEW a \in X[k], NEW i \in 1 .. n
      PROVE  G[<<a, i>>] \in X[k + 1]
  <2>1. k \in Nat /\ k \in 0 .. n /\ k + 1 \in 0 .. n OBVIOUS
  <2>2. a \in Filled(alloc, E, k) BY <2>1
  <2>3. a \in [E -> Nat] BY <2>2 DEF Filled
  <2>4. \A b : OneMore(a, b) \in Filled(alloc, E, k + 1) /\ a \in Filled(alloc, E, k + 1)
    BY <2>1, <2>2, OneMoreIsFilled
  <2>5. G[<<a, i>>] \in Filled(alloc, E, k + 1) BY <2>3, <2>4
  <2> QED BY <2>1, <2>5
<1>3. X[n] = Filled(alloc, E, n) OBVIOUS
<1> HIDE DEF X
<1>4. Keeps(G, X, alloc, n) BY <1>1, <1>2 DEF Keeps
<1>5. \A s \in SUBSET (1 .. n) : h[s] \in X[n]
  <2>1. n \in 0 .. n OBVIOUS
  <2> QED BY <1>4, <2>1, FoldKeeps
<1> QED BY <1>3, <1>5

(***************************************************************************)
(* Splitting a range into slices                                           *)
(***************************************************************************)

\* The slices s of n threads are ordered ranges that hold 0 .. N - 1 once.
IsSplit(N, n, s) ==
  /\ \A t \in 0 .. n - 1 :
        /\ s[t][1] \in Nat /\ s[t][2] \in Nat
        /\ s[t][1] <= s[t][2] /\ s[t][2] <= N
  /\ \A t, u \in 0 .. n - 1 : t < u => s[t][2] <= s[u][1]
  /\ \A x \in 0 .. N - 1 : \E t \in 0 .. n - 1 : s[t][1] <= x /\ x < s[t][2]

EvenSpans(N, n) == [t \in 0 .. n - 1 |-> <<(N * t) \div n, (N * (t + 1)) \div n>>]

\* The even split is one: the row slices of the activation pass, and the
\* columns when no alignment can be honoured.
LEMMA EvenSplit ==
  ASSUME NEW N \in Nat, NEW n \in Nat \ {0}
  PROVE  IsSplit(N, n, EvenSpans(N, n))
<1> DEFINE cut(t) == (N * t) \div n
<1>1. \A t \in Nat : cut(t) \in Nat
  <2>1. \A t \in Nat : N * t \in Nat OBVIOUS
  <2> QED BY <2>1, DivBounds
<1>2. \A t, u \in Nat : t <= u => cut(t) <= cut(u)
  <2> SUFFICES ASSUME NEW t \in Nat, NEW u \in Nat, t <= u PROVE cut(t) <= cut(u)
      OBVIOUS
  <2>1. N * t <= N * u /\ N * t \in Nat /\ N * u \in Nat BY TimesMonotone
  <2>2. cut(t) \in Nat /\ n * cut(t) <= N * t BY <2>1, DivBounds
  <2>3. n * cut(t) \in Nat BY <2>2
  <2>4. n * cut(t) <= N * u
    <3> HIDE DEF cut
    <3> QED BY <2>1, <2>2, <2>3
  <2> QED BY <2>1, <2>2, <2>4, DivCompares
<1>3. cut(n) = N
  <2>1. N * n \in Nat /\ n * N = N * n OBVIOUS
  <2>2. N <= cut(n) BY <2>1, DivCompares
  <2>3. N * n < n * (N + 1) /\ N + 1 \in Nat BY <2>1
  <2>4. cut(n) < N + 1 BY <2>1, <2>3, DivCompares
  <2>5. cut(n) \in Nat BY <1>1
  <2> QED BY <2>2, <2>4, <2>5
<1>4. \A x \in 0 .. N - 1 : \E t \in 0 .. n - 1 : cut(t) <= x /\ x < cut(t + 1)
  <2> SUFFICES ASSUME NEW x \in 0 .. N - 1
               PROVE \E t \in 0 .. n - 1 : cut(t) <= x /\ x < cut(t + 1)
      OBVIOUS
  <2>1. x \in Nat /\ x + 1 \in Nat /\ N \in Nat \ {0} /\ x + 1 <= N OBVIOUS
  <2>2. PICK a \in Nat : a = n * (x + 1) - 1
    <3>1. n * (x + 1) = n * x + n /\ n * x \in Nat BY <2>1
    <3> QED BY <3>1
  <2>3. a < n * N
    <3>1. n * (x + 1) <= n * N BY <2>1, TimesMonotone
    <3>2. n * (x + 1) \in Nat /\ n * N \in Nat BY <2>1
    <3> QED BY <2>2, <3>1, <3>2
  <2>4. PICK t \in Nat : t = a \div N /\ N * t <= a /\ a < N * (t + 1)
        BY <2>1, DivBounds
  <2>5. t < n
    <3>1. a < N * n BY <2>3
    <3> QED BY <2>1, <2>4, <3>1, DivCompares
  <2>6. cut(t) <= x
    <3>1. N * t \in Nat /\ n * (x + 1) \in Nat BY <2>1
    <3>2. N * t < n * (x + 1) BY <2>2, <2>4, <3>1
    <3>3. cut(t) < x + 1 BY <3>1, <3>2, <2>1, DivCompares
    <3>4. cut(t) \in Nat BY <1>1
    <3> HIDE DEF cut
    <3> QED BY <3>3, <3>4, <2>1
  <2>7. x < cut(t + 1)
    <3>1. t + 1 \in Nat /\ N * (t + 1) \in Nat /\ n * (x + 1) \in Nat BY <2>1
    <3>2. n * (x + 1) <= N * (t + 1) BY <2>2, <2>4, <3>1
    <3>3. x + 1 <= cut(t + 1) BY <3>1, <3>2, <2>1, DivCompares
    <3>4. cut(t + 1) \in Nat BY <1>1, <3>1
    <3> HIDE DEF cut
    <3> QED BY <3>3, <3>4, <2>1
  <2>8. t \in 0 .. n - 1 BY <2>5
  <2> QED BY <2>6, <2>7, <2>8
<1>5. \A t \in 0 .. n - 1 :
        EvenSpans(N, n)[t][1] = cut(t) /\ EvenSpans(N, n)[t][2] = cut(t + 1)
  BY DEF EvenSpans
<1>6. \A t \in 0 .. n - 1 : t \in Nat /\ t + 1 \in Nat /\ t + 1 <= n OBVIOUS
<1> HIDE DEF cut
<1>7. \A t \in 0 .. n - 1 :
        /\ cut(t) \in Nat /\ cut(t + 1) \in Nat
        /\ cut(t) <= cut(t + 1) /\ cut(t + 1) <= N
  BY <1>1, <1>2, <1>3, <1>6
<1>8. \A t, u \in 0 .. n - 1 : t < u => cut(t + 1) <= cut(u) BY <1>2, <1>6
<1> QED
  <2> DEFINE s == EvenSpans(N, n)
  <2> HIDE DEF s
  <2>1. \A t \in 0 .. n - 1 : s[t][1] = cut(t) /\ s[t][2] = cut(t + 1) BY <1>5 DEF s
  <2>2. IsSplit(N, n, s) BY <1>4, <1>7, <1>8, <2>1 DEF IsSplit
  <2> QED BY <2>2 DEF s

(***************************************************************************)
(* Sequences that list a set                                               *)
(***************************************************************************)

LEMMA SeqIsBounded ==
  ASSUME NEW q \in Seq(Nat)
  PROVE  \E b \in Nat : \A i \in DOMAIN q : q[i] <= b
<1> DEFINE S == {k \in Nat : \E b \in Nat : \A i \in DOMAIN q : i <= k => q[i] <= b}
<1>1. /\ Len(q) \in Nat /\ DOMAIN q = 1 .. Len(q)
      /\ \A i \in DOMAIN q : i \in Nat \ {0} /\ i <= Len(q) /\ q[i] \in Nat
  OBVIOUS
<1>2. 0 \in S
  <2>1. \A i \in DOMAIN q : ~(i <= 0) BY <1>1
  <2> QED BY <2>1
<1>3. ASSUME NEW k \in Nat, k \in S PROVE k + 1 \in S
  <2>1. PICK b \in Nat : \A i \in DOMAIN q : i <= k => q[i] <= b BY <1>3
  <2>2. PICK d \in Nat : k + 1 \in DOMAIN q => d = q[k + 1] BY <1>1
  <2>3. \A i \in DOMAIN q : i <= k + 1 => q[i] <= b + d
    <3> SUFFICES ASSUME NEW i \in DOMAIN q, i <= k + 1 PROVE q[i] <= b + d OBVIOUS
    <3>1. q[i] \in Nat /\ i \in Nat BY <1>1
    <3>2. i <= k \/ i = k + 1 BY <3>1
    <3>3. q[i] <= b \/ q[i] = d BY <2>1, <2>2, <3>2
    <3> QED BY <3>1, <3>3
  <2>4. b + d \in Nat /\ k + 1 \in Nat OBVIOUS
  <2> QED BY <2>3, <2>4
<1> HIDE DEF S
<1>4. \A k \in Nat : k \in S BY <1>2, <1>3, SetInduction
<1>5. Len(q) \in S BY <1>1, <1>4
<1>6. PICK b \in Nat : \A i \in DOMAIN q : i <= Len(q) => q[i] <= b BY <1>5 DEF S
<1> QED BY <1>1, <1>6

\* A strict total order of S, as a set of pairs.
IsOrder(R, S) ==
  /\ \A e \in S : <<e, e>> \notin R
  /\ \A e, f, g \in S : <<e, f>> \in R /\ <<f, g>> \in R => <<e, g>> \in R
  /\ \A e, f \in S : e # f => <<e, f>> \in R \/ <<f, e>> \in R

\* What precedes each element, and a sequence that takes for place i the
\* element with i - 1 elements before it.
Precedes(before, R, S) == \A e \in S : before[e] = {f \in S : <<f, e>> \in R}

TakesByRank(s, before, S) ==
  /\ DOMAIN s = 1 .. Cardinality(S)
  /\ \A i \in 1 .. Cardinality(S) : (\E e \in S : Cardinality(before[e]) = i - 1) =>
       s[i] \in S /\ Cardinality(before[s[i]]) = i - 1

\* s holds each element of S at exactly one place.
Enumerates(s, S) ==
  /\ DOMAIN s = 1 .. Cardinality(S)
  /\ \A i \in DOMAIN s : s[i] \in S
  /\ \A e \in S : \E i \in DOMAIN s : s[i] = e
  /\ \A i, k \in DOMAIN s : s[i] = s[k] => i = k

\* Such a sequence enumerates the set: the number of elements before one is
\* a rank no two share.
LEMMA RanksEnumerate ==
  ASSUME NEW S, IsFiniteSet(S), NEW R, IsOrder(R, S),
         NEW before, Precedes(before, R, S), NEW s, TakesByRank(s, before, S)
  PROVE  Enumerates(s, S)
<1> DEFINE B(e) == before[e]
           rank(e) == Cardinality(B(e))
           m == Cardinality(S)
<1>1. m \in Nat BY FS_CardinalityType
<1>2. \A e \in S : B(e) \subseteq S /\ e \notin B(e) /\ IsFiniteSet(B(e)) /\ rank(e) \in Nat
  <2> SUFFICES ASSUME NEW e \in S
               PROVE B(e) \subseteq S /\ e \notin B(e) /\ IsFiniteSet(B(e)) /\ rank(e) \in Nat
      OBVIOUS
  <2>1. B(e) \subseteq S /\ e \notin B(e) BY DEF IsOrder, Precedes
  <2> HIDE DEF B
  <2>2. IsFiniteSet(B(e)) BY <2>1, FS_Subset
  <2> QED BY <2>1, <2>2, FS_CardinalityType
<1>3. \A e \in S : rank(e) < m
  <2> SUFFICES ASSUME NEW e \in S PROVE rank(e) < m OBVIOUS
  <2>1. IsFiniteSet(S \ {e}) /\ Cardinality(S \ {e}) = m - 1 BY FS_RemoveElement
  <2>2. B(e) \in SUBSET (S \ {e}) BY <1>2
  <2> HIDE DEF B
  <2>3. rank(e) <= m - 1 BY <2>1, <2>2, FS_Subset
  <2> QED BY <1>1, <1>2, <2>3
<1>4. \A e, f \in S : <<e, f>> \in R => rank(e) < rank(f)
  <2> SUFFICES ASSUME NEW e \in S, NEW f \in S, <<e, f>> \in R PROVE rank(e) < rank(f)
      OBVIOUS
  <2>1. ASSUME NEW g \in B(e) \cup {e} PROVE g \in B(f)
    <3>1. B(e) = {h \in S : <<h, e>> \in R} /\ B(f) = {h \in S : <<h, f>> \in R}
      BY DEF Precedes
    <3>2. g = e \/ (g \in S /\ <<g, e>> \in R) BY <3>1
    <3>3. g \in S /\ <<g, f>> \in R BY <3>2 DEF IsOrder
    <3> QED BY <3>1, <3>3
  <2>2. IsFiniteSet(B(e)) /\ IsFiniteSet(B(f)) /\ e \notin B(e)
        /\ rank(e) \in Nat /\ rank(f) \in Nat
    BY <1>2
  <2> HIDE DEF B
  <2>3. Cardinality(B(e) \cup {e}) = rank(e) + 1 BY <2>2, FS_AddElement
  <2>4. Cardinality(B(e) \cup {e}) <= rank(f)
    <3>1. B(e) \cup {e} \in SUBSET B(f) BY <2>1
    <3> QED BY <2>2, <3>1, FS_Subset
  <2> QED BY <2>2, <2>3, <2>4
<1> HIDE DEF B
<1>5. \A e, f \in S : rank(e) = rank(f) => e = f
  <2> SUFFICES ASSUME NEW e \in S, NEW f \in S, e # f PROVE rank(e) # rank(f) OBVIOUS
  <2>1. rank(e) < rank(f) \/ rank(f) < rank(e) BY <1>4 DEF IsOrder
  <2> QED BY <1>2, <2>1
<1>6. \A i \in 1 .. m : \E e \in S : rank(e) = i - 1
  <2> DEFINE r == [e \in S |-> rank(e)]
  <2>1. r \in [S -> 0 .. m - 1] BY <1>1, <1>2, <1>3
  <2>2. \A e, f \in S : r[e] = r[f] => e = f BY <1>5
  <2>3. r \in Injection(S, 0 .. m - 1) BY <2>1, <2>2 DEF Injection, IsInjective
  <2>4. IsFiniteSet(0 .. m - 1) /\ Cardinality(0 .. m - 1) = m
    <3>1. m - 1 \in Int /\ (IF 0 > m - 1 THEN 0 ELSE m - 1 - 0 + 1) = m BY <1>1
    <3> QED BY <3>1, FS_Interval
  <2> HIDE DEF r
  <2>5. r \in Surjection(S, 0 .. m - 1) BY <2>3, <2>4, FS_Injection
  <2>6. \A k \in 0 .. m - 1 : \E e \in S : r[e] = k BY <2>5 DEF Surjection
  <2>7. \A i \in 1 .. m : i - 1 \in 0 .. m - 1 BY <1>1
  <2> QED BY <2>6, <2>7 DEF r
<1>7. \A i \in 1 .. m : s[i] \in S /\ rank(s[i]) = i - 1
  BY <1>6 DEF B, TakesByRank
<1>8. DOMAIN s = 1 .. m BY DEF TakesByRank
<1>9. \A i, k \in 1 .. m : s[i] = s[k] => i = k
  <2> SUFFICES ASSUME NEW i \in 1 .. m, NEW k \in 1 .. m, s[i] = s[k] PROVE i = k OBVIOUS
  <2>1. i - 1 = k - 1 BY <1>7
  <2> QED BY <2>1
<1>10. \A e \in S : \E i \in 1 .. m : s[i] = e
  <2> SUFFICES ASSUME NEW e \in S PROVE \E i \in 1 .. m : s[i] = e OBVIOUS
  <2>1. PICK i \in 1 .. m : i - 1 = rank(e)
    <3>1. rank(e) + 1 \in 1 .. m /\ (rank(e) + 1) - 1 = rank(e) BY <1>1, <1>2, <1>3
    <3> QED BY <3>1
  <2> HIDE DEF rank
  <2>2. rank(s[i]) = rank(e) BY <1>7, <2>1
  <2> QED BY <1>5, <1>7, <2>2
<1> QED BY <1>7, <1>8, <1>9, <1>10 DEF Enumerates

\* Of some places with errors, one comes first: by its error, then by itself.
LEMMA LeastOf ==
  ASSUME NEW S \in SUBSET Nat, S # {}
  PROVE  \E m \in S : \A x \in S : m <= x
<1> DEFINE R == OpToRel(<, Nat)
<1>1. PICK m \in S : \A x \in S : ~(<<x, m>> \in R)
  <2> HIDE DEF R
  <2> QED BY NatLessThanWellFounded, WFMin DEF R
<1>2. \A x \in S : m <= x
  <2>1. \A z, x \in Nat : z < x => <<z, x>> \in R BY DEF OpToRel
  <2> HIDE DEF R
  <2> SUFFICES ASSUME NEW x \in S PROVE m <= x OBVIOUS
  <2>2. x \in Nat /\ m \in Nat OBVIOUS
  <2>3. ~(x < m) BY <1>1, <2>1, <2>2
  <2> QED BY <2>2, <2>3
<1> QED BY <1>2

LEMMA LeastPlace ==
  ASSUME NEW F \in SUBSET Nat, F # {}, NEW w, \A i \in F : w[i] \in Nat
  PROVE  \E i \in F : \A j \in F : w[i] < w[j] \/ (w[i] = w[j] /\ i <= j)
<1>1. PICK W : W = {w[i] : i \in F} OBVIOUS
<1>2. W \in SUBSET Nat /\ W # {} BY <1>1
<1>3. PICK m \in W : \A x \in W : m <= x BY <1>2, LeastOf
<1>4. PICK I : I = {i \in F : w[i] = m} OBVIOUS
<1>5. I \in SUBSET Nat /\ I # {} BY <1>1, <1>3, <1>4
<1>6. PICK i \in I : \A j \in I : i <= j BY <1>5, LeastOf
<1>7. i \in F /\ w[i] = m BY <1>4, <1>6
<1>8. ASSUME NEW j \in F PROVE w[i] < w[j] \/ (w[i] = w[j] /\ i <= j)
  <2>1. w[j] \in W /\ m \in Nat /\ w[j] \in Nat BY <1>1, <1>2, <1>3
  <2>2. m <= w[j] BY <1>3, <2>1
  <2>3. CASE w[j] = m
    <3>1. j \in I BY <1>4, <2>3
    <3> QED BY <1>6, <1>7, <2>3, <3>1
  <2>4. CASE w[j] # m BY <1>7, <2>1, <2>2, <2>4
  <2> QED BY <2>3, <2>4
<1> QED BY <1>7, <1>8

(***************************************************************************)
(* Batches                                                                 *)
(***************************************************************************)

\* Rounds of b places cover E places: a place is in the round its quotient
\* names and in no other.
InRound(k, r, b) == 1 + (r - 1) * b <= k /\ k <= (1 + (r - 1) * b) + b - 1

LEMMA RoundsCoverPlaces ==
  ASSUME NEW E \in Nat \ {0}, NEW b \in Nat \ {0}
  PROVE  /\ CeilDiv(E, b) \in Nat \ {0}
         /\ \A r \in 1 .. CeilDiv(E, b) : 1 + (r - 1) * b \in 1 .. E
         /\ \A k \in 1 .. E :
              /\ 1 + (k - 1) \div b \in 1 .. CeilDiv(E, b)
              /\ \A r \in 1 .. CeilDiv(E, b) : InRound(k, r, b) <=> r = 1 + (k - 1) \div b
<1>1. PICK R : R = CeilDiv(E, b) OBVIOUS
<1>2. R = (E + b - 1) \div b /\ E + b - 1 \in Nat BY <1>1 DEF CeilDiv
<1>3. R \in Nat /\ b * R <= E + b - 1 BY <1>2, DivBounds
<1>4. ASSUME NEW r \in 1 .. R PROVE 1 + (r - 1) * b \in 1 .. E
  <2>1. b * r <= b * R /\ b * r \in Nat BY <1>3, TimesMonotone
  <2>2. (r - 1) * b = b * r - b /\ (r - 1) * b \in Nat
    <3>1. r - 1 \in Nat BY <1>3
    <3> QED BY <3>1
  <2> QED BY <1>3, <2>1, <2>2
<1>5. ASSUME NEW k \in 1 .. E, NEW q, q = (k - 1) \div b
      PROVE  /\ q \in Nat /\ 1 + q \in 1 .. R
             /\ \A r \in 1 .. R :
                  (1 + (r - 1) * b <= k /\ k <= (1 + (r - 1) * b) + b - 1) <=> r = 1 + q
  <2>1. q \in Nat /\ b * q <= k - 1 /\ k - 1 < b * (q + 1) BY <1>5, DivBounds
  <2>2. b * (q + 1) = b * q + b /\ b * q \in Nat BY <2>1
  <2>3. q + 1 <= R
    <3>1. b * (q + 1) <= E + b - 1 BY <2>1, <2>2
    <3> QED BY <1>2, <2>1, <3>1, DivCompares
  <2>4. ASSUME NEW r \in 1 .. R
        PROVE  (1 + (r - 1) * b <= k /\ k <= (1 + (r - 1) * b) + b - 1) <=> r = 1 + q
    <3>1. PICK p \in Nat : r = p + 1
      <4>1. r - 1 \in Nat /\ r = (r - 1) + 1 BY <1>3
      <4> QED BY <4>1
    <3>2. (r - 1) * b = b * p /\ b * p \in Nat /\ b * (p + 1) = b * p + b BY <3>1
    <3>3. (1 + (r - 1) * b <= k /\ k <= (1 + (r - 1) * b) + b - 1)
            <=> (b * p <= k - 1 /\ k - 1 < b * (p + 1))
      BY <3>2
    <3>4. ASSUME b * p <= k - 1, k - 1 < b * (p + 1) PROVE p = q
      <4>1. p <= q BY <1>5, <3>4, DivCompares
      <4>2. q < p + 1 BY <1>5, <3>1, <3>4, DivCompares
      <4> QED BY <2>1, <3>1, <4>1, <4>2
    <3>5. p = q => b * p <= k - 1 /\ k - 1 < b * (p + 1) BY <2>1
    <3>6. r = 1 + q <=> p = q BY <2>1, <3>1
    <3> QED BY <3>3, <3>4, <3>5, <3>6
  <2> QED BY <1>3, <2>1, <2>3, <2>4
<1>6. R # 0
  <2>1. 1 \in 1 .. E OBVIOUS
  <2>2. 1 + (1 - 1) \div b \in 1 .. R /\ (1 - 1) \div b \in Nat BY <1>5, <2>1
  <2> QED BY <1>3, <2>2
<1> QED BY <1>1, <1>3, <1>4, <1>5, <1>6 DEF InRound

\* Quotient and remainder are what they are written as.
LEMMA DivIs ==
  ASSUME NEW b \in Nat \ {0}, NEW q \in Nat, NEW l \in 0 .. b - 1, NEW a, a = b * q + l
  PROVE  a \in Nat /\ a \div b = q /\ a % b = l
<1>1. b * q \in Nat /\ b * (q + 1) = b * q + b OBVIOUS
<1>2. a \in Nat /\ b * q <= a /\ a < b * (q + 1) BY <1>1
<1>3. PICK d \in Nat : d = a \div b BY <1>2, DivBounds
<1>4. q <= d /\ d < q + 1 BY <1>2, <1>3, DivCompares
<1>5. d = q BY <1>4
<1>6. a % b \in 0 .. b - 1 /\ a = b * (a \div b) + (a % b) BY <1>2
<1>7. a % b = l BY <1>1, <1>3, <1>5, <1>6
<1> QED BY <1>2, <1>3, <1>5, <1>7
=============================================================================
