------------------------------- MODULE Grouped -------------------------------
(***************************************************************************)
(* What the planners of a grouped matmul share: the shape of a call, the   *)
(* host's cores, and the loop that hands out threads one at a time.  A     *)
(* call c is a record with at least threads and M, the rows of each        *)
(* expert.                                                                 *)
(***************************************************************************)
EXTENDS Integers, Sequences, FiniteSetsExt, SequencesExt

CONSTANT CcdLanes   \* 8: cores that share an L3
ASSUME CcdHasLanes == CcdLanes \in Nat \ {0}

AtLeastOne(n) == IF n > 1 THEN n ELSE 1
AtMost(n, m) == IF n < m THEN n ELSE m
Larger(n, m) == IF n > m THEN n ELSE m
CeilDiv(n, m) == (n + m - 1) \div m
Total(f, S) == FoldSet(LAMBDA e, sum : sum + f[e], 0, S)

\* The elements of S, each after those that come before it.
Sorted(S, Before(_, _)) ==
    [i \in 1 .. Cardinality(S) |->
        CHOOSE e \in S : Cardinality({f \in S : Before(f, e)}) = i - 1]

Ops(c) == Len(c.M)
Experts(c) == 1 .. Ops(c)
Active(c) == {e \in Experts(c) : c.M[e] > 0}
MaxM(c) == Max({c.M[e] : e \in Experts(c)})

CcdSize(c) == AtMost(CcdLanes, c.threads)
NumCcds(c) == CeilDiv(c.threads, CcdSize(c))

\* Gives n threads one at a time, each to the expert of S below its cap that
\* Better prefers; stops when every expert is at its cap.
WaterFill(alloc, cap, S, n, Better(_, _, _)) ==
    LET GiveOne(a, i) ==
            LET open == {e \in S : a[e] < cap[e]}
                best == CHOOSE e \in open : \A f \in open \ {e} : Better(a, e, f)
            IN  IF open = {} THEN a ELSE [a EXCEPT ![best] = @ + 1]
    IN  FoldLeft(GiveOne, alloc, [i \in 1 .. n |-> i])
=============================================================================
