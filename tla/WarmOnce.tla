------------------------------ MODULE WarmOnce ------------------------------
(***************************************************************************)
(* What the AUTO mixed-in-place warm latch promises its callers: of all    *)
(* the calls that name one key, the first runs the warm, the ones that     *)
(* arrive while it runs are held back, and the ones that arrive after it   *)
(* go straight through.  Nothing is said of mutexes or condition           *)
(* variables; module WarmLatch has those and implements this one.          *)
(***************************************************************************)
CONSTANTS Threads,   \* calling threads
          Keys       \* weight-pool fingerprints

VARIABLES warm,      \* warm[k]: has the warm of k not begun, begun, or ended
          role,      \* role[t]: what t's call is doing
          at         \* at[t]: the key of t's current or latest call

onceVars == <<warm, role, at>>

OnceInit ==
    /\ warm = [k \in Keys |-> "cold"]
    /\ role = [t \in Threads |-> "out"]
    /\ at \in [Threads -> Keys]

\* A call works out which weights it is about.
Name(t, k) ==
    /\ role[t] = "out"
    /\ at' = [at EXCEPT ![t] = k]
    /\ UNCHANGED <<warm, role>>

RoleOnArrival(k) ==
    IF warm[k] = "cold" THEN "owner"
    ELSE IF warm[k] = "warming" THEN "waiter" ELSE "through"

\* It arrives: it owns the warm, waits for it, or finds it done.
Arrive(t) ==
    /\ role[t] = "out"
    /\ role' = [role EXCEPT ![t] = RoleOnArrival(at[t])]
    /\ warm' = [warm EXCEPT ![at[t]] = IF @ = "cold" THEN "warming" ELSE @]
    /\ UNCHANGED at

\* The owner's warm has ended and is on record.
Complete(t) ==
    /\ role[t] = "owner"
    /\ role' = [role EXCEPT ![t] = "through"]
    /\ warm' = [warm EXCEPT ![at[t]] = "warm"]
    /\ UNCHANGED at

\* A call that was held back goes on.
Release(t) ==
    /\ role[t] = "waiter"
    /\ warm[at[t]] = "warm"
    /\ role' = [role EXCEPT ![t] = "through"]
    /\ UNCHANGED <<warm, at>>

\* The call returns to the framework.
Leave(t) ==
    /\ role[t] = "through"
    /\ role' = [role EXCEPT ![t] = "out"]
    /\ UNCHANGED <<warm, at>>

\* The completion records are dropped; no call may be inside.
Forget ==
    /\ \A t \in Threads : role[t] = "out"
    /\ warm' = [k \in Keys |-> "cold"]
    /\ UNCHANGED <<role, at>>

OnceNext ==
    \/ \E t \in Threads :
          \/ \E k \in Keys : Name(t, k)
          \/ Arrive(t) \/ Complete(t) \/ Release(t) \/ Leave(t)
    \/ Forget

OnceSpec ==
    /\ OnceInit /\ [][OnceNext]_onceVars
    /\ \A t \in Threads : WF_onceVars(Complete(t) \/ Release(t) \/ Leave(t))
=============================================================================
