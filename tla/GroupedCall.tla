---------------------------- MODULE GroupedCall ----------------------------
(***************************************************************************)
(* What a grouped matmul promises its caller: every active expert's output *)
(* goes from untouched to its matrix product and, if the call has a second *)
(* stage (an activation that runs as a pass of its own, or the second      *)
(* multiplication of a fused MoE call), from there to its final form,      *)
(* never back; and the call returns, with every output final unless it     *)
(* failed.                                                                 *)
(***************************************************************************)
VARIABLES
    experts,    \* the active experts of the call
    pass,       \* the call has a second stage
    out,        \* [experts -> "none", "product" or "final"]
    failed,     \* an allocation or a route has failed
    returned

vars == <<experts, pass, out, failed, returned>>

Init ==
    /\ pass \in BOOLEAN
    /\ out = [e \in experts |-> "none"]
    /\ ~failed
    /\ ~returned

Call == UNCHANGED <<experts, pass>>

Multiplied(e) ==
    /\ ~returned /\ pass /\ out[e] = "none"
    /\ out' = [out EXCEPT ![e] = "product"]
    /\ Call /\ UNCHANGED <<failed, returned>>

Finished(e) ==
    /\ ~returned /\ out[e] = (IF pass THEN "product" ELSE "none")
    /\ out' = [out EXCEPT ![e] = "final"]
    /\ Call /\ UNCHANGED <<failed, returned>>

Fail ==
    /\ ~returned /\ ~failed /\ failed' = TRUE
    /\ Call /\ UNCHANGED <<out, returned>>

Return ==
    /\ ~returned /\ returned' = TRUE
    /\ failed \/ \A e \in experts : out[e] = "final"
    /\ Call /\ UNCHANGED <<out, failed>>

Next == Fail \/ Return \/ \E e \in experts : Multiplied(e) \/ Finished(e)

Spec == Init /\ [][Next]_vars /\ WF_vars(Next)
=============================================================================
