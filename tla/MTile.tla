------------------------------- MODULE MTile -------------------------------
(***************************************************************************)
(* Grouped matmul and fused MoE calls on the executors that split experts  *)
(* by rows or not at all: the plans of MTilePlan run by MoeTeam, and what  *)
(* the call promises.  Calls that select ALGO 3 are NTile's.               *)
(***************************************************************************)
EXTENDS MTilePlan, MoeTeam

CONSTANT Calls
ASSUME CallsAreRuns == \A c \in Calls : IsCall(c) /\ c.threads \in 1 .. MaxTeam
ASSUME CallsSplitRows ==
    \A c \in Calls : Select(c, 1) # 3 /\ (c.fusedMoe => Select(c, 2) # 3)
\* A source read by columns is not also written over row by row.
ASSUME SourceIsByRows == \A c \in Calls : ~(c.reuse /\ c.transA)

CallJobs == {Job(c) : c \in Calls}
=============================================================================
