---------------------------- MODULE MCAutoTuner ----------------------------
(***************************************************************************)
(* TLC instance of AutoTuner: two layers, two candidates, three evaluation *)
(* slots (the third runs the first candidate again).                       *)
(***************************************************************************)
EXTENDS AutoTuner

CONSTANTS l1, l2, a1, a2

TwoLayers == <<l1, l2>>
TwoCandidates == <<a1, a2>>

\* The instance meets the hypothesis of the theorem.
ASSUME InstanceIsDistinct == LayersAreDistinct

\* Serial: every layer's five tuning calls, and one more round to pick.
\* Concurrent: enough for a layer to settle, or for its entry to be
\* written anew during its evaluation, while the other is created.
CallBound == [serial |-> 12, concurrent |-> 9]
=============================================================================
