---------------------------- MODULE MCWarmLatch ----------------------------
(***************************************************************************)
(* TLC instance of WarmLatch.  Three threads: one warms, one sleeps and    *)
(* one arrives late, or two sleep on the same latch, or two pools are      *)
(* warmed at once.  A pool gets at most one latch between two clears, and  *)
(* a clear needs every thread outside, so two latches serve two pools.     *)
(***************************************************************************)
EXTENDS WarmLatch
=============================================================================
