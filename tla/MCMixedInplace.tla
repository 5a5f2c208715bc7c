--------------------------- MODULE MCMixedInplace ---------------------------
(***************************************************************************)
(* TLC instances of MixedInplace.                                          *)
(***************************************************************************)
EXTENDS MixedInplace, TLC

CONSTANTS w1, w2

\* Two layers share an expert: one pool is inside the other.
TwoPools == {{w1}, {w1, w2}}
OnePool == {{w1}}

Env(algo, warmUp, flaky) ==
    [algo |-> algo, warmUp |-> warmUp, flaky |-> flaky]

\* Any first call when packs can be allocated; a warm-up prompt when not.
AnyFirst == Env("auto", FALSE, {})
WarmUpFirst == Env("auto", TRUE, {w2})
PinnedToPrompt == Env("prompt", FALSE, {})
PinnedToDecode == Env("decode", FALSE, {})
EveryEnvironment == {AnyFirst, WarmUpFirst, PinnedToPrompt, PinnedToDecode}
OnlyAnyFirst == {AnyFirst}

\* The hypotheses of MixedInplaceProofs hold in the instance with one layout.
ASSUME InstanceIsSound ==
    FailuresAreAskedFor /\ (PromptLayouts = DecodeLayouts => OneLayout)

ThreadSymmetry == Permutations(Threads)
=============================================================================
