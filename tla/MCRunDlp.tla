------------------------------ MODULE MCRunDlp ------------------------------
(***************************************************************************)
(* TLC instances of RunDlp: the configurations a process may start in.     *)
(***************************************************************************)
EXTENDS RunDlp, TLC

None == <<0, 0>>
Setting(type, cached, zps, const, fail) ==
    [cacheType |-> type, zpCache |-> cached, zps |-> zps, const |-> const,
     fail |-> fail]

\* A layer has one source zero point.  With in-place caching the weights
\* must also be symmetric and the compensation cached, as run_dlp notes
\* (aocl_kernel.cpp:1041-1050), and no call on them may go without it.  Sums
\* that cannot be allocated are left to the configurations where the weights
\* stay plain, and to symmetric sources, whose sums do not read the weights.
SupportedSettings ==
    {Setting(type, cached, {None, <<1, 0>>, <<0, 1>>, <<1, 1>>}, Weights, {}) :
        type \in {0, 1}, cached \in BOOLEAN}
    \cup {Setting(2, TRUE, {z}, Weights, {f}) :
            z \in {None, <<1, 0>>, <<0, 1>>}, f \in {"interim", "fallback"}}
    \cup {Setting(1, FALSE, {None, <<1, 0>>}, {}, {})}
    \cup {Setting(type, TRUE, {<<1, 0>>, <<1, 1>>}, Weights, {"sums"}) : type \in {0, 1}}
    \cup {Setting(2, TRUE, {<<0, 1>>}, Weights, {"interim", "sums"})}

\* Compensation that is computed but, for weights that may change, not cached.
ChangingWeights == {Setting(1, TRUE, {<<1, 0>>}, {}, {})}

\* A layer whose source is quantised anew on every call.
DynamicSource == {Setting(1, TRUE, {<<1, 0>>, <<2, 0>>}, Weights, {})}

\* Floating-point weights.
FloatWeights == {Setting(1, TRUE, {None}, Weights, {})}

\* The hypotheses of RunDlpProofs hold where the configurations are the
\* supported ones, and the three other instances each break one.
ASSUME InstanceIsSupported ==
    Settings = SupportedSettings =>
        /\ NothingIsEvicted /\ OneInPlaceFailure
        /\ CacheableIsCached /\ OneSourceZp /\ CompBeforeInPlace

DlpSymmetry == Permutations(Threads) \cup Permutations(Buffers)
=============================================================================
