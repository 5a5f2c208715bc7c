------------------------- MODULE MCNativeWeightCache ------------------------
(***************************************************************************)
(* TLC instances of NativeWeightCache.                                     *)
(***************************************************************************)
EXTENDS NativeWeightCache, TLC

CONSTANTS f1, c1, c2, m1, q1, q2

Call(route, w, lay, q) == [route |-> route, w |-> w, lay |-> lay, q |-> q]

\* One layout per address, and FP32 weights that are not transposed.  The
\* models: two BF16 layers, one of which a full cache refuses; an INT8 layer
\* whose source quantisation changes; and an FP32 layer and a BF16 layer cut
\* into slices beside a buffer the framework rewrites.
OrdinaryModels ==
    { {Call("bf16_gemv", w, "transposed", NoQuant) : w \in {c1, c2}},
      {Call("int8_gemv", c1, "transposed", q) : q \in {q1, q2}},
      {Call("fp32", f1, "plain", NoQuant), Call("bf16_slices", c1, "plain", NoQuant)}
          \cup {Call(r, m1, "plain", NoQuant) : r \in {"bf16_gemv", "fp32"}} }

\* The instance meets the hypothesis of the theorems.
ASSUME InstanceIsSound == ModelsAreSound

NativeSymmetry == Permutations(Threads) \cup Permutations(Blocks)
=============================================================================
