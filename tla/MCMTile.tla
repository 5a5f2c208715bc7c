------------------------------ MODULE MCMTile ------------------------------
(***************************************************************************)
(* TLC instances of MTile: every shape under every tuning, as a plain call *)
(* and as a fused MoE call in its variants.                                *)
(***************************************************************************)
EXTENDS MTile

DefaultEnv == [algo |-> 0, promptAlgo |-> 2, decodeAlgo |-> 3, promptPinned |-> FALSE,
               decodePinned |-> FALSE, strategy |-> 2, slice |-> 2, hybrid |-> 0,
               minMaxM |-> 6, minSkew |-> 2, lightsPerThread |-> 2]
Envs ==
    {DefaultEnv}
    \cup {[DefaultEnv EXCEPT !.algo = a] : a \in {1, 2, 3, 4, 5}}
    \cup {[DefaultEnv EXCEPT !.algo = 2, !.hybrid = -1],
          [DefaultEnv EXCEPT !.algo = 2, !.hybrid = -1, !.slice = 1],
          [DefaultEnv EXCEPT !.algo = 2, !.minMaxM = 2],
          [DefaultEnv EXCEPT !.promptAlgo = 0, !.decodeAlgo = 0],
          [DefaultEnv EXCEPT !.promptAlgo = 5, !.decodeAlgo = 4, !.decodePinned = TRUE]}

Plain == [fusedMoe |-> FALSE, reuse |-> FALSE, transA |-> FALSE, int8 |-> FALSE,
          groupDq |-> FALSE, prepacked |-> FALSE, eligible |-> TRUE, safe |-> <<TRUE, TRUE>>,
          budgetRows |-> 3]
Fused == [Plain EXCEPT !.fusedMoe = TRUE]
Modes ==
    {Plain, [Plain EXCEPT !.safe = <<FALSE, FALSE>>], [Plain EXCEPT !.groupDq = TRUE],
     [Plain EXCEPT !.prepacked = TRUE, !.safe = <<FALSE, TRUE>>],
     [Fused EXCEPT !.reuse = TRUE], [Fused EXCEPT !.transA = TRUE, !.safe = <<TRUE, FALSE>>],
     [Fused EXCEPT !.reuse = TRUE, !.int8 = TRUE, !.groupDq = TRUE]}

Shape(threads, M, total) == [threads |-> threads, M |-> M, total |-> total]
\* One thread, more experts than threads, an idle expert, too few rows for
\* the team, one heavy expert among light ones, and a CCD cut short.
Shapes ==
    {Shape(1, <<2, 3>>, 2), Shape(2, <<1, 2, 0, 1>>, 4), Shape(4, <<1, 2>>, 2),
     Shape(4, <<6, 1, 1>>, 3), Shape(3, <<2, 3>>, 6), Shape(4, <<3, 0, 4>>, 3),
     Shape(3, <<5, 2, 7>>, 3), Shape(2, <<0, 0>>, 2)}

MakeCall(env, m, s) ==
    [env |-> env, nTileSafe |-> FALSE, fusedMoe |-> m.fusedMoe, reuse |-> m.reuse,
     transA |-> m.transA, int8 |-> m.int8, groupDq |-> m.groupDq, prepacked |-> m.prepacked,
     eligible |-> m.eligible, safe |-> m.safe, budgetRows |-> m.budgetRows,
     threads |-> s.threads, M |-> s.M, total |-> s.total]

AllCalls ==
    {MakeCall(env, m, s) : env \in Envs, m \in {Plain, [Fused EXCEPT !.reuse = TRUE]}, s \in Shapes}
    \cup {MakeCall(DefaultEnv, m, s) : m \in Modes, s \in Shapes}

\* A fused MoE call whose first weight is packed for the custom kernel.
PrepackedCalls ==
    {MakeCall(DefaultEnv, [Fused EXCEPT !.prepacked = TRUE, !.safe = <<FALSE, TRUE>>], s) :
        s \in Shapes}

\* The jobs of these calls are what MTileProofs proves every job to be.
ASSUME JobsOfCalls == JobsAreSound
=============================================================================
