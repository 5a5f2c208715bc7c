------------------------------ MODULE MCNTile ------------------------------
(***************************************************************************)
(* TLC instances of NTile: the calls are every shape under every tuning,   *)
(* and every kernel mode under the tunings that matter to it.              *)
(***************************************************************************)
EXTENDS NTile

DefaultEnv == [strategy |-> 2, rounds |-> 1, order |-> 0, stableNTile |-> TRUE,
               targetSlots |-> 2, nTile |-> 0, heavy |-> 0, proportional |-> FALSE,
               epcMult |-> 2, weiL3Mult |-> 2]

Envs ==
    LET legacy == [DefaultEnv EXCEPT !.stableNTile = FALSE]
    IN  {[DefaultEnv EXCEPT !.targetSlots = s] : s \in {1, 2}}
        \cup {[legacy EXCEPT !.rounds = r, !.order = o] : r \in 0 .. 3, o \in {0}}
        \cup {[legacy EXCEPT !.order = o] : o \in 1 .. 4}
        \cup {[legacy EXCEPT !.strategy = s] : s \in {0, 1, 3}}
        \cup {[legacy EXCEPT !.heavy = 3], [legacy EXCEPT !.heavy = -1],
              [legacy EXCEPT !.proportional = TRUE]}

Mode(act, tight, packNr) ==
    [act |-> act, tight |-> tight, packNr |-> packNr, int8 |-> FALSE,
     badHoist |-> {}, prepacked |-> FALSE, backendAlign |-> 1]
Modes ==
    {Mode("none", FALSE, 0), Mode("none", FALSE, 2), Mode("swiglu", FALSE, 0),
     Mode("swiglu", TRUE, 0), Mode("swiglu", TRUE, 2), Mode("silu", TRUE, 0),
     [Mode("swiglu", TRUE, 2) EXCEPT !.int8 = TRUE],
     [Mode("swiglu", TRUE, 2) EXCEPT !.int8 = TRUE, !.badHoist = {2}],
     [Mode("none", FALSE, 2) EXCEPT !.int8 = TRUE, !.badHoist = {1}]}

Shape(threads, M, N, K) == [threads |-> threads, M |-> M, N |-> N, K |-> K]
\* Partial CCDs (3 lanes of 2), idle experts, experts of different widths,
\* fewer threads than experts, columns too narrow to split.
Shapes ==
    {Shape(3, <<2, 1>>, <<8, 8>>, 1), Shape(4, <<1, 2, 2>>, <<8, 4, 8>>, 4),
     Shape(4, <<5, 0, 1>>, <<12, 12, 12>>, 1), Shape(2, <<1, 0, 2, 1>>, <<4, 4, 4, 4>>, 1),
     Shape(1, <<2, 1>>, <<6, 6>>, 1), Shape(3, <<3, 3, 1>>, <<2, 2, 2>>, 1)}

\* Enough threads and experts for the uneven splits of a single round.
WideShapes ==
    {Shape(5, <<6, 1, 1, 1>>, <<16, 8, 16, 16>>, 1), Shape(5, <<2, 2>>, <<12, 12>>, 2)}

\* One environment, mode and shape make a call.
MakeCall(env, m, s) ==
    [env |-> env, act |-> m.act, tight |-> m.tight, packNr |-> m.packNr, int8 |-> m.int8,
     badHoist |-> m.badHoist, prepacked |-> m.prepacked, backendAlign |-> m.backendAlign,
     threads |-> s.threads, M |-> s.M, N |-> s.N, K |-> s.K]

AllCalls ==
    {MakeCall(env, m, s) : env \in Envs, m \in Modes, s \in Shapes}
    \cup {MakeCall(env, Mode("none", FALSE, 2), s) : env \in Envs, s \in WideShapes}
\* Widths as the code allows them, which the theorem about whole blocks asks
\* for.
ASSUME WidthsFit == \A c \in AllCalls : BlocksFit(Summarised(c))
=============================================================================
