----------------------------- MODULE MCMainLoop -----------------------------
(***************************************************************************)
(* A small instance of MainLoop for TLC: the rests differ from state to    *)
(* state, and the longer ones follow the shorter ones.                     *)
(***************************************************************************)
EXTENDS MainLoop

ShortDelay == [INIT |-> 1, REST |-> 0, SEND_CMD |-> 0, JUDGE_STA |-> 1, READ_VAL |-> 0]
=============================================================================
