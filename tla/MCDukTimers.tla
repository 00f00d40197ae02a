----------------------------- MODULE MCDukTimers -----------------------------
(* Model-checking instance of DukTimers.                                   *)
EXTENDS DukTimers, TLC

CONSTANTS c1, c2, c3

MCCallbacks == {c1, c2, c3}
(* c3 is not a function.                                                   *)
MCFunctions == {c1, c2}
MCIds == 4..5
MCData == {NULL}
MCStreams == {0}
=============================================================================
