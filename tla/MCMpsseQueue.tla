---------------------------- MODULE MCMpsseQueue ----------------------------
(* MpsseQueue with buffers small enough that a call of eighteen bits has to  *)
(* be cut into commands, flushed half way and resumed.                       *)
EXTENDS MpsseQueue

\* A rest in bit mode only, whole bytes only, both.
SomeLengths == {5, 8, 18}
LongAndShort == {5, 18}
=============================================================================
