---------------------------- MODULE MCTapSession ----------------------------
(***************************************************************************)
(* TapSession with registers short enough to be shifted right through.     *)
(***************************************************************************)
EXTENDS TapSession
Id == <<1, 0>>
=============================================================================
