---------------------------- MODULE MCDummyPlugin ----------------------------
(***************************************************************************)
(* DummyPlugin with short registers and two clocks between flushes.        *)
(***************************************************************************)
EXTENDS DummyPlugin
OneOrTwo == {1, 2}
Id == <<0>>
=============================================================================
