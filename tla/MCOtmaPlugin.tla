---------------------------- MODULE MCOtmaPlugin ----------------------------
(***************************************************************************)
(* OtmaPlugin with a write buffer of two TMS commands and a read buffer of *)
(* two answers, so a do_flush of three clocks flushes on the way.          *)
(***************************************************************************)
EXTENDS OtmaPlugin
OneOrTwo == {1, 2}
=============================================================================
