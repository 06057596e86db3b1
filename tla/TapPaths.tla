------------------------------- MODULE TapPaths -------------------------------
(***************************************************************************)
(* The TAP state machine and the tables of TMS paths between its stable    *)
(* states, as OpenOCD's JTAG drivers use them (interface.c).               *)
(***************************************************************************)
EXTENDS Integers, Sequences

StableStates == <<"RESET", "IDLE", "DRSHIFT", "DRPAUSE", "IRSHIFT", "IRPAUSE">>
tap_is_state_stable(astate) == \E n \in DOMAIN StableStates : StableStates[n] = astate
tap_move_ndx(astate) == CHOOSE n \in DOMAIN StableStates : StableStates[n] = astate

TapStates == {"RESET", "IDLE",
              "DRSELECT", "DRCAPTURE", "DRSHIFT", "DREXIT1", "DRPAUSE", "DREXIT2", "DRUPDATE",
              "IRSELECT", "IRCAPTURE", "IRSHIFT", "IREXIT1", "IRPAUSE", "IREXIT2", "IRUPDATE"}

\* The names jtag_tap_controller.hpp has for them.
NameOf(state) ==
  CASE state = "RESET" -> "TEST_LOGIC_RESET" [] state = "IDLE" -> "RUN_TEST_IDLE"
    [] state = "DRSELECT" -> "SELECT_DR_SCAN" [] state = "DRCAPTURE" -> "CAPTURE_DR"
    [] state = "DRSHIFT" -> "SHIFT_DR" [] state = "DREXIT1" -> "EXIT1_DR"
    [] state = "DRPAUSE" -> "PAUSE_DR" [] state = "DREXIT2" -> "EXIT2_DR"
    [] state = "DRUPDATE" -> "UPDATE_DR"
    [] state = "IRSELECT" -> "SELECT_IR_SCAN" [] state = "IRCAPTURE" -> "CAPTURE_IR"
    [] state = "IRSHIFT" -> "SHIFT_IR" [] state = "IREXIT1" -> "EXIT1_IR"
    [] state = "IRPAUSE" -> "PAUSE_IR" [] state = "IREXIT2" -> "EXIT2_IR"
    [] state = "IRUPDATE" -> "UPDATE_IR"

on_one(cur_state) ==
  CASE cur_state \in {"IDLE", "DRUPDATE", "IRUPDATE"} -> "DRSELECT"
    [] cur_state = "DRSELECT" -> "IRSELECT"
    [] cur_state \in {"RESET", "IRSELECT"} -> "RESET"
    [] cur_state \in {"DRCAPTURE", "DRSHIFT"} -> "DREXIT1"
    [] cur_state \in {"DREXIT1", "DREXIT2"} -> "DRUPDATE"
    [] cur_state = "DRPAUSE" -> "DREXIT2"
    [] cur_state \in {"IRCAPTURE", "IRSHIFT"} -> "IREXIT1"
    [] cur_state \in {"IREXIT1", "IREXIT2"} -> "IRUPDATE"
    [] cur_state = "IRPAUSE" -> "IREXIT2"

on_zero(cur_state) ==
  CASE cur_state \in {"RESET", "IDLE", "DRUPDATE", "IRUPDATE"} -> "IDLE"
    [] cur_state = "DRSELECT" -> "DRCAPTURE"
    [] cur_state \in {"DRCAPTURE", "DRSHIFT", "DREXIT2"} -> "DRSHIFT"
    [] cur_state \in {"DREXIT1", "DRPAUSE"} -> "DRPAUSE"
    [] cur_state = "IRSELECT" -> "IRCAPTURE"
    [] cur_state \in {"IRCAPTURE", "IRSHIFT", "IREXIT2"} -> "IRSHIFT"
    [] cur_state \in {"IREXIT1", "IRPAUSE"} -> "IRPAUSE"

\* Mutant: from Exit2 there is no way but back to the shift state.
Mutant_exit2(cur_state, tms) ==
  IF tms = 1 /\ cur_state # "DREXIT2" THEN on_one(cur_state) ELSE on_zero(cur_state)
tap_state_transition(cur_state, tms) ==
  IF tms = 1 THEN on_one(cur_state) ELSE on_zero(cur_state)

-----------------------------------------------------------------------------
(* The tables, from a row to a column in the order of StableStates           *)

\* The value of each decimal place of a path.
places == <<1, 10, 100, 1000, 10000, 100000, 1000000>>
\* A path as its digits are spelled, the bit clocked first being the last.
\* Mutant: the digits above the one looked at are not masked out.
Mutant_unmasked(digits, count) == [k \in 1 .. count |-> digits \div places[k]]
B8(digits, count) == [k \in 1 .. count |-> (digits \div places[k]) % 10]

old_tms_seqs ==
  <<<<B8(1111111, 7), B8(0000000, 7), B8(0010111, 7), B8(0001010, 7), B8(0011011, 7), B8(0010110, 7)>>,
    <<B8(1111111, 7), B8(0000000, 7), B8(0100101, 7), B8(0000101, 7), B8(0101011, 7), B8(0001011, 7)>>,
    <<B8(1111111, 7), B8(0110001, 7), B8(0000000, 7), B8(0000001, 7), B8(0001111, 7), B8(0101111, 7)>>,
    <<B8(1111111, 7), B8(0110000, 7), B8(0100000, 7), B8(0010111, 7), B8(0011110, 7), B8(0101111, 7)>>,
    <<B8(1111111, 7), B8(0110001, 7), B8(0000111, 7), B8(0010111, 7), B8(0000000, 7), B8(0000001, 7)>>,
    <<B8(1111111, 7), B8(0110000, 7), B8(0011100, 7), B8(0010111, 7), B8(0011110, 7), B8(0101111, 7)>>>>

short_tms_seqs ==
  <<<<B8(1111111, 7), B8(0000000, 7), B8(0010111, 7), B8(0001010, 7), B8(0011011, 7), B8(0010110, 7)>>,
    <<B8(1111111, 7), B8(0000000, 7), B8(001, 3), B8(0101, 4), B8(0011, 4), B8(01011, 5)>>,
    <<B8(1111111, 7), B8(011, 3), B8(00111, 5), B8(01, 2), B8(001111, 6), B8(0101111, 7)>>,
    <<B8(1111111, 7), B8(011, 3), B8(01, 2), B8(0, 1), B8(001111, 6), B8(0101111, 7)>>,
    <<B8(1111111, 7), B8(011, 3), B8(00111, 5), B8(010111, 6), B8(001111, 6), B8(01, 2)>>,
    <<B8(1111111, 7), B8(011, 3), B8(00111, 5), B8(010111, 6), B8(01, 2), B8(0, 1)>>>>

\* Mutants: the clocks are counted one short; a path is clocked the other way
\* round; it is looked up from its end to its start.
Mutant_one_short(tms_seqs, from, to) ==
  LET p == tms_seqs[tap_move_ndx(from)][tap_move_ndx(to)] IN SubSeq(p, 1, Len(p) - 1)
Mutant_msb_first(tms_seqs, from, to) ==
  LET p == tms_seqs[tap_move_ndx(from)][tap_move_ndx(to)]
  IN [k \in DOMAIN p |-> p[Len(p) + 1 - k]]
Mutant_transposed(tms_seqs, from, to) == tms_seqs[tap_move_ndx(to)][tap_move_ndx(from)]
\* tap_get_tms_path and tap_get_tms_path_len.
tap_get_tms_path(tms_seqs, from, to) == tms_seqs[tap_move_ndx(from)][tap_move_ndx(to)]

tap_use_new_tms_table(use_new) == IF use_new THEN short_tms_seqs ELSE old_tms_seqs

-----------------------------------------------------------------------------
(* Walking                                                                   *)

\* The states that tap_state_transition gives along a path, the first being from.
walk(from, path) ==
  LET w[k \in 0 .. Len(path)] ==
        IF k = 0 THEN from ELSE tap_state_transition(w[k - 1], path[k])
  IN w
=============================================================================
