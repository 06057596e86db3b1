----------------------------- MODULE FtdiSignals -----------------------------
(***************************************************************************)
(* The signals of an FTDI layout (ftdi.c:128-137, 188-266): which pins     *)
(* carry a signal, and what a level of the signal means for the two        *)
(* latches output and direction.  A mask or a latch is the set of its pins.*)
(***************************************************************************)
EXTENDS Integers

Pins == 0 .. 15
LowByte == 0 .. 7
TmsPin == 3

Signal == [data_mask: SUBSET Pins, input_mask: SUBSET Pins, oe_mask: SUBSET Pins,
           invert_data: BOOLEAN, invert_input: BOOLEAN, invert_oe: BOOLEAN]
NoSignal == [data_mask |-> {}, input_mask |-> {}, oe_mask |-> {},
             invert_data |-> FALSE, invert_input |-> FALSE, invert_oe |-> FALSE]

Latches == [output: SUBSET Pins, direction: SUBSET Pins]
Levels == {"0", "1", "z"}

can_set(s, value) ==
  /\ s.data_mask \cup s.oe_mask # {}
  /\ value = "1" => s.data_mask # {}
  /\ value = "z" => s.oe_mask # {}

put(latch, mask, on) == IF on THEN latch \cup mask ELSE latch \ mask

\* Mutant: a released signal keeps the data of before.
Mutant_oe_first(latches, s, value) ==
  LET data == (value = "1") # s.invert_data
      oe == (value # "z") # s.invert_oe
  IN IF s.oe_mask = s.data_mask
     THEN [output |-> put(latches.output, s.data_mask, data),
           direction |-> put(latches.direction, s.oe_mask, oe)]
     ELSE [latches EXCEPT !.direction = put(@, s.oe_mask, oe),
                          !.output = put(@, s.data_mask, data)]
\* Mutant: the data latch takes the whole byte of the signal.
Mutant_whole_byte(latches, s, value) ==
  LET data == (value = "1") # s.invert_data
      byte == IF s.data_mask \cap LowByte # {} THEN LowByte ELSE Pins \ LowByte
  IN [latches EXCEPT !.output = put(@, byte, data)]
\* The two latches once the signal has been set.
set_latches(latches, s, value) ==
  LET data == (value = "1") # s.invert_data
      oe == (value # "z") # s.invert_oe
      output == put(latches.output, s.data_mask, data)
  IN IF s.oe_mask = s.data_mask
     THEN [output |-> output, direction |-> put(latches.direction, s.oe_mask, oe)]
     ELSE [latches EXCEPT !.output = put(output, s.oe_mask, oe)]

\* Which bytes have to be sent to the chip after a change of the latches.
\* Mutant: a change of the direction alone is not sent.
Mutant_output_only(old, new) ==
  {b \in {LowByte, Pins \ LowByte} : new.output \cap b # old.output \cap b}
changed_bytes(old, new) ==
  {b \in {LowByte, Pins \ LowByte} :
     \/ new.output \cap b # old.output \cap b
     \/ new.direction \cap b # old.direction \cap b}

\* Mutant: the high byte shifted the wrong way.
Mutant_shift_up(chip, new, bytes) ==
  LET pins == UNION bytes
  IN [output |-> (chip.output \ pins) \cup {IF p \in LowByte THEN p ELSE p + 8 : p \in new.output \cap pins},
      direction |-> (chip.direction \ pins) \cup (new.direction \cap pins)]
\* The chip's latches once these bytes have arrived.
sent(chip, new, bytes) ==
  LET pins == UNION bytes
  IN [output |-> (chip.output \ pins) \cup (new.output \cap pins),
      direction |-> (chip.direction \ pins) \cup (new.direction \cap pins)]

\* A read of the signal from the levels of the pins.
read_signal(levels, s) ==
  s.input_mask \cap (IF s.invert_input THEN Pins \ levels ELSE levels)

-----------------------------------------------------------------------------
(* What a signal is, electrically                                            *)

\* A layout a board can have: an output-enable that is the data pin's own
\* direction is not inverted, any other has pins of its own.
Sensible(s) == IF s.oe_mask = s.data_mask THEN ~s.invert_oe
               ELSE s.oe_mask \cap s.data_mask = {}

\* The level the signal has, from the latches of the chip.
level(latches, s) ==
  LET enabled == IF s.oe_mask = s.data_mask THEN s.oe_mask \subseteq latches.direction
                 ELSE s.oe_mask = {} \/ (s.oe_mask \subseteq latches.output) # s.invert_oe
      high == s.data_mask # {} /\ (s.data_mask \subseteq latches.output) # s.invert_data
  IN IF ~enabled THEN "z" ELSE IF high THEN "1" ELSE "0"
=============================================================================
