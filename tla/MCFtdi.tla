------------------------------- MODULE MCFtdi -------------------------------
(***************************************************************************)
(* FtdiParts with                                                          *)
(*   ids      a table of two ids                                           *)
(*   signals  signals of each kind a layout knows: data only, inverted     *)
(*            data with an output enable of its own in the other byte, a   *)
(*            pin switched by its direction, an output enable alone        *)
(*   jtag     signals in the byte of TMS and TMS low at the start, or with *)
(*            every signal in the other byte                               *)
(*   swd      an array of two entries that grows to four                   *)
(***************************************************************************)
EXTENDS FtdiParts

SomeNames == {"SWD_EN", "LED"}
SomeSignals == INSTANCE FtdiSignals
SomeLayouts ==
  LET none == SomeSignals!NoSignal
  IN [SWD_EN |->
        {[none EXCEPT !.data_mask = {5}, !.invert_data = TRUE, !.oe_mask = {9}, !.invert_oe = TRUE]},
      LED |->
        {[none EXCEPT !.data_mask = {5, 8}, !.oe_mask = {5, 8}, !.input_mask = {8}],
         [none EXCEPT !.oe_mask = {9}, !.input_mask = {9}, !.invert_input = TRUE]}]
SomeInits == {[output |-> {3, 9}, direction |-> {0, 1, 3, 5, 9}]}

Plain == [led |-> "none", trst |-> "high", srst |-> "high", tms |-> 1,
          has_trst |-> TRUE, has_srst |-> TRUE, srst_pulls_trst |-> FALSE]
GoodBoards == {[Plain EXCEPT !.led = "high", !.srst_pulls_trst = TRUE],
               [Plain EXCEPT !.led = "low", !.trst = "none", !.srst = "low", !.tms = 0]}
\* Within a scan, to a shift state and out of it; one longer than a byte of bits.
SomeMoves == {<<0>>, <<1, 0>>, <<1, 0, 0>>, <<1, 1, 0, 0>>, <<0, 1, 0, 1, 0>>,
              <<1, 0, 0, 0, 1, 0, 1, 0, 0>>}
Bits(n, out, in) == [num_bits |-> n, out |-> out, in |-> in]
SomeScans == {<<Bits(0, TRUE, TRUE), Bits(2, TRUE, FALSE), Bits(2, FALSE, TRUE), Bits(0, TRUE, TRUE)>>,
              <<Bits(1, TRUE, TRUE)>>, <<Bits(0, TRUE, TRUE)>>}
=============================================================================
