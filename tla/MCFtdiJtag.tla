------------------------------ MODULE MCFtdiJtag ------------------------------
(* FtdiJtag on a board with its LED in the byte of TMS, and TMS high at the  *)
(* start.                                                                    *)
EXTENDS FtdiJtag

TmsBoards == {[led |-> "low", trst |-> "high", srst |-> "high", tms |-> 1,
               has_trst |-> TRUE, has_srst |-> TRUE, srst_pulls_trst |-> FALSE]}

SomeMoves == {<<0>>, <<1, 0>>, <<1, 0, 0>>}

Bits(n) == [num_bits |-> n, out |-> TRUE, in |-> TRUE]
SomeScans == {<<Bits(1)>>, <<Bits(0)>>}
=============================================================================
