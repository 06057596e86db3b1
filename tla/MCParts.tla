------------------------------- MODULE MCParts -------------------------------
(***************************************************************************)
(* Parts on small instances:                                               *)
(*   open       buses of up to three devices: the one asked for, and       *)
(*              others that differ from it in one respect each             *)
(*   frequency  every edge: RTCK, slower than any divisor, where the base  *)
(*              clock changes, where the quotient is whole and next to it, *)
(*              the fastest and faster, where the sum is no int any more   *)
(*   strip      up to three packets of three bytes of data to a transfer   *)
(*   bits       bytes of three bits: a word has 12, two have 24, and the   *)
(*              buffer has a byte more                                     *)
(*   text       buffers of up to three bytes and texts with each prefix,   *)
(*              characters that are no digits, digits of a larger radix,   *)
(*              and more digits than there is room for                     *)
(*   lists      two lists and three entries, the least that has an entry   *)
(*              that is no neighbour of its head                           *)
(*   utility    the registers at their real lengths, the real identity,    *)
(*              and a controller left in any state                         *)
(***************************************************************************)
EXTENDS Parts, TLC

Ft232h == [vid |-> 1, pid |-> 1, product |-> 1, serial |-> 1, bcdDevice |-> 2304,
           bus |-> 1, path |-> <<1, 2>>, interfaces |-> <<<<"in", "out">>>>]
OtherSerial == [Ft232h EXCEPT !.serial = 2, !.path = <<1>>]
OtherChip == [Ft232h EXCEPT !.bcdDevice = 4096, !.path = <<1, 2, 3>>]
OtherPid == [Ft232h EXCEPT !.pid = 2, !.bus = 2]
OneWay == [Ft232h EXCEPT !.product = 2, !.interfaces = <<<<"in", "in">>>>]
SomeBuses == {<<OtherSerial, Ft232h>>, <<OtherPid, OtherChip, Ft232h>>, <<OneWay>>}
Anyone == [vid |-> NULL, pid |-> NULL, product |-> NULL, serial |-> NULL, location |-> NULL]
SomeFilters == {[Anyone EXCEPT !.vid = 1, !.pid = 1],
                [Anyone EXCEPT !.vid = 1, !.pid = 1, !.serial = 1],
                [Anyone EXCEPT !.product = 2],
                [Anyone EXCEPT !.pid = 1, !.location = [bus |-> 1, ports |-> <<1, 2>>]],
                [Anyone EXCEPT !.location = [bus |-> 1, ports |-> <<1>>]]}

SomeFrequencies ==
  {0, 1, 90, 91, 92, 456, 457, 458, 459, 999, 1000, 1001, 100000, 999999, 1000000, 1000001,
   5999999, 6000000, 6000001, 10000000, 14999999, 15000000, 15000001, 29999999, 30000000,
   30000001, 60000000, 2117483647, 2117483648, 2147483647}

BytesOfThree == {[k \in 0 .. 8 |-> 0], [k \in 0 .. 8 |-> 7],
                 [k \in 0 .. 8 |-> (3 * k + 1) % 8], [k \in 0 .. 8 |-> IF k = 4 THEN 6 ELSE 5]}
SomeFirsts == {0, 1, 2, 3, 11, 12, 13}
SomeNums == {1, 2, 3, 4, 11, 12, 13, 23, 24, 25, 27}

BytesOfEight == {<<0>>, <<255>>, <<90>>, <<128, 1>>, <<255, 255>>, <<10, 16>>,
                 <<255, 255, 255>>, <<1, 0, 128>>, <<160, 134, 1>>}
\* 16 is an X, 17 no digit at all.
SomeTyped == {<< >>, <<0>>, <<7>>, <<0, 16>>, <<0, 16, 15, 10>>, <<0, 16, 17, 1>>, <<0, 7, 7>>,
              <<0, 8, 1>>, <<1, 0, 0>>, <<2, 5, 6>>, <<9, 9, 9, 9, 9>>, <<1, 17, 2>>,
              <<15, 15, 15>>, <<6, 5, 5, 3, 6>>, <<1, 6, 7, 7, 7, 2, 1, 5>>, <<3, 7, 7, 7, 7, 7>>}

\* 0x029070DD, from the lowest byte.
Id == LET bits(byte) == [k \in 1 .. 8 |-> (byte \div 2 ^ (k - 1)) % 2]
      IN bits(221) \o bits(112) \o bits(144) \o bits(2)
Controller == INSTANCE TapController WITH IrLen <- 10, DrLen <- 32, IdCode <- Id
AnyState ==
  {[state |-> s, instr |-> name, ir |-> [k \in 1 .. 10 |-> b], dr |-> [k \in 1 .. 32 |-> b],
    bypassr |-> <<b>>] :
     s \in Controller!TapState, name \in {"IDCODE", "BYPASS", "UNKNOWN1", "USER_CODE"},
     b \in {0, 1}}

\* Entries of a list may be exchanged; no other part has them.
Symmetry == Permutations(Entries)
=============================================================================
