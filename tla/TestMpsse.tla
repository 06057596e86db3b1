------------------------------ MODULE TestMpsse ------------------------------
(***************************************************************************)
(* The utility src/test_mpsse.c: the clocks Quartus begins a session with, *)
(* sent to a controller found in any state, and the identity read out of   *)
(* the answers.  The controller is the one of TapController, which has the *)
(* identity of the chip the utility was written against; the driver below  *)
(* it delivers every bit to its own place, as MpsseQueue shows.            *)
(***************************************************************************)
EXTENDS TapController

CONSTANT Found    \* the controllers the utility may find: a set of Tap
\* What the constants are.
FoundAssumption == Found \subseteq Tap

VARIABLES
  i,        \* the variable of the loop of main
  tap,      \* external: the controller
  arr_tdo   \* the first i bits of arr_tdo

vars == <<i, tap, arr_tdo>>

clock_raw(tms, tdi, len) == [k \in 1 .. len |-> [tms |-> tms, tdi |-> tdi]]

\* Mutant: RUN_TEST_IDLE is not passed through.
Mutant_no_idle == clock_raw(1, 1, 7)
\* The calls that reset the controller, pass through RUN_TEST_IDLE and select a scan.
opening == clock_raw(1, 1, 6) \o clock_raw(0, 1, 1) \o clock_raw(1, 1, 1)

\* What the calls of clock_raw leave in arr_tms and arr_tdi.
procedure ==
  opening
  \o clock_raw(0, 1, 10) \o clock_raw(0, 0, 6) \o clock_raw(0, 1, 2) \o clock_raw(0, 0, 2)
  \o clock_raw(0, 1, 2) \o clock_raw(0, 0, 1) \o clock_raw(0, 1, 7) \o clock_raw(0, 0, 4)
  \o clock_raw(0, 1, 96)

Init == i = 0 /\ tap \in Found /\ arr_tdo = << >>

mpsse_clock_tms_cs ==
  /\ i < Len(procedure) /\ i' = i + 1
  /\ LET c == procedure[i + 1]
     IN tap' = step(tap, c.tms, c.tdi) /\ arr_tdo' = Append(arr_tdo, tdo(tap))

Next == mpsse_clock_tms_cs
Spec == Init /\ [][Next]_vars

-----------------------------------------------------------------------------
(* The answers                                                               *)

flushed == i = Len(procedure)
\* Mutant: the bits before the identity are one more.
Mutant_one_more == [n \in 1 .. 32 |-> arr_tdo[7 + 4 + n]]
\* The identity, lowest bit first: what is left behind two shifts, cut to 32 bits.
jtag_ident == [n \in 1 .. 32 |-> arr_tdo[6 + 4 + n]]

\* The bytes the utility prints as expected.
expected == <<255, 119, 195, 65, 10, 252, 3, 179, 63, 252,
              255, 255, 255, 255, 255, 255, 255, 3>>
\* Byte n of arr_tdo, from 1, with zeros behind the last bit.
received(n) == val([k \in 1 .. 8 |-> LET p == 8 * (n - 1) + k
                                     IN IF p <= Len(arr_tdo) THEN arr_tdo[p] ELSE 0])

-----------------------------------------------------------------------------
(* Properties                                                                *)

TypeOK == i \in 0 .. Len(procedure) /\ tap \in Tap /\ Len(arr_tdo) = i

\* Whatever state the controller was left in, its identity is what is printed: six clocks
\* with TMS = 1 reset it, and its first bit is the eleventh that comes out
\* (test_mpsse.c:51-54, 110-114).
IdentityIsRead == flushed => jtag_ident = IdCode

\* A controller not found in the middle of a scan answers just the bytes the utility
\* expects, those of TDI coming out behind the identity among them (test_mpsse.c:101-107).
ExpectedIsReceived ==
  flushed /\ Head(arr_tdo) = 1 => \A n \in DOMAIN expected : received(n) = expected[n]
=============================================================================
