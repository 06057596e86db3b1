----------------------------- MODULE TapSession -----------------------------
(***************************************************************************)
(* A TAP controller clocked by an arbitrary user, with what the user can   *)
(* know of it without looking inside: how long TMS has been high, and the  *)
(* bits in and out since the last capture.                                 *)
(***************************************************************************)
EXTENDS TapController

CONSTANT MaxShift    \* bound: bits shifted in one scan
ASSUME ShiftAssumption == MaxShift \in Nat

VARIABLES
  tap,      \* the controller
  ones,     \* clocks with TMS = 1 in a row, up to five
  fresh,    \* no instruction has been loaded since Test-Logic-Reset
  in, out   \* TDI and TDO of the shifting clocks since the last capture

vars == <<tap, ones, fresh, in, out>>

Shifting == tap.state \in {"SHIFT_DR", "SHIFT_IR"}
Capturing == tap.state \in {"CAPTURE_DR", "CAPTURE_IR"}

clock(tms, tdi) ==
  /\ Shifting => Len(in) < MaxShift
  /\ tap' = step(tap, tms, tdi)
  /\ ones' = IF tms = 0 THEN 0 ELSE IF ones < 5 THEN ones + 1 ELSE 5
  /\ fresh' = (tap.state = "TEST_LOGIC_RESET" \/ (fresh /\ tap.state # "UPDATE_IR"))
  /\ in' = IF Shifting THEN Append(in, tdi) ELSE IF Capturing THEN << >> ELSE in
  /\ out' = IF Shifting THEN Append(out, tdo(tap)) ELSE IF Capturing THEN << >> ELSE out

Init == /\ tap = power_on /\ ones = 0 /\ fresh = TRUE
        /\ in = << >> /\ out = << >>

Next == \E tms, tdi \in Bit : clock(tms, tdi)
Spec == Init /\ [][Next]_vars

-----------------------------------------------------------------------------
(* Properties                                                                *)

TypeOK == /\ tap \in Tap /\ ones \in 0 .. 5 /\ fresh \in BOOLEAN
          /\ in \in Seq(Bit) /\ out \in Seq(Bit)

\* Five clocks with TMS = 1 lead to Test-Logic-Reset from every state of the
\* table (jtag_tap_controller.hpp:264-279).
FiveOnesReset == ones = 5 => tap.state = "TEST_LOGIC_RESET"

\* A controller that has been reset identifies itself: until an instruction is
\* loaded, IDCODE is the one in force (jtag_tap_controller.hpp:53-55), whatever
\* was loaded before the reset.
ResetSelectsIdcode ==
  fresh /\ tap.state # "TEST_LOGIC_RESET" => tap.instr = "IDCODE"

InIrScan == tap.state \in {"SHIFT_IR", "EXIT1_IR", "PAUSE_IR", "EXIT2_IR", "UPDATE_IR"}
InDrScan == tap.state \in {"SHIFT_DR", "EXIT1_DR", "PAUSE_DR", "EXIT2_DR", "UPDATE_DR"}

\* A register of content captured delays TDI by its length.
DelayLine(captured, reg) == out \o reg = captured \o in

\* Within a scan a register is a delay line: what has come out of TDO, followed
\* by what the register holds, is what was captured followed by TDI.  Pauses
\* neither lose nor add a bit, and the clock that leaves the shift state shifts
\* too.  The instruction register delays by IrLen, IDCODE by DrLen and BYPASS by
\* one clock (jtag_tap_controller.hpp:56-99, shift_reg.hpp:32-40).
ScanIsDelayLine ==
  /\ InIrScan => DelayLine(IrCapture, tap.ir)
  /\ InDrScan /\ tap.instr = "IDCODE" => DelayLine(IdCode, tap.dr)
  /\ InDrScan /\ tap.instr = "BYPASS" => DelayLine(<<1>>, tap.bypassr)

\* The last n of the elements of s.
LastOf(s, n) == SubSeq(s, Len(s) - n + 1, Len(s))

\* An instruction changes only by a reset or at the end of an IR scan, and then
\* it is the one whose code was shifted in last (jtag_tap_controller.hpp:110-112).
InstructionIsShiftedIn ==
  [][\/ tap'.instr = tap.instr
     \/ tap.state = "TEST_LOGIC_RESET" /\ tap'.instr = "IDCODE"
     \/ /\ tap.state = "UPDATE_IR"
        /\ tap'.instr = instr_from_bits(val(LastOf(IrCapture \o in, IrLen)))]_vars
=============================================================================
