---------------------------- MODULE TapController ----------------------------
(***************************************************************************)
(* The simulated TAP controller of the dummy plug-in                       *)
(* (inc/jtag_tap_controller.hpp) and its shift registers                   *)
(* (inc/shift_reg.hpp), as functions of the controller: a clock with TMS   *)
(* and TDI takes the controller t to step(t, tms, tdi), and its TDO is     *)
(* tdo(t).  TapSession and DummyPlugin hold a controller as state.         *)
(*                                                                         *)
(* Bit 0 of a register, the next one out, is the first of its sequence.    *)
(* _bit_cntr is left out: it decides only what is logged.                  *)
(***************************************************************************)
EXTENDS Integers, Sequences

CONSTANTS IrLen,     \* bits of the instruction register: 10
          DrLen,     \* bits of the IDCODE register: 32
          IdCode     \* the bits of 0x029070DD, the lowest first

Bit == {0, 1}
ShiftReg(n) == {arr \in Seq(Bit) : Len(arr) = n}

ASSUME RegisterAssumption == /\ IrLen \in Nat \ {0}
                             /\ DrLen \in Nat \ {0}
                             /\ IdCode \in ShiftReg(DrLen)

-----------------------------------------------------------------------------
(* ShiftReg                                                                  *)

zeros(n) == [i \in 1 .. n |-> 0]

\* Mutants: the register is turned the other way; it is not turned.
Mutant_msb_out(arr, in) == <<in>> \o SubSeq(arr, 1, Len(arr) - 1)
Mutant_grows(arr, in) == Append(arr, in)
shift(arr, in) == Append(Tail(arr), in)

\* The number in the register; v[i] is tmp after i turns of the loop.
val(arr) == LET v[i \in 0 .. Len(arr)] ==
                  IF i = 0 THEN 0 ELSE 2 * v[i - 1] + arr[Len(arr) + 1 - i]
            IN v[Len(arr)]

-----------------------------------------------------------------------------
(* The table of states and the table of instructions                         *)

\* Where TMS = 0 and TMS = 1 lead.
jtag_tap_next_state ==
  [TEST_LOGIC_RESET |-> <<"RUN_TEST_IDLE", "TEST_LOGIC_RESET">>,
   RUN_TEST_IDLE    |-> <<"RUN_TEST_IDLE", "SELECT_DR_SCAN">>,
   SELECT_DR_SCAN   |-> <<"CAPTURE_DR", "SELECT_IR_SCAN">>,
   CAPTURE_DR       |-> <<"SHIFT_DR", "EXIT1_DR">>,
   SHIFT_DR         |-> <<"SHIFT_DR", "EXIT1_DR">>,
   EXIT1_DR         |-> <<"PAUSE_DR", "UPDATE_DR">>,
   PAUSE_DR         |-> <<"PAUSE_DR", "EXIT2_DR">>,
   EXIT2_DR         |-> <<"SHIFT_DR", "UPDATE_DR">>,
   UPDATE_DR        |-> <<"RUN_TEST_IDLE", "SELECT_DR_SCAN">>,
   SELECT_IR_SCAN   |-> <<"CAPTURE_IR", "TEST_LOGIC_RESET">>,
   CAPTURE_IR       |-> <<"SHIFT_IR", "EXIT1_IR">>,
   SHIFT_IR         |-> <<"SHIFT_IR", "EXIT1_IR">>,
   EXIT1_IR         |-> <<"PAUSE_IR", "UPDATE_IR">>,
   PAUSE_IR         |-> <<"PAUSE_IR", "EXIT2_IR">>,
   EXIT2_IR         |-> <<"SHIFT_IR", "UPDATE_IR">>,
   UPDATE_IR        |-> <<"RUN_TEST_IDLE", "SELECT_DR_SCAN">>]

TapState == DOMAIN jtag_tap_next_state

\* Mutant: SELECT_IR_SCAN does not lead to reset.
Mutant_no_way_to_reset(state, tms) ==
  IF state = "SELECT_IR_SCAN" THEN "CAPTURE_IR" ELSE jtag_tap_next_state[state][tms + 1]
next_state(state, tms) == jtag_tap_next_state[state][tms + 1]

InstrCodes ==
  {<<5, "SAMPLE_PRELOAD">>, <<15, "EXTEST">>, <<1023, "BYPASS">>, <<7, "USER_CODE">>,
   <<6, "IDCODE">>, <<11, "HIGHZ">>, <<10, "CLAMP">>, <<1, "PULSE_NCONFIG">>,
   <<13, "CONFIG_IO">>, <<496, "LOCK">>, <<817, "UNLOCK">>, <<41, "KEY_CLR_VREG">>,
   <<19, "KEY_VERIFY">>, <<143, "EXTEST_PULSE">>, <<79, "EXTEST_TRAIN">>,
   <<2, "UNKNOWN1">>, <<4, "UNKNOWN2">>}
TapInstr == {c[2] : c \in InstrCodes}

\* A code that is not in the table selects BYPASS.
instr_from_bits(code) ==
  IF \E c \in InstrCodes : c[1] = code
  THEN (CHOOSE c \in InstrCodes : c[1] = code)[2] ELSE "BYPASS"

-----------------------------------------------------------------------------
(* One clock                                                                 *)

\* What CAPTURE_IR loads: 0b0101010101.
IrCapture == [i \in 1 .. IrLen |-> i % 2]

Tap == [state: TapState, instr: TapInstr, ir: ShiftReg(IrLen),
        dr: ShiftReg(DrLen), bypassr: ShiftReg(1)]

power_on == [state |-> "TEST_LOGIC_RESET", instr |-> "IDCODE", ir |-> zeros(IrLen),
             dr |-> zeros(DrLen), bypassr |-> zeros(1)]

\* The register the scan of state goes through, "none" where there is none.
selected(t) ==
  CASE t.state = "SHIFT_IR" -> "ir"
    [] t.state = "SHIFT_DR" /\ t.instr = "IDCODE" -> "dr"
    [] t.state = "SHIFT_DR" /\ t.instr = "BYPASS" -> "bypassr"
    [] OTHER -> "none"

tdo(t) == IF selected(t) = "none" THEN 1 ELSE Head(t[selected(t)])

\* Mutants: reset leaves the instruction alone; it is loaded on the way to a pause.
Mutant_reset_keeps_instr(t) ==
  IF t.state = "UPDATE_IR" THEN instr_from_bits(val(t.ir)) ELSE t.instr
Mutant_loaded_early(t) ==
  CASE t.state = "TEST_LOGIC_RESET" -> "IDCODE"
    [] t.state = "EXIT1_IR" -> instr_from_bits(val(t.ir))
    [] OTHER -> t.instr
instr_after(t) ==
  CASE t.state = "TEST_LOGIC_RESET" -> "IDCODE"
    [] t.state = "UPDATE_IR" -> instr_from_bits(val(t.ir))
    [] OTHER -> t.instr

step(t, tms, tdi) ==
  [state |-> next_state(t.state, tms),
   instr |-> instr_after(t),
   ir |-> IF t.state = "CAPTURE_IR" THEN IrCapture
          ELSE IF selected(t) = "ir" THEN shift(t.ir, tdi) ELSE t.ir,
   dr |-> IF t.state = "CAPTURE_DR" /\ t.instr = "IDCODE" THEN IdCode
          ELSE IF selected(t) = "dr" THEN shift(t.dr, tdi) ELSE t.dr,
   bypassr |-> IF t.state = "CAPTURE_DR" /\ t.instr = "BYPASS" THEN <<1>>
               ELSE IF selected(t) = "bypassr" THEN shift(t.bypassr, tdi) ELSE t.bypassr]

\* The controllers t goes through: run(t, clocks)[k] is after k of the clocks.
run(t, clocks) ==
  LET r[k \in 0 .. Len(clocks)] ==
        IF k = 0 THEN t ELSE step(r[k - 1], clocks[k].tms, clocks[k].tdi)
  IN r
after(t, clocks) == run(t, clocks)[Len(clocks)]
answered(t, clocks) == [k \in DOMAIN clocks |-> tdo(run(t, clocks)[k - 1])]
=============================================================================
