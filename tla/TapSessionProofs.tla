-------------------------- MODULE TapSessionProofs --------------------------
(***************************************************************************)
(* Theorems about TapSession, for registers of any length.                 *)
(***************************************************************************)
EXTENDS TapSession, SequenceTheorems, TLAPS

-----------------------------------------------------------------------------
(* The table                                                                 *)

\* Clocks with TMS = 1 it takes from a state to Test-Logic-Reset.
FromReset(s) ==
  CASE s = "TEST_LOGIC_RESET" -> 0
    [] s = "SELECT_IR_SCAN" -> 1
    [] s = "SELECT_DR_SCAN" -> 2
    [] s \in {"RUN_TEST_IDLE", "UPDATE_DR", "UPDATE_IR"} -> 3
    [] s \in {"EXIT1_DR", "EXIT2_DR", "EXIT1_IR", "EXIT2_IR"} -> 4
    [] OTHER -> 5

\* The names of the states (jtag_tap_controller.hpp:131-148).
LEMMA States ==
  TapState = {"TEST_LOGIC_RESET", "RUN_TEST_IDLE", "SELECT_DR_SCAN", "CAPTURE_DR",
              "SHIFT_DR", "EXIT1_DR", "PAUSE_DR", "EXIT2_DR", "UPDATE_DR",
              "SELECT_IR_SCAN", "CAPTURE_IR", "SHIFT_IR", "EXIT1_IR", "PAUSE_IR",
              "EXIT2_IR", "UPDATE_IR"}
  BY DEF TapState, jtag_tap_next_state

\* A clock leads to a state, and one with TMS = 1 one step nearer to
\* Test-Logic-Reset.
LEMMA Towards ==
  ASSUME NEW s \in TapState, NEW tms \in Bit
  PROVE  /\ next_state(s, tms) \in TapState
         /\ FromReset(next_state(s, tms)) \in 0 .. 5
         /\ tms = 1 => FromReset(next_state(s, tms)) <= IF FromReset(s) = 0 THEN 0
                                                        ELSE FromReset(s) - 1
  BY States DEF next_state, jtag_tap_next_state, FromReset, Bit

-----------------------------------------------------------------------------
(* The registers                                                             *)

\* A shift register keeps its length and its content of bits
\* (shift_reg.hpp:32-40).
LEMMA ShiftType ==
  ASSUME NEW n \in Nat \ {0}, NEW arr \in ShiftReg(n), NEW b \in Bit
  PROVE  shift(arr, b) \in ShiftReg(n) /\ Head(arr) \in Bit
  <1>1. arr \in Seq(Bit) /\ Len(arr) = n /\ arr # << >>
    BY DEF ShiftReg
  <1>2. /\ Head(arr) \in Bit /\ Tail(arr) \in Seq(Bit) /\ Len(Tail(arr)) = n - 1
    BY <1>1, HeadTailProperties
  <1>3. Append(Tail(arr), b) \in Seq(Bit) /\ Len(Append(Tail(arr), b)) = n
    BY <1>2, AppendProperties
  <1> QED BY <1>2, <1>3 DEF shift, ShiftReg

\* How a bit moves from the head of a register to the end of what has come out
\* of it, and how one more comes in behind, on sequences.
LEMMA MoveHead ==
  ASSUME NEW s \in Seq(Bit), NEW o \in Seq(Bit), s # << >>, NEW e \in Bit
  PROVE  Append(o, Head(s)) \o Append(Tail(s), e) = Append(o \o s, e)
  <1> DEFINE l == Append(o, Head(s)) \o Append(Tail(s), e)
             r == Append(o \o s, e)
  <1>1. /\ Head(s) \in Bit /\ Tail(s) \in Seq(Bit) /\ Len(Tail(s)) = Len(s) - 1
        /\ \A k \in 1 .. Len(Tail(s)) : Tail(s)[k] = s[k + 1]
        /\ Head(s) = s[1]
    BY HeadTailProperties
  <1>2. l \in Seq(Bit) /\ r \in Seq(Bit) /\ Len(l) = Len(o) + Len(s) + 1 /\ Len(r) = Len(l)
    BY <1>1
  <1>3. \A k \in 1 .. Len(l) : l[k] = r[k]
    BY <1>1, <1>2
  <1> HIDE DEF l, r
  <1>4. l = r
    BY <1>2, <1>3, SeqEqual
  <1> QED BY <1>4 DEF l, r

LEMMA AppendMoves ==
  ASSUME NEW s \in Seq(Bit), NEW t \in Seq(Bit), NEW e \in Bit
  PROVE  Append(s \o t, e) = s \o Append(t, e)
  <1> DEFINE l == Append(s \o t, e)
             r == s \o Append(t, e)
  <1>1. l \in Seq(Bit) /\ r \in Seq(Bit) /\ Len(l) = Len(s) + Len(t) + 1 /\ Len(r) = Len(l)
    OBVIOUS
  <1>2. \A k \in 1 .. Len(l) : l[k] = r[k]
    BY <1>1
  <1> HIDE DEF l, r
  <1>3. l = r
    BY <1>1, <1>2, SeqEqual
  <1> QED BY <1>3 DEF l, r

\* A shifting clock moves the bit that leaves a register to TDO, and lets one
\* in from TDI (jtag_tap_controller.hpp:69-99).
LEMMA ShiftMoves ==
  ASSUME NEW n \in Nat \ {0}, NEW arr \in ShiftReg(n), NEW b \in Bit, NEW o \in Seq(Bit)
  PROVE  Append(o, Head(arr)) \o shift(arr, b) = Append(o \o arr, b)
  <1>1. arr \in Seq(Bit) /\ arr # << >>
    BY DEF ShiftReg
  <1> QED BY <1>1, MoveHead DEF shift

\* Once out has been filled from captured, the register holds the bits that
\* went in last.
LEMMA RegisterHoldsLast ==
  ASSUME NEW n \in Nat, NEW arr \in ShiftReg(n), NEW o \in Seq(Bit), NEW all \in Seq(Bit),
         o \o arr = all
  PROVE  arr = LastOf(all, n)
  <1>1. arr \in Seq(Bit) /\ Len(arr) = n
    BY DEF ShiftReg
  <1>2. Len(all) = Len(o) + n /\ \A k \in 1 .. n : all[Len(o) + k] = arr[k]
    BY <1>1
  <1> DEFINE l == SubSeq(all, Len(all) - n + 1, Len(all))
  <1>3. l \in Seq(Bit) /\ Len(l) = n /\ \A k \in 1 .. n : l[k] = all[Len(all) - n + k]
    BY <1>2, SMTT(30)
  <1>4. \A k \in 1 .. n : l[k] = arr[k]
    BY <1>2, <1>3
  <1> HIDE DEF l
  <1>5. l = arr
    BY <1>1, <1>3, <1>4, SeqEqual
  <1> QED BY <1>5 DEF l, LastOf

-----------------------------------------------------------------------------
(* One clock                                                                 *)

\* The constants the registers are loaded with are of their lengths
\* (jtag_tap_controller.hpp:36-38, 60, 63, 95).
LEMMA Loads ==
  /\ IrCapture \in ShiftReg(IrLen) /\ zeros(IrLen) \in ShiftReg(IrLen)
  /\ IdCode \in ShiftReg(DrLen) /\ zeros(DrLen) \in ShiftReg(DrLen)
  /\ <<1>> \in ShiftReg(1) /\ zeros(1) \in ShiftReg(1)
  <1>1. \A n \in Nat : zeros(n) \in ShiftReg(n)
    BY DEF zeros, ShiftReg, Bit
  <1>2. IrCapture \in ShiftReg(IrLen)
    BY RegisterAssumption DEF IrCapture, ShiftReg, Bit
  <1>3. <<1>> \in ShiftReg(1)
    BY DEF ShiftReg, Bit
  <1> QED BY <1>1, <1>2, <1>3, RegisterAssumption

\* Every code gives an instruction (jtag_tap_controller.hpp:170-218).
LEMMA Decodes == \A code : instr_from_bits(code) \in TapInstr
  <1>1. "BYPASS" \in TapInstr
    BY DEF TapInstr, InstrCodes
  <1>2. \A code : (\E c \in InstrCodes : c[1] = code)
                    => (CHOOSE c \in InstrCodes : c[1] = code) \in InstrCodes
    OBVIOUS
  <1> QED BY <1>1, <1>2 DEF instr_from_bits, TapInstr

\* step takes a controller to a controller, and TDO is a bit
\* (jtag_tap_controller.hpp:45-128).
LEMMA StepType ==
  ASSUME NEW t \in Tap, NEW tms \in Bit, NEW tdi \in Bit
  PROVE  step(t, tms, tdi) \in Tap /\ tdo(t) \in Bit
  <1>1. /\ t.state \in TapState /\ t.instr \in TapInstr /\ t.ir \in ShiftReg(IrLen)
        /\ t.dr \in ShiftReg(DrLen) /\ t.bypassr \in ShiftReg(1)
    BY DEF Tap
  <1>2. next_state(t.state, tms) \in TapState
    BY <1>1, Towards
  <1>3. "IDCODE" \in TapInstr
    BY DEF TapInstr, InstrCodes
  <1>4. instr_after(t) \in TapInstr
    BY <1>1, <1>3, Decodes DEF instr_after
  <1>5. /\ shift(t.ir, tdi) \in ShiftReg(IrLen) /\ Head(t.ir) \in Bit
        /\ shift(t.dr, tdi) \in ShiftReg(DrLen) /\ Head(t.dr) \in Bit
        /\ shift(t.bypassr, tdi) \in ShiftReg(1) /\ Head(t.bypassr) \in Bit
    <2>1. shift(t.ir, tdi) \in ShiftReg(IrLen) /\ Head(t.ir) \in Bit
      BY <1>1, ShiftType, RegisterAssumption
    <2>2. shift(t.dr, tdi) \in ShiftReg(DrLen) /\ Head(t.dr) \in Bit
      BY <1>1, ShiftType, RegisterAssumption
    <2>3. shift(t.bypassr, tdi) \in ShiftReg(1) /\ Head(t.bypassr) \in Bit
      BY <1>1, ShiftType
    <2> QED BY <2>1, <2>2, <2>3
  <1>6. step(t, tms, tdi) \in Tap
    BY <1>1, <1>2, <1>4, <1>5, Loads DEF step, Tap
  <1>7. tdo(t) \in Bit
    BY <1>5 DEF tdo, selected, Bit
  <1> QED BY <1>6, <1>7

-----------------------------------------------------------------------------
(* The invariant                                                             *)

IInv == /\ TypeOK
        /\ FromReset(tap.state) + ones <= 5
        /\ ResetSelectsIdcode
        /\ ScanIsDelayLine

\* The controller starts in Test-Logic-Reset with IDCODE in force
\* (jtag_tap_controller.hpp:40-42).
LEMMA InitInv == Init => IInv
  <1> SUFFICES ASSUME Init PROVE IInv
    OBVIOUS
  <1>1. tap = power_on /\ tap.state = "TEST_LOGIC_RESET" /\ ones = 0
    BY DEF Init, power_on
  <1>2. TypeOK
    BY Loads, States DEF Init, power_on, TypeOK, Tap, TapInstr, InstrCodes
  <1> QED BY <1>1, <1>2 DEF IInv, FromReset, ResetSelectsIdcode, ScanIsDelayLine,
                            InIrScan, InDrScan

\* What a clock leaves of the history is of its type.
LEMMA ClockType ==
  ASSUME TypeOK, NEW tms \in Bit, NEW tdi \in Bit, clock(tms, tdi)
  PROVE  TypeOK'
  <1>1. tap' \in Tap /\ tdo(tap) \in Bit
    BY StepType DEF TypeOK, clock
  <1>2. ones' \in 0 .. 5 /\ fresh' \in BOOLEAN
    BY DEF TypeOK, clock
  <1>3. in' \in Seq(Bit) /\ out' \in Seq(Bit)
    BY <1>1 DEF TypeOK, clock
  <1> QED BY <1>1, <1>2, <1>3 DEF TypeOK

\* What step does to the fields of the controller.
LEMMA Fields ==
  ASSUME NEW tms \in Bit, NEW tdi \in Bit, clock(tms, tdi)
  PROVE  /\ tap'.state = next_state(tap.state, tms)
         /\ tap'.instr = instr_after(tap)
         /\ tap'.ir = step(tap, tms, tdi).ir
         /\ tap'.dr = step(tap, tms, tdi).dr
         /\ tap'.bypassr = step(tap, tms, tdi).bypassr
  BY DEF clock, step

\* A scan is entered by a capture only, and goes on from its own states only
\* (jtag_tap_controller.hpp:267-279).
LEMMA ScanEntry ==
  ASSUME tap.state \in TapState, NEW tms \in Bit, tap'.state = next_state(tap.state, tms)
  PROVE  /\ InIrScan' => (InIrScan /\ tap.state # "UPDATE_IR") \/ tap.state = "CAPTURE_IR"
         /\ InDrScan' => (InDrScan /\ tap.state # "UPDATE_DR") \/ tap.state = "CAPTURE_DR"
  BY States DEF next_state, jtag_tap_next_state, InIrScan, InDrScan, Bit

\* One register through one clock of a scan.
LEMMA DelayStep ==
  ASSUME NEW n \in Nat \ {0}, NEW captured \in ShiftReg(n),
         NEW reg \in ShiftReg(n), NEW regNext, NEW b \in Bit, TypeOK,
         \/ /\ Capturing /\ ~Shifting /\ regNext = captured
            /\ in' = << >> /\ out' = << >>
         \/ /\ DelayLine(captured, reg)
            /\ \/ regNext = shift(reg, b) /\ in' = Append(in, b) /\ out' = Append(out, Head(reg))
               \/ regNext = reg /\ in' = in /\ out' = out
  PROVE  out' \o regNext = captured \o in'
  <1>1. captured \in Seq(Bit) /\ in \in Seq(Bit) /\ out \in Seq(Bit)
    BY DEF TypeOK, ShiftReg
  <1>2. CASE regNext = captured /\ in' = << >> /\ out' = << >>
    BY <1>1, <1>2, ConcatEmptySeq
  <1>3. CASE DelayLine(captured, reg) /\ regNext = shift(reg, b)
             /\ in' = Append(in, b) /\ out' = Append(out, Head(reg))
    <2>1. out \o reg = captured \o in
      BY <1>3 DEF DelayLine
    <2>2. Append(out, Head(reg)) \o shift(reg, b) = Append(out \o reg, b)
      BY <1>1, ShiftMoves
    <2>3. captured \in Seq(Bit) /\ in \in Seq(Bit) /\ b \in Bit
      BY <1>1
    <2>4. Append(captured \o in, b) = captured \o Append(in, b)
      BY ONLY <2>3, AppendMoves
    <2> QED BY <1>3, <2>1, <2>2, <2>4
  <1>4. CASE DelayLine(captured, reg) /\ regNext = reg /\ in' = in /\ out' = out
    BY <1>4 DEF DelayLine
  <1> QED BY <1>2, <1>3, <1>4

\* A clock keeps every part of the invariant.
LEMMA ClockInv ==
  ASSUME IInv, NEW tms \in Bit, NEW tdi \in Bit, clock(tms, tdi)
  PROVE  IInv'
  <1>1. TypeOK /\ TypeOK'
    BY ClockType DEF IInv
  <1>2. /\ tap.state \in TapState /\ tap.instr \in TapInstr /\ tap.ir \in ShiftReg(IrLen)
        /\ tap.dr \in ShiftReg(DrLen) /\ tap.bypassr \in ShiftReg(1)
        /\ ones \in 0 .. 5 /\ ones' \in 0 .. 5
    BY <1>1 DEF TypeOK, Tap
  <1>3. FromReset(tap.state)' + ones' <= 5
    <2>1. FromReset(tap.state)' \in 0 .. 5
          /\ (tms = 1 => FromReset(tap.state)' <= IF FromReset(tap.state) = 0 THEN 0
                                                  ELSE FromReset(tap.state) - 1)
      BY <1>2, Fields, Towards
    <2>2. FromReset(tap.state) + ones <= 5 /\ FromReset(tap.state) \in 0 .. 5
      BY <1>2, States DEF IInv, FromReset
    <2>3. ones' = IF tms = 0 THEN 0 ELSE IF ones < 5 THEN ones + 1 ELSE 5
      BY DEF clock
    <2> QED BY <1>2, <2>1, <2>2, <2>3 DEF Bit
  <1>4. ResetSelectsIdcode'
    <2>1. fresh' = (tap.state = "TEST_LOGIC_RESET" \/ (fresh /\ tap.state # "UPDATE_IR"))
      BY DEF clock
    <2>2. tap'.instr = instr_after(tap)
      BY Fields
    <2> QED BY <2>1, <2>2 DEF IInv, ResetSelectsIdcode, instr_after
  <1>5. /\ InIrScan' => (InIrScan /\ tap.state # "UPDATE_IR") \/ tap.state = "CAPTURE_IR"
        /\ InDrScan' => (InDrScan /\ tap.state # "UPDATE_DR") \/ tap.state = "CAPTURE_DR"
    BY <1>2, Fields, ScanEntry
  <1>6. /\ in' = IF Shifting THEN Append(in, tdi) ELSE IF Capturing THEN << >> ELSE in
        /\ out' = IF Shifting THEN Append(out, tdo(tap)) ELSE IF Capturing THEN << >> ELSE out
    BY DEF clock
  <1>7. InIrScan' => DelayLine(IrCapture, tap.ir)'
    <2> SUFFICES ASSUME InIrScan'
                 PROVE  out' \o tap'.ir = IrCapture \o in'
      BY DEF DelayLine, IrCapture
    <2>2. CASE tap.state = "CAPTURE_IR"
      <3>1. tap'.ir = IrCapture /\ Capturing /\ ~Shifting
        BY <2>2, Fields DEF step, Capturing, Shifting
      <3>2. in' = << >> /\ out' = << >>
        BY <3>1, <1>6
      <3> QED BY <3>1, <3>2, <1>1, <1>2, DelayStep, Loads, RegisterAssumption
    <2>3. CASE tap.state = "SHIFT_IR"
      <3>1. /\ tap'.ir = shift(tap.ir, tdi) /\ tdo(tap) = Head(tap.ir)
            /\ Shifting
        BY <2>3, Fields DEF step, selected, tdo, Shifting
      <3>2. in' = Append(in, tdi) /\ out' = Append(out, Head(tap.ir))
        BY <3>1, <1>6
      <3>3. DelayLine(IrCapture, tap.ir)
        BY <2>3 DEF IInv, ScanIsDelayLine, InIrScan
      <3> QED BY <3>1, <3>2, <3>3, <1>1, <1>2, DelayStep, Loads, RegisterAssumption
    <2>4. CASE InIrScan /\ tap.state # "SHIFT_IR"
      <3>1. tap'.ir = tap.ir /\ ~Shifting /\ ~Capturing
        BY <2>4, Fields DEF step, selected, Shifting, Capturing, InIrScan
      <3>2. in' = in /\ out' = out
        BY <3>1, <1>6
      <3>3. DelayLine(IrCapture, tap.ir)
        BY <2>4 DEF IInv, ScanIsDelayLine
      <3> QED BY <3>1, <3>2, <3>3 DEF DelayLine
    <2> QED BY <1>5, <2>2, <2>3, <2>4
  <1>8. InDrScan' /\ tap'.instr = "IDCODE" => DelayLine(IdCode, tap.dr)'
    <2> SUFFICES ASSUME InDrScan', tap'.instr = "IDCODE"
                 PROVE  out' \o tap'.dr = IdCode \o in'
      BY DEF DelayLine
    <2>1. tap.instr = "IDCODE"
      BY <1>5, Fields DEF instr_after, InDrScan
    <2>2. CASE tap.state = "CAPTURE_DR"
      <3>1. tap'.dr = IdCode /\ Capturing /\ ~Shifting
        BY <2>1, <2>2, Fields DEF step, Capturing, Shifting
      <3>2. in' = << >> /\ out' = << >>
        BY <3>1, <1>6
      <3> QED BY <3>1, <3>2, <1>1, <1>2, DelayStep, Loads, RegisterAssumption
    <2>3. CASE tap.state = "SHIFT_DR"
      <3>1. /\ tap'.dr = shift(tap.dr, tdi) /\ tdo(tap) = Head(tap.dr)
            /\ Shifting
        BY <2>1, <2>3, Fields DEF step, selected, tdo, Shifting
      <3>2. in' = Append(in, tdi) /\ out' = Append(out, Head(tap.dr))
        BY <3>1, <1>6
      <3>3. DelayLine(IdCode, tap.dr)
        BY <2>1, <2>3 DEF IInv, ScanIsDelayLine, InDrScan
      <3> QED BY <3>1, <3>2, <3>3, <1>1, <1>2, DelayStep, Loads, RegisterAssumption
    <2>4. CASE InDrScan /\ tap.state # "SHIFT_DR"
      <3>1. tap'.dr = tap.dr /\ ~Shifting /\ ~Capturing
        BY <2>1, <2>4, Fields DEF step, selected, Shifting, Capturing, InDrScan
      <3>2. in' = in /\ out' = out
        BY <3>1, <1>6
      <3>3. DelayLine(IdCode, tap.dr)
        BY <2>1, <2>4 DEF IInv, ScanIsDelayLine
      <3> QED BY <3>1, <3>2, <3>3 DEF DelayLine
    <2> QED BY <1>5, <2>2, <2>3, <2>4
  <1>9. InDrScan' /\ tap'.instr = "BYPASS" => DelayLine(<<1>>, tap.bypassr)'
    <2> SUFFICES ASSUME InDrScan', tap'.instr = "BYPASS"
                 PROVE  out' \o tap'.bypassr = <<1>> \o in'
      BY DEF DelayLine
    <2>1. tap.instr = "BYPASS"
      BY <1>5, Fields DEF instr_after, InDrScan
    <2>2. CASE tap.state = "CAPTURE_DR"
      <3>1. tap'.bypassr = <<1>> /\ Capturing /\ ~Shifting
        BY <2>1, <2>2, Fields DEF step, Capturing, Shifting
      <3>2. in' = << >> /\ out' = << >>
        BY <3>1, <1>6
      <3> QED BY <3>1, <3>2, <1>1, <1>2, DelayStep, Loads, RegisterAssumption
    <2>3. CASE tap.state = "SHIFT_DR"
      <3>1. /\ tap'.bypassr = shift(tap.bypassr, tdi) /\ tdo(tap) = Head(tap.bypassr)
            /\ Shifting
        BY <2>1, <2>3, Fields DEF step, selected, tdo, Shifting
      <3>2. in' = Append(in, tdi) /\ out' = Append(out, Head(tap.bypassr))
        BY <3>1, <1>6
      <3>3. DelayLine(<<1>>, tap.bypassr)
        BY <2>1, <2>3 DEF IInv, ScanIsDelayLine, InDrScan
      <3>4. 1 \in Nat \ {0} /\ <<1>> \in ShiftReg(1)
        BY Loads
      <3>5. tap.bypassr \in ShiftReg(1) /\ TypeOK
        BY <1>1, <1>2
      <3> QED BY <3>1, <3>2, <3>3, <3>4, <3>5, DelayStep
    <2>4. CASE InDrScan /\ tap.state # "SHIFT_DR"
      <3>1. tap'.bypassr = tap.bypassr /\ ~Shifting /\ ~Capturing
        BY <2>1, <2>4, Fields DEF step, selected, Shifting, Capturing, InDrScan
      <3>2. in' = in /\ out' = out
        BY <3>1, <1>6
      <3>3. DelayLine(<<1>>, tap.bypassr)
        BY <2>1, <2>4 DEF IInv, ScanIsDelayLine
      <3> QED BY <3>1, <3>2, <3>3 DEF DelayLine
    <2> QED BY <1>5, <2>2, <2>3, <2>4
  <1> QED BY <1>1, <1>3, <1>4, <1>7, <1>8, <1>9 DEF IInv, ScanIsDelayLine

-----------------------------------------------------------------------------
(* The theorems                                                              *)

\* The invariant holds of every behaviour, and with it its parts.
THEOREM Invariance == Spec => []IInv
  <1>1. IInv /\ [Next]_vars => IInv'
    <2> SUFFICES ASSUME IInv, [Next]_vars PROVE IInv'
      OBVIOUS
    <2>1. CASE Next
      BY <2>1, ClockInv DEF Next
    <2>2. CASE UNCHANGED vars
      BY <2>2 DEF vars, IInv, TypeOK, ResetSelectsIdcode, ScanIsDelayLine, DelayLine,
                  InIrScan, InDrScan
    <2> QED BY <2>1, <2>2
  <1> QED BY InitInv, <1>1, PTL DEF Spec

\* The controller, its registers and the history are of their types, for
\* registers of any length.
THEOREM TypeCorrect == Spec => []TypeOK
  <1>1. IInv => TypeOK
    BY DEF IInv
  <1> QED BY <1>1, Invariance, PTL

\* Five clocks with TMS = 1 reset the controller wherever it was: no state is
\* further from Test-Logic-Reset (jtag_tap_controller.hpp:264-279).
THEOREM ResetFromAnywhere == Spec => []FiveOnesReset
  <1>1. IInv => FiveOnesReset
    <2> SUFFICES ASSUME IInv, ones = 5 PROVE tap.state = "TEST_LOGIC_RESET"
      BY DEF FiveOnesReset
    <2>1. FromReset(tap.state) + 5 <= 5
      BY DEF IInv
    <2> QED BY <2>1 DEF FromReset
  <1> QED BY <1>1, Invariance, PTL

\* A reset controller identifies itself (jtag_tap_controller.hpp:53-62).
THEOREM ResetIdentifies == Spec => []ResetSelectsIdcode
  <1>1. IInv => ResetSelectsIdcode
    BY DEF IInv
  <1> QED BY <1>1, Invariance, PTL

\* Every scan delays TDI by the length of the register it goes through, behind the
\* captured bits (jtag_tap_controller.hpp:53-99).
THEOREM ScansAreRight == Spec => []ScanIsDelayLine
  <1>1. IInv => ScanIsDelayLine
    BY DEF IInv
  <1> QED BY <1>1, Invariance, PTL

\* The instruction in force is IDCODE after a reset, or the one whose code was
\* shifted in last (jtag_tap_controller.hpp:110-112).
THEOREM InstructionsAreRight == Spec => InstructionIsShiftedIn
  <1> DEFINE Keeps ==
        \/ tap'.instr = tap.instr
        \/ tap.state = "TEST_LOGIC_RESET" /\ tap'.instr = "IDCODE"
        \/ /\ tap.state = "UPDATE_IR"
           /\ tap'.instr = instr_from_bits(val(LastOf(IrCapture \o in, IrLen)))
  <1>1. IInv /\ [Next]_vars => [Keeps]_vars
    <2> SUFFICES ASSUME IInv, NEW tms \in Bit, NEW tdi \in Bit, clock(tms, tdi)
                 PROVE  Keeps
      BY DEF Next
    <2>1. tap'.instr = instr_after(tap)
      BY Fields
    <2>2. CASE tap.state = "UPDATE_IR"
      <3>1. out \o tap.ir = IrCapture \o in /\ tap.ir \in ShiftReg(IrLen)
        BY <2>2 DEF IInv, ScanIsDelayLine, InIrScan, DelayLine, TypeOK, Tap
      <3>2. IrCapture \o in \in Seq(Bit) /\ out \in Seq(Bit)
        BY Loads DEF IInv, TypeOK, ShiftReg
      <3>3. tap.ir = LastOf(IrCapture \o in, IrLen)
        BY <3>1, <3>2, RegisterHoldsLast, RegisterAssumption
      <3>4. tap'.instr = instr_from_bits(val(tap.ir))
        BY <2>1, <2>2 DEF instr_after
      <3> QED BY <2>2, <3>3, <3>4
    <2>3. CASE tap.state # "UPDATE_IR"
      BY <2>1, <2>3 DEF instr_after
    <2> QED BY <2>2, <2>3
  <1> QED BY <1>1, Invariance, PTL DEF Spec, InstructionIsShiftedIn
=============================================================================
