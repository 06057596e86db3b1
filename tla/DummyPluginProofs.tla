-------------------------- MODULE DummyPluginProofs --------------------------
(***************************************************************************)
(* DummyPlugin implements TapPort, for registers of any length, any number *)
(* of clocks between two flushes and any way the server asks for them.     *)
(* What a controller does with a clock is proved in TapSessionProofs and   *)
(* cited as S!...                                                          *)
(***************************************************************************)
EXTENDS DummyPlugin, SequenceTheorems, WellFoundedInduction, TLAPS

S == INSTANCE TapSessionProofs WITH
       ones <- 0, fresh <- TRUE, in <- << >>, out <- << >>, MaxShift <- 0

-----------------------------------------------------------------------------
(* The same controller                                                       *)

\* The controller of TapSession is this one.
LEMMA SameTap ==
  /\ S!Tap = Tap /\ \A t : S!tdo(t) = tdo(t)
  /\ \A t, tms, tdi : S!step(t, tms, tdi) = step(t, tms, tdi)
  <1>1. S!Tap = Tap
    BY DEF S!Tap, Tap, S!TapState, TapState, S!jtag_tap_next_state, jtag_tap_next_state,
           S!TapInstr, TapInstr, S!InstrCodes, InstrCodes, S!ShiftReg, ShiftReg, S!Bit, Bit
  <1>2. \A t : S!selected(t) = selected(t) /\ S!tdo(t) = tdo(t)
    BY DEF S!selected, selected, S!tdo, tdo
  <1>3. \A t : S!instr_after(t) = instr_after(t)
    BY DEF S!instr_after, instr_after, S!instr_from_bits, instr_from_bits, S!val, val,
           S!InstrCodes, InstrCodes
  <1>4. \A state, tms : S!next_state(state, tms) = next_state(state, tms)
    BY DEF S!next_state, next_state, S!jtag_tap_next_state, jtag_tap_next_state
  <1>5. S!IrCapture = IrCapture /\ \A reg, b : S!shift(reg, b) = shift(reg, b)
    BY DEF S!IrCapture, IrCapture, S!shift, shift
  <1>6. \A t, tms, tdi : S!step(t, tms, tdi) = step(t, tms, tdi)
    BY <1>2, <1>3, <1>4, <1>5, ZenonT(60) DEF S!step, step
  <1>  QED
    BY <1>1, <1>2, <1>6

\* The controller of TapPort is this one.
LEMMA SamePort ==
  /\ Port!power_on = power_on /\ Port!Bit = Bit
  /\ \A t, clocks : /\ Port!after(t, clocks) = after(t, clocks)
                    /\ Port!answered(t, clocks) = answered(t, clocks)
  <1>1. \A t : Port!selected(t) = selected(t) /\ Port!tdo(t) = tdo(t)
    BY DEF Port!selected, selected, Port!tdo, tdo
  <1>2. \A t : Port!instr_after(t) = instr_after(t)
    BY DEF Port!instr_after, instr_after, Port!instr_from_bits, instr_from_bits, Port!val, val,
           Port!InstrCodes, InstrCodes
  <1>3. \A state, tms : Port!next_state(state, tms) = next_state(state, tms)
    BY DEF Port!next_state, next_state, Port!jtag_tap_next_state, jtag_tap_next_state
  <1>4. Port!IrCapture = IrCapture /\ \A reg, b : Port!shift(reg, b) = shift(reg, b)
    BY DEF Port!IrCapture, IrCapture, Port!shift, shift
  <1>5. \A t, tms, tdi : Port!step(t, tms, tdi) = step(t, tms, tdi)
    BY <1>1, <1>2, <1>3, <1>4, ZenonT(60) DEF Port!step, step
  <1>6. \A t, clocks : Port!run(t, clocks) = run(t, clocks)
    BY <1>5, Zenon DEF Port!run, run
  <1>7. Port!power_on = power_on /\ Port!Bit = Bit
    BY DEF Port!power_on, power_on, Port!zeros, zeros, Port!Bit, Bit
  <1>  QED
    BY <1>1, <1>6, <1>7, Zenon DEF Port!after, after, Port!answered, answered

\* A clock takes a controller to a controller, and its TDO is a bit
\* (jtag_tap_controller.hpp:45-128).
LEMMA StepType ==
  ASSUME NEW t \in Tap, NEW c \in Buffer!Clock
  PROVE  step(t, c.tms, c.tdi) \in Tap /\ tdo(t) \in Bit
  <1>1. c.tms \in S!Bit /\ c.tdi \in S!Bit /\ S!Bit = Bit
    BY DEF Buffer!Clock, Buffer!Bit, S!Bit, Bit
  <1>2. t \in S!Tap
    BY SameTap
  <1>3. 0 \in Nat /\ IrLen \in Nat \ {0} /\ DrLen \in Nat \ {0} /\ IdCode \in S!ShiftReg(DrLen)
    BY RegisterAssumption DEF S!ShiftReg, ShiftReg, S!Bit, Bit
  <1>4. S!step(t, c.tms, c.tdi) \in S!Tap /\ S!tdo(t) \in S!Bit
    BY <1>1, <1>2, <1>3, S!StepType
  <1>  QED
    BY <1>1, <1>4, SameTap

-----------------------------------------------------------------------------
(* Some clocks                                                               *)

\* r is the controller from clock to clock.
Follows(r, t, clocks) ==
  /\ r[0] = t
  /\ \A k \in 1 .. Len(clocks) : r[k] = step(r[k - 1], clocks[k].tms, clocks[k].tdi)

\* What is so at zero, and at the next number after each up to n, is so up to n.
LEMMA Induction ==
  ASSUME NEW n \in Nat, NEW T, 0 \in T, \A k \in 0 .. n - 1 : k \in T => k + 1 \in T
  PROVE  \A k \in 0 .. n : k \in T
  <1> DEFINE out == {k \in 0 .. n : k \notin T}
  <1>1. ASSUME out # {}  PROVE FALSE
    <2>1. PICK least \in out : \A m \in out : ~(m < least)
      <3>1. IsWellFoundedOn(OpToRel(<, Nat), Nat)
        BY NatLessThanWellFounded
      <3>2. out \in SUBSET Nat
        OBVIOUS
      <3>  HIDE DEF out
      <3>3. PICK least \in out : \A m \in out : ~(<<m, least>> \in OpToRel(<, Nat))
        <4>  HIDE DEF OpToRel
        <4>  QED
          BY <1>1, <3>1, <3>2, WFMin, Zenon
      <3>4. \A m \in out : m \in Nat
        BY <3>2
      <3>  QED
        BY <3>3, <3>4 DEF OpToRel
    <2>2. least \in 0 .. n /\ least \notin T /\ least # 0
      BY <2>1
    <2>3. least - 1 \in 0 .. n - 1 /\ (least - 1) + 1 = least /\ least - 1 < least
      BY <2>2
    <2>4. least - 1 \in T
      BY <2>1, <2>3
    <2>  QED
      BY <2>2, <2>3, <2>4
  <1>  QED
    BY <1>1

\* There is such a function: run takes it.
LEMMA RunFollows ==
  ASSUME NEW t, NEW clocks, Len(clocks) \in Nat
  PROVE  Follows(run(t, clocks), t, clocks)
  <1> DEFINE len == Len(clocks)
             next(x, k) == step(x, clocks[k].tms, clocks[k].tdi)
             IsRun(r) == r = [k \in 0 .. len |-> IF k = 0 THEN t ELSE next(r[k - 1], k)]
             Upto(m, g) == g[0] = t /\ \A k \in 1 .. m : g[k] = next(g[k - 1], k)
             T == {m \in 0 .. len : \E g : Upto(m, g)}
  <1>1. len \in Nat
    OBVIOUS
  <1>  HIDE DEF len, next
  <1>2. 0 \in T
    <2> DEFINE g == [k \in {0} |-> t]
    <2>1. g[0] = t
      OBVIOUS
    <2>  HIDE DEF g
    <2>2. Upto(0, g)
      BY <2>1
    <2>  HIDE DEF Upto
    <2>  QED
      BY <1>1, <2>2
  <1>3. ASSUME NEW m \in 0 .. len - 1, m \in T  PROVE m + 1 \in T
    <2>1. PICK g : Upto(m, g)
      BY <1>3
    <2> DEFINE h == [k \in 0 .. m + 1 |-> IF k <= m THEN g[k] ELSE next(g[m], m + 1)]
    <2>2. m \in Nat /\ m + 1 \in 0 .. len
      BY <1>1
    <2>3. (\A k \in 0 .. m : h[k] = g[k]) /\ h[m + 1] = next(g[m], m + 1)
      BY <2>2
    <2>  HIDE DEF h
    <2>4. ASSUME NEW k \in 1 .. m + 1  PROVE h[k] = next(h[k - 1], k)
      <3>1. k - 1 \in 0 .. m /\ (k \in 1 .. m \/ k = m + 1)
        BY <2>2
      <3>2. CASE k \in 1 .. m
        <4>1. k \in 0 .. m
          BY <2>2, <3>2
        <4>  QED
          BY <2>1, <2>3, <3>1, <3>2, <4>1
      <3>3. CASE k = m + 1
        <4>1. k - 1 = m
          BY <2>2, <3>3
        <4>  QED
          BY <2>3, <3>1, <3>3, <4>1
      <3>  QED
        BY <3>1, <3>2, <3>3
    <2>5. Upto(m + 1, h)
      <3>1. 0 \in 0 .. m
        BY <2>2
      <3>  QED
        BY <2>1, <2>3, <2>4, <3>1
    <2>  HIDE DEF Upto
    <2>  QED
      BY <2>2, <2>5
  <1>  HIDE DEF T
  <1>4. len \in T
    <2>1. \A m \in 0 .. len - 1 : m \in T => m + 1 \in T
      BY <1>3
    <2>2. len \in 0 .. len
      BY <1>1
    <2>  QED
      BY <1>1, <1>2, <2>1, <2>2, Induction
  <1>5. \E r : IsRun(r)
    <2>1. PICK g : Upto(len, g)
      BY <1>4 DEF T
    <2> DEFINE r == [k \in 0 .. len |-> g[k]]
    <2>2. \A k \in 0 .. len : k # 0 => k - 1 \in 0 .. len /\ k \in 1 .. len
      BY <1>1
    <2>3. \A k \in 0 .. len : r[k] = IF k = 0 THEN t ELSE next(r[k - 1], k)
      BY <2>1, <2>2
    <2>4. r = [k \in 0 .. len |-> r[k]]
      OBVIOUS
    <2>  HIDE DEF r
    <2>5. IsRun(r)
      BY <2>3, <2>4, Zenon
    <2>  QED
      BY <2>5
  <1>6. run(t, clocks) = CHOOSE r : IsRun(r)
    BY DEF run, len, next
  <1>7. IsRun(run(t, clocks))
    <2>  HIDE DEF IsRun
    <2>  QED
      BY <1>5, <1>6
  <1>8. /\ run(t, clocks)[0] = t
        /\ \A k \in 1 .. len : run(t, clocks)[k] = next(run(t, clocks)[k - 1], k)
    <2>1. 0 \in 0 .. len /\ \A k \in 1 .. len : k \in 0 .. len /\ k # 0
      BY <1>1
    <2>  QED
      BY <1>7, <2>1
  <1>  QED
    BY <1>8 DEF Follows, len, next

\* To know what clocks come to it is enough to say what each does.
LEMMA RunBy ==
  ASSUME NEW t, NEW clocks, Len(clocks) \in Nat, NEW r, Follows(r, t, clocks)
  PROVE  \A k \in 0 .. Len(clocks) : r[k] = run(t, clocks)[k]
  <1> DEFINE len == Len(clocks)
             q == run(t, clocks)
             T == {k \in 0 .. len : r[k] = q[k]}
  <1>1. Follows(q, t, clocks) /\ len \in Nat
    BY RunFollows
  <1>  HIDE DEF q, len
  <1>2. 0 \in T
    BY <1>1 DEF Follows
  <1>3. ASSUME NEW k \in 0 .. len - 1, k \in T  PROVE k + 1 \in T
    <2>1. k + 1 \in 1 .. len /\ k + 1 \in 0 .. len /\ (k + 1) - 1 = k
      BY <1>1
    <2>2. r[k + 1] = q[k + 1]
      BY <1>1, <1>3, <2>1 DEF Follows, len
    <2>  QED
      BY <2>1, <2>2
  <1>  HIDE DEF T
  <1>4. \A k \in 0 .. len : k \in T
    BY <1>1, <1>2, <1>3, Induction
  <1>  QED
    BY <1>4 DEF T, len, q

\* Controllers they are.
LEMMA RunType ==
  ASSUME NEW t \in Tap, NEW clocks \in Seq(Buffer!Clock)
  PROVE  /\ \A k \in 0 .. Len(clocks) : run(t, clocks)[k] \in Tap
         /\ answered(t, clocks) \in Seq(Bit) /\ Len(answered(t, clocks)) = Len(clocks)
         /\ \A k \in 1 .. Len(clocks) : answered(t, clocks)[k] = tdo(run(t, clocks)[k - 1])
         /\ after(t, clocks) \in Tap
  <1> DEFINE len == Len(clocks)
             r == run(t, clocks)
             T == {k \in 0 .. len : r[k] \in Tap}
  <1>1. len \in Nat /\ DOMAIN clocks = 1 .. len /\ \A k \in 1 .. len : clocks[k] \in Buffer!Clock
    OBVIOUS
  <1>2. Follows(r, t, clocks)
    BY <1>1, RunFollows
  <1>3. after(t, clocks) = r[len] /\ answered(t, clocks) = [k \in 1 .. len |-> tdo(r[k - 1])]
    BY <1>1 DEF after, answered
  <1>  HIDE DEF r
  <1>4. 0 \in T
    BY <1>1, <1>2 DEF Follows
  <1>5. ASSUME NEW k \in 0 .. len - 1, k \in T  PROVE k + 1 \in T
    <2>1. k + 1 \in 1 .. len /\ k + 1 \in 0 .. len /\ (k + 1) - 1 = k
      BY <1>1
    <2>2. r[k + 1] = step(r[k], clocks[k + 1].tms, clocks[k + 1].tdi)
      BY <1>2, <2>1 DEF Follows
    <2>3. step(r[k], clocks[k + 1].tms, clocks[k + 1].tdi) \in Tap
      BY <1>1, <1>5, <2>1, StepType
    <2>  QED
      BY <2>1, <2>2, <2>3
  <1>  HIDE DEF len, T
  <1>6. \A k \in 0 .. len : r[k] \in Tap
    <2>1. \A k \in 0 .. len : k \in T
      BY <1>1, <1>4, <1>5, Induction
    <2>  QED
      BY <2>1 DEF T
  <1>7. ASSUME NEW k \in 1 .. len  PROVE tdo(r[k - 1]) \in Bit
    <2>1. k - 1 \in 0 .. len
      BY <1>1
    <2>  QED
      BY <1>1, <1>6, <2>1, StepType
  <1>  DEFINE told == [k \in 1 .. len |-> tdo(r[k - 1])]
  <1>8. told \in [1 .. len -> Bit] /\ \A k \in 1 .. len : told[k] = tdo(r[k - 1])
    BY <1>7
  <1>  HIDE DEF told
  <1>9. told \in Seq(Bit) /\ Len(told) = len
    BY <1>1, <1>8
  <1>10. r[len] \in Tap
    BY <1>1, <1>6
  <1>  QED
    BY <1>3, <1>6, <1>8, <1>9, <1>10 DEF r, len, told

\* What makes a sequence two others, one behind the other.
LEMMA IsBoth ==
  ASSUME NEW A, NEW a \in Seq(A), NEW b \in Seq(A), NEW c \in Seq(A),
         Len(c) = Len(a) + Len(b),
         \A k \in 1 .. Len(a) : c[k] = a[k],
         \A k \in 1 .. Len(b) : c[Len(a) + k] = b[k]
  PROVE  c = a \o b
  <1>1. Len(a) \in Nat /\ Len(b) \in Nat
    OBVIOUS
  <1>2. /\ a \o b \in Seq(A) /\ Len(a \o b) = Len(a) + Len(b)
        /\ \A k \in 1 .. Len(a) + Len(b) :
             (a \o b)[k] = IF k <= Len(a) THEN a[k] ELSE b[k - Len(a)]
    BY ConcatProperties
  <1>3. ASSUME NEW k \in 1 .. Len(c), ~(k <= Len(a))  PROVE c[k] = b[k - Len(a)]
    <2>1. k - Len(a) \in 1 .. Len(b) /\ Len(a) + (k - Len(a)) = k
      BY <1>1, <1>3
    <2>  QED
      BY <2>1
  <1>4. \A k \in 1 .. Len(c) : c[k] = (a \o b)[k]
    BY <1>1, <1>2, <1>3
  <1>  QED
    BY <1>2, <1>4, SeqEqual

\* Clocks in turn.
LEMMA RunConcat ==
  ASSUME NEW t \in Tap, NEW before \in Seq(Buffer!Clock), NEW behind \in Seq(Buffer!Clock)
  PROVE  /\ before \o behind \in Seq(Buffer!Clock)
         /\ after(t, before \o behind) = after(after(t, before), behind)
         /\ answered(t, before \o behind) =
              answered(t, before) \o answered(after(t, before), behind)
  <1> DEFINE m == Len(before)
             n == Len(behind)
             both == before \o behind
             mid == after(t, before)
             r == run(t, before)
             q == run(mid, behind)
             p == run(t, both)
             joined == [k \in 0 .. m + n |-> IF k <= m THEN r[k] ELSE q[k - m]]
  <1>1. /\ m \in Nat /\ n \in Nat /\ both \in Seq(Buffer!Clock) /\ Len(both) = m + n
        /\ \A k \in 1 .. m : both[k] = before[k]
        /\ \A k \in 1 .. n : both[m + k] = behind[k]
    OBVIOUS
  <1>2. /\ r[0] = t /\ \A k \in 1 .. m : r[k] = step(r[k - 1], before[k].tms, before[k].tdi)
        /\ q[0] = mid /\ \A k \in 1 .. n : q[k] = step(q[k - 1], behind[k].tms, behind[k].tdi)
    BY <1>1, RunFollows DEF Follows
  <1>3. mid = r[m] /\ mid \in Tap
    BY RunType DEF after
  <1>4. /\ answered(t, before) \in Seq(Bit) /\ Len(answered(t, before)) = m
        /\ \A k \in 1 .. m : answered(t, before)[k] = tdo(r[k - 1])
    BY RunType
  <1>5. /\ answered(mid, behind) \in Seq(Bit) /\ Len(answered(mid, behind)) = n
        /\ \A k \in 1 .. n : answered(mid, behind)[k] = tdo(q[k - 1])
        /\ after(mid, behind) = q[n]
    BY <1>3, RunType DEF after
  <1>6. /\ answered(t, both) \in Seq(Bit) /\ Len(answered(t, both)) = m + n
        /\ \A k \in 1 .. m + n : answered(t, both)[k] = tdo(p[k - 1])
        /\ after(t, both) = p[m + n]
    BY <1>1, RunType DEF after
  <1>  HIDE DEF m, n, both, mid, r, q, p
  <1>7. /\ \A k \in 0 .. m : joined[k] = r[k]
        /\ \A k \in 0 .. n : joined[m + k] = q[k]
    <2>1. \A k \in 0 .. m : k \in 0 .. m + n /\ k <= m
      BY <1>1
    <2>2. ASSUME NEW k \in 0 .. n  PROVE joined[m + k] = q[k]
      <3>1. m + k \in 0 .. m + n /\ (m + k) - m = k /\ (m + k <= m <=> k = 0)
        BY <1>1
      <3>2. CASE k = 0
        <4>1. m + k = m /\ joined[m + k] = r[m + k]
          BY <1>1, <3>1, <3>2
        <4>  QED
          BY <1>2, <1>3, <3>2, <4>1
      <3>3. CASE k # 0
        BY <3>1, <3>3
      <3>  QED
        BY <3>2, <3>3
    <2>  QED
      BY <2>1, <2>2
  <1>  HIDE DEF joined
  <1>8. ASSUME NEW k \in 1 .. m + n
        PROVE  joined[k] = step(joined[k - 1], both[k].tms, both[k].tdi)
    <2>1. CASE k <= m
      <3>1. k \in 1 .. m /\ k \in 0 .. m /\ k - 1 \in 0 .. m
        BY <1>1, <2>1
      <3>  QED
        BY <1>1, <1>2, <1>7, <3>1
    <2>2. CASE ~(k <= m)
      <3>1. PICK j \in 1 .. n : k = m + j
        <4>1. k - m \in 1 .. n /\ k = m + (k - m)
          BY <1>1, <2>2
        <4>  QED
          BY <4>1
      <3>2. j \in 0 .. n /\ j - 1 \in 0 .. n /\ k - 1 = m + (j - 1)
        BY <1>1, <3>1
      <3>3. joined[k] = q[j] /\ joined[k - 1] = q[j - 1] /\ both[k] = behind[j]
        BY <1>1, <1>7, <3>1, <3>2
      <3>  QED
        BY <1>2, <3>3
    <2>  QED
      BY <2>1, <2>2
  <1>9. \A k \in 0 .. m + n : p[k] = joined[k]
    <2>1. 0 \in 0 .. m
      BY <1>1
    <2>2. joined[0] = t
      BY <1>2, <1>7, <2>1
    <2>3. Follows(joined, t, both)
      BY <1>1, <1>8, <2>2 DEF Follows
    <2>  QED
      BY <1>1, <2>3, RunBy DEF p
  <1>10. p[m + n] = q[n]
    <2>1. n \in 0 .. n /\ m + n \in 0 .. m + n
      BY <1>1
    <2>  QED
      BY <1>7, <1>9, <2>1
  <1>11. answered(t, both) = answered(t, before) \o answered(mid, behind)
    <2>1. ASSUME NEW k \in 1 .. m  PROVE answered(t, both)[k] = answered(t, before)[k]
      <3>1. k \in 1 .. m + n /\ k - 1 \in 0 .. m + n /\ k - 1 \in 0 .. m
        BY <1>1
      <3>2. p[k - 1] = r[k - 1]
        BY <1>7, <1>9, <3>1
      <3>  QED
        BY <1>4, <1>6, <3>1, <3>2
    <2>2. ASSUME NEW k \in 1 .. n  PROVE answered(t, both)[m + k] = answered(mid, behind)[k]
      <3>1. /\ m + k \in 1 .. m + n /\ (m + k) - 1 = m + (k - 1) /\ m + (k - 1) \in 0 .. m + n
            /\ k - 1 \in 0 .. n
        BY <1>1
      <3>2. p[m + (k - 1)] = q[k - 1]
        BY <1>7, <1>9, <3>1
      <3>  QED
        BY <1>5, <1>6, <3>1, <3>2
    <2>  QED
      BY <1>4, <1>5, <1>6, <2>1, <2>2, IsBoth
  <1>  QED
    BY <1>1, <1>5, <1>6, <1>10, <1>11 DEF both, mid

\* No clock, and one.
LEMMA NoneAndOne ==
  ASSUME NEW t \in Tap, NEW c \in Buffer!Clock
  PROVE  /\ after(t, << >>) = t /\ answered(t, << >>) = << >>
         /\ <<c>> \in Seq(Buffer!Clock) /\ after(t, <<c>>) = step(t, c.tms, c.tdi)
         /\ answered(t, <<c>>) = <<tdo(t)>>
  <1>1. << >> \in Seq(Buffer!Clock) /\ Len(<< >>) = 0
    OBVIOUS
  <1>2. <<c>> \in Seq(Buffer!Clock) /\ Len(<<c>>) = 1 /\ <<c>>[1] = c
    OBVIOUS
  <1>3. after(t, << >>) = t
    BY <1>1, RunFollows DEF Follows, after
  <1>4. answered(t, << >>) = << >>
    BY <1>1, RunType, EmptySeq
  <1>  DEFINE one == <<c>>
  <1>5. run(t, one)[0] = t /\ run(t, one)[1] = step(t, c.tms, c.tdi)
    <2>1. Len(one) \in Nat /\ 1 \in 1 .. Len(one) /\ 1 - 1 = 0
      BY <1>2
    <2>2. Follows(run(t, one), t, one)
      BY <2>1, RunFollows
    <2>  HIDE DEF one
    <2>3. one[1] = c
      BY <1>2 DEF one
    <2>  QED
      BY <2>1, <2>2, <2>3 DEF Follows
  <1>  HIDE DEF one
  <1>6. after(t, one) = step(t, c.tms, c.tdi)
    BY <1>2, <1>5 DEF after, one
  <1>7. answered(t, one) = <<tdo(t)>>
    <2>1. one \in Seq(Buffer!Clock) /\ Len(one) = 1 /\ 1 \in 1 .. 1 /\ 1 - 1 = 0
      BY <1>2 DEF one
    <2>2. /\ answered(t, one) \in Seq(Bit) /\ Len(answered(t, one)) = 1
          /\ answered(t, one)[1] = tdo(run(t, one)[1 - 1])
      BY <2>1, RunType
    <2>3. answered(t, one)[1] = tdo(t)
      BY <1>5, <2>1, <2>2
    <2>4. tdo(t) \in Bit
      BY StepType
    <2>  QED
      BY <2>2, <2>3, <2>4
  <1>  QED
    BY <1>2, <1>3, <1>4, <1>6, <1>7 DEF one

-----------------------------------------------------------------------------
(* Staging                                                                   *)

\* What is staged behind the clocks is zero, and they are no more than there is room for.
Clean(s) ==
  /\ s \in Buffer!Buffers /\ s.tdi_data_count <= MaxStaged
  /\ \A p \in Places : p >= s.tdi_data_count => s.tdi[p] = 0 /\ s.tms[p] = 0

\* The staged clocks.
LEMMA StagedIs ==
  ASSUME NEW s \in Buffer!Buffers, s.tdi_data_count <= MaxStaged,
         NEW from \in 0 .. s.tdi_data_count, NEW n, n = s.tdi_data_count - from
  PROVE  /\ n \in Nat /\ Buffer!StagedFrom(s, from) \in Seq(Buffer!Clock)
         /\ Len(Buffer!StagedFrom(s, from)) = n
         /\ \A k \in 1 .. n : Buffer!StagedFrom(s, from)[k] =
                                [tms |-> s.tms[from + k - 1], tdi |-> s.tdi[from + k - 1]]
  <1> DEFINE c(k) == [tms |-> s.tms[from + k - 1], tdi |-> s.tdi[from + k - 1]]
             q == [k \in 1 .. n |-> c(k)]
  <1>1. /\ n \in Nat /\ s.tdi_data_count \in Nat
        /\ s.tdi \in [Places -> Buffer!Bit] /\ s.tms \in [Places -> Buffer!Bit]
    BY DEF Buffer!Buffers
  <1>2. Buffer!StagedFrom(s, from) = q
    BY DEF Buffer!StagedFrom
  <1>3. ASSUME NEW k \in 1 .. n  PROVE c(k) \in Buffer!Clock
    <2>1. from + k - 1 \in Places
      BY <1>1, StagedAssumption DEF Places
    <2>  QED
      BY <1>1, <2>1 DEF Buffer!Clock
  <1>  HIDE DEF c
  <1>4. q \in [1 .. n -> Buffer!Clock] /\ \A k \in 1 .. n : q[k] = c(k)
    BY <1>3
  <1>  HIDE DEF q
  <1>5. q \in Seq(Buffer!Clock) /\ Len(q) = n
    BY <1>1, <1>4
  <1>  QED
    BY <1>1, <1>2, <1>4, <1>5 DEF c

\* Staging puts clocks behind those that are there, since what they are or-ed into is zero.
LEMMA StageAppends ==
  ASSUME NEW s, Clean(s), NEW clocks \in Seq(Buffer!Clock),
         s.tdi_data_count + Len(clocks) <= MaxStaged, NEW t, t = Buffer!stage(s, clocks)
  PROVE  /\ Clean(t) /\ t.tdi_data_count = s.tdi_data_count + Len(clocks)
         /\ t.tdo_data_count = s.tdo_data_count
         /\ Buffer!StagedFrom(t, 0) = Buffer!StagedFrom(s, 0) \o clocks
  <1> DEFINE n == s.tdi_data_count
             m == Len(clocks)
             new(p) == p \in n .. n + m - 1
             tdi == [p \in Places |-> IF new(p) THEN Buffer!Or(s.tdi[p], clocks[p - n + 1].tdi)
                                      ELSE s.tdi[p]]
             tms == [p \in Places |-> IF new(p) THEN Buffer!Or(s.tms[p], clocks[p - n + 1].tms)
                                      ELSE s.tms[p]]
  <1>1. t = [s EXCEPT !.tdi = tdi, !.tms = tms, !.tdi_data_count = n + m]
    BY DEF Buffer!stage
  <1>2. /\ n \in Nat /\ m \in Nat /\ s.tdo_data_count \in Nat
        /\ s.tdi \in [Places -> Buffer!Bit] /\ s.tms \in [Places -> Buffer!Bit]
        /\ n <= MaxStaged /\ n + m <= MaxStaged /\ s \in Buffer!Buffers
        /\ \A p \in Places : p >= n => s.tdi[p] = 0 /\ s.tms[p] = 0
    BY DEF Clean, Buffer!Buffers
  <1>3. \A k \in 1 .. m : /\ clocks[k].tms \in Buffer!Bit /\ clocks[k].tdi \in Buffer!Bit
                          /\ clocks[k] = [tms |-> clocks[k].tms, tdi |-> clocks[k].tdi]
    <2>1. \A k \in 1 .. m : clocks[k] \in Buffer!Clock
      OBVIOUS
    <2>  QED
      BY <2>1 DEF Buffer!Clock
  <1>4. \A b \in Buffer!Bit : Buffer!Or(0, b) = b
    BY DEF Buffer!Bit, Buffer!Or
  <1>  HIDE DEF n, m
  <1>5. ASSUME NEW p \in Places
        PROVE  /\ p < n => tdi[p] = s.tdi[p] /\ tms[p] = s.tms[p]
               /\ p >= n + m => tdi[p] = 0 /\ tms[p] = 0
               /\ new(p) => /\ p - n + 1 \in 1 .. m
                            /\ tdi[p] = clocks[p - n + 1].tdi /\ tms[p] = clocks[p - n + 1].tms
    <2>1. p \in Nat
      BY StagedAssumption DEF Places
    <2>2. (p < n => ~new(p)) /\ (p >= n + m => ~new(p) /\ p >= n)
      BY <1>2, <2>1
    <2>3. ASSUME new(p)  PROVE p - n + 1 \in 1 .. m /\ s.tdi[p] = 0 /\ s.tms[p] = 0
      BY <1>2, <2>1, <2>3
    <2>  QED
      BY <1>2, <1>3, <1>4, <2>2, <2>3
  <1>6. \A p \in Places : tdi[p] \in Buffer!Bit /\ tms[p] \in Buffer!Bit
    <2>1. \A p \in Places : p < n \/ new(p) \/ p >= n + m
      BY <1>2, StagedAssumption DEF Places
    <2>2. 0 \in Buffer!Bit
      BY DEF Buffer!Bit
    <2>  HIDE DEF tdi, tms, new
    <2>  QED
      BY <1>2, <1>3, <1>5, <2>1, <2>2
  <1>7. tdi \in [Places -> Buffer!Bit] /\ tms \in [Places -> Buffer!Bit]
    BY <1>6
  <1>8. \A k \in 1 .. m : /\ n + k - 1 \in Places /\ new(n + k - 1) /\ (n + k - 1) - n + 1 = k
    BY <1>2, StagedAssumption DEF Places
  <1>  HIDE DEF tdi, tms, new
  <1>9. /\ t.tdi = tdi /\ t.tms = tms /\ t.tdi_data_count = n + m
        /\ t.tdo_data_count = s.tdo_data_count /\ t \in Buffer!Buffers
    <2>1. s \in Buffer!Buffers /\ s.tdo_data_count \in Nat /\ n + m \in Nat
      BY <1>2
    <2>2. t = [tdi |-> tdi, tms |-> tms, tdi_data_count |-> n + m,
               tdo_data_count |-> s.tdo_data_count]
      BY <1>1, <2>1 DEF Buffer!Buffers
    <2>  QED
      BY <1>7, <2>1, <2>2 DEF Buffer!Buffers
  <1>10. Clean(t)
    BY <1>2, <1>5, <1>9 DEF Clean
  <1>11. Buffer!StagedFrom(t, 0) = Buffer!StagedFrom(s, 0) \o clocks
    <2> DEFINE before == Buffer!StagedFrom(s, 0)
               both == Buffer!StagedFrom(t, 0)
    <2>1. 0 \in 0 .. n /\ n = n - 0 /\ 0 \in 0 .. n + m /\ n + m = (n + m) - 0
      BY <1>2
    <2>2. /\ before \in Seq(Buffer!Clock) /\ Len(before) = n
          /\ \A k \in 1 .. n : before[k] = [tms |-> s.tms[0 + k - 1], tdi |-> s.tdi[0 + k - 1]]
      BY <1>2, <2>1, StagedIs DEF n
    <2>3. /\ both \in Seq(Buffer!Clock) /\ Len(both) = n + m
          /\ \A k \in 1 .. n + m : both[k] = [tms |-> tms[0 + k - 1], tdi |-> tdi[0 + k - 1]]
      BY <1>2, <1>9, <2>1, StagedIs
    <2>  HIDE DEF before, both
    <2>4. ASSUME NEW k \in 1 .. n  PROVE both[k] = before[k]
      <3>1. k \in 1 .. n + m /\ 0 + k - 1 \in Places /\ 0 + k - 1 < n
        BY <1>2, StagedAssumption DEF Places
      <3>  QED
        BY <1>5, <2>2, <2>3, <3>1
    <2>5. ASSUME NEW k \in 1 .. m  PROVE both[n + k] = clocks[k]
      <3>1. n + k \in 1 .. n + m /\ 0 + (n + k) - 1 = n + k - 1
        BY <1>2
      <3>2. both[n + k] = [tms |-> tms[n + k - 1], tdi |-> tdi[n + k - 1]]
        BY <2>3, <3>1
      <3>3. tms[n + k - 1] = clocks[k].tms /\ tdi[n + k - 1] = clocks[k].tdi
        BY <1>5, <1>8
      <3>  QED
        BY <1>3, <3>2, <3>3
    <2>6. both = before \o clocks
      BY <2>2, <2>3, <2>4, <2>5, IsBoth DEF m
    <2>  QED
      BY <2>6 DEF before, both
  <1>  QED
    BY <1>9, <1>10, <1>11 DEF n, m

\* The clock at a position, and then the rest.
LEMMA NextStaged ==
  ASSUME NEW s \in Buffer!Buffers, s.tdi_data_count <= MaxStaged,
         NEW from \in 0 .. s.tdi_data_count - 1, NEW c, c = [tms |-> s.tms[from], tdi |-> s.tdi[from]]
  PROVE  /\ c \in Buffer!Clock
         /\ Buffer!StagedFrom(s, from) = <<c>> \o Buffer!StagedFrom(s, from + 1)
  <1> DEFINE n == s.tdi_data_count - (from + 1)
             all == Buffer!StagedFrom(s, from)
             rest == Buffer!StagedFrom(s, from + 1)
             at(k) == [tms |-> s.tms[k], tdi |-> s.tdi[k]]
             one == <<c>>
  <1>1. /\ from \in Int /\ from \in 0 .. s.tdi_data_count /\ from + 1 \in 0 .. s.tdi_data_count
        /\ n \in Nat /\ s.tdi_data_count - from = 1 + n /\ 1 + n = s.tdi_data_count - from
    BY DEF Buffer!Buffers
  <1>2. /\ all \in Seq(Buffer!Clock) /\ Len(all) = 1 + n
        /\ \A k \in 1 .. 1 + n : all[k] = at(from + k - 1)
    BY <1>1, StagedIs
  <1>3. /\ rest \in Seq(Buffer!Clock) /\ Len(rest) = n
        /\ \A k \in 1 .. n : rest[k] = at((from + 1) + k - 1)
    BY <1>1, StagedIs
  <1>4. c = at(from)
    OBVIOUS
  <1>  HIDE DEF n, all, rest, at
  <1>5. all[1] = c /\ c \in Buffer!Clock
    <2>1. 1 \in 1 .. 1 + n /\ from + 1 - 1 = from
      BY <1>1
    <2>  QED
      BY <1>2, <1>4, <2>1
  <1>6. one \in Seq(Buffer!Clock) /\ Len(one) = 1 /\ one[1] = c
    BY <1>5
  <1>  HIDE DEF one
  <1>7. ASSUME NEW k \in 1 .. n  PROVE all[1 + k] = rest[k]
    <2>1. 1 + k \in 1 .. 1 + n /\ from + (1 + k) - 1 = (from + 1) + k - 1
      BY <1>1
    <2>  QED
      BY <1>2, <1>3, <2>1
  <1>8. all = one \o rest
    <2>1. \A k \in 1 .. Len(one) : all[k] = one[k]
      BY <1>5, <1>6
    <2>2. Len(all) = Len(one) + Len(rest)
      BY <1>1, <1>2, <1>3, <1>6
    <2>3. \A k \in 1 .. Len(rest) : all[Len(one) + k] = rest[k]
      BY <1>3, <1>6, <1>7
    <2>  QED
      BY <1>2, <1>3, <1>6, <2>1, <2>2, <2>3, IsBoth
  <1>  QED
    BY <1>5, <1>8 DEF all, rest, one

-----------------------------------------------------------------------------
(* The inductive invariant                                                   *)

\* Both pairs of buffers are zero behind what has been or-ed into them, and there is one
\* answer for each clock the loop of do_flush has taken.
DInv ==
  /\ Clean(staged) /\ tdo_data \in [Places -> Bit] /\ tap \in Tap
  /\ flushing = NotFlushing \/ flushing \in 0 .. staged.tdi_data_count
  /\ staged.tdo_data_count = IF flushing = NotFlushing THEN 0 ELSE flushing
  /\ \A p \in Places : p >= staged.tdo_data_count => tdo_data[p] = 0

\* What has been answered and not been handed over.
told == [k \in 1 .. staged.tdo_data_count |-> tdo_data[k - 1]]
\* What the server may count on.
to_come == told \o answered(tap, Waiting)

\* The port's variables.
LEMMA PortIs ==
  /\ Port!Init <=> /\ after(tap, Waiting) = power_on /\ to_come = << >> /\ report = << >>
  /\ Port!Flush <=> /\ report' = to_come /\ to_come' = << >>
                    /\ after(tap, Waiting)' = after(tap, Waiting)
  /\ \A clocks : Port!Asked(clocks) <=>
       /\ report' = report /\ to_come' = to_come \o answered(after(tap, Waiting), clocks)
       /\ after(tap, Waiting)' = after(after(tap, Waiting), clocks)
  /\ UNCHANGED Port!vars <=> /\ after(tap, Waiting)' = after(tap, Waiting)
                             /\ to_come' = to_come /\ report' = report
  BY SamePort, Zenon DEF Port!Init, Port!Flush, Port!Asked, Port!vars, to_come, told

\* What has been told is bits, and what waits is clocks.
InSequence ==
  /\ told \in Seq(Bit) /\ Len(told) = staged.tdo_data_count
  /\ Waiting \in Seq(Buffer!Clock) /\ staged.tdo_data_count \in Nat
  /\ answered(tap, Waiting) \in Seq(Bit) /\ after(tap, Waiting) \in Tap

\* They are in sequence as long as the invariant holds.
LEMMA SeqsAre == DInv => InSequence
  <1> SUFFICES ASSUME DInv  PROVE InSequence
    OBVIOUS
  <1> DEFINE n == staged.tdo_data_count
             from == IF flushing = NotFlushing THEN 0 ELSE flushing
  <1>1. /\ staged \in Buffer!Buffers /\ staged.tdi_data_count <= MaxStaged
        /\ staged.tdi_data_count \in Nat /\ n \in Nat /\ n <= staged.tdi_data_count
        /\ from \in 0 .. staged.tdi_data_count
    BY DEF DInv, Clean, Buffer!Buffers
  <1>2. Waiting \in Seq(Buffer!Clock)
    BY <1>1, StagedIs DEF Waiting
  <1>3. told = [k \in 1 .. n |-> tdo_data[k - 1]]
    BY DEF told
  <1>  HIDE DEF n, from
  <1>4. \A k \in 1 .. n : tdo_data[k - 1] \in Bit
    BY <1>1, StagedAssumption DEF DInv, Places
  <1>5. told \in [1 .. n -> Bit]
    BY <1>3, <1>4
  <1>6. told \in Seq(Bit) /\ Len(told) = n
    BY <1>1, <1>5
  <1>  QED
    BY <1>1, <1>2, <1>6, RunType DEF DInv, InSequence, n

\* At first nothing is staged and the controller is as it is when power comes on.
LEMMA InitInv == Init => DInv /\ Port!Init
  <1> SUFFICES ASSUME Init  PROVE DInv /\ Port!Init
    OBVIOUS
  <1>1. tap \in Tap
    <2>1. \A n \in Nat : zeros(n) \in ShiftReg(n)
      BY DEF zeros, ShiftReg, Bit
    <2>2. "TEST_LOGIC_RESET" \in TapState /\ "IDCODE" \in TapInstr
      BY DEF TapState, jtag_tap_next_state, TapInstr, InstrCodes
    <2>  QED
      BY <2>1, <2>2, RegisterAssumption DEF Init, power_on, Tap
  <1>2. /\ staged = Buffer!Empty /\ tdo_data = Buffer!Zeros /\ flushing = NotFlushing
        /\ tap = power_on /\ report = << >>
    BY DEF Init
  <1>3. Clean(Buffer!Empty) /\ Buffer!Empty.tdi_data_count = 0 /\ Buffer!Empty.tdo_data_count = 0
    BY StagedAssumption DEF Clean, Buffer!Empty, Buffer!Zeros, Buffer!Buffers, Buffer!Bit
  <1>4. DInv
    BY <1>1, <1>2, <1>3 DEF DInv, Buffer!Zeros, Bit
  <1>5. told = << >> /\ Waiting = << >>
    <2>1. Waiting = [k \in 1 .. 0 |-> [tms |-> staged.tms[0 + k - 1], tdi |-> staged.tdi[0 + k - 1]]]
      BY <1>2, <1>3 DEF Waiting, Buffer!StagedFrom
    <2>2. told = [k \in 1 .. 0 |-> tdo_data[k - 1]]
      BY <1>2, <1>3 DEF told
    <2>  QED
      BY <2>1, <2>2
  <1>6. after(tap, << >>) = tap /\ answered(tap, << >>) = << >>
    <2>1. [tms |-> 0, tdi |-> 0] \in Buffer!Clock
      BY DEF Buffer!Clock, Buffer!Bit
    <2>  QED
      BY <1>1, <2>1, NoneAndOne
  <1>  QED
    BY <1>2, <1>4, <1>5, <1>6, PortIs DEF to_come

\* Loading, opening and entering the loop of do_flush are nothing to the port.
LEMMA OthersKeep ==
  ASSUME DInv, load \/ open \/ do_flush \/ UNCHANGED vars
  PROVE  DInv' /\ UNCHANGED Port!vars
  <1>1. /\ staged' = staged /\ tdo_data' = tdo_data /\ tap' = tap /\ report' = report
        /\ \/ flushing' = flushing
           \/ flushing = NotFlushing /\ flushing' = 0
    BY DEF load, get_supported_hardware, open, init_dev, do_flush, Called, vars
  <1>2. 0 \in 0 .. staged.tdi_data_count /\ 0 # NotFlushing
    BY DEF DInv, Clean, Buffer!Buffers, NotFlushing
  <1>3. DInv'
    BY <1>1, <1>2 DEF DInv, Clean
  <1>4. Waiting' = Waiting /\ told' = told
    BY <1>1, <1>2 DEF Waiting, told, Buffer!StagedFrom
  <1>  QED
    BY <1>1, <1>3, <1>4, PortIs DEF to_come

\* Clocks that are staged are clocks the port is asked for.
LEMMA StageKeeps ==
  ASSUME DInv, NEW clocks \in Seq(Buffer!Clock), Stage(clocks)
  PROVE  DInv' /\ (Port!Next \/ UNCHANGED Port!vars)
  <1>1. /\ flushing = NotFlushing /\ flushing' = flushing /\ tdo_data' = tdo_data /\ tap' = tap
        /\ report' = report /\ staged' = Buffer!stage(staged, clocks)
        /\ staged.tdi_data_count + Len(clocks) <= MaxStaged
    BY DEF Stage, Called
  <1>2. /\ Clean(staged') /\ staged'.tdo_data_count = staged.tdo_data_count
        /\ Buffer!StagedFrom(staged', 0) = Buffer!StagedFrom(staged, 0) \o clocks
    BY <1>1, StageAppends DEF DInv
  <1>3. DInv'
    BY <1>1, <1>2 DEF DInv, Clean
  <1>4. Waiting' = Waiting \o clocks /\ told' = told
    BY <1>1, <1>2 DEF Waiting, told
  <1>5. /\ told \in Seq(Bit) /\ Waiting \in Seq(Buffer!Clock) /\ tap \in Tap
        /\ answered(tap, Waiting) \in Seq(Bit) /\ after(tap, Waiting) \in Tap
    BY SeqsAre DEF DInv, InSequence
  <1>6. /\ after(tap, Waiting)' = after(after(tap, Waiting), clocks)
        /\ answered(tap, Waiting)' = answered(tap, Waiting) \o answered(after(tap, Waiting), clocks)
    BY <1>1, <1>4, <1>5, RunConcat
  <1>7. answered(after(tap, Waiting), clocks) \in Seq(Bit)
    BY <1>5, RunType
  <1>8. to_come' = to_come \o answered(after(tap, Waiting), clocks)
    <2> DEFINE a == answered(tap, Waiting)
               b == answered(after(tap, Waiting), clocks)
    <2>1. to_come' = told \o (a \o b) /\ to_come = told \o a
      BY <1>4, <1>6 DEF to_come
    <2>  HIDE DEF a, b
    <2>2. told \in Seq(Bit) /\ a \in Seq(Bit) /\ b \in Seq(Bit)
      BY <1>5, <1>7 DEF a, b
    <2>3. told \o (a \o b) = (told \o a) \o b
      BY <2>2, ConcatAssociative
    <2>  QED
      BY <2>1, <2>3 DEF b
  <1>9. Port!Asked(clocks)
    BY <1>1, <1>6, <1>8, PortIs
  <1>10. CASE clocks = << >>
    <2>1. Waiting \o << >> = Waiting
      BY <1>5
    <2>2. Waiting' = Waiting
      BY <1>4, <1>10, <2>1
    <2>  QED
      BY <1>1, <1>3, <1>4, <2>2, PortIs DEF to_come
  <1>11. CASE clocks # << >>
    <2>1. staged.tdi_data_count \in Nat /\ Len(clocks) \in Nat /\ Len(clocks) # 0
      BY <1>11 DEF DInv, Clean, Buffer!Buffers
    <2>2. Len(clocks) \in 1 .. MaxStaged
      BY <1>1, <2>1, StagedAssumption
    <2>3. clocks \in [1 .. Len(clocks) -> [tms: Port!Bit, tdi: Port!Bit]]
      <3>1. Buffer!Clock = [tms: Port!Bit, tdi: Port!Bit]
        BY SamePort DEF Buffer!Clock, Buffer!Bit, Bit
      <3>2. clocks \in [1 .. Len(clocks) -> Buffer!Clock]
        OBVIOUS
      <3>  QED
        BY <3>1, <3>2
    <2>4. Port!Next
      BY <1>9, <2>2, <2>3 DEF Port!Next
    <2>  QED
      BY <1>3, <2>4
  <1>  QED
    BY <1>10, <1>11

\* A turn of the loop answers the first clock that waits: the server may count on the same.
LEMMA StepKeeps ==
  ASSUME DInv, step_next
  PROVE  DInv' /\ UNCHANGED Port!vars
  <1> DEFINE n == staged.tdi_data_count
             i == flushing
             c == [tms |-> staged.tms[i], tdi |-> staged.tdi[i]]
             bit == tdo(tap)
  <1>1. /\ i \in 0 .. n - 1 /\ tap' = step(tap, staged.tms[i], staged.tdi[i])
        /\ tdo_data' = [tdo_data EXCEPT ![i] = Buffer!Or(@, bit)]
        /\ staged' = [staged EXCEPT !.tdo_data_count = @ + 1] /\ i' = i + 1 /\ report' = report
    BY DEF step_next, counted
  <1>2. /\ Clean(staged) /\ staged \in Buffer!Buffers /\ n \in Nat /\ n <= MaxStaged
        /\ tdo_data \in [Places -> Bit] /\ tap \in Tap
        /\ staged.tdo_data_count = IF i = NotFlushing THEN 0 ELSE i
        /\ \A p \in Places : p >= staged.tdo_data_count => tdo_data[p] = 0
    BY DEF DInv, Clean, Buffer!Buffers
  <1>3. /\ i \in Nat /\ i # NotFlushing /\ i + 1 # NotFlushing /\ i < n /\ i + 1 \in 0 .. n
        /\ i \in Places /\ staged.tdo_data_count = i
    BY <1>1, <1>2, StagedAssumption DEF NotFlushing, Places
  <1>4. /\ staged'.tdi = staged.tdi /\ staged'.tms = staged.tms /\ staged'.tdi_data_count = n
        /\ staged'.tdo_data_count = i + 1 /\ staged' \in Buffer!Buffers
    BY <1>1, <1>2, <1>3 DEF Buffer!Buffers
  <1>5. Clean(staged')
    BY <1>2, <1>4 DEF Clean
  <1>6. /\ c \in Buffer!Clock
        /\ Buffer!StagedFrom(staged, i) = <<c>> \o Buffer!StagedFrom(staged, i + 1)
    BY <1>1, <1>2, NextStaged
  <1>7. bit \in Bit /\ tap' \in Tap /\ after(tap, <<c>>) = tap' /\ answered(tap, <<c>>) = <<bit>>
    <2>1. step(tap, c.tms, c.tdi) = tap'
      BY <1>1
    <2>  HIDE DEF c
    <2>  QED
      BY <1>2, <1>6, <2>1, StepType, NoneAndOne
  <1>8. /\ tdo_data' \in [Places -> Bit] /\ tdo_data'[i] = bit
        /\ \A p \in Places : p # i => tdo_data'[p] = tdo_data[p]
    <2>1. tdo_data[i] = 0 /\ Buffer!Or(0, bit) = bit
      BY <1>2, <1>3, <1>7 DEF Buffer!Or, Bit
    <2>2. tdo_data' = [tdo_data EXCEPT ![i] = bit]
      BY <1>1, <2>1
    <2>  HIDE DEF bit
    <2>  QED
      BY <1>2, <1>3, <1>7, <2>2
  <1>9. \A p \in Places : p >= i + 1 => tdo_data'[p] = 0
    <2>1. \A p \in Places : p >= i + 1 => p # i /\ p >= i
      BY <1>3, StagedAssumption DEF Places
    <2>  QED
      BY <1>2, <1>3, <1>8, <2>1
  <1>10. DInv'
    <2>1. i' \in 0 .. staged'.tdi_data_count /\ i' # NotFlushing
      BY <1>1, <1>3, <1>4
    <2>2. \A p \in Places : p >= staged'.tdo_data_count => tdo_data'[p] = 0
      BY <1>4, <1>9
    <2>3. /\ Clean(staged') /\ tdo_data' \in [Places -> Bit] /\ tap' \in Tap
          /\ staged'.tdo_data_count = i'
      BY <1>1, <1>4, <1>5, <1>7, <1>8
    <2>  QED
      BY <2>1, <2>2, <2>3 DEF DInv, Clean
  <1>11. Waiting = <<c>> \o Waiting'
    <2>1. Buffer!StagedFrom(staged', i + 1) = Buffer!StagedFrom(staged, i + 1)
      BY <1>4 DEF Buffer!StagedFrom
    <2>2. Waiting = Buffer!StagedFrom(staged, i) /\ Waiting' = Buffer!StagedFrom(staged', i + 1)
      BY <1>1, <1>3 DEF Waiting
    <2>  QED
      BY <1>6, <2>1, <2>2
  <1>12. /\ told \in Seq(Bit) /\ Len(told) = i /\ Waiting' \in Seq(Buffer!Clock)
         /\ told' \in Seq(Bit) /\ Len(told') = i + 1 /\ answered(tap, Waiting)' \in Seq(Bit)
    <2>1. told \in Seq(Bit) /\ Len(told) = i
      BY <1>3, SeqsAre DEF InSequence
    <2>2. InSequence'
      BY <1>10, SeqsAre, PTL
    <2>3. /\ Waiting' \in Seq(Buffer!Clock) /\ told' \in Seq(Bit)
          /\ Len(told') = staged'.tdo_data_count /\ answered(tap, Waiting)' \in Seq(Bit)
      BY <2>2 DEF InSequence
    <2>  QED
      BY <1>4, <2>1, <2>3
  <1>13. told' = told \o <<bit>>
    <2>1. <<bit>> \in Seq(Bit) /\ Len(<<bit>>) = 1 /\ <<bit>>[1] = bit
      BY <1>7
    <2>2. /\ \A k \in 1 .. i : told[k] = tdo_data[k - 1]
          /\ \A k \in 1 .. i + 1 : told'[k] = tdo_data'[k - 1]
      BY <1>3, <1>4 DEF told
    <2>  DEFINE one == <<bit>>
                new == told'
    <2>  HIDE DEF one, bit
    <2>3. ASSUME NEW k \in 1 .. i  PROVE told'[k] = told[k]
      <3>1. k - 1 \in Places /\ k - 1 # i /\ k \in 1 .. i + 1
        BY <1>2, <1>3, StagedAssumption DEF Places
      <3>  QED
        BY <1>8, <2>2, <3>1
    <2>4. \A k \in 1 .. 1 : told'[i + k] = one[k]
      <3>1. i + 1 \in 1 .. i + 1 /\ (i + 1) - 1 = i /\ \A k \in 1 .. 1 : k = 1
        BY <1>3
      <3>2. told'[i + 1] = bit
        BY <1>8, <2>2, <3>1
      <3>  QED
        BY <2>1, <3>1, <3>2 DEF one
    <2>  HIDE DEF new
    <2>5. /\ one \in Seq(Bit) /\ Len(one) = 1 /\ told \in Seq(Bit) /\ Len(told) = i
          /\ new \in Seq(Bit) /\ Len(new) = i + 1
          /\ \A k \in 1 .. i : new[k] = told[k] /\ \A j \in 1 .. 1 : new[i + j] = one[j]
      BY <1>12, <2>1, <2>3, <2>4 DEF one, new
    <2>6. new = told \o one
      <3>1. \A k \in 1 .. 1 : new[i + k] = one[k]
        BY <2>4 DEF new
      <3>2. \A k \in 1 .. i : new[k] = told[k]
        BY <2>3 DEF new
      <3>3. /\ Len(new) = Len(told) + Len(one)
            /\ \A k \in 1 .. Len(told) : new[k] = told[k]
            /\ \A k \in 1 .. Len(one) : new[Len(told) + k] = one[k]
        BY <2>5, <3>1, <3>2
      <3>  QED
        BY <2>5, <3>3, IsBoth
    <2>  QED
      BY <2>6 DEF new, one, bit
  <1>  DEFINE first == <<c>>
              answer == <<bit>>
  <1>14. /\ first \in Seq(Buffer!Clock) /\ answer \in Seq(Bit)
         /\ after(tap, first) = tap' /\ answered(tap, first) = answer
    BY <1>6, <1>7
  <1>  HIDE DEF first, answer, c, bit
  <1>15. /\ after(tap, Waiting) = after(tap', Waiting')
         /\ answered(tap, Waiting) = answer \o answered(tap', Waiting')
    <2>1. Waiting = first \o Waiting'
      BY <1>11 DEF first
    <2>  QED
      BY <1>2, <1>12, <1>14, <2>1, RunConcat
  <1>16. to_come' = to_come
    <2>  DEFINE rest == answered(tap', Waiting')
    <2>1. rest \in Seq(Bit) /\ told \in Seq(Bit) /\ answer \in Seq(Bit)
      BY <1>12, <1>14
    <2>2. to_come' = (told \o answer) \o rest /\ to_come = told \o (answer \o rest)
      BY <1>13, <1>15 DEF to_come, answer, bit
    <2>  HIDE DEF rest
    <2>3. (told \o answer) \o rest = told \o (answer \o rest)
      BY <2>1, ConcatAssociative
    <2>  QED
      BY <2>2, <2>3
  <1>  QED
    BY <1>1, <1>10, <1>15, <1>16, PortIs

\* The tail of do_flush hands over all that has been answered, and nothing waits then.
LEMMA FinishKeeps ==
  ASSUME DInv, finish_flush
  PROVE  DInv' /\ Port!Next
  <1>1. /\ flushing = staged.tdi_data_count /\ flushing' = NotFlushing /\ tap' = tap
        /\ report' = told /\ staged' = Buffer!Empty /\ tdo_data' = Buffer!Zeros
    BY DEF finish_flush, tdo_cleared, told
  <1>2. Clean(Buffer!Empty) /\ Buffer!Empty.tdi_data_count = 0 /\ Buffer!Empty.tdo_data_count = 0
    BY StagedAssumption DEF Clean, Buffer!Empty, Buffer!Zeros, Buffer!Buffers, Buffer!Bit
  <1>3. DInv'
    BY <1>1, <1>2 DEF DInv, Clean, Buffer!Zeros, Bit
  <1>4. flushing \in Nat /\ flushing # NotFlushing
    BY <1>1 DEF DInv, Clean, Buffer!Buffers, NotFlushing
  <1>5. Waiting = << >>
    <2>1. staged.tdi_data_count - flushing = 0
      BY <1>1, <1>4
    <2>2. Waiting = [k \in 1 .. 0 |-> [tms |-> staged.tms[flushing + k - 1],
                                       tdi |-> staged.tdi[flushing + k - 1]]]
      BY <1>4, <2>1 DEF Waiting, Buffer!StagedFrom
    <2>  QED
      BY <2>2
  <1>6. Waiting' = << >> /\ told' = << >>
    <2>1. Waiting' = [k \in 1 .. 0 |-> [tms |-> staged'.tms[0 + k - 1],
                                        tdi |-> staged'.tdi[0 + k - 1]]]
      BY <1>1, <1>2 DEF Waiting, Buffer!StagedFrom
    <2>2. told' = [k \in 1 .. 0 |-> tdo_data'[k - 1]]
      BY <1>1, <1>2 DEF told
    <2>  QED
      BY <2>1, <2>2
  <1>7. after(tap, << >>) = tap /\ answered(tap, << >>) = << >>
    <2>1. [tms |-> 0, tdi |-> 0] \in Buffer!Clock
      BY DEF Buffer!Clock, Buffer!Bit
    <2>  QED
      BY <2>1, NoneAndOne DEF DInv
  <1>8. told \in Seq(Bit)
    BY SeqsAre DEF InSequence
  <1>9. to_come = told
    BY <1>5, <1>7, <1>8 DEF to_come
  <1>10. to_come' = << >>
    BY <1>1, <1>6, <1>7 DEF to_come
  <1>11. after(tap, Waiting)' = after(tap, Waiting)
    BY <1>1, <1>5, <1>6
  <1>12. Port!Flush
    BY <1>1, <1>9, <1>10, <1>11, PortIs
  <1>  QED
    BY <1>3, <1>12 DEF Port!Next

\* What the server asks for with clock_raw and clock_multiple is clocks.
LEMMA AskedIs ==
  ASSUME raw \/ multiple
  PROVE  \E clocks \in Seq(Buffer!Clock) : Stage(clocks)
  <1>1. CASE raw
    <2>1. PICK tms \in Bit, tdi \in Bit, len \in Lengths : Stage(Buffer!clock_raw(tms, tdi, len))
      BY <1>1 DEF raw, clock_raw
    <2>2. len \in Nat
      BY StagedAssumption
    <2>3. Buffer!clock_raw(tms, tdi, len) \in [1 .. len -> Buffer!Clock]
      BY DEF Buffer!clock_raw, Buffer!Clock, Buffer!Bit, Bit
    <2>4. Buffer!clock_raw(tms, tdi, len) \in Seq(Buffer!Clock)
      BY <2>2, <2>3
    <2>  QED
      BY <2>1, <2>4
  <1>2. CASE multiple
    <2>0. PICK tms \in Bit, len \in Lengths :
            \E bits \in [1 .. len -> Bit] : Stage(Buffer!clock_multiple(tms, bits))
      BY <1>2 DEF multiple, clock_multiple
    <2>1. PICK bits \in [1 .. len -> Bit] : Stage(Buffer!clock_multiple(tms, bits))
      BY <2>0
    <2>2. len \in Nat
      BY StagedAssumption
    <2>3. Buffer!clock_multiple(tms, bits) \in [1 .. len -> Buffer!Clock]
      BY DEF Buffer!clock_multiple, Buffer!Clock, Buffer!Bit, Bit
    <2>4. Buffer!clock_multiple(tms, bits) \in Seq(Buffer!Clock)
      BY <2>2, <2>3
    <2>  QED
      BY <2>1, <2>4
  <1>  QED
    BY <1>1, <1>2

\* Every step keeps the invariant, and is one of the port or nothing to it.
LEMMA NextInv == DInv /\ [Next]_vars => DInv' /\ [Port!Next]_Port!vars
  <1> SUFFICES ASSUME DInv, [Next]_vars  PROVE DInv' /\ (Port!Next \/ UNCHANGED Port!vars)
    OBVIOUS
  <1>1. CASE load \/ open \/ do_flush \/ UNCHANGED vars
    BY <1>1, OthersKeep
  <1>2. CASE raw \/ multiple
    <2>1. PICK clocks \in Seq(Buffer!Clock) : Stage(clocks)
      BY <1>2, AskedIs
    <2>  QED
      BY <2>1, StageKeeps
  <1>3. CASE step_next
    BY <1>3, StepKeeps
  <1>4. CASE finish_flush
    BY <1>4, FinishKeeps
  <1>  QED
    BY <1>1, <1>2, <1>3, <1>4, Zenon DEF Next

-----------------------------------------------------------------------------
(* The theorems                                                              *)

\* The buffers are zero behind what is in them, and there is an answer for each clock that
\* do_flush has taken (jtag_hw_dummy.cpp:57-130).
THEOREM Invariance == Spec => []DInv
  <1>1. Init => DInv
    BY InitInv
  <1>2. DInv /\ [Next]_vars => DInv'
    BY NextInv
  <1>  QED
    BY <1>1, <1>2, PTL DEF Spec

\* The plug-in without hardware keeps the promise of a port, for registers of any length and
\* any number of clocks (jtag_hw_dummy.cpp:99-130).
THEOREM Implements == Spec => KeepsPort
  <1>1. Init => Port!Init
    BY InitInv
  <1>2. DInv /\ [Next]_vars => [Port!Next]_Port!vars
    BY NextInv
  <1>  QED
    BY <1>1, <1>2, Invariance, PTL DEF Spec, KeepsPort, Port!Spec
=============================================================================
