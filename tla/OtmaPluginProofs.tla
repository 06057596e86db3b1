--------------------------- MODULE OtmaPluginProofs ---------------------------
(***************************************************************************)
(* Theorems about OtmaPlugin on top of the command queue, for buffers of   *)
(* any size, any number of clocks and any way the server stages them, in a *)
(* build with assertions.  What the driver does inside of do_flush is not  *)
(* proved again: the lemmas of MpsseQueueProofs are used as D!...          *)
(***************************************************************************)
EXTENDS OtmaPlugin, SequenceTheorems, TLAPS

D == INSTANCE MpsseQueueProofs

-----------------------------------------------------------------------------
(* The inductive invariant                                                   *)

\* Behind the staged bits the buffers are zero: clock_raw and clock_multiple or into
\* them (jtag_hw_otma.cpp:159-160 and 182-183).
ZerosBehind == \A p \in Places : p >= staged.tdi_data_count =>
                 staged.tdi[p] = 0 /\ staged.tms[p] = 0

\* The loop of do_flush: one answer counted per clock handed over, and every clock of
\* it asked to be read.
LoopCounts ==
  /\ flushing = NotFlushing => staged.tdo_data_count = 0
  /\ flushing # NotFlushing =>
       /\ flushing <= staged.tdi_data_count /\ staged.tdo_data_count = flushing
       /\ flushing <= tick
       /\ \A d \in tick - flushing .. tick - 1 : d \in asked

\* The memory of a tick holds its own bit or none, and between two calls of the
\* driver no call is left in it.
OwnMemory == \A d \in Mpsse!Ticks : mem[d] = d \/ mem[d] = Mpsse!NoBit
NothingLeft == call.length = 0 => call = Mpsse!NoCall

OInv == /\ TypeOK /\ D!IInv
        /\ ZerosBehind /\ LoopCounts /\ OwnMemory /\ NothingLeft
        /\ DrivenAsRequested /\ ReportIsOwnBits /\ DriverAtRest
-----------------------------------------------------------------------------
(* Staging                                                                   *)

\* Oring a clock into zeros gives the clock.
LEMMA OrIntoZero ==
  /\ \A b \in Bit : Buffer!Or(0, b) = b
  /\ \A a, b \in Bit : Buffer!Or(a, b) \in Bit
  BY DEF Bit, Buffer!Or

\* What stage makes of the buffers: the bits before stay, the new ones are those of
\* the clocks, behind them everything is zero still.
LEMMA StageBits ==
  ASSUME NEW s \in Buffer!Buffers, NEW clocks \in Seq(Buffer!Clock),
         s.tdi_data_count + Len(clocks) <= MaxTicks,
         \A p \in Places : p >= s.tdi_data_count => s.tdi[p] = 0 /\ s.tms[p] = 0
  PROVE  LET t == Buffer!stage(s, clocks)
             n == s.tdi_data_count
         IN /\ t \in Buffer!Buffers
            /\ t.tdi_data_count = n + Len(clocks)
            /\ t.tdo_data_count = s.tdo_data_count
            /\ \A p \in Places : p < n => t.tdi[p] = s.tdi[p] /\ t.tms[p] = s.tms[p]
            /\ \A k \in 1 .. Len(clocks) : /\ t.tdi[n + k - 1] = clocks[k].tdi
                                           /\ t.tms[n + k - 1] = clocks[k].tms
            /\ \A p \in Places : p >= n + Len(clocks) => t.tdi[p] = 0 /\ t.tms[p] = 0
  <1> DEFINE n == s.tdi_data_count
             new(p) == p \in n .. n + Len(clocks) - 1
             tdi == [p \in Places |-> IF new(p) THEN Buffer!Or(s.tdi[p], clocks[p - n + 1].tdi)
                                      ELSE s.tdi[p]]
             tms == [p \in Places |-> IF new(p) THEN Buffer!Or(s.tms[p], clocks[p - n + 1].tms)
                                      ELSE s.tms[p]]
             t == Buffer!stage(s, clocks)
  <1>1. t = [s EXCEPT !.tdi = tdi, !.tms = tms, !.tdi_data_count = n + Len(clocks)]
    BY DEF Buffer!stage
  <1>2. /\ n \in Nat /\ Len(clocks) \in Nat /\ n + Len(clocks) \in Nat
        /\ s.tdi \in [Places -> Bit] /\ s.tms \in [Places -> Bit]
    BY DEF Buffer!Buffers, Bit, Buffer!Bit
  <1>3. ASSUME NEW k \in 1 .. Len(clocks)
        PROVE  clocks[k].tdi \in Bit /\ clocks[k].tms \in Bit
    <2>1. clocks[k] \in Buffer!Clock
      BY ElementOfSeq
    <2> QED BY <2>1 DEF Buffer!Clock, Buffer!Bit, Bit
  <1>4. ASSUME NEW p \in Places, new(p)
        PROVE  /\ p - n + 1 \in 1 .. Len(clocks)
               /\ tdi[p] = clocks[p - n + 1].tdi /\ tms[p] = clocks[p - n + 1].tms
    <2>1. p - n + 1 \in 1 .. Len(clocks) /\ p >= n
      BY <1>2, <1>4
    <2>2. s.tdi[p] = 0 /\ s.tms[p] = 0
      BY <2>1
    <2> QED BY <1>3, <1>4, <2>1, <2>2, OrIntoZero
  <1>5. ASSUME NEW p \in Places, ~new(p)
        PROVE  tdi[p] = s.tdi[p] /\ tms[p] = s.tms[p]
    BY <1>5
  <1>6. tdi \in [Places -> Bit] /\ tms \in [Places -> Bit]
    <2>1. \A p \in Places : tdi[p] \in Bit /\ tms[p] \in Bit
      BY <1>2, <1>3, <1>4, <1>5
    <2> QED BY <2>1
  <1> HIDE DEF tdi, tms
  <1>7. /\ t \in Buffer!Buffers /\ t.tdi = tdi /\ t.tms = tms
        /\ t.tdi_data_count = n + Len(clocks) /\ t.tdo_data_count = s.tdo_data_count
    <2>1. t = [tdi |-> tdi, tms |-> tms, tdi_data_count |-> n + Len(clocks),
               tdo_data_count |-> s.tdo_data_count]
      BY <1>1 DEF Buffer!Buffers
    <2>2. s.tdo_data_count \in Nat
      BY DEF Buffer!Buffers
    <2> HIDE DEF t, n
    <2> QED BY <1>2, <1>6, <2>1, <2>2 DEF Buffer!Buffers, Buffer!Bit, Bit
  <1>8. ASSUME NEW p \in Places, p < n
        PROVE  t.tdi[p] = s.tdi[p] /\ t.tms[p] = s.tms[p]
    BY <1>2, <1>5, <1>7, <1>8
  <1>9. ASSUME NEW k \in 1 .. Len(clocks)
        PROVE  t.tdi[n + k - 1] = clocks[k].tdi /\ t.tms[n + k - 1] = clocks[k].tms
    <2>1. n + k - 1 \in Places /\ new(n + k - 1) /\ (n + k - 1) - n + 1 = k
      BY <1>2, ServerAssumption, SMTT(30) DEF Places
    <2> QED BY <1>4, <1>7, <2>1
  <1>10. ASSUME NEW p \in Places, p >= n + Len(clocks)
         PROVE  t.tdi[p] = 0 /\ t.tms[p] = 0
    <2>1. ~new(p) /\ p >= n
      BY <1>2, <1>10 DEF Places
    <2> QED BY <1>5, <1>7, <2>1
  <1> QED BY <1>7, <1>8, <1>9, <1>10

\* A function on 1 .. n is a sequence of length n.
LEMMA FunctionIsSeq ==
  ASSUME NEW S, NEW n \in Nat, NEW f \in [1 .. n -> S]
  PROVE  f \in Seq(S) /\ Len(f) = n
  BY SMT

\* What makes a sequence the concatenation of two others.
LEMMA IsConcat ==
  ASSUME NEW S, NEW a \in Seq(S), NEW b \in Seq(S), NEW c \in Seq(S),
         Len(c) = Len(a) + Len(b),
         \A k \in 1 .. Len(a) : c[k] = a[k],
         \A k \in 1 .. Len(b) : c[Len(a) + k] = b[k]
  PROVE  c = a \o b
  <1>1. Len(a) \in Nat /\ Len(b) \in Nat
    OBVIOUS
  <1>2. /\ a \o b \in Seq(S) /\ Len(a \o b) = Len(a) + Len(b)
        /\ \A k \in 1 .. Len(a) + Len(b) :
             (a \o b)[k] = IF k <= Len(a) THEN a[k] ELSE b[k - Len(a)]
    BY ConcatProperties
  <1>3. ASSUME NEW k \in 1 .. Len(c)
        PROVE  c[k] = (a \o b)[k]
    <2>1. CASE k <= Len(a)
      BY <1>1, <1>2, <2>1
    <2>2. CASE ~(k <= Len(a))
      <3>1. k - Len(a) \in 1 .. Len(b) /\ Len(a) + (k - Len(a)) = k
        BY <1>1, <2>2
      <3> QED BY <1>2, <2>2, <3>1
    <2> QED BY <2>1, <2>2
  <1> QED BY <1>2, <1>3, SeqEqual

\* The staged clocks are a sequence of clocks.
LEMMA StagedIsSeq ==
  ASSUME NEW s \in Buffer!Buffers, s.tdi_data_count <= MaxTicks,
         NEW from \in 0 .. s.tdi_data_count
  PROVE  LET q == Buffer!StagedFrom(s, from)
         IN /\ q \in Seq(Buffer!Clock) /\ Len(q) = s.tdi_data_count - from
            /\ \A k \in 1 .. Len(q) :
                 q[k] = [tms |-> s.tms[from + k - 1], tdi |-> s.tdi[from + k - 1]]
  <1> DEFINE n == s.tdi_data_count - from
             q == Buffer!StagedFrom(s, from)
  <1>1. /\ n \in Nat /\ s.tdi_data_count \in Nat
        /\ s.tdi \in [Places -> Buffer!Bit] /\ s.tms \in [Places -> Buffer!Bit]
    BY DEF Buffer!Buffers
  <1>2. q = [k \in 1 .. n |-> [tms |-> s.tms[from + k - 1], tdi |-> s.tdi[from + k - 1]]]
    BY DEF Buffer!StagedFrom
  <1>3. \A k \in 1 .. n : [tms |-> s.tms[from + k - 1], tdi |-> s.tdi[from + k - 1]] \in Buffer!Clock
    <2> SUFFICES ASSUME NEW k \in 1 .. n
                 PROVE  s.tms[from + k - 1] \in Buffer!Bit /\ s.tdi[from + k - 1] \in Buffer!Bit
      BY DEF Buffer!Clock
    <2>1. from + k - 1 \in Places
      BY <1>1, ServerAssumption DEF Places
    <2> QED BY <1>1, <2>1
  <1>4. q \in [1 .. n -> Buffer!Clock]
    BY <1>2, <1>3
  <1> HIDE DEF q
  <1>5. q \in Seq(Buffer!Clock) /\ Len(q) = n
    BY <1>1, <1>4, FunctionIsSeq, SMTT(30)
  <1>6. \A k \in 1 .. n : q[k] = [tms |-> s.tms[from + k - 1], tdi |-> s.tdi[from + k - 1]]
    BY <1>2
  <1> HIDE DEF n
  <1>7. \A k \in 1 .. Len(q) : q[k] = [tms |-> s.tms[from + k - 1], tdi |-> s.tdi[from + k - 1]]
    BY <1>5, <1>6
  <1> QED BY <1>5, <1>7 DEF n, q

\* The whole of it, from the first clock on.
LEMMA StagedFromStart ==
  ASSUME NEW s \in Buffer!Buffers, s.tdi_data_count <= MaxTicks
  PROVE  LET q == Buffer!StagedFrom(s, 0)
         IN /\ q \in Seq(Buffer!Clock) /\ Len(q) = s.tdi_data_count
            /\ \A k \in 1 .. s.tdi_data_count :
                 q[k] = [tms |-> s.tms[0 + k - 1], tdi |-> s.tdi[0 + k - 1]]
  <1> DEFINE q == Buffer!StagedFrom(s, 0)
             n == s.tdi_data_count
  <1>1. n \in Nat /\ n <= MaxTicks
    BY DEF Buffer!Buffers
  <1> HIDE DEF n
  <1>2. 0 \in 0 .. n /\ n - 0 = n
    BY <1>1
  <1>3. 0 \in 0 .. s.tdi_data_count
    BY <1>2 DEF n
  <1>4. /\ q \in Seq(Buffer!Clock) /\ Len(q) = n - 0
        /\ \A k \in 1 .. Len(q) :
             q[k] = [tms |-> s.tms[0 + k - 1], tdi |-> s.tdi[0 + k - 1]]
    BY <1>3, StagedIsSeq, Zenon DEF n
  <1>5. Len(q) = n
    BY <1>2, <1>4
  <1> QED BY <1>4, <1>5, Zenon DEF n

\* Staging appends: the clocks to come are those of before and then the new ones.
LEMMA StagingAppends ==
  ASSUME NEW s \in Buffer!Buffers, NEW clocks \in Seq(Buffer!Clock),
         s.tdi_data_count + Len(clocks) <= MaxTicks,
         \A p \in Places : p >= s.tdi_data_count => s.tdi[p] = 0 /\ s.tms[p] = 0
  PROVE  Buffer!StagedFrom(Buffer!stage(s, clocks), 0) = Buffer!StagedFrom(s, 0) \o clocks
  <1> DEFINE t == Buffer!stage(s, clocks)
             before == Buffer!StagedFrom(s, 0)
             after == Buffer!StagedFrom(t, 0)
             n == s.tdi_data_count
  <1>1. /\ t \in Buffer!Buffers /\ t.tdi_data_count = n + Len(clocks)
        /\ \A p \in Places : p < n => t.tdi[p] = s.tdi[p] /\ t.tms[p] = s.tms[p]
        /\ \A k \in 1 .. Len(clocks) : /\ t.tdi[n + k - 1] = clocks[k].tdi
                                       /\ t.tms[n + k - 1] = clocks[k].tms
    BY StageBits
  <1> HIDE DEF t
  <1>2. n \in Nat /\ Len(clocks) \in Nat /\ n <= MaxTicks /\ 0 \in 0 .. n
    BY ServerAssumption DEF Buffer!Buffers
  <1>3. /\ before \in Seq(Buffer!Clock) /\ Len(before) = n
        /\ \A k \in 1 .. n : before[k] = [tms |-> s.tms[0 + k - 1], tdi |-> s.tdi[0 + k - 1]]
    BY <1>2, StagedFromStart
  <1>4. /\ after \in Seq(Buffer!Clock) /\ Len(after) = n + Len(clocks)
        /\ \A k \in 1 .. n + Len(clocks) :
             after[k] = [tms |-> t.tms[0 + k - 1], tdi |-> t.tdi[0 + k - 1]]
    <2>1. t \in Buffer!Buffers /\ t.tdi_data_count <= MaxTicks
      BY <1>1, <1>2
    <2>2. /\ after \in Seq(Buffer!Clock) /\ Len(after) = t.tdi_data_count
          /\ \A k \in 1 .. t.tdi_data_count :
               after[k] = [tms |-> t.tms[0 + k - 1], tdi |-> t.tdi[0 + k - 1]]
      BY <2>1, StagedFromStart
    <2> HIDE DEF after, n
    <2> QED BY <1>1, <2>2
  <1> HIDE DEF before, after
  <1>5. ASSUME NEW k \in 1 .. n
        PROVE  after[k] = before[k]
    <2>1. 0 + k - 1 \in Places /\ 0 + k - 1 < n /\ k \in 1 .. n + Len(clocks)
      BY <1>2, ServerAssumption DEF Places
    <2> DEFINE p == 0 + k - 1
    <2>2. after[k] = [tms |-> t.tms[p], tdi |-> t.tdi[p]]
      BY <1>4, <2>1
    <2>3. before[k] = [tms |-> s.tms[p], tdi |-> s.tdi[p]]
      BY <1>3
    <2>4. p \in Places /\ p < n
      BY <2>1
    <2> HIDE DEF p, n
    <2>5. t.tms[p] = s.tms[p] /\ t.tdi[p] = s.tdi[p]
      BY <1>1, <2>4
    <2> QED BY <2>2, <2>3, <2>5
  <1>6. ASSUME NEW k \in 1 .. Len(clocks)
        PROVE  after[n + k] = clocks[k]
    <2>1. n + k \in 1 .. n + Len(clocks) /\ 0 + (n + k) - 1 = n + k - 1
      <3> HIDE DEF n
      <3> QED BY <1>2
    <2> DEFINE p == n + k - 1
    <2>a. after[n + k] = [tms |-> t.tms[p], tdi |-> t.tdi[p]]
      <3>1. after[n + k] = [tms |-> t.tms[0 + (n + k) - 1], tdi |-> t.tdi[0 + (n + k) - 1]]
        BY <1>4, <2>1, Zenon
      <3> QED BY <2>1, <3>1, Zenon
    <2>b. t.tms[p] = clocks[k].tms /\ t.tdi[p] = clocks[k].tdi
      BY <1>1, Zenon
    <2>2. after[n + k] = [tms |-> clocks[k].tms, tdi |-> clocks[k].tdi]
      BY <2>a, <2>b, Zenon
    <2>3. clocks[k] \in Buffer!Clock
      BY ElementOfSeq
    <2> QED BY <2>2, <2>3 DEF Buffer!Clock
  <1> HIDE DEF n
  <1>7. after = before \o clocks
    BY <1>3, <1>4, <1>5, <1>6, IsConcat
  <1> QED BY <1>7 DEF t, before, after

\* The clock at position from, and then the rest.
LEMMA NextStaged ==
  ASSUME NEW s \in Buffer!Buffers, s.tdi_data_count <= MaxTicks,
         NEW from \in 0 .. s.tdi_data_count - 1
  PROVE  LET c == [tms |-> s.tms[from], tdi |-> s.tdi[from]]
         IN /\ c \in Buffer!Clock
            /\ Buffer!StagedFrom(s, from) = << c >> \o Buffer!StagedFrom(s, from + 1)
  <1> DEFINE c == [tms |-> s.tms[from], tdi |-> s.tdi[from]]
             all == Buffer!StagedFrom(s, from)
             rest == Buffer!StagedFrom(s, from + 1)
             n == s.tdi_data_count
  <1>1. n \in Nat /\ from \in Nat /\ from + 1 \in 0 .. n /\ from \in 0 .. n
    BY DEF Buffer!Buffers
  <1>2. /\ all \in Seq(Buffer!Clock) /\ Len(all) = n - from
        /\ \A k \in 1 .. n - from :
             all[k] = [tms |-> s.tms[from + k - 1], tdi |-> s.tdi[from + k - 1]]
    BY <1>1, StagedIsSeq, ZenonT(60)
  <1>3. /\ rest \in Seq(Buffer!Clock) /\ Len(rest) = n - (from + 1)
        /\ \A k \in 1 .. n - (from + 1) :
             rest[k] = [tms |-> s.tms[(from + 1) + k - 1], tdi |-> s.tdi[(from + 1) + k - 1]]
    BY <1>1, StagedIsSeq, ZenonT(60)
  <1>4. all[1] = c /\ c \in Buffer!Clock
    <2>1. 1 \in 1 .. n - from /\ from + 1 - 1 = from
      BY <1>1
    <2>2. all[1] = c
      BY <1>2, <2>1
    <2> QED BY <1>2, <2>1, <2>2, ElementOfSeq
  <1> HIDE DEF all, rest, c, n
  <1>5. << c >> \in Seq(Buffer!Clock) /\ Len(<< c >>) = 1 /\ << c >>[1] = c
    BY <1>4
  <1> DEFINE one == << c >>
  <1> HIDE DEF one
  <1>6. one \in Seq(Buffer!Clock) /\ Len(one) = 1 /\ one[1] = c
    BY <1>5 DEF one
  <1>7. \A k \in 1 .. Len(one) : all[k] = one[k]
    BY <1>4, <1>6
  <1>8. ASSUME NEW k \in 1 .. Len(rest)
        PROVE  all[Len(one) + k] = rest[k]
    <2>1. k \in 1 .. n - (from + 1)
      BY <1>3
    <2>2. 1 + k \in 1 .. n - from /\ from + (1 + k) - 1 = (from + 1) + k - 1
      BY <1>1, <2>1
    <2> QED BY <1>2, <1>3, <1>6, <2>1, <2>2
  <1>9. all = one \o rest
    <2>1. Len(all) = Len(one) + Len(rest)
      BY <1>1, <1>2, <1>3, <1>6
    <2> QED BY <1>2, <1>3, <1>6, <1>7, <1>8, <2>1, IsConcat
  <1> QED BY <1>4, <1>9 DEF all, rest, c, one

\* After a memset nothing is staged.
LEMMA NothingStaged ==
  /\ Buffer!Empty \in Buffer!Buffers
  /\ Buffer!Empty.tdi_data_count = 0 /\ Buffer!Empty.tdo_data_count = 0
  /\ \A p \in Places : Buffer!Empty.tdi[p] = 0 /\ Buffer!Empty.tms[p] = 0
  BY DEF Buffer!Empty, Buffer!Zeros, Buffer!Buffers, Buffer!Bit

-----------------------------------------------------------------------------
(* The driver underneath                                                     *)

\* The steps of the driver that the plug-in takes are those the lemmas of
\* MpsseQueueProofs are about.
LEMMA SameInit == Mpsse!Init => D!Init
  BY DEF Mpsse!Init, D!Init, Mpsse!NoCall, D!NoCall, Mpsse!Ticks, D!Ticks, Mpsse!NoBit, D!NoBit

LEMMA SameStart ==
  Mpsse!mpsse_clock_tms_cs(TRUE, 1) => D!start("tms", TRUE, TRUE, 1)
  BY SMTT(60) DEF Mpsse!mpsse_clock_tms_cs, Mpsse!start, D!start, Mpsse!Idle, D!Idle,
     Mpsse!Running, D!Running, Mpsse!Ask, D!Ask

LEMMA SameTurn == Mpsse!tms_turn => D!tms_turn
  BY ZenonT(60) DEF Mpsse!tms_turn, D!tms_turn, Mpsse!Running, D!Running, Mpsse!flush_if, D!flush_if,
     Mpsse!mpsse_flush, D!mpsse_flush, Mpsse!Result, D!Result, Mpsse!Drained, D!Drained,
     Mpsse!mpsse_purge, D!mpsse_purge, Mpsse!flush_after_error, D!flush_after_error,
     Mpsse!bit_copy_execute, D!bit_copy_execute, Mpsse!Ticks, D!Ticks, Mpsse!Fills, D!Fills,
     Mpsse!BitFor, D!BitFor, Mpsse!tms_short, D!tms_short, Mpsse!tms_bits, D!tms_bits,
     Mpsse!Lesser, D!Lesser, Mpsse!buffer_write_space, D!buffer_write_space,
     Mpsse!buffer_read_space, D!buffer_read_space, Mpsse!Unsigned, D!Unsigned,
     Mpsse!Abort, D!Abort, Mpsse!Turn, D!Turn, Mpsse!queue_clocks, D!queue_clocks,
     Mpsse!buffer_write, D!buffer_write, Mpsse!buffer_add_read, D!buffer_add_read,
     Mpsse!chip_answers, D!chip_answers, Mpsse!DIV_ROUND_UP, D!DIV_ROUND_UP,
     Mpsse!NoBit, D!NoBit, Mpsse!rest_of, D!rest_of, Mpsse!NoCall, D!NoCall

LEMMA SameFlush == Mpsse!flush => D!flush
  BY Zenon DEF Mpsse!flush, D!flush, Mpsse!Idle, D!Idle, Mpsse!Running, D!Running,
     Mpsse!mpsse_flush, D!mpsse_flush, Mpsse!Result, D!Result, Mpsse!Drained, D!Drained,
     Mpsse!mpsse_purge, D!mpsse_purge, Mpsse!flush_after_error, D!flush_after_error,
     Mpsse!bit_copy_execute, D!bit_copy_execute, Mpsse!Ticks, D!Ticks, Mpsse!Fills, D!Fills,
     Mpsse!BitFor, D!BitFor, Mpsse!Abort, D!Abort

\* What the proofs below need of the driver's invariant.
LEMMA DriverFacts ==
  ASSUME D!IInv
  PROVE  /\ D!CtxInv(ctx) /\ mem \in D!Memory /\ tick \in 0 .. MaxTicks /\ tick \in Nat
         /\ call.length \in Nat /\ asked \subseteq D!Ticks
         /\ \A d \in asked : d < tick
  BY ServerAssumption DEF D!IInv, D!TypeOK, D!Memory, D!Call

\* A turn of the clock loop puts into the memory of a tick its own bit or nothing, and
\* leaves the loop with no call.
LEMMA TurnKeepsOwn ==
  ASSUME ~NDEBUG, D!IInv, OwnMemory, NothingLeft, Mpsse!tms_turn
  PROVE  /\ D!IInv' /\ OwnMemory' /\ NothingLeft'
         /\ tick' = tick /\ asked' = asked /\ outcome' = outcome
  <1>1. D!tms_turn
    BY SameTurn
  <1>2. D!IInv'
    BY <1>1, D!TmsTurnInv, DriverAssumption, ServerAssumption
  <1>3. PICK r \in D!flush_if(D!tms_short(ctx, call), ctx, mem) :
          \/ r.aborted /\ D!Abort
          \/ ~r.aborted /\ D!Turn(r, 3, D!tms_bits(call), 8 - D!tms_bits(call))
    BY <1>1 DEF D!tms_turn
  <1>4. CASE r.aborted /\ D!Abort
    BY <1>2, <1>4 DEF D!Abort, OwnMemory, NothingLeft
  <1>5. CASE ~r.aborted /\ D!Turn(r, 3, D!tms_bits(call), 8 - D!tms_bits(call))
    <2>1. /\ mem' = r.mem /\ call' = D!rest_of(call, D!tms_bits(call))
          /\ tick' = tick /\ asked' = asked /\ outcome' = outcome
      BY <1>5 DEF D!Turn
    <2>2. \A d \in D!Ticks : r.mem[d] # mem[d] => r.mem[d] = d
      <3>1. D!tms_short(ctx, call) \in BOOLEAN
        BY DEF D!tms_short
      <3> QED BY <1>5, <3>1, D!FlushIf, DriverFacts, DriverAssumption, ServerAssumption
    <2>3. OwnMemory'
      BY <2>1, <2>2 DEF OwnMemory, Mpsse!Ticks, D!Ticks
    <2>4. NothingLeft'
      <3>1. CASE D!tms_bits(call) = call.length
        BY <2>1, <3>1 DEF D!rest_of, D!NoCall, Mpsse!NoCall, NothingLeft
      <3>2. CASE D!tms_bits(call) # call.length
        <4>1. /\ call.length \in Nat /\ D!tms_bits(call) < call.length /\ D!tms_bits(call) \in Nat
              /\ call \in D!Call
          BY <3>2, DriverFacts DEF D!tms_bits, D!Lesser, D!IInv, D!TypeOK
        <4>2. call'.length = call.length - D!tms_bits(call)
          BY <2>1, <3>2, <4>1 DEF D!rest_of, D!Call
        <4> QED BY <4>1, <4>2 DEF NothingLeft
      <3> QED BY <3>1, <3>2
    <2> QED BY <1>2, <2>1, <2>3, <2>4
  <1> QED BY <1>3, <1>4, <1>5

\* A flush of the driver: the memory of what was asked is filled or left, and nothing
\* is left in the driver.
LEMMA FlushLeavesNothing ==
  ASSUME ~NDEBUG, D!IInv, OwnMemory, NothingLeft, Mpsse!flush
  PROVE  /\ D!IInv' /\ OwnMemory' /\ NothingLeft'
         /\ tick' = tick
         /\ status' # "running" => asked' = asked
         /\ status' = "running" =>
              /\ outcome' \in {"ok", "fail"}
              /\ outcome' = "ok" => \A d \in asked : mem'[d] = d
              /\ ctx'.write_count = 0 /\ ctx'.read_count = 0 /\ ctx'.read_queue = << >>
              /\ ctx'.retval = "OK" /\ call' = Mpsse!NoCall
  <1>1. D!flush
    BY SameFlush
  <1>2. D!IInv'
    BY <1>1, D!FlushInv, DriverAssumption, ServerAssumption
  <1>3. PICK r \in D!mpsse_flush(ctx, mem) :
          \/ r.aborted /\ D!Abort
          \/ /\ ~r.aborted
             /\ ctx' = r.ctx
             /\ mem' = r.mem
             /\ outcome' = IF r.rc = "OK" THEN "ok" ELSE "fail"
             /\ asked' = IF r.rc = "OK" THEN asked ELSE {}
             /\ UNCHANGED <<call, tick, status>>
    BY <1>1 DEF D!flush
  <1>4. CASE r.aborted /\ D!Abort
    BY <1>2, <1>4 DEF D!Abort, OwnMemory, NothingLeft
  <1>5. CASE /\ ~r.aborted
             /\ ctx' = r.ctx
             /\ mem' = r.mem
             /\ outcome' = IF r.rc = "OK" THEN "ok" ELSE "fail"
             /\ asked' = IF r.rc = "OK" THEN asked ELSE {}
             /\ UNCHANGED <<call, tick, status>>
    <2>1. /\ D!CtxInv(r.ctx) /\ r.rc \in {"OK", "FAIL"} /\ r.ctx.retval = "OK"
          /\ r.ctx.write_count = 0 /\ r.ctx.read_count = 0
          /\ r.rc = "OK" => \A d \in D!Ticks : r.mem[d] = IF D!Queued(ctx, d) THEN d ELSE mem[d]
          /\ r.rc # "OK" => r.mem = mem
      BY <1>5, D!Flush, DriverFacts, DriverAssumption, ServerAssumption
    <2>2. OwnMemory'
      <3>1. \A d \in D!Ticks : mem'[d] = d \/ mem'[d] = mem[d]
        BY <1>5, <2>1
      <3> QED BY <3>1 DEF OwnMemory, Mpsse!Ticks, D!Ticks
    <2>3. ctx'.read_queue = << >>
      BY <1>5, <2>1 DEF D!CtxInv, D!HasCommandsForReads
    <2>4. outcome' = "ok" => \A d \in asked : mem'[d] = d
      BY <1>2, <1>5 DEF D!IInv, D!FlushOkMeansDelivered
    <2>5. call' = call /\ call = Mpsse!NoCall /\ status' = status /\ tick' = tick
          /\ status = "running"
      BY <1>1, <1>5 DEF D!flush, D!Idle, D!Running, NothingLeft
    <2>6. NothingLeft'
      BY <2>5 DEF NothingLeft, Mpsse!NoCall
    <2> QED BY <1>2, <1>5, <2>1, <2>2, <2>3, <2>4, <2>5, <2>6
  <1> QED BY <1>3, <1>4, <1>5

-----------------------------------------------------------------------------
(* The steps                                                                 *)

\* The range of the counters, as the arithmetic below needs it.
LEMMA Counters ==
  ASSUME OInv
  PROVE  /\ staged \in Buffer!Buffers
         /\ staged.tdi_data_count \in Nat /\ staged.tdo_data_count \in Nat
         /\ staged.tdi_data_count <= MaxTicks /\ MaxTicks \in Nat
         /\ flushing \in Int /\ (flushing # NotFlushing => flushing \in 0 .. staged.tdi_data_count)
         /\ requested \in Seq(Buffer!Clock) /\ driven \in Seq(Buffer!Clock)
         /\ tick \in Nat /\ tick <= MaxTicks
  <1>1. tick \in Nat /\ tick <= MaxTicks
    BY DriverFacts DEF OInv
  <1>2. flushing \in -1 .. MaxTicks /\ staged \in Buffer!Buffers
    BY DEF OInv, TypeOK, NotFlushing
  <1>3. staged.tdi_data_count \in Nat /\ staged.tdo_data_count \in Nat
    BY <1>2 DEF Buffer!Buffers
  <1> QED BY <1>1, <1>2, <1>3, ServerAssumption DEF OInv, TypeOK, LoopCounts, NotFlushing

LEMMA InitOInv == Init => OInv
  <1> SUFFICES ASSUME Init PROVE OInv
    OBVIOUS
  <1>1. D!IInv
    BY SameInit, D!InitInv, DriverAssumption, ServerAssumption DEF Init
  <1>2. TypeOK
    <2>1. flushing \in NotFlushing .. MaxTicks
      BY ServerAssumption DEF Init, NotFlushing
    <2>2. staged \in Buffer!Buffers /\ staged.tdi_data_count <= MaxTicks
      BY NothingStaged, ServerAssumption DEF Init
    <2> QED BY <2>1, <2>2, EmptySeq DEF Init, TypeOK
  <1>3. ZerosBehind /\ LoopCounts
    BY NothingStaged DEF Init, ZerosBehind, LoopCounts
  <1>4. OwnMemory /\ NothingLeft /\ DriverAtRest
    BY DEF Init, Mpsse!Init, OwnMemory, NothingLeft, DriverAtRest
  <1>5. DrivenAsRequested
    <2>1. Buffer!StagedFrom(Buffer!Empty, 0) = << >>
      BY NothingStaged DEF Buffer!StagedFrom
    <2> QED BY <2>1 DEF Init, DrivenAsRequested
  <1>6. ReportIsOwnBits
    BY DEF Init, NoReport, ReportIsOwnBits
  <1> QED BY <1>1, <1>2, <1>3, <1>4, <1>5, <1>6 DEF OInv

\* A step that touches neither the driver nor the buffers.
LEMMA OutsideInv ==
  ASSUME OInv,
         UNCHANGED <<driver, staged, flushing, requested, driven, report>>,
         loaded' \in BOOLEAN, found' \in BOOLEAN, server' \in BOOLEAN,
         device' \in {"unopened", "null", "open"}
  PROVE  OInv'
  <1>1. UNCHANGED <<ctx, call, mem, tick, asked, outcome, status>>
    BY DEF driver
  <1>2. D!IInv'
    BY <1>1, D!StutterInv, DriverAssumption, ServerAssumption DEF D!vars, OInv
  <1>3. TypeOK' /\ ZerosBehind' /\ LoopCounts'
    BY <1>1 DEF OInv, TypeOK, ZerosBehind, LoopCounts
  <1>4. OwnMemory' /\ NothingLeft' /\ DriverAtRest'
    BY <1>1 DEF OInv, OwnMemory, NothingLeft, DriverAtRest, Up
  <1>5. DrivenAsRequested' /\ ReportIsOwnBits'
    BY DEF OInv, DrivenAsRequested, ReportIsOwnBits
  <1> QED BY <1>2, <1>3, <1>4, <1>5 DEF OInv

\* clock_raw and clock_multiple: staged behind what is there.
LEMMA StageInv ==
  ASSUME OInv, NEW clocks \in Seq(Buffer!Clock), Stage(clocks)
  PROVE  OInv'
  <1>1. /\ flushing = NotFlushing /\ flushing' = flushing
        /\ Len(requested) + Len(clocks) <= MaxTicks
        /\ staged' = Buffer!stage(staged, clocks) /\ requested' = requested \o clocks
        /\ UNCHANGED <<ctx, call, mem, tick, asked, outcome, status>>
        /\ UNCHANGED <<loaded, device, found, server, driven, report>>
    BY DEF Stage, Called, driver
  <1>2. /\ requested = driven \o Buffer!StagedFrom(staged, 0)
        /\ 0 \in 0 .. staged.tdi_data_count
    BY <1>1, Counters DEF OInv, DrivenAsRequested
  <1> DEFINE q == Buffer!StagedFrom(staged, 0)
  <1>3. q \in Seq(Buffer!Clock) /\ Len(q) = staged.tdi_data_count - 0
    BY <1>2, Counters, StagedIsSeq
  <1> HIDE DEF q
  <1>4. staged.tdi_data_count + Len(clocks) <= MaxTicks
    <2>1. Len(requested) = Len(driven) + Len(q)
      BY <1>2, <1>3, Counters, ConcatProperties DEF q
    <2>2. Len(driven) \in Nat /\ Len(clocks) \in Nat /\ staged.tdi_data_count \in Nat
      BY Counters
    <2> QED BY <1>1, <1>3, <2>1, <2>2, Counters, SMTT(60)
  <1>5. /\ staged' \in Buffer!Buffers
        /\ staged'.tdi_data_count = staged.tdi_data_count + Len(clocks)
        /\ staged'.tdo_data_count = staged.tdo_data_count
        /\ ZerosBehind'
    <2>1. \A p \in Places : p >= staged.tdi_data_count => staged.tdi[p] = 0 /\ staged.tms[p] = 0
      BY DEF OInv, ZerosBehind
    <2> QED BY <1>1, <1>4, <2>1, Counters, StageBits, ZenonT(60) DEF ZerosBehind
  <1>6. D!IInv'
    BY <1>1, D!StutterInv, DriverAssumption, ServerAssumption DEF D!vars, OInv
  <1>7. TypeOK'
    <2>1. requested' \in Seq(Buffer!Clock)
      BY <1>1, Counters, ConcatProperties
    <2> QED BY <1>1, <1>4, <1>5, <2>1 DEF OInv, TypeOK
  <1>8. LoopCounts' /\ OwnMemory' /\ NothingLeft' /\ DriverAtRest' /\ ReportIsOwnBits'
    BY <1>1, <1>5 DEF OInv, LoopCounts, OwnMemory, NothingLeft, DriverAtRest, ReportIsOwnBits, Up
  <1>9. DrivenAsRequested'
    <2>1. \A p \in Places : p >= staged.tdi_data_count => staged.tdi[p] = 0 /\ staged.tms[p] = 0
      BY DEF OInv, ZerosBehind
    <2>2. Buffer!StagedFrom(staged', 0) = q \o clocks
      BY <1>1, <1>4, <2>1, Counters, StagingAppends DEF q
    <2>3. (driven \o q) \o clocks = driven \o (q \o clocks)
      BY <1>3, Counters, ConcatAssociative, SMTT(60)
    <2> QED BY <1>1, <1>2, <2>2, <2>3 DEF DrivenAsRequested, q
  <1> QED BY <1>5, <1>6, <1>7, <1>8, <1>9 DEF OInv

\* do_flush begins, or dies of a NULL context.
LEMMA DoFlushInv ==
  ASSUME OInv, do_flush
  PROVE  OInv'
  <1>1. /\ flushing = NotFlushing
        /\ UNCHANGED <<ctx, call, mem, tick, asked, outcome>>
        /\ UNCHANGED <<loaded, device, found, server, staged, requested, driven, report>>
        /\ \/ flushing' = 0 /\ status' = status
           \/ flushing' = flushing /\ status' = "aborted"
    BY DEF do_flush, Called
  <1>2. D!IInv'
    BY <1>1 DEF OInv, D!IInv, D!TypeOK, D!CtxInv, D!OffsetsInStep, D!AskedAccountedFor,
       D!FlushOkMeansDelivered, D!InRest
  <1>3. TypeOK' /\ ZerosBehind'
    BY <1>1, ServerAssumption DEF OInv, TypeOK, ZerosBehind, NotFlushing
  <1>4. LoopCounts'
    BY <1>1, Counters DEF OInv, LoopCounts, NotFlushing
  <1>5. OwnMemory' /\ NothingLeft' /\ DriverAtRest' /\ ReportIsOwnBits'
    BY <1>1 DEF OInv, OwnMemory, NothingLeft, DriverAtRest, ReportIsOwnBits, Up, NotFlushing
  <1>6. DrivenAsRequested'
    BY <1>1 DEF OInv, DrivenAsRequested, NotFlushing
  <1> QED BY <1>2, <1>3, <1>4, <1>5, <1>6 DEF OInv

\* A turn of the loop of do_flush: the clock at its position goes to the driver, and
\* is asked to be read (jtag_hw_otma.cpp:114-127).
LEMMA ClockNextInv ==
  ASSUME OInv, clock_next
  PROVE  OInv'
  <1> DEFINE c == [tms |-> staged.tms[flushing], tdi |-> staged.tdi[flushing]]
  <1>1. /\ flushing \in 0 .. staged.tdi_data_count - 1 /\ flushing' = flushing + 1
        /\ Mpsse!mpsse_clock_tms_cs(TRUE, 1)
        /\ driven' = Append(driven, c)
        /\ staged' = [staged EXCEPT !.tdo_data_count = @ + 1]
        /\ UNCHANGED <<loaded, device, found, server, requested, report>>
    BY DEF clock_next, counted
  <1>2. /\ D!start("tms", TRUE, TRUE, 1)
        /\ call.length = 0 /\ tick + 1 <= MaxTicks /\ tick' = tick + 1
        /\ asked' = asked \cup (tick .. tick + 1 - 1)
        /\ UNCHANGED <<ctx, mem, status>>
    BY <1>1, SameStart DEF D!start, D!Idle, D!Ask
  <1>3. D!IInv'
    BY <1>2, D!StartInv, DriverAssumption, ServerAssumption DEF OInv
  <1>4. /\ flushing \in Nat /\ tick \in Nat /\ flushing # NotFlushing /\ flushing' # NotFlushing
        /\ flushing + 1 \in 0 .. staged.tdi_data_count
        /\ staged \in Buffer!Buffers /\ staged.tdo_data_count = flushing
    BY <1>1, Counters, SMTT(30) DEF OInv, LoopCounts, NotFlushing
  <1>5. /\ staged' \in Buffer!Buffers /\ staged'.tdo_data_count = flushing + 1
        /\ staged'.tdi_data_count = staged.tdi_data_count
        /\ staged'.tdi = staged.tdi /\ staged'.tms = staged.tms
    <2>1. staged' = [tdi |-> staged.tdi, tms |-> staged.tms,
                     tdi_data_count |-> staged.tdi_data_count, tdo_data_count |-> flushing + 1]
      BY <1>1, <1>4 DEF Buffer!Buffers
    <2>2. flushing + 1 \in Nat
      BY <1>4
    <2> QED BY <1>4, <2>1, <2>2 DEF Buffer!Buffers
  <1>6. c \in Buffer!Clock /\ Buffer!StagedFrom(staged, flushing)
                                = << c >> \o Buffer!StagedFrom(staged, flushing + 1)
    BY <1>1, Counters, NextStaged
  <1> HIDE DEF c
  <1>7. TypeOK'
    <2>1. driven' \in Seq(Buffer!Clock)
      BY <1>1, <1>6, Counters, AppendProperties
    <2>2. flushing' \in NotFlushing .. MaxTicks
      BY <1>1, <1>4, Counters DEF NotFlushing
    <2> QED BY <1>1, <1>5, <2>1, <2>2 DEF OInv, TypeOK
  <1>8. ZerosBehind'
    BY <1>5 DEF OInv, ZerosBehind
  <1>9. LoopCounts'
    <2>1. flushing' <= staged'.tdi_data_count /\ staged'.tdo_data_count = flushing'
      BY <1>1, <1>4, <1>5
    <2>2. flushing <= tick /\ \A d \in tick - flushing .. tick - 1 : d \in asked
      BY <1>4 DEF OInv, LoopCounts
    <2>3. flushing' <= tick'
      BY <1>1, <1>2, <1>4, <2>2
    <2>4. ASSUME NEW d \in tick' - flushing' .. tick' - 1
          PROVE  d \in asked'
      <3>1. tick' - flushing' = tick - flushing /\ tick' - 1 = tick
        BY <1>1, <1>2, <1>4
      <3>2. d = tick \/ d \in tick - flushing .. tick - 1
        BY <1>4, <3>1
      <3>3. tick \in tick .. tick + 1 - 1
        BY <1>4
      <3> QED BY <1>2, <2>2, <3>2, <3>3
    <2> QED BY <1>4, <2>1, <2>3, <2>4 DEF LoopCounts
  <1>10. OwnMemory' /\ ReportIsOwnBits'
    BY <1>1, <1>2 DEF OInv, OwnMemory, ReportIsOwnBits
  <1>11. NothingLeft'
    BY <1>2 DEF OInv, NothingLeft, D!start
  <1>12. DriverAtRest'
    BY <1>4 DEF DriverAtRest
  <1>13. DrivenAsRequested'
    <2>1. Buffer!StagedFrom(staged', flushing + 1) = Buffer!StagedFrom(staged, flushing + 1)
      BY <1>5 DEF Buffer!StagedFrom
    <2> DEFINE rest == Buffer!StagedFrom(staged, flushing + 1)
               one == << c >>
    <2>2. rest \in Seq(Buffer!Clock)
      BY <1>4, Counters, StagedIsSeq
    <2>3. requested = driven \o (one \o rest)
      BY <1>4, <1>6 DEF OInv, DrivenAsRequested
    <2>4. one \in Seq(Buffer!Clock) /\ driven \in Seq(Buffer!Clock)
      BY <1>6, Counters
    <2>5. driven' = driven \o one
      BY <1>1, <1>6, <2>4, AppendIsConcat
    <2> HIDE DEF rest, one
    <2>6. (driven \o one) \o rest = driven \o (one \o rest)
      BY <2>2, <2>4, ConcatAssociative
    <2> QED BY <1>1, <1>4, <2>1, <2>3, <2>5, <2>6 DEF DrivenAsRequested, rest
  <1> QED BY <1>3, <1>7, <1>8, <1>9, <1>10, <1>11, <1>12, <1>13 DEF OInv

LEMMA ClockingInv ==
  ASSUME ~NDEBUG, OInv, clocking
  PROVE  OInv'
  <1>1. /\ flushing # NotFlushing /\ Mpsse!tms_turn
        /\ UNCHANGED <<loaded, device, found, server, staged, flushing, requested, driven, report>>
    BY DEF clocking, plugin
  <1>2. /\ D!IInv' /\ OwnMemory' /\ NothingLeft'
        /\ tick' = tick /\ asked' = asked
    BY <1>1, TurnKeepsOwn DEF OInv
  <1>3. TypeOK' /\ ZerosBehind' /\ LoopCounts'
    BY <1>1, <1>2 DEF OInv, TypeOK, ZerosBehind, LoopCounts
  <1>4. DrivenAsRequested' /\ ReportIsOwnBits' /\ DriverAtRest'
    BY <1>1 DEF OInv, DrivenAsRequested, ReportIsOwnBits, DriverAtRest
  <1> QED BY <1>2, <1>3, <1>4 DEF OInv

\* The end of do_flush: what is reported was asked for in this loop and nowhere else
\* (jtag_hw_otma.cpp:129-149).
LEMMA FinishInv ==
  ASSUME ~NDEBUG, OInv, finish_flush
  PROVE  OInv'
  <1>1. /\ flushing = staged.tdi_data_count /\ Mpsse!flush
        /\ UNCHANGED <<loaded, device, found, server, requested, driven>>
    BY DEF finish_flush
  <1>2. /\ D!IInv' /\ OwnMemory' /\ NothingLeft' /\ tick' = tick
        /\ status' # "running" => asked' = asked
        /\ status' = "running" =>
             /\ outcome' \in {"ok", "fail"}
             /\ outcome' = "ok" => \A d \in asked : mem'[d] = d
             /\ ctx'.write_count = 0 /\ ctx'.read_count = 0 /\ ctx'.read_queue = << >>
             /\ ctx'.retval = "OK" /\ call' = Mpsse!NoCall
    BY <1>1, FlushLeavesNothing DEF OInv
  <1>3. /\ flushing \in Nat /\ flushing # NotFlushing /\ tick \in Nat /\ tick <= MaxTicks
        /\ MaxTicks \in Nat /\ flushing <= tick /\ staged.tdo_data_count = flushing
        /\ \A d \in tick - flushing .. tick - 1 : d \in asked
    BY <1>1, Counters DEF OInv, LoopCounts, NotFlushing
  <1>4. CASE status' # "running"
    <2>1. UNCHANGED <<staged, flushing, report>> /\ asked' = asked
      BY <1>2, <1>4 DEF finish_flush
    <2>2. TypeOK' /\ ZerosBehind' /\ LoopCounts'
      BY <1>1, <1>2, <2>1 DEF OInv, TypeOK, ZerosBehind, LoopCounts
    <2>3. DrivenAsRequested' /\ ReportIsOwnBits' /\ DriverAtRest'
      BY <1>1, <1>4, <2>1 DEF OInv, DrivenAsRequested, ReportIsOwnBits, DriverAtRest, Up
    <2> QED BY <1>2, <2>2, <2>3 DEF OInv
  <1>5. CASE status' = "running"
    <2> DEFINE base == tick - flushing
               own(k) == IF base + k - 1 \in Places THEN mem'[base + k - 1] ELSE Mpsse!NoBit
               tdo == [k \in 1 .. flushing |-> own(k)]
    <2>1. /\ report' = [rc |-> outcome', first |-> base, due |-> flushing, tdo |-> tdo]
          /\ staged' = Buffer!Empty /\ flushing' = NotFlushing
      BY <1>2, <1>3, <1>5 DEF finish_flush, cleared
    <2>2. ASSUME NEW k \in 1 .. flushing
          PROVE  tdo[k] = base + k - 1 \/ (outcome' = "fail" /\ tdo[k] = Mpsse!NoBit)
      <3>1. /\ base + k - 1 \in Places /\ base + k - 1 \in Mpsse!Ticks
            /\ base + k - 1 \in tick - flushing .. tick - 1
        BY <1>3 DEF Places, Mpsse!Ticks
      <3>2. base + k - 1 \in asked
        BY <1>3, <3>1
      <3>3. own(k) = mem'[base + k - 1]
        BY <3>1
      <3>4. tdo[k] = mem'[base + k - 1]
        BY <3>3
      <3>5. CASE outcome' = "ok"
        BY <1>2, <1>5, <3>2, <3>4, <3>5
      <3>6. CASE outcome' = "fail"
        BY <1>2, <3>1, <3>4, <3>6 DEF OwnMemory, Mpsse!Ticks, Mpsse!NoBit
      <3> QED BY <1>2, <1>5, <3>5, <3>6
    <2>3. Len(tdo) = flushing /\ DOMAIN tdo = 1 .. flushing
      BY <1>3
    <2> HIDE DEF tdo
    <2>4. ReportIsOwnBits'
      <3>1. /\ report'.tdo = tdo /\ report'.due = flushing /\ report'.first = base
            /\ report'.rc = outcome'
        BY <2>1
      <3> QED BY <2>2, <2>3, <3>1 DEF ReportIsOwnBits, Mpsse!NoBit
    <2>5. TypeOK'
      <3>1. NotFlushing \in NotFlushing .. MaxTicks
        BY <1>3 DEF NotFlushing
      <3>2. 0 <= MaxTicks
        BY <1>3
      <3> QED BY <1>1, <2>1, <3>1, <3>2, NothingStaged DEF OInv, TypeOK
    <2>6. ZerosBehind' /\ LoopCounts'
      BY <2>1, NothingStaged DEF ZerosBehind, LoopCounts
    <2>7. DriverAtRest'
      BY <1>2, <1>5 DEF DriverAtRest, Mpsse!NoCall
    <2>8. DrivenAsRequested'
      <3>1. Buffer!StagedFrom(staged, flushing) = << >>
        BY <1>1, <1>3 DEF Buffer!StagedFrom
      <3>2. Buffer!StagedFrom(staged', 0) = << >>
        BY <2>1, NothingStaged DEF Buffer!StagedFrom
      <3> QED BY <1>1, <1>3, <2>1, <3>1, <3>2 DEF OInv, DrivenAsRequested
    <2> QED BY <1>2, <2>4, <2>5, <2>6, <2>7, <2>8 DEF OInv
  <1> QED BY <1>4, <1>5

\* A flush that never returns (mpsse.c:912-933): only the thread is gone.
LEMMA HangingInv ==
  ASSUME OInv, hanging
  PROVE  OInv'
  <1>1. /\ status' = "hung" /\ UNCHANGED <<ctx, call, mem, tick, asked, outcome>>
        /\ UNCHANGED <<loaded, device, found, server, staged, flushing, requested, driven, report>>
    BY DEF hanging, Mpsse!flush_hangs, plugin
  <1>2. D!IInv' /\ OwnMemory' /\ NothingLeft'
    BY <1>1 DEF OInv, OwnMemory, NothingLeft, D!IInv, D!TypeOK, D!CtxInv, D!OffsetsInStep,
       D!AskedAccountedFor, D!FlushOkMeansDelivered, D!InRest
  <1>3. TypeOK' /\ ZerosBehind' /\ LoopCounts'
    BY <1>1 DEF OInv, TypeOK, ZerosBehind, LoopCounts
  <1>4. DrivenAsRequested' /\ ReportIsOwnBits' /\ DriverAtRest'
    BY <1>1 DEF OInv, DrivenAsRequested, ReportIsOwnBits, DriverAtRest, Up
  <1> QED BY <1>2, <1>3, <1>4 DEF OInv

-----------------------------------------------------------------------------
(* The theorems                                                              *)

LEMMA NextOInv ==
  ASSUME ~NDEBUG, OInv, [Next]_vars
  PROVE  OInv'
  <1>1. CASE load \/ scan \/ open
    <2>1. /\ UNCHANGED <<driver, staged, flushing, requested, driven, report>>
          /\ loaded' \in BOOLEAN /\ found' \in BOOLEAN /\ server' \in BOOLEAN
          /\ device' \in {"unopened", "null", "open"}
      <3>1. CASE load
        BY <3>1 DEF load, get_supported_hardware, OInv, TypeOK
      <3>2. CASE scan
        BY <3>2 DEF scan, find_devs, OInv, TypeOK
      <3>3. CASE open
        BY <3>3 DEF open, init_dev, OInv, TypeOK
      <3> QED BY <1>1, <3>1, <3>2, <3>3
    <2> QED BY <2>1, OutsideInv
  <1>2. CASE raw
    <2>1. PICK tms \in Bit, tdi \in Bit, len \in Lengths : clock_raw(tms, tdi, len)
      BY <1>2 DEF raw
    <2> DEFINE clocks == Buffer!clock_raw(tms, tdi, len)
    <2>2. clocks \in [1 .. len -> Buffer!Clock] /\ len \in Nat
      BY ServerAssumption DEF Buffer!clock_raw, Buffer!Clock, Buffer!Bit, Bit
    <2>3. Stage(clocks)
      BY <2>1 DEF clock_raw
    <2> HIDE DEF clocks
    <2> QED BY <2>2, <2>3, FunctionIsSeq, StageInv
  <1>3. CASE multiple
    <2>1. PICK tms \in Bit, len \in Lengths : \E bits \in [1 .. len -> Bit] : clock_multiple(tms, bits)
      BY <1>3 DEF multiple
    <2>2. PICK bits \in [1 .. len -> Bit] : clock_multiple(tms, bits)
      BY <2>1
    <2> DEFINE clocks == Buffer!clock_multiple(tms, bits)
    <2>3. clocks \in [1 .. len -> Buffer!Clock] /\ len \in Nat
      BY ServerAssumption DEF Buffer!clock_multiple, Buffer!Clock, Buffer!Bit, Bit
    <2>4. Stage(clocks)
      BY <2>2 DEF clock_multiple
    <2> HIDE DEF clocks
    <2> QED BY <2>3, <2>4, FunctionIsSeq, StageInv
  <1>4. CASE do_flush
    BY <1>4, DoFlushInv
  <1>5. CASE clock_next
    BY <1>5, ClockNextInv
  <1>6. CASE clocking
    BY <1>6, ClockingInv
  <1>7. CASE finish_flush
    BY <1>7, FinishInv
  <1>8. CASE hanging
    BY <1>8, HangingInv
  <1>9. CASE UNCHANGED vars
    BY <1>9, OutsideInv DEF vars, plugin, OInv, TypeOK
  <1> QED BY <1>1, <1>2, <1>3, <1>4, <1>5, <1>6, <1>7, <1>8, <1>9 DEF Next

\* The inductive invariant holds in every reachable state, however often the driver
\* flushes on the way and whatever those flushes come to.
THEOREM Invariance == ~NDEBUG => (Spec => []OInv)
  <1> SUFFICES ASSUME ~NDEBUG PROVE Spec => []OInv
    OBVIOUS
  <1>1. OInv /\ [Next]_vars => OInv'
    BY NextOInv
  <1> QED BY <1>1, InitOInv, PTL DEF Spec

\* Every variable of the plug-in keeps its type; the staging buffers never hold more
\* than the clocks of one behaviour.
THEOREM TypeCorrect == ~NDEBUG => (Spec => []TypeOK)
  <1>1. OInv => TypeOK
    BY DEF OInv
  <1> QED BY <1>1, Invariance, PTL

\* Each clock the server asked for is handed to the driver's calls once, in order and with
\* its own TMS and TDI, or is still staged (jtag_hw_otma.cpp:114-127 and 159-183).  What
\* reaches the pins is another matter: a flush that fails drops what the driver was given.
THEOREM DrivesAsRequested == ~NDEBUG => (Spec => []DrivenAsRequested)
  <1>1. OInv => DrivenAsRequested
    BY DEF OInv
  <1> QED BY <1>1, Invariance, PTL

\* do_flush reports one bit per staged clock, each the one sampled at that clock, or
\* zero when the transfer failed (jtag_hw_otma.cpp:125-136).
THEOREM ReportsOwnBits == ~NDEBUG => (Spec => []ReportIsOwnBits)
  <1>1. OInv => ReportIsOwnBits
    BY DEF OInv
  <1> QED BY <1>1, Invariance, PTL

\* Between two calls of the server the driver holds nothing of the last one
\* (jtag_hw_otma.cpp:129).
THEOREM RestsBetweenCalls == ~NDEBUG => (Spec => []DriverAtRest)
  <1>1. OInv => DriverAtRest
    BY DEF OInv
  <1> QED BY <1>1, Invariance, PTL
=============================================================================
