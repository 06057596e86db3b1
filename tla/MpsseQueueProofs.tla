--------------------------- MODULE MpsseQueueProofs ---------------------------
(***************************************************************************)
(* Proofs about MpsseQueue, for every size of the buffers, every length of *)
(* a call and any number of ticks, in a build with assertions.             *)
(***************************************************************************)
EXTENDS MpsseQueue, SequenceTheorems, TLAPS

CtxInv(c) == /\ c \in Ctx
             /\ FitsBuffers(c)
             /\ HasCommandsForReads(c)
             /\ AnswersMatch(c)

Memory == [Ticks -> Bits]

\* The inductive invariant.
IInv == /\ TypeOK
        /\ CtxInv(ctx)
        /\ call.length <= tick
        /\ call.length = 0 => ~call.in /\ ~call.out
        /\ \A t \in asked : t < tick
        /\ OffsetsInStep
        /\ AskedAccountedFor
        /\ FlushOkMeansDelivered

\* Rounding up to bytes.
LEMMA RoundUp ==
  ASSUME NEW n \in Nat
  PROVE  /\ DIV_ROUND_UP(n, 8) \in Nat
         /\ n <= 8 * DIV_ROUND_UP(n, 8)
         /\ 8 * DIV_ROUND_UP(n, 8) < n + 8
  BY SMT DEF DIV_ROUND_UP

\* The subtractions of the space helpers do not wrap while the buffers hold.
LEMMA Spaces ==
  ASSUME NEW c, CtxInv(c)
  PROVE  /\ buffer_write_space(c) = WriteSize - c.write_count - 1
         /\ buffer_read_space(c) = ReadSize - c.read_count
         /\ buffer_write_space(c) \in Nat
         /\ buffer_read_space(c) \in Nat
  BY BufferAssumption, SMT DEF CtxInv, Ctx, FitsBuffers, buffer_write_space,
     buffer_read_space, Unsigned

\* The bits of an answer, and those behind them.
LEMMA Longer ==
  ASSUME NEW s \in Seq(Bits), NEW t \in Seq(Bits)
  PROVE  /\ Len(s \o t) = Len(s) + Len(t)
         /\ \A i \in 1 .. Len(s) : (s \o t)[i] = s[i]
         /\ \A i \in 1 .. Len(t) : (s \o t)[Len(s) + i] = t[i]
<1>1. /\ Len(s \o t) = Len(s) + Len(t)
      /\ \A i \in 1 .. Len(s) + Len(t) :
            (s \o t)[i] = IF i <= Len(s) THEN s[i] ELSE t[i - Len(s)]
  BY ConcatProperties
<1>2. Len(s) \in Nat /\ Len(t) \in Nat
  OBVIOUS
<1>3. ASSUME NEW i \in 1 .. Len(s) PROVE (s \o t)[i] = s[i]
  <2>1. i \in 1 .. Len(s) + Len(t) /\ i <= Len(s)
    BY <1>2
  <2> QED
    BY <1>1, <2>1
<1>4. ASSUME NEW i \in 1 .. Len(t) PROVE (s \o t)[Len(s) + i] = t[i]
  <2>1. /\ Len(s) + i \in 1 .. Len(s) + Len(t)
        /\ ~(Len(s) + i <= Len(s)) /\ Len(s) + i - Len(s) = i
    BY <1>2
  <2> QED
    BY <1>1, <2>1
<1> QED
  BY <1>1, <1>3, <1>4

\* What bit_copy_execute leaves in the caller's memory.
LEMMA Execute ==
  ASSUME NEW c, CtxInv(c), NEW m \in Memory
  PROVE  /\ bit_copy_execute(c, m) \in Memory
         /\ \A d \in Ticks : bit_copy_execute(c, m)[d] = IF Queued(c, d) THEN d ELSE m[d]
<1> DEFINE filling(d) == {i \in DOMAIN c.read_queue : Fills(c.read_queue[i], d)}
<1>1. ASSUME NEW d \in Ticks
      PROVE  bit_copy_execute(c, m)[d] = IF Queued(c, d) THEN d ELSE m[d]
  <2>1. CASE Queued(c, d)
    <3>1. filling(d) # {}
      BY <2>1 DEF Queued
    <3>2. PICK i \in filling(d) : i = CHOOSE j \in filling(d) : TRUE
      BY <3>1
    <3>3. c.answer[BitFor(c.read_queue[i], d)] = d
      BY <3>2 DEF CtxInv, AnswersMatch, PicksItsBits, Fills
    <3>4. bit_copy_execute(c, m)[d] = c.answer[BitFor(c.read_queue[i], d)]
      BY <3>1, <3>2 DEF bit_copy_execute
    <3> QED
      BY <3>3, <3>4, <2>1
  <2>2. CASE ~Queued(c, d)
    <3>1. filling(d) = {}
      BY <2>2 DEF Queued
    <3> QED
      BY <3>1, <2>2 DEF bit_copy_execute
  <2> QED
    BY <2>1, <2>2
<1>2. \A d \in Ticks : bit_copy_execute(c, m)[d] \in Bits
  BY <1>1 DEF Memory, Bits
<1>3. bit_copy_execute(c, m) = [d \in Ticks |-> bit_copy_execute(c, m)[d]]
  BY DEF bit_copy_execute
<1>4. bit_copy_execute(c, m) \in Memory
  BY <1>2, <1>3 DEF Memory
<1> QED
  BY <1>1, <1>4

\* Emptying the queue leaves a good context.
LEMMA Empty ==
  ASSUME NEW c \in Ctx
  PROVE  /\ CtxInv(Drained(c)) /\ CtxInv(mpsse_purge(c))
         /\ Drained(c).retval = c.retval /\ mpsse_purge(c).retval = "OK"
         /\ Drained(c).write_count = 0 /\ Drained(c).read_count = 0
         /\ mpsse_purge(c).write_count = 0 /\ mpsse_purge(c).read_count = 0
         /\ \A d : ~Queued(Drained(c), d) /\ ~Queued(mpsse_purge(c), d)
<1>1. << >> \in Seq(Entry) /\ << >> \in Seq(Bits) /\ Len(<< >>) = 0
  OBVIOUS
<1>2. Drained(c) \in Ctx /\ mpsse_purge(c) \in Ctx
  BY <1>1 DEF Drained, mpsse_purge, Ctx
<1> QED
  BY <1>1, <1>2, BufferAssumption, SMTT(60) DEF Drained, mpsse_purge, Ctx, CtxInv, FitsBuffers,
     HasCommandsForReads, AnswersMatch, Queued

\* A flush, of the caller or in the middle of a call, keeps the context good.
\* It leaves the queue as it was or empty; what it had queued is in the
\* caller's memory unless it failed.
LEMMA Flush ==
  ASSUME ~NDEBUG, NEW c, CtxInv(c), NEW m \in Memory,
         NEW r \in mpsse_flush(c, m), ~r.aborted
  PROVE  /\ CtxInv(r.ctx) /\ r.mem \in Memory /\ r.rc \in {"OK", "FAIL"}
         /\ r.ctx.retval = "OK"
         /\ r.ctx.write_count = 0 /\ r.ctx.read_count = 0
         /\ \A d : ~Queued(r.ctx, d)
         /\ r.rc = "OK" => \A d \in Ticks : r.mem[d] = IF Queued(c, d) THEN d ELSE m[d]
         /\ r.rc # "OK" => r.mem = m
         /\ r.rc = "OK" => c.retval = "OK"
<1> USE DEF Result
<1>0. c \in Ctx
  BY DEF CtxInv
<1>q. c.read_count = 0 => \A d : ~Queued(c, d)
  BY DEF CtxInv, HasCommandsForReads, Queued
<1>1. CASE c.retval # "OK"
  <2>1. r = flush_after_error(c, m)
    BY <1>1 DEF mpsse_flush
  <2>2. c.write_count = 0 /\ c.read_count = 0
    BY <2>1 DEF flush_after_error
  <2>3. r.ctx = [c EXCEPT !.retval = "OK"] /\ r.mem = m /\ r.rc = c.retval
    BY <2>1 DEF flush_after_error
  <2>4. c.retval = "FAIL"
    BY <1>0, <1>1 DEF Ctx
  <2>5. /\ r.ctx \in Ctx
        /\ r.ctx.retval = "OK"
        /\ r.ctx.write_count = c.write_count /\ r.ctx.read_count = c.read_count
        /\ r.ctx.read_queue = c.read_queue /\ r.ctx.answer = c.answer
    BY <1>0, <2>3 DEF Ctx
  <2>6. CtxInv(r.ctx)
    BY <2>5 DEF CtxInv, FitsBuffers, HasCommandsForReads, AnswersMatch
  <2> QED
    BY <1>1, <1>q, <2>2, <2>3, <2>4, <2>5, <2>6 DEF Queued
<1>2. CASE c.retval = "OK" /\ c.write_count = 0
  <2>1. r = Result(c, m, "OK")
    BY <1>2 DEF mpsse_flush
  <2>2. r.ctx = c /\ r.mem = m /\ r.rc = "OK"
    BY <2>1
  <2> QED
    BY <1>2, <1>q, <2>2 DEF CtxInv, HasCommandsForReads
<1>3. CASE c.retval = "OK" /\ c.write_count # 0
  <2>1. \/ r = Result(Drained(c), IF c.read_count > 0 THEN bit_copy_execute(c, m) ELSE m, "OK")
        \/ r = Result(mpsse_purge(c), m, "FAIL")
    BY <1>3 DEF mpsse_flush
  <2>2. CASE r = Result(mpsse_purge(c), m, "FAIL")
    <3>1. r.ctx = mpsse_purge(c) /\ r.mem = m /\ r.rc = "FAIL"
      BY <2>2
    <3> QED
      BY <1>0, <3>1, Empty
  <2>3. CASE r = Result(Drained(c), IF c.read_count > 0 THEN bit_copy_execute(c, m) ELSE m, "OK")
    <3>1. r.ctx = Drained(c) /\ r.rc = "OK"
          /\ r.mem = IF c.read_count > 0 THEN bit_copy_execute(c, m) ELSE m
      BY <2>3
    <3>2. c.read_count > 0 \/ c.read_count = 0
      BY <1>0 DEF Ctx
    <3>3. r.mem \in Memory /\ \A d \in Ticks : r.mem[d] = IF Queued(c, d) THEN d ELSE m[d]
      BY <3>1, <3>2, <1>q, Execute
    <3> QED
      BY <1>0, <1>3, <3>1, <3>3, Empty
  <2> QED
    BY <2>1, <2>2, <2>3
<1> QED
  BY <1>1, <1>2, <1>3

\* The flush a command makes when it is short of space.  Either nothing was
\* done, or the buffers are empty; what was queued is then in the caller's
\* memory, or the context remembers the failure.
LEMMA FlushIf ==
  ASSUME ~NDEBUG, NEW c, CtxInv(c), NEW m \in Memory, NEW short \in BOOLEAN,
         NEW r \in flush_if(short, c, m), ~r.aborted
  PROVE  /\ CtxInv(r.ctx) /\ r.mem \in Memory
         /\ ~short => r.ctx = c /\ r.mem = m
         /\ short => r.ctx.write_count = 0 /\ r.ctx.read_count = 0
         /\ \A d \in Ticks : r.mem[d] # m[d] => Queued(c, d) /\ r.mem[d] = d
         /\ \A d \in Ticks : Queued(c, d) =>
              \/ r.mem[d] = d \/ Queued(r.ctx, d) \/ r.ctx.retval = "FAIL"
         /\ \A d : Queued(r.ctx, d) => Queued(c, d)
<1>1. CASE ~short
  <2>1. r = Result(c, m, "OK")
    BY <1>1 DEF flush_if
  <2> QED
    BY <1>1, <2>1 DEF Result
<1>2. CASE short
  <2>1. PICK f \in mpsse_flush(c, m) : r = [f EXCEPT !.ctx.retval = f.rc]
    BY <1>2 DEF flush_if
  <2>2. f = [ctx |-> f.ctx, mem |-> f.mem, rc |-> f.rc, aborted |-> f.aborted]
    BY <2>1 DEF mpsse_flush, flush_after_error, Result
  <2>3. r.mem = f.mem /\ r.aborted = f.aborted /\ r.ctx = [f.ctx EXCEPT !.retval = f.rc]
    BY <2>1, <2>2
  <2>4. /\ CtxInv(f.ctx) /\ f.mem \in Memory /\ f.rc \in {"OK", "FAIL"}
        /\ f.ctx.write_count = 0 /\ f.ctx.read_count = 0
        /\ \A d : ~Queued(f.ctx, d)
        /\ f.rc = "OK" => \A d \in Ticks : f.mem[d] = IF Queued(c, d) THEN d ELSE m[d]
        /\ f.rc # "OK" => f.mem = m
    BY <2>1, <2>3, Flush
  <2>5. /\ r.ctx \in Ctx
        /\ r.ctx.retval = f.rc
        /\ r.ctx.write_count = f.ctx.write_count /\ r.ctx.read_count = f.ctx.read_count
        /\ r.ctx.read_queue = f.ctx.read_queue /\ r.ctx.answer = f.ctx.answer
    BY <2>3, <2>4 DEF CtxInv, Ctx
  <2>6. CtxInv(r.ctx) /\ \A d : ~Queued(r.ctx, d)
    BY <2>4, <2>5 DEF CtxInv, FitsBuffers, HasCommandsForReads, AnswersMatch, Queued
  <2> QED
    BY <1>2, <2>3, <2>4, <2>5, <2>6
<1> QED
  BY <1>1, <1>2

\* A command that is only sent.
LEMMA Write ==
  ASSUME NEW c, CtxInv(c), NEW bytes \in Nat \ {0}, c.write_count + bytes <= WriteSize - 1
  PROVE  LET w == buffer_write(c, bytes)
         IN CtxInv(w) /\ w.retval = c.retval /\ \A d : Queued(w, d) <=> Queued(c, d)
<1> DEFINE w == buffer_write(c, bytes)
<1>1. /\ w \in Ctx /\ w.retval = c.retval /\ w.write_count = c.write_count + bytes
      /\ w.read_count = c.read_count /\ w.read_queue = c.read_queue /\ w.answer = c.answer
  BY SMTT(30) DEF CtxInv, Ctx, buffer_write
<1>2. w.write_count \in Nat \ {0}
  BY <1>1 DEF CtxInv, Ctx
<1> QED
  BY <1>1, <1>2 DEF CtxInv, FitsBuffers, HasCommandsForReads, AnswersMatch, Queued

\* A command that reads: the entry it adds to the read queue picks its own
\* bits out of what the chip adds to its answer, and disturbs no other.
LEMMA Read ==
  ASSUME NEW c, CtxInv(c), NEW bytes \in Nat \ {0}, c.write_count + bytes <= WriteSize - 1,
         NEW first \in Nat, NEW bits \in Nat \ {0}, first + bits <= MaxTicks,
         NEW offset \in 0 .. 7, offset = 8 * DIV_ROUND_UP(bits, 8) - bits,
         c.read_count + DIV_ROUND_UP(bits, 8) <= ReadSize
  PROVE  LET q == buffer_add_read(chip_answers(buffer_write(c, bytes), first, bits),
                                  first, bits, offset)
         IN /\ CtxInv(q) /\ q.retval = c.retval
            /\ \A d : Queued(q, d) <=> Queued(c, d) \/ d \in first .. first + bits - 1
<1> DEFINE w == buffer_write(c, bytes)
           new == [i \in 1 .. offset + bits |->
                     IF i <= offset THEN NoBit ELSE first + i - offset - 1]
           entry == [dst_offset |-> first, src |-> c.read_count,
                     src_offset |-> offset, bit_count |-> bits]
           q == buffer_add_read(chip_answers(w, first, bits), first, bits, offset)
           taken == DIV_ROUND_UP(bits, 8)
<1>1. taken \in Nat /\ taken >= 1 /\ 8 * taken = offset + bits
  <2>1. taken \in Nat /\ bits <= 8 * taken /\ offset = 8 * taken - bits
    BY RoundUp
  <2> HIDE DEF taken
  <2> QED
    BY <2>1
<1>2. CtxInv(w) /\ w.retval = c.retval /\ w.write_count = c.write_count + bytes
      /\ w.read_count = c.read_count /\ w.read_queue = c.read_queue /\ w.answer = c.answer
  <2>1. CtxInv(w) /\ w.retval = c.retval
    BY Write
  <2> QED
    BY <2>1 DEF buffer_write, CtxInv, Ctx
<1>3. new \in Seq(Bits) /\ Len(new) = offset + bits
  <2>1. \A i \in 1 .. offset + bits : new[i] \in Bits
    BY CallerAssumption DEF Bits, Ticks, NoBit
  <2>2. offset + bits \in Nat
    OBVIOUS
  <2>3. new \in [1 .. offset + bits -> Bits]
    BY <2>1
  <2> HIDE DEF new
  <2> QED
    BY <2>2, <2>3
<1>4. entry \in Entry
  BY DEF CtxInv, Ctx, Entry
<1>5. q = [[[w EXCEPT !.answer = w.answer \o new]
              EXCEPT !.read_queue = Append(w.read_queue, entry)]
              EXCEPT !.read_count = w.read_count + taken]
  <2>1. 8 * taken - bits = offset
    BY <1>1
  <2>2. chip_answers(w, first, bits) = [w EXCEPT !.answer = w.answer \o new]
    BY <2>1 DEF chip_answers
  <2> HIDE DEF w, new
  <2>3. w \in Ctx
    BY <1>2 DEF CtxInv
  <2> QED
    BY <1>2, <2>2, <2>3 DEF buffer_add_read, Ctx
<1> HIDE DEF w, new, q, taken, entry
<1>6. /\ q \in Ctx
      /\ q.retval = c.retval
      /\ q.write_count = w.write_count
      /\ q.read_count = c.read_count + taken
      /\ q.read_queue = Append(c.read_queue, entry)
      /\ q.answer = c.answer \o new
  <2>1. w \in Ctx
    BY <1>2 DEF CtxInv
  <2>2. w.answer \o new \in Seq(Bits) /\ Append(w.read_queue, entry) \in Seq(Entry)
    BY <1>3, <1>4, <2>1 DEF Ctx
  <2>3. w.read_count + taken \in Nat
    BY <1>1, <2>1 DEF Ctx
  <2> QED
    BY <1>2, <1>5, <2>1, <2>2, <2>3 DEF Ctx
<1>7. /\ c.read_queue \in Seq(Entry) /\ c.answer \in Seq(Bits) /\ c.read_count \in Nat
      /\ Len(c.answer) = 8 * c.read_count
  BY DEF CtxInv, Ctx, AnswersMatch
<1>8. /\ Len(q.answer) = 8 * q.read_count
      /\ \A i \in 1 .. Len(c.answer) : q.answer[i] = c.answer[i]
      /\ \A i \in 1 .. Len(new) : q.answer[Len(c.answer) + i] = new[i]
  <2>1. c.answer \in Seq(Bits) /\ new \in Seq(Bits) /\ q.answer = c.answer \o new
    BY <1>3, <1>6, <1>7
  <2>2. /\ Len(q.answer) = Len(c.answer) + Len(new)
        /\ \A i \in 1 .. Len(c.answer) : q.answer[i] = c.answer[i]
        /\ \A i \in 1 .. Len(new) : q.answer[Len(c.answer) + i] = new[i]
    <3>1. /\ Len(c.answer \o new) = Len(c.answer) + Len(new)
          /\ \A i \in 1 .. Len(c.answer) : (c.answer \o new)[i] = c.answer[i]
          /\ \A i \in 1 .. Len(new) : (c.answer \o new)[Len(c.answer) + i] = new[i]
      BY ONLY <2>1, Longer, Zenon
    <3> QED
      BY ONLY <2>1, <3>1, Zenon
  <2>3. 8 * q.read_count = 8 * c.read_count + 8 * taken
    <3>1. q.read_count = c.read_count + taken /\ c.read_count \in Nat /\ taken \in Nat
      BY <1>1, <1>6, <1>7
    <3>2. \A a, b \in Nat : 8 * (a + b) = 8 * a + 8 * b
      OBVIOUS
    <3> QED
      BY ONLY <3>1, <3>2
  <2>4. Len(q.answer) = 8 * c.read_count + 8 * taken
    BY <1>1, <1>3, <1>7, <2>2
  <2> QED
    BY ONLY <2>2, <2>3, <2>4
<1>9. PicksItsBits(entry, q.answer)
  <2>1. 8 * entry.src + entry.src_offset + entry.bit_count <= Len(q.answer)
    <3>1. Len(q.answer) = Len(c.answer) + Len(new)
      <4>1. Len(c.answer \o new) = Len(c.answer) + Len(new)
        BY ONLY <1>3, <1>7, Longer, Zenon
      <4> QED
        BY ONLY <1>6, <4>1, Zenon
    <3>2. 8 * entry.src = Len(c.answer) /\ entry.src_offset = offset /\ entry.bit_count = bits
      BY <1>7 DEF entry
    <3>3. Len(c.answer) \in Nat /\ Len(new) = offset + bits
      BY <1>3, <1>7
    <3> QED
      BY <3>1, <3>2, <3>3
  <2>2. ASSUME NEW d \in first .. first + bits - 1
        PROVE  d \in Ticks /\ q.answer[BitFor(entry, d)] = d
    <3>1. BitFor(entry, d) = Len(c.answer) + (offset + (d - first) + 1)
      BY <1>7 DEF entry, BitFor
    <3>2. offset + (d - first) + 1 \in 1 .. Len(new)
      BY <1>1, <1>3, SMTT(30)
    <3>3. new[offset + (d - first) + 1] = d
      BY <1>1, <1>3, <3>2, SMTT(30) DEF new
    <3>4. d \in Ticks
      BY CallerAssumption DEF Ticks
    <3> QED
      BY <1>8, <3>1, <3>2, <3>3, <3>4
  <2> QED
    BY <2>1, <2>2 DEF PicksItsBits, entry
<1>10. ASSUME NEW e \in Entry, PicksItsBits(e, c.answer)
       PROVE  PicksItsBits(e, q.answer)
  <2>a. /\ e.src \in Nat /\ e.src_offset \in Nat /\ e.dst_offset \in Nat
        /\ e.bit_count \in Nat
    BY DEF Entry
  <2> DEFINE base == 8 * e.src
  <2>0. base \in Nat
    BY <2>a
  <2>b. /\ base + e.src_offset + e.bit_count <= Len(c.answer)
        /\ Len(c.answer) \in Nat
    BY <1>7, <1>10 DEF PicksItsBits
  <2>1. ASSUME NEW d \in e.dst_offset .. e.dst_offset + e.bit_count - 1
        PROVE  BitFor(e, d) \in 1 .. Len(c.answer)
    <3>1. BitFor(e, d) = base + e.src_offset + (d - e.dst_offset) + 1
      BY DEF BitFor
    <3>2. d \in e.dst_offset .. e.dst_offset + e.bit_count - 1
      OBVIOUS
    <3>3. \A b, o, n, f, len \in Nat : b + o + n <= len =>
             \A x \in f .. f + n - 1 : b + o + (x - f) + 1 \in 1 .. len
      OBVIOUS
    <3> HIDE DEF base
    <3>4. base + e.src_offset + (d - e.dst_offset) + 1 \in 1 .. Len(c.answer)
      BY ONLY <2>0, <2>a, <2>b, <3>2, <3>3
    <3> QED
      BY ONLY <3>1, <3>4
  <2>2. Len(c.answer) <= Len(q.answer) /\ Len(q.answer) \in Nat
    BY <1>1, <1>6, <1>7, <1>8, SMTT(60)
  <2>3. base + e.src_offset + e.bit_count <= Len(q.answer)
    <3> HIDE DEF base
    <3> QED
      BY ONLY <2>0, <2>a, <2>b, <2>2, SMTT(30)
  <2> QED
    BY <1>8, <1>10, <2>1, <2>3 DEF PicksItsBits
<1>11. /\ DOMAIN q.read_queue = DOMAIN c.read_queue \cup {Len(c.read_queue) + 1}
       /\ \A i \in DOMAIN c.read_queue :
             q.read_queue[i] = c.read_queue[i] /\ c.read_queue[i] \in Entry
       /\ q.read_queue[Len(c.read_queue) + 1] = entry
  <2>1. /\ Len(q.read_queue) = Len(c.read_queue) + 1 /\ q.read_queue \in Seq(Entry)
        /\ \A i \in 1 .. Len(c.read_queue) : q.read_queue[i] = c.read_queue[i]
        /\ q.read_queue[Len(c.read_queue) + 1] = entry
    BY <1>4, <1>6, <1>7, AppendProperties
  <2>2. \A i \in DOMAIN c.read_queue : c.read_queue[i] \in Entry
    BY <1>7
  <2>3. Len(c.read_queue) \in Nat /\ DOMAIN c.read_queue = 1 .. Len(c.read_queue)
        /\ DOMAIN q.read_queue = 1 .. Len(q.read_queue)
    BY <1>7, <2>1
  <2>4. 1 .. Len(c.read_queue) + 1 = (1 .. Len(c.read_queue)) \cup {Len(c.read_queue) + 1}
    BY <2>3
  <2> QED
    BY <2>1, <2>2, <2>3, <2>4
<1>12. AnswersMatch(q)
  BY <1>8, <1>9, <1>10, <1>11 DEF CtxInv, AnswersMatch
<1>13. \A d : Queued(q, d) <=> Queued(c, d) \/ d \in first .. first + bits - 1
  <2>1. \A d : Fills(entry, d) <=> d \in first .. first + bits - 1
    BY DEF Fills, entry
  <2> QED
    BY <1>11, <2>1 DEF Queued
<1>14. q.write_count \in Nat \ {0} /\ q.write_count <= WriteSize - 1
       /\ q.read_count \in Nat \ {0} /\ q.read_count <= ReadSize
  <2>1. c.write_count \in Nat
    BY DEF CtxInv, Ctx
  <2> QED
    <3>1. c.read_count + taken <= ReadSize
      BY DEF taken
    <3>2. q.read_count = c.read_count + taken /\ c.read_count \in Nat /\ taken \in Nat \ {0}
      BY <1>1, <1>6, <1>7
    <3>3. q.read_count \in Nat \ {0} /\ q.read_count <= ReadSize
      BY ONLY <3>1, <3>2, BufferAssumption
    <3> QED
      BY <1>2, <1>6, <2>1, <3>3
<1> QED
  BY <1>6, <1>12, <1>13, <1>14 DEF CtxInv, FitsBuffers, HasCommandsForReads, q, w
\* After the flush that is made for want of space there is space: the turn of a
\* clock loop fits the buffers and clocks at least one bit.
LEMMA DataRoom ==
  ASSUME ~NDEBUG, IInv, call.length > 0,
         NEW r \in flush_if(data_short(ctx, call), ctx, mem), ~r.aborted
  PROVE  /\ call.length < 8 =>
              /\ r.ctx.write_count + (IF carries_data(call) THEN 3 ELSE 2) <= WriteSize - 1
              /\ call.in => r.ctx.read_count + 1 <= ReadSize
         /\ call.length >= 8 =>
              LET n == data_bytes(r.ctx, call)
              IN /\ n \in Nat /\ n > 0 /\ 8 * n <= call.length
                 /\ r.ctx.write_count + (3 + (IF carries_data(call) THEN n ELSE 0)) <= WriteSize - 1
                 /\ call.in => r.ctx.read_count + n <= ReadSize
<1> DEFINE space == buffer_write_space(r.ctx)
           rspace == buffer_read_space(r.ctx)
<1>1. CtxInv(ctx) /\ mem \in Memory /\ call.length \in Nat /\ call.in \in BOOLEAN
  BY DEF IInv, TypeOK, Memory, Call
<1>2. data_short(ctx, call) \in BOOLEAN
  BY DEF data_short
<1>3. /\ CtxInv(r.ctx)
      /\ ~data_short(ctx, call) => r.ctx = ctx
      /\ data_short(ctx, call) => r.ctx.write_count = 0 /\ r.ctx.read_count = 0
  BY <1>1, <1>2, FlushIf
<1>4. /\ space = WriteSize - r.ctx.write_count - 1 /\ rspace = ReadSize - r.ctx.read_count
      /\ space \in Nat /\ rspace \in Nat /\ space < UintMod - 3
      /\ r.ctx.write_count \in Nat /\ r.ctx.read_count \in Nat
  BY <1>3, Spaces, BufferAssumption, SMTT(30) DEF CtxInv, Ctx
<1> HIDE DEF space, rspace
<1>5. /\ call.in => rspace >= 1
      /\ carries_data(call) => space + (IF call.length < 8 THEN 1 ELSE 0) >= 4
      /\ ~carries_data(call) => space + (IF call.length < 8 THEN 1 ELSE 0) >= 3
  <2>1. CASE data_short(ctx, call)
    BY <1>3, <1>4, <2>1, BufferAssumption
  <2>2. CASE ~data_short(ctx, call)
    <3>1. r.ctx = ctx
      BY <1>3, <2>2
    <3>2. Unsigned(space + (IF call.length < 8 THEN 1 ELSE 0)) =
            space + (IF call.length < 8 THEN 1 ELSE 0)
      BY <1>4, BufferAssumption DEF Unsigned
    <3> QED
      BY <1>1, <1>4, <2>2, <3>1, <3>2 DEF data_short, space, rspace
  <2> QED
    BY <2>1, <2>2
<1>6. CASE call.length < 8
  BY <1>1, <1>4, <1>5, <1>6, BufferAssumption
<1>7. CASE call.length >= 8
  <2> DEFINE limit == Lesser(call.length \div 8, MaxCmdBytes)
             fit == IF carries_data(call) /\ limit + 3 > space THEN space - 3 ELSE limit
             n == data_bytes(r.ctx, call)
  <2>1. limit \in Nat /\ limit >= 1 /\ 8 * limit <= call.length
    BY <1>1, <1>7, BufferAssumption DEF Lesser
  <2>2. carries_data(call) => space >= 4
    BY <1>1, <1>4, <1>5, <1>7
  <2>3. ~carries_data(call) => space >= 3
    BY <1>1, <1>4, <1>5, <1>7
  <2> HIDE DEF limit
  <2>4. /\ fit \in Nat /\ fit >= 1 /\ fit <= limit
        /\ carries_data(call) => fit + 3 <= space
    BY <1>4, <2>1, <2>2
  <2>5. n = IF call.in THEN Lesser(fit, rspace) ELSE fit
    <3>1. carries_data(call) => Unsigned(space - 3) = space - 3
      BY <1>4, <2>2, BufferAssumption DEF Unsigned
    <3> QED
      BY <3>1 DEF data_bytes, limit, space, rspace
  <2> HIDE DEF fit, n
  <2>6. n \in Nat /\ n >= 1 /\ n <= fit /\ (call.in => n <= rspace)
    BY <1>1, <1>4, <1>5, <2>4, <2>5 DEF Lesser
  <2>7. 8 * n <= call.length
    BY <1>1, <2>1, <2>4, <2>6
  <2>8. r.ctx.write_count + (3 + (IF carries_data(call) THEN n ELSE 0)) <= WriteSize - 1
    BY <1>4, <2>3, <2>4, <2>6, BufferAssumption
  <2>9. call.in => r.ctx.read_count + n <= ReadSize
    BY <1>4, <2>6, BufferAssumption
  <2> QED
    BY <1>7, <1>1, <2>6, <2>7, <2>8, <2>9 DEF n
<1> QED
  BY <1>1, <1>6, <1>7

\* After the check at the head of the TMS loop there is room for its command.
LEMMA TmsRoom ==
  ASSUME ~NDEBUG, IInv, call.length > 0,
         NEW r \in flush_if(tms_short(ctx, call), ctx, mem), ~r.aborted
  PROVE  /\ r.ctx.write_count + 3 <= WriteSize - 1
         /\ call.in => r.ctx.read_count + 1 <= ReadSize
<1>1. CtxInv(ctx) /\ mem \in Memory /\ tms_short(ctx, call) \in BOOLEAN
  BY DEF IInv, TypeOK, Memory, tms_short
<1>2. /\ CtxInv(r.ctx)
      /\ ~tms_short(ctx, call) => r.ctx = ctx
      /\ tms_short(ctx, call) => r.ctx.write_count = 0 /\ r.ctx.read_count = 0
  BY <1>1, FlushIf
<1>3. /\ buffer_write_space(r.ctx) = WriteSize - r.ctx.write_count - 1
      /\ buffer_read_space(r.ctx) = ReadSize - r.ctx.read_count
      /\ r.ctx.write_count \in Nat /\ r.ctx.read_count \in Nat
  BY <1>2, Spaces DEF CtxInv, Ctx
<1>4. CASE tms_short(ctx, call)
  BY <1>2, <1>3, <1>4, BufferAssumption
<1>5. CASE ~tms_short(ctx, call)
  <2>1. r.ctx = ctx
    BY <1>2, <1>5
  <2> QED
    BY <1>3, <1>5, <2>1, BufferAssumption DEF tms_short
<1> QED
  BY <1>4, <1>5
\* Every turn that clocks bits keeps the invariant.
LEMMA TurnInv ==
  ASSUME ~NDEBUG, IInv, Running, call.length > 0,
         NEW short \in BOOLEAN, NEW r \in flush_if(short, ctx, mem), ~r.aborted,
         NEW bytes \in Nat \ {0}, NEW bits \in Nat \ {0}, NEW offset \in 0 .. 7,
         bits <= call.length,
         offset = 8 * DIV_ROUND_UP(bits, 8) - bits,
         r.ctx.write_count + bytes <= WriteSize - 1,
         call.in => r.ctx.read_count + DIV_ROUND_UP(bits, 8) <= ReadSize,
         Turn(r, bytes, bits, offset)
  PROVE  IInv'
<1>1. /\ CtxInv(ctx) /\ mem \in Memory /\ call \in Call /\ call.length \in Nat
      /\ call.in \in BOOLEAN /\ call.out \in BOOLEAN
      /\ call.out_offset \in Nat /\ call.in_offset \in Nat
      /\ tick \in Nat /\ tick <= MaxTicks /\ call.length <= tick /\ asked \subseteq Ticks
  BY CallerAssumption DEF IInv, TypeOK, Memory, Call
<1>2. /\ CtxInv(r.ctx) /\ r.mem \in Memory
      /\ \A d \in Ticks : r.mem[d] # mem[d] => Queued(ctx, d) /\ r.mem[d] = d
      /\ \A d \in Ticks : Queued(ctx, d) =>
           \/ r.mem[d] = d \/ Queued(r.ctx, d) \/ r.ctx.retval = "FAIL"
      /\ \A d : Queued(r.ctx, d) => Queued(ctx, d)
      /\ ~short => r.ctx = ctx
      /\ short => r.ctx.write_count = 0
  BY <1>1, FlushIf
<1>3. /\ tick' = tick /\ asked' = asked /\ outcome' = outcome /\ status' = status
      /\ mem' = r.mem /\ ctx' = queue_clocks(r.ctx, call, bytes, bits, offset)
      /\ call' = rest_of(call, bits)
  BY DEF Turn
<1> DEFINE first == tick - call.length
<1>4. first \in Nat /\ first + bits <= MaxTicks /\ first + bits <= tick
  BY <1>1, CallerAssumption
<1>5. /\ CtxInv(ctx') /\ ctx'.retval = r.ctx.retval
      /\ \A d : Queued(ctx', d) <=>
             Queued(r.ctx, d) \/ (call.in /\ d \in first .. first + bits - 1)
  <2>1. CASE call.in
    <3>1. call.in_offset = first
      BY <2>1 DEF IInv, OffsetsInStep
    <3>2. ctx' = buffer_add_read(chip_answers(buffer_write(r.ctx, bytes), first, bits),
                                 first, bits, offset)
      BY <1>3, <2>1, <3>1 DEF queue_clocks
    <3> HIDE DEF first
    <3> QED
      BY <1>2, <1>4, <2>1, <3>2, Read
  <2>2. CASE ~call.in
    <3>1. ctx' = buffer_write(r.ctx, bytes)
      BY <1>3, <2>2 DEF queue_clocks
    <3> QED
      BY <1>2, <2>2, <3>1, Write
  <2> QED
    BY <2>1, <2>2
<1>6. /\ call' \in Call /\ call'.length = call.length - bits
      /\ call'.length > 0 => call'.in = call.in /\ call'.out = call.out
      /\ call'.length = 0 => call'.in = FALSE /\ call'.out = FALSE
      /\ call'.in => call'.in_offset = call.in_offset + bits
      /\ call'.out => call'.out_offset = call.out_offset + bits
  <2>1. CASE bits = call.length
    <3>1. call' = NoCall
      BY <1>3, <2>1 DEF rest_of
    <3> QED
      BY <1>1, <2>1, <3>1 DEF NoCall, Call
  <2>2. CASE bits # call.length
    <3>1. call' = [call EXCEPT !.length = @ - bits,
                               !.out_offset = IF call.out THEN @ + bits ELSE @,
                               !.in_offset = IF call.in THEN @ + bits ELSE @]
      BY <1>3, <2>2 DEF rest_of
    <3>2. call.length - bits \in Nat /\ call.length - bits > 0
      BY <1>1, <2>2
    <3>3. /\ call'.fn = call.fn /\ call'.in = call.in /\ call'.out = call.out
          /\ call'.length = call.length - bits
          /\ call'.out_offset = IF call.out THEN call.out_offset + bits ELSE call.out_offset
          /\ call'.in_offset = IF call.in THEN call.in_offset + bits ELSE call.in_offset
      BY <1>1, <3>1 DEF Call
    <3>4. call' \in Call
      <4>1. /\ (IF call.out THEN call.out_offset + bits ELSE call.out_offset) \in Nat
            /\ (IF call.in THEN call.in_offset + bits ELSE call.in_offset) \in Nat
        BY <1>1
      <4>2. call' = [fn |-> call.fn, out |-> call.out, in |-> call.in,
                     out_offset |-> IF call.out THEN call.out_offset + bits ELSE call.out_offset,
                     in_offset |-> IF call.in THEN call.in_offset + bits ELSE call.in_offset,
                     length |-> call.length - bits]
        BY <1>1, <3>1 DEF Call
      <4> QED
        BY <1>1, <3>2, <4>1, <4>2 DEF Call
    <3> QED
      BY <1>1, <3>2, <3>3, <3>4
  <2> QED
    BY <2>1, <2>2
<1>7. \A d : InRest(d)' <=> call.in /\ d \in first + bits .. tick - 1
  BY <1>1, <1>3, <1>6 DEF InRest
<1>8. \A d : InRest(d) <=> call.in /\ (d \in first .. first + bits - 1 \/ d \in first + bits .. tick - 1)
  BY <1>1, <1>4 DEF InRest
<1> HIDE DEF first
<1>9. TypeOK'
  BY <1>2, <1>3, <1>5, <1>6 DEF IInv, TypeOK, CtxInv, Memory
<1>10. /\ call'.length <= tick' /\ \A t \in asked' : t < tick'
       /\ call'.length = 0 => ~call'.in /\ ~call'.out
  BY <1>1, <1>3, <1>6 DEF IInv
<1>11. OffsetsInStep'
  BY <1>1, <1>3, <1>6 DEF IInv, OffsetsInStep, Call
<1>12. \A d \in asked' : mem'[d] = d \/ Queued(ctx', d) \/ InRest(d)' \/ ctx'.retval # "OK"
  <2>1. SUFFICES ASSUME NEW d \in asked, ctx'.retval = "OK"
                 PROVE  mem'[d] = d \/ Queued(ctx', d) \/ InRest(d)'
    BY <1>3
  <2>2. d \in Ticks
    BY <1>1
  <2>3. mem[d] = d => mem'[d] = d
    BY <1>2, <1>3, <2>2
  <2>4. Queued(ctx, d) => mem'[d] = d \/ Queued(ctx', d)
    BY <1>2, <1>3, <1>5, <2>1, <2>2
  <2>5. InRest(d) => Queued(ctx', d) \/ InRest(d)'
    BY <1>5, <1>7, <1>8
  <2>6. ctx.retval # "OK" => short
    BY <1>2, <1>5, <2>1
  <2>7. ctx.retval # "OK" => FALSE
    <3>1. SUFFICES ASSUME ctx.retval # "OK", short PROVE FALSE
      BY <2>6
    <3>2. PICK f \in mpsse_flush(ctx, mem) : r = [f EXCEPT !.ctx.retval = f.rc]
      BY <3>1 DEF flush_if
    <3>3. f = flush_after_error(ctx, mem)
      BY <3>1, <3>2 DEF mpsse_flush
    <3>4. f = [ctx |-> f.ctx, mem |-> f.mem, rc |-> ctx.retval, aborted |-> f.aborted]
      BY <3>3 DEF flush_after_error, Result
    <3>5. f.ctx = [ctx EXCEPT !.retval = "OK"]
      BY <3>3 DEF flush_after_error, Result
    <3>6. ctx \in Ctx
      BY <1>1 DEF CtxInv
    <3>7. f.rc = ctx.retval /\ r.ctx = [f.ctx EXCEPT !.retval = f.rc]
      BY <3>2, <3>4
    <3>8. r.ctx.retval = ctx.retval
      BY <3>5, <3>6, <3>7 DEF Ctx
    <3> QED
      BY <1>5, <2>1, <3>1, <3>8
  <2> QED
    BY <2>3, <2>4, <2>5, <2>7 DEF IInv, AskedAccountedFor
<1>13. \A d \in Ticks : Queued(ctx', d) \/ InRest(d)' => d \in asked'
  BY <1>2, <1>3, <1>5, <1>7, <1>8 DEF IInv, AskedAccountedFor
<1>14. FlushOkMeansDelivered'
  BY <1>1, <1>2, <1>3 DEF IInv, FlushOkMeansDelivered
<1> QED
  BY <1>5, <1>9, <1>10, <1>11, <1>12, <1>13, <1>14 DEF IInv, AskedAccountedFor
\* The invariant holds when mpsse_open returns.
LEMMA InitInv == Init => IInv
<1> SUFFICES ASSUME Init PROVE IInv
  OBVIOUS
<1>1. << >> \in Seq(Entry) /\ << >> \in Seq(Bits) /\ Len(<< >>) = 0
  OBVIOUS
<1>2. ctx \in Ctx /\ CtxInv(ctx)
  BY <1>1, BufferAssumption DEF Init, Ctx, CtxInv, FitsBuffers, HasCommandsForReads, AnswersMatch
<1>3. TypeOK
  BY <1>2, CallerAssumption DEF Init, TypeOK, Call, NoCall, Bits
<1>4. ~call.in /\ ~call.out /\ call.length = 0 /\ asked = {} /\ outcome = "none" /\ tick = 0
  BY DEF Init, NoCall
<1>5. \A d : ~Queued(ctx, d) /\ ~InRest(d)
  BY <1>4 DEF Init, Queued, InRest
<1> QED
  BY <1>2, <1>3, <1>4, <1>5 DEF IInv, OffsetsInStep, AskedAccountedFor, FlushOkMeansDelivered

\* A turn of the loop of mpsse_clock_data keeps the invariant.
LEMMA DataTurnInv == ASSUME ~NDEBUG, IInv, data_turn PROVE IInv'
<1>1. Running /\ call.length > 0 /\ call \in Call
  BY DEF data_turn, IInv, TypeOK
<1>2. PICK r \in flush_if(data_short(ctx, call), ctx, mem) :
       \/ r.aborted /\ Abort
       \/ /\ ~r.aborted /\ call.length < 8
          /\ Turn(r, IF carries_data(call) THEN 3 ELSE 2, call.length, 8 - call.length)
       \/ /\ ~r.aborted /\ call.length >= 8
          /\ LET this_bytes == data_bytes(r.ctx, call)
             IN IF this_bytes > 0
                THEN Turn(r, 3 + (IF carries_data(call) THEN this_bytes ELSE 0),
                          8 * this_bytes, 0)
                ELSE ctx' = r.ctx /\ mem' = r.mem
                     /\ UNCHANGED <<call, tick, asked, outcome, status>>
  BY DEF data_turn
<1>3. data_short(ctx, call) \in BOOLEAN /\ call.length \in Nat
  BY <1>1 DEF data_short, Call
<1>4. CASE r.aborted /\ Abort
  BY <1>4 DEF Abort, IInv, TypeOK, Memory, CtxInv, OffsetsInStep, AskedAccountedFor,
     FlushOkMeansDelivered, InRest
<1>5. CASE /\ ~r.aborted /\ call.length < 8
           /\ Turn(r, IF carries_data(call) THEN 3 ELSE 2, call.length, 8 - call.length)
  <2> DEFINE bytes == IF carries_data(call) THEN 3 ELSE 2
  <2>1. r.ctx.write_count + bytes <= WriteSize - 1 /\ (call.in => r.ctx.read_count + 1 <= ReadSize)
    BY <1>1, <1>2, <1>5, DataRoom
  <2>2. DIV_ROUND_UP(call.length, 8) = 1
    BY <1>1, <1>3, <1>5, SMT DEF DIV_ROUND_UP
  <2>3. bytes \in Nat \ {0} /\ call.length \in Nat \ {0} /\ 8 - call.length \in 0 .. 7
    BY <1>1, <1>3, <1>5
  <2> HIDE DEF bytes
  <2>4. Turn(r, bytes, call.length, 8 - call.length)
    BY <1>5 DEF bytes
  <2> QED
    BY <1>1, <1>2, <1>3, <1>5, <2>1, <2>2, <2>3, <2>4, TurnInv
<1>6. CASE /\ ~r.aborted /\ call.length >= 8
           /\ LET this_bytes == data_bytes(r.ctx, call)
              IN IF this_bytes > 0
                 THEN Turn(r, 3 + (IF carries_data(call) THEN this_bytes ELSE 0),
                           8 * this_bytes, 0)
                 ELSE ctx' = r.ctx /\ mem' = r.mem
                      /\ UNCHANGED <<call, tick, asked, outcome, status>>
  <2> DEFINE n == data_bytes(r.ctx, call)
             bytes == 3 + (IF carries_data(call) THEN n ELSE 0)
             bits == 8 * n
  <2>1. /\ n \in Nat /\ n > 0 /\ bits <= call.length
        /\ r.ctx.write_count + bytes <= WriteSize - 1
        /\ call.in => r.ctx.read_count + n <= ReadSize
    BY <1>1, <1>2, <1>6, DataRoom
  <2>2. Turn(r, bytes, bits, 0)
    BY <1>6, <2>1
  <2> HIDE DEF n
  <2>3. bytes \in Nat \ {0} /\ bits \in Nat \ {0}
    BY <2>1
  <2>4. DIV_ROUND_UP(bits, 8) = n
    BY <2>1, SMT DEF DIV_ROUND_UP
  <2>5. 0 = 8 * DIV_ROUND_UP(bits, 8) - bits /\ 0 \in 0 .. 7
    BY <2>1, <2>4
  <2> HIDE DEF bytes, bits
  <2> QED
    BY <1>1, <1>2, <1>3, <1>6, <2>1, <2>2, <2>3, <2>4, <2>5, TurnInv
<1> QED
  BY <1>2, <1>4, <1>5, <1>6

\* A turn of the loop of mpsse_clock_tms_cs keeps the invariant.
LEMMA TmsTurnInv == ASSUME ~NDEBUG, IInv, tms_turn PROVE IInv'
<1>1. Running /\ call.length > 0 /\ call \in Call
  BY DEF tms_turn, IInv, TypeOK
<1>2. PICK r \in flush_if(tms_short(ctx, call), ctx, mem) :
       \/ r.aborted /\ Abort
       \/ ~r.aborted /\ Turn(r, 3, tms_bits(call), 8 - tms_bits(call))
  BY DEF tms_turn
<1>3. tms_short(ctx, call) \in BOOLEAN /\ call.length \in Nat
  BY <1>1 DEF tms_short, Call
<1>4. CASE r.aborted /\ Abort
  BY <1>4 DEF Abort, IInv, TypeOK, Memory, CtxInv, OffsetsInStep, AskedAccountedFor,
     FlushOkMeansDelivered, InRest
<1>5. CASE ~r.aborted /\ Turn(r, 3, tms_bits(call), 8 - tms_bits(call))
  <2> DEFINE bits == tms_bits(call)
  <2>1. r.ctx.write_count + 3 <= WriteSize - 1 /\ (call.in => r.ctx.read_count + 1 <= ReadSize)
    BY <1>1, <1>2, <1>5, TmsRoom
  <2>2. bits \in 1 .. 7 /\ bits <= call.length
    BY <1>1, <1>3 DEF tms_bits, Lesser
  <2> HIDE DEF bits
  <2>3. DIV_ROUND_UP(bits, 8) = 1
    BY <2>2, SMT DEF DIV_ROUND_UP
  <2>4. bits \in Nat \ {0} /\ 8 - bits \in 0 .. 7 /\ 3 \in Nat \ {0}
    BY <2>2
  <2>5. Turn(r, 3, bits, 8 - bits)
    BY <1>5 DEF bits
  <2> QED
    BY <1>1, <1>2, <1>3, <1>5, <2>1, <2>2, <2>3, <2>4, <2>5, TurnInv
<1> QED
  BY <1>2, <1>4, <1>5
\* So does the entry into a clock call, of any length.
LEMMA StartInv ==
  ASSUME IInv, NEW fn \in {"data", "tms"}, NEW out \in BOOLEAN, NEW in \in BOOLEAN,
         NEW n \in Nat, start(fn, out, in, n)
  PROVE  IInv'
<1>1. /\ call.length = 0 /\ ~call.in /\ ~call.out /\ n > 0 /\ tick \in Nat /\ tick + n <= MaxTicks
      /\ tick' = tick + n /\ outcome' = "none"
      /\ asked' = IF in THEN asked \cup (tick .. tick + n - 1) ELSE asked
      /\ ctx' = ctx /\ mem' = mem /\ status' = status
      /\ asked \subseteq Ticks /\ call \in Call
  BY DEF start, Idle, Ask, IInv, TypeOK
<1>2. CtxInv(ctx') /\ \A d : Queued(ctx', d) <=> Queued(ctx, d)
  BY <1>1 DEF IInv
<1>3. \A d : ~InRest(d)
  BY <1>1 DEF InRest
<1>4. tick .. tick + n - 1 \subseteq Ticks /\ tick' \in 0 .. MaxTicks
  BY <1>1, CallerAssumption DEF Ticks
<1>5. /\ \A t \in asked' : t < tick'
      /\ asked' \subseteq Ticks
  <2>1. \A t \in asked : t < tick /\ t \in Int
    BY <1>1 DEF IInv, Ticks
  <2> QED
    BY <1>1, <1>4, <2>1
<1>6. CASE ctx.retval # "OK"
  <2>1. call' = call
    BY <1>6 DEF start
  <2>2. \A d : ~InRest(d)'
    BY <1>1, <2>1 DEF InRest
  <2>3. AskedAccountedFor'
    BY <1>1, <1>2, <1>6, <2>2 DEF IInv, AskedAccountedFor
  <2> QED
    BY <1>1, <1>2, <1>4, <1>5, <2>1, <2>3
    DEF IInv, TypeOK, OffsetsInStep, FlushOkMeansDelivered
<1>7. CASE ctx.retval = "OK"
  <2>1. call' = [fn |-> fn, out |-> out, in |-> in, length |-> n,
                 out_offset |-> IF out THEN tick ELSE 0,
                 in_offset |-> IF in THEN tick ELSE 0]
    BY <1>7 DEF start
  <2>2. /\ call' \in Call /\ call'.length = n /\ call'.in = in /\ call'.out = out
        /\ call'.out => call'.out_offset = tick
        /\ call'.in => call'.in_offset = tick
    BY <1>1, <2>1 DEF Call
  <2>3. \A d : InRest(d)' <=> in /\ d \in tick .. tick + n - 1
    BY <1>1, <2>2 DEF InRest
  <2>4. AskedAccountedFor'
    BY <1>1, <1>2, <1>3, <2>3 DEF IInv, AskedAccountedFor
  <2>5. call'.length <= tick' /\ OffsetsInStep' /\ (call'.length = 0 => ~call'.in /\ ~call'.out)
    BY <1>1, <2>2 DEF OffsetsInStep
  <2> QED
    BY <1>1, <1>2, <1>4, <1>5, <2>2, <2>4, <2>5
    DEF IInv, TypeOK, FlushOkMeansDelivered
<1> QED
  BY <1>1, <1>6, <1>7

\* So does a command that is only sent: mpsse_set_data_bits and the like.
LEMMA WriteCommandInv ==
  ASSUME ~NDEBUG, IInv, NEW bytes \in 1 .. 3, write_command(bytes)
  PROVE  IInv'
<1> DEFINE short == buffer_write_space(ctx) < bytes
<1>1. /\ CtxInv(ctx) /\ mem \in Memory /\ ctx.retval = "OK" /\ call.length = 0
      /\ ~call.in /\ ~call.out /\ asked \subseteq Ticks
      /\ outcome' = "none" /\ UNCHANGED <<call, tick, asked, status>>
  BY DEF write_command, Idle, IInv, TypeOK, Memory
<1>2. PICK r \in flush_if(short, ctx, mem) : ctx' = buffer_write(r.ctx, bytes) /\ mem' = r.mem
  BY DEF write_command
<1>3. ~r.aborted
  BY <1>1, <1>2 DEF flush_if, mpsse_flush, Result
<1>4. /\ CtxInv(r.ctx) /\ r.mem \in Memory
      /\ ~short => r.ctx = ctx /\ r.mem = mem
      /\ short => r.ctx.write_count = 0 /\ r.ctx.read_count = 0
      /\ \A d \in Ticks : r.mem[d] # mem[d] => Queued(ctx, d) /\ r.mem[d] = d
      /\ \A d \in Ticks : Queued(ctx, d) =>
           \/ r.mem[d] = d \/ Queued(r.ctx, d) \/ r.ctx.retval = "FAIL"
      /\ \A d : Queued(r.ctx, d) => Queued(ctx, d)
  <2>1. short \in BOOLEAN /\ r \in flush_if(short, ctx, mem)
    BY <1>2
  <2> HIDE DEF short
  <2>2. CtxInv(ctx) /\ mem \in Memory
    BY <1>1
  <2>3. /\ CtxInv(r.ctx) /\ r.mem \in Memory
        /\ ~short => r.ctx = ctx /\ r.mem = mem
        /\ short => r.ctx.write_count = 0 /\ r.ctx.read_count = 0
    BY ONLY ~NDEBUG, <1>3, <2>1, <2>2, FlushIf
  <2>4. \A d \in Ticks : r.mem[d] # mem[d] => Queued(ctx, d) /\ r.mem[d] = d
    BY ONLY ~NDEBUG, <1>3, <2>1, <2>2, FlushIf
  <2>5. \A d \in Ticks : Queued(ctx, d) =>
          \/ r.mem[d] = d \/ Queued(r.ctx, d) \/ r.ctx.retval = "FAIL"
    BY ONLY ~NDEBUG, <1>3, <2>1, <2>2, FlushIf
  <2>6. \A d : Queued(r.ctx, d) => Queued(ctx, d)
    BY ONLY ~NDEBUG, <1>3, <2>1, <2>2, FlushIf
  <2> QED
    BY ONLY <2>3, <2>4, <2>5, <2>6
<1>5. r.ctx.write_count + bytes <= WriteSize - 1
  <2>1. CASE short
    BY <1>4, <2>1, BufferAssumption
  <2>2. CASE ~short
    <3>1. buffer_write_space(ctx) = WriteSize - ctx.write_count - 1
      BY <1>1, Spaces
    <3>2. ctx.write_count \in Nat /\ r.ctx = ctx
      BY <1>1, <1>4, <2>2 DEF CtxInv, Ctx
    <3> QED
      BY <2>2, <3>1, <3>2, BufferAssumption
  <2> QED
    BY <2>1, <2>2
<1>6. CtxInv(ctx') /\ ctx'.retval = r.ctx.retval /\ \A d : Queued(ctx', d) <=> Queued(r.ctx, d)
  BY <1>2, <1>4, <1>5, Write
<1>7. \A d : ~InRest(d) /\ ~InRest(d)'
  BY <1>1 DEF InRest
<1>8. \A d \in asked' : mem'[d] = d \/ Queued(ctx', d) \/ InRest(d)' \/ ctx'.retval # "OK"
  BY <1>1, <1>2, <1>4, <1>6, <1>7 DEF IInv, AskedAccountedFor
<1>9. \A d \in Ticks : Queued(ctx', d) \/ InRest(d)' => d \in asked'
  BY <1>1, <1>4, <1>6, <1>7 DEF IInv, AskedAccountedFor
<1>10. TypeOK'
  BY <1>1, <1>2, <1>4, <1>6 DEF IInv, TypeOK, CtxInv, Memory
<1> QED
  BY <1>1, <1>6, <1>8, <1>9, <1>10
  DEF IInv, OffsetsInStep, AskedAccountedFor, FlushOkMeansDelivered

\* So does mpsse_read_data_bits, which asks for eight bits at once.
LEMMA ReadDataBitsInv == ASSUME ~NDEBUG, IInv, mpsse_read_data_bits PROVE IInv'
<1> DEFINE short == buffer_write_space(ctx) < 1 \/ buffer_read_space(ctx) < 1
<1>1. /\ CtxInv(ctx) /\ mem \in Memory /\ call.length = 0
      /\ ~call.in /\ ~call.out /\ asked \subseteq Ticks
      /\ tick \in Nat /\ tick + 8 <= MaxTicks /\ tick' = tick + 8
      /\ asked' = asked \cup (tick .. tick + 7)
      /\ outcome' = "none" /\ UNCHANGED <<call, status>>
  BY DEF mpsse_read_data_bits, Idle, Ask, IInv, TypeOK, Memory
<1>2. tick .. tick + 7 \subseteq Ticks /\ tick' \in 0 .. MaxTicks
  BY <1>1, CallerAssumption DEF Ticks
<1>3. asked' \subseteq Ticks /\ \A t \in asked' : t < tick'
  <2>1. \A t \in asked : t < tick /\ t \in Int
    BY <1>1 DEF IInv, Ticks
  <2> QED
    BY <1>1, <1>2, <2>1
<1>4. \A d : ~InRest(d) /\ ~InRest(d)'
  BY <1>1 DEF InRest
<1>5. CASE ctx.retval # "OK"
  <2>1. ctx' = ctx /\ mem' = mem
    BY <1>5 DEF mpsse_read_data_bits
  <2>2. AskedAccountedFor'
    BY <1>1, <1>4, <1>5, <2>1 DEF IInv, AskedAccountedFor
  <2> QED
    BY <1>1, <1>2, <1>3, <2>1, <2>2
    DEF IInv, TypeOK, OffsetsInStep, FlushOkMeansDelivered
<1>6. CASE ctx.retval = "OK"
  <2>1. PICK r \in flush_if(short, ctx, mem) :
          /\ ctx' = buffer_add_read(chip_answers(buffer_write(r.ctx, 1), tick, 8), tick, 8, 0)
          /\ mem' = r.mem
    BY <1>6 DEF mpsse_read_data_bits
  <2>2. ~r.aborted
    BY <1>6, <2>1 DEF flush_if, mpsse_flush, Result
  <2>3. short \in BOOLEAN /\ (~short => buffer_write_space(ctx) >= 1 /\ buffer_read_space(ctx) >= 1)
    BY <1>1, Spaces
  <2> HIDE DEF short
  <2>4. /\ CtxInv(r.ctx) /\ r.mem \in Memory
        /\ ~short => r.ctx = ctx /\ r.mem = mem
        /\ short => r.ctx.write_count = 0 /\ r.ctx.read_count = 0
        /\ \A d \in Ticks : r.mem[d] # mem[d] => Queued(ctx, d) /\ r.mem[d] = d
        /\ \A d \in Ticks : Queued(ctx, d) =>
             \/ r.mem[d] = d \/ Queued(r.ctx, d) \/ r.ctx.retval = "FAIL"
        /\ \A d : Queued(r.ctx, d) => Queued(ctx, d)
    BY <1>1, <2>1, <2>2, <2>3, FlushIf
  <2>5. DIV_ROUND_UP(8, 8) = 1
    BY SMT DEF DIV_ROUND_UP
  <2>6. r.ctx.write_count + 1 <= WriteSize - 1 /\ r.ctx.read_count + DIV_ROUND_UP(8, 8) <= ReadSize
    <3>1. r.ctx.write_count \in Nat /\ r.ctx.read_count \in Nat
      BY <2>4 DEF CtxInv, Ctx
    <3>2. /\ buffer_write_space(ctx) = WriteSize - ctx.write_count - 1
          /\ buffer_read_space(ctx) = ReadSize - ctx.read_count
      BY <1>1, Spaces
    <3>3. CASE short
      BY <2>4, <2>5, <3>1, <3>3, BufferAssumption
    <3>4. CASE ~short
      BY <2>3, <2>4, <2>5, <3>1, <3>2, <3>4, BufferAssumption
    <3> QED
      BY <3>3, <3>4
  <2>7. /\ CtxInv(ctx') /\ ctx'.retval = r.ctx.retval
        /\ \A d : Queued(ctx', d) <=> Queued(r.ctx, d) \/ d \in tick .. tick + 8 - 1
    <3>1. 0 \in 0 .. 7 /\ 0 = 8 * DIV_ROUND_UP(8, 8) - 8 /\ 1 \in Nat \ {0} /\ 8 \in Nat \ {0}
      BY <2>5
    <3> QED
      BY <1>1, <2>1, <2>4, <2>6, <3>1, Read
  <2>8. \A d \in asked' : mem'[d] = d \/ Queued(ctx', d) \/ InRest(d)' \/ ctx'.retval # "OK"
    BY <1>1, <1>4, <1>6, <2>1, <2>4, <2>7 DEF IInv, AskedAccountedFor
  <2>9. \A d \in Ticks : Queued(ctx', d) \/ InRest(d)' => d \in asked'
    BY <1>1, <1>4, <2>4, <2>7 DEF IInv, AskedAccountedFor
  <2>10. TypeOK'
    BY <1>1, <1>2, <1>3, <2>1, <2>4, <2>7 DEF IInv, TypeOK, CtxInv, Memory
  <2> QED
    BY <1>1, <1>3, <2>7, <2>8, <2>9, <2>10
    DEF IInv, OffsetsInStep, AskedAccountedFor, FlushOkMeansDelivered
<1> QED
  BY <1>1, <1>5, <1>6 DEF CtxInv, Ctx
\* So does mpsse_flush called by the user of the driver, however it ends.
LEMMA FlushInv == ASSUME ~NDEBUG, IInv, flush PROVE IInv'
<1>1. /\ CtxInv(ctx) /\ mem \in Memory /\ call.length = 0
      /\ ~call.in /\ ~call.out /\ asked \subseteq Ticks
  BY DEF flush, Idle, IInv, TypeOK, Memory
<1>2. PICK r \in mpsse_flush(ctx, mem) :
       \/ r.aborted /\ Abort
       \/ /\ ~r.aborted
          /\ ctx' = r.ctx
          /\ mem' = r.mem
          /\ outcome' = IF r.rc = "OK" THEN "ok" ELSE "fail"
          /\ asked' = IF r.rc = "OK" THEN asked ELSE {}
          /\ UNCHANGED <<call, tick, status>>
  BY DEF flush
<1>3. CASE r.aborted /\ Abort
  BY <1>3 DEF Abort, IInv, TypeOK, Memory, CtxInv, OffsetsInStep, AskedAccountedFor,
     FlushOkMeansDelivered, InRest
<1>4. CASE /\ ~r.aborted
           /\ ctx' = r.ctx
           /\ mem' = r.mem
           /\ outcome' = IF r.rc = "OK" THEN "ok" ELSE "fail"
           /\ asked' = IF r.rc = "OK" THEN asked ELSE {}
           /\ UNCHANGED <<call, tick, status>>
  <2>1. /\ CtxInv(r.ctx) /\ r.mem \in Memory /\ r.ctx.retval = "OK"
        /\ \A d : ~Queued(r.ctx, d)
        /\ r.rc = "OK" => \A d \in Ticks : r.mem[d] = IF Queued(ctx, d) THEN d ELSE mem[d]
        /\ r.rc = "OK" => ctx.retval = "OK"
    <3>1. CtxInv(ctx) /\ mem \in Memory /\ r \in mpsse_flush(ctx, mem) /\ ~r.aborted
      BY <1>1, <1>2, <1>4
    <3>2. /\ CtxInv(r.ctx) /\ r.mem \in Memory /\ r.rc \in {"OK", "FAIL"}
          /\ r.ctx.retval = "OK"
          /\ r.ctx.write_count = 0 /\ r.ctx.read_count = 0
          /\ \A d : ~Queued(r.ctx, d)
          /\ r.rc = "OK" => \A d \in Ticks : r.mem[d] = IF Queued(ctx, d) THEN d ELSE mem[d]
          /\ r.rc # "OK" => r.mem = mem
          /\ r.rc = "OK" => ctx.retval = "OK"
      BY ONLY ~NDEBUG, <3>1, Flush, Zenon
    <3> QED
      BY ONLY <3>2
  <2>2. \A d : ~InRest(d) /\ ~InRest(d)'
    BY <1>1, <1>4 DEF InRest
  <2>3. \A d \in asked' : mem'[d] = d
    BY <1>1, <1>4, <2>1, <2>2 DEF IInv, AskedAccountedFor
  <2>4. TypeOK'
    BY <1>1, <1>4, <2>1 DEF IInv, TypeOK, CtxInv, Memory
  <2>5. AskedAccountedFor' /\ FlushOkMeansDelivered'
    BY <1>4, <2>1, <2>2, <2>3 DEF AskedAccountedFor, FlushOkMeansDelivered
  <2> QED
    BY <1>1, <1>4, <2>1, <2>4, <2>5 DEF IInv, OffsetsInStep
<1> QED
  BY <1>2, <1>3, <1>4

\* So does mpsse_purge.
LEMMA PurgeInv == ASSUME IInv, purge PROVE IInv'
<1>1. /\ CtxInv(ctx) /\ call.length = 0 /\ ctx \in Ctx /\ tick \in Nat
      /\ ctx' = mpsse_purge(ctx) /\ asked' = {} /\ outcome' = "none"
      /\ UNCHANGED <<call, mem, tick, status>>
  BY DEF purge, Idle, IInv, CtxInv, TypeOK
<1>2. CtxInv(ctx') /\ \A d : ~Queued(ctx', d)
  BY <1>1, Empty
<1>3. \A d : ~InRest(d)'
  BY <1>1 DEF InRest
<1> QED
  BY <1>1, <1>2, <1>3
  DEF IInv, TypeOK, CtxInv, OffsetsInStep, AskedAccountedFor, FlushOkMeansDelivered

\* So does a flush that never returns.
LEMMA HangInv == ASSUME IInv, flush_hangs PROVE IInv'
BY DEF flush_hangs, IInv, TypeOK, CtxInv, OffsetsInStep, AskedAccountedFor, FlushOkMeansDelivered,
   InRest

\* So does a step that changes nothing.
LEMMA StutterInv == IInv /\ UNCHANGED vars => IInv'
BY DEF IInv, vars, TypeOK, CtxInv, OffsetsInStep, AskedAccountedFor, FlushOkMeansDelivered, InRest

\* Every step keeps the invariant.
LEMMA NextInv == ASSUME ~NDEBUG, IInv, [Next]_vars PROVE IInv'
<1>1. CASE clock_data
  BY <1>1, StartInv, CallerAssumption DEF clock_data, mpsse_clock_data
<1>2. CASE clock_tms_cs
  BY <1>2, StartInv, CallerAssumption DEF clock_tms_cs, mpsse_clock_tms_cs
<1>3. CASE data_turn
  BY <1>3, DataTurnInv
<1>4. CASE tms_turn
  BY <1>4, TmsTurnInv
<1>5. CASE mpsse_set_data_bits \/ mpsse_set_divisor
  BY <1>5, WriteCommandInv DEF mpsse_set_data_bits, mpsse_set_divisor
<1>6. CASE single_byte_boolean_helper
  BY <1>6, WriteCommandInv DEF single_byte_boolean_helper
<1>7. CASE mpsse_read_data_bits
  BY <1>7, ReadDataBitsInv
<1>8. CASE flush
  BY <1>8, FlushInv
<1>9. CASE purge
  BY <1>9, PurgeInv
<1>10. CASE flush_hangs
  BY <1>10, HangInv
<1>11. CASE UNCHANGED vars
  BY <1>11, StutterInv
<1> QED
  BY <1>1, <1>2, <1>3, <1>4, <1>5, <1>6, <1>7, <1>8, <1>9, <1>10, <1>11 DEF Next

\* The inductive invariant holds in every behaviour of the queue, whatever is
\* queued, flushed and purged in whatever order (mpsse.c:442-767 and 866-969).
THEOREM Invariance == ~NDEBUG => (Spec => []IInv)
<1> SUFFICES ASSUME ~NDEBUG PROVE Spec => []IInv
  OBVIOUS
<1>1. IInv /\ [Next]_vars => IInv'
  BY NextInv
<1> QED
  BY <1>1, InitInv, PTL DEF Spec

\* Every variable keeps its type in every behaviour.
THEOREM TypeCorrect == ~NDEBUG => (Spec => []TypeOK)
<1>1. IInv => TypeOK
  BY DEF IInv
<1> QED
  BY <1>1, Invariance, PTL

\* With assertions compiled in, the write and the read buffer never overflow
\* and the byte for SEND_IMMEDIATE is always there (mpsse.c:465-502): for every
\* size of the buffers and every length of a call.
THEOREM BuffersAreSafe == ~NDEBUG => (Spec => [](BuffersHold /\ ReadsHaveCommands))
<1>1. IInv => BuffersHold /\ ReadsHaveCommands
  BY DEF IInv, CtxInv, BuffersHold, ReadsHaveCommands
<1> QED
  BY <1>1, Invariance, PTL

\* Every entry of the read queue picks its own bits out of the response.
THEOREM EntriesAreRight == ~NDEBUG => (Spec => [](EntriesPickTheirBits /\ OffsetsInStep))
<1>1. IInv => EntriesPickTheirBits /\ OffsetsInStep
  BY DEF IInv, CtxInv, EntriesPickTheirBits
<1> QED
  BY <1>1, Invariance, PTL

\* A flush that returns ERROR_OK has delivered every bit that was asked for
\* (mpsse.h:48).
THEOREM FlushDelivers == ~NDEBUG => (Spec => []FlushOkMeansDelivered)
<1>1. IInv => FlushOkMeansDelivered
  BY DEF IInv
<1> QED
  BY <1>1, Invariance, PTL

\* No bit is forgotten on the way there, and none outlives its request: the queue
\* holds what was asked for and not told, nothing else (mpsse.c:449, 537, 611).
THEOREM NoneForgotten == ~NDEBUG => (Spec => []AskedAccountedFor)
<1>1. IInv => AskedAccountedFor
  BY DEF IInv
<1> QED
  BY <1>1, Invariance, PTL
-----------------------------------------------------------------------------
(* The refinement of MpsseContract                                           *)

\* A step that may run a flush to make room lets bits arrive, each at a place
\* it was asked for.
LEMMA RoomArrivals ==
  ASSUME ~NDEBUG, IInv, NEW short \in BOOLEAN,
         NEW r \in flush_if(short, ctx, mem), ~r.aborted, mem' = r.mem
  PROVE  Contract!Arrivals
<1>1. CtxInv(ctx) /\ mem \in Memory
  BY DEF IInv, TypeOK, Memory
<1>2. \A d \in Ticks : mem'[d] # mem[d] => Queued(ctx, d) /\ mem'[d] = d
  BY <1>1, FlushIf
<1> QED
  BY <1>2 DEF Contract!Arrivals, Contract!Ticks, Ticks, IInv, AskedAccountedFor

\* Inside a call a step is an arrival: nothing is asked for, no flush is told.
LEMMA TurnProceeds ==
  ASSUME IInv, Contract!Arrivals, call.length > 0,
         UNCHANGED <<asked, outcome>>, outcome = "none"
  PROVE  Contract!Proceed
BY DEF Contract!Proceed, Contract!Ticks, Ticks, IInv, TypeOK

\* While a call runs its caller has not been told of a flush.
Silent == call.length > 0 => outcome = "none"

\* No step tells the caller of a running clock call of a flush.
LEMMA SilentInv == ASSUME IInv, Silent, [Next]_vars PROVE Silent'
<1>1. CASE clock_data \/ clock_tms_cs
  BY <1>1 DEF clock_data, clock_tms_cs, mpsse_clock_data, mpsse_clock_tms_cs, start, Ask, Silent
<1>2. CASE data_turn
  BY <1>2 DEF data_turn, Turn, Abort, Silent
<1>3. CASE tms_turn
  BY <1>3 DEF tms_turn, Turn, Abort, Silent
<1>4. CASE mpsse_set_data_bits \/ mpsse_set_divisor \/ single_byte_boolean_helper
  BY <1>4 DEF mpsse_set_data_bits, mpsse_set_divisor, single_byte_boolean_helper,
     write_command, Silent
<1>5. CASE mpsse_read_data_bits
  BY <1>5 DEF mpsse_read_data_bits, Ask, Silent
<1>6. CASE flush
  BY <1>6 DEF flush, Abort, Idle, Silent, IInv, TypeOK, Call
<1>7. CASE purge
  BY <1>7 DEF purge, Silent
<1>8. CASE flush_hangs
  BY <1>8 DEF flush_hangs, Silent
<1>9. CASE UNCHANGED vars
  BY <1>9 DEF vars, Silent
<1> QED
  BY <1>1, <1>2, <1>3, <1>4, <1>5, <1>6, <1>7, <1>8, <1>9 DEF Next

\* Every step of the queue is a step of the contract, or changes nothing of it.
LEMMA StepRefines ==
  ASSUME ~NDEBUG, IInv, IInv', Silent, [Next]_vars
  PROVE  [Contract!Next]_(Contract!contractVars)
<1> USE DEF Contract!contractVars
<1>1. ASSUME NEW fn, NEW out, NEW in, NEW n, start(fn, out, in, n)
      PROVE  Contract!Proceed
  BY <1>1 DEF start, Ask, Contract!Proceed, Contract!Arrivals, Contract!Ticks, Ticks, IInv, TypeOK
<1>2. CASE clock_data \/ clock_tms_cs
  BY <1>1, <1>2 DEF clock_data, clock_tms_cs, mpsse_clock_data, mpsse_clock_tms_cs, Contract!Next
<1>3. CASE data_turn
  <2>1. PICK r \in flush_if(data_short(ctx, call), ctx, mem) :
          \/ Abort
          \/ ~r.aborted /\ mem' = r.mem /\ UNCHANGED <<asked, outcome>>
    BY <1>3 DEF data_turn, Turn
  <2>2. data_short(ctx, call) \in BOOLEAN /\ call.length > 0 /\ outcome = "none"
    BY <1>3 DEF data_turn, data_short, Silent
  <2>3. CASE ~r.aborted /\ mem' = r.mem /\ UNCHANGED <<asked, outcome>>
    BY <2>1, <2>2, <2>3, RoomArrivals, TurnProceeds DEF Contract!Next
  <2> QED
    BY <2>1, <2>3 DEF Abort
<1>4. CASE tms_turn
  <2>1. PICK r \in flush_if(tms_short(ctx, call), ctx, mem) :
          \/ Abort
          \/ ~r.aborted /\ mem' = r.mem /\ UNCHANGED <<asked, outcome>>
    BY <1>4 DEF tms_turn, Turn
  <2>2. tms_short(ctx, call) \in BOOLEAN /\ call.length > 0 /\ outcome = "none"
    BY <1>4 DEF tms_turn, tms_short, Silent
  <2>3. CASE ~r.aborted /\ mem' = r.mem /\ UNCHANGED <<asked, outcome>>
    BY <2>1, <2>2, <2>3, RoomArrivals, TurnProceeds DEF Contract!Next
  <2> QED
    BY <2>1, <2>3 DEF Abort
<1>5. ASSUME NEW bytes \in 1 .. 3, write_command(bytes) PROVE Contract!Proceed
  <2> DEFINE short == buffer_write_space(ctx) < bytes
  <2>1. ctx.retval = "OK" /\ outcome' = "none" /\ asked' = asked
    BY <1>5 DEF write_command
  <2>2. PICK r \in flush_if(short, ctx, mem) : mem' = r.mem
    BY <1>5 DEF write_command
  <2>3. ~r.aborted /\ short \in BOOLEAN
    BY <2>1, <2>2 DEF flush_if, mpsse_flush, Result
  <2> HIDE DEF short
  <2>4. Contract!Arrivals
    BY <2>2, <2>3, RoomArrivals
  <2> QED
    BY <2>1, <2>4 DEF Contract!Proceed, Contract!Ticks, Ticks, IInv, TypeOK
<1>6. CASE mpsse_set_data_bits \/ mpsse_set_divisor \/ single_byte_boolean_helper
  BY <1>5, <1>6 DEF mpsse_set_data_bits, mpsse_set_divisor, single_byte_boolean_helper,
     Contract!Next
<1>7. CASE mpsse_read_data_bits
  <2> DEFINE short == buffer_write_space(ctx) < 1 \/ buffer_read_space(ctx) < 1
  <2>1. outcome' = "none" /\ asked' = asked \cup (tick .. tick + 8 - 1)
    BY <1>7 DEF mpsse_read_data_bits, Ask
  <2>2. Contract!Arrivals
    <3>1. CASE ctx.retval # "OK"
      BY <1>7, <3>1 DEF mpsse_read_data_bits, Contract!Arrivals
    <3>2. CASE ctx.retval = "OK"
      <4>1. PICK r \in flush_if(short, ctx, mem) : mem' = r.mem
        BY <1>7, <3>2 DEF mpsse_read_data_bits
      <4>2. ~r.aborted /\ short \in BOOLEAN
        BY <3>2, <4>1 DEF flush_if, mpsse_flush, Result
      <4> HIDE DEF short
      <4> QED
        BY <4>1, <4>2, RoomArrivals
    <3> QED
      BY <3>1, <3>2
  <2> QED
    BY <2>1, <2>2 DEF Contract!Next, Contract!Proceed, Contract!Ticks, Ticks, IInv, TypeOK
<1>8. CASE flush
  <2>1. PICK r \in mpsse_flush(ctx, mem) :
       \/ Abort
       \/ /\ ~r.aborted
          /\ ctx' = r.ctx
          /\ mem' = r.mem
          /\ outcome' = IF r.rc = "OK" THEN "ok" ELSE "fail"
          /\ asked' = IF r.rc = "OK" THEN asked ELSE {}
    BY <1>8 DEF flush
  <2>2. CtxInv(ctx) /\ mem \in Memory
    BY DEF IInv, TypeOK, Memory
  <2>3. CASE Abort
    BY <2>3 DEF Abort
  <2>4. CASE ~r.aborted /\ r.rc = "OK" /\ ~Abort
    <3>1. \A d \in Ticks : mem'[d] = IF Queued(ctx, d) THEN d ELSE mem[d]
      BY <2>1, <2>2, <2>4, Flush
    <3>2. outcome' = "ok" /\ asked' = asked
      BY <2>1, <2>4
    <3>3. Contract!Arrivals
      BY <3>1 DEF Contract!Arrivals, Contract!Ticks, Ticks, IInv, AskedAccountedFor
    <3>4. \A d \in asked : mem'[d] = d
      BY <3>2 DEF IInv, FlushOkMeansDelivered
    <3> QED
      BY <3>2, <3>3, <3>4 DEF Contract!Next, Contract!FlushOk
  <2>5. CASE ~r.aborted /\ r.rc # "OK" /\ ~Abort
    BY <2>1, <2>2, <2>5, Flush DEF Contract!Next, Contract!FlushFail
  <2> QED
    BY <2>1, <2>3, <2>4, <2>5
<1>9. CASE purge
  BY <1>9 DEF purge, Contract!Next, Contract!Purge
<1>10. CASE flush_hangs
  BY <1>10 DEF flush_hangs
<1>11. CASE UNCHANGED vars
  BY <1>11 DEF vars
<1> QED
  BY <1>2, <1>3, <1>4, <1>6, <1>7, <1>8, <1>9, <1>10, <1>11 DEF Next

\* The queue keeps the promise of MpsseContract: what arrives was asked for and
\* stands at its place, a successful flush vouches for all of it, and after a
\* failed flush or a purge nothing of what was dropped ever arrives.
THEOREM Refinement == ~NDEBUG => (Spec => KeepsContract)
<1> SUFFICES ASSUME ~NDEBUG PROVE Spec => KeepsContract
  OBVIOUS
<1>1. Init => IInv /\ Silent /\ Contract!Init
  BY InitInv DEF Init, Silent, NoCall, Contract!Init, Contract!Ticks, Contract!NoBit, Ticks, NoBit
<1>2. IInv /\ [Next]_vars => IInv'
  BY NextInv
<1>3. IInv /\ Silent /\ [Next]_vars => Silent'
  BY SilentInv
<1>4. IInv /\ IInv' /\ Silent /\ [Next]_vars => [Contract!Next]_(Contract!contractVars)
  BY StepRefines
<1> QED
  BY <1>1, <1>2, <1>3, <1>4, PTL DEF Spec, KeepsContract, Contract!Spec
=============================================================================
