------------------------------ MODULE MpsseQueue ------------------------------
(***************************************************************************)
(* The command queue of the MPSSE driver (openocd/.../mpsse.c): what the   *)
(* mpsse_clock_*, mpsse_set_* and mpsse_read_* calls put in the write      *)
(* buffer and in the read queue, and what mpsse_flush makes of them.       *)
(*                                                                         *)
(* A call of mpsse_clock_data or mpsse_clock_tms_cs is a loop: each turn   *)
(* of it is a step here, because a turn may run mpsse_flush and mpsse_flush*)
(* may fail half way through the call.  The USB transfer inside mpsse_flush*)
(* is one step with two outcomes; MpsseTransfer opens that step.           *)
(*                                                                         *)
(* Data: every clock cycle that is asked for has a number, its tick.  The  *)
(* bit the chip samples at tick t is represented by t itself, and the      *)
(* caller wants it at position t of its memory.  So a bit that lands in    *)
(* the wrong place, or that is the padding of a response byte, shows.      *)
(***************************************************************************)
EXTENDS Integers, Sequences

CONSTANTS
  WriteSize,    \* write_size: bytes of the write buffer (16384 in mpsse_open)
  ReadSize,     \* read_size: bytes of the read buffer (16384 in mpsse_open)
  MaxCmdBytes,  \* bytes one clock-data command can carry (65536)
  UintMod,      \* an unsigned int is a number below UintMod (2^32)
  NDEBUG,       \* is assert() compiled out?  FALSE in the default build
  Lengths,      \* bound: the lengths, in bits, that callers ask for
  MaxTicks      \* bound: clock cycles in one behaviour

ASSUME BufferAssumption ==
  /\ WriteSize \in Nat /\ WriteSize >= 5
  /\ ReadSize \in Nat /\ ReadSize >= 1
  /\ MaxCmdBytes \in Nat /\ MaxCmdBytes >= 1
  /\ UintMod \in Nat /\ UintMod > WriteSize + ReadSize + MaxCmdBytes + 3
ASSUME CallerAssumption ==
  /\ MaxTicks \in Nat
  /\ Lengths \subseteq Nat
  /\ NDEBUG \in BOOLEAN

NoBit == -1                   \* no sampled bit: never written, or padding
Ticks == 0 .. MaxTicks - 1
Bits  == Ticks \cup {NoBit}

VARIABLES
  ctx,      \* struct mpsse_ctx, the part the queue uses (see Ctx)
  call,     \* the clock call whose loop is running; length = 0: none is
  mem,      \* the caller's memory: mem[t] is what stands at position t
  tick,     \* clock cycles asked for so far
  asked,    \* ticks asked to be read since the last failure told or purge
  outcome,  \* what the call that just returned was: a flush, "ok" or "fail"
  status    \* "aborted" once an assertion has failed, "hung" in a flush that never returns

vars == <<ctx, call, mem, tick, asked, outcome, status>>

(***************************************************************************)
(* struct mpsse_ctx.  answer is not a field of it: it is what the chip     *)
(* will return for the commands that stand in the write buffer, eight bits *)
(* to a response byte.                                                     *)
(***************************************************************************)
Entry == [dst_offset: Nat, src: Nat, src_offset: 0 .. 7, bit_count: Nat \ {0}]
Ctx == [retval: {"OK", "FAIL"}, write_count: Nat, read_count: Nat,
        read_queue: Seq(Entry), answer: Seq(Bits)]
Call == [fn: {"none", "data", "tms"}, out: BOOLEAN, in: BOOLEAN,
         out_offset: Nat, in_offset: Nat, length: Nat]

NoCall == [fn |-> "none", out |-> FALSE, in |-> FALSE,
           out_offset |-> 0, in_offset |-> 0, length |-> 0]

-----------------------------------------------------------------------------
(* Unsigned arithmetic, and the buffers                                      *)

Lesser(a, b) == IF a < b THEN a ELSE b
DIV_ROUND_UP(m, n) == (m + n - 1) \div n
Unsigned(x) == IF x < 0 THEN x + UintMod
               ELSE IF x >= UintMod THEN x - UintMod ELSE x

\* Mutant: the byte for SEND_IMMEDIATE is not kept.
Mutant_no_reserve(c) == Unsigned(WriteSize - c.write_count)
\* One byte of the write buffer is kept for SEND_IMMEDIATE.
buffer_write_space(c) == Unsigned(WriteSize - c.write_count - 1)
buffer_read_space(c)  == Unsigned(ReadSize - c.read_count)

buffer_write(c, bytes) == [c EXCEPT !.write_count = @ + bytes]

\* Mutant: the entry is given the position after its own bytes.
Mutant_late_entry(c, in_offset, bit_count, offset) ==
  [c EXCEPT
     !.read_queue = Append(@, [dst_offset |-> in_offset,
                               src |-> c.read_count + DIV_ROUND_UP(bit_count, 8),
                               src_offset |-> offset, bit_count |-> bit_count]),
     !.read_count = @ + DIV_ROUND_UP(bit_count, 8)]
buffer_add_read(c, in_offset, bit_count, offset) ==
  [c EXCEPT
     !.read_queue = Append(@, [dst_offset |-> in_offset, src |-> c.read_count,
                               src_offset |-> offset, bit_count |-> bit_count]),
     !.read_count = @ + DIV_ROUND_UP(bit_count, 8)]

\* External: the chip shifts the bits it samples into response bytes from the
\* top, so a byte of fewer than eight bits has its padding below them.
chip_answers(c, first, bit_count) ==
  LET pad == 8 * DIV_ROUND_UP(bit_count, 8) - bit_count
  IN [c EXCEPT !.answer = @ \o [i \in 1 .. pad + bit_count |->
                                  IF i <= pad THEN NoBit ELSE first + i - pad - 1]]

\* A position of the caller's memory that entry e of the read queue fills, and
\* the response bit it is filled from.
Fills(e, d)  == d \in e.dst_offset .. e.dst_offset + e.bit_count - 1
BitFor(e, d) == 8 * e.src + e.src_offset + (d - e.dst_offset) + 1

bit_copy_execute(c, m) ==
  [d \in Ticks |->
     LET filling == {i \in DOMAIN c.read_queue : Fills(c.read_queue[i], d)}
     IN IF filling = {} THEN m[d]
        ELSE c.answer[BitFor(c.read_queue[CHOOSE i \in filling : TRUE], d)]]

-----------------------------------------------------------------------------
(* Purge and flush, as functions of the context and the caller's memory      *)

Drained(c) == [c EXCEPT !.write_count = 0, !.read_count = 0,
                        !.read_queue = << >>, !.answer = << >>]

\* Mutants: the purge forgets read_count; the purge forgets bit_copy_discard.
Mutant_purge_keeps_reads(c) == [Drained(c) EXCEPT !.retval = "OK", !.read_count = c.read_count]
Mutant_purge_keeps_queue(c) == [Drained(c) EXCEPT !.retval = "OK", !.read_queue = c.read_queue]
mpsse_purge(c) == [Drained(c) EXCEPT !.retval = "OK"]

Result(c, m, rc) == [ctx |-> c, mem |-> m, rc |-> rc, aborted |-> FALSE]

\* mpsse_flush when an earlier command has failed.
flush_after_error(c, m) ==
  [Result([c EXCEPT !.retval = "OK"], m, c.retval) EXCEPT
     !.aborted = ~NDEBUG /\ (c.write_count # 0 \/ c.read_count # 0)]

\* Mutant: read_count is cleared before it decides about bit_copy_execute.
Mutant_flush_discards(c, m) ==
  IF c.retval # "OK" THEN {flush_after_error(c, m)}
  ELSE IF c.write_count = 0 THEN {Result(c, m, "OK")}
  ELSE {Result(Drained(c), m, "OK"), Result(mpsse_purge(c), m, "FAIL")}

\* What mpsse_flush can come to.
mpsse_flush(c, m) ==
  IF c.retval # "OK" THEN {flush_after_error(c, m)}
  ELSE IF c.write_count = 0 THEN {Result(c, m, "OK")}
  ELSE {Result(Drained(c), IF c.read_count > 0 THEN bit_copy_execute(c, m) ELSE m, "OK"),
        Result(mpsse_purge(c), m, "FAIL")}

\* Mutant: the result of the flush is dropped.
Mutant_flush_ignored(short, c, m) ==
  IF short THEN mpsse_flush(c, m) ELSE {Result(c, m, "OK")}

\* "if (too little space) ctx->retval = mpsse_flush(ctx);"
flush_if(short, c, m) ==
  IF short THEN {[r EXCEPT !.ctx.retval = r.rc] : r \in mpsse_flush(c, m)}
  ELSE {Result(c, m, "OK")}

-----------------------------------------------------------------------------
(* The clock calls                                                           *)

\* mpsse_clock_data sends a data byte per response byte unless it only reads.
carries_data(k) == k.out \/ ~k.in

\* Mutant: only the write buffer is looked at.
Mutant_write_space_only(c, k) ==
  Unsigned(buffer_write_space(c) + (IF k.length < 8 THEN 1 ELSE 0))
    < (IF carries_data(k) THEN 4 ELSE 3)

\* Is there too little space for the smallest piece of this call?
data_short(c, k) ==
  \/ Unsigned(buffer_write_space(c) + (IF k.length < 8 THEN 1 ELSE 0))
       < (IF carries_data(k) THEN 4 ELSE 3)
  \/ k.in /\ buffer_read_space(c) < 1
tms_short(c, k) ==
  \/ buffer_write_space(c) < 3
  \/ k.in /\ buffer_read_space(c) < 1

\* How many bytes the next byte-mode command takes.
data_bytes(c, k) ==
  LET limit == Lesser(k.length \div 8, MaxCmdBytes)
      fit   == IF carries_data(k) /\ limit + 3 > buffer_write_space(c)
               THEN Unsigned(buffer_write_space(c) - 3) ELSE limit
  IN IF k.in THEN Lesser(fit, buffer_read_space(c)) ELSE fit

\* Mutant: always seven bits.
Mutant_seven_bits(k) == 7

\* A TMS command clocks at most seven bits.
tms_bits(k) == Lesser(k.length, 7)

\* A command of that many bytes, clocking the next bits of call k.
queue_clocks(c, k, bytes, bits, offset) ==
  LET w == buffer_write(c, bytes)
  IN IF k.in
     THEN buffer_add_read(chip_answers(w, tick - k.length, bits),
                          k.in_offset, bits, offset)
     ELSE w

\* Mutant: in_offset stays where it is when the call also drives bits.
Mutant_in_offset_stays(k, bits) ==
  IF bits = k.length THEN NoCall
  ELSE [k EXCEPT !.length = @ - bits,
                 !.out_offset = IF k.out THEN @ + bits ELSE @,
                 !.in_offset = IF k.in /\ ~k.out THEN @ + bits ELSE @]

\* What is left of call k after the next bits of it.
rest_of(k, bits) ==
  IF bits = k.length THEN NoCall
  ELSE [k EXCEPT !.length = @ - bits,
                 !.out_offset = IF k.out THEN @ + bits ELSE @,
                 !.in_offset = IF k.in THEN @ + bits ELSE @]

Running == status = "running"
Idle == Running /\ call.length = 0

\* An assertion fails: the process is gone.
Abort == /\ status' = "aborted"
         /\ UNCHANGED <<ctx, call, mem, tick, asked, outcome>>

\* A turn of a clock loop that clocks bits of the call with a command of bytes.
Turn(r, bytes, bits, offset) ==
  /\ ctx' = queue_clocks(r.ctx, call, bytes, bits, offset)
  /\ mem' = r.mem
  /\ call' = rest_of(call, bits)
  /\ UNCHANGED <<tick, asked, outcome, status>>

data_turn ==
  /\ Running /\ call.fn = "data" /\ call.length > 0
  /\ \E r \in flush_if(data_short(ctx, call), ctx, mem) :
       \/ r.aborted /\ Abort
       \/ /\ ~r.aborted /\ call.length < 8
          /\ Turn(r, IF carries_data(call) THEN 3 ELSE 2, call.length, 8 - call.length)
       \/ /\ ~r.aborted /\ call.length >= 8
          /\ LET this_bytes == data_bytes(r.ctx, call)
             IN IF this_bytes > 0
                THEN Turn(r, 3 + (IF carries_data(call) THEN this_bytes ELSE 0),
                          8 * this_bytes, 0)
                ELSE ctx' = r.ctx /\ mem' = r.mem
                     /\ UNCHANGED <<call, tick, asked, outcome, status>>

tms_turn ==
  /\ Running /\ call.fn = "tms" /\ call.length > 0
  /\ \E r \in flush_if(tms_short(ctx, call), ctx, mem) :
       \/ r.aborted /\ Abort
       \/ ~r.aborted /\ Turn(r, 3, tms_bits(call), 8 - tms_bits(call))

\* The caller hands over the next n ticks, to be read or not.
Ask(n, in) ==
  /\ tick + n <= MaxTicks
  /\ tick' = tick + n
  /\ asked' = IF in THEN asked \cup (tick .. tick + n - 1) ELSE asked
  /\ outcome' = "none"

start(fn, out, in, n) ==
  /\ Idle /\ n > 0
  /\ Ask(n, in)
  /\ call' = IF ctx.retval # "OK" THEN call
             ELSE [fn |-> fn, out |-> out, in |-> in, length |-> n,
                   out_offset |-> IF out THEN tick ELSE 0,
                   in_offset |-> IF in THEN tick ELSE 0]
  /\ UNCHANGED <<ctx, mem, status>>

mpsse_clock_data(out, in, n) == start("data", out, in, n)
mpsse_clock_tms_cs(in, n) == start("tms", TRUE, in, n)

-----------------------------------------------------------------------------
(* The other commands, and the calls that empty the queue                    *)

\* A command of that many bytes that nothing is read back from.
write_command(bytes) ==
  /\ Idle /\ ctx.retval = "OK"
  /\ \E r \in flush_if(buffer_write_space(ctx) < bytes, ctx, mem) :
       /\ ctx' = buffer_write(r.ctx, bytes)
       /\ mem' = r.mem
  /\ outcome' = "none"
  /\ UNCHANGED <<call, tick, asked, status>>

mpsse_set_data_bits == write_command(3)
mpsse_set_divisor == write_command(3)
single_byte_boolean_helper == write_command(1)

\* The eight pins read stand for eight ticks.
mpsse_read_data_bits ==
  /\ Idle
  /\ Ask(8, TRUE)
  /\ IF ctx.retval # "OK" THEN UNCHANGED <<ctx, mem>>
     ELSE \E r \in flush_if(buffer_write_space(ctx) < 1 \/ buffer_read_space(ctx) < 1, ctx, mem) :
            /\ ctx' = buffer_add_read(chip_answers(buffer_write(r.ctx, 1), tick, 8), tick, 8, 0)
            /\ mem' = r.mem
  /\ UNCHANGED <<call, status>>

flush ==
  /\ Idle
  /\ \E r \in mpsse_flush(ctx, mem) :
       \/ r.aborted /\ Abort
       \/ /\ ~r.aborted
          /\ ctx' = r.ctx
          /\ mem' = r.mem
          /\ outcome' = IF r.rc = "OK" THEN "ok" ELSE "fail"
          /\ asked' = IF r.rc = "OK" THEN asked ELSE {}
          /\ UNCHANGED <<call, tick, status>>

\* The polling loop of mpsse_flush need not end (912-933), whether the caller flushes or a
\* clock call does it for room; MpsseTransfer says when.
flush_hangs ==
  /\ Running /\ ctx.retval = "OK" /\ ctx.write_count > 0
  /\ call.fn = "data" => data_short(ctx, call)
  /\ call.fn = "tms" => tms_short(ctx, call)
  /\ status' = "hung"
  /\ UNCHANGED <<ctx, call, mem, tick, asked, outcome>>

purge ==
  /\ Idle
  /\ ctx' = mpsse_purge(ctx)
  /\ asked' = {}
  /\ outcome' = "none"
  /\ UNCHANGED <<call, mem, tick, status>>

Init ==
  /\ ctx = [retval |-> "OK", write_count |-> 0, read_count |-> 0,
            read_queue |-> << >>, answer |-> << >>]
  /\ call = NoCall
  /\ mem = [d \in Ticks |-> NoBit]
  /\ tick = 0
  /\ asked = {}
  /\ outcome = "none"
  /\ status = "running"

clock_data == \E n \in Lengths, out, in \in BOOLEAN : mpsse_clock_data(out, in, n)
clock_tms_cs == \E n \in Lengths, in \in BOOLEAN : mpsse_clock_tms_cs(in, n)

Next == \/ clock_data \/ data_turn
        \/ clock_tms_cs \/ tms_turn
        \/ mpsse_set_data_bits \/ mpsse_set_divisor
        \/ single_byte_boolean_helper \/ mpsse_read_data_bits
        \/ flush \/ flush_hangs \/ purge

\* The thread that runs a clock loop goes on running it.
Fairness == WF_vars(data_turn) /\ WF_vars(tms_turn)

Spec == Init /\ [][Next]_vars
FairSpec == Spec /\ Fairness

-----------------------------------------------------------------------------
(* Properties                                                                *)

\* Every variable is of its type.
TypeOK ==
  /\ ctx \in Ctx
  /\ call \in Call
  /\ mem \in [Ticks -> Bits]
  /\ tick \in 0 .. MaxTicks
  /\ asked \subseteq Ticks
  /\ outcome \in {"none", "ok", "fail"}
  /\ status \in {"running", "aborted", "hung"}

\* The buffers never overflow, whatever is queued: the write buffer keeps the
\* byte that mpsse_flush adds for SEND_IMMEDIATE (mpsse.c:468, and the
\* assertions at 479, 487 and 497), so the unsigned subtractions never wrap.
FitsBuffers(c) == c.write_count <= WriteSize - 1 /\ c.read_count <= ReadSize
BuffersHold == FitsBuffers(ctx)

\* There is nothing to read back unless there is something to send: the
\* assertion at mpsse.c:879, without which the read would wait for ever.
HasCommandsForReads(c) ==
  /\ c.write_count = 0 => c.read_count = 0
  /\ c.read_count = 0 => c.read_queue = << >>
ReadsHaveCommands == HasCommandsForReads(ctx)

\* The response bytes that the queued commands will produce are exactly the
\* read_count bytes mpsse_flush waits for, and every entry of the read queue
\* picks out of them the bits sampled at its own ticks (the offsets 8 - length
\* and 8 - this_bits of mpsse.c:546 and 638, and the position buffer_add_read
\* gives the entry at 498).
PicksItsBits(e, answer) ==
  /\ 8 * e.src + e.src_offset + e.bit_count <= Len(answer)
  /\ \A d \in e.dst_offset .. e.dst_offset + e.bit_count - 1 :
       d \in Ticks /\ answer[BitFor(e, d)] = d
AnswersMatch(c) ==
  /\ Len(c.answer) = 8 * c.read_count
  /\ \A i \in DOMAIN c.read_queue : PicksItsBits(c.read_queue[i], c.answer)
EntriesPickTheirBits == AnswersMatch(ctx)

\* While a clock call runs, the next bit it drives and the next bit it captures
\* are those of the same clock, whatever pieces the call was cut into
\* (out_offset and in_offset, mpsse.c:544-546, 568-577 and 631-638).
OffsetsInStep ==
  /\ call.out => call.out_offset = tick - call.length
  /\ call.in => call.in_offset = tick - call.length

\* No bit is forgotten, and none outlives its request: a bit that was asked for
\* and has not failed or been purged stands in the caller's memory, in the read
\* queue or in the rest of the running call, or the context remembers an error
\* that the next flush will tell (ctx->retval, mpsse.c:537, 611, 688 and 704);
\* and only such bits are in the queue (bit_copy_discard at 449).
Queued(c, d) == \E i \in DOMAIN c.read_queue : Fills(c.read_queue[i], d)
InRest(d) == call.in /\ d \in tick - call.length .. tick - 1
AskedAccountedFor ==
  /\ \A d \in asked : \/ mem[d] = d \/ Queued(ctx, d)
                        \/ InRest(d) \/ ctx.retval # "OK"
  /\ \A d \in Ticks : Queued(ctx, d) \/ InRest(d) => d \in asked

\* When mpsse_flush returns ERROR_OK every bit that was asked for stands at
\* its place in the caller's memory: "Read data is guaranteed to be available
\* only after the following mpsse_flush()" (mpsse.h:48).
FlushOkMeansDelivered == outcome = "ok" => \A d \in asked : mem[d] = d

\* What the driver promises its callers, without buffers or a queue.
Contract == INSTANCE MpsseContract
KeepsContract == Contract!Spec

\* A clock call comes to its end, unless an assertion stops it or a flush inside of it
\* never returns: no turn of its loop leaves it where it was (the "if (this_bytes > 0)"
\* of mpsse.c:563).
CallsReturn == call.length > 0 ~> call.length = 0 \/ ~Running

\* "Ignoring flush due to previous error" asserts that nothing is queued then
\* (mpsse.c:871-872).
NeverAborts == status # "aborted"
=============================================================================
