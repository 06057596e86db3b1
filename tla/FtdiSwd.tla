------------------------------- MODULE FtdiSwd -------------------------------
(***************************************************************************)
(* The SWD transactions of the FTDI driver (ftdi.c:1093-1280): a queue of  *)
(* entries in an array that grows, whose answers the MPSSE driver stores   *)
(* into that array by pointer.  Of the MPSSE driver (mpsse.c:541-969) the  *)
(* model has what of it can be seen here: the pointers, whether commands   *)
(* wait, the result kept for the next flush; its buffers may be full, and  *)
(* be flushed, before any command.  A transaction is named by its number;  *)
(* the number is also the data it reads.                                   *)
(***************************************************************************)
EXTENDS Integers, Sequences

CONSTANTS
  Room,       \* entries of the first array: 10
  MaxAlloc,   \* bound: the array does not grow beyond
  MaxCalls,   \* bound: transactions in a behaviour
  HasLed,     \* does the layout define LED
  NDEBUG      \* are assertions compiled out

\* What the constants are.
SwdAssumption ==
  /\ Room \in Nat \ {0} /\ MaxAlloc \in Nat /\ Room <= MaxAlloc
  /\ MaxCalls \in Nat /\ HasLed \in BOOLEAN /\ NDEBUG \in BOOLEAN

VARIABLES
  s,          \* the state of the two drivers: see State
  calls,      \* history: for each transaction queued, is it a read
  told,       \* history: those up to this one the last run has told about
  retval      \* history: what the last run returned

vars == <<s, calls, told, retval>>

Retval == {"ok", "wait", "fail"}
\* What the target answers: WAIT, FAULT or nothing sensible, wrong parity of a read.
Answers == {"ok", "wait", "fail", "parity"}
Numbers == 1 .. MaxCalls
Received == [id: Numbers \cup {0}, answer: Answers \cup {"none"}]
Pointer == [array: Nat, index: 1 .. MaxAlloc, id: Numbers]

State ==
  [queue: Seq(Numbers),            \* swd_cmd_queue, up to swd_cmd_queue_length
   alloced: 1 .. MaxAlloc,
   array: Nat,                     \* which array it is: realloc makes a new one
   entries: [1 .. MaxAlloc -> Received],
   queued_retval: Retval,
   dst: [Numbers -> Numbers \cup {0}],
   reads: Seq(Pointer), writes: BOOLEAN, mpsse_retval: Retval,
   answered: [Numbers -> Answers \cup {"none"}],    \* external, at the target
   aborted: BOOLEAN]               \* has an assertion failed

Init ==
  /\ s = [queue |-> << >>, alloced |-> Room, array |-> 0,
          entries |-> [n \in 1 .. MaxAlloc |-> [id |-> 0, answer |-> "none"]],
          queued_retval |-> "ok", dst |-> [n \in Numbers |-> 0],
          reads |-> << >>, writes |-> FALSE, mpsse_retval |-> "ok",
          answered |-> [n \in Numbers |-> "none"], aborted |-> FALSE]
  /\ calls = << >> /\ told = 0 /\ retval = "ok"

-----------------------------------------------------------------------------
(* The MPSSE driver, as what its calls can come to                           *)

purged(t) == [t EXCEPT !.reads = << >>, !.writes = FALSE]

\* A flush that succeeds: the target has answered, the answers are where the pointers are.
answers_stored(t, answer) ==
  LET here == {n \in DOMAIN t.reads : t.reads[n].array = t.array}
      into(i) == {n \in here : t.reads[n].index = i}
      last(i) == CHOOSE n \in into(i) : \A m \in into(i) : m <= n
  IN [purged(t) EXCEPT
        !.entries = [i \in 1 .. MaxAlloc |->
                       IF into(i) = {} THEN @[i]
                       ELSE [id |-> t.reads[last(i)].id, answer |-> answer[last(i)]]],
        !.answered = [id \in Numbers |->
                        IF \E n \in DOMAIN t.reads : t.reads[n].id = id
                        THEN answer[CHOOSE n \in DOMAIN t.reads : t.reads[n].id = id] ELSE @[id]]]
delivered(t) == {answers_stored(t, answer) : answer \in [DOMAIN t.reads -> Answers]}

\* What mpsse_flush can come to: the state, and its result.
mpsse_flush(t) ==
  IF t.mpsse_retval # "ok"
  THEN {[state |-> [t EXCEPT !.mpsse_retval = "ok",
                             !.aborted = ~NDEBUG /\ (t.writes \/ t.reads # << >>)],
         rc |-> t.mpsse_retval]}
  ELSE IF ~t.writes THEN {[state |-> t, rc |-> "ok"]}
  ELSE {[state |-> u, rc |-> "ok"] : u \in delivered(t)} \cup {[state |-> purged(t), rc |-> "fail"]}

\* What a command can come to that waits in the buffers with these pointers; buffers
\* that are full are flushed before.
mpsse_command(t, pointers) ==
  LET add(u) == [u EXCEPT !.reads = @ \o pointers, !.writes = TRUE]
  IN IF t.mpsse_retval # "ok" THEN {t}
     ELSE {add(t)} \cup {add([f.state EXCEPT !.mpsse_retval = f.rc]) : f \in mpsse_flush(t)}

then(states, Op(_)) == UNION {Op(t) : t \in states}

-----------------------------------------------------------------------------
(* Running the queue                                                         *)

is_read(id) == calls[id]
is_bad(t, i) == t.entries[i].answer # "ok" /\ (t.entries[i].answer = "parity" => is_read(t.queue[i]))

\* Mutant: what the target answered is the result.
Mutant_raw_answer(answer) == answer
error_of(answer) == IF answer = "wait" THEN "wait" ELSE "fail"

\* Mutant: the data is stored before the parity is looked at.
Mutant_parity_late(t) ==
  LET bad == {i \in DOMAIN t.queue : is_bad(t, i)}
      done == {i \in DOMAIN t.queue : \A j \in bad : i <= j /\ t.entries[i].answer \in {"ok", "parity"}}
  IN [t EXCEPT !.queued_retval = IF bad = {} THEN "ok" ELSE "fail",
        !.dst = [id \in Numbers |->
                   IF \E i \in done : t.queue[i] = id /\ is_read(id)
                   THEN t.entries[CHOOSE i \in done : t.queue[i] = id].id ELSE @[id]]]
\* Mutant: after a transaction that failed, the others are looked at.
Mutant_goes_on(t) ==
  LET bad == {i \in DOMAIN t.queue : is_bad(t, i)}
      done == DOMAIN t.queue \ bad
  IN [t EXCEPT !.queued_retval = IF bad = {} THEN "ok"
                                 ELSE IF \E i \in bad : t.entries[i].answer = "wait" THEN "wait" ELSE "fail",
        !.dst = [id \in Numbers |->
                   IF \E i \in done : t.queue[i] = id /\ is_read(id)
                   THEN t.entries[CHOOSE i \in done : t.queue[i] = id].id ELSE @[id]]]
\* The entries one after the other, up to one that is not as it should be.
looked_at(t) ==
  LET bad == {i \in DOMAIN t.queue : is_bad(t, i)}
      first == CHOOSE i \in bad : \A j \in bad : i <= j
      done == IF bad = {} THEN DOMAIN t.queue ELSE 1 .. first - 1
  IN [t EXCEPT
        !.queued_retval = IF bad = {} THEN "ok"
                          ELSE error_of(t.entries[first].answer),
        !.dst = [id \in Numbers |->
                   IF \E i \in done : t.queue[i] = id /\ is_read(id)
                   THEN t.entries[CHOOSE i \in done : t.queue[i] = id].id ELSE @[id]]]

set_led(t) == IF HasLed THEN mpsse_command(t, << >>) ELSE {t}

\* Mutant: the queue is emptied only when all went well.
Mutant_queue_kept(t) ==
  LET u == [t EXCEPT !.queue = IF t.queued_retval = "ok" THEN << >> ELSE @, !.queued_retval = "ok"]
  IN {[state |-> v, rc |-> t.queued_retval] : v \in IF t.queued_retval = "ok" THEN set_led(u) ELSE {u}}
\* "skip:"
skip(t) ==
  LET u == [t EXCEPT !.queue = << >>, !.queued_retval = "ok"]
  IN {[state |-> v, rc |-> t.queued_retval] : v \in IF t.queued_retval = "ok" THEN set_led(u) ELSE {u}}

\* What ftdi_swd_run_queue can come to.
run_queue(t) ==
  IF t.queued_retval # "ok" THEN skip(t)
  ELSE LET sent == then(mpsse_command(t, << >>), set_led)      \* 8 idle cycles; the LED
           after(f) == IF f.rc = "ok" THEN looked_at(f.state)
                       ELSE [f.state EXCEPT !.queued_retval = f.rc]
       IN UNION {skip(after(f)) : f \in then(sent, mpsse_flush)}

-----------------------------------------------------------------------------
(* Queueing a transaction                                                    *)

\* Mutant: the array grows without the queue having been run.
Mutant_grow_only(t) ==
  IF Len(t.queue) < t.alloced \/ 2 * t.alloced > MaxAlloc THEN {t}
  ELSE {[t EXCEPT !.array = @ + 1, !.alloced = 2 * @]}
\* Room for one more: a full queue is run, and its array is made larger if that can
\* be done.
with_room(t) ==
  IF Len(t.queue) < t.alloced THEN {t}
  ELSE LET ran == {[r.state EXCEPT !.queued_retval = r.rc] : r \in run_queue(t)}
       IN ran \cup {[u EXCEPT !.array = @ + 1, !.alloced = 2 * @] :
                      u \in {u \in ran : 2 * u.alloced <= MaxAlloc}}

\* The commands of a transaction: the request, the answer, and a write's data.
transacted(t, id, read) ==
  LET u == [t EXCEPT !.queue = Append(@, id)]
      pointer == [array |-> u.array, index |-> Len(u.queue), id |-> id]
      out(v) == mpsse_command(v, << >>)
      in(v) == mpsse_command(v, <<pointer>>)
      request == then(out(u), in)
  IN IF read THEN request ELSE then(request, out)

ftdi_swd_queue_cmd(read) ==
  /\ ~s.aborted /\ Len(calls) < MaxCalls
  /\ calls' = Append(calls, read)
  /\ s' \in UNION {IF t.queued_retval # "ok" THEN {t} ELSE transacted(t, Len(calls) + 1, read) :
                     t \in with_room(s)}
  /\ UNCHANGED <<told, retval>>

ftdi_swd_run_queue ==
  /\ ~s.aborted
  /\ \E r \in run_queue(s) : s' = r.state /\ retval' = r.rc
  /\ told' = Len(calls)
  /\ UNCHANGED calls

ftdi_swd_switch_seq ==
  /\ ~s.aborted
  /\ s' \in mpsse_command(s, << >>)
  /\ UNCHANGED <<calls, told, retval>>

Next == \/ \E read \in BOOLEAN : ftdi_swd_queue_cmd(read)
        \/ ftdi_swd_run_queue \/ ftdi_swd_switch_seq
Spec == Init /\ [][Next]_vars

-----------------------------------------------------------------------------
(* Properties                                                                *)

TypeOK == /\ s \in State /\ calls \in Seq(BOOLEAN) /\ Len(calls) <= MaxCalls
          /\ told \in 0 .. Len(calls) /\ retval \in Retval

\* The MPSSE driver's pointers are into the array there is, into entries in use: never
\* into one that realloc has freed, nor behind the queue (ftdi.c:1188-1199).
PointersAlive ==
  ~s.aborted => \A n \in DOMAIN s.reads :
    /\ s.reads[n].array = s.array
    /\ s.reads[n].index \in DOMAIN s.queue /\ s.queue[s.reads[n].index] = s.reads[n].id

\* A destination has its own transaction's data, only if that was answered with OK and
\* the right parity, or nothing: never what an entry had from another transaction or
\* from before (ftdi.c:1144-1172).
DataIsOwn ==
  \A id \in Numbers : s.dst[id] # 0 =>
    s.dst[id] = id /\ id <= Len(calls) /\ calls[id] /\ s.answered[id] = "ok"

\* While an error is kept to be told by the next run, nothing is queued that this run
\* would drop silently (ftdi.c:1125-1128, 1201-1202).
ErrorStopsQueue == ~s.aborted /\ s.queued_retval # "ok" => s.queue = << >> /\ s.reads = << >>

good(id) == /\ s.answered[id] = "ok" \/ (s.answered[id] = "parity" /\ ~calls[id])
            /\ calls[id] => s.dst[id] = id

\* A run answers for every transaction since the run before it, those included that a
\* full queue ran on the way: OK means all were done and their data stored, WAIT that
\* all before the one that has to wait were (ftdi.c:1119-1184, 1186-1202).
RunTells ==
  told' # told /\ ~s'.aborted =>
    /\ retval' = "ok" => \A id \in told + 1 .. told' : good(id)'
    /\ retval' = "wait" =>
         \E id \in told + 1 .. told' :
           /\ s'.answered[id] = "wait"
           /\ \A before \in told + 1 .. id - 1 : good(before)'
=============================================================================
