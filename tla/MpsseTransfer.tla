---------------------------- MODULE MpsseTransfer ----------------------------
(***************************************************************************)
(* The inside of mpsse_flush (mpsse.c:866-969): the write transfer and the *)
(* read transfer, the callbacks that resubmit them, the polling loop, what *)
(* is freed at its end, and the purge after a failure; together with the   *)
(* chip at the other end of the USB cable.                                 *)
(*                                                                         *)
(* MpsseQueue takes a flush as one step that either returns the answers of *)
(* the batch or fails and leaves the chip empty.  This module shows when   *)
(* the code makes it so, and when not.                                     *)
(*                                                                         *)
(* Data: a batch is what one flush sends.  A command is known by its batch *)
(* and its place in it; the first rlen commands of a batch are answered,   *)
(* and the answer to a command is the command itself.  A command is taken  *)
(* whole by the chip.  The two status bytes of every USB packet (mpsse.c:  *)
(* 816-835) are left out.                                                  *)
(***************************************************************************)
EXTENDS Integers, Sequences

CONSTANTS
  MaxWrite,    \* bound: commands in a batch, SEND_IMMEDIATE among them
  ChunkSize,   \* read_chunk_size: answers one read transfer can carry
  MaxBatches   \* bound: flushes in one behaviour

ASSUME TransferAssumption == /\ MaxWrite \in Nat \ {0}
                             /\ ChunkSize \in Nat \ {0}
                             /\ MaxBatches \in Nat

VARIABLES
  pc,           \* where mpsse_flush or mpsse_purge is
  batch,        \* number of the current or last batch
  wlen, rlen,   \* ctx->write_count and ctx->read_count of that batch
  rv,           \* retval, what the last libusb call returned
  w,            \* write_transfer and write_result
  r,            \* read_transfer and read_result
  read_buffer,  \* ctx->read_buffer, as far as it is filled
  result,       \* what the last flush returned
  rx, tx,       \* external: commands and answers the chip holds
  taken,        \* external, history: commands of the batch the chip has taken
  alive,        \* external: is the device still plugged in
  dirty         \* history: has the last purge failed

usbVars  == <<w, r, read_buffer>>
chipVars == <<rx, tx, taken, alive>>
vars == <<pc, batch, wlen, rlen, rv, w, r, read_buffer, result, rx, tx, taken, alive, dirty>>

(* pc: idle; submit_read (903-908); events, the polling loop (912-921);      *)
(* drain, the loop after a cancel (927-932); check (936); purge_rx, purge_tx *)
(* (450-462); undefined, once a transfer in flight has been freed.           *)
Places == {"idle", "submit_read", "events", "drain", "check",
           "purge_rx", "purge_tx", "undefined"}
Codes == {"SUCCESS", "SUBMIT_WRITE", "SUBMIT_READ", "NO_DEVICE", "INTERRUPTED", "OTHER"}

Commands == [batch: 1 .. MaxBatches, place: 1 .. MaxWrite, reads: BOOLEAN]
Command(i) == [batch |-> batch, place |-> i, reads |-> i <= rlen]

\* from and length are transfer->buffer and transfer->length, moved the bytes
\* the device has taken of this submission (transfer->actual_length).
WriteTransfer == [inflight: BOOLEAN, done: BOOLEAN, from: Nat, length: Nat,
                  moved: Nat, transferred: Nat]
\* again is the parity of its submissions: one more is a step also when nothing came in.
ReadTransfer == [inflight: BOOLEAN, done: BOOLEAN, transferred: Nat, again: {0, 1}]

NoWrite == [inflight |-> FALSE, done |-> FALSE, from |-> 0, length |-> 0,
            moved |-> 0, transferred |-> 0]
NoRead(done) == [inflight |-> FALSE, done |-> done, transferred |-> 0, again |-> 0]

Lesser(a, b) == IF a < b THEN a ELSE b
BothDone == w.done /\ r.done
InLoop == pc \in {"events", "drain"}

Init ==
  /\ pc = "idle" /\ batch = 0 /\ wlen = 0 /\ rlen = 0 /\ rv = "SUCCESS"
  /\ w = NoWrite /\ r = NoRead(TRUE)
  /\ read_buffer = << >> /\ result = "none"
  /\ rx = << >> /\ tx = << >> /\ taken = << >> /\ alive = TRUE
  /\ dirty = FALSE

-----------------------------------------------------------------------------
(* The start of mpsse_flush, with something to send: 884-909                 *)

flush(wl, rl) ==
  /\ pc = "idle" /\ batch < MaxBatches
  /\ batch' = batch + 1
  /\ wlen' = wl /\ rlen' = rl
  /\ read_buffer' = << >> /\ taken' = << >>
  /\ r' = NoRead(rl = 0)
  /\ \/ /\ alive
        /\ w' = [NoWrite EXCEPT !.inflight = TRUE, !.length = wl]
        /\ rv' = "SUCCESS"
        /\ pc' = IF rl > 0 THEN "submit_read" ELSE "events"
     \/ /\ w' = NoWrite
        /\ rv' = "SUBMIT_WRITE"
        /\ pc' = "check"
  /\ result' = "none"
  /\ UNCHANGED <<rx, tx, alive, dirty>>

submit_read ==
  /\ pc = "submit_read"
  /\ \/ alive /\ r' = [r EXCEPT !.inflight = TRUE] /\ rv' = "SUCCESS" /\ pc' = "events"
     \/ rv' = "SUBMIT_READ" /\ pc' = "check" /\ UNCHANGED r
  /\ UNCHANGED <<batch, wlen, rlen, w, read_buffer, result, dirty, chipVars>>

-----------------------------------------------------------------------------
(* The callbacks.  They run inside libusb_handle_events, whatever made the   *)
(* transfer end: all of it moved, its timeout, a cancel, the device gone.    *)

\* Mutants: transfer->buffer, or transfer->length, is left as it was.
Mutant_sent_again(t) ==
  [w EXCEPT !.transferred = t, !.length = wlen - t, !.moved = 0]
Mutant_sent_too_far(t) ==
  [w EXCEPT !.transferred = t, !.from = t, !.moved = 0]

\* What write_cb leaves when libusb_submit_transfer succeeds.
write_resubmitted(t) ==
  [w EXCEPT !.transferred = t, !.from = t, !.length = wlen - t, !.moved = 0]

\* Mutant: a write that cannot be submitted again is not done.
Mutant_never_done ==
  /\ InLoop /\ w.inflight
  /\ LET t == w.transferred + w.moved
     IN \/ w' = [w EXCEPT !.transferred = t, !.inflight = FALSE, !.done = (t = wlen), !.moved = 0]
        \/ alive /\ t # wlen /\ w' = write_resubmitted(t)
  /\ UNCHANGED <<pc, batch, wlen, rlen, rv, r, read_buffer, result, dirty, chipVars>>

write_cb ==
  /\ InLoop /\ w.inflight
  /\ LET t == w.transferred + w.moved
         stop == [w EXCEPT !.transferred = t, !.inflight = FALSE, !.done = TRUE, !.moved = 0]
     IN IF t = wlen THEN w' = stop
        ELSE \/ w' = stop
             \/ alive /\ w' = write_resubmitted(t)
  /\ UNCHANGED <<pc, batch, wlen, rlen, rv, r, read_buffer, result, dirty, chipVars>>

\* How many of the answers that came in are copied to the read buffer.
copied(n) == Lesser(n, rlen - r.transferred)

read_cb ==
  /\ InLoop /\ r.inflight
  /\ LET n == Lesser(Len(tx), ChunkSize)
         t == r.transferred + copied(n)
         stop == [r EXCEPT !.transferred = t, !.inflight = FALSE, !.done = TRUE, !.again = 0]
     IN /\ read_buffer' = read_buffer \o SubSeq(tx, 1, copied(n))
        /\ tx' = SubSeq(tx, n + 1, Len(tx))
        /\ IF t = rlen THEN r' = stop
           ELSE \/ r' = stop
                \/ alive /\ r' = [r EXCEPT !.transferred = t, !.again = 1 - @]
  /\ UNCHANGED <<pc, batch, wlen, rlen, rv, w, result, rx, taken, alive, dirty>>

-----------------------------------------------------------------------------
(* libusb_handle_events_timeout_completed returns: 918-933                   *)

\* Mutant: every error leaves the polling loop at once.
Mutant_no_drain(code) ==
  /\ pc = "events"
  /\ rv' = code
  /\ pc' = IF BothDone \/ code # "SUCCESS" THEN "check" ELSE "events"

\* In the polling loop.  Cancelling changes nothing here: a transfer may end
\* early in any case, and its callback submits it again.
events_return(code) ==
  /\ pc = "events"
  /\ rv' = code
  /\ pc' = IF BothDone \/ code \in {"NO_DEVICE", "INTERRUPTED"} THEN "check"
           ELSE IF code = "SUCCESS" THEN "events" ELSE "drain"

drain_return(code) ==
  /\ pc = "drain"
  /\ rv' = code
  /\ pc' = IF BothDone THEN "check"
           ELSE IF code = "SUCCESS" THEN "drain" ELSE "events"

handle_events_return ==
  /\ \E code \in {"SUCCESS", "NO_DEVICE", "INTERRUPTED", "OTHER"} :
       /\ code = "NO_DEVICE" => ~alive
       /\ events_return(code) \/ drain_return(code)
  /\ UNCHANGED <<batch, wlen, rlen, result, dirty, usbVars, chipVars>>

-----------------------------------------------------------------------------
(* error_check, and the two halves of mpsse_purge                            *)

complete == rv = "SUCCESS" /\ w.transferred >= wlen /\ r.transferred >= rlen

error_check ==
  /\ pc = "check"
  /\ result' = IF complete THEN "ok" ELSE "fail"
  /\ pc' = IF w.inflight \/ r.inflight THEN "undefined"
           ELSE IF complete THEN "idle" ELSE "purge_rx"
  /\ UNCHANGED <<batch, wlen, rlen, rv, dirty, usbVars, chipVars>>

\* mpsse_purge called by the user of the driver.
purge ==
  /\ pc = "idle"
  /\ pc' = "purge_rx"
  /\ result' = "none"
  /\ UNCHANGED <<batch, wlen, rlen, rv, dirty, usbVars, chipVars>>

\* Mutants: one of the two control transfers is missing.
Mutant_no_purge_rx ==
  /\ pc = "purge_rx" /\ pc' = "purge_tx"
  /\ UNCHANGED <<batch, wlen, rlen, rv, result, dirty, chipVars, usbVars>>
Mutant_no_purge_tx ==
  /\ pc = "purge_tx" /\ pc' = "idle" /\ dirty' = FALSE
  /\ UNCHANGED <<batch, wlen, rlen, rv, result, chipVars, usbVars>>

\* SIO_RESET_PURGE_RX empties what the chip has received.
purge_rx ==
  /\ pc = "purge_rx"
  /\ \/ alive /\ rx' = << >> /\ pc' = "purge_tx" /\ UNCHANGED dirty
     \/ pc' = "idle" /\ dirty' = TRUE /\ UNCHANGED rx
  /\ UNCHANGED <<batch, wlen, rlen, rv, result, tx, taken, alive, usbVars>>

\* SIO_RESET_PURGE_TX empties what the chip has to transmit.
purge_tx ==
  /\ pc = "purge_tx"
  /\ \/ alive /\ tx' = << >> /\ dirty' = FALSE
     \/ dirty' = TRUE /\ UNCHANGED tx
  /\ pc' = "idle"
  /\ UNCHANGED <<batch, wlen, rlen, rv, result, rx, taken, alive, usbVars>>

-----------------------------------------------------------------------------
(* External: the chip                                                        *)

\* It takes the next command of the write transfer.
chip_takes ==
  /\ alive /\ w.inflight /\ w.moved < w.length /\ pc # "undefined"
  /\ LET c == Command(w.from + w.moved + 1)
     IN rx' = Append(rx, c) /\ taken' = Append(taken, c)
  /\ w' = [w EXCEPT !.moved = @ + 1]
  /\ UNCHANGED <<pc, batch, wlen, rlen, rv, r, read_buffer, result, tx, alive, dirty>>

\* It executes a command.
chip_executes ==
  /\ alive /\ rx # << >>
  /\ rx' = Tail(rx)
  /\ tx' = IF Head(rx).reads THEN Append(tx, Head(rx)) ELSE tx
  /\ UNCHANGED <<pc, batch, wlen, rlen, rv, w, r, read_buffer, result, taken, alive, dirty>>

\* The cable is pulled.
unplug ==
  /\ alive /\ alive' = FALSE
  /\ rx' = << >> /\ tx' = << >>
  /\ UNCHANGED <<pc, batch, wlen, rlen, rv, w, r, read_buffer, result, taken, dirty>>

-----------------------------------------------------------------------------
\* SEND_IMMEDIATE follows the commands that are answered.
start_flush == \E wl \in 1 .. MaxWrite, rl \in 0 .. MaxWrite - 1 :
                 (rl = 0 \/ rl < wl) /\ flush(wl, rl)

Next == \/ start_flush \/ submit_read
        \/ write_cb \/ read_cb \/ handle_events_return
        \/ error_check \/ purge \/ purge_rx \/ purge_tx
        \/ chip_takes \/ chip_executes \/ unplug

Spec == Init /\ [][Next]_vars

\* The thread in mpsse_flush goes on; libusb ends every submitted transfer, by
\* its timeout if nothing else (mpsse.c:367-368), and runs its callback; and
\* the event handler returns after its second (915).  Fairness is asked only
\* for the steps that get on: a callback that has bytes moved or a device gone,
\* a return once both transfers are done.  Nothing ever has to fail.
write_ends == (w.moved > 0 \/ ~alive) /\ write_cb
read_ends == (tx # << >> \/ ~alive) /\ read_cb
loop_ends == BothDone /\ handle_events_return
HostFairness == /\ WF_vars(submit_read) /\ WF_vars(loop_ends)
                /\ WF_vars(write_ends) /\ WF_vars(read_ends)
                /\ WF_vars(error_check) /\ WF_vars(purge_rx) /\ WF_vars(purge_tx)
\* The chip takes what it is sent and executes it.
ChipFairness == WF_vars(chip_takes) /\ WF_vars(chip_executes)

HostFairSpec == Spec /\ HostFairness
\* A read that brings nothing ends too, by its timeout.
TimeoutSpec == HostFairSpec /\ WF_vars(read_cb)
FairSpec == HostFairSpec /\ ChipFairness

-----------------------------------------------------------------------------
(* Properties                                                                *)

\* Every variable is of its type.
TypeOK ==
  /\ pc \in Places /\ rv \in Codes
  /\ batch \in 0 .. MaxBatches /\ wlen \in 0 .. MaxWrite /\ rlen \in 0 .. MaxWrite
  /\ w \in WriteTransfer /\ r \in ReadTransfer
  /\ read_buffer \in Seq(Commands) /\ rx \in Seq(Commands)
  /\ tx \in Seq(Commands) /\ taken \in Seq(Commands)
  /\ result \in {"none", "ok", "fail"}
  /\ alive \in BOOLEAN /\ dirty \in BOOLEAN

\* The commands of a batch reach the chip in their order and none of them
\* twice, however often the write transfer was cut short and submitted again
\* (transfer->buffer and transfer->length, mpsse.c:859-860), and a flush that
\* returns ERROR_OK has sent them all (940).
SentInOrderOnce ==
  /\ pc # "idle" => \A i \in 1 .. Len(taken) : taken[i] = Command(i)
  /\ result = "ok" => Len(taken) = wlen

\* A flush that returns ERROR_OK has in the read buffer the answers to its own
\* commands, in their order, though an earlier flush failed with answers still
\* on their way: mpsse_purge has thrown those away (965), unless the purge
\* itself failed, which it only logs (453, 460).
OwnAnswers ==
  result = "ok" /\ ~dirty => read_buffer = [i \in 1 .. rlen |-> Command(i)]

\* Between flushes the chip holds nothing that would be read as the answer to
\* a later command, unless the last purge failed.  It takes both purges, in
\* their order: the chip goes on executing between the two.
ChipQuiet == pc = "idle" /\ ~dirty =>
  tx = << >> /\ \A i \in DOMAIN rx : ~rx[i].reads

\* mpsse_flush frees a transfer that is still in flight (961-963) only when the
\* read transfer could not be submitted after the write transfer was (907), or
\* when the event handler was interrupted or lost the device (920): never when
\* the drain loop has run.
FreedInFlightOnlyIf ==
  pc = "undefined" => rv \in {"SUBMIT_READ", "NO_DEVICE", "INTERRUPTED"}

\* The write transfer was given up with the device still there, and the read
\* transfer goes on waiting for answers to commands that were never sent.
WaitsInVain == alive /\ w.done /\ w.transferred < wlen /\ ~r.done

\* Every flush and every purge comes to its end, whatever the transfers do - cut
\* short, cancelled, the device pulled, errors of the event handler - except
\* when write_cb could not resubmit (861-862) and the device is still there.
FlushReturns == pc # "idle" ~> pc \in {"idle", "undefined"} \/ WaitsInVain

\* Everything has been written; what is left is the answers.
sent == w.done /\ w.transferred = wlen

\* "ftdi device did not return all data" (946): the reads of a silent device end by
\* their timeout, and so must the polling loop (912-921).  It is enough for the property
\* that the loop goes on to cancel, so that no error of the event handler is to blame.
SilentChipIsReported == pc = "events" /\ sent ~> pc # "events"
=============================================================================
