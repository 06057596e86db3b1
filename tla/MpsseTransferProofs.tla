------------------------- MODULE MpsseTransferProofs -------------------------
(***************************************************************************)
(* Theorems about MpsseTransfer, for batches and chunks of any size and    *)
(* any number of flushes.                                                  *)
(***************************************************************************)
EXTENDS MpsseTransfer, SequenceTheorems, TLAPS

-----------------------------------------------------------------------------
(* The inductive invariant                                                   *)

\* mpsse_flush has been entered and has not come to its result.
Flushing == pc \in {"submit_read", "events", "drain", "check"}

\* A submitted write transfer covers the rest of the batch (mpsse.c:859-860); what
\* the chip has taken is what was moved, in order.
WritesRest ==
  /\ w.inflight => /\ ~w.done /\ batch > 0
                   /\ w.from = w.transferred /\ w.length = wlen - w.transferred
                   /\ w.moved <= w.length
  /\ ~w.inflight => w.moved = 0
  /\ w.transferred <= wlen
  /\ Len(taken) = w.transferred + w.moved
  /\ \A n \in 1 .. Len(taken) : taken[n] = Command(n)

\* A read transfer is submitted until it is done; SEND_IMMEDIATE follows what it
\* reads (mpsse.c:888-891).
ReadsRest ==
  /\ r.inflight => ~r.done
  /\ rlen = 0 \/ rlen < wlen
  /\ r.transferred <= rlen
  /\ Len(read_buffer) = r.transferred
  /\ pc = "submit_read" => ~r.inflight /\ ~r.done

\* Outside of the polling loop a transfer is in flight only after certain results.
InFlightOnlyIf ==
  /\ pc \in {"idle", "purge_rx", "purge_tx"} => ~w.inflight /\ ~r.inflight
  /\ pc = "check" => \/ ~w.inflight /\ ~r.inflight
                     \/ rv \in {"SUBMIT_READ", "NO_DEVICE", "INTERRUPTED"}

\* How many commands of this batch the chip has executed; below zero for every
\* command of an earlier batch that is still before them.
Executed == Len(taken) - Len(rx)
Answered == IF Executed < 0 THEN 0 ELSE Lesser(Executed, rlen)

\* The answers of this batch, and no others, are in the read buffer or in the chip,
\* in order, and what is in front of the commands of this batch gives none.
Stream ==
  /\ alive => Len(read_buffer) + Len(tx) = Answered
  /\ \A n \in 1 .. Len(read_buffer) : read_buffer[n] = Command(n)
  /\ \A n \in 1 .. Len(tx) : tx[n] = Command(Len(read_buffer) + n)
  /\ \A n \in 1 .. Len(rx) : IF Executed + n > 0 THEN rx[n] = Command(Executed + n)
                                                 ELSE ~rx[n].reads
StreamInOrder == Flushing /\ ~dirty => Stream

\* What a result stands for, once it is there.
ResultMeans ==
  /\ result = "ok" => pc \in {"idle", "undefined"}
  /\ result = "ok" => w.transferred = wlen

\* The purges in their order, and a device that stays away.
Purged ==
  /\ pc = "purge_tx" => rx = << >>
  /\ ~alive => rx = << >> /\ tx = << >>

IInv == /\ TypeOK
        /\ WritesRest /\ ReadsRest /\ InFlightOnlyIf
        /\ StreamInOrder /\ ResultMeans /\ Purged
        /\ OwnAnswers /\ ChipQuiet /\ FreedInFlightOnlyIf
-----------------------------------------------------------------------------
(* The start                                                                 *)

\* A transfer nobody has submitted.
LEMMA NothingSubmitted ==
  /\ NoWrite \in WriteTransfer
  /\ ~NoWrite.inflight /\ ~NoWrite.done /\ NoWrite.from = 0
  /\ NoWrite.length = 0 /\ NoWrite.moved = 0 /\ NoWrite.transferred = 0
  BY DEF NoWrite, WriteTransfer

LEMMA InitInv == Init => IInv
  <1> SUFFICES ASSUME Init PROVE IInv
    OBVIOUS
  <1> USE DEF Init, NoWrite, NoRead
  <1>1. TypeOK
    <2>1. /\ pc \in Places /\ rv \in Codes /\ result \in {"none", "ok", "fail"}
          /\ alive \in BOOLEAN /\ dirty \in BOOLEAN
      BY DEF Places, Codes
    <2>2. batch \in 0 .. MaxBatches /\ wlen \in 0 .. MaxWrite /\ rlen \in 0 .. MaxWrite
      BY TransferAssumption
    <2>3. w \in WriteTransfer
      BY DEF WriteTransfer
    <2>4. r \in ReadTransfer
      BY DEF ReadTransfer
    <2>5. /\ read_buffer \in Seq(Commands) /\ rx \in Seq(Commands)
          /\ tx \in Seq(Commands) /\ taken \in Seq(Commands)
      OBVIOUS
    <2> QED BY <2>1, <2>2, <2>3, <2>4, <2>5 DEF TypeOK
  <1>2. WritesRest /\ ReadsRest /\ InFlightOnlyIf
    BY DEF WritesRest, ReadsRest, InFlightOnlyIf
  <1>3. StreamInOrder /\ ResultMeans /\ Purged
    BY DEF StreamInOrder, Flushing, ResultMeans, Purged
  <1>4. OwnAnswers /\ ChipQuiet /\ FreedInFlightOnlyIf
    BY DEF OwnAnswers, ChipQuiet, FreedInFlightOnlyIf
  <1> QED BY <1>1, <1>2, <1>3, <1>4 DEF IInv

\* mpsse_flush starts with an empty stream: what is still in the chip answers
\* nothing (mpsse.c:884-909).
LEMMA StartInv ==
  ASSUME IInv, start_flush
  PROVE  IInv'
  <1>1. PICK wl \in 1 .. MaxWrite, rl \in 0 .. MaxWrite - 1 :
          (rl = 0 \/ rl < wl) /\ flush(wl, rl)
    BY DEF start_flush
  <1>2. /\ pc = "idle" /\ batch < MaxBatches /\ batch' = batch + 1
        /\ wlen' = wl /\ rlen' = rl /\ read_buffer' = << >> /\ taken' = << >>
        /\ result' = "none" /\ rx' = rx /\ tx' = tx /\ alive' = alive /\ dirty' = dirty
        /\ rv' \in {"SUCCESS", "SUBMIT_WRITE"}
        /\ pc' \in {"submit_read", "events", "check"}
        /\ pc' = "submit_read" => rl > 0
    BY <1>1 DEF flush
  <1>3. /\ w' \in WriteTransfer /\ ~w'.done
        /\ w'.from = 0 /\ w'.moved = 0 /\ w'.transferred = 0
        /\ w'.inflight => w'.length = wl
        /\ pc' = "check" => ~w'.inflight
    <2>1. CASE w' = NoWrite /\ pc' = "check"
      BY <2>1, NothingSubmitted
    <2>2. CASE w' = [NoWrite EXCEPT !.inflight = TRUE, !.length = wl] /\ pc' # "check"
      <3>1. wl \in Nat
        BY TransferAssumption
      <3> DEFINE submitted == [NoWrite EXCEPT !.inflight = TRUE]
      <3>2. /\ submitted \in WriteTransfer /\ ~submitted.done
            /\ submitted.from = 0 /\ submitted.moved = 0 /\ submitted.transferred = 0
        BY NothingSubmitted DEF WriteTransfer
      <3>3. w' = [submitted EXCEPT !.length = wl]
        BY <2>2
      <3> HIDE DEF submitted
      <3> QED BY <2>2, <3>1, <3>2, <3>3 DEF WriteTransfer
    <2> QED BY <1>1, <2>1, <2>2 DEF flush
  <1>4. /\ r' \in ReadTransfer /\ ~r'.inflight /\ r'.transferred = 0
        /\ rl > 0 => ~r'.done
    <2>1. rl \in Nat /\ r' = [inflight |-> FALSE, done |-> (rl = 0), transferred |-> 0, again |-> 0]
      BY <1>1, TransferAssumption DEF flush, NoRead
    <2>2. CASE rl = 0
      <3>1. r' = [inflight |-> FALSE, done |-> TRUE, transferred |-> 0, again |-> 0]
        BY <1>1, <2>2 DEF flush, NoRead
      <3> QED BY <2>2, <3>1 DEF ReadTransfer
    <2>3. CASE rl > 0
      <3>1. r' = [inflight |-> FALSE, done |-> FALSE, transferred |-> 0, again |-> 0]
        <4>1. (rl = 0) = FALSE
          BY <2>1, <2>3
        <4> QED BY <2>1, <4>1, Zenon
      <3> QED BY <3>1 DEF ReadTransfer
    <2> QED BY <2>1, <2>2, <2>3
  <1>5. TypeOK'
    <2>1. /\ batch' \in 0 .. MaxBatches /\ wlen' \in 0 .. MaxWrite /\ rlen' \in 0 .. MaxWrite
      BY <1>2, TransferAssumption DEF IInv, TypeOK
    <2>2. /\ read_buffer' \in Seq(Commands) /\ rx' \in Seq(Commands)
          /\ tx' \in Seq(Commands) /\ taken' \in Seq(Commands)
      BY <1>2 DEF IInv, TypeOK
    <2> QED BY <1>2, <1>3, <1>4, <2>1, <2>2 DEF IInv, TypeOK, Places, Codes
  <1>6. WritesRest' /\ ReadsRest' /\ InFlightOnlyIf'
    <2>1. wl \in Nat /\ rl \in Nat /\ batch' > 0 /\ Len(taken') = 0 /\ Len(read_buffer') = 0
      BY <1>2, TransferAssumption DEF IInv, TypeOK
    <2>2. WritesRest'
      BY <1>2, <1>3, <2>1 DEF WritesRest
    <2>3. ReadsRest'
      BY <1>1, <1>2, <1>4, <2>1 DEF ReadsRest
    <2>4. InFlightOnlyIf'
      BY <1>2, <1>3, <1>4 DEF InFlightOnlyIf
    <2> QED BY <2>2, <2>3, <2>4
  <1>7. StreamInOrder'
    <2> SUFFICES ASSUME ~dirty
                 PROVE  Stream'
      BY <1>2 DEF StreamInOrder
    <2>1. tx = << >> /\ \A n \in 1 .. Len(rx) : ~rx[n].reads
      BY <1>2 DEF IInv, ChipQuiet, TypeOK
    <2>2. Executed' = 0 - Len(rx) /\ Len(rx) \in Nat
      BY <1>2 DEF Executed, IInv, TypeOK
    <2>3. Answered' = 0
      BY <1>2, <2>2, TransferAssumption DEF Answered, Lesser
    <2> QED BY <1>2, <2>1, <2>2, <2>3 DEF Stream
  <1>8. ResultMeans' /\ Purged'
    BY <1>2 DEF IInv, ResultMeans, Purged
  <1>9. OwnAnswers' /\ ChipQuiet' /\ FreedInFlightOnlyIf'
    BY <1>2 DEF OwnAnswers, ChipQuiet, FreedInFlightOnlyIf
  <1> QED BY <1>5, <1>6, <1>7, <1>8, <1>9 DEF IInv

LEMMA SubmitReadInv ==
  ASSUME IInv, submit_read
  PROVE  IInv'
  <1> USE DEF submit_read, chipVars
  <1>1. TypeOK'
    BY DEF IInv, TypeOK, Places, Codes, ReadTransfer
  <1>2. WritesRest' /\ ReadsRest' /\ InFlightOnlyIf'
    BY DEF IInv, TypeOK, WritesRest, ReadsRest, InFlightOnlyIf, ReadTransfer, Command
  <1>3. StreamInOrder'
    BY DEF IInv, StreamInOrder, Flushing, Stream, Executed, Answered, Lesser, Command
  <1>4. ResultMeans' /\ Purged'
    BY DEF IInv, ResultMeans, Purged
  <1>5. OwnAnswers' /\ ChipQuiet' /\ FreedInFlightOnlyIf'
    BY DEF IInv, ResultMeans, OwnAnswers, ChipQuiet, FreedInFlightOnlyIf
  <1> QED BY <1>1, <1>2, <1>3, <1>4, <1>5 DEF IInv

-----------------------------------------------------------------------------
(* The callbacks                                                             *)

\* write_cb moves what the chip has taken from one counter to the other
\* (mpsse.c:848-864).
LEMMA WriteCbInv ==
  ASSUME IInv, write_cb
  PROVE  IInv'
  <1> DEFINE t == w.transferred + w.moved
  <1>1. /\ InLoop /\ w.inflight
        /\ pc' = pc /\ batch' = batch /\ wlen' = wlen /\ rlen' = rlen /\ rv' = rv
        /\ r' = r /\ read_buffer' = read_buffer /\ result' = result /\ rx' = rx
        /\ tx' = tx /\ taken' = taken /\ alive' = alive /\ dirty' = dirty
    BY DEF write_cb, chipVars
  <1>2. /\ w \in WriteTransfer /\ wlen \in Nat /\ batch > 0
        /\ w.from = w.transferred /\ w.length = wlen - w.transferred /\ w.moved <= w.length
        /\ Len(taken) = t
    BY <1>1 DEF IInv, TypeOK, WritesRest
  <1>3. t \in Nat /\ t <= wlen
    BY <1>2 DEF WriteTransfer
  <1>4. /\ w' \in WriteTransfer
        /\ w'.transferred = t /\ w'.moved = 0
        /\ w'.inflight => ~w'.done /\ w'.from = t /\ w'.length = wlen - t
    <2>1. CASE w' = [w EXCEPT !.transferred = t, !.inflight = FALSE, !.done = TRUE, !.moved = 0]
      <3>1. w' = [inflight |-> FALSE, done |-> TRUE, from |-> w.from, length |-> w.length,
                  moved |-> 0, transferred |-> t]
        BY <1>2, <2>1 DEF WriteTransfer
      <3> HIDE DEF t
      <3> QED BY <1>2, <1>3, <3>1 DEF WriteTransfer
    <2>2. CASE w' = write_resubmitted(t)
      <3>1. w' = [inflight |-> w.inflight, done |-> w.done, from |-> t, length |-> wlen - t,
                  moved |-> 0, transferred |-> t]
        BY <1>2, <2>2 DEF WriteTransfer, write_resubmitted
      <3>2. w.done = FALSE
        BY <1>1, <1>2 DEF IInv, WritesRest, WriteTransfer
      <3> HIDE DEF t
      <3> QED BY <1>1, <1>2, <1>3, <3>1, <3>2 DEF WriteTransfer
    <2> QED BY <2>1, <2>2 DEF write_cb
  <1> HIDE DEF t
  <1>5. TypeOK'
    BY <1>1, <1>4 DEF IInv, TypeOK
  <1>6. WritesRest'
    BY <1>1, <1>2, <1>3, <1>4 DEF IInv, WritesRest, Command
  <1>7. ReadsRest' /\ InFlightOnlyIf'
    BY <1>1 DEF IInv, ReadsRest, InFlightOnlyIf, InLoop
  <1>8. StreamInOrder'
    BY <1>1 DEF IInv, StreamInOrder, Flushing, Stream, Executed, Answered, Command
  <1>9. /\ ResultMeans' /\ Purged' /\ OwnAnswers' /\ ChipQuiet' /\ FreedInFlightOnlyIf'
    BY <1>1 DEF IInv, ResultMeans, Purged, OwnAnswers, ChipQuiet, FreedInFlightOnlyIf, InLoop
  <1> QED BY <1>5, <1>6, <1>7, <1>8, <1>9 DEF IInv

\* read_cb moves answers from the chip to the read buffer, and leaves none of them
\* out: there are never more than the rest of what was asked for (mpsse.c:814-835).
LEMMA ReadCbInv ==
  ASSUME IInv, read_cb
  PROVE  IInv'
  <1> DEFINE n == Lesser(Len(tx), ChunkSize)
             c == copied(n)
             t == r.transferred + c
  <1>1. /\ InLoop /\ r.inflight
        /\ pc' = pc /\ batch' = batch /\ wlen' = wlen /\ rlen' = rlen /\ rv' = rv
        /\ w' = w /\ result' = result /\ rx' = rx
        /\ taken' = taken /\ alive' = alive /\ dirty' = dirty
    BY DEF read_cb
  <1>2. /\ r \in ReadTransfer /\ rlen \in Nat /\ r.transferred <= rlen
        /\ Len(read_buffer) = r.transferred
        /\ read_buffer \in Seq(Commands) /\ tx \in Seq(Commands)
    BY DEF IInv, TypeOK, ReadsRest
  <1>3. /\ Len(tx) \in Nat /\ ChunkSize \in Nat
        /\ n \in Nat /\ n <= Len(tx)
        /\ c \in Nat /\ c <= n
        /\ t \in Nat /\ t <= rlen
    BY <1>2, TransferAssumption DEF Lesser, copied, ReadTransfer
  <1>4. /\ r' \in ReadTransfer /\ r'.transferred = t
        /\ r'.inflight => ~r'.done
    <2>1. CASE r' = [r EXCEPT !.transferred = t, !.inflight = FALSE, !.done = TRUE, !.again = 0]
      <3>1. r' = [inflight |-> FALSE, done |-> TRUE, transferred |-> t, again |-> 0]
        BY <1>2, <2>1 DEF ReadTransfer
      <3> HIDE DEF t
      <3> QED BY <1>3, <3>1 DEF ReadTransfer
    <2>2. CASE r' = [r EXCEPT !.transferred = t, !.again = 1 - @]
      <3> HIDE DEF t
      <3>1. 1 - r.again \in {0, 1}
        BY <1>2 DEF ReadTransfer
      <3> QED BY <1>1, <1>2, <1>3, <2>2, <3>1 DEF ReadTransfer, IInv, ReadsRest
    <2> QED BY <2>1, <2>2 DEF read_cb
  <1>5. read_buffer' = read_buffer \o SubSeq(tx, 1, c) /\ tx' = SubSeq(tx, n + 1, Len(tx))
    BY DEF read_cb
  <1> HIDE DEF n, c, t
  <1>6. /\ tx' \in Seq(Commands) /\ Len(tx') = Len(tx) - n
        /\ \A k \in 1 .. Len(tx') : tx'[k] = tx[n + k]
    BY <1>2, <1>3, <1>5
  <1> DEFINE new == SubSeq(tx, 1, c)
  <1>7. new \in Seq(Commands) /\ Len(new) = c /\ \A k \in 1 .. c : new[k] = tx[k]
    BY <1>2, <1>3
  <1>8. read_buffer' = read_buffer \o new
    BY <1>5
  <1> HIDE DEF new
  <1>9. read_buffer' \in Seq(Commands)
    BY <1>2, <1>7, <1>8, ConcatProperties
  <1>10. Len(read_buffer') = Len(read_buffer) + c
    BY <1>2, <1>7, <1>8, ConcatProperties
  <1>11. /\ \A k \in 1 .. Len(read_buffer) : read_buffer'[k] = read_buffer[k]
         /\ \A k \in 1 .. c : read_buffer'[Len(read_buffer) + k] = tx[k]
    <2>1. \A k \in 1 .. Len(read_buffer) + c :
            read_buffer'[k] = IF k <= Len(read_buffer) THEN read_buffer[k]
                                                       ELSE new[k - Len(read_buffer)]
      BY <1>2, <1>7, <1>8, ConcatProperties
    <2>2. Len(read_buffer) \in Nat
      BY <1>2
    <2> QED BY <1>3, <1>7, <2>1, <2>2, SMTT(30)
  <1>12. TypeOK'
    <2>1. /\ pc \in Places /\ rv \in Codes
          /\ batch \in 0 .. MaxBatches /\ wlen \in 0 .. MaxWrite /\ rlen \in 0 .. MaxWrite
          /\ w \in WriteTransfer /\ rx \in Seq(Commands) /\ taken \in Seq(Commands)
          /\ result \in {"none", "ok", "fail"} /\ alive \in BOOLEAN /\ dirty \in BOOLEAN
      BY DEF IInv, TypeOK
    <2> QED BY <1>1, <1>4, <1>6, <1>9, <2>1 DEF TypeOK
  <1>13. WritesRest' /\ InFlightOnlyIf'
    BY <1>1 DEF IInv, WritesRest, InFlightOnlyIf, InLoop, Command
  <1>14. ReadsRest'
    <2>1. Len(read_buffer') = t
      BY <1>2, <1>10 DEF t
    <2> QED BY <1>1, <1>3, <1>4, <2>1 DEF IInv, ReadsRest, InLoop
  <1>15. StreamInOrder'
    <2> SUFFICES ASSUME ~dirty
                 PROVE  Stream'
      BY <1>1 DEF StreamInOrder
    <2>1. Stream
      BY <1>1 DEF IInv, StreamInOrder, Flushing, InLoop
    <2>2. c = n
      <3>1. CASE alive
        <4>1. Answered <= rlen
          BY <1>2 DEF Answered, Executed, Lesser, IInv, TypeOK
        <4>2. Len(tx) <= rlen - r.transferred
          BY <1>2, <1>3, <2>1, <3>1, <4>1, SMTT(30) DEF Stream, Answered, Executed, Lesser, IInv, TypeOK
        <4> QED BY <1>2, <1>3, <4>2 DEF c, copied, Lesser, ReadTransfer
      <3>2. CASE ~alive
        BY <1>3, <3>2 DEF IInv, Purged
      <3> QED BY <3>1, <3>2
    <2>3. Executed' = Executed /\ Answered' = Answered
      BY <1>1 DEF Executed, Answered
    <2>4. alive' => Len(read_buffer') + Len(tx') = Answered'
      BY <1>1, <1>2, <1>3, <1>6, <1>10, <2>1, <2>2, <2>3 DEF Stream
    <2>5. ASSUME NEW k \in 1 .. Len(read_buffer')
          PROVE  read_buffer'[k] = Command(k)
      <3>1. CASE k <= Len(read_buffer)
        BY <1>2, <1>11, <2>1, <3>1 DEF Stream
      <3>2. CASE k > Len(read_buffer)
        <4>1. /\ k - Len(read_buffer) \in 1 .. c /\ k - Len(read_buffer) \in 1 .. Len(tx)
              /\ Len(read_buffer) + (k - Len(read_buffer)) = k
          BY <1>2, <1>3, <1>10, <3>2, SMTT(30)
        <4> QED BY <1>11, <2>1, <4>1 DEF Stream
      <3> QED BY <1>2, <1>3, <1>10, <3>1, <3>2
    <2>6. ASSUME NEW k \in 1 .. Len(tx')
          PROVE  tx'[k] = Command(Len(read_buffer') + k)
      <3>1. /\ n + k \in 1 .. Len(tx)
            /\ Len(read_buffer') + k = Len(read_buffer) + (n + k)
        BY <1>2, <1>3, <1>6, <1>10, <2>2, SMTT(30)
      <3> QED BY <1>6, <2>1, <3>1 DEF Stream
    <2>7. \A k : Command(k)' = Command(k)
      BY <1>1 DEF Command
    <2> QED BY <1>1, <2>1, <2>3, <2>4, <2>5, <2>6, <2>7 DEF Stream
  <1>16. ResultMeans' /\ Purged'
    BY <1>1, <1>3, <1>6 DEF IInv, ResultMeans, Purged, InLoop
  <1>17. OwnAnswers' /\ ChipQuiet' /\ FreedInFlightOnlyIf'
    BY <1>1 DEF IInv, ResultMeans, OwnAnswers, ChipQuiet, FreedInFlightOnlyIf, InLoop
  <1> QED BY <1>12, <1>13, <1>14, <1>15, <1>16, <1>17 DEF IInv

-----------------------------------------------------------------------------
(* The loops and the result                                                  *)

\* The event handler returns: no transfer is in flight at the end of the loops,
\* except after the two results that leave them at once (mpsse.c:920).
LEMMA ReturnInv ==
  ASSUME IInv, handle_events_return
  PROVE  IInv'
  <1>1. /\ batch' = batch /\ wlen' = wlen /\ rlen' = rlen /\ result' = result
        /\ dirty' = dirty /\ w' = w /\ r' = r /\ read_buffer' = read_buffer
        /\ rx' = rx /\ tx' = tx /\ taken' = taken /\ alive' = alive
        /\ pc \in {"events", "drain"} /\ pc' \in {"events", "drain", "check"}
        /\ rv' \in {"SUCCESS", "NO_DEVICE", "INTERRUPTED", "OTHER"}
        /\ pc' = "check" => BothDone \/ rv' \in {"NO_DEVICE", "INTERRUPTED"}
    BY DEF handle_events_return, events_return, drain_return, usbVars, chipVars
  <1>2. TypeOK'
    BY <1>1 DEF IInv, TypeOK, Places, Codes
  <1>3. WritesRest' /\ ReadsRest'
    BY <1>1 DEF IInv, WritesRest, ReadsRest, Command
  <1>4. InFlightOnlyIf'
    BY <1>1 DEF IInv, WritesRest, ReadsRest, InFlightOnlyIf, BothDone
  <1>5. StreamInOrder'
    BY <1>1 DEF IInv, StreamInOrder, Flushing, Stream, Executed, Answered, Command
  <1>6. ResultMeans' /\ Purged'
    BY <1>1 DEF IInv, ResultMeans, Purged
  <1>7. OwnAnswers' /\ ChipQuiet' /\ FreedInFlightOnlyIf'
    BY <1>1 DEF IInv, ResultMeans, OwnAnswers, ChipQuiet, FreedInFlightOnlyIf
  <1> QED BY <1>2, <1>3, <1>4, <1>5, <1>6, <1>7 DEF IInv

\* The first commands of a batch are answered.
LEMMA WhichReads ==
  ASSUME NEW n
  PROVE  Command(n).reads <=> n <= rlen
  BY Zenon DEF Command

\* A batch that was sent and answered as far as it asked leaves the answers in the
\* read buffer and nothing behind them (mpsse.c:936-950).
LEMMA CompleteMeans ==
  ASSUME IInv, pc = "check", complete, ~dirty
  PROVE  /\ read_buffer = [n \in 1 .. rlen |-> Command(n)]
         /\ tx = << >> /\ \A n \in DOMAIN rx : ~rx[n].reads
  <1>1. /\ Stream /\ Len(read_buffer) = rlen /\ rlen \in Nat
        /\ read_buffer \in Seq(Commands) /\ tx \in Seq(Commands) /\ rx \in Seq(Commands)
        /\ Len(taken) \in Nat /\ Len(rx) \in Nat /\ Len(tx) \in Nat
    BY DEF IInv, StreamInOrder, Flushing, ReadsRest, complete, TypeOK, ReadTransfer
  <1>2. read_buffer = [n \in 1 .. rlen |-> Command(n)]
    <2>1. DOMAIN read_buffer = 1 .. rlen /\ \A n \in 1 .. rlen : read_buffer[n] = Command(n)
      BY <1>1 DEF Stream
    <2>2. read_buffer = [n \in DOMAIN read_buffer |-> read_buffer[n]]
      BY <1>1
    <2> QED BY <2>1, <2>2
  <1>3. CASE alive
    <2>1. Executed \in Int /\ Answered <= rlen /\ (rlen > 0 /\ Answered = rlen => Executed >= rlen)
      BY <1>1 DEF Executed, Answered, Lesser
    <2>2. Len(tx) = 0 /\ Answered = rlen
      BY <1>1, <1>3, <2>1 DEF Stream, Answered, Lesser, Executed
    <2>3. tx = << >>
      BY <1>1, <2>2
    <2>4. ASSUME NEW n \in DOMAIN rx
          PROVE  ~rx[n].reads
      <3>1. n \in 1 .. Len(rx)
        BY <1>1
      <3>2. CASE Executed + n > 0
        <4>1. rx[n] = Command(Executed + n)
          BY <1>1, <3>1, <3>2 DEF Stream
        <4>2. Executed >= rlen \/ rlen = 0
          BY <1>1, <2>1, <2>2
        <4>3. ~(Executed + n <= rlen)
          BY <1>1, <2>1, <3>1, <3>2, <4>2
        <4> QED BY <4>1, <4>3, WhichReads
      <3>3. CASE ~(Executed + n > 0)
        BY <1>1, <3>1, <3>3 DEF Stream
      <3> QED BY <3>2, <3>3
    <2> QED BY <1>2, <2>3, <2>4
  <1>4. CASE ~alive
    <2>1. rx = << >> /\ tx = << >>
      BY <1>4 DEF IInv, Purged
    <2>2. DOMAIN rx = {}
      BY <2>1
    <2> QED BY <1>2, <2>1, <2>2
  <1> QED BY <1>3, <1>4

LEMMA ErrorCheckInv ==
  ASSUME IInv, error_check
  PROVE  IInv'
  <1>1. /\ pc = "check"
        /\ batch' = batch /\ wlen' = wlen /\ rlen' = rlen /\ rv' = rv /\ dirty' = dirty
        /\ w' = w /\ r' = r /\ read_buffer' = read_buffer
        /\ rx' = rx /\ tx' = tx /\ taken' = taken /\ alive' = alive
        /\ result' \in {"ok", "fail"} /\ (result' = "ok" => complete)
        /\ pc' \in {"undefined", "idle", "purge_rx"}
        /\ (pc' = "undefined" => w.inflight \/ r.inflight)
        /\ (pc' # "undefined" => ~w.inflight /\ ~r.inflight)
        /\ (pc' = "idle" => complete)
        /\ (pc' = "purge_rx" => ~complete)
    BY DEF error_check, usbVars, chipVars
  <1>2. result' = "ok" => pc' # "purge_rx"
    BY <1>1
  <1>3. TypeOK'
    BY <1>1 DEF IInv, TypeOK, Places
  <1>4. WritesRest' /\ ReadsRest' /\ InFlightOnlyIf'
    BY <1>1 DEF IInv, WritesRest, ReadsRest, InFlightOnlyIf, Command
  <1>5. StreamInOrder' /\ Purged'
    BY <1>1 DEF IInv, StreamInOrder, Flushing, Purged
  <1>6. ResultMeans'
    <2>1. complete => w.transferred = wlen
      BY DEF IInv, TypeOK, WritesRest, WriteTransfer, complete
    <2> QED BY <1>1, <1>2, <2>1 DEF ResultMeans
  <1>7. OwnAnswers' /\ ChipQuiet'
    BY <1>1, CompleteMeans DEF OwnAnswers, ChipQuiet, Command
  <1>8. FreedInFlightOnlyIf'
    BY <1>1 DEF IInv, InFlightOnlyIf, FreedInFlightOnlyIf
  <1> QED BY <1>3, <1>4, <1>5, <1>6, <1>7, <1>8 DEF IInv

LEMMA PurgeInv ==
  ASSUME IInv, purge
  PROVE  IInv'
  <1> USE DEF purge, usbVars, chipVars
  <1>1. TypeOK'
    BY DEF IInv, TypeOK, Places
  <1>2. WritesRest' /\ ReadsRest' /\ InFlightOnlyIf'
    BY DEF IInv, WritesRest, ReadsRest, InFlightOnlyIf, Command
  <1>3. StreamInOrder' /\ ResultMeans' /\ Purged'
    BY DEF IInv, StreamInOrder, Flushing, ResultMeans, Purged
  <1>4. OwnAnswers' /\ ChipQuiet' /\ FreedInFlightOnlyIf'
    BY DEF OwnAnswers, ChipQuiet, FreedInFlightOnlyIf
  <1> QED BY <1>1, <1>2, <1>3, <1>4 DEF IInv

\* mpsse_purge empties what the chip has received, then what it would transmit
\* (mpsse.c:450-462): only after both can nothing more come.
LEMMA PurgeRxInv ==
  ASSUME IInv, purge_rx
  PROVE  IInv'
  <1>1. /\ pc = "purge_rx"
        /\ batch' = batch /\ wlen' = wlen /\ rlen' = rlen /\ rv' = rv /\ result' = result
        /\ w' = w /\ r' = r /\ read_buffer' = read_buffer
        /\ tx' = tx /\ taken' = taken /\ alive' = alive
        /\ \/ alive /\ rx' = << >> /\ pc' = "purge_tx" /\ dirty' = dirty
           \/ pc' = "idle" /\ dirty' = TRUE /\ rx' = rx
    BY DEF purge_rx, usbVars
  <1>2. TypeOK'
    <2>1. pc' \in Places
      BY <1>1 DEF Places
    <2>2. rx' \in Seq(Commands)
      BY <1>1, EmptySeq DEF IInv, TypeOK
    <2>3. dirty' \in BOOLEAN
      BY <1>1 DEF IInv, TypeOK
    <2> QED BY <1>1, <2>1, <2>2, <2>3 DEF IInv, TypeOK
  <1>3. WritesRest' /\ ReadsRest' /\ InFlightOnlyIf'
    BY <1>1 DEF IInv, WritesRest, ReadsRest, InFlightOnlyIf, Command
  <1>4. StreamInOrder' /\ ResultMeans' /\ Purged'
    BY <1>1 DEF IInv, StreamInOrder, Flushing, ResultMeans, Purged
  <1>5. OwnAnswers' /\ ChipQuiet' /\ FreedInFlightOnlyIf'
    BY <1>1 DEF IInv, ResultMeans, OwnAnswers, ChipQuiet, FreedInFlightOnlyIf
  <1> QED BY <1>2, <1>3, <1>4, <1>5 DEF IInv

LEMMA PurgeTxInv ==
  ASSUME IInv, purge_tx
  PROVE  IInv'
  <1>1. /\ pc = "purge_tx" /\ pc' = "idle"
        /\ batch' = batch /\ wlen' = wlen /\ rlen' = rlen /\ rv' = rv /\ result' = result
        /\ w' = w /\ r' = r /\ read_buffer' = read_buffer
        /\ rx' = rx /\ taken' = taken /\ alive' = alive
        /\ \/ tx' = << >> /\ dirty' = FALSE
           \/ tx' = tx /\ dirty' = TRUE
    BY DEF purge_tx, usbVars
  <1>2. rx = << >> /\ DOMAIN rx = {}
    BY <1>1 DEF IInv, Purged
  <1>3. TypeOK'
    <2>1. pc' \in Places
      BY <1>1 DEF Places
    <2>2. tx' \in Seq(Commands)
      BY <1>1, EmptySeq DEF IInv, TypeOK
    <2>3. dirty' \in BOOLEAN
      BY <1>1 DEF IInv, TypeOK
    <2> QED BY <1>1, <2>1, <2>2, <2>3 DEF IInv, TypeOK
  <1>4. WritesRest' /\ ReadsRest' /\ InFlightOnlyIf'
    BY <1>1 DEF IInv, WritesRest, ReadsRest, InFlightOnlyIf, Command
  <1>5. StreamInOrder' /\ ResultMeans' /\ Purged'
    BY <1>1 DEF IInv, StreamInOrder, Flushing, ResultMeans, Purged
  <1>6. OwnAnswers' /\ ChipQuiet' /\ FreedInFlightOnlyIf'
    BY <1>1, <1>2 DEF IInv, ResultMeans, OwnAnswers, ChipQuiet, FreedInFlightOnlyIf
  <1> QED BY <1>3, <1>4, <1>5, <1>6 DEF IInv

-----------------------------------------------------------------------------
(* The chip                                                                  *)

\* The chip takes the next command of the batch, never one it has taken before.
LEMMA ChipTakesInv ==
  ASSUME IInv, chip_takes
  PROVE  IInv'
  <1> DEFINE c == Command(w.from + w.moved + 1)
             last == Len(taken) + 1
  <1>1. /\ alive /\ w.inflight /\ w.moved < w.length /\ pc # "undefined"
        /\ rx' = Append(rx, c) /\ taken' = Append(taken, c)
        /\ w' = [w EXCEPT !.moved = @ + 1]
        /\ pc' = pc /\ batch' = batch /\ wlen' = wlen /\ rlen' = rlen /\ rv' = rv
        /\ r' = r /\ read_buffer' = read_buffer /\ result' = result
        /\ tx' = tx /\ alive' = alive /\ dirty' = dirty
    BY DEF chip_takes
  <1>2. /\ w \in WriteTransfer /\ wlen \in 0 .. MaxWrite /\ MaxWrite \in Nat
        /\ batch \in 1 .. MaxBatches /\ wlen \in Nat /\ rlen \in Nat
        /\ w.from = w.transferred /\ w.length = wlen - w.transferred /\ ~w.done
        /\ Len(taken) = w.transferred + w.moved
        /\ taken \in Seq(Commands) /\ rx \in Seq(Commands)
        /\ Len(taken) \in Nat /\ Len(rx) \in Nat
    BY <1>1, TransferAssumption, SMTT(30) DEF IInv, TypeOK, WritesRest
  <1>3. last \in 1 .. wlen /\ last \in 1 .. MaxWrite /\ c = Command(last)
    BY <1>1, <1>2, SMTT(60) DEF WriteTransfer
  <1>4. c \in Commands
    <2>1. (last <= rlen) \in BOOLEAN
      OBVIOUS
    <2> HIDE DEF last
    <2> QED BY <1>2, <1>3, <2>1 DEF Command, Commands
  <1> HIDE DEF c
  <1>5. /\ taken' \in Seq(Commands) /\ Len(taken') = last
        /\ \A n \in 1 .. Len(taken) : taken'[n] = taken[n]
        /\ taken'[last] = c
    BY <1>1, <1>2, <1>4, AppendProperties
  <1>6. /\ rx' \in Seq(Commands) /\ Len(rx') = Len(rx) + 1
        /\ \A n \in 1 .. Len(rx) : rx'[n] = rx[n]
        /\ rx'[Len(rx) + 1] = c
    BY <1>1, <1>2, <1>4, AppendProperties
  <1>7. /\ w' \in WriteTransfer /\ w'.inflight /\ ~w'.done
        /\ w'.moved = w.moved + 1 /\ w'.moved <= w'.length
        /\ w'.from = w.from /\ w'.length = w.length /\ w'.transferred = w.transferred
    <2>1. w.moved \in Nat /\ w.length \in Nat /\ w.moved + 1 \in Nat /\ w.moved + 1 <= w.length
      BY <1>1, <1>2, SMTT(30) DEF WriteTransfer
    <2> DEFINE moved == w.moved + 1
    <2>2. w' = [w EXCEPT !.moved = moved]
      BY <1>1
    <2> HIDE DEF moved
    <2>3. /\ w' \in WriteTransfer /\ w'.moved = moved
          /\ w'.from = w.from /\ w'.length = w.length /\ w'.transferred = w.transferred
          /\ w'.inflight = w.inflight /\ w'.done = w.done
      BY <1>2, <2>1, <2>2 DEF WriteTransfer, moved
    <2> QED BY <1>1, <1>2, <2>1, <2>3 DEF moved
  <1>8. \A n : Command(n)' = Command(n)
    BY <1>1 DEF Command
  <1>9. pc \in {"submit_read", "events", "drain", "check"} /\ result # "ok"
    BY <1>1 DEF IInv, InFlightOnlyIf, ResultMeans, TypeOK, Places
  <1>10. TypeOK'
    BY <1>1, <1>5, <1>6, <1>7 DEF IInv, TypeOK
  <1>11. WritesRest'
    <2>1. Len(taken') = w'.transferred + w'.moved
      BY <1>2, <1>5, <1>7 DEF WriteTransfer
    <2>2. \A n \in 1 .. Len(taken') : taken'[n] = Command(n)
      BY <1>2, <1>3, <1>5 DEF IInv, WritesRest
    <2>3. w'.transferred <= wlen
      BY <1>7 DEF IInv, WritesRest
    <2> QED BY <1>1, <1>2, <1>7, <1>8, <2>1, <2>2, <2>3 DEF WritesRest
  <1>12. ReadsRest' /\ InFlightOnlyIf'
    BY <1>1, <1>7, <1>9 DEF IInv, ReadsRest, InFlightOnlyIf
  <1>13. StreamInOrder'
    <2> SUFFICES ASSUME ~dirty
                 PROVE  Stream'
      BY <1>1 DEF StreamInOrder
    <2>1. Stream
      BY <1>9 DEF IInv, StreamInOrder, Flushing
    <2>2. Executed \in Int /\ Executed' = Executed /\ Answered' = Answered
      BY <1>1, <1>2, <1>5, <1>6 DEF Executed, Answered
    <2>3. ASSUME NEW n \in 1 .. Len(rx')
          PROVE  IF Executed + n > 0 THEN rx'[n] = Command(Executed + n) ELSE ~rx'[n].reads
      <3>1. CASE n \in 1 .. Len(rx)
        BY <1>6, <2>1, <3>1 DEF Stream
      <3>2. CASE n = Len(rx) + 1
        <4>1. Executed + n = last
          BY <1>2, <3>2 DEF Executed
        <4> QED BY <1>2, <1>3, <1>6, <3>2, <4>1
      <3> QED BY <1>2, <1>6, <3>1, <3>2
    <2> QED BY <1>1, <1>8, <2>1, <2>2, <2>3 DEF Stream
  <1>14. ResultMeans' /\ Purged'
    BY <1>1, <1>9 DEF IInv, ResultMeans, Purged
  <1>15. OwnAnswers' /\ ChipQuiet' /\ FreedInFlightOnlyIf'
    BY <1>1, <1>9 DEF OwnAnswers, ChipQuiet, FreedInFlightOnlyIf
  <1> QED BY <1>10, <1>11, <1>12, <1>13, <1>14, <1>15 DEF IInv

\* The chip executes its oldest command; an answer it gives is the next one of this
\* batch.
LEMMA ChipExecutesInv ==
  ASSUME IInv, chip_executes
  PROVE  IInv'
  <1>1. /\ alive /\ rx # << >> /\ rx' = Tail(rx)
        /\ tx' = IF Head(rx).reads THEN Append(tx, Head(rx)) ELSE tx
        /\ pc' = pc /\ batch' = batch /\ wlen' = wlen /\ rlen' = rlen /\ rv' = rv
        /\ w' = w /\ r' = r /\ read_buffer' = read_buffer /\ result' = result
        /\ taken' = taken /\ alive' = alive /\ dirty' = dirty
    BY DEF chip_executes
  <1>2. /\ rx \in Seq(Commands) /\ tx \in Seq(Commands) /\ rlen \in Nat
        /\ Len(taken) \in Nat /\ Len(rx) \in Nat /\ Len(rx) > 0
        /\ Len(tx) \in Nat /\ Len(read_buffer) \in Nat
    BY <1>1, EmptySeq DEF IInv, TypeOK
  <1>3. Head(rx) = rx[1] /\ Head(rx) \in Commands
    BY <1>1, <1>2, HeadTailProperties
  <1>4. /\ rx' \in Seq(Commands) /\ Len(rx') = Len(rx) - 1
        /\ \A n \in 1 .. Len(rx') : rx'[n] = rx[n + 1]
    BY <1>1, <1>2, HeadTailProperties
  <1>5. \/ Head(rx).reads /\ tx' = Append(tx, Head(rx))
        \/ ~Head(rx).reads /\ tx' = tx
    BY <1>1
  <1>6. tx' \in Seq(Commands)
    BY <1>2, <1>3, <1>5, AppendProperties, SMTT(60)
  <1>7. \A n : Command(n)' = Command(n)
    BY <1>1 DEF Command
  <1>8. TypeOK'
    BY <1>1, <1>4, <1>6 DEF IInv, TypeOK
  <1>9. WritesRest' /\ ReadsRest' /\ InFlightOnlyIf'
    BY <1>1, <1>7 DEF IInv, WritesRest, ReadsRest, InFlightOnlyIf
  <1>10. StreamInOrder'
    <2> SUFFICES ASSUME Flushing, ~dirty
                 PROVE  Stream'
      BY <1>1 DEF StreamInOrder, Flushing
    <2>1. Stream
      BY DEF IInv, StreamInOrder
    <2>2. Executed \in Int /\ Executed' = Executed + 1
      BY <1>1, <1>2, <1>4 DEF Executed
    <2>3. IF Executed + 1 > 0 THEN Head(rx) = Command(Executed + 1) ELSE ~Head(rx).reads
      BY <1>2, <1>3, <2>1 DEF Stream
    <2>4. Len(read_buffer) + Len(tx) = Answered
      BY <1>1, <2>1 DEF Stream
    <2>5. ASSUME NEW n \in 1 .. Len(rx')
          PROVE  IF Executed' + n > 0 THEN rx'[n] = Command(Executed' + n) ELSE ~rx'[n].reads
      <3>1. /\ n + 1 \in 1 .. Len(rx) /\ rx'[n] = rx[n + 1]
            /\ Executed' + n = Executed + (n + 1)
        BY <1>2, <1>4, <2>2
      <3> QED BY <2>1, <3>1 DEF Stream
    <2>6. CASE Head(rx).reads
      <3>1. Executed >= 0 /\ Head(rx) = Command(Executed + 1)
        BY <2>2, <2>3, <2>6
      <3>2. Executed + 1 <= rlen
        BY <2>6, <3>1, WhichReads
      <3>3. Answered = Executed /\ Answered' = Executed + 1
        BY <1>1, <1>2, <2>2, <3>1, <3>2 DEF Answered, Lesser
      <3>4. /\ Len(tx') = Len(tx) + 1 /\ tx'[Len(tx) + 1] = Head(rx)
            /\ \A n \in 1 .. Len(tx) : tx'[n] = tx[n]
        BY <1>2, <1>3, <1>5, <2>6, AppendProperties
      <3>5. ASSUME NEW n \in 1 .. Len(tx')
            PROVE  tx'[n] = Command(Len(read_buffer) + n)
        <4>1. CASE n \in 1 .. Len(tx)
          BY <2>1, <3>4, <4>1 DEF Stream
        <4>2. CASE n = Len(tx) + 1
          <5>1. Len(read_buffer) + n = Executed + 1
            BY <1>2, <2>4, <3>3, <4>2
          <5> QED BY <3>1, <3>4, <4>2, <5>1
        <4> QED BY <1>2, <3>4, <4>1, <4>2
      <3>6. Len(read_buffer') + Len(tx') = Answered'
        BY <1>1, <1>2, <2>4, <3>3, <3>4
      <3> QED BY <1>1, <1>7, <2>1, <2>5, <3>5, <3>6 DEF Stream
    <2>7. CASE ~Head(rx).reads
      <3>1. tx' = tx
        BY <1>5, <2>7
      <3>2. Answered' = Answered
        <4>1. CASE Executed + 1 > 0
          <5>1. ~(Executed + 1 <= rlen)
            BY <2>3, <2>7, <4>1, WhichReads
          <5> QED BY <1>1, <1>2, <2>2, <4>1, <5>1 DEF Answered, Lesser
        <4>2. CASE ~(Executed + 1 > 0)
          BY <1>1, <1>2, <2>2, <4>2 DEF Answered, Lesser
        <4> QED BY <4>1, <4>2
      <3> QED BY <1>1, <1>7, <2>1, <2>5, <3>1, <3>2 DEF Stream
    <2> QED BY <2>6, <2>7
  <1>11. ResultMeans' /\ Purged'
    BY <1>1 DEF IInv, ResultMeans, Purged
  <1>12. OwnAnswers' /\ FreedInFlightOnlyIf'
    BY <1>1, <1>7 DEF IInv, OwnAnswers, FreedInFlightOnlyIf
  <1>13. ChipQuiet'
    <2> SUFFICES ASSUME pc = "idle", ~dirty
                 PROVE  tx' = << >> /\ \A n \in DOMAIN rx' : ~rx'[n].reads
      BY <1>1 DEF ChipQuiet
    <2>1. tx = << >> /\ \A n \in 1 .. Len(rx) : ~rx[n].reads
      BY <1>2 DEF IInv, ChipQuiet
    <2>2. DOMAIN rx' = 1 .. Len(rx')
      BY <1>4
    <2>3. ~Head(rx).reads
      BY <1>2, <1>3, <2>1
    <2>4. \A n \in 1 .. Len(rx') : n + 1 \in 1 .. Len(rx)
      BY <1>2, <1>4
    <2> QED BY <1>4, <1>5, <2>1, <2>2, <2>3, <2>4
  <1> QED BY <1>8, <1>9, <1>10, <1>11, <1>12, <1>13 DEF IInv

LEMMA UnplugInv ==
  ASSUME IInv, unplug
  PROVE  IInv'
  <1>1. /\ alive' = FALSE /\ rx' = << >> /\ tx' = << >>
        /\ pc' = pc /\ batch' = batch /\ wlen' = wlen /\ rlen' = rlen /\ rv' = rv
        /\ w' = w /\ r' = r /\ read_buffer' = read_buffer /\ result' = result
        /\ taken' = taken /\ dirty' = dirty
    BY DEF unplug
  <1>2. /\ rx' \in Seq(Commands) /\ tx' \in Seq(Commands)
        /\ Len(rx') = 0 /\ Len(tx') = 0 /\ DOMAIN rx' = {}
    BY <1>1, EmptySeq
  <1>3. \A n : Command(n)' = Command(n)
    BY <1>1 DEF Command
  <1>4. TypeOK'
    BY <1>1, <1>2 DEF IInv, TypeOK
  <1>5. WritesRest' /\ ReadsRest' /\ InFlightOnlyIf'
    BY <1>1, <1>3 DEF IInv, WritesRest, ReadsRest, InFlightOnlyIf
  <1>6. StreamInOrder'
    BY <1>1, <1>2, <1>3 DEF IInv, StreamInOrder, Flushing, Stream
  <1>7. ResultMeans' /\ Purged'
    BY <1>1 DEF IInv, ResultMeans, Purged
  <1>8. OwnAnswers' /\ ChipQuiet' /\ FreedInFlightOnlyIf'
    BY <1>1, <1>2, <1>3 DEF IInv, OwnAnswers, ChipQuiet, FreedInFlightOnlyIf
  <1> QED BY <1>4, <1>5, <1>6, <1>7, <1>8 DEF IInv

-----------------------------------------------------------------------------
(* The theorems                                                              *)

LEMMA NextInv ==
  ASSUME IInv, [Next]_vars
  PROVE  IInv'
  <1>1. CASE Next
    BY <1>1, StartInv, SubmitReadInv, WriteCbInv, ReadCbInv, ReturnInv, ErrorCheckInv,
       PurgeInv, PurgeRxInv, PurgeTxInv, ChipTakesInv, ChipExecutesInv, UnplugInv DEF Next
  <1>2. CASE UNCHANGED vars
    <2>1. /\ pc' = pc /\ batch' = batch /\ wlen' = wlen /\ rlen' = rlen /\ rv' = rv
          /\ w' = w /\ r' = r /\ read_buffer' = read_buffer /\ result' = result
          /\ rx' = rx /\ tx' = tx /\ taken' = taken /\ alive' = alive /\ dirty' = dirty
      BY <1>2 DEF vars
    <2>2. \A n : Command(n)' = Command(n)
      BY <2>1 DEF Command
    <2>3. TypeOK'
      BY <2>1 DEF IInv, TypeOK
    <2>4. WritesRest' /\ ReadsRest' /\ InFlightOnlyIf'
      BY <2>1, <2>2 DEF IInv, WritesRest, ReadsRest, InFlightOnlyIf
    <2>5. StreamInOrder'
      <3>1. Executed' = Executed /\ Answered' = Answered
        BY <2>1 DEF Executed, Answered
      <3> QED BY <2>1, <2>2, <3>1 DEF IInv, StreamInOrder, Flushing, Stream
    <2>6. ResultMeans' /\ Purged'
      BY <2>1 DEF IInv, ResultMeans, Purged
    <2>7. OwnAnswers' /\ ChipQuiet' /\ FreedInFlightOnlyIf'
      BY <2>1, <2>2 DEF IInv, OwnAnswers, ChipQuiet, FreedInFlightOnlyIf
    <2> QED BY <2>3, <2>4, <2>5, <2>6, <2>7 DEF IInv
  <1> QED BY <1>1, <1>2

\* The inductive invariant holds in every reachable state, whatever the transfers do:
\* cut short, resubmitted or not, the event handler failing, the device pulled.
THEOREM Invariance == Spec => []IInv
  <1> QED BY InitInv, NextInv, PTL DEF Spec

\* Every variable of the transfer machine keeps its type.
THEOREM TypeCorrect == Spec => []TypeOK
  <1>1. IInv => TypeOK
    BY DEF IInv
  <1> QED BY <1>1, Invariance, PTL

\* However often write_cb submits the rest again, the chip takes the commands of a
\* batch in their order and none twice, and an ERROR_OK means that it took all of
\* them (mpsse.c:859-860, 940).
THEOREM TakenInOrderOnce == Spec => []SentInOrderOnce
  <1>1. ASSUME IInv PROVE SentInOrderOnce
    <2>1. \A n \in 1 .. Len(taken) : taken[n] = Command(n)
      BY <1>1 DEF IInv, WritesRest
    <2>2. ASSUME result = "ok" PROVE Len(taken) = wlen
      <3>1. w.transferred = wlen /\ Len(taken) = w.transferred + w.moved
        BY <1>1, <2>2 DEF IInv, ResultMeans, WritesRest
      <3>2. w.moved = 0
        BY <1>1, <3>1 DEF IInv, TypeOK, WritesRest, WriteTransfer
      <3> QED BY <1>1, <3>1, <3>2 DEF IInv, TypeOK
    <2> QED BY <2>1, <2>2 DEF SentInOrderOnce
  <1> QED BY <1>1, Invariance, PTL

\* After an ERROR_OK the read buffer holds the answers to this batch in their order,
\* whatever earlier flushes left behind, as long as the purge behind them worked
\* (mpsse.c:965).
THEOREM AnswersAreOwn == Spec => []OwnAnswers
  <1>1. IInv => OwnAnswers
    BY DEF IInv
  <1> QED BY <1>1, Invariance, PTL

\* Between flushes the chip has no answer to transmit and no command left that it would
\* answer, unless the last purge failed (mpsse.c:450-462).  Commands without an answer may
\* be left, and the theorem says nothing of the transfers.
THEOREM QuietBetweenFlushes == Spec => []ChipQuiet
  <1>1. IInv => ChipQuiet
    BY DEF IInv
  <1> QED BY <1>1, Invariance, PTL

\* A transfer is freed in flight only after the failures that leave the loops at
\* once, never when the drain loop has run (mpsse.c:907, 920, 961-963).
THEOREM FreedWhenDone == Spec => []FreedInFlightOnlyIf
  <1>1. IInv => FreedInFlightOnlyIf
    BY DEF IInv
  <1> QED BY <1>1, Invariance, PTL
=============================================================================
