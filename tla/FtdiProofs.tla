------------------------------ MODULE FtdiProofs ------------------------------
(***************************************************************************)
(* Theorems about the parts of the FTDI driver: FtdiSwd, FtdiAdapter,      *)
(* TapWalk and FtdiJtag, each first by itself, and then all as FtdiParts   *)
(* puts them together.                                                     *)
(*                                                                         *)
(* SWD is for a first array of any size, any limit to its growth and any   *)
(* number of transactions, in a build with assertions: SwdInv says where   *)
(* the answer to each transaction is, or what pointer it will go through.  *)
(*                                                                         *)
(* The adapter is for every layout whose signals a board can have, every   *)
(* table of ids and whatever devices are there.                            *)
(*                                                                         *)
(* A path is a sequence of TMS bits.  The rows of both tables are walked   *)
(* once, bit by bit (The tables of paths); TapWalk's invariant says how    *)
(* far along its path the chain is.  A command of FtdiJtag is a sequence   *)
(* of clocks; what clocks come to is put together from what each of them   *)
(* does (Clocks), for a move and a wait (Moves), for the bits of a field   *)
(* (Scans) and for those of several (Joining, Fields); JtagInv says that   *)
(* the driver is in step, and every command keeps it.                      *)
(***************************************************************************)
EXTENDS FtdiParts, SequenceTheorems, WellFoundedInduction, TLAPS

-----------------------------------------------------------------------------
(* SWD: the inductive invariant                                              *)

\* The queue holds the last of the c transactions there have been, in their order.
Queued(t, c) ==
  /\ Len(t.queue) <= t.alloced /\ Len(t.queue) <= c
  /\ \A i \in 1 .. Len(t.queue) : t.queue[i] = c - Len(t.queue) + i

\* The pointers below lead to the first h entries, each to another one.
Pointing(t, h) ==
  /\ \A n \in 1 .. Len(t.reads) :
       /\ t.reads[n].array = t.array
       /\ t.reads[n].index \in 1 .. h /\ t.reads[n].id = t.queue[t.reads[n].index]
  /\ \A n, m \in 1 .. Len(t.reads) : t.reads[n].index = t.reads[m].index => n = m
  /\ t.reads # << >> => t.writes

\* Each of the first h entries is still to be answered, or holds its own answer.
HoldsAnswer(t, i) ==
  /\ t.entries[i].id = t.queue[i]
  /\ t.entries[i].answer = t.answered[t.queue[i]] /\ t.entries[i].answer \in Swd!Answers
Answering(t, h) ==
  t.mpsse_retval = "ok" =>
    \A i \in 1 .. h : \/ \E n \in 1 .. Len(t.reads) : t.reads[n].index = i
                      \/ HoldsAnswer(t, i)

\* What has been stored is a read's own data; only those up to this one are.
Stored(t, last) ==
  \A id \in Swd!Numbers : t.dst[id] # 0 =>
    t.dst[id] = id /\ id <= last /\ calls[id] /\ t.answered[id] = "ok"

\* The transactions since the last run that have left the queue went well, up to the
\* error that is still to be told.
went_well(t, id) == /\ t.answered[id] = "ok" \/ (t.answered[id] = "parity" /\ ~calls[id])
                    /\ calls[id] => t.dst[id] = id
waited(t, c) == \E id \in told + 1 .. c :
                  /\ t.answered[id] = "wait"
                  /\ \A before \in told + 1 .. id - 1 : went_well(t, before)
Telling(t, c) ==
  /\ t.queued_retval = "ok" =>
       told <= c - Len(t.queue) /\ \A id \in told + 1 .. c - Len(t.queue) : went_well(t, id)
  /\ t.queued_retval = "wait" => waited(t, c)

\* All of this, of a state in which no assertion has failed.
Sound(t, c, h) ==
  /\ t \in Swd!State /\ ~t.aborted /\ t.mpsse_retval \in {"ok", "fail"}
  /\ h \in 0 .. Len(t.queue) /\ (t.queued_retval # "ok" => t.queue = << >>)
  /\ Queued(t, c) /\ Pointing(t, h) /\ Answering(t, h)
  /\ Stored(t, c - Len(t.queue)) /\ Telling(t, c)

SwdInv ==
  /\ Swd!TypeOK
  /\ Stored(s, Len(calls) - Len(s.queue))
  /\ ~s.aborted => Sound(s, Len(calls), Len(s.queue))

-----------------------------------------------------------------------------
(* SWD: what a flush may leave                                               *)

\* The driver's own part of the state is left alone, and so are the answers to what has
\* left the queue.
Kept(t, u, c) ==
  /\ u.queue = t.queue /\ u.alloced = t.alloced /\ u.array = t.array
  /\ u.dst = t.dst /\ u.queued_retval = t.queued_retval /\ u.aborted = t.aborted
  /\ \A id \in Swd!Numbers : id <= c - Len(t.queue) => u.answered[id] = t.answered[id]

LEMMA KeptAgain ==
  ASSUME NEW t, NEW u, NEW v, NEW c, Kept(t, u, c), Kept(u, v, c)
  PROVE  Kept(t, v, c)
  BY DEF Kept

\* What depends on nothing else stays as it is.
LEMMA KeptStays ==
  ASSUME NEW t, NEW u, NEW c \in Nat, t.queue \in Seq(Swd!Numbers), told \in Nat, MaxCalls \in Nat,
         c <= MaxCalls, Kept(t, u, c), t.queued_retval # "ok" => t.queue = << >>
  PROVE  /\ Queued(t, c) => Queued(u, c)
         /\ Stored(t, c - Len(t.queue)) => Stored(u, c - Len(u.queue))
         /\ Telling(t, c) => Telling(u, c)
  <1>1. Queued(t, c) => Queued(u, c)
    BY DEF Kept, Queued
  <1>2. Stored(t, c - Len(t.queue)) => Stored(u, c - Len(u.queue))
    BY DEF Kept, Stored
  <1>3. Len(t.queue) \in Nat
    OBVIOUS
  <1>4. \A id \in told + 1 .. c - Len(t.queue) : went_well(t, id) => went_well(u, id)
    <2>1. \A id \in told + 1 .. c - Len(t.queue) : id \in Swd!Numbers /\ id <= c - Len(t.queue)
      BY <1>3 DEF Swd!Numbers
    <2>  QED
      BY <2>1 DEF went_well, Kept
  <1>5. ASSUME Telling(t, c), t.queued_retval = "ok"  PROVE Telling(u, c)
    BY <1>3, <1>4, <1>5 DEF Telling, Kept
  <1>6. ASSUME Telling(t, c), t.queued_retval # "ok"  PROVE Telling(u, c)
    <2>1. c - Len(t.queue) = c
      BY <1>6
    <2>2. ASSUME waited(t, c)  PROVE waited(u, c)
      <3>1. PICK id \in told + 1 .. c :
              /\ t.answered[id] = "wait"
              /\ \A before \in told + 1 .. id - 1 : went_well(t, before)
        BY <2>2 DEF waited
      <3>2. u.answered[id] = "wait"
        BY <2>1, <3>1 DEF Kept, Swd!Numbers
      <3>3. \A before \in told + 1 .. id - 1 : before \in told + 1 .. c
        OBVIOUS
      <3>4. \A before \in told + 1 .. id - 1 : went_well(u, before)
        BY <1>4, <2>1, <3>1, <3>3
      <3>  QED
        BY <3>1, <3>2, <3>4 DEF waited
    <2>  QED
      BY <1>6, <2>2 DEF Telling, Kept
  <1>  QED
    BY <1>1, <1>2, <1>5, <1>6

\* Into none of the entries, no pointer leads.
LEMMA NoPointers ==
  ASSUME NEW t, t.reads \in Seq(Swd!Pointer), Pointing(t, 0)
  PROVE  t.reads = << >>
  <1> DEFINE len == Len(t.reads)
  <1>1. len \in Nat /\ \A n \in 1 .. len : t.reads[n].index \in 1 .. 0
    BY DEF Pointing
  <1>2. len = 0
    <2>1. \A n \in 1 .. len : FALSE
      BY <1>1
    <2>  HIDE DEF len
    <2>  QED
      BY <1>1, <2>1
  <1>  QED
    BY <1>2

\* The ids of a queue are different.
LEMMA QueueInjective ==
  ASSUME NEW t, NEW c \in Nat, t.queue \in Seq(Swd!Numbers), Queued(t, c),
         NEW i \in 1 .. Len(t.queue), NEW j \in 1 .. Len(t.queue), t.queue[i] = t.queue[j]
  PROVE  i = j
  <1> DEFINE queue == t.queue
             first == c - Len(queue)
  <1>1. \A k \in 1 .. Len(queue) : queue[k] = first + k
    BY Zenon DEF Queued
  <1>2. Len(queue) \in Nat
    <2>1. queue \in Seq(Swd!Numbers)
      OBVIOUS
    <2>  HIDE DEF queue
    <2>  QED
      BY <2>1
  <1>3. i \in 1 .. Len(queue) /\ j \in 1 .. Len(queue) /\ queue[i] = queue[j]
    OBVIOUS
  <1>  HIDE DEF queue
  <1>4. first \in Int /\ i \in Int /\ j \in Int
    BY <1>2, <1>3
  <1>  HIDE DEF first
  <1>5. first + i = first + j
    BY <1>1, <1>3, Zenon
  <1>  QED
    BY <1>4, <1>5

\* A flush that succeeds brings every answer to its entry and its transaction.
LEMMA Delivered ==
  ASSUME Swd!SwdAssumption, NEW t, NEW c \in Nat, NEW h, Sound(t, c, h), t.mpsse_retval = "ok",
         NEW answer \in [DOMAIN t.reads -> Swd!Answers], NEW u, u = Swd!answers_stored(t, answer)
  PROVE  /\ u \in Swd!State /\ Kept(t, u, c) /\ u.reads = << >> /\ u.mpsse_retval = "ok"
         /\ \A i \in 1 .. h : HoldsAnswer(u, i)
  <1> DEFINE here == {n \in DOMAIN t.reads : t.reads[n].array = t.array}
             into(i) == {n \in here : t.reads[n].index = i}
             last(i) == CHOOSE n \in into(i) : \A m \in into(i) : m <= n
             entry(i) == IF into(i) = {} THEN t.entries[i]
                         ELSE [id |-> t.reads[last(i)].id, answer |-> answer[last(i)]]
             whose(id) == CHOOSE n \in DOMAIN t.reads : t.reads[n].id = id
             told_of(id) == IF \E n \in DOMAIN t.reads : t.reads[n].id = id
                            THEN answer[whose(id)] ELSE t.answered[id]
  <1>1. u = [t EXCEPT !.reads = << >>, !.writes = FALSE,
                      !.entries = [i \in 1 .. MaxAlloc |-> entry(i)],
                      !.answered = [id \in Swd!Numbers |-> told_of(id)]]
    BY DEF Swd!answers_stored, Swd!purged, Sound, Swd!State
  <1>2. /\ t \in Swd!State /\ DOMAIN t.reads = 1 .. Len(t.reads) /\ Len(t.reads) \in Nat
        /\ t.queue \in Seq(Swd!Numbers) /\ Len(t.queue) \in Nat /\ h \in 0 .. Len(t.queue)
        /\ Pointing(t, h) /\ Queued(t, c)
    BY DEF Sound, Swd!State
  <1>3. ASSUME NEW n \in DOMAIN t.reads
        PROVE  /\ t.reads[n].index \in 1 .. h /\ t.reads[n].id = t.queue[t.reads[n].index]
               /\ t.reads[n].id \in Swd!Numbers /\ t.reads[n].id > c - Len(t.queue)
               /\ into(t.reads[n].index) = {n}
    <2>1. t.reads[n].index \in 1 .. h /\ t.reads[n].id = t.queue[t.reads[n].index]
      BY <1>2, <1>3 DEF Pointing
    <2>2. t.reads[n].index \in 1 .. Len(t.queue)
      BY <2>1, <1>2
    <2>3. t.reads[n].id \in Swd!Numbers
      BY <2>1, <2>2, <1>2
    <2>4. t.reads[n].id > c - Len(t.queue)
      <3>1. t.reads[n].id = c - Len(t.queue) + t.reads[n].index
        BY <2>1, <2>2, <1>2 DEF Queued
      <3>2. t.reads[n].index \in Nat /\ t.reads[n].index >= 1
        BY <2>2, <1>2
      <3>3. t.reads[n].id \in Nat /\ Len(t.queue) \in Nat
        BY <2>3, <1>2 DEF Swd!Numbers
      <3>  QED
        BY <3>1, <3>2, <3>3
    <2>5. into(t.reads[n].index) = {n}
      BY <1>2, <1>3 DEF Pointing
    <2>  QED
      BY <2>1, <2>3, <2>4, <2>5
  <1>4. ASSUME NEW n \in DOMAIN t.reads
        PROVE  /\ entry(t.reads[n].index) = [id |-> t.reads[n].id, answer |-> answer[n]]
               /\ told_of(t.reads[n].id) = answer[n]
    <2>1. last(t.reads[n].index) = n
      <3>1. into(t.reads[n].index) = {n} /\ n \in Int
        BY <1>2, <1>3, <1>4
      <3>  HIDE DEF into
      <3>2. \A m \in into(t.reads[n].index) : m <= n
        BY <3>1
      <3>  QED
        BY <3>1, <3>2
    <2>2. into(t.reads[n].index) # {}
      BY <1>3, <1>4
    <2>3. whose(t.reads[n].id) = n
      <3>1. PICK m \in DOMAIN t.reads : m = whose(t.reads[n].id) /\ t.reads[m].id = t.reads[n].id
        BY <1>4
      <3>  HIDE DEF into, last, entry, whose, told_of
      <3>a. t.reads[m].index \in 1 .. h /\ t.reads[n].index \in 1 .. h
        BY <1>3, <1>4, <3>1
      <3>b. 1 .. h \subseteq 1 .. Len(t.queue)
        BY <1>2
      <3>2. t.reads[m].index \in 1 .. Len(t.queue) /\ t.reads[n].index \in 1 .. Len(t.queue)
        BY <3>a, <3>b
      <3>3. t.queue[t.reads[m].index] = t.queue[t.reads[n].index]
        BY <1>3, <1>4, <3>1
      <3>4. t.reads[m].index = t.reads[n].index
        BY <1>2, <3>2, <3>3, QueueInjective
      <3>5. m = n
        BY <1>2, <3>1, <3>4 DEF Pointing
      <3>  QED
        BY <3>1, <3>5
    <2>  HIDE DEF into, last, whose
    <2>  QED
      BY <2>1, <2>2, <2>3
  <1>5. \A n \in DOMAIN t.reads : answer[n] \in Swd!Answers
    BY SMTT(30)
  <1>6. ASSUME NEW i \in 1 .. MaxAlloc  PROVE entry(i) \in Swd!Received
    <2>1. CASE into(i) = {}
      BY <2>1, <1>2, <1>6 DEF Swd!State
    <2>2. CASE into(i) # {}
      <3>1. PICK n \in DOMAIN t.reads : t.reads[n].index = i
        BY <2>2
      <3>  HIDE DEF entry, told_of
      <3>2. entry(i) = [id |-> t.reads[n].id, answer |-> answer[n]]
        BY <3>1, <1>4
      <3>  QED
        BY <3>1, <3>2, <1>3, <1>5 DEF Swd!Received
    <2>  QED
      BY <2>1, <2>2
  <1>7. ASSUME NEW id \in Swd!Numbers  PROVE told_of(id) \in Swd!Answers \cup {"none"}
    <2>1. CASE \E n \in DOMAIN t.reads : t.reads[n].id = id
      BY <2>1, <1>4, <1>5
    <2>2. CASE ~\E n \in DOMAIN t.reads : t.reads[n].id = id
      BY <2>2, <1>2, <1>7 DEF Swd!State
    <2>  QED
      BY <2>1, <2>2
  <1>8. ASSUME NEW i \in 1 .. h
        PROVE  entry(i).id = t.queue[i] /\ entry(i).answer = told_of(t.queue[i])
               /\ entry(i).answer \in Swd!Answers
    <2>1. CASE \E n \in DOMAIN t.reads : t.reads[n].index = i
      <3>1. PICK n \in DOMAIN t.reads : t.reads[n].index = i
        BY <2>1
      <3>2. t.reads[n].id = t.queue[i]
        BY <3>1, <1>3
      <3>  HIDE DEF entry, told_of
      <3>3. entry(i) = [id |-> t.reads[n].id, answer |-> answer[n]] /\ told_of(t.queue[i]) = answer[n]
        BY <3>1, <3>2, <1>4
      <3>  QED
        BY <3>1, <3>2, <3>3, <1>5
    <2>2. CASE ~\E n \in DOMAIN t.reads : t.reads[n].index = i
      <3>1. HoldsAnswer(t, i)
        BY <2>2, <1>2, <1>8 DEF Sound, Answering
      <3>2. into(i) = {}
        BY <2>2
      <3>3. ASSUME NEW n \in DOMAIN t.reads, t.reads[n].id = t.queue[i]  PROVE FALSE
        <4>1. t.reads[n].index \in 1 .. Len(t.queue) /\ i \in 1 .. Len(t.queue)
          BY <1>2, <1>3, <1>8, <3>3, SMTT(30)
        <4>2. t.queue[t.reads[n].index] = t.queue[i]
          BY <1>3, <3>3
        <4>3. t.reads[n].index = i
          BY <1>2, <4>1, <4>2, QueueInjective
        <4>  QED
          BY <4>3, <2>2, <3>3
      <3>4. told_of(t.queue[i]) = t.answered[t.queue[i]]
        BY <3>3
      <3>  QED
        BY <3>1, <3>2, <3>4 DEF HoldsAnswer
    <2>  QED
      BY <2>1, <2>2
  <1>9. ASSUME NEW id \in Swd!Numbers, id <= c - Len(t.queue)  PROVE told_of(id) = t.answered[id]
    BY <1>2, <1>3, <1>9 DEF Swd!Numbers
  <1>10. \A i \in 1 .. h : i \in 1 .. MaxAlloc /\ t.queue[i] \in Swd!Numbers
    BY <1>2 DEF Queued, Swd!State, Swd!SwdAssumption
  <1>  HIDE DEF entry, told_of
  <1>11. /\ u.entries = [i \in 1 .. MaxAlloc |-> entry(i)]
         /\ u.answered = [id \in Swd!Numbers |-> told_of(id)]
         /\ u.reads = << >> /\ u.writes = FALSE
         /\ u.queue = t.queue /\ u.alloced = t.alloced /\ u.array = t.array /\ u.dst = t.dst
         /\ u.queued_retval = t.queued_retval /\ u.mpsse_retval = t.mpsse_retval
         /\ u.aborted = t.aborted
    BY <1>1, <1>2 DEF Swd!State
  <1>12. u \in Swd!State
    <2>1. [i \in 1 .. MaxAlloc |-> entry(i)] \in [1 .. MaxAlloc -> Swd!Received]
      BY <1>6
    <2>2. [id \in Swd!Numbers |-> told_of(id)] \in [Swd!Numbers -> Swd!Answers \cup {"none"}]
      BY <1>7
    <2>  DEFINE entries == [i \in 1 .. MaxAlloc |-> entry(i)]
               answered == [id \in Swd!Numbers |-> told_of(id)]
    <2>3. u = [t EXCEPT !.reads = << >>, !.writes = FALSE, !.entries = entries,
                        !.answered = answered]
      BY <1>1
    <2>4. << >> \in Seq(Swd!Pointer)
      OBVIOUS
    <2>  HIDE DEF entries, answered
    <2>5. /\ entries \in [1 .. MaxAlloc -> Swd!Received]
          /\ answered \in [Swd!Numbers -> Swd!Answers \cup {"none"}]
      BY <2>1, <2>2 DEF entries, answered
    <2>  QED
      BY <1>2, <2>3, <2>4, <2>5, ZenonT(60) DEF Swd!State
  <1>13. Kept(t, u, c)
    BY <1>9, <1>11 DEF Kept
  <1>14. \A i \in 1 .. h : HoldsAnswer(u, i)
    BY <1>8, <1>10, <1>11 DEF HoldsAnswer
  <1>  QED
    BY <1>11, <1>12, <1>13, <1>14

\* One that fails throws away what waits.
LEMMA FlushSound ==
  ASSUME Swd!SwdAssumption, NEW t, NEW c \in Nat, NEW h, Sound(t, c, h), t.mpsse_retval = "ok",
         NEW f \in Swd!mpsse_flush(t)
  PROVE  /\ f.rc \in {"ok", "fail"}
         /\ f.state \in Swd!State /\ Kept(t, f.state, c)
         /\ f.state.reads = << >> /\ f.state.mpsse_retval = "ok"
         /\ f.rc = "ok" => \A i \in 1 .. h : HoldsAnswer(f.state, i)
  <1>1. CASE ~t.writes
    <2>1. f = [state |-> t, rc |-> "ok"]
      BY <1>1 DEF Swd!mpsse_flush
    <2>2. t.reads = << >> /\ t \in Swd!State /\ h \in Nat
      BY <1>1 DEF Sound, Pointing
    <2>3. \A i \in 1 .. h : HoldsAnswer(t, i)
      BY <2>2 DEF Sound, Answering
    <2>  QED
      BY <2>1, <2>2, <2>3 DEF Kept
  <1>2. CASE t.writes
    <2>1. CASE f \in {[state |-> u, rc |-> "ok"] : u \in Swd!delivered(t)}
      <3>1. PICK answer \in [DOMAIN t.reads -> Swd!Answers] :
              f = [state |-> Swd!answers_stored(t, answer), rc |-> "ok"]
        BY <2>1 DEF Swd!delivered
      <3>2. f.state = Swd!answers_stored(t, answer) /\ f.rc = "ok"
        BY <3>1
      <3>  QED
        BY <3>2, Delivered
    <2>2. CASE f = [state |-> Swd!purged(t), rc |-> "fail"]
      <3>1. f.state = [t EXCEPT !.reads = << >>, !.writes = FALSE] /\ f.rc = "fail"
        BY <2>2 DEF Swd!purged
      <3>2. t \in Swd!State /\ << >> \in Seq(Swd!Pointer)
        BY DEF Sound
      <3>3. f.state \in Swd!State /\ Kept(t, f.state, c)
        BY <3>1, <3>2, ZenonT(60) DEF Swd!State, Kept
      <3>  QED
        BY <3>1, <3>2, <3>3 DEF Swd!State
    <2>  QED
      BY <1>2, <2>1, <2>2 DEF Swd!mpsse_flush
  <1>  QED
    BY <1>1, <1>2

-----------------------------------------------------------------------------
(* SWD: commands                                                             *)

\* The pointers of a command: none, or the one to the last entry of the queue.
Points(t, p, h, k) ==
  \/ p = << >> /\ k = h
  \/ /\ k = Len(t.queue) /\ k = h + 1
     /\ p = <<[array |-> t.array, index |-> k, id |-> t.queue[k]]>>

\* A command that is added leaves the state sound.
LEMMA AddSound ==
  ASSUME Swd!SwdAssumption, NEW t, NEW c \in Nat, NEW h, Sound(t, c, h),
         NEW k, NEW p, Points(t, p, h, k),
         NEW u, u = [t EXCEPT !.reads = @ \o p, !.writes = TRUE]
  PROVE  Sound(u, c, k) /\ Kept(t, u, c)
  <1>1. /\ t \in Swd!State /\ t.queue \in Seq(Swd!Numbers) /\ Len(t.queue) \in Nat
        /\ h \in 0 .. Len(t.queue)
        /\ t.reads \in Seq(Swd!Pointer) /\ Len(t.reads) \in Nat /\ Queued(t, c) /\ Pointing(t, h)
    BY DEF Sound, Swd!State
  <1>2. k \in h .. Len(t.queue)
    BY <1>1 DEF Points
  <1>3. p \in Seq(Swd!Pointer)
    <2>1. CASE p = << >>
      BY <2>1
    <2>2. CASE p # << >>
      <3>1. k \in 1 .. MaxAlloc /\ t.queue[k] \in Swd!Numbers /\ t.array \in Nat
        BY <1>1, <2>2 DEF Points, Queued, Swd!State, Swd!SwdAssumption
      <3>2. [array |-> t.array, index |-> k, id |-> t.queue[k]] \in Swd!Pointer
        BY <3>1 DEF Swd!Pointer
      <3>  DEFINE pointer == [array |-> t.array, index |-> k, id |-> t.queue[k]]
      <3>3. p = <<pointer>>
        BY <2>2 DEF Points
      <3>  HIDE DEF pointer
      <3>4. <<pointer>> \in Seq(Swd!Pointer)
        BY <3>2 DEF pointer
      <3>  QED
        BY <3>3, <3>4
    <2>  QED
      BY <2>1, <2>2
  <1>4. t.reads \o p \in Seq(Swd!Pointer)
    BY <1>1, <1>3, ConcatProperties
  <1>  DEFINE reads == t.reads \o p
  <1>5. /\ \A n \in 1 .. Len(t.reads) : reads[n] = t.reads[n]
        /\ p = << >> => Len(reads) = Len(t.reads)
        /\ p # << >> => Len(reads) = Len(t.reads) + 1 /\ reads[Len(t.reads) + 1] = p[1]
        /\ Len(reads) \in Nat
    <2>1. /\ Len(reads) = Len(t.reads) + Len(p)
          /\ \A n \in 1 .. Len(t.reads) + Len(p) :
               reads[n] = IF n <= Len(t.reads) THEN t.reads[n] ELSE p[n - Len(t.reads)]
      BY <1>1, <1>3, ConcatProperties
    <2>2. p = << >> => Len(p) = 0
      OBVIOUS
    <2>3. p # << >> => Len(p) = 1
      BY DEF Points
    <2>  HIDE DEF reads
    <2>4. \A n \in 1 .. Len(t.reads) : reads[n] = t.reads[n]
      BY <1>1, <2>1, <2>2, <2>3
    <2>5. ASSUME p # << >>  PROVE reads[Len(t.reads) + 1] = p[1]
      <3>1. /\ Len(t.reads) + 1 \in 1 .. Len(t.reads) + Len(p)
            /\ ~(Len(t.reads) + 1 <= Len(t.reads)) /\ (Len(t.reads) + 1) - Len(t.reads) = 1
        BY <1>1, <2>3, <2>5
      <3>  QED
        BY <2>1, <3>1
    <2>6. Len(p) \in Nat
      BY <2>2, <2>3
    <2>7. Len(reads) \in Nat /\ Len(reads) = Len(t.reads) + Len(p)
      BY <1>1, <2>1, <2>6
    <2>8. p = << >> => Len(reads) = Len(t.reads)
      BY <1>1, <2>2, <2>7
    <2>9. p # << >> => Len(reads) = Len(t.reads) + 1
      BY <2>3, <2>7
    <2>  QED
      BY <2>4, <2>5, <2>7, <2>8, <2>9
  <1>  HIDE DEF reads
  <1>6. /\ u.reads = reads /\ u.writes = TRUE /\ u.queue = t.queue /\ u.alloced = t.alloced
        /\ u.array = t.array /\ u.dst = t.dst /\ u.queued_retval = t.queued_retval
        /\ u.mpsse_retval = t.mpsse_retval /\ u.aborted = t.aborted /\ u.entries = t.entries
        /\ u.answered = t.answered
    BY <1>1 DEF Swd!State, reads
  <1>7. u \in Swd!State
    <2>1. u = [t EXCEPT !.reads = reads, !.writes = TRUE] /\ reads \in Seq(Swd!Pointer)
      BY <1>1, <1>4 DEF Swd!State, reads
    <2>  QED
      BY <1>1, <2>1 DEF Swd!State
  <1>8. Pointing(u, k)
    <2>1. ASSUME NEW n \in 1 .. Len(reads)
          PROVE  /\ reads[n].array = t.array /\ reads[n].index \in 1 .. k
                 /\ reads[n].id = t.queue[reads[n].index]
                 /\ n \notin 1 .. Len(t.reads) => reads[n].index = h + 1
      <3>1. CASE n \in 1 .. Len(t.reads)
        BY <1>1, <1>2, <1>5, <3>1, SMTT(30) DEF Pointing
      <3>2. CASE n \notin 1 .. Len(t.reads)
        <4>1. n = Len(t.reads) + 1 /\ p # << >>
          BY <1>1, <1>5, <3>2
        <4>2. reads[n] = [array |-> t.array, index |-> k, id |-> t.queue[k]] /\ k = h + 1
          BY <1>5, <4>1 DEF Points
        <4>  QED
          BY <1>1, <1>2, <3>2, <4>2
      <3>  QED
        BY <3>1, <3>2
    <2>2. ASSUME NEW n \in 1 .. Len(reads), NEW m \in 1 .. Len(reads), reads[n].index = reads[m].index
          PROVE  n = m
      <3>1. CASE n \in 1 .. Len(t.reads) /\ m \in 1 .. Len(t.reads)
        BY <1>1, <1>5, <2>2, <3>1 DEF Pointing
      <3>2. CASE n \notin 1 .. Len(t.reads) /\ m \notin 1 .. Len(t.reads)
        BY <1>1, <1>5, <3>2
      <3>3. \A l \in 1 .. Len(t.reads) : reads[l].index \in 1 .. h
        BY <1>1, <1>5 DEF Pointing
      <3>  QED
        BY <1>1, <2>1, <2>2, <3>1, <3>2, <3>3
    <2>3. u.reads # << >> => u.writes
      BY <1>6
    <2>4. \A n \in 1 .. Len(u.reads) :
            /\ u.reads[n].array = u.array
            /\ u.reads[n].index \in 1 .. k /\ u.reads[n].id = u.queue[u.reads[n].index]
      BY <1>6, <2>1, ZenonT(60)
    <2>5. ASSUME NEW n \in 1 .. Len(u.reads), NEW m \in 1 .. Len(u.reads),
                 u.reads[n].index = u.reads[m].index
          PROVE  n = m
      <3>1. n \in 1 .. Len(reads) /\ m \in 1 .. Len(reads) /\ reads[n].index = reads[m].index
        BY <1>6, <2>5
      <3>  QED
        BY <2>2, <3>1
    <2>  QED
      BY <2>3, <2>4, <2>5 DEF Pointing
  <1>9. Answering(u, k)
    <2>1. ASSUME t.mpsse_retval = "ok", NEW i \in 1 .. k
          PROVE  (\E n \in 1 .. Len(reads) : reads[n].index = i) \/ HoldsAnswer(u, i)
      <3>1. CASE i \in 1 .. h
        <4>1. CASE \E n \in 1 .. Len(t.reads) : t.reads[n].index = i
          BY <1>1, <1>5, <4>1
        <4>2. CASE HoldsAnswer(t, i)
          BY <1>6, <4>2 DEF HoldsAnswer
        <4>  QED
          BY <2>1, <3>1, <4>1, <4>2 DEF Sound, Answering
      <3>2. CASE i \notin 1 .. h
        <4>1. i = k /\ p = <<[array |-> t.array, index |-> k, id |-> t.queue[k]]>>
          BY <1>1, <1>2, <2>1, <3>2 DEF Points
        <4>2. reads[Len(t.reads) + 1].index = i /\ Len(t.reads) + 1 \in 1 .. Len(reads)
          BY <1>1, <1>5, <4>1
        <4>  QED
          BY <4>2
      <3>  QED
        BY <3>1, <3>2
    <2>  QED
      BY <1>6, <2>1 DEF Answering
  <1>10. Kept(t, u, c)
    BY <1>6 DEF Kept
  <1>11. Queued(u, c) /\ Stored(u, c - Len(u.queue)) /\ Telling(u, c)
    BY <1>6 DEF Sound, Queued, Stored, Telling, went_well, waited
  <1>  QED
    BY <1>1, <1>2, <1>6, <1>7, <1>8, <1>9, <1>10, <1>11 DEF Sound

\* After a flush the state is sound again, with its result remembered.
LEMMA FlushedSound ==
  ASSUME Swd!SwdAssumption, NEW t, NEW c \in Nat, c <= MaxCalls, told \in Nat, NEW h,
         Sound(t, c, h),
         t.mpsse_retval = "ok", NEW f \in Swd!mpsse_flush(t),
         NEW v, v = [f.state EXCEPT !.mpsse_retval = f.rc]
  PROVE  Sound(v, c, h) /\ Kept(t, v, c)
  <1>1. /\ f.rc \in {"ok", "fail"} /\ f.state \in Swd!State /\ Kept(t, f.state, c)
        /\ f.state.reads = << >>
        /\ f.rc = "ok" => \A i \in 1 .. h : HoldsAnswer(f.state, i)
    BY FlushSound
  <1>2. v \in Swd!State /\ v.mpsse_retval = f.rc /\ v.reads = << >>
    BY <1>1 DEF Swd!State, Swd!Retval
  <1>3. /\ v.queue = f.state.queue /\ v.alloced = f.state.alloced /\ v.array = f.state.array
        /\ v.dst = f.state.dst /\ v.queued_retval = f.state.queued_retval
        /\ v.aborted = f.state.aborted /\ v.entries = f.state.entries
        /\ v.answered = f.state.answered
    BY <1>1 DEF Swd!State
  <1>4. Kept(t, v, c)
    BY <1>1, <1>3 DEF Kept
  <1>5. /\ t.queue \in Seq(Swd!Numbers) /\ MaxCalls \in Nat
        /\ (t.queued_retval # "ok" => t.queue = << >>)
    BY DEF Sound, Swd!State, Swd!SwdAssumption
  <1>6. Queued(v, c) /\ Stored(v, c - Len(v.queue)) /\ Telling(v, c)
    BY <1>4, <1>5, KeptStays DEF Sound
  <1>7. Pointing(v, h)
    <2>1. Len(v.reads) = 0
      BY <1>2
    <2>  QED
      BY <1>2, <2>1 DEF Pointing
  <1>8. Answering(v, h)
    BY <1>1, <1>2, <1>3 DEF Answering, HoldsAnswer
  <1>9. /\ ~v.aborted /\ h \in 0 .. Len(v.queue) /\ (v.queued_retval # "ok" => v.queue = << >>)
    BY <1>4 DEF Kept, Sound
  <1>  QED
    BY <1>1, <1>2, <1>4, <1>6, <1>7, <1>8, <1>9 DEF Sound

\* Whatever a command comes to, the state is sound.
LEMMA CommandSound ==
  ASSUME Swd!SwdAssumption, NEW t, NEW c \in Nat, c <= MaxCalls, told \in Nat, NEW h,
         Sound(t, c, h),
         NEW k, NEW p, Points(t, p, h, k), NEW u \in Swd!mpsse_command(t, p)
  PROVE  Sound(u, c, k) /\ Kept(t, u, c)
  <1> DEFINE add(v) == [v EXCEPT !.reads = @ \o p, !.writes = TRUE]
  <1>1. CASE t.mpsse_retval # "ok"
    <2>1. u = t
      BY <1>1 DEF Swd!mpsse_command
    <2>2. k \in h .. Len(t.queue) /\ k \in 0 .. Len(t.queue) /\ h \in Nat
      BY DEF Points, Sound, Swd!State
    <2>3. Pointing(t, k)
      <3>1. Pointing(t, h)
        BY DEF Sound
      <3>2. \A index \in 1 .. h : index \in 1 .. k
        BY <2>2
      <3>  QED
        BY <3>1, <3>2 DEF Pointing
    <2>4. Answering(t, k)
      BY <1>1 DEF Answering
    <2>  QED
      BY <2>1, <2>2, <2>3, <2>4 DEF Sound, Kept
  <1>2. CASE u = add(t)
    BY <1>2, AddSound
  <1>3. CASE t.mpsse_retval = "ok" /\ \E f \in Swd!mpsse_flush(t) :
               u = add([f.state EXCEPT !.mpsse_retval = f.rc])
    <2>1. PICK f \in Swd!mpsse_flush(t) : u = add([f.state EXCEPT !.mpsse_retval = f.rc])
      BY <1>3
    <2>  DEFINE v == [f.state EXCEPT !.mpsse_retval = f.rc]
    <2>2. Sound(v, c, h) /\ Kept(t, v, c)
      BY <1>3, FlushedSound
    <2>  HIDE DEF v
    <2>3. Points(v, p, h, k)
      BY <2>2 DEF Points, Kept
    <2>4. u = [v EXCEPT !.reads = @ \o p, !.writes = TRUE]
      BY <2>1 DEF v
    <2>5. Sound(u, c, k) /\ Kept(v, u, c)
      BY <2>2, <2>3, <2>4, AddSound
    <2>  QED
      BY <2>2, <2>5, KeptAgain
  <1>  QED
    BY <1>1, <1>2, <1>3 DEF Swd!mpsse_command

LEMMA LedSound ==
  ASSUME Swd!SwdAssumption, NEW t, NEW c \in Nat, c <= MaxCalls, told \in Nat, NEW h,
         Sound(t, c, h),
         NEW u \in Swd!set_led(t)
  PROVE  Sound(u, c, h) /\ Kept(t, u, c)
  <1>1. CASE HasLed
    <2>1. u \in Swd!mpsse_command(t, << >>)
      BY <1>1 DEF Swd!set_led
    <2>  QED
      BY <2>1, CommandSound DEF Points
  <1>2. CASE ~HasLed
    BY <1>2 DEF Swd!set_led, Kept
  <1>  QED
    BY <1>1, <1>2

-----------------------------------------------------------------------------
(* SWD: running the queue                                                    *)

\* Numbers have a least one.
LEMMA LeastNat ==
  ASSUME NEW T \in SUBSET Nat, T # {}
  PROVE  \E least \in T : \A n \in T : least <= n
  <1>1. IsWellFoundedOn(OpToRel(<, Nat), Nat)
    BY NatLessThanWellFounded
  <1>2. PICK least \in T : \A n \in T : ~(<<n, least>> \in OpToRel(<, Nat))
    <2>  HIDE DEF OpToRel
    <2>  QED
      BY <1>1, WFMin, Zenon
  <1>3. \A n \in T : ~(n < least)
    BY <1>2 DEF OpToRel
  <1>4. \A n \in T : n \in Nat /\ least \in Nat
    BY <1>2
  <1>5. \A n \in T : least <= n
    BY <1>3, <1>4
  <1>  QED
    BY <1>2, <1>5

\* What looking at the answers of a flush that succeeded gives.
LEMMA LookedAt ==
  ASSUME Swd!SwdAssumption, NEW t \in Swd!State, NEW c \in Nat, c <= MaxCalls, told \in Nat,
         Queued(t, c), Stored(t, c - Len(t.queue)), Telling(t, c), t.queued_retval = "ok",
         \A i \in 1 .. Len(t.queue) : HoldsAnswer(t, i),
         NEW u, u = Swd!looked_at(t)
  PROVE  /\ u \in Swd!State /\ u.reads = t.reads /\ u.writes = t.writes /\ u.alloced = t.alloced
         /\ u.aborted = t.aborted /\ u.mpsse_retval = t.mpsse_retval
         /\ Stored(u, c)
         /\ u.queued_retval = "ok" => \A id \in told + 1 .. c : went_well(u, id)
         /\ u.queued_retval = "wait" => waited(u, c)
  <1> DEFINE bad == {i \in DOMAIN t.queue : Swd!is_bad(t, i)}
             first == CHOOSE i \in bad : \A j \in bad : i <= j
             done == IF bad = {} THEN DOMAIN t.queue ELSE 1 .. first - 1
             result == IF bad = {} THEN "ok" ELSE Swd!error_of(t.entries[first].answer)
             picked(id) == CHOOSE i \in done : t.queue[i] = id
             stored(id) == IF \E i \in done : t.queue[i] = id /\ Swd!is_read(id)
                           THEN t.entries[picked(id)].id ELSE t.dst[id]
  <1>1. u = [t EXCEPT !.queued_retval = result, !.dst = [id \in Swd!Numbers |-> stored(id)]]
    BY DEF Swd!looked_at
  <1>2. /\ DOMAIN t.queue = 1 .. Len(t.queue) /\ Len(t.queue) \in Nat
        /\ t.queue \in Seq(Swd!Numbers)
        /\ \A i \in 1 .. Len(t.queue) : t.queue[i] \in Swd!Numbers
    BY DEF Swd!State
  <1>3. ASSUME bad # {}  PROVE first \in bad /\ \A j \in bad : first <= j
    <2>1. bad \in SUBSET Nat
      BY <1>2
    <2>  HIDE DEF bad
    <2>2. \E i \in bad : \A j \in bad : i <= j
      BY <1>3, <2>1, LeastNat
    <2>  QED
      BY <2>2
  <1>4. /\ done \subseteq 1 .. Len(t.queue) /\ \A i \in done : ~Swd!is_bad(t, i)
        /\ bad # {} => first \in 1 .. Len(t.queue)
    <2>1. CASE bad = {}
      BY <1>2, <2>1
    <2>2. CASE bad # {}
      <3>1. first \in 1 .. Len(t.queue) /\ done = 1 .. first - 1
        BY <1>2, <1>3, <2>2
      <3>2. ASSUME NEW i \in done  PROVE ~Swd!is_bad(t, i)
        <4>1. i \in 1 .. Len(t.queue) /\ ~(first <= i)
          BY <1>2, <3>1, <3>2, SMTT(30)
        <4>  HIDE DEF first, done
        <4>  QED
          BY <1>2, <1>3, <2>2, <4>1
      <3>  HIDE DEF bad, first, done
      <3>3. 1 .. first - 1 \subseteq 1 .. Len(t.queue)
        BY <1>2, <3>1
      <3>  QED
        BY <3>1, <3>2, <3>3
    <2>  QED
      BY <2>1, <2>2
  <1>  HIDE DEF bad, first, done
  <1>5. ASSUME NEW i \in done
        PROVE  /\ i \in 1 .. Len(t.queue) /\ t.queue[i] \in Swd!Numbers /\ t.queue[i] <= c
               /\ picked(t.queue[i]) = i /\ t.entries[i].id = t.queue[i]
               /\ t.answered[t.queue[i]] \in {"ok", "parity"}
               /\ Swd!is_read(t.queue[i]) => t.answered[t.queue[i]] = "ok"
    <2>1. i \in 1 .. Len(t.queue) /\ t.queue[i] \in Swd!Numbers
      BY <1>2, <1>4
    <2>2. t.queue[i] <= c
      <3>  DEFINE len == Len(t.queue)
      <3>1. t.queue[i] = c - len + i /\ len \in Nat /\ i \in 1 .. len
        BY <1>2, <2>1 DEF Queued
      <3>  HIDE DEF len
      <3>2. c - len + i <= c
        BY <3>1
      <3>  QED
        BY <3>1, <3>2
    <2>3. picked(t.queue[i]) = i
      <3>1. PICK j \in done : j = picked(t.queue[i]) /\ t.queue[j] = t.queue[i]
        OBVIOUS
      <3>2. j = i
        BY <1>2, <1>4, <3>1, QueueInjective
      <3>  QED
        BY <3>1, <3>2
    <2>4. HoldsAnswer(t, i) /\ ~Swd!is_bad(t, i)
      BY <1>4, <2>1
    <2>5. t.answered[t.queue[i]] \in {"ok", "parity"}
          /\ (Swd!is_read(t.queue[i]) => t.answered[t.queue[i]] = "ok")
      BY <2>4 DEF HoldsAnswer, Swd!is_bad
    <2>  QED
      BY <2>1, <2>2, <2>3, <2>4, <2>5 DEF HoldsAnswer
  <1>6. ASSUME NEW i \in done, Swd!is_read(t.queue[i])  PROVE stored(t.queue[i]) = t.queue[i]
    <2>  HIDE DEF picked
    <2>  QED
      BY <1>5, <1>6
  <1>7. ASSUME NEW id, ~\E i \in done : t.queue[i] = id /\ Swd!is_read(id)  PROVE stored(id) = t.dst[id]
    BY <1>7
  <1>8. result \in Swd!Retval /\ (result = "ok" => bad = {})
        /\ (result = "wait" => bad # {} /\ t.entries[first].answer = "wait")
    BY DEF Swd!Retval, Swd!error_of
  <1>9. ASSUME NEW id \in Swd!Numbers
        PROVE  stored(id) \in Swd!Numbers \cup {0}
               /\ (stored(id) # 0 => stored(id) = id /\ id <= c /\ calls[id] /\ t.answered[id] = "ok")
    <2>1. CASE \E i \in done : t.queue[i] = id /\ Swd!is_read(id)
      <3>1. PICK i \in done : t.queue[i] = id /\ Swd!is_read(id)
        BY <2>1
      <3>  HIDE DEF stored
      <3>  QED
        BY <1>5, <1>6, <3>1 DEF Swd!is_read
    <2>2. CASE ~\E i \in done : t.queue[i] = id /\ Swd!is_read(id)
      <3>1. stored(id) = t.dst[id] /\ t.dst[id] \in Swd!Numbers \cup {0}
        BY <1>7, <2>2 DEF Swd!State
      <3>  HIDE DEF stored
      <3>2. id <= c - Len(t.queue) => id <= c
        BY <1>2 DEF Swd!Numbers
      <3>  QED
        BY <3>1, <3>2 DEF Stored
    <2>  QED
      BY <2>1, <2>2
  <1>  HIDE DEF result, stored
  <1>10. /\ u.queued_retval = result /\ u.dst = [id \in Swd!Numbers |-> stored(id)]
         /\ u.reads = t.reads /\ u.writes = t.writes /\ u.alloced = t.alloced
         /\ u.aborted = t.aborted /\ u.mpsse_retval = t.mpsse_retval /\ u.answered = t.answered
    BY <1>1 DEF Swd!State
  <1>11. u \in Swd!State
    <2>  DEFINE dst == [id \in Swd!Numbers |-> stored(id)]
    <2>1. dst \in [Swd!Numbers -> Swd!Numbers \cup {0}]
      BY <1>9
    <2>2. u = [t EXCEPT !.queued_retval = result, !.dst = dst]
      BY <1>1
    <2>  HIDE DEF dst
    <2>  QED
      BY <1>8, <2>1, <2>2 DEF Swd!State
  <1>12. Stored(u, c)
    BY <1>9, <1>10 DEF Stored
  <1>13. told <= c - Len(t.queue)
         /\ \A id \in told + 1 .. c - Len(t.queue) : went_well(t, id)
    BY DEF Telling
  <1>14. ASSUME NEW id \in told + 1 .. c,
                id <= c - Len(t.queue) \/ \E i \in done : t.queue[i] = id
         PROVE  went_well(u, id)
    <2>1. id \in Swd!Numbers /\ u.dst[id] = stored(id)
      BY <1>10, Swd!SwdAssumption DEF Swd!Numbers, Swd!SwdAssumption
    <2>2. CASE \E i \in done : t.queue[i] = id
      <3>1. PICK i \in done : t.queue[i] = id
        BY <2>2
      <3>  QED
        BY <1>5, <1>6, <1>10, <2>1, <3>1 DEF went_well, Swd!is_read
    <2>3. CASE id <= c - Len(t.queue)
      <3>1. went_well(t, id)
        BY <1>2, <1>13, <2>3
      <3>2. ASSUME NEW i \in done  PROVE t.queue[i] # id
        <4>1. i \in 1 .. Len(t.queue)
          BY <1>5
        <4>2. t.queue[i] = c - Len(t.queue) + i
          BY <4>1 DEF Queued
        <4>  DEFINE len == Len(t.queue)
        <4>3. len \in Nat /\ i \in 1 .. len /\ id \in Nat /\ id <= c - len
          BY <1>2, <2>1, <2>3, <4>1 DEF Swd!Numbers
        <4>  HIDE DEF len
        <4>4. c - len + i # id
          BY <4>3
        <4>  QED
          BY <4>2, <4>4 DEF len
      <3>3. stored(id) = t.dst[id]
        BY <1>7, <3>2
      <3>  QED
        BY <1>10, <2>1, <3>1, <3>3 DEF went_well
    <2>  QED
      BY <1>14, <2>2, <2>3
  <1>15. ASSUME NEW id \in told + 1 .. c, ~(id <= c - Len(t.queue))
         PROVE  id - (c - Len(t.queue)) \in 1 .. Len(t.queue)
                /\ t.queue[id - (c - Len(t.queue))] = id
    <2>1. id - (c - Len(t.queue)) \in 1 .. Len(t.queue)
      BY <1>2, <1>13, <1>15
    <2>2. t.queue[id - (c - Len(t.queue))] = c - Len(t.queue) + (id - (c - Len(t.queue)))
      BY <2>1 DEF Queued
    <2>  DEFINE len == Len(t.queue)
    <2>3. len \in Nat
      BY <1>2
    <2>  HIDE DEF len
    <2>4. c - len + (id - (c - len)) = id
      BY <2>3
    <2>  QED
      BY <2>1, <2>2, <2>4 DEF len
  <1>16. ASSUME result = "ok"  PROVE \A id \in told + 1 .. c : went_well(u, id)
    <2>1. done = 1 .. Len(t.queue)
      BY <1>2, <1>8, <1>16 DEF done
    <2>  QED
      BY <1>14, <1>15, <2>1
  <1>17. ASSUME result = "wait"  PROVE waited(u, c)
    <2>1. bad # {} /\ first \in 1 .. Len(t.queue) /\ done = 1 .. first - 1
      BY <1>4, <1>8, <1>17 DEF done
    <2>2. HoldsAnswer(t, first) /\ t.entries[first].answer = "wait"
      BY <1>8, <1>17, <2>1
    <2>3. t.queue[first] = c - Len(t.queue) + first
      BY <2>1 DEF Queued
    <2>4. t.queue[first] \in told + 1 .. c
      <3>  DEFINE len == Len(t.queue)
      <3>1. told <= c - len /\ len \in Nat /\ first \in 1 .. len
        BY <1>2, <1>13, <2>1
      <3>  HIDE DEF len
      <3>2. c - len + first \in told + 1 .. c
        BY <3>1
      <3>  QED
        BY <2>3, <3>2 DEF len
    <2>5. u.answered[t.queue[first]] = "wait"
      BY <1>10, <2>2 DEF HoldsAnswer
    <2>6. ASSUME NEW before \in told + 1 .. t.queue[first] - 1  PROVE went_well(u, before)
      <3>  DEFINE len == Len(t.queue)
      <3>0. before \in told + 1 .. (c - len + first) - 1 /\ len \in Nat /\ first \in 1 .. len
        BY <1>2, <2>1, <2>3, <2>6
      <3>  HIDE DEF len
      <3>1. before \in told + 1 .. c
        BY <3>0
      <3>2. CASE before <= c - Len(t.queue)
        BY <1>14, <3>1, <3>2
      <3>3. CASE ~(before <= c - Len(t.queue))
        <4>0. ~(before <= c - len)
          BY <3>3 DEF len
        <4>1. t.queue[before - (c - Len(t.queue))] = before
          BY <1>15, <3>1, <3>3
        <4>2. before - (c - len) \in 1 .. first - 1
          BY <3>0, <4>0
        <4>3. \E i \in done : t.queue[i] = before
          BY <2>1, <4>1, <4>2 DEF len
        <4>  QED
          BY <1>14, <3>1, <4>3
      <3>  QED
        BY <3>2, <3>3
    <2>  QED
      BY <2>4, <2>5, <2>6 DEF waited
  <1>  QED
    BY <1>10, <1>11, <1>12, <1>16, <1>17

\* What a run of the queue leaves and tells.
Ran(r, c) ==
  /\ r.rc \in Swd!Retval /\ r.state \in Swd!State
  /\ r.state.queue = << >> /\ r.state.queued_retval = "ok"
  /\ r.state.aborted => r.rc # "ok"
  /\ ~r.state.aborted => r.state.reads = << >> /\ r.state.mpsse_retval \in {"ok", "fail"}
  /\ Stored(r.state, c)
  /\ r.rc = "ok" => \A id \in told + 1 .. c : went_well(r.state, id)
  /\ r.rc = "wait" => waited(r.state, c)

LEMMA SkipRan ==
  ASSUME Swd!SwdAssumption, NEW t \in Swd!State, NEW c \in Nat, c <= MaxCalls,
         told \in Nat, told <= c,
         Stored(t, c), t.aborted => t.queued_retval # "ok",
         ~t.aborted => t.reads = << >> /\ t.mpsse_retval \in {"ok", "fail"},
         t.queued_retval = "ok" => \A id \in told + 1 .. c : went_well(t, id),
         t.queued_retval = "wait" => waited(t, c),
         NEW r \in Swd!skip(t)
  PROVE  Ran(r, c)
  <1> DEFINE u == [t EXCEPT !.queue = << >>, !.queued_retval = "ok"]
  <1>1. PICK v \in (IF t.queued_retval = "ok" THEN Swd!set_led(u) ELSE {u}) :
          r = [state |-> v, rc |-> t.queued_retval]
    BY DEF Swd!skip
  <1>2. /\ u \in Swd!State /\ u.queue = << >> /\ u.queued_retval = "ok" /\ u.reads = t.reads
        /\ u.aborted = t.aborted /\ u.mpsse_retval = t.mpsse_retval /\ u.dst = t.dst
        /\ u.answered = t.answered
    <2>1. << >> \in Seq(Swd!Numbers)
      OBVIOUS
    <2>  QED
      BY <2>1 DEF Swd!State, Swd!Retval
  <1>3. t.queued_retval \in Swd!Retval
    BY DEF Swd!State
  <1>  HIDE DEF u
  <1>4. Stored(u, c)
    BY <1>2 DEF Stored
  <1>5. \A id \in told + 1 .. c : went_well(t, id) => went_well(u, id)
    BY <1>2 DEF went_well
  <1>6. CASE t.queued_retval # "ok"
    <2>1. r.state = u /\ r.rc = t.queued_retval
      BY <1>1, <1>6
    <2>2. waited(t, c) => waited(u, c)
      BY <1>2 DEF waited, went_well
    <2>  QED
      BY <1>2, <1>3, <1>4, <1>6, <2>1, <2>2 DEF Ran
  <1>7. CASE t.queued_retval = "ok"
    <2>1. r.state = v /\ r.rc = "ok" /\ v \in Swd!set_led(u)
      BY <1>1, <1>7
    <2>2. Len(u.queue) = 0 /\ Len(u.reads) = 0 /\ ~u.aborted /\ u.alloced \in Nat
      BY <1>2, <1>7 DEF Swd!State
    <2>3. Sound(u, c, 0)
      <3>1. Queued(u, c) /\ Pointing(u, 0) /\ Answering(u, 0)
        BY <1>2, <1>7, <2>2 DEF Queued, Pointing, Answering
      <3>2. Telling(u, c)
        BY <1>2, <1>5, <1>7, <2>2 DEF Telling
      <3>3. c - Len(u.queue) = c
        BY <2>2
      <3>4. u.mpsse_retval \in {"ok", "fail"}
        BY <1>2, <2>2
      <3>5. Stored(u, c - Len(u.queue))
        BY <1>4, <3>3
      <3>  QED
        BY <1>2, <2>2, <3>1, <3>2, <3>4, <3>5 DEF Sound
    <2>4. Sound(v, c, 0) /\ Kept(u, v, c)
      BY <2>1, <2>3, LedSound
    <2>5. v.queue = << >> /\ v.queued_retval = "ok" /\ Len(v.queue) = 0 /\ c - Len(v.queue) = c
      BY <1>2, <2>2, <2>4 DEF Kept
    <2>6. v.reads = << >>
      <3>1. Pointing(v, 0) /\ v.reads \in Seq(Swd!Pointer)
        BY <2>4 DEF Sound, Swd!State
      <3>  QED
        BY <3>1, NoPointers
    <2>7. \A id \in told + 1 .. c : went_well(v, id)
      BY <2>4, <2>5 DEF Sound, Telling
    <2>8. Stored(v, c) /\ v \in Swd!State /\ ~v.aborted /\ v.mpsse_retval \in {"ok", "fail"}
      BY <2>4, <2>5 DEF Sound
    <2>  QED
      BY <2>1, <2>5, <2>6, <2>7, <2>8 DEF Ran, Swd!Retval
  <1>  QED
    BY <1>6, <1>7

\* Whatever a run comes to, it is as it should be.
LEMMA RunRan ==
  ASSUME Swd!SwdAssumption, ~NDEBUG, NEW t, NEW c \in Nat, c <= MaxCalls, told \in Nat, told <= c,
         Sound(t, c, Len(t.queue)), NEW r \in Swd!run_queue(t)
  PROVE  Ran(r, c)
  <1>1. CASE t.queued_retval # "ok"
    <2>1. r \in Swd!skip(t)
      BY <1>1 DEF Swd!run_queue
    <2>2. t.queue = << >> /\ Len(t.queue) = 0 /\ c - Len(t.queue) = c
      BY <1>1 DEF Sound
    <2>3. t.reads = << >>
      <3>1. Pointing(t, 0) /\ t.reads \in Seq(Swd!Pointer)
        BY <2>2 DEF Sound, Swd!State
      <3>  QED
        BY <3>1, NoPointers
    <2>4. /\ t \in Swd!State /\ Stored(t, c) /\ ~t.aborted /\ t.mpsse_retval \in {"ok", "fail"}
          /\ t.queued_retval = "wait" => waited(t, c)
      BY <1>1, <2>2 DEF Sound, Telling
    <2>  QED
      BY <1>1, <2>1, <2>3, <2>4, SkipRan
  <1>2. CASE t.queued_retval = "ok"
    <2>  DEFINE after(f) == IF f.rc = "ok" THEN Swd!looked_at(f.state)
                            ELSE [f.state EXCEPT !.queued_retval = f.rc]
           sent == Swd!then(Swd!mpsse_command(t, << >>), Swd!set_led)
    <2>1. PICK f \in Swd!then(sent, Swd!mpsse_flush) : r \in Swd!skip(after(f))
      BY <1>2 DEF Swd!run_queue
    <2>2. PICK t2 \in sent : f \in Swd!mpsse_flush(t2)
      BY <2>1 DEF Swd!then
    <2>3. PICK t1 \in Swd!mpsse_command(t, << >>) : t2 \in Swd!set_led(t1)
      BY <2>2 DEF Swd!then
    <2>  HIDE DEF sent
    <2>4. Sound(t1, c, Len(t.queue)) /\ Kept(t, t1, c)
      BY <2>3, CommandSound DEF Points
    <2>5. Sound(t2, c, Len(t.queue)) /\ Kept(t1, t2, c)
      BY <2>3, <2>4, LedSound
    <2>6. t2.queue = t.queue /\ t2.queued_retval = "ok"
      BY <1>2, <2>4, <2>5 DEF Kept
    <2>7. /\ t2 \in Swd!State /\ ~t2.aborted /\ t2.mpsse_retval \in {"ok", "fail"}
          /\ Stored(t2, c - Len(t2.queue)) /\ Queued(t2, c) /\ Telling(t2, c)
          /\ t2.queue \in Seq(Swd!Numbers) /\ Len(t2.queue) \in Nat
      BY <2>5 DEF Sound, Swd!State
    <2>  DEFINE u == after(f)
    <2>8. CASE t2.mpsse_retval = "ok"
      <3>1. /\ f.rc \in {"ok", "fail"} /\ f.state \in Swd!State /\ Kept(t2, f.state, c)
            /\ f.state.reads = << >> /\ f.state.mpsse_retval = "ok"
            /\ f.rc = "ok" => \A i \in 1 .. Len(t.queue) : HoldsAnswer(f.state, i)
        BY <2>2, <2>5, <2>8, FlushSound
      <3>2. /\ Queued(f.state, c) /\ Stored(f.state, c - Len(f.state.queue)) /\ Telling(f.state, c)
        BY <2>6, <2>7, <3>1, KeptStays, Swd!SwdAssumption DEF Swd!SwdAssumption
      <3>3. /\ f.state.queue = t.queue /\ f.state.queued_retval = "ok" /\ ~f.state.aborted
        BY <2>6, <2>7, <3>1 DEF Kept
      <3>4. CASE f.rc = "ok"
        <4>1. u = Swd!looked_at(f.state)
          BY <3>4
        <4>  HIDE DEF u
        <4>2. /\ u \in Swd!State /\ u.reads = << >> /\ ~u.aborted /\ u.mpsse_retval = "ok"
              /\ Stored(u, c)
              /\ u.queued_retval = "ok" => \A id \in told + 1 .. c : went_well(u, id)
              /\ u.queued_retval = "wait" => waited(u, c)
          BY <3>1, <3>2, <3>3, <3>4, <4>1, LookedAt, ZenonT(60)
        <4>3. r \in Swd!skip(u)
          BY <2>1 DEF u
        <4>  QED
          BY <4>2, <4>3, SkipRan
      <3>5. CASE f.rc = "fail"
        <4>1. u = [f.state EXCEPT !.queued_retval = "fail"]
          BY <3>5
        <4>  HIDE DEF u
        <4>2. /\ u \in Swd!State /\ u.reads = << >> /\ ~u.aborted /\ u.mpsse_retval = "ok"
              /\ u.queued_retval = "fail" /\ u.dst = f.state.dst /\ u.answered = f.state.answered
          BY <3>1, <3>3, <4>1 DEF Swd!State, Swd!Retval
        <4>3. Stored(u, c)
          <5>1. \A id \in Swd!Numbers : id <= c - Len(f.state.queue) => id <= c
            BY <2>6, <2>7, <3>3 DEF Swd!Numbers
          <5>  QED
            BY <3>2, <4>2, <5>1 DEF Stored
        <4>4. r \in Swd!skip(u)
          BY <2>1 DEF u
        <4>  QED
          BY <4>2, <4>3, <4>4, SkipRan
      <3>  QED
        BY <3>1, <3>4, <3>5
    <2>9. CASE t2.mpsse_retval = "fail"
      <3>1. f = [state |-> [t2 EXCEPT !.mpsse_retval = "ok",
                                      !.aborted = ~NDEBUG /\ (t2.writes \/ t2.reads # << >>)],
                 rc |-> "fail"]
        BY <2>2, <2>9 DEF Swd!mpsse_flush
      <3>2. f.rc = "fail"
            /\ f.state = [t2 EXCEPT !.mpsse_retval = "ok", !.aborted = (t2.writes \/ t2.reads # << >>)]
        BY <3>1
      <3>3. u = [f.state EXCEPT !.queued_retval = "fail"]
        BY <3>2
      <3>  HIDE DEF u
      <3>4. f.state \in Swd!State /\ f.state.mpsse_retval = "ok" /\ f.state.reads = t2.reads
            /\ f.state.aborted = (t2.writes \/ t2.reads # << >>)
            /\ f.state.dst = t2.dst /\ f.state.answered = t2.answered
        BY <2>7, <3>2 DEF Swd!State, Swd!Retval
      <3>5. /\ u \in Swd!State /\ u.mpsse_retval = "ok" /\ u.queued_retval = "fail"
            /\ u.reads = f.state.reads /\ u.aborted = f.state.aborted
            /\ u.dst = f.state.dst /\ u.answered = f.state.answered
        BY <3>3, <3>4 DEF Swd!State, Swd!Retval
      <3>6. ~u.aborted => u.reads = << >>
        BY <3>4, <3>5
      <3>7. Stored(u, c)
        <4>1. \A id \in Swd!Numbers : id <= c - Len(t2.queue) => id <= c
          BY <2>7 DEF Swd!Numbers
        <4>  QED
          BY <2>7, <3>4, <3>5, <4>1 DEF Stored
      <3>8. r \in Swd!skip(u)
        BY <2>1 DEF u
      <3>  QED
        BY <3>5, <3>6, <3>7, <3>8, SkipRan
    <2>  QED
      BY <2>7, <2>8, <2>9
  <1>  QED
    BY <1>1, <1>2

-----------------------------------------------------------------------------
(* SWD: queueing a transaction                                               *)

\* There is room for one more, or the next run has something to tell.
LEMMA RoomSound ==
  ASSUME Swd!SwdAssumption, ~NDEBUG, NEW t, NEW c \in Nat, c <= MaxCalls, told \in Nat, told <= c,
         Sound(t, c, Len(t.queue)), NEW u \in Swd!with_room(t)
  PROVE  \/ /\ Sound(u, c, Len(u.queue))
            /\ u.queued_retval = "ok" => Len(u.queue) < u.alloced
         \/ /\ u.aborted /\ u.queued_retval # "ok" /\ u.queue = << >>
            /\ u \in Swd!State /\ Stored(u, c)
  <1>1. CASE Len(t.queue) < t.alloced
    BY <1>1 DEF Swd!with_room
  <1>2. CASE ~(Len(t.queue) < t.alloced)
    <2>1. PICK r \in Swd!run_queue(t) :
            LET v == [r.state EXCEPT !.queued_retval = r.rc]
            IN \/ u = v
               \/ u = [v EXCEPT !.array = @ + 1, !.alloced = 2 * @] /\ 2 * v.alloced <= MaxAlloc
      BY <1>2 DEF Swd!with_room
    <2>2. Ran(r, c)
      BY RunRan
    <2>  DEFINE v == [r.state EXCEPT !.queued_retval = r.rc]
    <2>3. /\ v \in Swd!State /\ v.queue = << >> /\ v.queued_retval = r.rc /\ v.reads = r.state.reads
          /\ v.aborted = r.state.aborted /\ v.mpsse_retval = r.state.mpsse_retval
          /\ v.dst = r.state.dst /\ v.answered = r.state.answered
      BY <2>2 DEF Ran, Swd!State, Swd!Retval
    <2>  HIDE DEF v
    <2>4. u = v \/ (u = [v EXCEPT !.array = @ + 1, !.alloced = 2 * @] /\ 2 * v.alloced <= MaxAlloc)
      BY <2>1 DEF v
    <2>5. /\ u \in Swd!State /\ u.queue = v.queue /\ u.queued_retval = v.queued_retval
          /\ u.reads = v.reads /\ u.aborted = v.aborted /\ u.mpsse_retval = v.mpsse_retval
          /\ u.dst = v.dst /\ u.answered = v.answered
      <3>1. CASE u = v
        BY <2>3, <3>1
      <3>2. CASE u = [v EXCEPT !.array = @ + 1, !.alloced = 2 * @] /\ 2 * v.alloced <= MaxAlloc
        <4>1. v.alloced \in Nat \ {0} /\ MaxAlloc \in Nat /\ v.array \in Nat
          BY <2>3 DEF Swd!State, Swd!SwdAssumption
        <4>  DEFINE array == v.array + 1
                    alloced == 2 * v.alloced
        <4>2. array \in Nat /\ alloced \in 1 .. MaxAlloc
          BY <4>1, <3>2
        <4>3. u = [v EXCEPT !.array = array, !.alloced = alloced]
          BY <3>2, <2>3 DEF Swd!State
        <4>  HIDE DEF array, alloced
        <4>  QED
          BY <2>3, <4>2, <4>3 DEF Swd!State
      <3>  QED
        BY <2>4, <3>1, <3>2
    <2>6. /\ u.queue = << >> /\ Len(u.queue) = 0 /\ c - Len(u.queue) = c /\ u.alloced \in Nat \ {0}
          /\ Stored(u, c)
      <3>1. Len(u.queue) = 0 /\ u.queue = << >>
        BY <2>3, <2>5
      <3>2. Stored(u, c)
        BY <2>2, <2>3, <2>5 DEF Ran, Stored
      <3>  QED
        BY <2>5, <3>1, <3>2 DEF Swd!State
    <2>7. CASE u.aborted
      BY <2>2, <2>3, <2>5, <2>6, <2>7 DEF Ran
    <2>8. CASE ~u.aborted
      <3>1. u.reads = << >> /\ Len(u.reads) = 0 /\ u.mpsse_retval \in {"ok", "fail"}
        BY <2>2, <2>3, <2>5, <2>8 DEF Ran
      <3>2. Queued(u, c) /\ Pointing(u, 0) /\ Answering(u, 0)
        BY <2>6, <3>1 DEF Queued, Pointing, Answering
      <3>3. \A id \in told + 1 .. c : went_well(r.state, id) => went_well(u, id)
        BY <2>3, <2>5 DEF went_well
      <3>4. waited(r.state, c) => waited(u, c)
        BY <2>3, <2>5 DEF went_well, waited
      <3>5. Telling(u, c)
        BY <2>2, <2>3, <2>5, <2>6, <3>3, <3>4 DEF Ran, Telling
      <3>6. Sound(u, c, 0)
        BY <2>5, <2>6, <2>8, <3>1, <3>2, <3>5 DEF Sound
      <3>  QED
        BY <2>6, <3>6
    <2>  QED
      BY <2>7, <2>8
  <1>  QED
    BY <1>1, <1>2

\* The number of a transaction that is queued is the next one, and its entry is still
\* without a pointer.
LEMMA AppendSound ==
  ASSUME Swd!SwdAssumption, NEW t, NEW c \in Nat, c < MaxCalls, told \in Nat,
         Sound(t, c, Len(t.queue)), t.queued_retval = "ok", Len(t.queue) < t.alloced,
         NEW u, u = [t EXCEPT !.queue = Append(@, c + 1)]
  PROVE  /\ Sound(u, c + 1, Len(t.queue)) /\ u.queued_retval = "ok" /\ u.array = t.array
         /\ Len(u.queue) = Len(t.queue) + 1 /\ u.queue[Len(t.queue) + 1] = c + 1
  <1> DEFINE len == Len(t.queue)
             queue == Append(t.queue, c + 1)
  <1>1. /\ t \in Swd!State /\ t.queue \in Seq(Swd!Numbers) /\ len \in Nat /\ Queued(t, c)
        /\ Pointing(t, len)
        /\ Answering(t, len) /\ Telling(t, c) /\ t.alloced \in Nat
        /\ Stored(t, c - len)
    BY DEF Sound, Swd!State
  <1>2. c + 1 \in Swd!Numbers
    BY DEF Swd!Numbers, Swd!SwdAssumption
  <1>3. /\ queue \in Seq(Swd!Numbers) /\ Len(queue) = len + 1 /\ queue[len + 1] = c + 1
        /\ \A i \in 1 .. len : queue[i] = t.queue[i]
    BY <1>1, <1>2, AppendProperties
  <1>4. u = [t EXCEPT !.queue = queue]
    BY <1>1 DEF Swd!State
  <1>  HIDE DEF queue
  <1>5. /\ u \in Swd!State /\ u.queue = queue /\ u.alloced = t.alloced /\ u.array = t.array
        /\ u.dst = t.dst /\ u.queued_retval = "ok" /\ u.mpsse_retval = t.mpsse_retval
        /\ u.aborted = t.aborted /\ u.entries = t.entries /\ u.answered = t.answered
        /\ u.reads = t.reads /\ u.writes = t.writes
    BY <1>1, <1>3, <1>4 DEF Swd!State
  <1>0. len <= c /\ len < t.alloced /\ \A i \in 1 .. len : t.queue[i] = c - len + i
    BY <1>1 DEF Queued
  <1>00. Len(t.queue) = len
    OBVIOUS
  <1>  HIDE DEF len
  <1>6. Queued(u, c + 1)
    <2>1. len <= c /\ len < t.alloced /\ \A i \in 1 .. len : t.queue[i] = c - len + i
      BY <1>0
    <2>2. len + 1 <= t.alloced /\ len + 1 <= c + 1
      BY <1>1, <2>1
    <2>3. ASSUME NEW i \in 1 .. len + 1  PROVE queue[i] = (c + 1) - (len + 1) + i
      <3>1. CASE i \in 1 .. len
        <4>1. queue[i] = c - len + i
          BY <1>3, <2>1, <3>1
        <4>2. c - len + i = (c + 1) - (len + 1) + i
          BY <1>1, <3>1
        <4>  QED
          BY <4>1, <4>2
      <3>2. CASE i = len + 1
        <4>1. c + 1 = c + 1 - (len + 1) + (len + 1)
          BY <1>1
        <4>  QED
          BY <1>3, <3>2, <4>1
      <3>  QED
        BY <1>1, <3>1, <3>2, SMTT(30)
    <2>4. Len(u.queue) = len + 1
      BY <1>3, <1>5
    <2>  QED
      BY <1>5, <2>2, <2>3, <2>4 DEF Queued
  <1>7. Pointing(u, len)
    BY <1>1, <1>3, <1>5, SMTT(60) DEF Pointing
  <1>8. Answering(u, len)
    BY <1>1, <1>3, <1>5, SMTT(30) DEF Answering, HoldsAnswer
  <1>9. (c + 1) - Len(u.queue) = c - len
    <2>  QED
      BY <1>1, <1>3, <1>5
  <1>10. Stored(u, (c + 1) - Len(u.queue))
    BY <1>1, <1>5, <1>9 DEF Stored
  <1>11. Telling(u, c + 1)
    <2>1. told <= c - len /\ \A id \in told + 1 .. c - len : went_well(t, id)
      BY <1>00, <1>1 DEF Telling
    <2>2. \A id \in told + 1 .. c - len : went_well(u, id)
      BY <1>5, <2>1 DEF went_well
    <2>  QED
      <3>1. told <= (c + 1) - Len(u.queue)
            /\ \A id \in told + 1 .. (c + 1) - Len(u.queue) : went_well(u, id)
        BY <1>9, <2>1, <2>2
      <3>2. u.queued_retval = "ok" /\ u.queued_retval # "wait"
        BY <1>5
      <3>  QED
        BY <3>1, <3>2, Zenon DEF Telling
  <1>12. /\ ~u.aborted /\ u.mpsse_retval \in {"ok", "fail"} /\ u.queued_retval = "ok"
         /\ len \in 0 .. Len(u.queue)
    BY <1>1, <1>3, <1>5 DEF Sound
  <1>13. Sound(u, c + 1, len)
    BY <1>5, <1>6, <1>7, <1>8, <1>10, <1>11, <1>12, Zenon DEF Sound
  <1>  QED
    BY <1>00, <1>3, <1>5, <1>13

\* A transaction's commands, with the pointer to its own entry.
LEMMA TransactedSound ==
  ASSUME Swd!SwdAssumption, NEW t, NEW c \in Nat, c < MaxCalls, told \in Nat,
         Sound(t, c, Len(t.queue)), t.queued_retval = "ok", Len(t.queue) < t.alloced,
         NEW read \in BOOLEAN, NEW u \in Swd!transacted(t, c + 1, read)
  PROVE  Sound(u, c + 1, Len(u.queue)) /\ u.queued_retval = "ok" /\ Len(u.queue) >= 1
  <1> DEFINE v == [t EXCEPT !.queue = Append(@, c + 1)]
             pointer == [array |-> v.array, index |-> Len(v.queue), id |-> c + 1]
             out(w) == Swd!mpsse_command(w, << >>)
             in(w) == Swd!mpsse_command(w, <<pointer>>)
             h == Len(t.queue)
  <1>1. u \in Swd!then(out(v), in) \/ u \in Swd!then(Swd!then(out(v), in), out)
    BY DEF Swd!transacted
  <1>2. /\ Sound(v, c + 1, h) /\ v.queued_retval = "ok" /\ v.array = t.array
        /\ Len(v.queue) = h + 1 /\ v.queue[h + 1] = c + 1
    BY AppendSound
  <1>  HIDE DEF v
  <1>3. c + 1 \in Nat /\ c + 1 <= MaxCalls
    BY DEF Swd!SwdAssumption
  <1>4. ASSUME NEW w \in Swd!then(out(v), in)
        PROVE  Sound(w, c + 1, h + 1) /\ Kept(v, w, c + 1)
    <2>1. PICK w0 \in Swd!mpsse_command(v, << >>) : w \in Swd!mpsse_command(w0, <<pointer>>)
      BY <1>4 DEF Swd!then
    <2>2. Sound(w0, c + 1, h) /\ Kept(v, w0, c + 1)
      BY <1>2, <1>3, <2>1, CommandSound DEF Points
    <2>3. Points(w0, <<pointer>>, h, h + 1)
      BY <1>2, <2>2 DEF Points, Kept
    <2>  HIDE DEF pointer
    <2>4. Sound(w, c + 1, h + 1) /\ Kept(w0, w, c + 1)
      BY <1>3, <2>1, <2>2, <2>3, CommandSound
    <2>  QED
      BY <2>2, <2>4, KeptAgain
  <1>0. h \in Nat /\ h + 1 >= 1
    <2>1. h \in Nat
      BY DEF Sound, Swd!State
    <2>  HIDE DEF h
    <2>  QED
      BY <2>1
  <1>5. CASE u \in Swd!then(out(v), in)
    BY <1>0, <1>2, <1>4, <1>5 DEF Kept
  <1>6. CASE u \in Swd!then(Swd!then(out(v), in), out)
    <2>1. PICK w \in Swd!then(out(v), in) : u \in Swd!mpsse_command(w, << >>)
      BY <1>6 DEF Swd!then
    <2>2. Sound(w, c + 1, h + 1) /\ Kept(v, w, c + 1)
      BY <1>4, <2>1
    <2>3. Sound(u, c + 1, h + 1) /\ Kept(w, u, c + 1)
      BY <1>3, <2>1, <2>2, CommandSound DEF Points
    <2>  QED
      BY <1>0, <1>2, <2>2, <2>3 DEF Kept
  <1>  QED
    BY <1>1, <1>5, <1>6

-----------------------------------------------------------------------------
(* SWD: every step keeps it                                                  *)

LEMMA SwdInitInv == Swd!SwdAssumption /\ Swd!Init => SwdInv
  <1> SUFFICES ASSUME Swd!SwdAssumption, Swd!Init  PROVE SwdInv
    OBVIOUS
  <1>1. s \in Swd!State
    <2>1. << >> \in Seq(Swd!Numbers) /\ << >> \in Seq(Swd!Pointer)
      OBVIOUS
    <2>2. Room \in 1 .. MaxAlloc
      BY DEF Swd!SwdAssumption
    <2>3. [n \in 1 .. MaxAlloc |-> [id |-> 0, answer |-> "none"]] \in [1 .. MaxAlloc -> Swd!Received]
      BY DEF Swd!Received
    <2>4. [n \in Swd!Numbers |-> 0] \in [Swd!Numbers -> Swd!Numbers \cup {0}]
      OBVIOUS
    <2>5. [n \in Swd!Numbers |-> "none"] \in [Swd!Numbers -> Swd!Answers \cup {"none"}]
      OBVIOUS
    <2>  QED
      BY <2>1, <2>2, <2>3, <2>4, <2>5 DEF Swd!Init, Swd!State, Swd!Retval
  <1>2. /\ s.queue = << >> /\ s.reads = << >> /\ Len(s.queue) = 0 /\ Len(s.reads) = 0
        /\ calls = << >> /\ Len(calls) = 0 /\ told = 0 /\ ~s.aborted
        /\ s.queued_retval = "ok" /\ s.mpsse_retval = "ok" /\ s.alloced \in Nat
        /\ \A id \in Swd!Numbers : s.dst[id] = 0
    BY DEF Swd!Init, Swd!SwdAssumption
  <1>3. Swd!TypeOK
    BY <1>1, <1>2 DEF Swd!TypeOK, Swd!Init, Swd!Retval, Swd!SwdAssumption
  <1>4. Queued(s, 0) /\ Pointing(s, 0) /\ Answering(s, 0) /\ Stored(s, 0 - 0)
    BY <1>2 DEF Queued, Pointing, Answering, Stored
  <1>5. Telling(s, 0)
    BY <1>2 DEF Telling
  <1>  QED
    BY <1>1, <1>2, <1>3, <1>4, <1>5 DEF SwdInv, Sound

\* Where neither the transactions change nor what was told, what is sound stays it.
LEMMA StepStays ==
  ASSUME Swd!SwdAssumption, SwdInv, NEW u, s' = u, UNCHANGED <<calls, told, retval>>,
         Sound(u, Len(calls), Len(u.queue))
  PROVE  SwdInv'
  <1>1. Swd!TypeOK'
    BY DEF SwdInv, Swd!TypeOK, Sound
  <1>2. Sound(s, Len(calls), Len(s.queue))'
    <2>  DEFINE c == Len(calls)
    <2>1. Len(calls') = c /\ told' = told
      OBVIOUS
    <2>2. Queued(s, Len(calls))'
      BY <2>1 DEF Sound, Queued
    <2>3. Pointing(s, Len(s.queue))'
      BY DEF Sound, Pointing
    <2>4. Answering(s, Len(s.queue))'
      BY DEF Sound, Answering, HoldsAnswer
    <2>5. Stored(s, Len(calls) - Len(s.queue))'
      BY <2>1 DEF Sound, Stored
    <2>6. Telling(s, Len(calls))'
      BY <2>1 DEF Sound, Telling, waited, went_well
    <2>  QED
      BY <2>2, <2>3, <2>4, <2>5, <2>6 DEF Sound
  <1>3. Stored(s, Len(calls) - Len(s.queue))'
    BY <1>2 DEF Sound
  <1>  QED
    BY <1>1, <1>2, <1>3 DEF SwdInv

\* What a run leaves is sound for the runs to come: it has told all there was.
LEMMA TellsAll ==
  ASSUME Swd!SwdAssumption, SwdInv, NEW r, Ran(r, Len(calls)), s' = r.state, retval' = r.rc,
         told' = Len(calls), UNCHANGED calls
  PROVE  SwdInv'
  <1>1. Len(calls) \in Nat /\ Len(calls) <= MaxCalls /\ calls \in Seq(BOOLEAN)
    BY DEF SwdInv, Swd!TypeOK
  <1>2. Swd!TypeOK'
    BY <1>1 DEF Ran, Swd!TypeOK
  <1>3. /\ s'.queue = << >> /\ Len(s'.queue) = 0 /\ s' \in Swd!State /\ s'.queued_retval = "ok"
        /\ Len(calls) - Len(s'.queue) = Len(calls)
    BY <1>1 DEF Ran
  <1>4. Stored(s, Len(calls) - Len(s.queue))'
    BY <1>3 DEF Ran, Stored
  <1>5. ASSUME ~s'.aborted  PROVE Sound(s, Len(calls), Len(s.queue))'
    <2>1. s'.reads = << >> /\ Len(s'.reads) = 0 /\ s'.mpsse_retval \in {"ok", "fail"}
      BY <1>5 DEF Ran
    <2>2. Queued(s, Len(calls))'
      BY <1>1, <1>3 DEF Queued, Swd!State
    <2>3. Pointing(s, Len(s.queue))' /\ Answering(s, Len(s.queue))'
      BY <1>3, <2>1 DEF Pointing, Answering
    <2>4. Telling(s, Len(calls))'
      BY <1>1, <1>3 DEF Telling
    <2>  QED
      BY <1>3, <1>4, <1>5, <2>1, <2>2, <2>3, <2>4 DEF Sound
  <1>  QED
    BY <1>2, <1>4, <1>5 DEF SwdInv

\* A transaction more: those there were are what they were.
LEMMA CallsStay ==
  ASSUME Swd!SwdAssumption, Swd!TypeOK, NEW read \in BOOLEAN, calls' = Append(calls, read)
  PROVE  /\ calls' \in Seq(BOOLEAN) /\ Len(calls') = Len(calls) + 1 /\ Len(calls) \in Nat
         /\ \A id \in 1 .. Len(calls) : calls'[id] = calls[id]
  BY AppendProperties DEF Swd!TypeOK

LEMMA QueueInv ==
  ASSUME Swd!SwdAssumption, ~NDEBUG, SwdInv, NEW read \in BOOLEAN, Swd!ftdi_swd_queue_cmd(read)
  PROVE  SwdInv'
  <1> DEFINE c == Len(calls)
             Holds(last) == \A id \in Swd!Numbers : s'.dst[id] # 0 =>
                              /\ s'.dst[id] = id /\ id <= last
                              /\ calls'[id] /\ s'.answered[id] = "ok"
  <1>1. /\ c \in Nat /\ c < MaxCalls /\ told \in Nat /\ told <= c /\ ~s.aborted
        /\ told' = told /\ retval' = retval /\ retval \in Swd!Retval /\ MaxCalls \in Nat
    BY DEF Swd!ftdi_swd_queue_cmd, SwdInv, Swd!TypeOK, Swd!SwdAssumption
  <1>2. /\ calls' \in Seq(BOOLEAN) /\ Len(calls') = c + 1
        /\ \A id \in 1 .. c : calls'[id] = calls[id]
    BY CallsStay DEF Swd!ftdi_swd_queue_cmd, SwdInv
  <1>3. Sound(s, c, Len(s.queue))
    BY <1>1 DEF SwdInv
  <1>4. PICK t \in Swd!with_room(s) :
          s' \in (IF t.queued_retval # "ok" THEN {t} ELSE Swd!transacted(t, c + 1, read))
    BY DEF Swd!ftdi_swd_queue_cmd
  <1>  HIDE DEF c
  <1>5. \/ /\ Sound(t, c, Len(t.queue))
           /\ t.queued_retval = "ok" => Len(t.queue) < t.alloced
        \/ /\ t.aborted /\ t.queued_retval # "ok" /\ t.queue = << >>
           /\ t \in Swd!State /\ Stored(t, c)
    BY <1>1, <1>3, <1>4, RoomSound
  <1>6. ASSUME s' \in Swd!State  PROVE Swd!TypeOK'
    BY <1>1, <1>2, <1>6 DEF Swd!TypeOK
  <1>7. ASSUME NEW u \in Swd!State, s' = u, NEW last \in Int, last <= c, Stored(u, last),
               NEW next \in Int, next >= last
        PROVE  Holds(next)
    <2>1. \A id \in Swd!Numbers : id <= last => id \in 1 .. c /\ id <= next
      BY <1>1, <1>7 DEF Swd!Numbers
    <2>  QED
      BY <1>2, <1>7, <2>1 DEF Stored
  <1>  HIDE DEF Holds
  <1>8. ASSUME NEW u \in Swd!State, s' = u, NEW id \in 1 .. c, went_well(u, id)
        PROVE  went_well(s, id)'
    BY <1>2, <1>8 DEF went_well
  <1>9. CASE t.queued_retval # "ok"
    <2>1. s' = t
      BY <1>4, <1>9
    <2>2. /\ t \in Swd!State /\ t.queue = << >> /\ Len(t.queue) = 0 /\ c - Len(t.queue) = c
          /\ (c + 1) - Len(t.queue) = c + 1
      <3>1. t \in Swd!State /\ t.queue = << >>
        BY <1>5, <1>9 DEF Sound
      <3>2. Len(<< >>) = 0 /\ c - 0 = c /\ (c + 1) - 0 = c + 1
        BY <1>1
      <3>  QED
        BY <3>1, <3>2
    <2>3. Stored(t, c)
      BY <1>5, <2>2 DEF Sound
    <2>4. Holds(c + 1)
      <3>1. c \in Int /\ c + 1 \in Int /\ c <= c /\ c + 1 >= c
        BY <1>1
      <3>  QED
        BY <1>7, <2>1, <2>2, <2>3, <3>1
    <2>5. ASSUME ~t.aborted  PROVE Sound(s, Len(calls), Len(s.queue))'
      <3>1. Sound(t, c, 0)
        BY <1>5, <2>2, <2>5
      <3>2. Queued(s, Len(calls))'
        BY <1>1, <1>2, <2>1, <2>2 DEF Queued, Swd!State
      <3>3. Pointing(s, Len(s.queue))' /\ Answering(s, Len(s.queue))'
        BY <2>1, <2>2, <3>1 DEF Sound, Pointing, Answering, HoldsAnswer
      <3>4. ASSUME t.queued_retval = "wait"  PROVE waited(s, Len(calls))'
        <4>1. PICK id \in told + 1 .. c :
                /\ t.answered[id] = "wait"
                /\ \A before \in told + 1 .. id - 1 : went_well(t, before)
          BY <3>1, <3>4 DEF Sound, Telling, waited
        <4>2. \A before \in told + 1 .. id - 1 : before \in 1 .. c
          BY <1>1
        <4>3. \A before \in told + 1 .. id - 1 : went_well(s, before)'
          BY <1>8, <2>1, <2>2, <4>1, <4>2
        <4>4. id \in told' + 1 .. Len(calls')
          BY <1>1, <1>2
        <4>  QED
          BY <1>1, <2>1, <4>1, <4>3, <4>4 DEF waited
      <3>5. Telling(s, Len(calls))'
        BY <1>9, <2>1, <3>4 DEF Telling
      <3>6. Stored(s, Len(calls) - Len(s.queue))'
        BY <1>2, <2>1, <2>2, <2>4 DEF Stored, Holds
      <3>  QED
        BY <2>1, <2>2, <3>1, <3>2, <3>3, <3>5, <3>6 DEF Sound
    <2>6. Stored(s, Len(calls) - Len(s.queue))'
      BY <1>2, <2>1, <2>2, <2>4 DEF Stored, Holds
    <2>  QED
      BY <1>6, <2>1, <2>2, <2>5, <2>6 DEF SwdInv
  <1>10. CASE t.queued_retval = "ok"
    <2>1. PICK u \in Swd!transacted(t, c + 1, read) : s' = u
      BY <1>4, <1>10
    <2>2. Sound(u, c + 1, Len(u.queue)) /\ u.queued_retval = "ok" /\ Len(u.queue) >= 1
      BY <1>1, <1>5, <1>10, <2>1, TransactedSound
    <2>3. u \in Swd!State /\ Len(u.queue) \in Nat /\ Stored(u, (c + 1) - Len(u.queue))
          /\ Queued(u, c + 1) /\ Telling(u, c + 1)
      BY <2>2 DEF Sound, Swd!State
    <2>  DEFINE len == Len(u.queue)
    <2>4. len \in Nat /\ len >= 1
      BY <2>2, <2>3
    <2>  HIDE DEF len
    <2>5. (c + 1) - len \in Int /\ (c + 1) - len <= c /\ (c + 1) - len >= (c + 1) - len
      BY <1>1, <2>4
    <2>6. Holds((c + 1) - Len(u.queue))
      BY <1>7, <2>1, <2>3, <2>5 DEF len
    <2>7. Stored(s, Len(calls) - Len(s.queue))'
      BY <1>2, <2>1, <2>6 DEF Stored, Holds
    <2>8. Queued(s, Len(calls))'
      BY <1>2, <2>1, <2>3 DEF Queued
    <2>9. Pointing(s, Len(s.queue))' /\ Answering(s, Len(s.queue))'
      BY <2>1, <2>2 DEF Sound, Pointing, Answering, HoldsAnswer
    <2>10. Telling(s, Len(calls))'
      <3>1. told <= (c + 1) - len /\ \A id \in told + 1 .. (c + 1) - len : went_well(u, id)
        BY <2>2, <2>3 DEF Telling, len
      <3>2. \A id \in told + 1 .. (c + 1) - len : id \in 1 .. c
        BY <1>1, <2>4
      <3>3. \A id \in told + 1 .. (c + 1) - len : went_well(s, id)'
        BY <1>8, <2>1, <2>3, <3>1, <3>2
      <3>4. Len(calls') - Len(s'.queue) = (c + 1) - len
        BY <1>2, <2>1 DEF len
      <3>5. s'.queued_retval = "ok" /\ s'.queued_retval # "wait"
        BY <2>1, <2>2
      <3>  QED
        BY <1>1, <3>1, <3>3, <3>4, <3>5 DEF Telling
    <2>11. Sound(s, Len(calls), Len(s.queue))'
      BY <2>1, <2>2, <2>7, <2>8, <2>9, <2>10 DEF Sound
    <2>  QED
      BY <1>6, <2>1, <2>3, <2>7, <2>11 DEF SwdInv
  <1>  QED
    BY <1>9, <1>10

LEMMA SwdNextInv ==
  ASSUME Swd!SwdAssumption, ~NDEBUG, SwdInv, Swd!Next
  PROVE  SwdInv'
  <1>1. ASSUME NEW read \in BOOLEAN, Swd!ftdi_swd_queue_cmd(read)  PROVE SwdInv'
    BY <1>1, QueueInv
  <1>2. /\ Len(calls) \in Nat /\ Len(calls) <= MaxCalls /\ told \in Nat /\ told <= Len(calls)
        /\ ~s.aborted => Sound(s, Len(calls), Len(s.queue))
    BY DEF SwdInv, Swd!TypeOK
  <1>3. CASE Swd!ftdi_swd_run_queue
    <2>1. PICK r \in Swd!run_queue(s) : s' = r.state /\ retval' = r.rc
      BY <1>3 DEF Swd!ftdi_swd_run_queue
    <2>2. Ran(r, Len(calls))
      BY <1>2, <1>3, <2>1, RunRan DEF Swd!ftdi_swd_run_queue
    <2>  QED
      BY <1>3, <2>1, <2>2, TellsAll DEF Swd!ftdi_swd_run_queue
  <1>4. CASE Swd!ftdi_swd_switch_seq
    <2>1. PICK u \in Swd!mpsse_command(s, << >>) : s' = u
      BY <1>4 DEF Swd!ftdi_swd_switch_seq
    <2>2. Sound(u, Len(calls), Len(s.queue)) /\ Kept(s, u, Len(calls))
      BY <1>2, <1>4, <2>1, CommandSound DEF Swd!ftdi_swd_switch_seq, Points
    <2>3. Sound(u, Len(calls), Len(u.queue))
      BY <2>2 DEF Kept
    <2>  QED
      BY <1>4, <2>1, <2>3, StepStays DEF Swd!ftdi_swd_switch_seq
  <1>  QED
    BY <1>1, <1>3, <1>4 DEF Swd!Next

LEMMA SwdStutterInv ==
  ASSUME Swd!SwdAssumption, SwdInv, UNCHANGED Swd!vars
  PROVE  SwdInv'
  <1>1. s' = s /\ UNCHANGED <<calls, told, retval>>
    BY DEF Swd!vars
  <1>2. CASE ~s.aborted
    BY <1>1, <1>2, StepStays DEF SwdInv
  <1>3. CASE s.aborted
    BY <1>1, <1>3 DEF SwdInv, Swd!TypeOK, Stored
  <1>  QED
    BY <1>2, <1>3

\* The properties follow from it.
LEMMA SwdProperties ==
  ASSUME Swd!SwdAssumption, SwdInv
  PROVE  Swd!PointersAlive /\ Swd!DataIsOwn /\ Swd!ErrorStopsQueue
  <1>1. /\ s \in Swd!State /\ Len(calls) \in Nat /\ s.queue \in Seq(Swd!Numbers)
        /\ s.reads \in Seq(Swd!Pointer) /\ Stored(s, Len(calls) - Len(s.queue))
        /\ ~s.aborted => Sound(s, Len(calls), Len(s.queue))
    BY DEF SwdInv, Swd!TypeOK, Swd!State
  <1>2. Swd!PointersAlive
    <2>1. DOMAIN s.reads = 1 .. Len(s.reads) /\ DOMAIN s.queue = 1 .. Len(s.queue)
      BY <1>1
    <2>  QED
      BY <1>1, <2>1 DEF Sound, Pointing, Swd!PointersAlive
  <1>3. Swd!DataIsOwn
    <2>  DEFINE len == Len(s.queue)
    <2>1. len \in Nat
      BY <1>1
    <2>  HIDE DEF len
    <2>2. \A id \in Swd!Numbers : id <= Len(calls) - len => id <= Len(calls)
      BY <1>1, <2>1 DEF Swd!Numbers
    <2>  QED
      BY <1>1, <2>2 DEF Stored, Swd!DataIsOwn, len
  <1>4. ASSUME ~s.aborted, s.queued_retval # "ok"  PROVE s.queue = << >> /\ s.reads = << >>
    <2>1. s.queue = << >> /\ Len(s.queue) = 0 /\ Pointing(s, Len(s.queue))
      BY <1>1, <1>4 DEF Sound
    <2>  QED
      BY <1>1, <2>1, NoPointers
  <1>  QED
    BY <1>2, <1>3, <1>4 DEF Swd!ErrorStopsQueue

\* A run tells what the invariant says a run can leave.
LEMMA NextTells ==
  ASSUME Swd!SwdAssumption, ~NDEBUG, SwdInv, Swd!Next
  PROVE  Swd!RunTells
  <1>1. ASSUME NEW read \in BOOLEAN, Swd!ftdi_swd_queue_cmd(read)  PROVE Swd!RunTells
    BY <1>1 DEF Swd!ftdi_swd_queue_cmd, Swd!RunTells
  <1>2. CASE Swd!ftdi_swd_switch_seq
    BY <1>2 DEF Swd!ftdi_swd_switch_seq, Swd!RunTells
  <1>3. CASE Swd!ftdi_swd_run_queue
    <2>1. PICK r \in Swd!run_queue(s) : s' = r.state /\ retval' = r.rc
      BY <1>3 DEF Swd!ftdi_swd_run_queue
    <2>2. /\ Len(calls) \in Nat /\ Len(calls) <= MaxCalls /\ told \in Nat /\ told <= Len(calls)
          /\ Sound(s, Len(calls), Len(s.queue))
      BY <1>3 DEF SwdInv, Swd!TypeOK, Swd!ftdi_swd_run_queue
    <2>3. Ran(r, Len(calls))
      BY <2>1, <2>2, RunRan
    <2>4. told' = Len(calls) /\ calls' = calls
      BY <1>3 DEF Swd!ftdi_swd_run_queue
    <2>5. ASSUME retval' = "ok"  PROVE \A id \in told + 1 .. told' : Swd!good(id)'
      BY <2>1, <2>3, <2>4, <2>5 DEF Ran, went_well, Swd!good
    <2>6. ASSUME retval' = "wait"
          PROVE  \E id \in told + 1 .. told' :
                   /\ s'.answered[id] = "wait"
                   /\ \A before \in told + 1 .. id - 1 : Swd!good(before)'
      BY <2>1, <2>3, <2>4, <2>6 DEF Ran, went_well, waited, Swd!good
    <2>  QED
      BY <2>5, <2>6 DEF Swd!RunTells
  <1>  QED
    BY <1>1, <1>2, <1>3 DEF Swd!Next

-----------------------------------------------------------------------------
(* SWD: theorems                                                             *)

\* The state of the two drivers is always sound, when assertions are compiled in
\* (ftdi.c:1093-1280, mpsse.c:541-969).
THEOREM SwdInvariance == Swd!SwdAssumption /\ ~NDEBUG => (Swd!Spec => []SwdInv)
  <1> SUFFICES ASSUME Swd!SwdAssumption, ~NDEBUG  PROVE Swd!Spec => []SwdInv
    OBVIOUS
  <1>1. Swd!Init => SwdInv
    BY SwdInitInv
  <1>2. SwdInv /\ [Swd!Next]_Swd!vars => SwdInv'
    <2> SUFFICES ASSUME SwdInv, [Swd!Next]_Swd!vars  PROVE SwdInv'
      OBVIOUS
    <2>1. CASE Swd!Next
      BY <2>1, SwdNextInv
    <2>2. CASE UNCHANGED Swd!vars
      BY <2>2, SwdStutterInv
    <2>  QED
      BY <2>1, <2>2
  <1>  QED
    BY <1>1, <1>2, PTL DEF Swd!Spec

\* Every variable keeps its type.
THEOREM SwdTypeCorrect == Swd!SwdAssumption /\ ~NDEBUG => (Swd!Spec => []Swd!TypeOK)
  <1>1. SwdInv => Swd!TypeOK
    BY DEF SwdInv
  <1>  QED
    BY <1>1, SwdInvariance, PTL

\* No pointer the MPSSE driver holds is into an array that realloc has freed, or behind
\* the queue; and each is to the entry of its own transaction (ftdi.c:1188-1199).
THEOREM PointersStayAlive == Swd!SwdAssumption /\ ~NDEBUG => (Swd!Spec => []Swd!PointersAlive)
  <1> SUFFICES ASSUME Swd!SwdAssumption, ~NDEBUG  PROVE Swd!Spec => []Swd!PointersAlive
    OBVIOUS
  <1>1. SwdInv => Swd!PointersAlive
    BY SwdProperties
  <1>  QED
    BY <1>1, SwdInvariance, PTL

\* What is stored for a transaction is its own data, answered with OK and the right
\* parity (ftdi.c:1144-1172).
THEOREM DataStaysOwn == Swd!SwdAssumption /\ ~NDEBUG => (Swd!Spec => []Swd!DataIsOwn)
  <1> SUFFICES ASSUME Swd!SwdAssumption, ~NDEBUG  PROVE Swd!Spec => []Swd!DataIsOwn
    OBVIOUS
  <1>1. SwdInv => Swd!DataIsOwn
    BY SwdProperties
  <1>  QED
    BY <1>1, SwdInvariance, PTL

\* Nothing is queued behind an error that is still to be told (ftdi.c:1125-1128,
\* 1201-1202).
THEOREM ErrorHoldsQueue == Swd!SwdAssumption /\ ~NDEBUG => (Swd!Spec => []Swd!ErrorStopsQueue)
  <1> SUFFICES ASSUME Swd!SwdAssumption, ~NDEBUG  PROVE Swd!Spec => []Swd!ErrorStopsQueue
    OBVIOUS
  <1>1. SwdInv => Swd!ErrorStopsQueue
    BY SwdProperties
  <1>  QED
    BY <1>1, SwdInvariance, PTL

\* A run answers for every transaction since the run before it (ftdi.c:1119-1202).
THEOREM SwdRunsTell == Swd!SwdAssumption /\ ~NDEBUG => (Swd!Spec => [][Swd!RunTells]_Swd!vars)
  <1> SUFFICES ASSUME Swd!SwdAssumption, ~NDEBUG  PROVE Swd!Spec => [][Swd!RunTells]_Swd!vars
    OBVIOUS
  <1>1. SwdInv /\ [Swd!Next]_Swd!vars => [Swd!RunTells]_Swd!vars
    BY NextTells
  <1>  QED
    BY <1>1, SwdInvariance, PTL DEF Swd!Spec

-----------------------------------------------------------------------------
(* Signals and latches                                                       *)

LEMMA SetLatchesType ==
  ASSUME NEW l \in Adapter!Latches, NEW sg \in Adapter!Signal, NEW value
  PROVE  Adapter!set_latches(l, sg, value) \in Adapter!Latches
  <1> DEFINE data == (value = "1") # sg.invert_data
             oe == (value # "z") # sg.invert_oe
             output == Adapter!put(l.output, sg.data_mask, data)
  <1>1. /\ l.output \in SUBSET Adapter!Pins /\ l.direction \in SUBSET Adapter!Pins
        /\ sg.data_mask \in SUBSET Adapter!Pins /\ sg.oe_mask \in SUBSET Adapter!Pins
    BY DEF Adapter!Latches, Adapter!Signal
  <1>2. /\ Adapter!set_latches(l, sg, value) =
             IF sg.oe_mask = sg.data_mask
             THEN [output |-> output, direction |-> Adapter!put(l.direction, sg.oe_mask, oe)]
             ELSE [l EXCEPT !.output = Adapter!put(output, sg.oe_mask, oe)]
    BY DEF Adapter!set_latches
  <1>  HIDE DEF data, oe
  <1>3. output \in SUBSET Adapter!Pins
    BY <1>1 DEF Adapter!put
  <1>  HIDE DEF output
  <1>4. Adapter!put(output, sg.oe_mask, oe) \in SUBSET Adapter!Pins
          /\ Adapter!put(l.direction, sg.oe_mask, oe) \in SUBSET Adapter!Pins
    BY <1>1, <1>3 DEF Adapter!put
  <1>  QED
    BY <1>2, <1>3, <1>4 DEF Adapter!Latches

\* What the two latches become.
data_of(sg, value) == (value = "1") # sg.invert_data
oe_of(sg, value) == (value # "z") # sg.invert_oe

LEMMA SetLatchesFields ==
  ASSUME NEW l \in Adapter!Latches, NEW sg \in Adapter!Signal, NEW value
  PROVE  /\ sg.oe_mask = sg.data_mask =>
              /\ Adapter!set_latches(l, sg, value).output
                   = Adapter!put(l.output, sg.data_mask, data_of(sg, value))
              /\ Adapter!set_latches(l, sg, value).direction
                   = Adapter!put(l.direction, sg.oe_mask, oe_of(sg, value))
         /\ sg.oe_mask # sg.data_mask =>
              /\ Adapter!set_latches(l, sg, value).output =
                   Adapter!put(Adapter!put(l.output, sg.data_mask, data_of(sg, value)), sg.oe_mask,
                     oe_of(sg, value))
              /\ Adapter!set_latches(l, sg, value).direction = l.direction
         /\ data_of(sg, value) \in BOOLEAN /\ oe_of(sg, value) \in BOOLEAN
  BY DEF Adapter!set_latches, Adapter!Latches, data_of, oe_of

\* A signal that is set has the level it is set to, whatever the latches were.
LEMMA SetGivesLevel ==
  ASSUME NEW l \in Adapter!Latches, NEW sg \in Adapter!Signal, Adapter!Sensible(sg),
           NEW value \in Adapter!Levels, Adapter!can_set(sg, value)
  PROVE  Adapter!level(Adapter!set_latches(l, sg, value), sg) = value
  <1> DEFINE new == Adapter!set_latches(l, sg, value)
             data == data_of(sg, value)
             oe == oe_of(sg, value)
             enabled == IF sg.oe_mask = sg.data_mask THEN sg.oe_mask \subseteq new.direction
                        ELSE sg.oe_mask = {} \/ (sg.oe_mask \subseteq new.output) # sg.invert_oe
             high == sg.data_mask # {} /\ (sg.data_mask \subseteq new.output) # sg.invert_data
  <1>1. sg.invert_data \in BOOLEAN /\ sg.invert_oe \in BOOLEAN
    BY DEF Adapter!Signal
  <1>2. Adapter!level(new, sg) = IF ~enabled THEN "z" ELSE IF high THEN "1" ELSE "0"
    BY DEF Adapter!level
  <1>3. data \in BOOLEAN /\ oe \in BOOLEAN
    BY SetLatchesFields
  <1>4. /\ sg.oe_mask = sg.data_mask =>
              /\ new.output = Adapter!put(l.output, sg.data_mask, data)
              /\ new.direction = Adapter!put(l.direction, sg.oe_mask, oe)
        /\ sg.oe_mask # sg.data_mask =>
              /\ new.output = Adapter!put(Adapter!put(l.output, sg.data_mask, data), sg.oe_mask, oe)
              /\ new.direction = l.direction
    BY SetLatchesFields
  <1>  HIDE DEF new
  <1>5. sg.data_mask # {} => (sg.data_mask \subseteq new.output <=> data)
    <2>  HIDE DEF data, oe
    <2>1. CASE sg.oe_mask = sg.data_mask
      BY <1>3, <1>4, <2>1 DEF Adapter!put
    <2>2. CASE sg.oe_mask # sg.data_mask
      <3>1. sg.oe_mask \cap sg.data_mask = {}
        BY <2>2 DEF Adapter!Sensible
      <3>  QED
        BY <1>3, <1>4, <2>2, <3>1 DEF Adapter!put
    <2>  QED
      BY <2>1, <2>2
  <1>6. sg.oe_mask # {} => (enabled <=> value # "z")
    <2>1. CASE sg.oe_mask = sg.data_mask
      <3>1. oe = (value # "z")
        BY <1>1, <2>1 DEF Adapter!Sensible, oe_of
      <3>  HIDE DEF oe
      <3>2. sg.oe_mask # {} => (sg.oe_mask \subseteq new.direction <=> oe)
        BY <1>3, <1>4, <2>1 DEF Adapter!put
      <3>  QED
        BY <2>1, <3>1, <3>2
    <2>2. CASE sg.oe_mask # sg.data_mask
      <3>  HIDE DEF data, oe
      <3>1. sg.oe_mask # {} => (sg.oe_mask \subseteq new.output <=> oe)
        BY <1>3, <1>4, <2>2 DEF Adapter!put
      <3>2. sg.oe_mask # {} => (enabled <=> (oe # sg.invert_oe))
        BY <1>1, <1>3, <2>2, <3>1
      <3>3. (oe # sg.invert_oe) <=> value # "z"
        BY <1>1 DEF oe, oe_of
      <3>  QED
        BY <3>2, <3>3
    <2>  QED
      BY <2>1, <2>2
  <1>7. sg.oe_mask = {} => enabled /\ value # "z"
    BY DEF Adapter!can_set
  <1>8. sg.data_mask # {} => (high <=> value = "1")
    <2>1. (data # sg.invert_data) <=> value = "1"
      BY <1>1 DEF data_of
    <2>  HIDE DEF data
    <2>  QED
      BY <1>1, <1>3, <1>5, <2>1
  <1>9. sg.data_mask = {} => ~high /\ value # "1"
    BY DEF Adapter!can_set
  <1>  HIDE DEF enabled, high
  <1>10. (enabled <=> value # "z") /\ (high <=> value = "1")
    BY <1>6, <1>7, <1>8, <1>9
  <1>  QED
    BY <1>2, <1>10 DEF Adapter!Levels, new

\* Setting a signal changes no pins but its own.
LEMMA SetKeepsOthers ==
  ASSUME NEW l \in Adapter!Latches, NEW sg \in Adapter!Signal, NEW value
  PROVE  /\ Adapter!set_latches(l, sg, value).output \ (sg.data_mask \cup sg.oe_mask)
              = l.output \ (sg.data_mask \cup sg.oe_mask)
         /\ Adapter!set_latches(l, sg, value).direction \ (sg.data_mask \cup sg.oe_mask)
              = l.direction \ (sg.data_mask \cup sg.oe_mask)
  <1> DEFINE own == sg.data_mask \cup sg.oe_mask
             new == Adapter!set_latches(l, sg, value)
             data == data_of(sg, value)
             oe == oe_of(sg, value)
  <1>1. data \in BOOLEAN /\ oe \in BOOLEAN
    BY SetLatchesFields
  <1>2. /\ sg.oe_mask = sg.data_mask =>
              /\ new.output = Adapter!put(l.output, sg.data_mask, data)
              /\ new.direction = Adapter!put(l.direction, sg.oe_mask, oe)
        /\ sg.oe_mask # sg.data_mask =>
              /\ new.output = Adapter!put(Adapter!put(l.output, sg.data_mask, data), sg.oe_mask, oe)
              /\ new.direction = l.direction
    BY SetLatchesFields
  <1>  HIDE DEF data, oe, new
  <1>3. new.output \ own = l.output \ own
    BY <1>1, <1>2 DEF Adapter!put
  <1>4. new.direction \ own = l.direction \ own
    BY <1>1, <1>2 DEF Adapter!put
  <1>  QED
    BY <1>3, <1>4 DEF new

\* What is sent is of both latches; and if the chip had the old latches and all that
\* has changed is sent, it has the new ones.
LEMMA SentType ==
  ASSUME NEW c \in Adapter!Latches, NEW new \in Adapter!Latches, NEW bytes
  PROVE  Adapter!sent(c, new, bytes) \in Adapter!Latches
  <1> DEFINE pins == UNION bytes
             output == (c.output \ pins) \cup (new.output \cap pins)
             direction == (c.direction \ pins) \cup (new.direction \cap pins)
  <1>1. Adapter!sent(c, new, bytes) = [output |-> output, direction |-> direction]
    BY DEF Adapter!sent
  <1>2. c.output \in SUBSET Adapter!Pins /\ c.direction \in SUBSET Adapter!Pins
        /\ new.output \in SUBSET Adapter!Pins /\ new.direction \in SUBSET Adapter!Pins
    BY DEF Adapter!Latches
  <1>  HIDE DEF pins
  <1>3. output \in SUBSET Adapter!Pins /\ direction \in SUBSET Adapter!Pins
    BY <1>2
  <1>  HIDE DEF output, direction
  <1>  QED
    BY <1>1, <1>3 DEF Adapter!Latches

LEMMA BothBytes == Adapter!LowByte \cup (Adapter!Pins \ Adapter!LowByte) = Adapter!Pins
  BY DEF Adapter!LowByte, Adapter!Pins

LEMMA SentAll ==
  ASSUME NEW c \in Adapter!Latches, NEW new \in Adapter!Latches
  PROVE  Adapter!sent(c, new, {Adapter!LowByte, Adapter!Pins \ Adapter!LowByte}) = new
  <1>1. UNION {Adapter!LowByte, Adapter!Pins \ Adapter!LowByte} = Adapter!Pins
    BY BothBytes
  <1>  HIDE DEF Adapter!Pins
  <1>2. c.output \in SUBSET Adapter!Pins /\ c.direction \in SUBSET Adapter!Pins
        /\ new.output \in SUBSET Adapter!Pins /\ new.direction \in SUBSET Adapter!Pins
        /\ new = [output |-> new.output, direction |-> new.direction]
    BY DEF Adapter!Latches
  <1>3. (c.output \ Adapter!Pins) \cup (new.output \cap Adapter!Pins) = new.output
    BY <1>2
  <1>4. (c.direction \ Adapter!Pins) \cup (new.direction \cap Adapter!Pins) = new.direction
    BY <1>2
  <1>5. Adapter!sent(c, new, {Adapter!LowByte, Adapter!Pins \ Adapter!LowByte}) =
          [output |-> (c.output \ Adapter!Pins) \cup (new.output \cap Adapter!Pins),
           direction |-> (c.direction \ Adapter!Pins) \cup (new.direction \cap Adapter!Pins)]
    BY <1>1 DEF Adapter!sent
  <1>  QED
    BY <1>2, <1>3, <1>4, <1>5

LEMMA SentChanged ==
  ASSUME NEW old \in Adapter!Latches, NEW new \in Adapter!Latches
  PROVE  Adapter!sent(old, new, Adapter!changed_bytes(old, new)) = new
  <1> DEFINE pins == UNION Adapter!changed_bytes(old, new)
             output == (old.output \ pins) \cup (new.output \cap pins)
             direction == (old.direction \ pins) \cup (new.direction \cap pins)
  <1>1. Adapter!sent(old, new, Adapter!changed_bytes(old, new))
          = [output |-> output, direction |-> direction]
    BY DEF Adapter!sent
  <1>2. old.output \in SUBSET Adapter!Pins /\ old.direction \in SUBSET Adapter!Pins
        /\ new.output \in SUBSET Adapter!Pins /\ new.direction \in SUBSET Adapter!Pins
        /\ new = [output |-> new.output, direction |-> new.direction]
    BY DEF Adapter!Latches
  <1>3. ASSUME NEW p \in Adapter!Pins, p \notin pins
        PROVE  (p \in old.output <=> p \in new.output) /\ (p \in old.direction
                 <=> p \in new.direction)
    <2>1. PICK b \in {Adapter!LowByte, Adapter!Pins \ Adapter!LowByte} : p \in b
      BY BothBytes
    <2>2. b \notin Adapter!changed_bytes(old, new)
      BY <1>3, <2>1
    <2>3. new.output \cap b = old.output \cap b /\ new.direction \cap b = old.direction \cap b
      BY <2>1, <2>2 DEF Adapter!changed_bytes
    <2>  HIDE DEF pins
    <2>  QED
      BY <2>1, <2>3
  <1>  HIDE DEF pins, Adapter!Pins
  <1>4. output = new.output /\ direction = new.direction
    <2>1. output \subseteq new.output /\ new.output \subseteq output
      BY <1>2, <1>3
    <2>2. direction \subseteq new.direction /\ new.direction \subseteq direction
      BY <1>2, <1>3
    <2>  HIDE DEF output, direction
    <2>  QED
      BY <2>1, <2>2
  <1>  HIDE DEF output, direction
  <1>  QED
    BY <1>1, <1>2, <1>4

-----------------------------------------------------------------------------
(* The inductive invariant                                                   *)

\* Every signal is one a board can have.
AllSensible == \A n \in DOMAIN signals : Adapter!Sensible(signals[n])

\* The table begins with what the last command gave, followed by its end; and the last
\* place of the table is an end in any case.
TableEnds ==
  /\ ids[MAX_USB_IDS] = NoId
  /\ configured # <<NoId>> =>
       /\ configured \in Seq(Ids) /\ Len(configured) <= MAX_USB_IDS
       /\ \A n \in 0 .. Len(configured) - 1 : ids[n] = configured[n + 1]
       /\ ids[Len(configured)] = NoId

\* The last signal set is one there is; while the adapter is ready the latches give it its level.
SetSignal ==
  was_set # << >> =>
    /\ was_set[1] \in DOMAIN signals
    /\ ready => Adapter!level(latches, signals[was_set[1]]) = was_set[2]

\* One signal is the opposite of the other, by the same pins.
opposite(sg, t) ==
  /\ sg.data_mask = t.data_mask /\ sg.oe_mask = t.oe_mask /\ sg.input_mask = t.input_mask
  /\ sg.invert_oe = t.invert_oe
  /\ sg.invert_data = ~t.invert_data /\ sg.invert_input = ~t.invert_input
Mirrored ==
  mirror # << >> =>
    /\ mirror[1] \in DOMAIN signals /\ mirror[2] \in DOMAIN signals
    /\ opposite(signals[mirror[1]], signals[mirror[2]])

AdapterInv == Adapter!TypeOK /\ AllSensible /\ TableEnds /\ Adapter!ChipInStep /\ SetSignal
  /\ Mirrored

-----------------------------------------------------------------------------
(* Defining signals                                                          *)

\* The driver's signals after one more, or another of the name, is defined.
LEMMA DefineSound ==
  ASSUME NEW name \in Names, NEW sg \in Adapter!Signal, Adapter!Sensible(sg), Adapter!TypeOK,
           AllSensible,
         signals' = Adapter!with_signal(name, sg)
  PROVE  /\ DOMAIN signals' = DOMAIN signals \cup {name}
         /\ DOMAIN signals' \subseteq Names
              /\ \A n \in DOMAIN signals' : signals'[n] \in Adapter!Signal
         /\ AllSensible'
         /\ signals'[name] = sg /\ \A n \in DOMAIN signals \ {name} : signals'[n] = signals[n]
  BY DEF Adapter!with_signal, Adapter!TypeOK, AllSensible

\* An alias is a signal of a board as much as what it is an alias of.
LEMMA AliasSound ==
  ASSUME NEW sg \in Adapter!Signal, Adapter!Sensible(sg), NEW inverted \in BOOLEAN
  PROVE  /\ Adapter!aliased(sg, inverted) \in Adapter!Signal
              /\ Adapter!Sensible(Adapter!aliased(sg, inverted))
         /\ inverted => opposite(Adapter!aliased(sg, inverted), sg)
  <1> DEFINE data == inverted # sg.invert_data
             input == inverted # sg.invert_input
             t == Adapter!aliased(sg, inverted)
  <1>1. t = [sg EXCEPT !.invert_data = data, !.invert_input = input]
    BY DEF Adapter!aliased
  <1>2. data \in BOOLEAN /\ input \in BOOLEAN /\ sg.invert_data \in BOOLEAN
          /\ sg.invert_input \in BOOLEAN
    BY DEF Adapter!Signal
  <1>3. inverted => data = ~sg.invert_data /\ input = ~sg.invert_input
    BY <1>2
  <1>  HIDE DEF data, input, t
  <1>4. /\ t.data_mask = sg.data_mask /\ t.oe_mask = sg.oe_mask /\ t.input_mask = sg.input_mask
        /\ t.invert_oe = sg.invert_oe /\ t.invert_data = data /\ t.invert_input = input
    BY <1>1 DEF Adapter!Signal
  <1>5. t \in Adapter!Signal
    BY <1>1, <1>2 DEF Adapter!Signal
  <1>6. Adapter!Sensible(t)
    BY <1>4 DEF Adapter!Sensible
  <1>7. inverted => opposite(t, sg)
    BY <1>3, <1>4, Zenon DEF opposite
  <1>  QED
    BY <1>5, <1>6, <1>7 DEF t

LEMMA LayoutSignalInv ==
  ASSUME Adapter!AdapterAssumption, AdapterInv, NEW name \in Names,
           Adapter!ftdi_handle_layout_signal_command(name)
  PROVE  AdapterInv'
  <1>1. Adapter!TypeOK /\ AllSensible /\ TableEnds /\ Adapter!ChipInStep /\ Mirrored
    BY DEF AdapterInv
  <1>2. PICK sg \in Adapter!Signal :
          /\ Adapter!Sensible(sg) /\ Adapter!define_signal(name, sg)
          /\ \/ mirror' = IF mirror # << >> /\ name \in {mirror[1], mirror[2]} THEN << >>
                  ELSE mirror
             \/ \E of \in DOMAIN signals \ {name} : mirror' = <<name, of>>
                  /\ opposite(sg, signals[of])
    <2>1. CASE \E sg \in Layouts[name] :
                 /\ Adapter!define_signal(name, sg)
                 /\ mirror' = IF mirror # << >> /\ name \in {mirror[1], mirror[2]} THEN << >>
                      ELSE mirror
      BY <2>1 DEF Adapter!AdapterAssumption
    <2>2. ASSUME NEW of \in DOMAIN signals \ {name}, NEW inverted \in BOOLEAN,
                 Adapter!define_signal(name, Adapter!aliased(signals[of], inverted)),
                 mirror' = IF inverted THEN <<name, of>>
                           ELSE IF mirror # << >> /\ name \in {mirror[1], mirror[2]}
                             THEN << >> ELSE mirror
          PROVE  \E sg \in Adapter!Signal :
                   /\ Adapter!Sensible(sg) /\ Adapter!define_signal(name, sg)
                   /\ \/ mirror' = IF mirror # << >> /\ name \in {mirror[1], mirror[2]}
                           THEN << >> ELSE mirror
                      \/ \E o \in DOMAIN signals \ {name} : mirror' = <<name, o>>
                           /\ opposite(sg, signals[o])
      <3>1. signals[of] \in Adapter!Signal /\ Adapter!Sensible(signals[of])
        BY <1>1 DEF Adapter!TypeOK, AllSensible
      <3>  DEFINE sg == Adapter!aliased(signals[of], inverted)
      <3>2. sg \in Adapter!Signal /\ Adapter!Sensible(sg) /\ (inverted => opposite(sg, signals[of]))
        BY <3>1, AliasSound
      <3>  HIDE DEF sg
      <3>3. Adapter!define_signal(name, sg)
        BY <2>2 DEF sg
      <3>  QED
        BY <2>2, <3>2, <3>3
    <2>  QED
      BY <2>1, <2>2 DEF Adapter!ftdi_handle_layout_signal_command
  <1>3. /\ signals' = Adapter!with_signal(name, sg) /\ was_set' = << >>
        /\ UNCHANGED <<ids, swd_mode, init, latches, mpsse_ctx, ready, chip, configured, tried,
             lost>>
    BY <1>2 DEF Adapter!define_signal
  <1>4. /\ DOMAIN signals' = DOMAIN signals \cup {name}
        /\ DOMAIN signals' \subseteq Names
             /\ \A n \in DOMAIN signals' : signals'[n] \in Adapter!Signal
        /\ AllSensible'
        /\ signals'[name] = sg /\ \A n \in DOMAIN signals \ {name} : signals'[n] = signals[n]
    BY <1>1, <1>2, <1>3, DefineSound
  <1>5. Adapter!TypeOK'
    BY <1>1, <1>3, <1>4 DEF Adapter!TypeOK
  <1>6. TableEnds' /\ Adapter!ChipInStep' /\ SetSignal'
    BY <1>1, <1>3 DEF TableEnds, Adapter!ChipInStep, SetSignal
  <1>7. Mirrored'
    <2>1. CASE mirror' = IF mirror # << >> /\ name \in {mirror[1], mirror[2]} THEN << >> ELSE mirror
      BY <1>1, <1>4, <2>1 DEF Mirrored
    <2>2. CASE \E of \in DOMAIN signals \ {name} : mirror' = <<name, of>>
                 /\ opposite(sg, signals[of])
      BY <1>4, <2>2 DEF Mirrored
    <2>  QED
      BY <1>2, <2>1, <2>2
  <1>  QED
    BY <1>4, <1>5, <1>6, <1>7 DEF AdapterInv

LEMMA SwdEnabledInv ==
  ASSUME Adapter!AdapterAssumption, AdapterInv, Adapter!ftdi_swd_init
  PROVE  AdapterInv'
  <1>1. Adapter!TypeOK /\ AllSensible /\ TableEnds /\ Adapter!ChipInStep /\ SetSignal
          /\ Mirrored /\ ~ready
    BY DEF AdapterInv, Adapter!ftdi_swd_init
  <1>2. /\ UNCHANGED <<ids, init, latches, mpsse_ctx, ready, chip, configured, tried, mirror,
             was_set, lost>>
        /\ swd_mode' = TRUE
    BY DEF Adapter!ftdi_swd_init
  <1>3. CASE signals' = signals
    BY <1>1, <1>2, <1>3 DEF AdapterInv, Adapter!TypeOK, AllSensible, TableEnds, Adapter!ChipInStep,
       SetSignal, Mirrored
  <1>4. CASE signals' # signals
    <2>  DEFINE TMS == [Adapter!NoSignal EXCEPT !.data_mask = {Adapter!TmsPin}]
    <2>1. "TMS" \in Names /\ "TMS" \notin DOMAIN signals
            /\ signals' = Adapter!with_signal("TMS", TMS)
      BY <1>4 DEF Adapter!ftdi_swd_init, Adapter!defined
    <2>2. TMS \in Adapter!Signal /\ Adapter!Sensible(TMS)
      <3>1. TMS = [Adapter!NoSignal EXCEPT !.data_mask = {3}]
        BY DEF Adapter!TmsPin
      <3>  HIDE DEF TMS
      <3>2. /\ TMS = [data_mask |-> {3}, input_mask |-> {}, oe_mask |-> {},
                      invert_data |-> FALSE, invert_input |-> FALSE, invert_oe |-> FALSE]
        BY <3>1 DEF Adapter!NoSignal
      <3>3. {3} \in SUBSET Adapter!Pins /\ {} \in SUBSET Adapter!Pins /\ {} # {3}
              /\ {} \cap {3} = {}
        BY DEF Adapter!Pins
      <3>  HIDE DEF Adapter!Pins
      <3>4. TMS \in Adapter!Signal
        BY <3>2, <3>3 DEF Adapter!Signal
      <3>5. TMS.oe_mask = {} /\ TMS.data_mask = {3}
        BY <3>2
      <3>  QED
        BY <3>3, <3>4, <3>5 DEF Adapter!Sensible
    <2>  HIDE DEF TMS
    <2>3. /\ DOMAIN signals' = DOMAIN signals \cup {"TMS"}
          /\ DOMAIN signals' \subseteq Names
               /\ \A n \in DOMAIN signals' : signals'[n] \in Adapter!Signal
          /\ AllSensible'
          /\ \A n \in DOMAIN signals : signals'[n] = signals[n]
      BY <1>1, <2>1, <2>2, DefineSound
    <2>4. Adapter!TypeOK'
      BY <1>1, <1>2, <2>3 DEF Adapter!TypeOK
    <2>5. TableEnds' /\ Adapter!ChipInStep' /\ SetSignal' /\ Mirrored'
      BY <1>1, <1>2, <2>3 DEF TableEnds, Adapter!ChipInStep, SetSignal, Mirrored
    <2>  QED
      BY <2>3, <2>4, <2>5 DEF AdapterInv
  <1>  QED
    BY <1>3, <1>4

-----------------------------------------------------------------------------
(* The table of ids                                                          *)

LEMMA CutSound ==
  ASSUME Adapter!AdapterAssumption, NEW n \in 1 .. MAX_USB_IDS + 1, NEW given \in [1 .. n -> Ids]
  PROVE  /\ Adapter!cut_to_table(given) \in Seq(Ids)
         /\ Len(Adapter!cut_to_table(given)) \in 1 .. MAX_USB_IDS
  <1>1. given \in Seq(Ids) /\ Len(given) = n /\ MAX_USB_IDS \in Nat \ {0} /\ n \in Nat
    BY DEF Adapter!AdapterAssumption
  <1>2. CASE n > MAX_USB_IDS
    <2>1. /\ SubSeq(given, 1, MAX_USB_IDS) \in Seq(Ids)
          /\ Len(SubSeq(given, 1, MAX_USB_IDS)) = MAX_USB_IDS
      <3>1. 1 \in 1 .. Len(given) + 1 /\ MAX_USB_IDS \in 1 - 1 .. Len(given)
        BY <1>1, <1>2
      <3>2. (IF 1 <= MAX_USB_IDS THEN MAX_USB_IDS - 1 + 1 ELSE 0) = MAX_USB_IDS
        BY <1>1
      <3>  QED
        BY <1>1, <3>1, <3>2, SubSeqProperties
    <2>  QED
      BY <1>1, <1>2, <2>1 DEF Adapter!cut_to_table
  <1>3. CASE ~(n > MAX_USB_IDS)
    BY <1>1, <1>3 DEF Adapter!cut_to_table
  <1>  QED
    BY <1>2, <1>3

\* A command that is good leaves its pairs and an end behind them.
LEMMA WrittenGood ==
  ASSUME Adapter!AdapterAssumption, Adapter!TypeOK, TableEnds,
         NEW pairs \in Seq(Ids), Len(pairs) \in 1 .. MAX_USB_IDS,
         ids' = Adapter!written(pairs, TRUE), configured' = pairs
  PROVE  TableEnds' /\ ids' \in [0 .. MAX_USB_IDS -> Ids \cup {NoId}]
  <1> DEFINE len == Len(pairs)
  <1>1. MAX_USB_IDS \in Nat /\ len \in 1 .. MAX_USB_IDS /\ len \in Nat
        /\ \A n \in 1 .. len : pairs[n] \in Ids
    BY DEF Adapter!AdapterAssumption
  <1>2. ids' = [n \in 0 .. MAX_USB_IDS |-> IF n < len THEN pairs[n + 1]
                                           ELSE IF n = len THEN NoId ELSE ids[n]]
    BY DEF Adapter!written
  <1>3. ids \in [0 .. MAX_USB_IDS -> Ids \cup {NoId}] /\ ids[MAX_USB_IDS] = NoId
    BY DEF Adapter!TypeOK, TableEnds
  <1>  HIDE DEF len
  <1>4. ASSUME NEW n \in 0 .. MAX_USB_IDS
        PROVE  (IF n < len THEN pairs[n + 1] ELSE IF n = len THEN NoId
                 ELSE ids[n]) \in Ids \cup {NoId}
    <2>1. CASE n < len
      <3>1. n + 1 \in 1 .. len
        BY <1>1, <2>1
      <3>  QED
        BY <1>1, <2>1, <3>1
    <2>2. CASE ~(n < len)
      BY <1>3, <2>2
    <2>  QED
      BY <2>1, <2>2
  <1>5. ids' \in [0 .. MAX_USB_IDS -> Ids \cup {NoId}]
    BY <1>2, <1>4
  <1>6. ids'[MAX_USB_IDS] = NoId /\ ids'[len] = NoId
    BY <1>1, <1>2, <1>3
  <1>7. ASSUME NEW n \in 0 .. len - 1  PROVE ids'[n] = pairs[n + 1]
    <2>1. n \in 0 .. MAX_USB_IDS /\ n < len
      BY <1>1, <1>7
    <2>  QED
      BY <1>2, <2>1
  <1>8. len <= MAX_USB_IDS /\ configured' \in Seq(Ids)
    BY <1>1
  <1>  QED
    BY <1>5, <1>6, <1>7, <1>8 DEF TableEnds, len

\* One that is not has overwritten the beginning of the table, never its last place.
LEMMA WrittenBad ==
  ASSUME Adapter!AdapterAssumption, Adapter!TypeOK, TableEnds,
         NEW pairs \in Seq(Ids), Len(pairs) \in 1 .. MAX_USB_IDS,
         NEW count \in 0 .. Len(pairs) - 1, NEW half \in Ids \cup {NoId},
         ids' = Adapter!half_written(pairs, count, half), configured' = <<NoId>>
  PROVE  TableEnds' /\ ids' \in [0 .. MAX_USB_IDS -> Ids \cup {NoId}]
  <1> DEFINE some == SubSeq(pairs, 1, count)
             len == Len(some)
             place(n) == IF n = count THEN half ELSE IF n < len THEN some[n + 1] ELSE ids[n]
  <1>1. /\ MAX_USB_IDS \in Nat /\ len \in Nat /\ len < MAX_USB_IDS
        /\ count \in Nat /\ count < MAX_USB_IDS
        /\ \A n \in 1 .. len : some[n] \in Ids
    <2>1. /\ MAX_USB_IDS \in Nat /\ Len(pairs) \in 1 .. MAX_USB_IDS
          /\ count \in 0 .. Len(pairs) - 1 /\ Len(pairs) \in Nat
      BY DEF Adapter!AdapterAssumption
    <2>2. 1 \in 1 .. Len(pairs) + 1 /\ count \in 1 - 1 .. Len(pairs)
      BY <2>1
    <2>3. some \in Seq(Ids) /\ len = (IF 1 <= count THEN count - 1 + 1 ELSE 0)
      BY <2>2, SubSeqProperties
    <2>4. (IF 1 <= count THEN count - 1 + 1 ELSE 0) = count
      BY <2>1
    <2>  QED
      BY <2>1, <2>3, <2>4
  <1>2. ids' = [n \in 0 .. MAX_USB_IDS |-> place(n)]
    BY DEF Adapter!written, Adapter!half_written
  <1>3. ids \in [0 .. MAX_USB_IDS -> Ids \cup {NoId}] /\ ids[MAX_USB_IDS] = NoId
    BY DEF Adapter!TypeOK, TableEnds
  <1>  HIDE DEF some, len
  <1>4. ASSUME NEW n \in 0 .. MAX_USB_IDS
        PROVE  place(n) \in Ids \cup {NoId}
    <2>1. CASE n < len
      <3>1. n + 1 \in 1 .. len
        BY <1>1, <2>1
      <3>  QED
        BY <1>1, <2>1, <3>1
    <2>2. CASE ~(n < len)
      BY <1>3, <2>2
    <2>  QED
      BY <2>1, <2>2
  <1>5. ids' \in [0 .. MAX_USB_IDS -> Ids \cup {NoId}]
    BY <1>2, <1>4
  <1>6. ids'[MAX_USB_IDS] = NoId
    <2>1. MAX_USB_IDS \in 0 .. MAX_USB_IDS /\ ~(MAX_USB_IDS < len) /\ MAX_USB_IDS # count
      BY <1>1
    <2>  QED
      BY <1>2, <1>3, <2>1
  <1>  QED
    BY <1>5, <1>6 DEF TableEnds

LEMMA VidPidInv ==
  ASSUME Adapter!AdapterAssumption, AdapterInv, NEW n \in 1 .. MAX_USB_IDS + 1,
           NEW given \in [1 .. n -> Ids],
         Adapter!ftdi_handle_vid_pid_command(given)
  PROVE  AdapterInv'
  <1> DEFINE pairs == Adapter!cut_to_table(given)
  <1>1. Adapter!TypeOK /\ AllSensible /\ TableEnds /\ Adapter!ChipInStep /\ SetSignal /\ Mirrored
    BY DEF AdapterInv
  <1>2. UNCHANGED <<signals, swd_mode, init, latches, mpsse_ctx, ready, chip, tried, mirror,
          was_set, lost>>
    BY DEF Adapter!ftdi_handle_vid_pid_command
  <1>3. pairs \in Seq(Ids) /\ Len(pairs) \in 1 .. MAX_USB_IDS
    BY CutSound
  <1>4. TableEnds' /\ ids' \in [0 .. MAX_USB_IDS -> Ids \cup {NoId}]
    <2>1. \/ ids' = Adapter!written(pairs, TRUE) /\ configured' = pairs
          \/ \E count \in 0 .. Len(pairs) - 1 :
               \E half \in Ids \cup {NoId} :
                 ids' = Adapter!half_written(pairs, count, half) /\ configured' = <<NoId>>
      BY DEF Adapter!ftdi_handle_vid_pid_command
    <2>  HIDE DEF pairs
    <2>  QED
      BY <1>1, <1>3, <2>1, WrittenGood, WrittenBad
  <1>5. Adapter!TypeOK'
    BY <1>1, <1>2, <1>4 DEF Adapter!TypeOK
  <1>6. AllSensible' /\ Adapter!ChipInStep' /\ SetSignal' /\ Mirrored'
    BY <1>1, <1>2 DEF AllSensible, Adapter!ChipInStep, SetSignal, Mirrored
  <1>  QED
    BY <1>4, <1>5, <1>6 DEF AdapterInv

-----------------------------------------------------------------------------
(* Starting, stopping and setting                                            *)

LEMMA LayoutInitInv ==
  ASSUME Adapter!AdapterAssumption, AdapterInv, NEW new \in Inits,
           Adapter!ftdi_handle_layout_init_command(new)
  PROVE  AdapterInv'
  BY DEF Adapter!AdapterAssumption, AdapterInv, Adapter!ftdi_handle_layout_init_command,
     Adapter!TypeOK, AllSensible, TableEnds,
         Adapter!ChipInStep, SetSignal, Mirrored

LEMMA QuitInv ==
  ASSUME AdapterInv, Adapter!ftdi_quit
  PROVE  AdapterInv'
  BY DEF AdapterInv, Adapter!ftdi_quit, Adapter!conf, Adapter!TypeOK, AllSensible, TableEnds,
     Adapter!ChipInStep, SetSignal, Mirrored

LEMMA InitializeInv ==
  ASSUME Adapter!AdapterAssumption, AdapterInv, NEW present \in SUBSET Ids,
           Adapter!ftdi_initialize(present)
  PROVE  AdapterInv'
  <1>1. Adapter!TypeOK /\ AllSensible /\ TableEnds /\ Adapter!ChipInStep /\ SetSignal /\ Mirrored
        /\ ~ready /\ UNCHANGED <<signals, ids, swd_mode, init, configured, mirror>>
    BY DEF AdapterInv, Adapter!ftdi_initialize, Adapter!conf
  <1>2. AllSensible' /\ TableEnds' /\ Mirrored'
    BY <1>1 DEF AllSensible, TableEnds, Mirrored
  <1>3. \/ UNCHANGED <<latches, mpsse_ctx, ready, chip, was_set, lost>>
        \/ /\ mpsse_ctx' = "open" /\ was_set' = << >>
           /\ latches' = init /\ UNCHANGED <<ready, chip, lost>>
        \/ /\ mpsse_ctx' = "open" /\ was_set' = << >>
           /\ \/ latches' = init
              \/ Adapter!defined("SWD_EN")
                   /\ latches' = Adapter!set_latches(init, signals["SWD_EN"], "1")
           /\ \E ok \in BOOLEAN : Adapter!flush({Adapter!LowByte, Adapter!Pins \ Adapter!LowByte},
                ok) /\ ready' = ok /\ lost' = ~ok
    BY DEF Adapter!ftdi_initialize
  <1>4. CASE UNCHANGED <<latches, mpsse_ctx, ready, chip, was_set, lost>>
    BY <1>1, <1>2, <1>4 DEF AdapterInv, Adapter!TypeOK, Adapter!ChipInStep, SetSignal
  <1>5. CASE /\ mpsse_ctx' = "open" /\ was_set' = << >>
             /\ latches' = init /\ UNCHANGED <<ready, chip, lost>>
    BY <1>1, <1>2, <1>5 DEF AdapterInv, Adapter!TypeOK, Adapter!ChipInStep, SetSignal
  <1>6. CASE /\ mpsse_ctx' = "open" /\ was_set' = << >>
             /\ \/ latches' = init
                \/ Adapter!defined("SWD_EN")
                     /\ latches' = Adapter!set_latches(init, signals["SWD_EN"], "1")
             /\ \E ok \in BOOLEAN : Adapter!flush({Adapter!LowByte,
                  Adapter!Pins \ Adapter!LowByte}, ok) /\ ready' = ok /\ lost' = ~ok
    <2>1. latches' \in Adapter!Latches
      BY <1>1, <1>6, SetLatchesType DEF Adapter!TypeOK, Adapter!defined
    <2>2. PICK ok \in BOOLEAN,
            arrived \in SUBSET {Adapter!LowByte, Adapter!Pins \ Adapter!LowByte} :
            /\ ok => arrived = {Adapter!LowByte, Adapter!Pins \ Adapter!LowByte}
            /\ chip' = Adapter!sent(chip, latches', arrived) /\ ready' = ok /\ lost' = ~ok
      BY <1>6 DEF Adapter!flush
    <2>3. chip' \in Adapter!Latches
      BY <1>1, <2>1, <2>2, SentType DEF Adapter!TypeOK
    <2>4. Adapter!TypeOK'
      BY <1>1, <1>6, <2>1, <2>2, <2>3 DEF Adapter!TypeOK
    <2>5. Adapter!ChipInStep'
      <3>1. chip \in Adapter!Latches
        BY <1>1 DEF Adapter!TypeOK
      <3>2. ASSUME ready'  PROVE chip' = latches'
        <4>1. chip' = Adapter!sent(chip, latches',
                {Adapter!LowByte, Adapter!Pins \ Adapter!LowByte})
          BY <2>2, <3>2
        <4>  QED
          BY <2>1, <3>1, <4>1, SentAll
      <3>  QED
        BY <3>2 DEF Adapter!ChipInStep
    <2>6. SetSignal'
      BY <1>6 DEF SetSignal
    <2>  QED
      BY <1>2, <2>4, <2>5, <2>6 DEF AdapterInv
  <1>  QED
    BY <1>3, <1>4, <1>5, <1>6

LEMMA SetSignalInv ==
  ASSUME Adapter!AdapterAssumption, AdapterInv, NEW name \in Names, NEW value \in Adapter!Levels,
         Adapter!ftdi_handle_set_signal_command(name, value)
  PROVE  AdapterInv'
  <1> DEFINE sg == signals[name]
  <1>1. Adapter!TypeOK /\ AllSensible /\ TableEnds /\ Adapter!ChipInStep /\ SetSignal /\ Mirrored
        /\ ready /\ name \in DOMAIN signals
        /\ UNCHANGED <<signals, ids, swd_mode, init, configured, mirror, mpsse_ctx, ready, tried>>
    BY DEF AdapterInv, Adapter!ftdi_handle_set_signal_command, Adapter!conf, Adapter!defined
  <1>2. sg \in Adapter!Signal /\ Adapter!Sensible(sg) /\ latches \in Adapter!Latches
          /\ chip \in Adapter!Latches
    BY <1>1 DEF Adapter!TypeOK, AllSensible
  <1>3. /\ latches' = IF Adapter!can_set(sg, value)
             THEN Adapter!set_latches(latches, sg, value) ELSE latches
        /\ was_set' = IF Adapter!can_set(sg, value) THEN <<name, value>> ELSE << >>
    BY DEF Adapter!ftdi_handle_set_signal_command, Adapter!ftdi_set_signal
  <1>4. PICK ok \in BOOLEAN, arrived \in SUBSET Adapter!changed_bytes(latches, latches') :
          /\ ok => arrived = Adapter!changed_bytes(latches, latches')
          /\ chip' = Adapter!sent(chip, latches', arrived) /\ lost' = (lost \/ ~ok)
    BY DEF Adapter!ftdi_handle_set_signal_command, Adapter!flush
  <1>  HIDE DEF sg
  <1>5. latches' \in Adapter!Latches
    BY <1>2, <1>3, SetLatchesType
  <1>6. chip' \in Adapter!Latches
    BY <1>2, <1>4, <1>5, SentType
  <1>7. Adapter!TypeOK'
    BY <1>1, <1>4, <1>5, <1>6 DEF Adapter!TypeOK
  <1>8. AllSensible' /\ TableEnds' /\ Mirrored'
    BY <1>1 DEF AllSensible, TableEnds, Mirrored
  <1>9. Adapter!ChipInStep'
    <2>1. ASSUME ~lost'  PROVE chip' = latches'
      <3>1. chip = latches
              /\ chip' = Adapter!sent(chip, latches', Adapter!changed_bytes(latches, latches'))
        BY <1>1, <1>4, <2>1 DEF Adapter!ChipInStep
      <3>  QED
        BY <1>2, <1>5, <3>1, SentChanged
    <2>  QED
      BY <2>1 DEF Adapter!ChipInStep
  <1>10. SetSignal'
    <2>1. CASE Adapter!can_set(sg, value)
      <3>1. Adapter!level(latches', sg) = value
        BY <1>2, <1>3, <2>1, SetGivesLevel
      <3>2. was_set'[1] = name /\ was_set'[2] = value /\ signals'[name] = sg
        BY <1>1, <1>3, <2>1 DEF sg
      <3>  QED
        BY <1>1, <3>1, <3>2 DEF SetSignal
    <2>2. CASE ~Adapter!can_set(sg, value)
      BY <1>3, <2>2 DEF SetSignal
    <2>  QED
      BY <2>1, <2>2
  <1>  QED
    BY <1>7, <1>8, <1>9, <1>10 DEF AdapterInv

-----------------------------------------------------------------------------
(* The invariant                                                             *)

LEMMA AdapterInitInv == Adapter!AdapterAssumption /\ Adapter!Init => AdapterInv
  <1> SUFFICES ASSUME Adapter!AdapterAssumption, Adapter!Init  PROVE AdapterInv
    OBVIOUS
  <1>1. Adapter!Start \in Adapter!Latches
    <2>1. {} \in SUBSET Adapter!Pins
      OBVIOUS
    <2>  HIDE DEF Adapter!Pins
    <2>  QED
      BY <2>1 DEF Adapter!Start, Adapter!Latches
  <1>2. MAX_USB_IDS \in Nat /\ ids = [n \in 0 .. MAX_USB_IDS |-> NoId] /\ signals = << >>
        /\ configured = << >> /\ Len(configured) = 0 /\ configured \in Seq(Ids)
    BY DEF Adapter!Init, Adapter!AdapterAssumption
  <1>3. Adapter!TypeOK
    <2>1. DOMAIN signals = {}
      BY <1>2
    <2>2. ids \in [0 .. MAX_USB_IDS -> Ids \cup {NoId}]
      BY <1>2
    <2>  QED
      BY <1>1, <2>1, <2>2 DEF Adapter!Init, Adapter!TypeOK
  <1>4. AllSensible
    BY <1>2 DEF AllSensible
  <1>5. TableEnds
    <2>1. ids[0] = NoId /\ ids[MAX_USB_IDS] = NoId
      BY <1>2
    <2>2. \A n \in 0 .. Len(configured) - 1 : FALSE
      BY <1>2
    <2>  QED
      BY <1>2, <2>1, <2>2 DEF TableEnds
  <1>6. Adapter!ChipInStep /\ SetSignal /\ Mirrored
    BY DEF Adapter!Init, Adapter!ChipInStep, SetSignal, Mirrored
  <1>  QED
    BY <1>3, <1>4, <1>5, <1>6 DEF AdapterInv

LEMMA AdapterNextInv ==
  ASSUME Adapter!AdapterAssumption, AdapterInv, Adapter!Next
  PROVE  AdapterInv'
  <1>1. ASSUME NEW new \in Inits, Adapter!ftdi_handle_layout_init_command(new)  PROVE AdapterInv'
    BY <1>1, LayoutInitInv
  <1>2. ASSUME NEW name \in Names, Adapter!ftdi_handle_layout_signal_command(name)
                 PROVE AdapterInv'
    BY <1>2, LayoutSignalInv
  <1>3. ASSUME NEW n \in 1 .. MAX_USB_IDS + 1, NEW pairs \in [1 .. n -> Ids],
               Adapter!ftdi_handle_vid_pid_command(pairs)
        PROVE  AdapterInv'
    BY <1>3, VidPidInv
  <1>4. CASE Adapter!ftdi_swd_init
    BY <1>4, SwdEnabledInv
  <1>5. ASSUME NEW present \in SUBSET Ids, Adapter!ftdi_initialize(present)  PROVE AdapterInv'
    BY <1>5, InitializeInv
  <1>6. CASE Adapter!ftdi_quit
    BY <1>6, QuitInv
  <1>7. ASSUME NEW name \in Names, NEW value \in Adapter!Levels,
                 Adapter!ftdi_handle_set_signal_command(name, value)
        PROVE  AdapterInv'
    BY <1>7, SetSignalInv
  <1>  QED
    BY <1>1, <1>2, <1>3, <1>4, <1>5, <1>6, <1>7 DEF Adapter!Next

LEMMA AdapterStutterInv ==
  ASSUME AdapterInv, UNCHANGED Adapter!vars
  PROVE  AdapterInv'
  BY DEF Adapter!vars, AdapterInv, Adapter!TypeOK, AllSensible, TableEnds, Adapter!ChipInStep,
     SetSignal, Mirrored

-----------------------------------------------------------------------------
(* The properties                                                            *)

\* An opposite signal does the opposite, and is read as the opposite.
LEMMA OppositeSets ==
  ASSUME NEW sg \in Adapter!Signal, NEW t \in Adapter!Signal, opposite(sg, t), NEW l
  PROVE  Adapter!set_latches(l, sg, "1") = Adapter!set_latches(l, t, "0")
  <1>1. /\ sg.data_mask = t.data_mask /\ sg.oe_mask = t.oe_mask /\ sg.invert_oe = t.invert_oe
        /\ sg.invert_data = ~t.invert_data /\ t.invert_data \in BOOLEAN
    BY DEF opposite, Adapter!Signal
  <1>2. (("1" = "1") # sg.invert_data) = (("0" = "1") # t.invert_data)
    BY <1>1
  <1>3. ("1" # "z") /\ ("0" # "z")
    OBVIOUS
  <1>  DEFINE set(data, oe) ==
                LET output == Adapter!put(l.output, sg.data_mask, data)
                IN IF sg.oe_mask = sg.data_mask
                   THEN [output |-> output, direction |-> Adapter!put(l.direction, sg.oe_mask, oe)]
                   ELSE [l EXCEPT !.output = Adapter!put(output, sg.oe_mask, oe)]
              data_s == ("1" = "1") # sg.invert_data
              data_t == ("0" = "1") # t.invert_data
              oe_s == ("1" # "z") # sg.invert_oe
              oe_t == ("0" # "z") # t.invert_oe
  <1>4. Adapter!set_latches(l, sg, "1") = set(data_s, oe_s)
    BY DEF Adapter!set_latches
  <1>5. Adapter!set_latches(l, t, "0") = set(data_t, oe_t)
    BY <1>1 DEF Adapter!set_latches
  <1>6. data_s = data_t
    BY <1>2
  <1>7. oe_s = oe_t
    BY <1>1, <1>3
  <1>  HIDE DEF set, data_s, data_t, oe_s, oe_t
  <1>  QED
    BY <1>4, <1>5, <1>6, <1>7

LEMMA OppositeReads ==
  ASSUME NEW sg \in Adapter!Signal, NEW t \in Adapter!Signal, opposite(sg, t), NEW pins
  PROVE  Adapter!read_signal(pins, sg) = t.input_mask \ Adapter!read_signal(pins, t)
  <1>1. /\ sg.input_mask = t.input_mask /\ t.input_mask \in SUBSET Adapter!Pins
        /\ sg.invert_input = ~t.invert_input /\ t.invert_input \in BOOLEAN
    BY DEF opposite, Adapter!Signal
  <1>  HIDE DEF Adapter!Pins
  <1>2. CASE t.invert_input
    BY <1>1, <1>2 DEF Adapter!read_signal
  <1>3. CASE ~t.invert_input
    BY <1>1, <1>3 DEF Adapter!read_signal
  <1>  QED
    BY <1>1, <1>2, <1>3

LEMMA AdapterProperties ==
  ASSUME Adapter!AdapterAssumption, AdapterInv
  PROVE  Adapter!IdsTerminated /\ Adapter!LevelIsSet /\ Adapter!AliasInverts
  <1>1. Adapter!TypeOK /\ TableEnds /\ Adapter!ChipInStep /\ SetSignal /\ Mirrored
    BY DEF AdapterInv
  <1>2. Adapter!IdsTerminated
    <2>1. MAX_USB_IDS \in 0 .. MAX_USB_IDS
      BY DEF Adapter!AdapterAssumption
    <2>  QED
      BY <1>1, <2>1 DEF TableEnds, Adapter!IdsTerminated
  <1>3. Adapter!LevelIsSet
    BY <1>1 DEF Adapter!ChipInStep, SetSignal, Adapter!LevelIsSet
  <1>4. ASSUME mirror # << >>  PROVE Adapter!AliasInverts
    <2>  DEFINE sg == signals[mirror[1]]
                t == signals[mirror[2]]
    <2>1. sg \in Adapter!Signal /\ t \in Adapter!Signal /\ opposite(sg, t)
      BY <1>1, <1>4 DEF Adapter!TypeOK, Mirrored
    <2>  HIDE DEF sg, t
    <2>2. \A l : Adapter!set_latches(l, sg, "1") = Adapter!set_latches(l, t, "0")
      BY <2>1, OppositeSets
    <2>3. \A pins : Adapter!read_signal(pins, sg) = t.input_mask \ Adapter!read_signal(pins, t)
      BY <2>1, OppositeReads
    <2>  QED
      BY <2>2, <2>3 DEF Adapter!AliasInverts, sg, t
  <1>  QED
    BY <1>2, <1>3, <1>4 DEF Adapter!AliasInverts

\* The pairs that are tried are those that were given.
LEMMA CountIsLength ==
  ASSUME Adapter!AdapterAssumption, Adapter!TypeOK, TableEnds, configured # <<NoId>>
  PROVE  Adapter!id_count = Len(configured)
  <1> DEFINE len == Len(configured)
             ends(n) == ids[n] = NoId /\ \A m \in 0 .. n - 1 : ids[m] # NoId
  <1>1. /\ MAX_USB_IDS \in Nat /\ configured \in Seq(Ids) /\ len \in Nat /\ len <= MAX_USB_IDS
        /\ \A n \in 0 .. len - 1 : ids[n] = configured[n + 1]
        /\ ids[len] = NoId /\ NoId \notin Ids
    BY DEF Adapter!AdapterAssumption, TableEnds
  <1>2. \A n \in 1 .. len : configured[n] \in Ids
    BY <1>1
  <1>  HIDE DEF len
  <1>3. ASSUME NEW n \in 0 .. len - 1  PROVE ids[n] # NoId
    <2>1. n + 1 \in 1 .. len
      BY <1>1, <1>3
    <2>  QED
      BY <1>1, <1>2, <1>3, <2>1
  <1>4. len \in 0 .. MAX_USB_IDS /\ ends(len)
    BY <1>1, <1>3
  <1>5. ASSUME NEW n \in 0 .. MAX_USB_IDS, ends(n)  PROVE n = len
    <2>1. ~(n < len)
      BY <1>1, <1>3, <1>5
    <2>2. ~(len < n)
      BY <1>1, <1>5
    <2>  QED
      BY <1>1, <2>1, <2>2
  <1>  HIDE DEF ends
  <1>6. (CHOOSE n \in 0 .. MAX_USB_IDS : ends(n)) = len
    BY <1>4, <1>5
  <1>  QED
    BY <1>6 DEF Adapter!id_count, ends, len

LEMMA NextTries ==
  ASSUME Adapter!AdapterAssumption, AdapterInv, Adapter!Next
  PROVE  Adapter!TriesConfigured
  <1> SUFFICES ASSUME tried' # tried, configured # <<NoId>>
               PROVE  /\ Len(tried') <= Len(configured)
                      /\ tried' = SubSeq(configured, 1, Len(tried'))
    BY DEF Adapter!TriesConfigured
  <1> DEFINE len == Len(configured)
  <1>1. PICK present \in SUBSET Ids : Adapter!ftdi_initialize(present)
    BY DEF Adapter!Next, Adapter!ftdi_handle_layout_init_command,
       Adapter!ftdi_handle_layout_signal_command, Adapter!define_signal,
           Adapter!ftdi_handle_vid_pid_command, Adapter!ftdi_swd_init, Adapter!ftdi_quit,
             Adapter!ftdi_handle_set_signal_command
  <1>2. /\ configured \in Seq(Ids) /\ len \in Nat
        /\ \A n \in 0 .. len - 1 : ids[n] = configured[n + 1]
        /\ Adapter!id_count = len
    BY CountIsLength DEF AdapterInv, TableEnds
  <1>3. PICK count \in 0 .. len : tried' = [n \in 1 .. count |-> ids[n - 1]]
    <2>  DEFINE found == {n \in 0 .. Adapter!id_count - 1 : ids[n] \in present}
                first == CHOOSE n \in found : \A m \in found : n <= m
    <2>1. \/ tried' = [n \in 1 .. Adapter!id_count |-> ids[n - 1]]
          \/ found # {} /\ tried' = [n \in 1 .. first + 1 |-> ids[n - 1]]
      BY <1>1 DEF Adapter!ftdi_initialize
    <2>2. ASSUME found # {}  PROVE first + 1 \in 0 .. len
      <3>1. found \in SUBSET Nat /\ found \subseteq 0 .. len - 1
        BY <1>2
      <3>  HIDE DEF found
      <3>2. \E n \in found : \A m \in found : n <= m
        BY <2>2, <3>1, LeastNat
      <3>3. first \in 0 .. len - 1
        BY <3>1, <3>2
      <3>  HIDE DEF first
      <3>  QED
        BY <1>2, <3>3
    <2>3. len \in 0 .. len
      BY <1>2
    <2>  HIDE DEF found, first
    <2>  QED
      BY <1>2, <2>1, <2>2, <2>3
  <1>  HIDE DEF len
  <1>4. ASSUME NEW n \in 1 .. count  PROVE ids[n - 1] = configured[n]
    <2>1. n - 1 \in 0 .. len - 1 /\ (n - 1) + 1 = n
      BY <1>2, <1>3, <1>4
    <2>  QED
      BY <1>2, <2>1
  <1>5. tried' = [n \in 1 .. count |-> configured[n]]
    BY <1>3, <1>4
  <1>6. \A n \in 1 .. count : configured[n] \in Ids
    BY <1>2, <1>3 DEF len
  <1>7. Len(tried') = count /\ count \in Nat
    BY <1>2, <1>3, <1>5
  <1>8. SubSeq(configured, 1, count) = [n \in 1 .. count |-> configured[n]]
    <2>  DEFINE sub == SubSeq(configured, 1, count)
    <2>1. /\ sub \in Seq(Ids) /\ Len(sub) = (IF 1 <= count THEN count - 1 + 1 ELSE 0)
          /\ \A i \in 1 .. count - 1 + 1 : sub[i] = configured[1 + i - 1]
      BY <1>6, <1>7, SubSeqProperties
    <2>2. Len(sub) = count /\ \A i \in 1 .. count : sub[i] = configured[i]
      BY <1>7, <2>1
    <2>  HIDE DEF sub
    <2>3. DOMAIN sub = 1 .. count /\ sub = [i \in DOMAIN sub |-> sub[i]]
      BY <2>1, <2>2
    <2>  QED
      BY <2>2, <2>3 DEF sub
  <1>  QED
    BY <1>2, <1>3, <1>5, <1>7, <1>8 DEF len

\* Setting a signal is the only step that changes the latches of a ready adapter.
LEMMA NextKeepsOthers ==
  ASSUME Adapter!AdapterAssumption, AdapterInv, Adapter!Next
  PROVE  Adapter!OthersStay
  <1> SUFFICES ASSUME ready, ready', was_set' # << >>, latches' # latches
               PROVE  LET sg == signals[was_set'[1]]
                          own == sg.data_mask \cup sg.oe_mask
                      IN /\ latches'.output \ own = latches.output \ own
                         /\ latches'.direction \ own = latches.direction \ own
    BY DEF Adapter!OthersStay
  <1>1. PICK name \in Names,
          value \in Adapter!Levels : Adapter!ftdi_handle_set_signal_command(name, value)
    BY DEF Adapter!Next, Adapter!ftdi_handle_layout_init_command,
       Adapter!ftdi_handle_layout_signal_command, Adapter!define_signal,
           Adapter!ftdi_handle_vid_pid_command, Adapter!ftdi_swd_init, Adapter!ftdi_quit,
             Adapter!ftdi_initialize
  <1>2. /\ latches' = Adapter!set_latches(latches, signals[name], value) /\ was_set' = <<name,
             value>>
        /\ signals[name] \in Adapter!Signal /\ latches \in Adapter!Latches
    BY <1>1 DEF Adapter!ftdi_handle_set_signal_command, Adapter!ftdi_set_signal, Adapter!defined,
       AdapterInv, Adapter!TypeOK
  <1>3. was_set'[1] = name
    BY <1>2
  <1>  QED
    BY <1>2, <1>3, SetKeepsOthers

-----------------------------------------------------------------------------
(* Theorems about the adapter                                                *)

\* The invariant holds in every state.
THEOREM AdapterInvariance == Adapter!AdapterAssumption => (Adapter!Spec => []AdapterInv)
  <1> SUFFICES ASSUME Adapter!AdapterAssumption  PROVE Adapter!Spec => []AdapterInv
    OBVIOUS
  <1>1. Adapter!Init => AdapterInv
    BY AdapterInitInv
  <1>2. AdapterInv /\ [Adapter!Next]_(Adapter!vars) => AdapterInv'
    <2> SUFFICES ASSUME AdapterInv, [Adapter!Next]_(Adapter!vars)  PROVE AdapterInv'
      OBVIOUS
    <2>1. CASE Adapter!Next
      BY <2>1, AdapterNextInv
    <2>2. CASE UNCHANGED Adapter!vars
      BY <2>2, AdapterStutterInv
    <2>  QED
      BY <2>1, <2>2
  <1>  QED
    BY <1>1, <1>2, PTL DEF Adapter!Spec

\* Every variable keeps its type, and the table of USB ids its end (ftdi.c:121-124,
\* 930-953).
THEOREM AdapterTypeCorrect ==
  Adapter!AdapterAssumption => (Adapter!Spec => [](Adapter!TypeOK /\ Adapter!IdsTerminated))
  <1> SUFFICES ASSUME Adapter!AdapterAssumption
               PROVE  Adapter!Spec => [](Adapter!TypeOK /\ Adapter!IdsTerminated)
    OBVIOUS
  <1>1. AdapterInv => Adapter!TypeOK /\ Adapter!IdsTerminated
    BY AdapterProperties DEF AdapterInv
  <1>  QED
    BY <1>1, AdapterInvariance, PTL

\* A signal has at the chip the level it was set to, whatever was set before and whatever
\* its pins and inversions (ftdi.c:198-239).
THEOREM LevelHolds == Adapter!AdapterAssumption => (Adapter!Spec => []Adapter!LevelIsSet)
  <1> SUFFICES ASSUME Adapter!AdapterAssumption  PROVE Adapter!Spec => []Adapter!LevelIsSet
    OBVIOUS
  <1>1. AdapterInv => Adapter!LevelIsSet
    BY AdapterProperties
  <1>  QED
    BY <1>1, AdapterInvariance, PTL

\* The chip's latches are the driver's, though only changed bytes are sent (ftdi.c:233-236).
THEOREM ChipStaysInStep == Adapter!AdapterAssumption => (Adapter!Spec => []Adapter!ChipInStep)
  <1>1. AdapterInv => Adapter!ChipInStep
    BY DEF AdapterInv
  <1>  QED
    BY <1>1, AdapterInvariance, PTL

\* An -nalias is the opposite of its signal (ftdi.c:834-850).
THEOREM AliasesInvert == Adapter!AdapterAssumption => (Adapter!Spec => []Adapter!AliasInverts)
  <1> SUFFICES ASSUME Adapter!AdapterAssumption  PROVE Adapter!Spec => []Adapter!AliasInverts
    OBVIOUS
  <1>1. AdapterInv => Adapter!AliasInverts
    BY AdapterProperties
  <1>  QED
    BY <1>1, AdapterInvariance, PTL

\* The devices tried are those the last ftdi_vid_pid gave, in its order (ftdi.c:697-702,
\* 930-956).
THEOREM ConfiguredAreTried ==
  Adapter!AdapterAssumption => (Adapter!Spec => [][Adapter!TriesConfigured]_(Adapter!vars))
  <1> SUFFICES ASSUME Adapter!AdapterAssumption
               PROVE  Adapter!Spec => [][Adapter!TriesConfigured]_(Adapter!vars)
    OBVIOUS
  <1>1. AdapterInv /\ [Adapter!Next]_(Adapter!vars) => [Adapter!TriesConfigured]_(Adapter!vars)
    BY NextTries
  <1>  QED
    BY <1>1, AdapterInvariance, PTL DEF Adapter!Spec

\* Setting a signal moves no pins but its own (ftdi.c:226-230).
THEOREM OwnPinsOnly ==
  Adapter!AdapterAssumption => (Adapter!Spec => [][Adapter!OthersStay]_(Adapter!vars))
  <1> SUFFICES ASSUME Adapter!AdapterAssumption
               PROVE  Adapter!Spec => [][Adapter!OthersStay]_(Adapter!vars)
    OBVIOUS
  <1>1. AdapterInv /\ [Adapter!Next]_(Adapter!vars) => [Adapter!OthersStay]_(Adapter!vars)
    BY NextKeepsOthers
  <1>  QED
    BY <1>1, AdapterInvariance, PTL DEF Adapter!Spec

-----------------------------------------------------------------------------
(* Recursion                                                                 *)

\* Numbers that include zero, and with each below n the next, are all up to n.
LEMMA Induction ==
  ASSUME NEW n \in Nat, NEW S, 0 \in S, \A k \in 0 .. n - 1 : k \in S => k + 1 \in S
  PROVE  0 .. n \subseteq S
  <1> DEFINE T == (0 .. n) \ S
  <1>1. ASSUME T # {}  PROVE FALSE
    <2>1. T \in SUBSET Nat
      OBVIOUS
    <2>2. PICK least \in T : \A m \in T : least <= m
      BY <1>1, <2>1, LeastNat, Zenon
    <2>3. least \in 0 .. n /\ least \notin S /\ least # 0
      BY <2>2
    <2>4. least - 1 \in 0 .. n - 1 /\ (least - 1) + 1 = least /\ ~(least <= least - 1)
      BY <2>3
    <2>5. least - 1 \in S
      BY <2>2, <2>4
    <2>  QED
      BY <2>3, <2>4, <2>5
  <1>  QED
    BY <1>1

\* g starts so and goes on by the rules, one of which takes each value to the next.
Rules(n, D) == [1 .. n -> [D -> D]]
GoesOn(g, n, D, start, rules) ==
  g \in [0 .. n -> D] /\ g[0] = start /\ \A k \in 1 .. n : g[k] = rules[k][g[k - 1]]

\* What is given at 0 and at each number from the one before it, by a function of the
\* number and that value, is given up to n.
LEMMA Recursion ==
  ASSUME NEW n \in Nat, NEW D, NEW start \in D, NEW f \in Rules(n, D)
  PROVE  \E g : GoesOn(g, n, D, start, f)
  <1> DEFINE Upto(m, g) == g[0] = start /\ \A k \in 1 .. m : g[k] = f[k][g[k - 1]]
             S == {m \in 0 .. n : \E g \in [0 .. m -> D] : Upto(m, g)}
  <1>1. 0 \in S
    <2> DEFINE g == [k \in 0 .. 0 |-> start]
    <2>1. g \in [0 .. 0 -> D] /\ Upto(0, g) /\ 0 \in 0 .. n
      OBVIOUS
    <2>  HIDE DEF g
    <2>  QED
      BY <2>1
  <1>2. ASSUME NEW m \in 0 .. n - 1, m \in S  PROVE m + 1 \in S
    <2>1. PICK g \in [0 .. m -> D] : Upto(m, g)
      BY <1>2
    <2> DEFINE next_value == f[m + 1][g[m]]
               h == [k \in 0 .. m + 1 |-> IF k <= m THEN g[k] ELSE next_value]
    <2>2. m + 1 \in 1 .. n /\ m \in 0 .. m /\ m \in Nat
      OBVIOUS
    <2>3. next_value \in D
      BY <2>1, <2>2 DEF Rules
    <2>  HIDE DEF next_value
    <2>4. h \in [0 .. m + 1 -> D]
      BY <2>3
    <2>5. \A k \in 0 .. m : h[k] = g[k]
      BY <2>2
    <2>6. h[m + 1] = next_value
      BY <2>2
    <2>  HIDE DEF h
    <2>7. ASSUME NEW k \in 1 .. m + 1  PROVE h[k] = f[k][h[k - 1]]
      <3>1. CASE k <= m
        <4>1. k \in 0 .. m /\ k - 1 \in 0 .. m /\ k \in 1 .. m
          BY <2>2, <3>1
        <4>  QED
          BY <2>1, <2>5, <4>1
      <3>2. CASE ~(k <= m)
        <4>1. k = m + 1 /\ k - 1 = m
          BY <2>2, <3>2
        <4>2. h[k - 1] = g[m]
          BY <2>2, <2>5, <4>1
        <4>  QED
          BY <2>6, <4>1, <4>2 DEF next_value
      <3>  QED
        BY <3>1, <3>2
    <2>8. h[0] = start
      BY <2>1, <2>2, <2>5
    <2>9. m + 1 \in 0 .. n
      BY <2>2
    <2>  QED
      BY <2>4, <2>7, <2>8, <2>9
  <1>  HIDE DEF S
  <1>3. n \in S
    <2>1. \A m \in 0 .. n - 1 : m \in S => m + 1 \in S
      BY <1>2
    <2>2. 0 .. n \subseteq S
      BY <1>1, <2>1, Induction, Zenon
    <2>3. n \in 0 .. n
      OBVIOUS
    <2>  QED
      BY <2>2, <2>3
  <1>  HIDE DEF Upto
  <1>4. \E g \in [0 .. n -> D] : Upto(n, g)
    BY <1>3 DEF S
  <1>  QED
    BY <1>4, Zenon DEF Upto, GoesOn

-----------------------------------------------------------------------------
(* The two tables of states                                                  *)

\* The table of states in OpenOCD's names.
LEMMA Transitions ==
  LET go(state, b) == Jtag!tap_state_transition(state, b)
  IN /\ go("RESET", 0) = "IDLE" /\ go("RESET", 1) = "RESET"
     /\ go("IDLE", 0) = "IDLE" /\ go("IDLE", 1) = "DRSELECT"
     /\ go("DRSELECT", 0) = "DRCAPTURE" /\ go("DRSELECT", 1) = "IRSELECT"
     /\ go("DRCAPTURE", 0) = "DRSHIFT" /\ go("DRCAPTURE", 1) = "DREXIT1"
     /\ go("DRSHIFT", 0) = "DRSHIFT" /\ go("DRSHIFT", 1) = "DREXIT1"
     /\ go("DREXIT1", 0) = "DRPAUSE" /\ go("DREXIT1", 1) = "DRUPDATE"
     /\ go("DRPAUSE", 0) = "DRPAUSE" /\ go("DRPAUSE", 1) = "DREXIT2"
     /\ go("DREXIT2", 0) = "DRSHIFT" /\ go("DREXIT2", 1) = "DRUPDATE"
     /\ go("DRUPDATE", 0) = "IDLE" /\ go("DRUPDATE", 1) = "DRSELECT"
     /\ go("IRSELECT", 0) = "IRCAPTURE" /\ go("IRSELECT", 1) = "RESET"
     /\ go("IRCAPTURE", 0) = "IRSHIFT" /\ go("IRCAPTURE", 1) = "IREXIT1"
     /\ go("IRSHIFT", 0) = "IRSHIFT" /\ go("IRSHIFT", 1) = "IREXIT1"
     /\ go("IREXIT1", 0) = "IRPAUSE" /\ go("IREXIT1", 1) = "IRUPDATE"
     /\ go("IRPAUSE", 0) = "IRPAUSE" /\ go("IRPAUSE", 1) = "IREXIT2"
     /\ go("IREXIT2", 0) = "IRSHIFT" /\ go("IREXIT2", 1) = "IRUPDATE"
     /\ go("IRUPDATE", 0) = "IDLE" /\ go("IRUPDATE", 1) = "DRSELECT"
  BY DEF Jtag!tap_state_transition, Jtag!on_one, Jtag!on_zero

\* The two tables are the same one, by their own names (interface.c:234-325,
\* jtag_tap_controller.hpp:262-281).
LEMMA TablesAgree ==
  ASSUME NEW state \in Jtag!TapStates, NEW b \in {0, 1}
  PROVE  /\ Jtag!tap_state_transition(state, b) \in Jtag!TapStates
         /\ Jtag!NameOf(Jtag!tap_state_transition(state, b)) =
              Jtag!Controller!next_state(Jtag!NameOf(state), b)
  BY Transitions DEF Jtag!TapStates, Jtag!NameOf, Jtag!Controller!next_state,
       Jtag!Controller!jtag_tap_next_state

\* The states of a walk.
LEMMA WalkIs ==
  ASSUME NEW start \in Jtag!TapStates, NEW path \in Seq({0, 1})
  PROVE  LET w == Jtag!walk(start, path)
         IN /\ w \in [0 .. Len(path) -> Jtag!TapStates]
            /\ w[0] = start
            /\ \A k \in 1 .. Len(path) : w[k] = Jtag!tap_state_transition(w[k - 1], path[k])
  <1> DEFINE D == Jtag!TapStates
             go(state, b) == Jtag!tap_state_transition(state, b)
             len == Len(path)
             IsWalk(w) == w = [k \in 0 .. len |-> IF k = 0 THEN start ELSE go(w[k - 1], path[k])]
             f == [k \in 1 .. len |-> [state \in D |-> go(state, path[k])]]
  <1>1. len \in Nat /\ \A k \in 1 .. len : path[k] \in {0, 1}
    OBVIOUS
  <1>2. \A state \in D, b \in {0, 1} : go(state, b) \in D
    BY TablesAgree
  <1>  HIDE DEF D, go, len
  <1>3. f \in [1 .. len -> [D -> D]]
    BY <1>1, <1>2
  <1>4. start \in D
    BY DEF D
  <1>5. \A k \in 1 .. len, state \in D : f[k][state] = go(state, path[k])
    OBVIOUS
  <1>  HIDE DEF f
  <1>6. PICK g \in [0 .. len -> D] : g[0] = start /\ \A k \in 1 .. len : g[k] = f[k][g[k - 1]]
    <2>1. f \in Rules(len, D)
      BY <1>3 DEF Rules
    <2>2. \E g : GoesOn(g, len, D, start, f)
      BY <1>1, <1>4, <2>1, Recursion
    <2> QED
      BY <2>2, Zenon DEF GoesOn
  <1>7. \A k \in 1 .. len : g[k] = go(g[k - 1], path[k])
    <2>1. \A k \in 1 .. len : k - 1 \in 0 .. len
      BY <1>1
    <2>  QED
      BY <1>5, <1>6, <2>1
  <1>8. IsWalk(g)
    BY <1>1, <1>6, <1>7
  <1>  HIDE DEF IsWalk
  <1>9. IsWalk(CHOOSE w : IsWalk(w))
    BY <1>8
  <1>10. Jtag!walk(start, path) = CHOOSE w : IsWalk(w)
    BY DEF Jtag!walk, IsWalk, go, len
  <1> DEFINE w == Jtag!walk(start, path)
  <1>11. IsWalk(w)
    BY <1>9, <1>10
  <1>  HIDE DEF w
  <1>12. w[0] = start /\ \A k \in 1 .. len : w[k] = go(w[k - 1], path[k])
    BY <1>1, <1>11 DEF IsWalk
  <1>13. w \in [0 .. len -> D]
    <2>1. w = [k \in 0 .. len |-> w[k]]
      BY <1>11 DEF IsWalk
    <2> DEFINE S == {k \in 0 .. len : w[k] \in D}
    <2>2. 0 \in S
      BY <1>1, <1>4, <1>12
    <2>3. ASSUME NEW k \in 0 .. len - 1, k \in S  PROVE k + 1 \in S
      <3>1. k + 1 \in 1 .. len /\ k + 1 \in 0 .. len /\ (k + 1) - 1 = k
        BY <1>1
      <3>  QED
        BY <1>1, <1>2, <1>12, <2>3, <3>1, Zenon
    <2>  HIDE DEF S
    <2>4. 0 .. len \subseteq S
      BY <1>1, <2>2, <2>3, Induction, Zenon
    <2>5. \A k \in 0 .. len : w[k] \in D
      BY <2>4 DEF S
    <2>  QED
      BY <2>1, <2>5
  <1>  QED
    BY <1>12, <1>13 DEF w, D, go, len

-----------------------------------------------------------------------------
(* The tables of paths                                                       *)

\* w is the states along a path.
Walks(w, start, path) ==
  w[0] = start /\ \A k \in 1 .. Len(path) : w[k] = Jtag!tap_state_transition(w[k - 1], path[k])

\* What a path of either table is for, and the extra clocks of those out of reset.
Leads(path, start, goal) ==
  /\ path \in Seq({0, 1}) /\ path # << >>
  /\ \A w : Walks(w, start, path) =>
       /\ w[Len(path)] = goal
       /\ start = "DRPAUSE" /\ goal = "DRSHIFT" =>
            \A k \in 0 .. Len(path) - 1 : w[k] \notin {"DRCAPTURE", "DRUPDATE"}
       /\ start = "RESET" =>
            LET extra(state) == {k \in 1 .. Len(path) - 1 : w[k] = state}
            IN CASE goal = "DRSHIFT" -> extra("RESET") = 1 .. 3
                 [] goal = "IRSHIFT" -> extra("RESET") = 1 .. 2
                 [] OTHER -> extra(goal) # {}

\* What one of the short table spares: it shifts nothing on its way, does not idle and
\* leaves TMS low.
Spares(path, start, goal) ==
  /\ goal # "RESET" => path[Len(path)] = 0
  /\ \A w : Walks(w, start, path) =>
       /\ \A k \in 1 .. Len(path) - 1 : w[k] \notin {"DRSHIFT", "IRSHIFT"}
       /\ start # "RESET" /\ start # goal =>
            \A k \in 1 .. Len(path) : w[k - 1] = "IDLE" => path[k] = 1

\* Both tables (interface.c:136-195) row by row, that is by where their paths start.
LEMMA FromReset ==
  ASSUME NEW j \in 1 .. 6
  PROVE  /\ Leads(Jtag!short_tms_seqs[1][j], "RESET", Jtag!StableStates[j])
         /\ Spares(Jtag!short_tms_seqs[1][j], "RESET", Jtag!StableStates[j])
         /\ Leads(Jtag!old_tms_seqs[1][j], "RESET", Jtag!StableStates[j])
  <1> DEFINE short == Jtag!short_tms_seqs[1]
             old == Jtag!old_tms_seqs[1]
  <1>1. /\ short[1] = <<1,1,1,1,1,1,1>> /\ short[2] = <<0,0,0,0,0,0,0>> /\ short[3] = <<1,1,1,0,1,0,0>>
       /\ short[4] = <<0,1,0,1,0,0,0>> /\ short[5] = <<1,1,0,1,1,0,0>> /\ short[6] = <<0,1,1,0,1,0,0>>
    BY DEF Jtag!short_tms_seqs, Jtag!B8, Jtag!places
  <1>2. /\ old[1] = <<1,1,1,1,1,1,1>> /\ old[2] = <<0,0,0,0,0,0,0>> /\ old[3] = <<1,1,1,0,1,0,0>>
       /\ old[4] = <<0,1,0,1,0,0,0>> /\ old[5] = <<1,1,0,1,1,0,0>> /\ old[6] = <<0,1,1,0,1,0,0>>
    BY DEF Jtag!old_tms_seqs, Jtag!B8, Jtag!places
  <1>  HIDE DEF short, old
  <1>  USE <1>1, <1>2, Transitions DEF Leads, Spares, Walks
  <1>3. Leads(short[1], "RESET", "RESET")  OBVIOUS
  <1>4. Spares(short[1], "RESET", "RESET")  OBVIOUS
  <1>5. Leads(old[1], "RESET", "RESET")  OBVIOUS
  <1>6. Leads(short[2], "RESET", "IDLE")  OBVIOUS
  <1>7. Spares(short[2], "RESET", "IDLE")  OBVIOUS
  <1>8. Leads(old[2], "RESET", "IDLE")  OBVIOUS
  <1>9. Leads(short[3], "RESET", "DRSHIFT")  OBVIOUS
  <1>10. Spares(short[3], "RESET", "DRSHIFT")  OBVIOUS
  <1>11. Leads(old[3], "RESET", "DRSHIFT")  OBVIOUS
  <1>12. Leads(short[4], "RESET", "DRPAUSE")  OBVIOUS
  <1>13. Spares(short[4], "RESET", "DRPAUSE")  OBVIOUS
  <1>14. Leads(old[4], "RESET", "DRPAUSE")  OBVIOUS
  <1>15. Leads(short[5], "RESET", "IRSHIFT")  OBVIOUS
  <1>16. Spares(short[5], "RESET", "IRSHIFT")  OBVIOUS
  <1>17. Leads(old[5], "RESET", "IRSHIFT")  OBVIOUS
  <1>18. Leads(short[6], "RESET", "IRPAUSE")  OBVIOUS
  <1>19. Spares(short[6], "RESET", "IRPAUSE")  OBVIOUS
  <1>20. Leads(old[6], "RESET", "IRPAUSE")  OBVIOUS
  <1>  HIDE <1>1, <1>2, Transitions DEF Leads, Spares, Walks
  <1>21. Leads(short[j], "RESET", Jtag!StableStates[j])
    BY <1>3, <1>6, <1>9, <1>12, <1>15, <1>18 DEF Jtag!StableStates
  <1>22. Spares(short[j], "RESET", Jtag!StableStates[j])
    BY <1>4, <1>7, <1>10, <1>13, <1>16, <1>19 DEF Jtag!StableStates
  <1>23. Leads(old[j], "RESET", Jtag!StableStates[j])
    BY <1>5, <1>8, <1>11, <1>14, <1>17, <1>20 DEF Jtag!StableStates
  <1>  QED
    BY <1>21, <1>22, <1>23 DEF short, old

\* From IDLE.
LEMMA FromIdle ==
  ASSUME NEW j \in 1 .. 6
  PROVE  /\ Leads(Jtag!short_tms_seqs[2][j], "IDLE", Jtag!StableStates[j])
         /\ Spares(Jtag!short_tms_seqs[2][j], "IDLE", Jtag!StableStates[j])
         /\ Leads(Jtag!old_tms_seqs[2][j], "IDLE", Jtag!StableStates[j])
  <1> DEFINE short == Jtag!short_tms_seqs[2]
             old == Jtag!old_tms_seqs[2]
  <1>1. /\ short[1] = <<1,1,1,1,1,1,1>> /\ short[2] = <<0,0,0,0,0,0,0>> /\ short[3] = <<1,0,0>>
       /\ short[4] = <<1,0,1,0>> /\ short[5] = <<1,1,0,0>> /\ short[6] = <<1,1,0,1,0>>
    BY DEF Jtag!short_tms_seqs, Jtag!B8, Jtag!places
  <1>2. /\ old[1] = <<1,1,1,1,1,1,1>> /\ old[2] = <<0,0,0,0,0,0,0>> /\ old[3] = <<1,0,1,0,0,1,0>>
       /\ old[4] = <<1,0,1,0,0,0,0>> /\ old[5] = <<1,1,0,1,0,1,0>> /\ old[6] = <<1,1,0,1,0,0,0>>
    BY DEF Jtag!old_tms_seqs, Jtag!B8, Jtag!places
  <1>  HIDE DEF short, old
  <1>  USE <1>1, <1>2, Transitions DEF Leads, Spares, Walks
  <1>3. Leads(short[1], "IDLE", "RESET")  OBVIOUS
  <1>4. Spares(short[1], "IDLE", "RESET")  OBVIOUS
  <1>5. Leads(old[1], "IDLE", "RESET")  OBVIOUS
  <1>6. Leads(short[2], "IDLE", "IDLE")  OBVIOUS
  <1>7. Spares(short[2], "IDLE", "IDLE")  OBVIOUS
  <1>8. Leads(old[2], "IDLE", "IDLE")  OBVIOUS
  <1>9. Leads(short[3], "IDLE", "DRSHIFT")  OBVIOUS
  <1>10. Spares(short[3], "IDLE", "DRSHIFT")  OBVIOUS
  <1>11. Leads(old[3], "IDLE", "DRSHIFT")  OBVIOUS
  <1>12. Leads(short[4], "IDLE", "DRPAUSE")  OBVIOUS
  <1>13. Spares(short[4], "IDLE", "DRPAUSE")  OBVIOUS
  <1>14. Leads(old[4], "IDLE", "DRPAUSE")  OBVIOUS
  <1>15. Leads(short[5], "IDLE", "IRSHIFT")  OBVIOUS
  <1>16. Spares(short[5], "IDLE", "IRSHIFT")  OBVIOUS
  <1>17. Leads(old[5], "IDLE", "IRSHIFT")  OBVIOUS
  <1>18. Leads(short[6], "IDLE", "IRPAUSE")  OBVIOUS
  <1>19. Spares(short[6], "IDLE", "IRPAUSE")  OBVIOUS
  <1>20. Leads(old[6], "IDLE", "IRPAUSE")  OBVIOUS
  <1>  HIDE <1>1, <1>2, Transitions DEF Leads, Spares, Walks
  <1>21. Leads(short[j], "IDLE", Jtag!StableStates[j])
    BY <1>3, <1>6, <1>9, <1>12, <1>15, <1>18 DEF Jtag!StableStates
  <1>22. Spares(short[j], "IDLE", Jtag!StableStates[j])
    BY <1>4, <1>7, <1>10, <1>13, <1>16, <1>19 DEF Jtag!StableStates
  <1>23. Leads(old[j], "IDLE", Jtag!StableStates[j])
    BY <1>5, <1>8, <1>11, <1>14, <1>17, <1>20 DEF Jtag!StableStates
  <1>  QED
    BY <1>21, <1>22, <1>23 DEF short, old

\* From DRSHIFT.
LEMMA FromDrshift ==
  ASSUME NEW j \in 1 .. 6
  PROVE  /\ Leads(Jtag!short_tms_seqs[3][j], "DRSHIFT", Jtag!StableStates[j])
         /\ Spares(Jtag!short_tms_seqs[3][j], "DRSHIFT", Jtag!StableStates[j])
         /\ Leads(Jtag!old_tms_seqs[3][j], "DRSHIFT", Jtag!StableStates[j])
  <1> DEFINE short == Jtag!short_tms_seqs[3]
             old == Jtag!old_tms_seqs[3]
  <1>1. /\ short[1] = <<1,1,1,1,1,1,1>> /\ short[2] = <<1,1,0>> /\ short[3] = <<1,1,1,0,0>>
       /\ short[4] = <<1,0>> /\ short[5] = <<1,1,1,1,0,0>> /\ short[6] = <<1,1,1,1,0,1,0>>
    BY DEF Jtag!short_tms_seqs, Jtag!B8, Jtag!places
  <1>2. /\ old[1] = <<1,1,1,1,1,1,1>> /\ old[2] = <<1,0,0,0,1,1,0>> /\ old[3] = <<0,0,0,0,0,0,0>>
       /\ old[4] = <<1,0,0,0,0,0,0>> /\ old[5] = <<1,1,1,1,0,0,0>> /\ old[6] = <<1,1,1,1,0,1,0>>
    BY DEF Jtag!old_tms_seqs, Jtag!B8, Jtag!places
  <1>  HIDE DEF short, old
  <1>  USE <1>1, <1>2, Transitions DEF Leads, Spares, Walks
  <1>3. Leads(short[1], "DRSHIFT", "RESET")  OBVIOUS
  <1>4. Spares(short[1], "DRSHIFT", "RESET")  OBVIOUS
  <1>5. Leads(old[1], "DRSHIFT", "RESET")  OBVIOUS
  <1>6. Leads(short[2], "DRSHIFT", "IDLE")  OBVIOUS
  <1>7. Spares(short[2], "DRSHIFT", "IDLE")  OBVIOUS
  <1>8. Leads(old[2], "DRSHIFT", "IDLE")  OBVIOUS
  <1>9. Leads(short[3], "DRSHIFT", "DRSHIFT")  OBVIOUS
  <1>10. Spares(short[3], "DRSHIFT", "DRSHIFT")  OBVIOUS
  <1>11. Leads(old[3], "DRSHIFT", "DRSHIFT")  OBVIOUS
  <1>12. Leads(short[4], "DRSHIFT", "DRPAUSE")  OBVIOUS
  <1>13. Spares(short[4], "DRSHIFT", "DRPAUSE")  OBVIOUS
  <1>14. Leads(old[4], "DRSHIFT", "DRPAUSE")  OBVIOUS
  <1>15. Leads(short[5], "DRSHIFT", "IRSHIFT")  OBVIOUS
  <1>16. Spares(short[5], "DRSHIFT", "IRSHIFT")  OBVIOUS
  <1>17. Leads(old[5], "DRSHIFT", "IRSHIFT")  OBVIOUS
  <1>18. Leads(short[6], "DRSHIFT", "IRPAUSE")  OBVIOUS
  <1>19. Spares(short[6], "DRSHIFT", "IRPAUSE")  OBVIOUS
  <1>20. Leads(old[6], "DRSHIFT", "IRPAUSE")  OBVIOUS
  <1>  HIDE <1>1, <1>2, Transitions DEF Leads, Spares, Walks
  <1>21. Leads(short[j], "DRSHIFT", Jtag!StableStates[j])
    BY <1>3, <1>6, <1>9, <1>12, <1>15, <1>18 DEF Jtag!StableStates
  <1>22. Spares(short[j], "DRSHIFT", Jtag!StableStates[j])
    BY <1>4, <1>7, <1>10, <1>13, <1>16, <1>19 DEF Jtag!StableStates
  <1>23. Leads(old[j], "DRSHIFT", Jtag!StableStates[j])
    BY <1>5, <1>8, <1>11, <1>14, <1>17, <1>20 DEF Jtag!StableStates
  <1>  QED
    BY <1>21, <1>22, <1>23 DEF short, old

\* From DRPAUSE.
LEMMA FromDrpause ==
  ASSUME NEW j \in 1 .. 6
  PROVE  /\ Leads(Jtag!short_tms_seqs[4][j], "DRPAUSE", Jtag!StableStates[j])
         /\ Spares(Jtag!short_tms_seqs[4][j], "DRPAUSE", Jtag!StableStates[j])
         /\ Leads(Jtag!old_tms_seqs[4][j], "DRPAUSE", Jtag!StableStates[j])
  <1> DEFINE short == Jtag!short_tms_seqs[4]
             old == Jtag!old_tms_seqs[4]
  <1>1. /\ short[1] = <<1,1,1,1,1,1,1>> /\ short[2] = <<1,1,0>> /\ short[3] = <<1,0>>
       /\ short[4] = <<0>> /\ short[5] = <<1,1,1,1,0,0>> /\ short[6] = <<1,1,1,1,0,1,0>>
    BY DEF Jtag!short_tms_seqs, Jtag!B8, Jtag!places
  <1>2. /\ old[1] = <<1,1,1,1,1,1,1>> /\ old[2] = <<0,0,0,0,1,1,0>> /\ old[3] = <<0,0,0,0,0,1,0>>
       /\ old[4] = <<1,1,1,0,1,0,0>> /\ old[5] = <<0,1,1,1,1,0,0>> /\ old[6] = <<1,1,1,1,0,1,0>>
    BY DEF Jtag!old_tms_seqs, Jtag!B8, Jtag!places
  <1>  HIDE DEF short, old
  <1>  USE <1>1, <1>2, Transitions DEF Leads, Spares, Walks
  <1>3. Leads(short[1], "DRPAUSE", "RESET")  OBVIOUS
  <1>4. Spares(short[1], "DRPAUSE", "RESET")  OBVIOUS
  <1>5. Leads(old[1], "DRPAUSE", "RESET")  OBVIOUS
  <1>6. Leads(short[2], "DRPAUSE", "IDLE")  OBVIOUS
  <1>7. Spares(short[2], "DRPAUSE", "IDLE")  OBVIOUS
  <1>8. Leads(old[2], "DRPAUSE", "IDLE")  OBVIOUS
  <1>9. Leads(short[3], "DRPAUSE", "DRSHIFT")  OBVIOUS
  <1>10. Spares(short[3], "DRPAUSE", "DRSHIFT")  OBVIOUS
  <1>11. Leads(old[3], "DRPAUSE", "DRSHIFT")  OBVIOUS
  <1>12. Leads(short[4], "DRPAUSE", "DRPAUSE")  OBVIOUS
  <1>13. Spares(short[4], "DRPAUSE", "DRPAUSE")  OBVIOUS
  <1>14. Leads(old[4], "DRPAUSE", "DRPAUSE")  OBVIOUS
  <1>15. Leads(short[5], "DRPAUSE", "IRSHIFT")  OBVIOUS
  <1>16. Spares(short[5], "DRPAUSE", "IRSHIFT")  OBVIOUS
  <1>17. Leads(old[5], "DRPAUSE", "IRSHIFT")  OBVIOUS
  <1>18. Leads(short[6], "DRPAUSE", "IRPAUSE")  OBVIOUS
  <1>19. Spares(short[6], "DRPAUSE", "IRPAUSE")  OBVIOUS
  <1>20. Leads(old[6], "DRPAUSE", "IRPAUSE")  OBVIOUS
  <1>  HIDE <1>1, <1>2, Transitions DEF Leads, Spares, Walks
  <1>21. Leads(short[j], "DRPAUSE", Jtag!StableStates[j])
    BY <1>3, <1>6, <1>9, <1>12, <1>15, <1>18 DEF Jtag!StableStates
  <1>22. Spares(short[j], "DRPAUSE", Jtag!StableStates[j])
    BY <1>4, <1>7, <1>10, <1>13, <1>16, <1>19 DEF Jtag!StableStates
  <1>23. Leads(old[j], "DRPAUSE", Jtag!StableStates[j])
    BY <1>5, <1>8, <1>11, <1>14, <1>17, <1>20 DEF Jtag!StableStates
  <1>  QED
    BY <1>21, <1>22, <1>23 DEF short, old

\* From IRSHIFT.
LEMMA FromIrshift ==
  ASSUME NEW j \in 1 .. 6
  PROVE  /\ Leads(Jtag!short_tms_seqs[5][j], "IRSHIFT", Jtag!StableStates[j])
         /\ Spares(Jtag!short_tms_seqs[5][j], "IRSHIFT", Jtag!StableStates[j])
         /\ Leads(Jtag!old_tms_seqs[5][j], "IRSHIFT", Jtag!StableStates[j])
  <1> DEFINE short == Jtag!short_tms_seqs[5]
             old == Jtag!old_tms_seqs[5]
  <1>1. /\ short[1] = <<1,1,1,1,1,1,1>> /\ short[2] = <<1,1,0>> /\ short[3] = <<1,1,1,0,0>>
       /\ short[4] = <<1,1,1,0,1,0>> /\ short[5] = <<1,1,1,1,0,0>> /\ short[6] = <<1,0>>
    BY DEF Jtag!short_tms_seqs, Jtag!B8, Jtag!places
  <1>2. /\ old[1] = <<1,1,1,1,1,1,1>> /\ old[2] = <<1,0,0,0,1,1,0>> /\ old[3] = <<1,1,1,0,0,0,0>>
       /\ old[4] = <<1,1,1,0,1,0,0>> /\ old[5] = <<0,0,0,0,0,0,0>> /\ old[6] = <<1,0,0,0,0,0,0>>
    BY DEF Jtag!old_tms_seqs, Jtag!B8, Jtag!places
  <1>  HIDE DEF short, old
  <1>  USE <1>1, <1>2, Transitions DEF Leads, Spares, Walks
  <1>3. Leads(short[1], "IRSHIFT", "RESET")  OBVIOUS
  <1>4. Spares(short[1], "IRSHIFT", "RESET")  OBVIOUS
  <1>5. Leads(old[1], "IRSHIFT", "RESET")  OBVIOUS
  <1>6. Leads(short[2], "IRSHIFT", "IDLE")  OBVIOUS
  <1>7. Spares(short[2], "IRSHIFT", "IDLE")  OBVIOUS
  <1>8. Leads(old[2], "IRSHIFT", "IDLE")  OBVIOUS
  <1>9. Leads(short[3], "IRSHIFT", "DRSHIFT")  OBVIOUS
  <1>10. Spares(short[3], "IRSHIFT", "DRSHIFT")  OBVIOUS
  <1>11. Leads(old[3], "IRSHIFT", "DRSHIFT")  OBVIOUS
  <1>12. Leads(short[4], "IRSHIFT", "DRPAUSE")  OBVIOUS
  <1>13. Spares(short[4], "IRSHIFT", "DRPAUSE")  OBVIOUS
  <1>14. Leads(old[4], "IRSHIFT", "DRPAUSE")  OBVIOUS
  <1>15. Leads(short[5], "IRSHIFT", "IRSHIFT")  OBVIOUS
  <1>16. Spares(short[5], "IRSHIFT", "IRSHIFT")  OBVIOUS
  <1>17. Leads(old[5], "IRSHIFT", "IRSHIFT")  OBVIOUS
  <1>18. Leads(short[6], "IRSHIFT", "IRPAUSE")  OBVIOUS
  <1>19. Spares(short[6], "IRSHIFT", "IRPAUSE")  OBVIOUS
  <1>20. Leads(old[6], "IRSHIFT", "IRPAUSE")  OBVIOUS
  <1>  HIDE <1>1, <1>2, Transitions DEF Leads, Spares, Walks
  <1>21. Leads(short[j], "IRSHIFT", Jtag!StableStates[j])
    BY <1>3, <1>6, <1>9, <1>12, <1>15, <1>18 DEF Jtag!StableStates
  <1>22. Spares(short[j], "IRSHIFT", Jtag!StableStates[j])
    BY <1>4, <1>7, <1>10, <1>13, <1>16, <1>19 DEF Jtag!StableStates
  <1>23. Leads(old[j], "IRSHIFT", Jtag!StableStates[j])
    BY <1>5, <1>8, <1>11, <1>14, <1>17, <1>20 DEF Jtag!StableStates
  <1>  QED
    BY <1>21, <1>22, <1>23 DEF short, old

\* From IRPAUSE.
LEMMA FromIrpause ==
  ASSUME NEW j \in 1 .. 6
  PROVE  /\ Leads(Jtag!short_tms_seqs[6][j], "IRPAUSE", Jtag!StableStates[j])
         /\ Spares(Jtag!short_tms_seqs[6][j], "IRPAUSE", Jtag!StableStates[j])
         /\ Leads(Jtag!old_tms_seqs[6][j], "IRPAUSE", Jtag!StableStates[j])
  <1> DEFINE short == Jtag!short_tms_seqs[6]
             old == Jtag!old_tms_seqs[6]
  <1>1. /\ short[1] = <<1,1,1,1,1,1,1>> /\ short[2] = <<1,1,0>> /\ short[3] = <<1,1,1,0,0>>
       /\ short[4] = <<1,1,1,0,1,0>> /\ short[5] = <<1,0>> /\ short[6] = <<0>>
    BY DEF Jtag!short_tms_seqs, Jtag!B8, Jtag!places
  <1>2. /\ old[1] = <<1,1,1,1,1,1,1>> /\ old[2] = <<0,0,0,0,1,1,0>> /\ old[3] = <<0,0,1,1,1,0,0>>
       /\ old[4] = <<1,1,1,0,1,0,0>> /\ old[5] = <<0,1,1,1,1,0,0>> /\ old[6] = <<1,1,1,1,0,1,0>>
    BY DEF Jtag!old_tms_seqs, Jtag!B8, Jtag!places
  <1>  HIDE DEF short, old
  <1>  USE <1>1, <1>2, Transitions DEF Leads, Spares, Walks
  <1>3. Leads(short[1], "IRPAUSE", "RESET")  OBVIOUS
  <1>4. Spares(short[1], "IRPAUSE", "RESET")  OBVIOUS
  <1>5. Leads(old[1], "IRPAUSE", "RESET")  OBVIOUS
  <1>6. Leads(short[2], "IRPAUSE", "IDLE")  OBVIOUS
  <1>7. Spares(short[2], "IRPAUSE", "IDLE")  OBVIOUS
  <1>8. Leads(old[2], "IRPAUSE", "IDLE")  OBVIOUS
  <1>9. Leads(short[3], "IRPAUSE", "DRSHIFT")  OBVIOUS
  <1>10. Spares(short[3], "IRPAUSE", "DRSHIFT")  OBVIOUS
  <1>11. Leads(old[3], "IRPAUSE", "DRSHIFT")  OBVIOUS
  <1>12. Leads(short[4], "IRPAUSE", "DRPAUSE")  OBVIOUS
  <1>13. Spares(short[4], "IRPAUSE", "DRPAUSE")  OBVIOUS
  <1>14. Leads(old[4], "IRPAUSE", "DRPAUSE")  OBVIOUS
  <1>15. Leads(short[5], "IRPAUSE", "IRSHIFT")  OBVIOUS
  <1>16. Spares(short[5], "IRPAUSE", "IRSHIFT")  OBVIOUS
  <1>17. Leads(old[5], "IRPAUSE", "IRSHIFT")  OBVIOUS
  <1>18. Leads(short[6], "IRPAUSE", "IRPAUSE")  OBVIOUS
  <1>19. Spares(short[6], "IRPAUSE", "IRPAUSE")  OBVIOUS
  <1>20. Leads(old[6], "IRPAUSE", "IRPAUSE")  OBVIOUS
  <1>  HIDE <1>1, <1>2, Transitions DEF Leads, Spares, Walks
  <1>21. Leads(short[j], "IRPAUSE", Jtag!StableStates[j])
    BY <1>3, <1>6, <1>9, <1>12, <1>15, <1>18 DEF Jtag!StableStates
  <1>22. Spares(short[j], "IRPAUSE", Jtag!StableStates[j])
    BY <1>4, <1>7, <1>10, <1>13, <1>16, <1>19 DEF Jtag!StableStates
  <1>23. Leads(old[j], "IRPAUSE", Jtag!StableStates[j])
    BY <1>5, <1>8, <1>11, <1>14, <1>17, <1>20 DEF Jtag!StableStates
  <1>  QED
    BY <1>21, <1>22, <1>23 DEF short, old

\* The stable states and their places in the tables (interface.c:72-116).
LEMMA Places ==
  /\ Jtag!Stable = {"RESET", "IDLE", "DRSHIFT", "DRPAUSE", "IRSHIFT", "IRPAUSE"}
  /\ Jtag!tap_move_ndx("RESET") = 1 /\ Jtag!tap_move_ndx("IDLE") = 2
  /\ Jtag!tap_move_ndx("DRSHIFT") = 3 /\ Jtag!tap_move_ndx("DRPAUSE") = 4
  /\ Jtag!tap_move_ndx("IRSHIFT") = 5 /\ Jtag!tap_move_ndx("IRPAUSE") = 6
  <1>1. /\ DOMAIN Jtag!StableStates = 1 .. 6
        /\ Jtag!StableStates[1] = "RESET" /\ Jtag!StableStates[2] = "IDLE"
        /\ Jtag!StableStates[3] = "DRSHIFT" /\ Jtag!StableStates[4] = "DRPAUSE"
        /\ Jtag!StableStates[5] = "IRSHIFT" /\ Jtag!StableStates[6] = "IRPAUSE"
    BY DEF Jtag!StableStates
  <1>2. \A n \in 1 .. 6 : Jtag!tap_move_ndx(Jtag!StableStates[n]) = n
    BY <1>1 DEF Jtag!tap_move_ndx
  <1>3. \A state : Jtag!tap_is_state_stable(state) <=>
          state \in {"RESET", "IDLE", "DRSHIFT", "DRPAUSE", "IRSHIFT", "IRPAUSE"}
    BY <1>1 DEF Jtag!tap_is_state_stable
  <1>  QED
    BY <1>1, <1>2, <1>3 DEF Jtag!Stable, Jtag!TapStates

ShortPath(start, goal) == Jtag!tap_get_tms_path(Jtag!short_tms_seqs, start, goal)
OldPath(start, goal) == Jtag!tap_get_tms_path(Jtag!old_tms_seqs, start, goal)

\* Every path of both tables is for its move.
LEMMA PathsLead ==
  ASSUME NEW start \in Jtag!Stable, NEW goal \in Jtag!Stable
  PROVE  /\ Leads(ShortPath(start, goal), start, goal) /\ Spares(ShortPath(start, goal), start, goal)
         /\ Leads(OldPath(start, goal), start, goal)
  <1>1. PICK j \in 1 .. 6 : Jtag!tap_move_ndx(goal) = j /\ goal = Jtag!StableStates[j]
    BY Places DEF Jtag!StableStates
  <1>2. /\ ShortPath(start, goal) = Jtag!short_tms_seqs[Jtag!tap_move_ndx(start)][j]
        /\ OldPath(start, goal) = Jtag!old_tms_seqs[Jtag!tap_move_ndx(start)][j]
    BY <1>1 DEF ShortPath, OldPath, Jtag!tap_get_tms_path
  <1>3. CASE start = "RESET"
    BY <1>1, <1>2, <1>3, Places, FromReset
  <1>4. CASE start = "IDLE"
    BY <1>1, <1>2, <1>4, Places, FromIdle
  <1>5. CASE start = "DRSHIFT"
    BY <1>1, <1>2, <1>5, Places, FromDrshift
  <1>6. CASE start = "DRPAUSE"
    BY <1>1, <1>2, <1>6, Places, FromDrpause
  <1>7. CASE start = "IRSHIFT"
    BY <1>1, <1>2, <1>7, Places, FromIrshift
  <1>8. CASE start = "IRPAUSE"
    BY <1>1, <1>2, <1>8, Places, FromIrpause
  <1>  QED
    BY <1>3, <1>4, <1>5, <1>6, <1>7, <1>8, Places

\* Seven ones lead to reset from everywhere.
LEMMA SevenOnes ==
  ASSUME NEW start \in Jtag!Stable
  PROVE  /\ ShortPath(start, "RESET") = <<1, 1, 1, 1, 1, 1, 1>>
         /\ \A w : \A state \in Jtag!TapStates : Walks(w, state, <<1, 1, 1, 1, 1, 1, 1>>) => w[7] = "RESET"
  <1> DEFINE ones == <<1, 1, 1, 1, 1, 1, 1>>
  <1>  USE DEF Jtag!short_tms_seqs, Jtag!B8, Jtag!places
  <1>1. Jtag!short_tms_seqs[1][1] = ones  OBVIOUS
  <1>2. Jtag!short_tms_seqs[2][1] = ones  OBVIOUS
  <1>3. Jtag!short_tms_seqs[3][1] = ones  OBVIOUS
  <1>4. Jtag!short_tms_seqs[4][1] = ones  OBVIOUS
  <1>5. Jtag!short_tms_seqs[5][1] = ones  OBVIOUS
  <1>6. Jtag!short_tms_seqs[6][1] = ones  OBVIOUS
  <1>  HIDE DEF Jtag!short_tms_seqs, Jtag!B8, Jtag!places
  <1>7. ASSUME NEW w, NEW state \in Jtag!TapStates, Walks(w, state, <<1, 1, 1, 1, 1, 1, 1>>)
        PROVE  w[7] = "RESET"
    BY <1>7, Transitions DEF Walks, Jtag!TapStates
  <1>  QED
    BY <1>1, <1>2, <1>3, <1>4, <1>5, <1>6, <1>7, Places DEF ShortPath, Jtag!tap_get_tms_path

-----------------------------------------------------------------------------
(* Walking the paths                                                         *)

\* The paths of the walk are those of the commands.
LEMMA SamePaths ==
  /\ Walk!old_tms_seqs = Jtag!old_tms_seqs /\ Walk!short_tms_seqs = Jtag!short_tms_seqs
  /\ \A start, goal : Walk!tap_get_tms_path(tms_seqs, start, goal) =
                        Jtag!tap_get_tms_path(tms_seqs, start, goal)
  /\ \A state, b : /\ Walk!tap_state_transition(state, b) = Jtag!tap_state_transition(state, b)
                   /\ Walk!Controller!next_state(state, b) = Jtag!Controller!next_state(state, b)
  /\ \A state : /\ Walk!NameOf(state) = Jtag!NameOf(state)
                /\ Walk!tap_is_state_stable(state) <=> state \in Jtag!Stable
  /\ Walk!TapStates = Jtag!TapStates /\ Walk!Controller!TapState = Jtag!Controller!TapState
  <1>1. Walk!old_tms_seqs = Jtag!old_tms_seqs /\ Walk!short_tms_seqs = Jtag!short_tms_seqs
    BY SMT DEF Walk!old_tms_seqs, Jtag!old_tms_seqs, Walk!short_tms_seqs, Jtag!short_tms_seqs,
               Walk!B8, Jtag!B8, Walk!places, Jtag!places
  <1>2. \A start, goal : Walk!tap_get_tms_path(tms_seqs, start, goal) =
                           Jtag!tap_get_tms_path(tms_seqs, start, goal)
    BY Zenon DEF Walk!tap_get_tms_path, Jtag!tap_get_tms_path, Walk!tap_move_ndx,
                 Jtag!tap_move_ndx, Walk!StableStates, Jtag!StableStates
  <1>3. \A state, b : /\ Walk!tap_state_transition(state, b) = Jtag!tap_state_transition(state, b)
                      /\ Walk!Controller!next_state(state, b) = Jtag!Controller!next_state(state, b)
    BY Zenon DEF Walk!tap_state_transition, Jtag!tap_state_transition, Walk!on_one, Jtag!on_one,
                 Walk!on_zero, Jtag!on_zero, Walk!Controller!next_state, Jtag!Controller!next_state,
                 Walk!Controller!jtag_tap_next_state, Jtag!Controller!jtag_tap_next_state
  <1>4. \A state : Walk!NameOf(state) = Jtag!NameOf(state)
    BY Zenon DEF Walk!NameOf, Jtag!NameOf
  <1>5. Walk!TapStates = Jtag!TapStates /\ Walk!Controller!TapState = Jtag!Controller!TapState
    BY Zenon DEF Walk!TapStates, Jtag!TapStates, Walk!Controller!TapState, Jtag!Controller!TapState,
                 Walk!Controller!jtag_tap_next_state, Jtag!Controller!jtag_tap_next_state
  <1>6. \A state : Walk!tap_is_state_stable(state) <=> state \in Jtag!Stable
    <2>1. \A state : Walk!tap_is_state_stable(state) <=> Jtag!tap_is_state_stable(state)
      BY Zenon DEF Walk!tap_is_state_stable, Jtag!tap_is_state_stable, Walk!StableStates,
                   Jtag!StableStates
    <2>2. \A state : Jtag!tap_is_state_stable(state) <=> state \in Jtag!Stable
      <3>1. DOMAIN Jtag!StableStates = 1 .. 6 /\ \A n \in 1 .. 6 : Jtag!StableStates[n] \in Jtag!TapStates
        BY DEF Jtag!StableStates, Jtag!TapStates
      <3>  QED
        BY <3>1 DEF Jtag!tap_is_state_stable, Jtag!Stable
    <2>  QED
      BY <2>1, <2>2
  <1>  QED
    BY <1>1, <1>2, <1>3, <1>4, <1>5, <1>6

\* The names are of states.
LEMMA NamesAreStates ==
  \A state \in Jtag!TapStates : Jtag!NameOf(state) \in Jtag!Controller!TapState
  BY DEF Jtag!TapStates, Jtag!NameOf, Jtag!Controller!TapState, Jtag!Controller!jtag_tap_next_state

the_path == Jtag!tap_get_tms_path(tms_seqs, from, to)
the_walk == Jtag!walk(from, the_path)

\* Between two moves, and within one: what has been clocked of its path and what has not.
Standing == left = << >> /\ passed = << >> /\ tracked = to /\ tap = Jtag!NameOf(to)
Walking ==
  LET n == Len(passed)
  IN /\ n <= Len(the_path) /\ left = SubSeq(the_path, n + 1, Len(the_path))
     /\ passed = [k \in 1 .. n |-> Jtag!NameOf(the_walk[k - 1])]
     /\ tracked = the_walk[n] /\ tap = Jtag!NameOf(the_walk[n])
WalkInv ==
  /\ tms_seqs \in {Jtag!old_tms_seqs, Jtag!short_tms_seqs}
  /\ from \in Jtag!Stable /\ to \in Jtag!Stable
  /\ passed \in Seq(Jtag!Controller!TapState)
  /\ Standing \/ Walking

\* The path of the move, and the states along it.
LEMMA ThePath ==
  ASSUME WalkInv
  PROVE  /\ Leads(the_path, from, to)
         /\ tms_seqs = Jtag!short_tms_seqs => Spares(the_path, from, to)
         /\ the_path \in Seq({0, 1}) /\ the_path # << >>
         /\ Walks(the_walk, from, the_path)
         /\ the_walk \in [0 .. Len(the_path) -> Jtag!TapStates]
         /\ the_walk[Len(the_path)] = to
  <1>1. Leads(the_path, from, to) /\ (tms_seqs = Jtag!short_tms_seqs => Spares(the_path, from, to))
    BY PathsLead DEF WalkInv, the_path, ShortPath, OldPath
  <1>2. the_path \in Seq({0, 1}) /\ the_path # << >>
    BY <1>1 DEF Leads
  <1>3. from \in Jtag!TapStates
    BY DEF WalkInv, Jtag!Stable
  <1>4. Walks(the_walk, from, the_path) /\ the_walk \in [0 .. Len(the_path) -> Jtag!TapStates]
    BY <1>2, <1>3, WalkIs DEF Walks, the_walk
  <1>5. the_walk[Len(the_path)] = to
    BY <1>1, <1>4 DEF Leads
  <1>  QED
    BY <1>1, <1>2, <1>4, <1>5

\* At the end of a path the move is done.
LEMMA Arrived ==
  ASSUME WalkInv, left = << >>
  PROVE  tracked = to /\ tap = Jtag!NameOf(to) /\ (Walking => Len(passed) = Len(the_path))
  <1>1. ASSUME Walking  PROVE Len(passed) = Len(the_path)
    <2> DEFINE n == Len(passed)
    <2>1. n \in Nat /\ n <= Len(the_path) /\ SubSeq(the_path, n + 1, Len(the_path)) = << >>
      BY <1>1 DEF Walking, WalkInv
    <2>2. n = Len(the_path)
      <3>1. the_path \in Seq({0, 1})
        BY ThePath
      <3>  HIDE DEF n
      <3>2. Len(the_path) \in Nat
        BY <3>1
      <3>3. Len(SubSeq(the_path, n + 1, Len(the_path))) = Len(the_path) - n
        BY <2>1, <3>1
      <3>4. Len(the_path) - n = 0
        BY <2>1, <3>3
      <3>  QED
        BY <2>1, <3>2, <3>4
    <2>  QED
      BY <2>2
  <1>  QED
    BY <1>1, ThePath DEF WalkInv, Standing, Walking

\* The walk starts between two moves.
LEMMA InitWalks == Walk!Init => WalkInv
  <1> SUFFICES ASSUME Walk!Init  PROVE WalkInv
    OBVIOUS
  <1>1. tms_seqs = Jtag!short_tms_seqs
    <2>1. Walk!short_tms_seqs = Jtag!short_tms_seqs
      BY SamePaths
    <2>  QED
      BY <2>1 DEF Walk!Init, Walk!tap_use_new_tms_table
  <1>2. Jtag!NameOf("RESET") = "TEST_LOGIC_RESET"
    BY DEF Jtag!NameOf
  <1>3. passed \in Seq(Jtag!Controller!TapState)
    BY DEF Walk!Init
  <1>4. Standing /\ from = "RESET" /\ to = "RESET"
    BY <1>2 DEF Standing, Walk!Init
  <1>5. "RESET" \in Jtag!Stable
    BY Places
  <1>  QED
    BY <1>1, <1>3, <1>4, <1>5 DEF WalkInv

\* A move starts at the place that the one before it came to.
LEMMA MoveWalks ==
  ASSUME WalkInv, NEW goal, goal \in Jtag!Stable, Walk!move(goal)
  PROVE  WalkInv'
  <1> DEFINE path == Jtag!tap_get_tms_path(tms_seqs, to, goal)
  <1>1. from' = to /\ to' = goal /\ tms_seqs' = tms_seqs /\ left' = path /\ passed' = << >>
        /\ tracked' = tracked /\ tap' = tap /\ left = << >>
    BY SamePaths DEF Walk!move
  <1>2. the_path' = path
    BY <1>1 DEF the_path
  <1>3. path \in Seq({0, 1})
    BY PathsLead, Zenon DEF WalkInv, ShortPath, OldPath, Leads
  <1>4. to \in Jtag!TapStates
    BY DEF WalkInv, Jtag!Stable
  <1>  HIDE DEF path
  <1>5. the_walk' = Jtag!walk(to, path)
    BY <1>1, <1>2 DEF the_walk
  <1>6. the_walk'[0] = to
    BY <1>3, <1>4, <1>5, WalkIs
  <1>7. path = SubSeq(path, 1, Len(path)) /\ Len(path) \in Nat
    BY <1>3
  <1>8. Walking'
    <2>1. Len(passed') = 0 /\ passed' = [k \in 1 .. 0 |-> Jtag!NameOf(the_walk'[k - 1])]
      BY <1>1
    <2>2. tracked' = to /\ tap' = Jtag!NameOf(to)
      BY <1>1, Arrived
    <2>  QED
      BY <1>1, <1>2, <1>6, <1>7, <2>1, <2>2 DEF Walking
  <1>  QED
    BY <1>1, <1>8 DEF WalkInv

\* The other table is chosen between two moves only (interface.c:198-212).
LEMMA TableWalks ==
  ASSUME WalkInv, NEW use_new \in BOOLEAN, Walk!use_table(use_new)
  PROVE  WalkInv'
  <1>1. tms_seqs' \in {Jtag!old_tms_seqs, Jtag!short_tms_seqs}
    <2>1. Walk!old_tms_seqs = Jtag!old_tms_seqs /\ Walk!short_tms_seqs = Jtag!short_tms_seqs
      BY SamePaths
    <2>  QED
      BY <2>1 DEF Walk!use_table, Walk!tap_use_new_tms_table
  <1>2. tracked = to /\ tap = Jtag!NameOf(to)
    BY Arrived DEF Walk!use_table
  <1>  QED
    BY <1>1, <1>2 DEF Walk!use_table, WalkInv, Standing

\* A clock goes one place along the path.
LEMMA ClockWalks ==
  ASSUME WalkInv, Walk!clock
  PROVE  WalkInv'
  <1> DEFINE n == Len(passed)
             bit == the_path[n + 1]
  <1>1. Walking /\ left # << >>
    BY DEF Walk!clock, WalkInv, Standing
  <1>2. n \in Nat /\ n <= Len(the_path) /\ left = SubSeq(the_path, n + 1, Len(the_path))
    BY <1>1 DEF Walking, WalkInv
  <1>3. the_path' = the_path /\ the_walk' = the_walk
    BY DEF Walk!clock, the_path, the_walk
  <1>4. the_path \in Seq({0, 1}) /\ Len(the_path) \in Nat
    BY ThePath
  <1>5. Walks(the_walk, from, the_path) /\ the_walk \in [0 .. Len(the_path) -> Jtag!TapStates]
    BY ThePath
  <1>6. /\ passed = [k \in 1 .. n |-> Jtag!NameOf(the_walk[k - 1])]
        /\ tracked = the_walk[n] /\ tap = Jtag!NameOf(the_walk[n])
    BY <1>1 DEF Walking
  <1>7. passed \in Seq(Jtag!Controller!TapState)
    BY DEF WalkInv
  <1>  HIDE DEF n, bit
  <1>8. n < Len(the_path) /\ Head(left) = bit /\ Tail(left) = SubSeq(the_path, n + 2, Len(the_path))
    <2>1. n < Len(the_path)
      BY <1>1, <1>2, <1>4
    <2>2. Head(left) = bit /\ Tail(left) = SubSeq(the_path, n + 2, Len(the_path))
      BY <1>2, <1>4, <2>1 DEF bit
    <2>  QED
      BY <2>1, <2>2, Zenon
  <1>9. bit \in {0, 1} /\ the_walk[n] \in Jtag!TapStates
        /\ the_walk[n + 1] = Jtag!tap_state_transition(the_walk[n], bit)
    <2>1. n + 1 \in 1 .. Len(the_path) /\ n \in 0 .. Len(the_path) /\ (n + 1) - 1 = n
      BY <1>2, <1>4, <1>8
    <2>  QED
      BY <1>4, <1>5, <2>1 DEF Walks, bit
  <1>10. tracked' = the_walk[n + 1]
    BY <1>6, <1>8, <1>9, SamePaths DEF Walk!clock
  <1>11. tap' = Jtag!NameOf(the_walk[n + 1])
    <2>1. tap' = Jtag!Controller!next_state(tap, bit)
      BY <1>8, SamePaths DEF Walk!clock
    <2>  QED
      BY <1>6, <1>9, <2>1, TablesAgree
  <1>12. /\ passed' \in Seq(Jtag!Controller!TapState) /\ Len(passed') = n + 1
         /\ passed' = [k \in 1 .. n + 1 |-> Jtag!NameOf(the_walk[k - 1])]
    <2> DEFINE value == Jtag!NameOf(the_walk[n])
    <2>1. passed' = Append(passed, value) /\ value \in Jtag!Controller!TapState
      BY <1>6, <1>9, NamesAreStates DEF Walk!clock
    <2>2. n = Len(passed)
      BY DEF n
    <2>  HIDE DEF value
    <2>3. passed' \in Seq(Jtag!Controller!TapState) /\ Len(passed') = n + 1
      BY <1>7, <2>1, <2>2
    <2>4. \A k \in 1 .. n + 1 : passed'[k] = Jtag!NameOf(the_walk[k - 1])
      <3>1. ASSUME NEW k \in 1 .. n  PROVE passed'[k] = Jtag!NameOf(the_walk[k - 1])
        <4>1. passed'[k] = passed[k]
          BY <1>2, <1>7, <2>1, <2>2
        <4>2. passed[k] = Jtag!NameOf(the_walk[k - 1])
          BY <1>6
        <4>  QED
          BY <4>1, <4>2
      <3>2. passed'[n + 1] = value /\ (n + 1) - 1 = n
        BY <1>2, <1>7, <2>1, <2>2
      <3>  QED
        BY <1>2, <3>1, <3>2 DEF value
    <2>5. passed' = [k \in 1 .. n + 1 |-> passed'[k]]
      BY <2>3
    <2>  QED
      BY <2>3, <2>4, <2>5
  <1>13. left' = SubSeq(the_path, (n + 1) + 1, Len(the_path)) /\ n + 1 <= Len(the_path)
    BY <1>2, <1>4, <1>8 DEF Walk!clock
  <1>14. Walking'
    BY <1>3, <1>10, <1>11, <1>12, <1>13 DEF Walking
  <1>  QED
    BY <1>12, <1>14 DEF WalkInv, Walk!clock

\* Every step of the walk keeps to its path.
LEMMA NextWalks == WalkInv /\ (Walk!Next \/ UNCHANGED Walk!vars) => WalkInv'
  <1> SUFFICES ASSUME WalkInv, Walk!Next \/ UNCHANGED Walk!vars  PROVE WalkInv'
    OBVIOUS
  <1>1. CASE Walk!clock
    BY <1>1, ClockWalks
  <1>2. ASSUME NEW n \in DOMAIN Walk!StableStates, Walk!move(Walk!StableStates[n])  PROVE WalkInv'
    <2>1. Walk!StableStates[n] \in Jtag!Stable
      BY SamePaths DEF Walk!tap_is_state_stable
    <2>  QED
      BY <1>2, <2>1, MoveWalks
  <1>3. ASSUME NEW use_new \in BOOLEAN, Walk!use_table(use_new)  PROVE WalkInv'
    BY <1>3, TableWalks
  <1>4. CASE UNCHANGED Walk!vars
    BY <1>4 DEF Walk!vars, WalkInv, Standing, Walking, the_path, the_walk
  <1>  QED
    BY <1>1, <1>2, <1>3, <1>4 DEF Walk!Next

\* No two states have one name.
LEMMA NamesDiffer ==
  \A one, other \in Jtag!TapStates : Jtag!NameOf(one) = Jtag!NameOf(other) => one = other
  BY DEF Jtag!TapStates, Jtag!NameOf

\* What has been passed of a path is the first of its states.
LEMMA PassedStates ==
  ASSUME WalkInv, passed # << >>
  PROVE  /\ Walking /\ DOMAIN passed = 1 .. Len(passed) /\ Len(passed) \in 1 .. Len(the_path)
         /\ \A k \in 1 .. Len(passed) : /\ passed[k] = Jtag!NameOf(the_walk[k - 1])
                                         /\ the_walk[k - 1] \in Jtag!TapStates
  <1> DEFINE n == Len(passed)
  <1>1. Walking
    BY DEF WalkInv, Standing
  <1>2. passed \in Seq(Jtag!Controller!TapState)
    BY DEF WalkInv
  <1>3. DOMAIN passed = 1 .. n /\ n \in Nat /\ n # 0
    BY <1>2
  <1>4. n <= Len(the_path) /\ passed = [k \in 1 .. n |-> Jtag!NameOf(the_walk[k - 1])]
    BY <1>1 DEF Walking
  <1>  HIDE DEF n
  <1>5. the_walk \in [0 .. Len(the_path) -> Jtag!TapStates] /\ Len(the_path) \in Nat
    BY ThePath
  <1>6. ASSUME NEW k \in 1 .. n
        PROVE  passed[k] = Jtag!NameOf(the_walk[k - 1]) /\ the_walk[k - 1] \in Jtag!TapStates
    <2>1. k - 1 \in 0 .. Len(the_path)
      BY <1>3, <1>4, <1>5
    <2>  QED
      BY <1>4, <1>5, <2>1
  <1>  QED
    BY <1>1, <1>3, <1>4, <1>5, <1>6 DEF n

\* The name of a state is of that state only.
LEMMA StatesNamed ==
  ASSUME WalkInv, passed # << >>, NEW state \in Jtag!TapStates, NEW k \in 1 .. Len(passed)
  PROVE  passed[k] = Jtag!NameOf(state) <=> the_walk[k - 1] = state
  BY PassedStates, NamesDiffer

\* What the invariant of the walk gives.
LEMMA WalkProperties ==
  ASSUME WalkInv
  PROVE  /\ Walk!TypeOK /\ Walk!PathsArrive
         /\ Walk!MovesDoNotShift /\ Walk!ScanResumes /\ Walk!ExtraClocks
  <1>1. Walk!TypeOK
    <2>1. tms_seqs \in {Walk!old_tms_seqs, Walk!short_tms_seqs}
      BY SamePaths DEF WalkInv
    <2>2. Walk!tap_is_state_stable(from) /\ Walk!tap_is_state_stable(to)
      BY SamePaths DEF WalkInv
    <2>3. left \in Seq({0, 1}) /\ tracked \in Jtag!TapStates /\ tap \in Jtag!Controller!TapState
      <3>1. CASE Standing
        <4>1. left \in Seq({0, 1}) /\ tracked = to /\ tap = Jtag!NameOf(to)
          BY <3>1 DEF Standing
        <4>  QED
          BY <4>1, NamesAreStates DEF WalkInv, Jtag!Stable
      <3>2. CASE Walking
        <4>1. Len(passed) \in Nat /\ Len(passed) <= Len(the_path) /\ Len(the_path) \in Nat
          BY <3>2, ThePath DEF Walking, WalkInv
        <4>2. left \in Seq({0, 1})
          BY <3>2, <4>1, ThePath DEF Walking
        <4>3. the_walk[Len(passed)] \in Jtag!TapStates
          BY <4>1, ThePath
        <4>  QED
          BY <3>2, <4>2, <4>3, NamesAreStates DEF Walking
      <3>  QED
        BY <3>1, <3>2 DEF WalkInv
    <2>4. passed \in Seq(Jtag!Controller!TapState)
      BY DEF WalkInv
    <2>5. Walk!TapStates = Jtag!TapStates /\ Walk!Controller!TapState = Jtag!Controller!TapState
      BY SamePaths
    <2>  QED
      BY <2>1, <2>2, <2>3, <2>4, <2>5 DEF Walk!TypeOK
  <1>2. Walk!PathsArrive
    <2>1. tap = Jtag!NameOf(tracked)
      BY DEF WalkInv, Standing, Walking
    <2>2. left = << >> => tracked = to
      BY Arrived
    <2>3. Walk!NameOf(tracked) = Jtag!NameOf(tracked)
      BY SamePaths
    <2>  QED
      BY <2>1, <2>2, <2>3 DEF Walk!PathsArrive
  <1>3. Walk!MovesDoNotShift
    <2> SUFFICES ASSUME tms_seqs = Jtag!short_tms_seqs, NEW k \in DOMAIN passed \ {1}
                 PROVE  passed[k] \notin {"SHIFT_DR", "SHIFT_IR"}
      <3>1. Walk!short_tms_seqs = Jtag!short_tms_seqs
        BY SamePaths
      <3>  QED
        BY <3>1 DEF Walk!MovesDoNotShift, Walk!NoStrayShift
    <2>1. passed # << >>
      OBVIOUS
    <2>2. k \in 1 .. Len(passed) /\ k - 1 \in 1 .. Len(the_path) - 1
      <3>1. k \in 1 .. Len(passed) /\ k # 1 /\ Len(passed) \in 1 .. Len(the_path)
        BY <2>1, PassedStates
      <3>2. Len(the_path) \in Nat
        BY ThePath
      <3>  QED
        BY <3>1, <3>2
    <2>3. the_walk[k - 1] \notin {"DRSHIFT", "IRSHIFT"}
      <3>1. Spares(the_path, from, to) /\ Walks(the_walk, from, the_path)
        BY ThePath
      <3>  QED
        BY <2>2, <3>1 DEF Spares
    <2>4. Jtag!NameOf("DRSHIFT") = "SHIFT_DR" /\ Jtag!NameOf("IRSHIFT") = "SHIFT_IR"
          /\ "DRSHIFT" \in Jtag!TapStates /\ "IRSHIFT" \in Jtag!TapStates
      BY DEF Jtag!NameOf, Jtag!TapStates
    <2>  QED
      BY <2>1, <2>2, <2>3, <2>4, StatesNamed
  <1>4. Walk!ScanResumes
    <2> SUFFICES ASSUME from = "DRPAUSE", to = "DRSHIFT", NEW k \in DOMAIN passed
                 PROVE  passed[k] \notin {"CAPTURE_DR", "UPDATE_DR"}
      BY DEF Walk!ScanResumes
    <2>1. passed # << >>
      OBVIOUS
    <2>2. k \in 1 .. Len(passed) /\ k - 1 \in 0 .. Len(the_path) - 1
      <3>1. k \in 1 .. Len(passed) /\ Len(passed) \in 1 .. Len(the_path)
        BY <2>1, PassedStates
      <3>2. Len(the_path) \in Nat
        BY ThePath
      <3>  QED
        BY <3>1, <3>2
    <2>3. the_walk[k - 1] \notin {"DRCAPTURE", "DRUPDATE"}
      <3>1. Leads(the_path, from, to) /\ Walks(the_walk, from, the_path)
        BY ThePath
      <3>  QED
        BY <2>2, <3>1 DEF Leads
    <2>4. Jtag!NameOf("DRCAPTURE") = "CAPTURE_DR" /\ Jtag!NameOf("DRUPDATE") = "UPDATE_DR"
          /\ "DRCAPTURE" \in Jtag!TapStates /\ "DRUPDATE" \in Jtag!TapStates
      BY DEF Jtag!NameOf, Jtag!TapStates
    <2>  QED
      BY <2>1, <2>2, <2>3, <2>4, StatesNamed
  <1>5. Walk!ExtraClocks
    <2> DEFINE extra(state) == {k \in 1 .. Len(the_path) - 1 : the_walk[k] = state}
    <2> SUFFICES ASSUME left = << >>, passed # << >>, from = "RESET"
                 PROVE  CASE to = "DRSHIFT" -> Walk!Extra("TEST_LOGIC_RESET") = 2 .. 4
                          [] to = "IRSHIFT" -> Walk!Extra("TEST_LOGIC_RESET") = 2 .. 3
                          [] OTHER -> Walk!Extra(Walk!NameOf(to)) # {}
      BY Zenon DEF Walk!ExtraClocks
    <2>1. (CASE to = "DRSHIFT" -> extra("RESET") = 1 .. 3
             [] to = "IRSHIFT" -> extra("RESET") = 1 .. 2
             [] OTHER -> extra(to) # {})
      BY ThePath DEF Leads
    <2>2. /\ DOMAIN passed = 1 .. Len(the_path) /\ Len(the_path) \in Nat
          /\ Len(passed) = Len(the_path)
      BY PassedStates, Arrived, ThePath
    <2>3. ASSUME NEW state \in Jtag!TapStates
          PROVE  \A k \in Int : k \in Walk!Extra(Jtag!NameOf(state)) <=> k - 1 \in extra(state)
      BY <2>2, StatesNamed DEF Walk!Extra
    <2>4. \A state \in Jtag!TapStates : Walk!Extra(Jtag!NameOf(state)) \subseteq Int
      BY <2>2 DEF Walk!Extra
    <2>5. /\ Jtag!NameOf("RESET") = "TEST_LOGIC_RESET" /\ "RESET" \in Jtag!TapStates
          /\ to \in Jtag!TapStates /\ Walk!NameOf(to) = Jtag!NameOf(to)
      BY SamePaths DEF Jtag!NameOf, Jtag!TapStates, WalkInv, Jtag!Stable
    <2> DEFINE resets == Walk!Extra("TEST_LOGIC_RESET")
    <2>6. resets \subseteq Int /\ \A k \in Int : k \in resets <=> k - 1 \in extra("RESET")
      BY <2>3, <2>4, <2>5
    <2>  HIDE DEF extra, resets
    <2>7. ASSUME extra("RESET") = 1 .. 3  PROVE resets = 2 .. 4
      <3>1. \A k \in resets : k \in 2 .. 4
        BY <2>6, <2>7, SMTT(30)
      <3>2. \A k \in 2 .. 4 : k \in resets
        BY <2>6, <2>7, SMTT(30)
      <3>  QED
        BY <3>1, <3>2
    <2>8. ASSUME extra("RESET") = 1 .. 2  PROVE resets = 2 .. 3
      <3>1. \A k \in resets : k \in 2 .. 3
        BY <2>6, <2>8
      <3>2. \A k \in 2 .. 3 : k \in resets
        BY <2>6, <2>8
      <3>  QED
        BY <3>1, <3>2
    <2>9. extra(to) # {} => Walk!Extra(Walk!NameOf(to)) # {}
      <3>1. extra(to) \subseteq Int
        BY DEF extra
      <3>2. ASSUME NEW k \in extra(to)  PROVE k + 1 \in Walk!Extra(Jtag!NameOf(to))
        <4>1. k + 1 \in Int /\ (k + 1) - 1 = k
          BY <3>1
        <4>  QED
          BY <2>3, <2>5, <4>1
      <3>  QED
        BY <2>5, <3>2
    <2>  QED
      BY <2>1, <2>7, <2>8, <2>9 DEF resets
  <1>  QED
    BY <1>1, <1>2, <1>3, <1>4, <1>5

-----------------------------------------------------------------------------
(* Clocks                                                                    *)

Chain == [tap: Jtag!Controller!TapState, tms: {0, 1},
          shifted: Seq(Jtag!Controller!TapState \X Seq(Nat) \X Seq(Nat)), idled: Nat]
Clock == [tms: {0, 1, Jtag!Hold}, tdi: Seq(Nat), to: Seq(Nat)]

\* A clock leaves the chain a chain.
LEMMA TurnType ==
  ASSUME NEW was \in Chain, NEW c \in Clock
  PROVE  Jtag!turn(was, c) \in Chain
  <1> DEFINE level == IF c.tms = Jtag!Hold THEN was.tms ELSE c.tms
             X == Jtag!Controller!TapState \X Seq(Nat) \X Seq(Nat)
  <1>1. /\ was.tap \in Jtag!Controller!TapState /\ was.tms \in {0, 1}
        /\ was.shifted \in Seq(X) /\ was.idled \in Nat
        /\ c.tms \in {0, 1, Jtag!Hold} /\ c.tdi \in Seq(Nat) /\ c.to \in Seq(Nat)
    BY DEF Chain, Clock
  <1>2. level \in {0, 1}
    BY <1>1
  <1>  HIDE DEF level
  <1>3. Jtag!Controller!next_state(was.tap, level) \in Jtag!Controller!TapState
    BY <1>1, <1>2, SMTT(30) DEF Jtag!Controller!next_state, Jtag!Controller!TapState,
         Jtag!Controller!jtag_tap_next_state
  <1>4. Jtag!NameOf("RESET") \in Jtag!Controller!TapState
    BY NamesAreStates DEF Jtag!TapStates
  <1>5. <<was.tap, c.tdi, c.to>> \in X
    BY <1>1
  <1>  HIDE DEF X
  <1>6. Append(was.shifted, <<was.tap, c.tdi, c.to>>) \in Seq(X)
    BY <1>1, <1>5
  <1>7. was.idled + (IF was.tap = Jtag!NameOf("IDLE") /\ level = 0 THEN 1 ELSE 0) \in Nat
    BY <1>1
  <1>8. Jtag!turn(was, c) \in [tap: Jtag!Controller!TapState, tms: {0, 1}, shifted: Seq(X), idled: Nat]
    BY <1>1, <1>2, <1>3, <1>4, <1>6, <1>7 DEF Jtag!turn, level
  <1>  QED
    BY <1>8 DEF Chain, X

\* r is the chain from clock to clock.
Follows(r, was, clocks) ==
  r[0] = was /\ \A k \in 1 .. Len(clocks) : r[k] = Jtag!turn(r[k - 1], clocks[k])
Passes(r, was, clocks) == r \in [0 .. Len(clocks) -> Chain] /\ Follows(r, was, clocks)

\* The chain does go from clock to clock.
LEMMA SomePasses ==
  ASSUME NEW was \in Chain, NEW clocks \in Seq(Clock)
  PROVE  \E r : Passes(r, was, clocks)
  <1> DEFINE n == Len(clocks)
             f == [k \in 1 .. n |-> [c \in Chain |-> Jtag!turn(c, clocks[k])]]
  <1>1. n \in Nat /\ \A k \in 1 .. n : clocks[k] \in Clock
    OBVIOUS
  <1>  HIDE DEF n
  <1>2. f \in Rules(n, Chain)
    BY <1>1, TurnType DEF Rules
  <1>3. PICK r : GoesOn(r, n, Chain, was, f)
    BY <1>1, <1>2, Recursion, Zenon
  <1>4. \A k \in 1 .. n : f[k][r[k - 1]] = Jtag!turn(r[k - 1], clocks[k])
    <2>1. \A k \in 1 .. n : r[k - 1] \in Chain
      BY <1>1, <1>3 DEF GoesOn
    <2>  QED
      BY <2>1
  <1>  HIDE DEF f
  <1>5. Passes(r, was, clocks)
    BY <1>3, <1>4 DEF GoesOn, Passes, Follows, n
  <1>  QED
    BY <1>5

\* There is one such.
LEMMA OnePasses ==
  ASSUME NEW was, NEW clocks \in Seq(Clock), NEW r, NEW q,
         Follows(r, was, clocks), Follows(q, was, clocks)
  PROVE  \A k \in 0 .. Len(clocks) : r[k] = q[k]
  <1> DEFINE n == Len(clocks)
             S == {k \in 0 .. n : r[k] = q[k]}
  <1>1. n \in Nat
    OBVIOUS
  <1>  HIDE DEF n
  <1>2. 0 \in S
    BY <1>1 DEF Follows
  <1>3. ASSUME NEW k \in 0 .. n - 1, k \in S  PROVE k + 1 \in S
    <2>1. k + 1 \in 1 .. n /\ k + 1 \in 0 .. n /\ (k + 1) - 1 = k
      BY <1>1
    <2>  QED
      BY <1>3, <2>1 DEF n, Follows
  <1>  HIDE DEF S
  <1>4. 0 .. n \subseteq S
    BY <1>1, <1>2, <1>3, Induction
  <1>  QED
    BY <1>4 DEF S, n

\* What clocks come to is what the chain is after the last of them.
LEMMA RunIs ==
  ASSUME NEW was \in Chain, NEW clocks \in Seq(Clock), NEW r, Passes(r, was, clocks)
  PROVE  Jtag!run(was, clocks) = r[Len(clocks)] /\ Jtag!run(was, clocks) \in Chain
  <1> DEFINE n == Len(clocks)
             IsRun(q) == q = [k \in 0 .. n |-> IF k = 0 THEN was ELSE Jtag!turn(q[k - 1], clocks[k])]
             q == CHOOSE q : IsRun(q)
  <1>1. n \in Nat
    OBVIOUS
  <1>2. Jtag!run(was, clocks) = q[n]
    BY DEF Jtag!run
  <1>  HIDE DEF n
  <1>3. IsRun(r)
    BY <1>1 DEF Passes, Follows, n
  <1>  HIDE DEF IsRun
  <1>4. IsRun(q)
    BY <1>3
  <1>  HIDE DEF q
  <1>5. q[0] = was /\ \A k \in 1 .. n : q[k] = Jtag!turn(q[k - 1], clocks[k])
    BY <1>1, <1>4 DEF IsRun
  <1>6. Follows(q, was, clocks) /\ Follows(r, was, clocks)
    BY <1>5 DEF Passes, Follows, n
  <1>7. r[n] = q[n]
    <2>1. n \in 0 .. Len(clocks)
      BY <1>1 DEF n
    <2>  QED
      BY <1>6, <2>1, OnePasses
  <1>8. r[n] \in Chain
    BY <1>1 DEF Passes, n
  <1>  QED
    BY <1>2, <1>7, <1>8 DEF n

\* Clocks leave the chain a chain.
LEMMA RunType ==
  ASSUME NEW was \in Chain, NEW clocks \in Seq(Clock)
  PROVE  Jtag!run(was, clocks) \in Chain
  BY SomePasses, RunIs

\* To know what clocks come to, it is enough to say what each does.
LEMMA RunBy ==
  ASSUME NEW was \in Chain, NEW clocks \in Seq(Clock), NEW r,
         Follows(r, was, clocks)
  PROVE  Jtag!run(was, clocks) = r[Len(clocks)]
  <1>1. PICK q : Passes(q, was, clocks)
    BY SomePasses
  <1>2. Len(clocks) \in 0 .. Len(clocks)
    OBVIOUS
  <1>3. Follows(q, was, clocks)
    BY <1>1 DEF Passes
  <1>4. r[Len(clocks)] = q[Len(clocks)]
    BY <1>2, <1>3, OnePasses
  <1>  QED
    BY <1>1, <1>4, RunIs

\* No clocks, no change.
LEMMA RunEmpty ==
  ASSUME NEW was \in Chain
  PROVE  Jtag!run(was, << >>) = was
  <1>1. << >> \in Seq(Clock) /\ Len(<< >>) = 0
    OBVIOUS
  <1>2. PICK r : Passes(r, was, << >>)
    BY <1>1, SomePasses, Zenon
  <1>  QED
    BY <1>1, <1>2, RunIs DEF Passes, Follows

\* Clocks in turn.
LEMMA RunConcat ==
  ASSUME NEW was \in Chain, NEW before \in Seq(Clock), NEW after \in Seq(Clock)
  PROVE  /\ before \o after \in Seq(Clock)
         /\ Jtag!run(was, before \o after) = Jtag!run(Jtag!run(was, before), after)
  <1> DEFINE m == Len(before)
             n == Len(after)
             both == before \o after
             mid == Jtag!run(was, before)
  <1>1. /\ m \in Nat /\ n \in Nat /\ both \in Seq(Clock) /\ Len(both) = m + n
        /\ \A k \in 1 .. m : both[k] = before[k]
        /\ \A k \in 1 .. n : both[m + k] = after[k]
    OBVIOUS
  <1>2. PICK r : Passes(r, was, before)
    BY SomePasses
  <1>3. mid = r[m] /\ mid \in Chain
    BY <1>2, RunIs
  <1>4. PICK q : Passes(q, mid, after)
    BY <1>3, SomePasses
  <1>5. Jtag!run(mid, after) = q[n]
    BY <1>3, <1>4, RunIs
  <1>6. r[0] = was /\ \A k \in 1 .. m : r[k] = Jtag!turn(r[k - 1], before[k])
    BY <1>2 DEF Passes, Follows
  <1>7. q[0] = mid /\ \A k \in 1 .. n : q[k] = Jtag!turn(q[k - 1], after[k])
    BY <1>4 DEF Passes, Follows
  <1>  HIDE DEF m, n, both, mid
  <1> DEFINE p == [k \in 0 .. m + n |-> IF k <= m THEN r[k] ELSE q[k - m]]
  <1>8. p[0] = was /\ p[m + n] = q[n]
    <2>1. 0 \in 0 .. m + n /\ 0 <= m /\ m + n \in 0 .. m + n
      BY <1>1
    <2>2. CASE n = 0
      <3>1. m + n = m
        BY <1>1, <2>2
      <3>  QED
        BY <1>3, <1>6, <1>7, <2>1, <2>2, <3>1
    <2>3. CASE n # 0
      <3>1. ~(m + n <= m) /\ (m + n) - m = n
        BY <1>1, <2>3
      <3>  QED
        BY <1>6, <2>1, <3>1
    <2>  QED
      BY <2>2, <2>3
  <1>9. ASSUME NEW k \in 1 .. m + n  PROVE p[k] = Jtag!turn(p[k - 1], both[k])
    <2>1. k \in 0 .. m + n /\ k - 1 \in 0 .. m + n
      BY <1>1
    <2>2. CASE k <= m
      <3>1. k \in 1 .. m /\ k - 1 <= m
        BY <1>1, <2>2
      <3>  QED
        BY <1>1, <1>6, <2>1, <2>2, <3>1
    <2>3. CASE k = m + 1
      <3>1. ~(k <= m) /\ k - m = 1 /\ k - 1 = m /\ m <= m /\ 1 \in 1 .. n /\ 1 - 1 = 0
        BY <1>1, <2>3
      <3>2. p[k] = q[1] /\ p[k - 1] = r[m]
        BY <2>1, <3>1
      <3>3. both[k] = after[1]
        BY <1>1, <2>3, <3>1
      <3>  QED
        BY <1>3, <1>7, <3>1, <3>2, <3>3
    <2>4. CASE k > m + 1
      <3>1. ~(k <= m) /\ ~(k - 1 <= m) /\ k - m \in 1 .. n /\ (k - 1) - m = (k - m) - 1
            /\ m + (k - m) = k
        BY <1>1, <2>4
      <3>2. p[k] = q[k - m] /\ p[k - 1] = q[(k - m) - 1]
        BY <2>1, <3>1
      <3>3. both[k] = after[k - m]
        BY <1>1, <3>1, Zenon
      <3>  QED
        BY <1>7, <3>1, <3>2, <3>3
    <2>  QED
      BY <1>1, <2>2, <2>3, <2>4
  <1>  HIDE DEF p
  <1>10. Jtag!run(was, both) = p[m + n]
    <2>1. Follows(p, was, both)
      BY <1>1, <1>8, <1>9 DEF Follows
    <2>  QED
      BY <1>1, <2>1, RunBy
  <1>  QED
    BY <1>1, <1>5, <1>8, <1>10 DEF both, mid

-----------------------------------------------------------------------------
(* Moves                                                                     *)

\* The clocks of a move show and store nothing.
LEMMA ClocksOf ==
  ASSUME NEW bits \in Seq({0, 1})
  PROVE  /\ Jtag!clocks_of(bits) \in Seq(Clock) /\ Len(Jtag!clocks_of(bits)) = Len(bits)
         /\ \A k \in 1 .. Len(bits) :
              Jtag!clocks_of(bits)[k] = [tms |-> bits[k], tdi |-> << >>, to |-> << >>]
  <1> DEFINE n == Len(bits)
             c == [k \in 1 .. n |-> [tms |-> bits[k], tdi |-> << >>, to |-> << >>]]
  <1>1. n \in Nat /\ DOMAIN bits = 1 .. n /\ \A k \in 1 .. n : bits[k] \in {0, 1}
    OBVIOUS
  <1>2. Jtag!clocks_of(bits) = c
    BY <1>1 DEF Jtag!clocks_of
  <1>  HIDE DEF n
  <1>3. \A k \in 1 .. n : c[k] \in Clock
    BY <1>1 DEF Clock
  <1>4. c \in Seq(Clock) /\ Len(c) = n
    BY <1>1, <1>3
  <1>  QED
    BY <1>2, <1>4 DEF n

\* A clock of a move: the state follows its level, and there may be one more clock of idling.
LEMMA BareTurn ==
  ASSUME ~Jtag!held, NEW was \in Chain, NEW level \in {0, 1}
  PROVE  Jtag!turn(was, [tms |-> level, tdi |-> << >>, to |-> << >>]) =
           [tap |-> Jtag!Controller!next_state(was.tap, level), tms |-> level,
            shifted |-> was.shifted,
            idled |-> was.idled + IF was.tap = Jtag!NameOf("IDLE") /\ level = 0 THEN 1 ELSE 0]
  <1>1. << >> \o << >> = << >> /\ level # Jtag!Hold
    BY DEF Jtag!Hold
  <1>  QED
    BY <1>1 DEF Jtag!turn

\* Clocked to a chain that is where the walk starts, the bits take it where the walk goes.
LEMMA Move ==
  ASSUME ~Jtag!held, NEW was \in Chain, NEW start \in Jtag!TapStates, was.tap = Jtag!NameOf(start),
         NEW bits \in Seq({0, 1})
  PROVE  LET end == Jtag!run(was, Jtag!clocks_of(bits))
             w == Jtag!walk(start, bits)
         IN /\ end \in Chain /\ end.tap = Jtag!NameOf(w[Len(bits)]) /\ end.shifted = was.shifted
            /\ bits # << >> => end.tms = bits[Len(bits)]
            /\ (\A k \in 1 .. Len(bits) : w[k - 1] = "IDLE" => bits[k] = 1) => end.idled = was.idled
  <1> DEFINE n == Len(bits)
             clocks == Jtag!clocks_of(bits)
             w == Jtag!walk(start, bits)
             quiet == \A k \in 1 .. n : w[k - 1] = "IDLE" => bits[k] = 1
  <1>1. clocks \in Seq(Clock) /\ Len(clocks) = n /\ n \in Nat
        /\ \A k \in 1 .. n : /\ clocks[k] = [tms |-> bits[k], tdi |-> << >>, to |-> << >>]
                             /\ bits[k] \in {0, 1}
    BY ClocksOf
  <1>2. PICK r : Passes(r, was, clocks)
    BY <1>1, SomePasses
  <1>a. Jtag!run(was, clocks) = r[n]
    BY <1>1, <1>2, RunIs
  <1>3. Jtag!run(was, clocks) = r[n] /\ r \in [0 .. n -> Chain] /\ r[0] = was
        /\ \A k \in 1 .. n : r[k] = Jtag!turn(r[k - 1], clocks[k])
    BY <1>1, <1>2, <1>a DEF Passes, Follows
  <1>4. w \in [0 .. n -> Jtag!TapStates] /\ w[0] = start
        /\ \A k \in 1 .. n : w[k] = Jtag!tap_state_transition(w[k - 1], bits[k])
    BY WalkIs
  <1> DEFINE Along(k) == /\ r[k].tap = Jtag!NameOf(w[k]) /\ r[k].shifted = was.shifted
                         /\ k # 0 => r[k].tms = bits[k]
                         /\ quiet => r[k].idled = was.idled
             S == {k \in 0 .. n : Along(k)}
  <1>  HIDE DEF n, clocks, w, quiet
  <1>5. 0 \in S
    <2>1. Along(0) /\ 0 \in 0 .. n
      BY <1>1, <1>3, <1>4
    <2>  QED
      BY <2>1
  <1>6. ASSUME NEW k \in 0 .. n - 1, k \in S  PROVE k + 1 \in S
    <2> DEFINE bit == bits[k + 1]
               idling == IF r[k].tap = Jtag!NameOf("IDLE") /\ bit = 0 THEN 1 ELSE 0
    <2>1. k + 1 \in 1 .. n /\ k + 1 \in 0 .. n /\ (k + 1) - 1 = k /\ k \in 0 .. n /\ k + 1 # 0
      BY <1>1
    <2>2. bit \in {0, 1} /\ clocks[k + 1] = [tms |-> bit, tdi |-> << >>, to |-> << >>]
      BY <1>1, <2>1
    <2>3. r[k] \in Chain /\ w[k] \in Jtag!TapStates
      BY <1>3, <1>4, <2>1
    <2>4. r[k + 1] = Jtag!turn(r[k], clocks[k + 1])
      BY <1>3, <2>1
    <2>5. w[k + 1] = Jtag!tap_state_transition(w[k], bit)
      BY <1>4, <2>1
    <2>6. Along(k)
      BY <1>6
    <2>  HIDE DEF bit
    <2>7. r[k + 1] = [tap |-> Jtag!Controller!next_state(r[k].tap, bit), tms |-> bit,
                      shifted |-> r[k].shifted, idled |-> r[k].idled + idling]
      BY <2>2, <2>3, <2>4, BareTurn, Zenon
    <2>8. r[k + 1].tap = Jtag!NameOf(w[k + 1])
      BY <2>2, <2>3, <2>5, <2>6, <2>7, TablesAgree
    <2>9. quiet => idling = 0
      <3> SUFFICES ASSUME quiet, r[k].tap = Jtag!NameOf("IDLE")  PROVE bit # 0
        OBVIOUS
      <3>1. w[k] = "IDLE"
        BY <2>3, <2>6, NamesDiffer DEF Jtag!TapStates
      <3>  QED
        BY <2>1, <3>1 DEF bit, quiet
    <2>10. r[k].idled \in Nat
      BY <2>3 DEF Chain
    <2>  HIDE DEF idling
    <2>11. quiet => r[k + 1].idled = was.idled
      BY <2>6, <2>7, <2>9, <2>10
    <2>  QED
      BY <2>1, <2>6, <2>7, <2>8, <2>11 DEF bit
  <1>  HIDE DEF S
  <1>7. 0 .. n \subseteq S
    BY <1>1, <1>5, <1>6, Induction
  <1>8. Along(n) /\ r[n] \in Chain
    BY <1>1, <1>3, <1>7 DEF S
  <1>9. bits # << >> => n # 0
    BY DEF n
  <1>  QED
    BY <1>3, <1>8, <1>9 DEF n, clocks, w, quiet

\* A move of the short table.
LEMMA MoveTo ==
  ASSUME ~Jtag!held, NEW was \in Chain, NEW start \in Jtag!Stable, was.tap = Jtag!NameOf(start),
         NEW goal \in Jtag!Stable
  PROVE  LET end == Jtag!run(was, Jtag!move_to_state(start, goal))
         IN /\ Jtag!move_to_state(start, goal) \in Seq(Clock)
            /\ end \in Chain /\ end.tap = Jtag!NameOf(goal) /\ end.shifted = was.shifted
            /\ goal # "RESET" => end.tms = 0
            /\ start # "RESET" /\ start # goal => end.idled = was.idled
  <1> DEFINE path == ShortPath(start, goal)
             w == Jtag!walk(start, path)
  <1>1. Leads(path, start, goal) /\ Spares(path, start, goal)
    BY PathsLead
  <1>2. path \in Seq({0, 1}) /\ path # << >>
    BY <1>1 DEF Leads
  <1>3. start \in Jtag!TapStates
    BY DEF Jtag!Stable
  <1>4. Walks(w, start, path)
    BY <1>2, <1>3, WalkIs DEF Walks
  <1>5. w[Len(path)] = goal
    BY <1>1, <1>4 DEF Leads
  <1>6. /\ goal # "RESET" => path[Len(path)] = 0
        /\ start # "RESET" /\ start # goal =>
             \A k \in 1 .. Len(path) : w[k - 1] = "IDLE" => path[k] = 1
    BY <1>1, <1>4 DEF Spares
  <1>7. Jtag!move_to_state(start, goal) = Jtag!clocks_of(path)
    BY DEF Jtag!move_to_state, ShortPath
  <1>  HIDE DEF path, w
  <1>8. Jtag!clocks_of(path) \in Seq(Clock)
    BY <1>2, ClocksOf
  <1>  QED
    BY <1>2, <1>3, <1>5, <1>6, <1>7, <1>8, Move DEF w

\* A move that is left out where there is nothing to move.
LEMMA MoveIfNeeded ==
  ASSUME ~Jtag!held, NEW was \in Chain, NEW start \in Jtag!Stable, was.tap = Jtag!NameOf(start),
         NEW goal \in Jtag!Stable, start # "RESET" => was.tms = 0
  PROVE  LET end == Jtag!run(was, Jtag!move_if_needed(start, goal))
         IN /\ Jtag!move_if_needed(start, goal) \in Seq(Clock)
            /\ end \in Chain /\ end.tap = Jtag!NameOf(goal) /\ end.shifted = was.shifted
            /\ goal # "RESET" => end.tms = 0
            /\ start # "RESET" => end.idled = was.idled
  <1>1. CASE start = goal
    <2>1. Jtag!move_if_needed(start, goal) = << >> /\ << >> \in Seq(Clock)
      BY <1>1 DEF Jtag!move_if_needed
    <2>  QED
      BY <1>1, <2>1, RunEmpty
  <1>2. CASE start # goal
    <2>1. Jtag!move_if_needed(start, goal) = Jtag!move_to_state(start, goal)
      BY <1>2 DEF Jtag!move_if_needed
    <2>  QED
      BY <1>2, <2>1, MoveTo
  <1>  QED
    BY <1>1, <1>2

\* Clocks with one level of TMS, in a state that it does not leave.
LEMMA Steady ==
  ASSUME ~Jtag!held, NEW was \in Chain, NEW state \in Jtag!TapStates,
         was.tap = Jtag!NameOf(state), NEW level \in {0, 1},
         Jtag!tap_state_transition(state, level) = state, NEW n \in Nat
  PROVE  /\ Jtag!steady(n, level) \in Seq(Clock)
         /\ Jtag!run(was, Jtag!steady(n, level)) =
              [tap |-> was.tap, tms |-> IF n = 0 THEN was.tms ELSE level, shifted |-> was.shifted,
               idled |-> was.idled + IF state = "IDLE" /\ level = 0 THEN n ELSE 0]
  <1> DEFINE bits == [k \in 1 .. n |-> level]
             clocks == Jtag!clocks_of(bits)
             per == IF state = "IDLE" /\ level = 0 THEN 1 ELSE 0
             r == [k \in 0 .. n |-> [tap |-> was.tap, tms |-> IF k = 0 THEN was.tms ELSE level,
                                     shifted |-> was.shifted,
                                     idled |-> was.idled + IF per = 1 THEN k ELSE 0]]
  <1>1. bits \in Seq({0, 1}) /\ Len(bits) = n /\ \A k \in 1 .. n : bits[k] = level
    OBVIOUS
  <1>2. Jtag!steady(n, level) = clocks
    BY DEF Jtag!steady
  <1>  HIDE DEF bits
  <1>3. clocks \in Seq(Clock) /\ Len(clocks) = n
        /\ \A k \in 1 .. n : clocks[k] = [tms |-> level, tdi |-> << >>, to |-> << >>]
    BY <1>1, ClocksOf
  <1>4. was.tap \in Jtag!Controller!TapState /\ was.tms \in {0, 1} /\ was.idled \in Nat
        /\ was.shifted \in Seq(Jtag!Controller!TapState \X Seq(Nat) \X Seq(Nat))
        /\ was = [tap |-> was.tap, tms |-> was.tms, shifted |-> was.shifted, idled |-> was.idled]
    BY DEF Chain
  <1>5. per \in {0, 1} /\ (per = 1 <=> was.tap = Jtag!NameOf("IDLE") /\ level = 0)
    BY NamesDiffer DEF Jtag!TapStates
  <1>6. Jtag!Controller!next_state(was.tap, level) = was.tap
    BY TablesAgree
  <1>  HIDE DEF clocks, per
  <1>7. r[0] = was
    BY <1>4
  <1>8. ASSUME NEW k \in 1 .. n  PROVE r[k] = Jtag!turn(r[k - 1], clocks[k])
    <2> DEFINE before == r[k - 1]
    <2>1. k - 1 \in 0 .. n /\ k \in 0 .. n /\ k # 0 /\ (k - 1) + 1 = k
      OBVIOUS
    <2>2. before = [tap |-> was.tap, tms |-> IF k - 1 = 0 THEN was.tms ELSE level,
                    shifted |-> was.shifted,
                    idled |-> was.idled + IF per = 1 THEN k - 1 ELSE 0]
      BY <2>1
    <2>3. (was.idled + IF per = 1 THEN k - 1 ELSE 0) \in Nat
      BY <1>4, <2>1
    <2>4. before \in Chain
      BY <1>4, <2>2, <2>3 DEF Chain
    <2>  HIDE DEF before
    <2>5. Jtag!turn(before, clocks[k]) =
            [tap |-> was.tap, tms |-> level, shifted |-> was.shifted,
             idled |-> before.idled + IF was.tap = Jtag!NameOf("IDLE") /\ level = 0 THEN 1 ELSE 0]
      BY <1>3, <1>6, <2>2, <2>4, BareTurn, Zenon
    <2>6. before.idled + (IF was.tap = Jtag!NameOf("IDLE") /\ level = 0 THEN 1 ELSE 0) =
            was.idled + IF per = 1 THEN k ELSE 0
      BY <1>4, <1>5, <2>1, <2>2
    <2>7. r[k] = [tap |-> was.tap, tms |-> level, shifted |-> was.shifted,
                  idled |-> was.idled + IF per = 1 THEN k ELSE 0]
      BY <2>1
    <2>  QED
      BY <2>5, <2>6, <2>7 DEF before
  <1>9. r[n] = [tap |-> was.tap, tms |-> IF n = 0 THEN was.tms ELSE level, shifted |-> was.shifted,
                idled |-> was.idled + IF state = "IDLE" /\ level = 0 THEN n ELSE 0]
    BY DEF per
  <1>  HIDE DEF r
  <1>10. Follows(r, was, clocks)
    BY <1>3, <1>7, <1>8 DEF Follows
  <1>11. Jtag!run(was, clocks) = r[n]
    BY <1>3, <1>10, RunBy
  <1>  QED
    BY <1>2, <1>3, <1>9, <1>11

-----------------------------------------------------------------------------
(* Scans                                                                     *)

Shifts == {"DRSHIFT", "IRSHIFT"}

\* A bit k of field f that is shifted in a state: what of it is to be seen.
Bit(state, f, field, k) ==
  <<Jtag!NameOf(state), Jtag!place(f, k, field.out), Jtag!place(f, k, field.in)>>

\* Its clock.
BitClock(level, f, field, k) ==
  [tms |-> level, tdi |-> Jtag!place(f, k, field.out), to |-> Jtag!place(f, k, field.in)]

\* The first n bits of it.
Carried(state, f, field, n) ==
  [k \in 1 .. IF field.out \/ field.in THEN n ELSE 0 |-> Bit(state, f, field, k)]

\* A place of a buffer is told apart by the field and the bit.
LEMMA PlaceType ==
  ASSUME NEW f \in Nat, NEW k \in Nat, NEW used \in BOOLEAN
  PROVE  Jtag!place(f, k, used) \in Seq(Nat) /\ Len(Jtag!place(f, k, used)) = IF used THEN 2 ELSE 0
  BY DEF Jtag!place

\* A clock in a shift state shifts one bit, if there is anything to see of it.
LEMMA BitTurn ==
  ASSUME ~Jtag!held, NEW was \in Chain, NEW state \in Shifts, was.tap = Jtag!NameOf(state),
         NEW level \in {0, 1, Jtag!Hold}, NEW field \in Jtag!Field, NEW f \in Nat, NEW k \in Nat
  PROVE  /\ BitClock(level, f, field, k) \in Clock
         /\ Jtag!turn(was, BitClock(level, f, field, k)) =
              LET now == IF level = Jtag!Hold THEN was.tms ELSE level
              IN [tap |-> Jtag!Controller!next_state(was.tap, now), tms |-> now,
                  shifted |-> IF field.out \/ field.in
                              THEN Append(was.shifted, Bit(state, f, field, k)) ELSE was.shifted,
                  idled |-> was.idled]
  <1> DEFINE o == Jtag!place(f, k, field.out)
             i == Jtag!place(f, k, field.in)
  <1>1. field.out \in BOOLEAN /\ field.in \in BOOLEAN
    BY DEF Jtag!Field
  <1>2. /\ o \in Seq(Nat) /\ Len(o) = IF field.out THEN 2 ELSE 0
        /\ i \in Seq(Nat) /\ Len(i) = IF field.in THEN 2 ELSE 0
    BY <1>1, PlaceType, Zenon
  <1>  HIDE DEF o, i
  <1>3. o \o i # << >> <=> field.out \/ field.in
    <2>0. o \in Seq(Nat) /\ i \in Seq(Nat)
      BY <1>2
    <2>1. Len(o \o i) = Len(o) + Len(i)
      BY <2>0
    <2>2. o \o i \in Seq(Nat)
      BY <2>0
    <2>3. o \o i = << >> => Len(o \o i) = 0
      OBVIOUS
    <2>4. o \o i # << >> => Len(o \o i) # 0
      <3>1. \A q \in Seq(Nat) : q # << >> => Len(q) # 0
        BY EmptySeq
      <3>  QED
        BY <2>2, <3>1, Zenon
    <2>  QED
      BY <1>1, <1>2, <2>1, <2>3, <2>4
  <1>4. Jtag!shifting(was.tap) /\ was.tap # Jtag!NameOf("IDLE")
    BY Zenon DEF Shifts, Jtag!shifting, Jtag!NameOf
  <1>5. was.idled \in Nat
    BY DEF Chain
  <1>6. BitClock(level, f, field, k) = [tms |-> level, tdi |-> o, to |-> i]
    BY DEF BitClock, o, i
  <1>7. Bit(state, f, field, k) = <<was.tap, o, i>>
    BY DEF Bit, o, i
  <1>8. BitClock(level, f, field, k) \in Clock
    BY <1>2, <1>6 DEF Clock
  <1>9. Jtag!turn(was, [tms |-> level, tdi |-> o, to |-> i]) =
          [tap |-> Jtag!Controller!next_state(was.tap, IF level = Jtag!Hold THEN was.tms ELSE level),
           tms |-> IF level = Jtag!Hold THEN was.tms ELSE level,
           shifted |-> IF o \o i # << >> THEN Append(was.shifted, <<was.tap, o, i>>) ELSE was.shifted,
           idled |-> was.idled]
    BY <1>4, <1>5, SMTT(30) DEF Jtag!turn
  <1>  QED
    BY <1>3, <1>6, <1>7, <1>8, <1>9, Zenon

\* What is carried grows by a bit with each.
LEMMA CarriedNone ==
  ASSUME NEW state, NEW f, NEW field
  PROVE  Carried(state, f, field, 0) = << >>
  BY DEF Carried

\* One bit more.
LEMMA CarriedGrows ==
  ASSUME NEW state, NEW f, NEW field, NEW k \in Nat \ {0}
  PROVE  /\ field.out \/ field.in =>
              Carried(state, f, field, k) = Append(Carried(state, f, field, k - 1), Bit(state, f, field, k))
         /\ ~(field.out \/ field.in) => Carried(state, f, field, k) = << >>
  <1>1. ASSUME field.out \/ field.in
        PROVE  Carried(state, f, field, k) =
                 Append(Carried(state, f, field, k - 1), Bit(state, f, field, k))
    <2> DEFINE c(n) == [j \in 1 .. n |-> Bit(state, f, field, j)]
    <2>1. Carried(state, f, field, k) = c(k) /\ Carried(state, f, field, k - 1) = c(k - 1)
      BY <1>1 DEF Carried
    <2>2. c(k) = Append(c(k - 1), Bit(state, f, field, k))
      OBVIOUS
    <2>  QED
      BY <2>1, <2>2
  <1>  QED
    BY <1>1 DEF Carried

\* What is carried of a field is of the type of what is shifted.
LEMMA CarriedType ==
  ASSUME NEW state \in Shifts, NEW f \in Nat, NEW field \in Jtag!Field, NEW n \in Nat
  PROVE  Carried(state, f, field, n) \in Seq(Jtag!Controller!TapState \X Seq(Nat) \X Seq(Nat))
  <1>1. Jtag!NameOf(state) \in Jtag!Controller!TapState
    BY NamesAreStates DEF Shifts, Jtag!TapStates
  <1>2. field.out \in BOOLEAN /\ field.in \in BOOLEAN
    BY DEF Jtag!Field
  <1>3. \A k \in 1 .. n : Bit(state, f, field, k) \in Jtag!Controller!TapState \X Seq(Nat) \X Seq(Nat)
    <2> TAKE k \in 1 .. n
    <2>1. Jtag!place(f, k, field.out) \in Seq(Nat) /\ Jtag!place(f, k, field.in) \in Seq(Nat)
      BY <1>2, PlaceType
    <2>  QED
      BY <1>1, <2>1 DEF Bit
  <1>  QED
    BY <1>3 DEF Carried

\* The bits of a field by mpsse_clock_data: they are shifted, each once and in order.
LEMMA AppendAfter ==
  ASSUME NEW S, NEW a \in Seq(S), NEW b \in Seq(S), NEW e \in S
  PROVE  a \o Append(b, e) = Append(a \o b, e)
  OBVIOUS

\* All clocks of mpsse_clock_data for a field.
LEMMA Data ==
  ASSUME ~Jtag!held, NEW was \in Chain, NEW state \in Shifts, was.tap = Jtag!NameOf(state),
         was.tms = 0, NEW field \in Jtag!Field, NEW f \in Nat, NEW n \in Nat
  PROVE  /\ Jtag!mpsse_clock_data(f, field, n) \in Seq(Clock)
         /\ Jtag!run(was, Jtag!mpsse_clock_data(f, field, n)) =
              [tap |-> was.tap, tms |-> 0, shifted |-> was.shifted \o Carried(state, f, field, n),
               idled |-> was.idled]
  <1> DEFINE clocks == Jtag!mpsse_clock_data(f, field, n)
             X == Jtag!Controller!TapState \X Seq(Nat) \X Seq(Nat)
             c(k) == Carried(state, f, field, k)
             so_far(k) == [tap |-> was.tap, tms |-> 0, shifted |-> was.shifted \o c(k),
                           idled |-> was.idled]
             r == [k \in 0 .. n |-> so_far(k)]
  <1>1. clocks = [k \in 1 .. n |-> BitClock(Jtag!Hold, f, field, k)]
    BY DEF Jtag!mpsse_clock_data, BitClock
  <1>2. \A k \in 1 .. n : BitClock(Jtag!Hold, f, field, k) \in Clock
    BY BitTurn
  <1>3. /\ clocks \in Seq(Clock) /\ Len(clocks) = n
        /\ \A k \in 1 .. n : clocks[k] = BitClock(Jtag!Hold, f, field, k)
    BY <1>1, <1>2
  <1>4. /\ was.shifted \in Seq(X)
        /\ was = [tap |-> was.tap, tms |-> was.tms, shifted |-> was.shifted, idled |-> was.idled]
    BY DEF Chain
  <1>5. \A k \in 0 .. n : c(k) \in Seq(X)
    BY CarriedType
  <1>6. Jtag!Controller!next_state(was.tap, 0) = was.tap
    BY TablesAgree, Transitions DEF Shifts, Jtag!TapStates
  <1>7. c(0) = << >>
    BY CarriedNone
  <1>  HIDE DEF clocks, c, X
  <1>8. r[0] = was
    <2>1. was.shifted \o << >> = was.shifted
      BY <1>4
    <2>2. so_far(0) = was
      BY <1>4, <1>7, <2>1
    <2>  QED
      BY <2>2
  <1>9. ASSUME NEW k \in 1 .. n  PROVE r[k] = Jtag!turn(r[k - 1], clocks[k])
    <2> DEFINE before == so_far(k - 1)
    <2>1. k - 1 \in 0 .. n /\ k \in 0 .. n /\ k \in Nat \ {0}
      OBVIOUS
    <2>2. r[k - 1] = before /\ r[k] = so_far(k)
      BY <2>1
    <2>3. /\ before.tap = was.tap /\ before.tms = 0 /\ before.shifted = was.shifted \o c(k - 1)
          /\ before.idled = was.idled
      BY Zenon
    <2>4. was.shifted \o c(k - 1) \in Seq(X)
      BY <1>4, <1>5, <2>1
    <2>5. before \in Chain
      BY <1>4, <2>4 DEF Chain, X
    <2>  HIDE DEF before
    <2>a. Jtag!turn(before, BitClock(Jtag!Hold, f, field, k)) =
            [tap |-> Jtag!Controller!next_state(before.tap, before.tms), tms |-> before.tms,
             shifted |-> IF field.out \/ field.in
                         THEN Append(before.shifted, Bit(state, f, field, k)) ELSE before.shifted,
             idled |-> before.idled]
      <3>1. before.tap = Jtag!NameOf(state) /\ Jtag!Hold \in {0, 1, Jtag!Hold} /\ k \in Nat
        BY <2>3
      <3>  QED
        BY <2>5, <3>1, BitTurn, SMTT(30)
    <2>6. Jtag!turn(before, BitClock(Jtag!Hold, f, field, k)) =
            [tap |-> was.tap, tms |-> 0,
             shifted |-> IF field.out \/ field.in
                         THEN Append(before.shifted, Bit(state, f, field, k)) ELSE before.shifted,
             idled |-> was.idled]
      BY <1>6, <2>3, <2>a, Zenon
    <2>7. (IF field.out \/ field.in
           THEN Append(before.shifted, Bit(state, f, field, k)) ELSE before.shifted) = was.shifted \o c(k)
      <3>1. CASE field.out \/ field.in
        <4>1. c(k) = Append(c(k - 1), Bit(state, f, field, k))
          BY <2>1, <3>1, CarriedGrows DEF c
        <4>3. Bit(state, f, field, k) \in X
          <5>1. Append(c(k - 1), Bit(state, f, field, k)) \in Seq(X)
            BY <1>5, <2>1, <4>1
          <5>2. c(k)[Len(c(k))] = Bit(state, f, field, k) /\ Len(c(k)) \in 1 .. Len(c(k))
            BY <1>5, <2>1, <4>1
          <5>  QED
            BY <1>5, <2>1, <5>2
        <4>4. was.shifted \o Append(c(k - 1), Bit(state, f, field, k)) =
                Append(was.shifted \o c(k - 1), Bit(state, f, field, k))
          BY <1>4, <1>5, <2>1, <4>3, AppendAfter
        <4>  QED
          BY <2>3, <3>1, <4>1, <4>4, Zenon
      <3>2. CASE ~(field.out \/ field.in)
        <4>1. c(k) = << >> /\ c(k - 1) = << >>
          BY <2>1, <3>2 DEF c, Carried
        <4>  QED
          BY <2>3, <3>2, <4>1, Zenon
      <3>  QED
        BY <3>1, <3>2, Zenon
    <2>8. before = r[k - 1]
      BY <2>2 DEF before
    <2>  HIDE DEF r
    <2>  QED
      BY <1>3, <2>2, <2>6, <2>7, <2>8, Zenon
  <1>10. r[n] = so_far(n)
    OBVIOUS
  <1>  HIDE DEF r
  <1>11. Follows(r, was, clocks)
    BY <1>3, <1>8, <1>9 DEF Follows
  <1>12. Jtag!run(was, clocks) = r[n]
    BY <1>3, <1>11, RunBy
  <1>  QED
    BY <1>3, <1>10, <1>12 DEF clocks, c

-----------------------------------------------------------------------------
(* Joining                                                                   *)

\* g joins the sequences, one after the other.
Joins(g, seqs, S) ==
  /\ g \in [0 .. Len(seqs) -> Seq(S)] /\ g[0] = << >>
  /\ \A k \in 1 .. Len(seqs) : g[k] = g[k - 1] \o seqs[k]

\* Sequences can be joined.
LEMMA SomeJoins ==
  ASSUME NEW S, NEW seqs \in Seq(Seq(S))
  PROVE  \E g : Joins(g, seqs, S)
  <1> DEFINE n == Len(seqs)
             D == Seq(S)
             f == [k \in 1 .. n |-> [q \in D |-> q \o seqs[k]]]
  <1>1. n \in Nat /\ \A k \in 1 .. n : seqs[k] \in D
    OBVIOUS
  <1>2. \A a, b : a \in D /\ b \in D => a \o b \in D
    OBVIOUS
  <1>3. << >> \in D
    OBVIOUS
  <1>  HIDE DEF n, D
  <1>4. f \in Rules(n, D)
    BY <1>1, <1>2 DEF Rules
  <1>5. PICK g : GoesOn(g, n, D, << >>, f)
    BY <1>1, <1>3, <1>4, Recursion, Zenon
  <1>6. \A k \in 1 .. n : f[k][g[k - 1]] = g[k - 1] \o seqs[k]
    <2>1. \A k \in 1 .. n : g[k - 1] \in D
      BY <1>1, <1>5 DEF GoesOn
    <2>  QED
      BY <2>1, Zenon
  <1>  HIDE DEF f
  <1>7. Joins(g, seqs, S)
    BY <1>5, <1>6, Zenon DEF GoesOn, Joins, n, D
  <1>  QED
    BY <1>7

\* Joined, they are what FlattenSeq gives.
LEMMA FlattenIs ==
  ASSUME NEW S, NEW seqs \in Seq(Seq(S)), NEW g, Joins(g, seqs, S)
  PROVE  Jtag!FlattenSeq(seqs) = g[Len(seqs)]
  <1> DEFINE n == Len(seqs)
             IsFlat(q) == q = [i \in 1 .. n |-> IF i = 1 THEN seqs[i] ELSE q[i - 1] \o seqs[i]]
             q == CHOOSE q : IsFlat(q)
  <1>1. n \in Nat /\ (n = 0 <=> seqs = << >>)
    OBVIOUS
  <1>2. /\ seqs = << >> => Jtag!FlattenSeq(seqs) = << >>
        /\ seqs # << >> => Jtag!FlattenSeq(seqs) = q[n]
    <2>1. Len(seqs) = 0 <=> seqs = << >>
      BY <1>1
    <2>  QED
      BY <2>1 DEF Jtag!FlattenSeq
  <1>  HIDE DEF n
  <1>3. /\ g \in [0 .. n -> Seq(S)] /\ g[0] = << >>
        /\ \A k \in 1 .. n : g[k] = g[k - 1] \o seqs[k]
        /\ \A k \in 1 .. n : seqs[k] \in Seq(S)
    BY SMTT(30) DEF Joins, n
  <1> DEFINE G == [k \in 1 .. n |-> g[k]]
  <1>4. ASSUME NEW k \in 1 .. n  PROVE G[k] = IF k = 1 THEN seqs[k] ELSE G[k - 1] \o seqs[k]
    <2>1. CASE k = 1
      <3>0. 1 \in 1 .. n /\ 1 - 1 = 0
        BY <1>1, <2>1
      <3>1. g[1] = << >> \o seqs[1] /\ seqs[1] \in Seq(S)
        BY <1>3, <3>0, Zenon
      <3>2. << >> \o seqs[1] = seqs[1]
        BY <3>1, ConcatEmptySeq
      <3>  QED
        BY <2>1, <3>1, <3>2
    <2>2. CASE k # 1
      <3>1. k - 1 \in 1 .. n
        BY <1>1, <2>2
      <3>  QED
        BY <1>3, <2>2, <3>1, Zenon
    <2>  QED
      BY <2>1, <2>2
  <1>5. IsFlat(G)
    <2>1. G = [k \in 1 .. n |-> G[k]]
      OBVIOUS
    <2>  HIDE DEF G
    <2>  QED
      BY <1>4, <2>1, Zenon
  <1>  HIDE DEF IsFlat
  <1>6. IsFlat(q)
    BY <1>5
  <1>  HIDE DEF q
  <1>7. ASSUME n # 0  PROVE q[n] = g[n]
    <2> DEFINE T == {k \in 0 .. n : k # 0 => q[k] = g[k]}
    <2>1. 0 \in T
      BY <1>1
    <2>2. ASSUME NEW k \in 0 .. n - 1, k \in T  PROVE k + 1 \in T
      <3>1. k + 1 \in 1 .. n /\ k + 1 \in 0 .. n /\ (k + 1) - 1 = k
        BY <1>1
      <3>2. q[k + 1] = IF k + 1 = 1 THEN seqs[k + 1] ELSE q[k] \o seqs[k + 1]
        BY <1>6, <3>1, Zenon DEF IsFlat
      <3>3. g[k + 1] = IF k + 1 = 1 THEN seqs[k + 1] ELSE g[k] \o seqs[k + 1]
        <4>1. G[k + 1] = IF k + 1 = 1 THEN seqs[k + 1] ELSE G[k] \o seqs[k + 1]
          BY <1>4, <3>1
        <4>2. k + 1 # 1 => k \in 1 .. n
          BY <1>1, <3>1
        <4>  QED
          BY <3>1, <4>1, <4>2
      <3>4. k + 1 # 1 => q[k] = g[k]
        BY <2>2
      <3>  QED
        BY <3>1, <3>2, <3>3, <3>4
    <2>  HIDE DEF T
    <2>3. 0 .. n \subseteq T
      BY <1>1, <2>1, <2>2, Induction, Zenon
    <2>  QED
      BY <1>1, <1>7, <2>3 DEF T
  <1>  QED
    BY <1>1, <1>2, <1>3, <1>7 DEF n

\* What the last bit of a scan goes out with: TMS high, and then low, so that the chain
\* is in the pause state.
PauseOf(state) == IF state = "IRSHIFT" THEN "IRPAUSE" ELSE "DRPAUSE"
Leaving(f, field, k) ==
  <<BitClock(1, f, field, k), [tms |-> 0, tdi |-> Jtag!place(f, k, field.out), to |-> << >>]>>

LastGoes(was, state, f, field, k) ==
  /\ Leaving(f, field, k) \in Seq(Clock)
  /\ Jtag!run(was, Leaving(f, field, k)) =
       [tap |-> Jtag!NameOf(PauseOf(state)), tms |-> 0,
        shifted |-> IF field.out \/ field.in
                    THEN Append(was.shifted, Bit(state, f, field, k)) ELSE was.shifted,
        idled |-> was.idled]

\* The last bit goes out with the first clock of the move out of the shift state (ftdi.c:519-541).
LEMMA LastBit ==
  ASSUME ~Jtag!held, NEW was \in Chain, NEW state \in Shifts, was.tap = Jtag!NameOf(state),
         NEW field \in Jtag!Field, NEW f \in Nat, NEW k \in Nat
  PROVE  LastGoes(was, state, f, field, k)
  <1> DEFINE clocks == Leaving(f, field, k)
             o == Jtag!place(f, k, field.out)
             second == [tms |-> 0, tdi |-> o, to |-> << >>]
             exit == IF state = "IRSHIFT" THEN "IREXIT1" ELSE "DREXIT1"
             shifts == IF field.out \/ field.in
                       THEN Append(was.shifted, Bit(state, f, field, k)) ELSE was.shifted
             after == [tap |-> Jtag!NameOf(exit), tms |-> 1, shifted |-> shifts, idled |-> was.idled]
             end == [tap |-> Jtag!NameOf(PauseOf(state)), tms |-> 0, shifted |-> shifts,
                     idled |-> was.idled]
             r == [j \in 0 .. 2 |-> IF j = 0 THEN was ELSE IF j = 1 THEN after ELSE end]
  <1>1. BitClock(1, f, field, k) \in Clock
    BY BitTurn
  <1>2. second \in Clock
    BY PlaceType DEF Jtag!Field, Clock
  <1>3. /\ clocks \in Seq(Clock) /\ Len(clocks) = 2
        /\ clocks[1] = BitClock(1, f, field, k) /\ clocks[2] = second
    BY <1>1, <1>2 DEF Leaving
  <1>4. Jtag!Controller!next_state(was.tap, 1) = Jtag!NameOf(exit)
    BY TablesAgree, Transitions DEF Shifts, Jtag!TapStates
  <1>5. Jtag!Controller!next_state(Jtag!NameOf(exit), 0) = Jtag!NameOf(PauseOf(state))
    BY TablesAgree, Transitions DEF Shifts, Jtag!TapStates, PauseOf
  <1>6. Jtag!turn(was, clocks[1]) = after
    <2>1. 1 # Jtag!Hold
      BY DEF Jtag!Hold
    <2>  QED
      BY <1>3, <1>4, <2>1, BitTurn, SMTT(30)
  <1>7. after \in Chain
    <2>1. clocks[1] \in Clock
      BY <1>1, <1>3
    <2>  HIDE DEF clocks, after
    <2>  QED
      BY <1>6, <2>1, TurnType
  <1>8. Jtag!turn(after, second) = end
    <2>1. 0 # Jtag!Hold /\ ~Jtag!shifting(after.tap) /\ after.tap # Jtag!NameOf("IDLE")
      BY DEF Jtag!Hold, Jtag!shifting, Jtag!NameOf
    <2>2. was.idled \in Nat
      BY DEF Chain
    <2>  HIDE DEF shifts, o, exit
    <2>  QED
      BY <1>5, <2>1, <2>2 DEF Jtag!turn
  <1>9. r[0] = was /\ r[1] = after /\ r[2] = end
    OBVIOUS
  <1>  HIDE DEF r, clocks, second, after, end
  <1>10. Follows(r, was, clocks)
    <2>1. \A j \in 1 .. 2 : j = 1 \/ j = 2
      OBVIOUS
    <2>2. 2 - 1 = 1 /\ 1 - 1 = 0
      OBVIOUS
    <2>  QED
      BY <1>3, <1>6, <1>8, <1>9, <2>1, <2>2 DEF Follows
  <1>11. Jtag!run(was, clocks) = end
    BY <1>3, <1>9, <1>10, RunBy, Zenon
  <1>  QED
    BY <1>3, <1>11 DEF clocks, end, LastGoes

-----------------------------------------------------------------------------
(* Fields                                                                    *)

\* What is shifted of a field's bit, and all of it that there may be.
Shown == Jtag!Controller!TapState \X Seq(Nat) \X Seq(Nat)
DataOf(fields, b) == [n \in 1 .. Len(fields) |-> Jtag!mpsse_clock_data(n, fields[n], b[n])]
CarriedOf(state, fields, b) == [n \in 1 .. Len(fields) |-> Carried(state, n, fields[n], b[n])]

\* What the fields clock, and what they carry, has its type.
LEMMA OfType ==
  ASSUME NEW state \in Shifts, NEW fields \in Seq(Jtag!Field), NEW b \in [1 .. Len(fields) -> Nat]
  PROVE  /\ DataOf(fields, b) \in Seq(Seq(Clock)) /\ Len(DataOf(fields, b)) = Len(fields)
         /\ CarriedOf(state, fields, b) \in Seq(Seq(Shown)) /\ Len(CarriedOf(state, fields, b)) = Len(fields)
  <1>1. /\ Len(fields) \in Nat
        /\ \A n \in 1 .. Len(fields) : fields[n] \in Jtag!Field /\ b[n] \in Nat /\ n \in Nat
    OBVIOUS
  <1>2. ASSUME NEW field \in Jtag!Field, NEW f \in Nat, NEW n \in Nat
        PROVE  Jtag!mpsse_clock_data(f, field, n) \in Seq(Clock)
    <2>1. \A k \in 1 .. n : BitClock(Jtag!Hold, f, field, k) \in Clock
      <3> TAKE k \in 1 .. n
      <3>1. Jtag!place(f, k, field.out) \in Seq(Nat) /\ Jtag!place(f, k, field.in) \in Seq(Nat)
        <4>1. field.out \in BOOLEAN /\ field.in \in BOOLEAN /\ k \in Nat
          BY DEF Jtag!Field
        <4>  QED
          BY <4>1, PlaceType, Zenon
      <3>  QED
        BY <3>1 DEF BitClock, Clock
    <2>2. Jtag!mpsse_clock_data(f, field, n) = [k \in 1 .. n |-> BitClock(Jtag!Hold, f, field, k)]
      BY DEF Jtag!mpsse_clock_data, BitClock
    <2>  QED
      BY <2>1, <2>2
  <1>3. \A n \in 1 .. Len(fields) : /\ DataOf(fields, b)[n] \in Seq(Clock)
                                    /\ CarriedOf(state, fields, b)[n] \in Seq(Shown)
    BY <1>1, <1>2, CarriedType, Zenon DEF DataOf, CarriedOf, Shown
  <1>4. DataOf(fields, b) \in Seq(Seq(Clock)) /\ Len(DataOf(fields, b)) = Len(fields)
    BY <1>1, <1>3 DEF DataOf
  <1>5. CarriedOf(state, fields, b) \in Seq(Seq(Shown)) /\ Len(CarriedOf(state, fields, b)) = Len(fields)
    BY <1>1, <1>3 DEF CarriedOf
  <1>  QED
    BY <1>4, <1>5

\* Sequences put together one by one.
LEMMA Associates ==
  \A a, b, c \in Seq(Shown) : (a \o b) \o c = a \o (b \o c)
  BY ConcatAssociative

\* The bits of several fields: h joins what is shifted of them.
FieldsGo(was, state, fields, b, h) ==
  /\ Jtag!FlattenSeq(DataOf(fields, b)) \in Seq(Clock)
  /\ Jtag!run(was, Jtag!FlattenSeq(DataOf(fields, b))) =
       [tap |-> Jtag!NameOf(state), tms |-> 0, shifted |-> was.shifted \o h[Len(fields)],
        idled |-> was.idled]

\* The fields of a scan, one after the other.
LEMMA Fields ==
  ASSUME ~Jtag!held, NEW was \in Chain, NEW state \in Shifts, was.tap = Jtag!NameOf(state),
         was.tms = 0, NEW fields \in Seq(Jtag!Field), NEW b \in [1 .. Len(fields) -> Nat],
         NEW h, Joins(h, CarriedOf(state, fields, b), Shown)
  PROVE  FieldsGo(was, state, fields, b, h)
  <1> DEFINE m == Len(fields)
             D == DataOf(fields, b)
             C == CarriedOf(state, fields, b)
             so_far(k) == [tap |-> was.tap, tms |-> 0, shifted |-> was.shifted \o h[k],
                           idled |-> was.idled]
  <1>1. m \in Nat /\ \A n \in 1 .. m : fields[n] \in Jtag!Field /\ b[n] \in Nat
    OBVIOUS
  <1>2. D \in Seq(Seq(Clock)) /\ Len(D) = m /\ C \in Seq(Seq(Shown)) /\ Len(C) = m
    BY OfType
  <1>3. was.shifted \in Seq(Shown) /\ was.tap \in Jtag!Controller!TapState /\ was.idled \in Nat
    BY DEF Chain, Shown
  <1>r. was = [tap |-> was.tap, tms |-> was.tms, shifted |-> was.shifted, idled |-> was.idled]
    BY DEF Chain, Shown
  <1>4. \A n \in 1 .. m : D[n] = Jtag!mpsse_clock_data(n, fields[n], b[n])
                          /\ C[n] = Carried(state, n, fields[n], b[n])
    BY DEF DataOf, CarriedOf
  <1>  HIDE DEF m, D, C
  <1>5. PICK g : Joins(g, D, Clock)
    BY <1>2, SomeJoins
  <1>6. Jtag!FlattenSeq(D) = g[m]
    BY <1>2, <1>5, FlattenIs
  <1>7. g \in [0 .. m -> Seq(Clock)] /\ h \in [0 .. m -> Seq(Shown)]
    BY <1>2, <1>5 DEF Joins, C
  <1>a. g[0] = << >> /\ h[0] = << >>
    BY <1>5 DEF Joins
  <1>b. \A k \in 1 .. m : g[k] = g[k - 1] \o D[k] /\ h[k] = h[k - 1] \o C[k]
    BY <1>2, <1>5, Zenon DEF Joins, C
  <1>  HIDE DEF so_far
  <1> DEFINE S == {k \in 0 .. m : Jtag!run(was, g[k]) = so_far(k)}
  <1>8. 0 \in S
    <2>1. was.shifted \o << >> = was.shifted
      BY <1>3, ConcatEmptySeq
    <2>2. so_far(0) = was
      BY <1>r, <1>a, <2>1 DEF so_far
    <2>  QED
      BY <1>1, <1>a, <2>2, RunEmpty
  <1>9. ASSUME NEW k \in 0 .. m - 1, k \in S  PROVE k + 1 \in S
    <2> DEFINE here == so_far(k)
    <2>1. k \in 0 .. m /\ k + 1 \in 1 .. m /\ k + 1 \in 0 .. m /\ (k + 1) - 1 = k
      BY <1>1
    <2>2. Jtag!run(was, g[k]) = here
      BY <1>9
    <2>3. /\ g[k] \in Seq(Clock) /\ D[k + 1] \in Seq(Clock) /\ g[k + 1] = g[k] \o D[k + 1]
          /\ h[k] \in Seq(Shown) /\ C[k + 1] \in Seq(Shown) /\ h[k + 1] = h[k] \o C[k + 1]
      <3>1. g[k] \in Seq(Clock) /\ h[k] \in Seq(Shown)
        BY <1>7, <2>1
      <3>2. D[k + 1] \in Seq(Clock) /\ C[k + 1] \in Seq(Shown)
        BY <1>2, <2>1
      <3>3. \A i \in 1 .. m : i - 1 = k => g[i] = g[k] \o D[i] /\ h[i] = h[k] \o C[i]
        BY <1>b, Zenon
      <3>4. g[k + 1] = g[k] \o D[k + 1] /\ h[k + 1] = h[k] \o C[k + 1]
        BY <2>1, <3>3, Zenon
      <3>  QED
        BY <3>1, <3>2, <3>4
    <2>4. here.tap = was.tap /\ here.tms = 0 /\ here.shifted = was.shifted \o h[k]
          /\ here.idled = was.idled
      BY Zenon DEF so_far
    <2>5. was.shifted \o h[k] \in Seq(Shown)
      BY <1>3, <2>3
    <2>6. here \in Chain
      BY <1>3, <2>5 DEF Chain, Shown, so_far
    <2>  HIDE DEF here
    <2>7. Jtag!run(was, g[k + 1]) = Jtag!run(here, D[k + 1])
      BY <2>2, <2>3, RunConcat
    <2>8. Jtag!run(here, D[k + 1]) =
            [tap |-> was.tap, tms |-> 0, shifted |-> (was.shifted \o h[k]) \o C[k + 1],
             idled |-> was.idled]
      <3>1. /\ fields[k + 1] \in Jtag!Field /\ b[k + 1] \in Nat /\ k + 1 \in Nat
            /\ D[k + 1] = Jtag!mpsse_clock_data(k + 1, fields[k + 1], b[k + 1])
            /\ C[k + 1] = Carried(state, k + 1, fields[k + 1], b[k + 1])
        BY <1>1, <1>4, <2>1
      <3>2. here.tap = Jtag!NameOf(state)
        BY <2>4
      <3>3. Jtag!run(here, Jtag!mpsse_clock_data(k + 1, fields[k + 1], b[k + 1])) =
              [tap |-> here.tap, tms |-> 0,
               shifted |-> here.shifted \o Carried(state, k + 1, fields[k + 1], b[k + 1]),
               idled |-> here.idled]
        BY <2>4, <2>6, <3>1, <3>2, Data, Zenon
      <3>  QED
        BY <2>4, <3>1, <3>3
    <2>9. (was.shifted \o h[k]) \o C[k + 1] = was.shifted \o h[k + 1]
      <3>1. was.shifted \in Seq(Shown) /\ h[k] \in Seq(Shown) /\ C[k + 1] \in Seq(Shown)
        BY <1>3, <2>3
      <3>2. (was.shifted \o h[k]) \o C[k + 1] = was.shifted \o (h[k] \o C[k + 1])
        BY <3>1, Associates, Zenon
      <3>3. h[k + 1] = h[k] \o C[k + 1]
        BY <2>3
      <3>  QED
        BY <3>2, <3>3, Zenon
    <2>  QED
      BY <2>1, <2>7, <2>8, <2>9 DEF so_far
  <1>10. 0 .. m \subseteq S
    <2>  HIDE DEF S
    <2>  QED
      BY <1>1, <1>8, <1>9, Induction, Zenon
  <1>11. Jtag!run(was, g[m]) = so_far(m) /\ g[m] \in Seq(Clock)
    <2>1. m \in 0 .. m
      BY <1>1
    <2>  QED
      BY <1>7, <1>10, <2>1
  <1>  QED
    BY <1>6, <1>11 DEF m, D, so_far, FieldsGo

-----------------------------------------------------------------------------
(* All that a scan asks for                                                  *)

\* Joining sequences, those that are empty may be left out.
LEMMA Trimmed ==
  ASSUME NEW given \in Seq(Jtag!Field)
  PROVE  LET fields == Jtag!trimmed(given)
         IN /\ fields \in Seq(Jtag!Field)
            /\ fields # << >> => Len(fields) \in Nat \ {0} /\ fields[Len(fields)].num_bits \in Nat \ {0}
  <1> DEFINE m == Len(given)
             used == {0} \cup {n \in DOMAIN given : given[n].num_bits > 0}
             n == CHOOSE n \in used : \A k \in used : k <= n
             T == {m - k : k \in used}
  <1>1. m \in Nat /\ DOMAIN given = 1 .. m /\ \A k \in 1 .. m : given[k] \in Jtag!Field
    OBVIOUS
  <1>2. 0 \in used /\ \A k \in used : k \in 0 .. m /\ (k # 0 => k \in 1 .. m /\ given[k].num_bits > 0)
    BY <1>1
  <1>3. Jtag!trimmed(given) = SubSeq(given, 1, n)
    BY DEF Jtag!trimmed
  <1>  HIDE DEF m, used
  <1>4. T \subseteq Nat /\ m - 0 \in T
    BY <1>1, <1>2
  <1>5. PICK least \in T : \A t \in T : least <= t
    <2>  HIDE DEF T
    <2>1. T \in SUBSET Nat /\ T # {}
      BY <1>4
    <2>  QED
      BY <2>1, LeastNat
  <1>6. PICK j \in used : least = m - j
    BY <1>5
  <1>7. \A k \in used : k <= j
    <2> TAKE k \in used
    <2>1. m - k \in T
      OBVIOUS
    <2>2. m - j <= m - k
      BY <1>5, <1>6, <2>1
    <2>  QED
      BY <1>1, <1>2, <1>6, <2>2
  <1>8. n \in used
    BY <1>7
  <1>  HIDE DEF n
  <1>9. CASE n = 0
    <2>1. SubSeq(given, 1, 0) = << >>
      BY <1>1
    <2>  QED
      BY <1>3, <1>9, <2>1
  <1>10. CASE n # 0
    <2>1. n \in 1 .. m /\ given[n].num_bits > 0 /\ given[n].num_bits \in Nat
      BY <1>1, <1>2, <1>8, <1>10 DEF Jtag!Field
    <2>2. SubSeq(given, 1, n) \in Seq(Jtag!Field) /\ Len(SubSeq(given, 1, n)) = n
          /\ SubSeq(given, 1, n)[n] = given[n]
      BY <1>1, <2>1 DEF m
    <2>  QED
      BY <1>3, <2>1, <2>2
  <1>  QED
    BY <1>9, <1>10

\* All the bits of each field.
Whole(fields) == [n \in 1 .. Len(fields) |-> fields[n].num_bits]

\* The bits a scan asks for are those of all its fields.
LEMMA Asked ==
  ASSUME NEW ir_scan \in BOOLEAN, NEW state, state = IF ir_scan THEN "IRSHIFT" ELSE "DRSHIFT",
         NEW fields \in Seq(Jtag!Field),
         NEW h, Joins(h, CarriedOf(state, fields, Whole(fields)), Shown)
  PROVE  Jtag!bits_asked(ir_scan, fields) = h[Len(fields)]
  <1>1. state \in Shifts
    BY DEF Shifts
  <1>2. Whole(fields) \in [1 .. Len(fields) -> Nat]
    <2>1. \A n \in 1 .. Len(fields) : fields[n] \in Jtag!Field
      OBVIOUS
    <2>2. \A n \in 1 .. Len(fields) : fields[n].num_bits \in Nat
      BY <2>1 DEF Jtag!Field
    <2>  QED
      BY <2>2 DEF Whole
  <1>3. DOMAIN fields = 1 .. Len(fields)
    OBVIOUS
  <1>4. \A f \in 1 .. Len(fields) :
          Carried(state, f, fields[f], Whole(fields)[f]) =
            [k \in 1 .. (IF fields[f].out \/ fields[f].in THEN fields[f].num_bits ELSE 0) |->
               <<Jtag!NameOf(IF ir_scan THEN "IRSHIFT" ELSE "DRSHIFT"),
                 Jtag!place(f, k, fields[f].out), Jtag!place(f, k, fields[f].in)>>]
    BY DEF Carried, Bit, Whole
  <1>5. Jtag!bits_asked(ir_scan, fields) = Jtag!FlattenSeq(CarriedOf(state, fields, Whole(fields)))
    BY <1>3, <1>4, Zenon DEF Jtag!bits_asked, CarriedOf
  <1>6. /\ CarriedOf(state, fields, Whole(fields)) \in Seq(Seq(Shown))
        /\ Len(CarriedOf(state, fields, Whole(fields))) = Len(fields)
    BY <1>1, <1>2, OfType
  <1>7. Jtag!FlattenSeq(CarriedOf(state, fields, Whole(fields))) =
          h[Len(CarriedOf(state, fields, Whole(fields)))]
    BY <1>6, FlattenIs
  <1>  QED
    BY <1>5, <1>6, <1>7

\* The fields but for the last bit of the last one, which goes out with the move.
ButLast(fields) ==
  [n \in 1 .. Len(fields) |-> IF n = Len(fields) THEN fields[n].num_bits - 1 ELSE fields[n].num_bits]
UpToLast(state, fields, h) ==
  LET m == Len(fields)
  IN [k \in 0 .. m |-> IF k = m THEN h[m - 1] \o Carried(state, m, fields[m], fields[m].num_bits - 1)
                                ELSE h[k]]

\* Appending is joining one more.
LEMMA AppendsAfter ==
  \A a, b \in Seq(Shown) : \A e \in Shown : Append(a \o b, e) = a \o Append(b, e)
  OBVIOUS

\* The bits up to the last one, joined.
LEMMA JoinsUpToLast ==
  ASSUME NEW state \in Shifts, NEW fields \in Seq(Jtag!Field), fields # << >>,
         fields[Len(fields)].num_bits \in Nat \ {0},
         NEW h, Joins(h, CarriedOf(state, fields, Whole(fields)), Shown)
  PROVE  /\ ButLast(fields) \in [1 .. Len(fields) -> Nat]
         /\ Joins(UpToLast(state, fields, h), CarriedOf(state, fields, ButLast(fields)), Shown)
  <1> DEFINE m == Len(fields)
             C == CarriedOf(state, fields, Whole(fields))
             B == CarriedOf(state, fields, ButLast(fields))
             u == UpToLast(state, fields, h)
  <1>1. m \in Nat \ {0} /\ \A k \in 1 .. m : fields[k] \in Jtag!Field /\ fields[k].num_bits \in Nat
    <2>1. \A k \in 1 .. m : fields[k] \in Jtag!Field
      OBVIOUS
    <2>  QED
      BY <2>1 DEF Jtag!Field
  <1>2. Whole(fields) \in [1 .. m -> Nat] /\ ButLast(fields) \in [1 .. m -> Nat]
    BY <1>1 DEF Whole, ButLast
  <1>3. Len(C) = m /\ Len(B) = m /\ B \in Seq(Seq(Shown))
    BY <1>2, OfType
  <1>4. h \in [0 .. m -> Seq(Shown)] /\ h[0] = << >>
    BY <1>3 DEF Joins
  <1>a. \A k \in 1 .. m : h[k] = h[k - 1] \o C[k]
    BY <1>3, Zenon DEF Joins
  <1>5. B[m] = Carried(state, m, fields[m], fields[m].num_bits - 1)
    BY <1>1 DEF CarriedOf, ButLast
  <1>6. \A k \in 1 .. m : k # m => B[k] = C[k]
    BY DEF CarriedOf, ButLast, Whole
  <1>7. B[m] \in Seq(Shown) /\ h[m - 1] \in Seq(Shown)
    <2>1. m \in 1 .. m /\ m - 1 \in 0 .. m
      BY <1>1
    <2>  HIDE DEF m, B
    <2>  QED
      BY <1>3, <1>4, <2>1
  <1>  HIDE DEF B, C
  <1>8. u = [k \in 0 .. m |-> IF k = m THEN h[m - 1] \o B[m] ELSE h[k]]
    BY <1>5 DEF UpToLast
  <1>  HIDE DEF m, u
  <1>9. u \in [0 .. m -> Seq(Shown)]
    <2>1. h[m - 1] \o B[m] \in Seq(Shown)
      BY <1>7
    <2>2. \A k \in 0 .. m : h[k] \in Seq(Shown)
      BY <1>4
    <2>  QED
      BY <1>8, <2>1, <2>2
  <1>10. u[0] = << >>
    <2>1. 0 \in 0 .. m /\ 0 # m /\ h[0] = << >>
      BY <1>1, <1>4
    <2>  QED
      BY <1>8, <2>1
  <1>11. ASSUME NEW k \in 1 .. m  PROVE u[k] = u[k - 1] \o B[k]
    <2>1. k - 1 \in 0 .. m /\ k \in 0 .. m /\ k - 1 # m
      BY <1>1
    <2>2. u[k - 1] = h[k - 1]
      BY <1>8, <2>1
    <2>3. CASE k = m
      BY <1>8, <2>1, <2>2, <2>3, Zenon
    <2>4. CASE k # m
      <3>1. u[k] = h[k] /\ B[k] = C[k]
        BY <1>6, <1>8, <2>1, <2>4
      <3>2. h[k] = h[k - 1] \o C[k]
        BY <1>a, Zenon
      <3>  QED
        BY <2>2, <3>1, <3>2
    <2>  QED
      BY <2>3, <2>4, Zenon
  <1>12. Joins(u, B, Shown)
    BY <1>3, <1>9, <1>10, <1>11 DEF Joins
  <1>  QED
    BY <1>2, <1>12 DEF m, u, B

\* What is shifted up to the last bit and the last bit are all that is asked.
Completes(state, fields, h, q) ==
  LET m == Len(fields)
      field == fields[m]
      before == q \o UpToLast(state, fields, h)[m]
  IN (IF field.out \/ field.in
      THEN Append(before, Bit(state, m, field, field.num_bits)) ELSE before) = q \o h[m]

\* With the last bit, those are all of them.
LEMMA LastCompletes ==
  ASSUME NEW state \in Shifts, NEW fields \in Seq(Jtag!Field), fields # << >>,
         fields[Len(fields)].num_bits \in Nat \ {0},
         NEW h, Joins(h, CarriedOf(state, fields, Whole(fields)), Shown), NEW q \in Seq(Shown)
  PROVE  Completes(state, fields, h, q)
  <1> DEFINE m == Len(fields)
             field == fields[m]
             n == field.num_bits
             C == Carried(state, m, field, n)
             D == Carried(state, m, field, n - 1)
             e == Bit(state, m, field, n)
  <1>1. m \in Nat \ {0} /\ field \in Jtag!Field /\ n \in Nat \ {0} /\ n - 1 \in Nat
    OBVIOUS
  <1>2. Whole(fields) \in [1 .. m -> Nat]
    <2>1. \A k \in 1 .. m : fields[k] \in Jtag!Field
      OBVIOUS
    <2>2. \A k \in 1 .. m : fields[k].num_bits \in Nat
      BY <2>1 DEF Jtag!Field
    <2>  QED
      BY <2>2 DEF Whole
  <1>3. Len(CarriedOf(state, fields, Whole(fields))) = m
    BY <1>2, OfType
  <1>4. CarriedOf(state, fields, Whole(fields))[m] = C
    BY <1>1 DEF CarriedOf, Whole
  <1>5. h[m - 1] \in Seq(Shown) /\ h[m] = h[m - 1] \o C
    <2>1. h \in [0 .. m -> Seq(Shown)]
      BY <1>3 DEF Joins
    <2>2. \A k \in 1 .. m : h[k] = h[k - 1] \o CarriedOf(state, fields, Whole(fields))[k]
      BY <1>3, Zenon DEF Joins
    <2>3. m \in 1 .. m /\ m - 1 \in 0 .. m
      BY <1>1
    <2>  HIDE DEF m, C
    <2>4. h[m - 1] \in Seq(Shown)
      BY <2>1, <2>3
    <2>  QED
      BY <1>4, <2>2, <2>3, <2>4, Zenon
  <1>6. UpToLast(state, fields, h)[m] = h[m - 1] \o D
    <2>1. m \in 0 .. m
      BY <1>1
    <2>  QED
      BY <2>1, Zenon DEF UpToLast
  <1>7. C \in Seq(Shown) /\ D \in Seq(Shown)
    BY <1>1, CarriedType, Zenon DEF Shown
  <1>8. CASE field.out \/ field.in
    <2>1. C = Append(D, e)
      BY <1>1, <1>8, CarriedGrows, Zenon
    <2>2. e \in Shown
      <3>  HIDE DEF C, D, e
      <3>1. C \in Seq(Shown) /\ Len(C) \in 1 .. Len(C) /\ C[Len(C)] = e
        BY <1>7, <2>1
      <3>  QED
        BY <3>1
    <2>  HIDE DEF C, D, e
    <2> DEFINE p == h[m - 1]
    <2>3. p \in Seq(Shown) /\ p \o D \in Seq(Shown)
      BY <1>5, <1>7
    <2>  HIDE DEF p
    <2>4. Append(q \o (p \o D), e) = q \o Append(p \o D, e)
      BY <2>2, <2>3, AppendsAfter, Zenon
    <2>5. Append(p \o D, e) = p \o Append(D, e)
      BY <1>7, <2>2, <2>3, AppendsAfter, Zenon
    <2>6. Append(q \o (p \o D), e) = q \o h[m]
      BY <1>5, <2>1, <2>4, <2>5, Zenon DEF p
    <2>  QED
      BY <1>6, <1>8, <2>6, Zenon DEF p, e, Completes
  <1>9. CASE ~(field.out \/ field.in)
    <2>1. C = << >> /\ D = << >>
      BY <1>9 DEF Carried
    <2>  HIDE DEF C, D
    <2>  QED
      BY <1>5, <1>6, <1>9, <2>1 DEF Completes
  <1>  QED
    BY <1>8, <1>9

\* The clocks of a scan shift what it asks for and leave the shift state if they are to.
LEMMA ScanClocks ==
  ASSUME ~Jtag!held, NEW was \in Chain, NEW ir_scan \in BOOLEAN,
         NEW state, state = IF ir_scan THEN "IRSHIFT" ELSE "DRSHIFT",
         was.tap = Jtag!NameOf(state), was.tms = 0, was.shifted = << >>,
         NEW fields \in Seq(Jtag!Field), fields # << >>,
         fields[Len(fields)].num_bits \in Nat \ {0}, NEW leaving \in BOOLEAN
  PROVE  /\ Jtag!scan_clocks(fields, leaving) \in Seq(Clock)
         /\ Jtag!run(was, Jtag!scan_clocks(fields, leaving)) =
              [tap |-> Jtag!NameOf(IF leaving THEN PauseOf(state) ELSE state), tms |-> 0,
               shifted |-> Jtag!bits_asked(ir_scan, fields), idled |-> was.idled]
  <1> DEFINE m == Len(fields)
             field == fields[m]
             asked == CarriedOf(state, fields, Whole(fields))
  <1>1. state \in Shifts /\ m \in Nat \ {0} /\ field \in Jtag!Field /\ DOMAIN fields = 1 .. m
    BY DEF Shifts
  <1>2. Whole(fields) \in [1 .. m -> Nat]
    <2>1. \A k \in 1 .. m : fields[k] \in Jtag!Field
      OBVIOUS
    <2>2. \A k \in 1 .. m : fields[k].num_bits \in Nat
      BY <2>1 DEF Jtag!Field
    <2>  QED
      BY <2>2 DEF Whole
  <1>3. asked \in Seq(Seq(Shown)) /\ Len(asked) = m
    BY <1>1, <1>2, OfType
  <1>4. PICK h : Joins(h, asked, Shown)
    BY <1>3, SomeJoins
  <1>5. Jtag!bits_asked(ir_scan, fields) = h[m]
    BY <1>4, Asked
  <1>6. h[m] \in Seq(Shown) /\ << >> \o h[m] = h[m]
    <2>1. m \in 0 .. m
      BY <1>1
    <2>2. h[m] \in Seq(Shown)
      BY <1>3, <1>4, <2>1 DEF Joins
    <2>  QED
      BY <2>2, ConcatEmptySeq
  <1>7. CASE ~leaving
    <2>1. Jtag!scan_clocks(fields, leaving) = Jtag!FlattenSeq(DataOf(fields, Whole(fields))) \o << >>
      <3>1. [n \in DOMAIN fields |->
               Jtag!mpsse_clock_data(n, fields[n], IF n = m /\ leaving THEN field.num_bits - 1
                                                   ELSE fields[n].num_bits)] =
              DataOf(fields, Whole(fields))
        BY <1>1, <1>7 DEF DataOf, Whole
      <3>  QED
        BY <1>7, <3>1 DEF Jtag!scan_clocks
    <2>2. /\ Jtag!FlattenSeq(DataOf(fields, Whole(fields))) \in Seq(Clock)
          /\ Jtag!run(was, Jtag!FlattenSeq(DataOf(fields, Whole(fields)))) =
               [tap |-> Jtag!NameOf(state), tms |-> 0, shifted |-> was.shifted \o h[m],
                idled |-> was.idled]
      <3>1. FieldsGo(was, state, fields, Whole(fields), h)
        BY <1>1, <1>2, <1>4, Fields
      <3>  QED
        BY <3>1 DEF FieldsGo
    <2>3. Jtag!FlattenSeq(DataOf(fields, Whole(fields))) \o << >> =
            Jtag!FlattenSeq(DataOf(fields, Whole(fields)))
      BY <2>2, ConcatEmptySeq
    <2>  QED
      BY <1>5, <1>6, <1>7, <2>1, <2>2, <2>3
  <1>8. CASE leaving
    <2> DEFINE data == Jtag!FlattenSeq(DataOf(fields, ButLast(fields)))
               exit == Leaving(m, field, field.num_bits)
               u == UpToLast(state, fields, h)
               mid == [tap |-> Jtag!NameOf(state), tms |-> 0, shifted |-> was.shifted \o u[m],
                       idled |-> was.idled]
    <2>1. Jtag!scan_clocks(fields, leaving) = data \o exit
      <3>1. [n \in DOMAIN fields |->
               Jtag!mpsse_clock_data(n, fields[n], IF n = m /\ leaving THEN field.num_bits - 1
                                                   ELSE fields[n].num_bits)] =
              DataOf(fields, ButLast(fields))
        BY <1>1, <1>8 DEF DataOf, ButLast
      <3>  QED
        BY <1>8, <3>1, Zenon DEF Jtag!scan_clocks, Leaving, BitClock
    <2>2. ButLast(fields) \in [1 .. m -> Nat] /\ Joins(u, CarriedOf(state, fields, ButLast(fields)), Shown)
      BY <1>1, <1>4, JoinsUpToLast
    <2>3. data \in Seq(Clock) /\ Jtag!run(was, data) = mid
      <3>1. FieldsGo(was, state, fields, ButLast(fields), u)
        BY <1>1, <2>2, Fields
      <3>  QED
        BY <3>1 DEF FieldsGo
    <2>4. mid \in Chain
      BY <2>3, RunType
    <2>5. mid.tap = Jtag!NameOf(state) /\ mid.shifted = << >> \o u[m] /\ mid.idled = was.idled
      OBVIOUS
    <2>  HIDE DEF data, exit, u, mid
    <2>a. m \in Nat /\ field.num_bits \in Nat
      BY <1>1
    <2>6. /\ exit \in Seq(Clock)
          /\ Jtag!run(mid, exit) =
               [tap |-> Jtag!NameOf(PauseOf(state)), tms |-> 0,
                shifted |-> IF field.out \/ field.in
                            THEN Append(mid.shifted, Bit(state, m, field, field.num_bits)) ELSE mid.shifted,
                idled |-> mid.idled]
      <3>1. LastGoes(mid, state, m, field, field.num_bits)
        BY <1>1, <2>4, <2>5, <2>a, LastBit
      <3>  QED
        BY <3>1 DEF LastGoes, exit
    <2>7. (IF field.out \/ field.in
           THEN Append(mid.shifted, Bit(state, m, field, field.num_bits)) ELSE mid.shifted) = << >> \o h[m]
      <3>1. << >> \in Seq(Shown)
        OBVIOUS
      <3>2. Completes(state, fields, h, << >>)
        BY <1>1, <1>4, <3>1, LastCompletes, Zenon
      <3>  QED
        BY <2>5, <3>2 DEF Completes, u
    <2>8. data \o exit \in Seq(Clock) /\ Jtag!run(was, data \o exit) = Jtag!run(mid, exit)
      BY <2>3, <2>6, RunConcat
    <2>  QED
      BY <1>5, <1>6, <1>8, <2>1, <2>5, <2>6, <2>7, <2>8, Zenon
  <1>  QED
    BY <1>7, <1>8

-----------------------------------------------------------------------------
(* The clocks of each command, wherever the chain is                         *)

\* Those of a move.
LEMMA MoveClocks ==
  ASSUME NEW start \in Jtag!Stable, NEW goal \in Jtag!Stable
  PROVE  /\ Jtag!move_to_state(start, goal) \in Seq(Clock)
         /\ Jtag!move_if_needed(start, goal) \in Seq(Clock)
  <1>1. ShortPath(start, goal) \in Seq({0, 1})
    BY PathsLead DEF Leads
  <1>2. Jtag!move_to_state(start, goal) \in Seq(Clock)
    BY <1>1, ClocksOf DEF Jtag!move_to_state, ShortPath
  <1>3. << >> \in Seq(Clock)
    OBVIOUS
  <1>  QED
    BY <1>2, <1>3 DEF Jtag!move_if_needed

\* Those with one level of TMS.
LEMMA SteadyClocks ==
  ASSUME NEW n \in Nat, NEW level \in {0, 1}
  PROVE  Jtag!steady(n, level) \in Seq(Clock)
  <1>1. [k \in 1 .. n |-> level] \in Seq({0, 1})
    OBVIOUS
  <1>  QED
    BY <1>1, ClocksOf DEF Jtag!steady

\* Those of a scan.
LEMMA ScanClocksType ==
  ASSUME NEW fields \in Seq(Jtag!Field), fields # << >>,
         fields[Len(fields)].num_bits \in Nat \ {0}, NEW leaving \in BOOLEAN
  PROVE  Jtag!scan_clocks(fields, leaving) \in Seq(Clock)
  <1> DEFINE m == Len(fields)
             field == fields[m]
             bits == [n \in 1 .. m |-> IF n = m /\ leaving THEN field.num_bits - 1 ELSE fields[n].num_bits]
             D == DataOf(fields, bits)
             o == Jtag!place(m, field.num_bits, field.out)
             i == Jtag!place(m, field.num_bits, field.in)
  <1>1. m \in Nat \ {0} /\ field \in Jtag!Field /\ DOMAIN fields = 1 .. m
    OBVIOUS
  <1>2. bits \in [1 .. m -> Nat]
    <2>1. \A k \in 1 .. m : fields[k] \in Jtag!Field
      OBVIOUS
    <2>2. \A k \in 1 .. m : fields[k].num_bits \in Nat
      BY <2>1 DEF Jtag!Field
    <2>  QED
      BY <2>2
  <1>  HIDE DEF bits
  <1>3. D \in Seq(Seq(Clock)) /\ Len(D) = m
    <2>1. "DRSHIFT" \in Shifts
      BY DEF Shifts
    <2>  QED
      BY <1>2, <2>1, OfType
  <1>4. Jtag!FlattenSeq(D) \in Seq(Clock)
    <2>  HIDE DEF D
    <2>1. PICK g : Joins(g, D, Clock)
      BY <1>3, SomeJoins
    <2>2. g \in [0 .. m -> Seq(Clock)] /\ m \in 0 .. m
      BY <1>1, <1>3, <2>1 DEF Joins
    <2>3. Jtag!FlattenSeq(D) = g[m]
      BY <1>3, <2>1, FlattenIs
    <2>  QED
      BY <2>2, <2>3
  <1>5. o \in Seq(Nat) /\ i \in Seq(Nat)
    <2>1. field.out \in BOOLEAN /\ field.in \in BOOLEAN /\ m \in Nat /\ field.num_bits \in Nat
      BY <1>1 DEF Jtag!Field
    <2>  QED
      BY <2>1, PlaceType, Zenon
  <1>  HIDE DEF o, i
  <1> DEFINE exit == IF leaving
                     THEN <<[tms |-> 1, tdi |-> o, to |-> i], [tms |-> 0, tdi |-> o, to |-> << >>]>>
                     ELSE << >>
  <1>6. exit \in Seq(Clock)
    <2>1. [tms |-> 1, tdi |-> o, to |-> i] \in Clock /\ [tms |-> 0, tdi |-> o, to |-> << >>] \in Clock
      BY <1>5 DEF Clock
    <2>  QED
      BY <2>1
  <1>7. [n \in DOMAIN fields |->
           Jtag!mpsse_clock_data(n, fields[n], IF n = m /\ leaving THEN field.num_bits - 1
                                               ELSE fields[n].num_bits)] = D
    BY <1>1 DEF DataOf, bits
  <1>8. Jtag!scan_clocks(fields, leaving) = Jtag!FlattenSeq(D) \o exit
    BY <1>7, Zenon DEF Jtag!scan_clocks, o, i
  <1>  HIDE DEF D, exit
  <1>  QED
    BY <1>4, <1>6, <1>8

\* Clocks after clocks are clocks.
LEMMA Concat ==
  ASSUME NEW a \in Seq(Clock), NEW b \in Seq(Clock)  PROVE  a \o b \in Seq(Clock)
  OBVIOUS

\* The two tables have the same states.
LEMMA StatesHaveNames ==
  \A state \in Jtag!Controller!TapState : \E name \in Jtag!TapStates : state = Jtag!NameOf(name)
  BY DEF Jtag!TapStates, Jtag!NameOf, Jtag!Controller!TapState, Jtag!Controller!jtag_tap_next_state

-----------------------------------------------------------------------------
(* The invariant                                                             *)

\* The pins of TMS keep their level when a signal of their byte is set.
BoardsKeepTms ==
  \A b \in Boards : b.tms = 1 => b.led # "low" /\ b.trst # "low" /\ b.srst # "low"

InStep ==
  /\ tap = Jtag!NameOf(state_follower) /\ (state_follower # "RESET" => tms = 0)
  /\ trst_pin = (trst = "0") /\ (board.srst_pulls_trst => srst_pin = (srst = "0"))
  /\ Jtag!held_by_driver => state_follower = "RESET"
JtagInv ==
  /\ Jtag!TypeOK /\ state_follower \in Jtag!Stable
  /\ ~lost => InStep
  /\ Jtag!ScanIsExact /\ Jtag!RuntestCycles

Now == [tap |-> tap, tms |-> tms, shifted |-> << >>, idled |-> 0]

\* A command finds the chain where the driver believes it to be, or at a place that was lost.
LEMMA ReadyIs ==
  ASSUME JtagInv, Jtag!ready
  PROVE  /\ Now \in Chain /\ (~lost => ~Jtag!held /\ InStep)
         /\ ~Jtag!held => /\ trst_pin = (trst = "0")
                          /\ board.srst_pulls_trst => srst_pin = (srst = "0")
  <1>1. tap \in Jtag!Controller!TapState /\ tms \in {0, 1} /\ trst_pin \in BOOLEAN /\ srst_pin \in BOOLEAN
    BY DEF JtagInv, Jtag!TypeOK
  <1>2. Now \in Chain
    BY <1>1 DEF Now, Chain
  <1>3. ~lost => InStep
    BY DEF JtagInv
  <1>4. ~lost => ~Jtag!held
    BY <1>1, <1>3, Zenon DEF InStep, Jtag!ready, Jtag!held, Jtag!held_by_driver, Jtag!pulled
  <1>5. ~Jtag!held => /\ trst_pin = (trst = "0")
                      /\ board.srst_pulls_trst => srst_pin = (srst = "0")
    BY <1>1 DEF Jtag!ready, Jtag!held, Jtag!held_by_driver, Jtag!pulled
  <1>  QED
    BY <1>2, <1>3, <1>4, <1>5

\* A command of a kind, with its cycles and the bits it asks for.
Deed(what, k, c, a) ==
  /\ DOMAIN what = {"kind", "from", "cycles", "idled", "asked", "shifted"}
  /\ what.kind = k /\ what.cycles = c /\ what.asked = a
Arrives(clocks, goal) ==
  LET end == Jtag!run(Now, clocks)
  IN end.tap = Jtag!NameOf(goal) /\ (goal # "RESET" => end.tms = 0)
Exact(clocks, k, c, a) ==
  LET end == Jtag!run(Now, clocks)
  IN /\ k = "scan" => end.shifted = a
     /\ k = "runtest" /\ state_follower # "RESET" => end.idled = c

\* A command that clocks where it is to and does what it is to.
LEMMA Driven ==
  ASSUME JtagInv, Jtag!ready, NEW clocks \in Seq(Clock), NEW goal \in Jtag!Stable,
         NEW what, NEW k, NEW c, NEW a, Deed(what, k, c, a), Jtag!drive(clocks, goal, what),
         end_state_follower' \in Jtag!Stable, lost' \in BOOLEAN,
         ~lost' => ~Jtag!held /\ Arrives(clocks, goal),
         ~lost => Exact(clocks, k, c, a)
  PROVE  JtagInv'
  <1> DEFINE end == Jtag!run(Now, clocks)
  <1>1. Now \in Chain
    BY ReadyIs
  <1>2. end \in Chain
    BY <1>1, RunType
  <1>3. /\ tap' = end.tap /\ tms' = end.tms /\ state_follower' = goal
        /\ board' = board /\ running' = running /\ retval' = retval
        /\ led' = led /\ trst' = trst /\ srst' = srst /\ trst_pin' = trst_pin /\ srst_pin' = srst_pin
        /\ lost => did' = Jtag!Nothing
        /\ ~lost => /\ did'.kind = k /\ did'.from = state_follower /\ did'.cycles = c
                    /\ did'.idled = end.idled /\ did'.asked = a /\ did'.shifted = end.shifted
    <2>1. \A x, y, z : LET d == [what EXCEPT !.from = x, !.shifted = y, !.idled = z]
                       IN /\ d.kind = k /\ d.from = x /\ d.cycles = c
                          /\ d.idled = z /\ d.asked = a /\ d.shifted = y
      BY DEF Deed
    <2>2. Jtag!clocked(clocks) = end
      BY DEF Jtag!clocked, Now
    <2>  HIDE DEF end
    <2>  QED
      BY <2>1, <2>2 DEF Jtag!drive, Jtag!cable
  <1>4. Jtag!TypeOK'
    <2>1. goal \in Jtag!TapStates
      BY DEF Jtag!Stable
    <2>2. end.tap \in Jtag!Controller!TapState /\ end.tms \in {0, 1}
      BY <1>2 DEF Chain
    <2>  HIDE DEF end
    <2>  QED
      BY <1>3, <2>1, <2>2 DEF JtagInv, Jtag!TypeOK
  <1>5. ~lost' => InStep'
    <2> SUFFICES ASSUME ~lost'  PROVE InStep'
      OBVIOUS
    <2>1. ~Jtag!held /\ Arrives(clocks, goal)
      OBVIOUS
    <2>2. trst_pin = (trst = "0") /\ (board.srst_pulls_trst => srst_pin = (srst = "0"))
      BY <2>1, ReadyIs
    <2>3. ~Jtag!held_by_driver
      BY DEF Jtag!ready
    <2>4. end.tap = Jtag!NameOf(goal) /\ (goal # "RESET" => end.tms = 0)
      BY <2>1 DEF Arrives
    <2>  HIDE DEF end
    <2>  QED
      BY <1>3, <2>2, <2>3, <2>4 DEF InStep, Jtag!held_by_driver, Jtag!pulled
  <1>6. Jtag!ScanIsExact' /\ Jtag!RuntestCycles'
    <2>1. CASE lost
      <3>1. did'.kind = "none"
        BY <1>3, <2>1 DEF Jtag!Nothing
      <3>  QED
        BY <3>1 DEF Jtag!ScanIsExact, Jtag!RuntestCycles
    <2>2. CASE ~lost
      <3>1. /\ k = "scan" => end.shifted = a
            /\ k = "runtest" /\ state_follower # "RESET" => end.idled = c
        BY <2>2 DEF Exact
      <3>2. /\ did'.kind = k /\ did'.from = state_follower /\ did'.cycles = c /\ did'.idled = end.idled
            /\ did'.asked = a /\ did'.shifted = end.shifted
        BY <1>3, <2>2
      <3>  HIDE DEF end
      <3>  QED
        BY <3>1, <3>2 DEF Jtag!ScanIsExact, Jtag!RuntestCycles
    <2>  QED
      BY <2>1, <2>2
  <1>  QED
    BY <1>3, <1>4, <1>5, <1>6 DEF JtagInv

-----------------------------------------------------------------------------
(* Every command keeps the invariant                                         *)

\* ftdi_execute_runtest (ftdi.c:352-389).
LEMMA RuntestKeeps ==
  ASSUME JtagInv, NEW n \in Nat, NEW end_state \in Jtag!Stable,
         Jtag!ftdi_execute_runtest(n, end_state)
  PROVE  JtagInv'
  <1> DEFINE there == Jtag!move_if_needed(state_follower, "IDLE")
             cycles == Jtag!steady(n, 0)
             back == Jtag!move_if_needed("IDLE", end_state)
             clocks == (there \o cycles) \o back
  <1>1. Jtag!ready /\ end_state_follower' = end_state /\ lost' = lost
    BY DEF Jtag!ftdi_execute_runtest
  <1>2. state_follower \in Jtag!Stable /\ "IDLE" \in Jtag!Stable /\ "IDLE" \in Jtag!TapStates
    BY Places DEF JtagInv, Jtag!TapStates
  <1>3. there \in Seq(Clock) /\ cycles \in Seq(Clock) /\ back \in Seq(Clock)
    BY <1>2, MoveClocks, SteadyClocks
  <1> DEFINE what == [Jtag!Nothing EXCEPT !.kind = "runtest", !.cycles = n]
  <1>3a. Deed(what, "runtest", n, << >>)
    BY DEF Jtag!Nothing, Deed
  <1>4. Jtag!drive(clocks, end_state, what)
    BY DEF Jtag!ftdi_execute_runtest
  <1>  HIDE DEF there, cycles, back, what
  <1>5. there \o cycles \in Seq(Clock) /\ clocks \in Seq(Clock)
    BY <1>3, Concat
  <1>6. ASSUME ~lost
        PROVE  ~Jtag!held /\ Arrives(clocks, end_state) /\ Exact(clocks, "runtest", n, << >>)
    <2> DEFINE idle == Jtag!run(Now, there)
               spent == Jtag!run(idle, cycles)
               end == Jtag!run(spent, back)
    <2>1. Now \in Chain /\ ~Jtag!held /\ InStep
      BY <1>1, <1>6, ReadyIs
    <2>2. Now.tap = Jtag!NameOf(state_follower) /\ (state_follower # "RESET" => Now.tms = 0)
          /\ Now.idled = 0
      BY <2>1 DEF Now, InStep
    <2>3. /\ idle \in Chain /\ idle.tap = Jtag!NameOf("IDLE") /\ idle.tms = 0
          /\ state_follower # "RESET" => idle.idled = 0
      BY <1>2, <2>1, <2>2, MoveIfNeeded DEF there
    <2>4. Jtag!tap_state_transition("IDLE", 0) = "IDLE"
      BY Transitions
    <2>5. spent = [tap |-> idle.tap, tms |-> IF n = 0 THEN idle.tms ELSE 0, shifted |-> idle.shifted,
                   idled |-> idle.idled + n]
      <3>  HIDE DEF idle
      <3>  QED
        BY <1>2, <2>1, <2>3, <2>4, Steady DEF cycles
    <2>6. spent \in Chain
      BY <1>3, <2>3, RunType
    <2>7. spent.tap = Jtag!NameOf("IDLE") /\ spent.tms = 0 /\ spent.idled = idle.idled + n
      <3>  HIDE DEF idle
      <3>  QED
        BY <2>3, <2>5
    <2>  HIDE DEF idle, spent
    <2>8. /\ end.tap = Jtag!NameOf(end_state) /\ (end_state # "RESET" => end.tms = 0)
          /\ end.idled = spent.idled
      <3>1. "IDLE" # "RESET"
        OBVIOUS
      <3>  QED
        BY <1>2, <2>1, <2>6, <2>7, <3>1, MoveIfNeeded DEF back
    <2>9. Jtag!run(Now, clocks) = end
      <3>1. Jtag!run(Now, clocks) = Jtag!run(Jtag!run(Now, there \o cycles), back)
        BY <1>3, <1>5, <2>1, RunConcat, Zenon
      <3>2. Jtag!run(Now, there \o cycles) = spent
        BY <1>3, <2>1, RunConcat DEF spent, idle
      <3>  QED
        BY <3>1, <3>2
    <2>  HIDE DEF end
    <2>10. Arrives(clocks, end_state)
      BY <2>8, <2>9 DEF Arrives
    <2>11. Exact(clocks, "runtest", n, << >>)
      BY <2>3, <2>7, <2>8, <2>9 DEF Exact
    <2>  QED
      BY <2>1, <2>10, <2>11
  <1>7. lost \in BOOLEAN
    BY DEF JtagInv, Jtag!TypeOK
  <1>  HIDE DEF clocks
  <1>  QED
    BY <1>1, <1>3a, <1>4, <1>5, <1>6, <1>7, Driven

\* ftdi_execute_statemove (ftdi.c:391-406).
LEMMA StatemoveKeeps ==
  ASSUME JtagInv, NEW goal \in Jtag!Stable, Jtag!ftdi_execute_statemove(goal)
  PROVE  JtagInv'
  <1> DEFINE clocks == Jtag!statemove_clocks(goal)
  <1>1. /\ Jtag!ready /\ end_state_follower' = goal
        /\ lost' = ((lost /\ goal # "RESET") \/ Jtag!held)
    BY DEF Jtag!ftdi_execute_statemove
  <1>2. state_follower \in Jtag!Stable /\ state_follower \in Jtag!TapStates
    BY DEF JtagInv, Jtag!Stable
  <1>3. /\ clocks = IF state_follower # goal \/ goal = "RESET"
                    THEN Jtag!move_to_state(state_follower, goal) ELSE << >>
        /\ clocks \in Seq(Clock)
    <2>1. << >> \in Seq(Clock)
      OBVIOUS
    <2>  QED
      BY <1>2, <2>1, MoveClocks DEF Jtag!statemove_clocks
  <1> DEFINE what == [Jtag!Nothing EXCEPT !.kind = "move"]
  <1>3a. Deed(what, "move", 0, << >>)
    BY DEF Jtag!Nothing, Deed
  <1>4. Jtag!drive(clocks, goal, what)
    BY DEF Jtag!ftdi_execute_statemove
  <1>  HIDE DEF clocks, what
  <1>5. Exact(clocks, "move", 0, << >>)
    BY DEF Exact
  <1>6. ASSUME ~lost'  PROVE ~Jtag!held /\ Arrives(clocks, goal)
    <2>1. ~Jtag!held /\ (~lost \/ goal = "RESET") /\ Now \in Chain
      BY <1>1, <1>6, ReadyIs, Zenon
    <2>2. CASE ~lost
      <3>1. Now.tap = Jtag!NameOf(state_follower) /\ (state_follower # "RESET" => Now.tms = 0)
        BY <1>1, <2>2, ReadyIs DEF Now, InStep
      <3>2. CASE clocks = Jtag!move_to_state(state_follower, goal)
        BY <1>2, <2>1, <3>1, <3>2, MoveTo DEF Arrives
      <3>3. CASE clocks # Jtag!move_to_state(state_follower, goal)
        <4>1. clocks = << >> /\ state_follower = goal /\ goal # "RESET"
          BY <1>3, <3>3
        <4>2. Jtag!run(Now, << >>) = Now
          BY <2>1, RunEmpty
        <4>  QED
          BY <2>1, <3>1, <4>1, <4>2 DEF Arrives
      <3>  QED
        BY <3>2, <3>3
    <2>3. CASE lost
      <3>1. goal = "RESET" /\ clocks = Jtag!move_to_state(state_follower, "RESET")
        BY <1>3, <2>1, <2>3
      <3> DEFINE ones == <<1, 1, 1, 1, 1, 1, 1>>
      <3>2. Jtag!move_to_state(state_follower, "RESET") = Jtag!clocks_of(ones)
        BY <1>2, SevenOnes DEF Jtag!move_to_state, ShortPath
      <3>3. ones \in Seq({0, 1}) /\ Len(ones) = 7
        OBVIOUS
      <3>4. PICK start \in Jtag!TapStates : tap = Jtag!NameOf(start)
        <4>1. tap \in Jtag!Controller!TapState
          BY DEF JtagInv, Jtag!TypeOK
        <4>  QED
          BY <4>1, StatesHaveNames
      <3> DEFINE w == Jtag!walk(start, ones)
      <3>5. Walks(w, start, ones)
        BY <3>3, WalkIs, Zenon DEF Walks
      <3>  HIDE DEF w
      <3>6. w[7] = "RESET"
        BY <1>2, <3>5, SevenOnes
      <3>  HIDE DEF ones
      <3>7. Jtag!run(Now, Jtag!clocks_of(ones)).tap = Jtag!NameOf("RESET")
        <4>1. Now.tap = Jtag!NameOf(start)
          BY <3>4 DEF Now
        <4>2. Jtag!run(Now, Jtag!clocks_of(ones)).tap = Jtag!NameOf(Jtag!walk(start, ones)[Len(ones)])
          BY <2>1, <3>3, <4>1, Move, Zenon
        <4>  QED
          BY <3>3, <3>6, <4>2 DEF w
      <3>  QED
        BY <2>1, <3>1, <3>2, <3>7 DEF Arrives
    <2>  QED
      BY <2>2, <2>3 DEF JtagInv, Jtag!TypeOK
  <1>7. lost' \in BOOLEAN
    BY <1>1 DEF JtagInv, Jtag!TypeOK
  <1>  QED
    BY <1>1, <1>3, <1>3a, <1>4, <1>5, <1>6, <1>7, Driven, Zenon

\* ftdi_execute_stableclocks (ftdi.c:606-626).
LEMMA StableclocksKeeps ==
  ASSUME JtagInv, NEW n \in Nat, Jtag!ftdi_execute_stableclocks(n)
  PROVE  JtagInv'
  <1> DEFINE level == IF state_follower = "RESET" THEN 1 ELSE 0
             clocks == Jtag!steady(n, level)
  <1>1. Jtag!ready /\ end_state_follower' = end_state_follower /\ lost' = lost
    BY DEF Jtag!ftdi_execute_stableclocks
  <1>2. /\ state_follower \in Jtag!Stable /\ state_follower \in Jtag!TapStates
        /\ end_state_follower \in Jtag!Stable /\ lost \in BOOLEAN
    BY DEF JtagInv, Jtag!TypeOK
  <1>3. level \in {0, 1} /\ Jtag!tap_state_transition(state_follower, level) = state_follower
    BY <1>2, Places, Transitions
  <1>4. clocks \in Seq(Clock)
    BY <1>3, SteadyClocks, Zenon
  <1> DEFINE what == [Jtag!Nothing EXCEPT !.kind = "move"]
  <1>4a. Deed(what, "move", 0, << >>)
    BY DEF Jtag!Nothing, Deed
  <1>5. Jtag!drive(clocks, state_follower, what)
    BY DEF Jtag!ftdi_execute_stableclocks
  <1>6. Exact(clocks, "move", 0, << >>)
    BY DEF Exact
  <1>7. ASSUME ~lost  PROVE ~Jtag!held /\ Arrives(clocks, state_follower)
    <2>1. Now \in Chain /\ ~Jtag!held /\ InStep
      BY <1>1, <1>7, ReadyIs
    <2>2. Now.tap = Jtag!NameOf(state_follower) /\ (state_follower # "RESET" => Now.tms = 0)
      BY <2>1 DEF Now, InStep
    <2>3. state_follower # "RESET" => level = 0
      OBVIOUS
    <2>  HIDE DEF level
    <2>4. Jtag!run(Now, clocks) =
            [tap |-> Now.tap, tms |-> IF n = 0 THEN Now.tms ELSE level, shifted |-> Now.shifted,
             idled |-> Now.idled + IF state_follower = "IDLE" /\ level = 0 THEN n ELSE 0]
      BY <1>2, <1>3, <2>1, <2>2, Steady
    <2>5. Jtag!run(Now, clocks).tap = Now.tap
          /\ Jtag!run(Now, clocks).tms = IF n = 0 THEN Now.tms ELSE level
      BY <2>4
    <2>  HIDE DEF clocks
    <2>  QED
      BY <2>1, <2>2, <2>3, <2>5 DEF Arrives
  <1>  HIDE DEF clocks, what
  <1>  QED
    BY <1>1, <1>2, <1>4, <1>4a, <1>5, <1>6, <1>7, Driven

\* There is one walk along a path.
LEMMA OneWalk ==
  ASSUME NEW start, NEW path \in Seq({0, 1}), NEW w, NEW q,
         Walks(w, start, path), Walks(q, start, path)
  PROVE  \A k \in 0 .. Len(path) : w[k] = q[k]
  <1> DEFINE n == Len(path)
             S == {k \in 0 .. n : w[k] = q[k]}
  <1>1. n \in Nat
    OBVIOUS
  <1>  HIDE DEF n
  <1>2. 0 \in S
    BY <1>1 DEF Walks
  <1>3. ASSUME NEW k \in 0 .. n - 1, k \in S  PROVE k + 1 \in S
    <2>1. k + 1 \in 1 .. n /\ k + 1 \in 0 .. n /\ (k + 1) - 1 = k
      BY <1>1
    <2>  QED
      BY <1>3, <2>1 DEF n, Walks
  <1>  HIDE DEF S
  <1>4. 0 .. n \subseteq S
    BY <1>1, <1>2, <1>3, Induction
  <1>  QED
    BY <1>4 DEF S, n

\* The states that bits lead through, as a path is given.
PathOf(bits) == Tail([k \in 1 .. Len(bits) + 1 |-> Jtag!walk(state_follower, bits)[k - 1]])

\* The path of bits that are not none ends in a state.
LEMMA PathIs ==
  ASSUME state_follower \in Jtag!TapStates, NEW bits \in Seq({0, 1}), bits # << >>
  PROVE  LET w == Jtag!walk(state_follower, bits)
             path == PathOf(bits)
         IN /\ Len(path) = Len(bits) /\ DOMAIN path = 1 .. Len(bits)
            /\ \A k \in 1 .. Len(bits) : path[k] = w[k]
            /\ path[Len(path)] = w[Len(bits)]
  <1> DEFINE n == Len(bits)
             w == Jtag!walk(state_follower, bits)
             q == [k \in 1 .. n + 1 |-> w[k - 1]]
             path == PathOf(bits)
  <1>1. n \in Nat \ {0} /\ w \in [0 .. n -> Jtag!TapStates]
    BY WalkIs
  <1>2. path = Tail(q)
    BY DEF PathOf
  <1>  HIDE DEF n, w, path
  <1>3. q \in Seq(Jtag!TapStates) /\ Len(q) = n + 1
    <2>1. \A k \in 1 .. n + 1 : w[k - 1] \in Jtag!TapStates
      BY <1>1
    <2>  QED
      BY <1>1, <2>1
  <1>4. \A k \in 1 .. n : q[k + 1] = w[k]
    BY <1>1
  <1>  HIDE DEF q
  <1>5. Len(Tail(q)) = n /\ DOMAIN Tail(q) = 1 .. n /\ \A k \in 1 .. n : Tail(q)[k] = q[k + 1]
    BY <1>1, <1>3
  <1>6. n \in 1 .. n
    BY <1>1
  <1>  QED
    BY <1>2, <1>4, <1>5, <1>6 DEF n, w, path

\* The bits that are found again lead through the same states.
LEMMA SameBits ==
  ASSUME state_follower \in Jtag!TapStates, NEW bits \in Seq({0, 1}), bits # << >>,
         PathOf(bits)[Len(PathOf(bits))] \in Jtag!Stable
  PROVE  LET path == PathOf(bits)
             found == Jtag!path_bits(state_follower, path)
         IN /\ found \in Seq({0, 1}) /\ Len(found) = Len(bits)
            /\ Jtag!walk(state_follower, found)[Len(found)] = path[Len(path)]
            /\ path[Len(path)] # "RESET" => found[Len(found)] = 0
  <1> DEFINE n == Len(bits)
             w == Jtag!walk(state_follower, bits)
             path == PathOf(bits)
             found == Jtag!path_bits(state_follower, path)
             go(state, b) == Jtag!tap_state_transition(state, b)
  <1>1. n \in Nat \ {0} /\ \A k \in 1 .. n : bits[k] \in {0, 1}
    OBVIOUS
  <1>2. /\ w \in [0 .. n -> Jtag!TapStates] /\ w[0] = state_follower
        /\ \A k \in 1 .. n : w[k] = go(w[k - 1], bits[k])
    BY WalkIs
  <1>3. /\ Len(path) = n /\ DOMAIN path = 1 .. n
        /\ \A k \in 1 .. n : path[k] = w[k]
        /\ path[Len(path)] = w[n]
    BY PathIs
  <1>4. found = [k \in 1 .. n |->
                  IF go(IF k = 1 THEN state_follower ELSE path[k - 1], 0) = path[k] THEN 0 ELSE 1]
    BY <1>3 DEF Jtag!path_bits
  <1>  HIDE DEF n, w, path, go
  <1>5. \A k \in 1 .. n : found[k] = IF go(w[k - 1], 0) = w[k] THEN 0 ELSE 1
    <2> TAKE k \in 1 .. n
    <2>1. (IF k = 1 THEN state_follower ELSE path[k - 1]) = w[k - 1]
      <3>1. CASE k = 1
        <4>1. k - 1 = 0
          BY <3>1
        <4>  QED
          BY <1>2, <3>1, <4>1
      <3>2. CASE k # 1
        <4>1. k - 1 \in 1 .. n
          BY <1>1, <3>2
        <4>  QED
          BY <1>3, <3>2, <4>1
      <3>  QED
        BY <3>1, <3>2
    <2>2. path[k] = w[k]
      BY <1>3
    <2>  QED
      BY <1>4, <2>1, <2>2
  <1>6. found \in Seq({0, 1}) /\ Len(found) = n
    BY <1>1, <1>4
  <1>  HIDE DEF found
  <1>7. \A k \in 1 .. n : w[k] = go(w[k - 1], found[k])
    BY <1>1, <1>2, <1>5, Zenon
  <1>8. Walks(w, state_follower, found)
    BY <1>2, <1>6, <1>7 DEF Walks, go
  <1>9. Walks(Jtag!walk(state_follower, found), state_follower, found)
    BY <1>6, WalkIs, Zenon DEF Walks
  <1>10. Jtag!walk(state_follower, found)[n] = w[n]
    <2>1. n \in 0 .. Len(found)
      BY <1>1, <1>6
    <2>  QED
      BY <1>6, <1>8, <1>9, <2>1, OneWalk
  <1>11. w[n] # "RESET" => found[n] = 0
    <2> SUFFICES ASSUME found[n] # 0  PROVE w[n] = "RESET"
      OBVIOUS
    <2>1. n \in 1 .. n /\ n - 1 \in 0 .. n
      BY <1>1
    <2>2. found[n] = 1 /\ w[n] = go(w[n - 1], 1)
      <3>1. found[n] = 1
        BY <1>5, <2>1
      <3>  QED
        BY <1>7, <2>1, <3>1
    <2>3. w[n - 1] \in Jtag!TapStates
      BY <1>2, <2>1
    <2>4. w[n] \in Jtag!Stable
      BY <1>3 DEF path
    <2>  QED
      BY <2>2, <2>3, <2>4, Places, Transitions DEF go, Jtag!TapStates
  <1>  QED
    BY <1>3, <1>6, <1>10, <1>11 DEF n, path, found

\* ftdi_execute_pathmove (ftdi.c:429-456).
LEMMA PathmoveKeeps ==
  ASSUME JtagInv, NEW bits \in Seq({0, 1}), bits # << >>,
         PathOf(bits)[Len(PathOf(bits))] \in Jtag!Stable,
         Jtag!ftdi_execute_pathmove(PathOf(bits))
  PROVE  JtagInv'
  <1> DEFINE path == PathOf(bits)
             goal == path[Len(path)]
             found == Jtag!path_bits(state_follower, path)
             clocks == Jtag!clocks_of(found)
             what == [Jtag!Nothing EXCEPT !.kind = "move"]
  <1>1. Jtag!ready /\ end_state_follower' = goal /\ lost' = lost
    BY DEF Jtag!ftdi_execute_pathmove
  <1>2. state_follower \in Jtag!TapStates /\ goal \in Jtag!Stable /\ lost \in BOOLEAN
    BY DEF JtagInv, Jtag!TypeOK
  <1>3. /\ found \in Seq({0, 1}) /\ Len(found) = Len(bits)
        /\ Jtag!walk(state_follower, found)[Len(found)] = goal
        /\ goal # "RESET" => found[Len(found)] = 0
    BY <1>2, SameBits
  <1>4. found # << >>
    <2>1. Len(bits) # 0
      BY EmptySeq
    <2>2. found = << >> => Len(found) = 0
      OBVIOUS
    <2>  QED
      BY <1>3, <2>1, <2>2
  <1>5. Deed(what, "move", 0, << >>)
    BY DEF Jtag!Nothing, Deed
  <1>6. Jtag!drive(clocks, goal, what)
    BY DEF Jtag!ftdi_execute_pathmove
  <1>  HIDE DEF found, goal, what
  <1>7. clocks \in Seq(Clock)
    BY <1>3, ClocksOf
  <1>8. Exact(clocks, "move", 0, << >>)
    BY DEF Exact
  <1>9. ASSUME ~lost  PROVE ~Jtag!held /\ Arrives(clocks, goal)
    <2>1. Now \in Chain /\ ~Jtag!held /\ InStep
      BY <1>1, <1>9, ReadyIs
    <2>2. Now.tap = Jtag!NameOf(state_follower)
      BY <2>1 DEF Now, InStep
    <2>3. /\ Jtag!run(Now, clocks).tap = Jtag!NameOf(Jtag!walk(state_follower, found)[Len(found)])
          /\ Jtag!run(Now, clocks).tms = found[Len(found)]
      BY <1>2, <1>3, <1>4, <2>1, <2>2, Move
    <2>  QED
      BY <1>3, <2>1, <2>3 DEF Arrives
  <1>  HIDE DEF clocks
  <1>  QED
    BY <1>1, <1>2, <1>5, <1>6, <1>7, <1>8, <1>9, Driven

\* ftdi_execute_tms (ftdi.c:408-427).
LEMMA TmsKeeps ==
  ASSUME JtagInv, NEW bits \in Seq({0, 1}), Jtag!ftdi_execute_tms(bits)
  PROVE  JtagInv'
  <1> DEFINE end == Jtag!run(Now, Jtag!clocks_of(bits))
  <1>1. Now \in Chain
    BY ReadyIs DEF Jtag!ftdi_execute_tms
  <1>2. end \in Chain
    BY <1>1, ClocksOf, RunType
  <1>3. end.tap \in Jtag!Controller!TapState /\ end.tms \in {0, 1}
    BY <1>2 DEF Chain
  <1>4. Jtag!clocked(Jtag!clocks_of(bits)) = end
    BY DEF Jtag!clocked, Now
  <1>  HIDE DEF end
  <1>5. tap' = end.tap /\ tms' = end.tms /\ lost' = TRUE /\ did' = Jtag!Nothing
        /\ UNCHANGED <<board, running, led, trst, srst, trst_pin, srst_pin, state_follower,
                       end_state_follower, retval>>
    BY <1>4 DEF Jtag!ftdi_execute_tms, Jtag!cable
  <1>6. Jtag!TypeOK'
    BY <1>3, <1>5 DEF JtagInv, Jtag!TypeOK
  <1>  QED
    BY <1>5, <1>6 DEF JtagInv, Jtag!ScanIsExact, Jtag!RuntestCycles

\* ftdi_execute_scan (ftdi.c:458-545).
LEMMA ScanKeeps ==
  ASSUME JtagInv, NEW ir_scan \in BOOLEAN, NEW given \in Seq(Jtag!Field),
         NEW end_state \in Jtag!Stable, Jtag!ftdi_execute_scan(ir_scan, given, end_state)
  PROVE  JtagInv'
  <1> DEFINE fields == Jtag!trimmed(given)
             shift == IF ir_scan THEN "IRSHIFT" ELSE "DRSHIFT"
             pause == IF ir_scan THEN "IRPAUSE" ELSE "DRPAUSE"
             leaving == end_state # shift
             there == Jtag!move_if_needed(state_follower, shift)
             data == Jtag!scan_clocks(fields, leaving)
             back == IF leaving THEN Jtag!move_if_needed(pause, end_state) ELSE << >>
             clocks == (there \o data) \o back
             asked == Jtag!bits_asked(ir_scan, fields)
             what == [Jtag!Nothing EXCEPT !.kind = "scan", !.asked = asked]
  <1>1. Jtag!ready /\ lost' = lost
    BY DEF Jtag!ftdi_execute_scan
  <1>2. CASE fields = << >>
    <2>1. /\ did' = Jtag!Nothing
          /\ UNCHANGED <<board, running, led, trst, srst, trst_pin, srst_pin, retval, tap, tms,
                         state_follower, end_state_follower>>
      BY <1>2 DEF Jtag!ftdi_execute_scan, Jtag!cable
    <2>2. Jtag!TypeOK' /\ (~lost' => InStep')
      BY <1>1, <2>1 DEF JtagInv, Jtag!TypeOK, InStep, Jtag!held_by_driver, Jtag!pulled
    <2>3. did'.kind = "none"
      BY <2>1 DEF Jtag!Nothing
    <2>  QED
      BY <2>1, <2>2, <2>3 DEF JtagInv, Jtag!ScanIsExact, Jtag!RuntestCycles
  <1>3. CASE fields # << >>
    <2>1. end_state_follower' = end_state /\ Jtag!drive(clocks, end_state, what)
      BY <1>3 DEF Jtag!ftdi_execute_scan
    <2>2. fields \in Seq(Jtag!Field) /\ fields[Len(fields)].num_bits \in Nat \ {0}
      BY <1>3, Trimmed
    <2>3. Deed(what, "scan", 0, asked)
      BY DEF Jtag!Nothing, Deed
    <2>4. state_follower \in Jtag!Stable /\ shift \in Jtag!Stable /\ pause \in Jtag!Stable
          /\ lost \in BOOLEAN
      BY Places DEF JtagInv, Jtag!TypeOK
    <2>5. there \in Seq(Clock) /\ data \in Seq(Clock) /\ back \in Seq(Clock)
      <3>1. << >> \in Seq(Clock)
        OBVIOUS
      <3>  QED
        BY <1>3, <2>2, <2>4, <3>1, MoveClocks, ScanClocksType, Zenon
    <2>6. there \o data \in Seq(Clock) /\ clocks \in Seq(Clock)
      <3>  HIDE DEF there, data, back
      <3>  QED
        BY <2>5, Concat
    <2>7. shift # "RESET" /\ pause # "RESET" /\ pause = PauseOf(shift) /\ leaving \in BOOLEAN
          /\ (~leaving => end_state = shift)
      BY DEF PauseOf
    <2>  HIDE DEF fields, there, data, back, what, asked, pause, leaving
    <2>8. ASSUME ~lost
          PROVE  ~Jtag!held /\ Arrives(clocks, end_state) /\ Exact(clocks, "scan", 0, asked)
      <3> DEFINE at == Jtag!run(Now, there)
                 shifted_all == Jtag!run(at, data)
                 end == Jtag!run(shifted_all, back)
      <3>1. Now \in Chain /\ ~Jtag!held /\ InStep
        BY <1>1, <2>8, ReadyIs
      <3>2. Now.tap = Jtag!NameOf(state_follower) /\ (state_follower # "RESET" => Now.tms = 0)
            /\ Now.shifted = << >>
        BY <3>1 DEF Now, InStep
      <3>3. at \in Chain /\ at.tap = Jtag!NameOf(shift) /\ at.tms = 0 /\ at.shifted = << >>
        BY <2>4, <2>7, <3>1, <3>2, MoveIfNeeded DEF there
      <3>  HIDE DEF at
      <3>4. shifted_all = [tap |-> Jtag!NameOf(IF leaving THEN PauseOf(shift) ELSE shift), tms |-> 0,
                           shifted |-> asked, idled |-> at.idled]
        BY <1>3, <2>2, <2>7, <3>1, <3>3, ScanClocks DEF data, asked
      <3>5. shifted_all \in Chain
        BY <2>5, <3>3, RunType
      <3>6. shifted_all.tap = Jtag!NameOf(IF leaving THEN pause ELSE shift)
            /\ shifted_all.tms = 0 /\ shifted_all.shifted = asked
        BY <2>7, <3>4
      <3>  HIDE DEF shifted_all, shift
      <3>7. /\ end.tap = Jtag!NameOf(end_state) /\ (end_state # "RESET" => end.tms = 0)
            /\ end.shifted = asked
        <4>1. CASE leaving
          BY <2>4, <2>7, <3>1, <3>5, <3>6, <4>1, MoveIfNeeded, SMTT(30) DEF back
        <4>2. CASE ~leaving
          <5>1. end = shifted_all
            BY <3>5, <4>2, RunEmpty DEF back
          <5>  QED
            BY <2>7, <3>6, <4>2, <5>1
        <4>  QED
          BY <4>1, <4>2
      <3>8. Jtag!run(Now, clocks) = end
        <4>1. Jtag!run(Now, clocks) = Jtag!run(Jtag!run(Now, there \o data), back)
          BY <2>5, <2>6, <3>1, RunConcat, Zenon
        <4>2. Jtag!run(Now, there \o data) = shifted_all
          BY <2>5, <3>1, RunConcat DEF shifted_all, at
        <4>  QED
          BY <4>1, <4>2
      <3>  HIDE DEF end
      <3>  QED
        BY <3>1, <3>7, <3>8 DEF Arrives, Exact
    <2>  HIDE DEF clocks
    <2>  QED
      BY <1>1, <2>1, <2>3, <2>4, <2>6, <2>8, Driven
  <1>  QED
    BY <1>2, <1>3

\* Setting a signal leaves TMS low where it was low.
LEMMA TmsStays ==
  ASSUME BoardsKeepTms, board \in Boards, board \in Jtag!Board, NEW level \in {0, 1}, NEW changed,
         NEW byte \in {board.led, board.trst, board.srst}
  PROVE  /\ Jtag!tms_after(level, byte, changed) \in {0, 1}
         /\ level = 0 => Jtag!tms_after(level, byte, changed) = 0
  <1>1. board.tms \in {0, 1} /\ (board.tms = 1 => byte # "low")
    BY DEF BoardsKeepTms, Jtag!Board
  <1>  QED
    BY <1>1 DEF Jtag!tms_after

\* A line that is in step stays so, whatever it is set to.
LEMMA PinFollows ==
  ASSUME NEW request, NEW byte, NEW has, NEW pin \in BOOLEAN, NEW level \in {"init", "0", "1"}
  PROVE  LET goal == Jtag!wanted(request, byte, has)
         IN /\ Jtag!pin_after(pin, level, goal) \in BOOLEAN
            /\ Jtag!set(level, goal) \in {"init", "0", "1"}
            /\ pin = (level = "0") => Jtag!pin_after(pin, level, goal) = (Jtag!set(level, goal) = "0")
            /\ request # 1 /\ Jtag!set(level, goal) = "0" => level = "0"
  <1> DEFINE goal == Jtag!wanted(request, byte, has)
  <1>1. goal \in {"0", "1", "keep"} /\ (request # 1 => goal # "0")
    BY DEF Jtag!wanted
  <1>  HIDE DEF goal
  <1>2. /\ Jtag!pin_after(pin, level, goal) \in BOOLEAN
        /\ Jtag!set(level, goal) \in {"init", "0", "1"}
    BY <1>1, Zenon DEF Jtag!pin_after, Jtag!set
  <1>3. pin = (level = "0") => Jtag!pin_after(pin, level, goal) = (Jtag!set(level, goal) = "0")
    BY <1>1 DEF Jtag!pin_after, Jtag!set
  <1>4. request # 1 /\ Jtag!set(level, goal) = "0" => level = "0"
    BY <1>1 DEF Jtag!set
  <1>  QED
    BY <1>2, <1>3, <1>4 DEF goal

\* ftdi_execute_reset (ftdi.c:547-590).
LEMMA ResetKeeps ==
  ASSUME BoardsKeepTms, Jtag!JtagAssumption, JtagInv, NEW req_trst, NEW req_srst,
         Jtag!ftdi_execute_reset(req_trst, req_srst)
  PROVE  JtagInv'
  <1> DEFINE goal_t == Jtag!wanted(req_trst, board.trst, board.has_trst)
             goal_s == Jtag!wanted(req_srst, board.srst, board.has_srst)
             resets == Jtag!resets_chain(req_trst, req_srst)
             middle == Jtag!tms_after(tms, board.trst, trst' # trst)
  <1>1. /\ state_follower' = (IF resets THEN "RESET" ELSE state_follower)
        /\ trst' = Jtag!set(trst, goal_t) /\ srst' = Jtag!set(srst, goal_s)
        /\ trst_pin' = Jtag!pin_after(trst_pin, trst, goal_t)
        /\ srst_pin' = Jtag!pin_after(srst_pin, srst, goal_s)
        /\ tms' = Jtag!tms_after(middle, board.srst, srst' # srst)
        /\ tap' = (IF Jtag!pulled(trst_pin', srst_pin') THEN Jtag!NameOf("RESET") ELSE tap)
        /\ lost' = (IF resets THEN ~(Jtag!pulled(trst_pin', srst_pin') /\ Jtag!pins_in_step') ELSE lost)
        /\ did' = Jtag!Nothing
        /\ UNCHANGED <<board, running, end_state_follower, led, retval>>
    BY DEF Jtag!ftdi_execute_reset
  <1>2. /\ board \in Boards /\ trst \in {"init", "0", "1"} /\ srst \in {"init", "0", "1"}
        /\ trst_pin \in BOOLEAN /\ srst_pin \in BOOLEAN /\ tms \in {0, 1}
        /\ tap \in Jtag!Controller!TapState /\ state_follower \in Jtag!Stable /\ lost \in BOOLEAN
    BY DEF JtagInv, Jtag!TypeOK
  <1>3. board \in Jtag!Board
    BY <1>2 DEF Jtag!JtagAssumption
  <1>4. /\ trst_pin' \in BOOLEAN /\ trst' \in {"init", "0", "1"}
        /\ trst_pin = (trst = "0") => trst_pin' = (trst' = "0")
        /\ req_trst # 1 /\ trst' = "0" => trst = "0"
    BY <1>1, <1>2, PinFollows
  <1>5. /\ srst_pin' \in BOOLEAN /\ srst' \in {"init", "0", "1"}
        /\ srst_pin = (srst = "0") => srst_pin' = (srst' = "0")
        /\ req_srst # 1 /\ srst' = "0" => srst = "0"
    BY <1>1, <1>2, PinFollows
  <1>6. tms' \in {0, 1} /\ (tms = 0 => tms' = 0)
    <2>1. middle \in {0, 1} /\ (tms = 0 => middle = 0)
      BY <1>2, <1>3, TmsStays
    <2>  HIDE DEF middle
    <2>  QED
      BY <1>1, <1>2, <1>3, <2>1, TmsStays
  <1>7. Jtag!NameOf("RESET") \in Jtag!Controller!TapState /\ "RESET" \in Jtag!Stable
        /\ "RESET" \in Jtag!TapStates
    BY NamesAreStates, Places DEF Jtag!TapStates
  <1>8. resets \in BOOLEAN /\ (~resets => req_trst # 1 /\ (board.srst_pulls_trst => req_srst # 1))
    BY DEF Jtag!resets_chain
  <1>9. Jtag!pins_in_step' = (trst_pin' = (trst' = "0") /\ srst_pin' = (srst' = "0"))
        /\ Jtag!pins_in_step' \in BOOLEAN
    BY DEF Jtag!pins_in_step
  <1>  HIDE DEF goal_t, goal_s, resets, middle
  <1>10. Jtag!TypeOK'
    <2>1. tap' \in Jtag!Controller!TapState /\ lost' \in BOOLEAN /\ state_follower' \in Jtag!TapStates
      BY <1>1, <1>2, <1>7, <1>8, <1>9, Zenon DEF Jtag!Stable
    <2>  QED
      BY <1>1, <1>4, <1>5, <1>6, <2>1 DEF JtagInv, Jtag!TypeOK
  <1>11. ~lost' => InStep'
    <2> SUFFICES ASSUME ~lost'  PROVE InStep'
      OBVIOUS
    <2>1. CASE resets
      <3>1. /\ Jtag!pulled(trst_pin', srst_pin')
            /\ trst_pin' = (trst' = "0") /\ srst_pin' = (srst' = "0")
        BY <1>1, <1>9, <2>1, Zenon
      <3>2. state_follower' = "RESET" /\ tap' = Jtag!NameOf("RESET")
        BY <1>1, <2>1, <3>1
      <3>  QED
        BY <3>1, <3>2 DEF InStep
    <2>2. CASE ~resets
      <3>1. InStep /\ state_follower' = state_follower
        BY <1>1, <2>2 DEF JtagInv
      <3>2. /\ trst_pin' = (trst' = "0")
            /\ board'.srst_pulls_trst => srst_pin' = (srst' = "0")
        BY <1>1, <1>4, <1>5, <3>1 DEF InStep
      <3>3. Jtag!held_by_driver' => Jtag!held_by_driver
        BY <1>1, <1>4, <1>5, <1>8, <2>2 DEF Jtag!held_by_driver, Jtag!pulled
      <3>4. Jtag!held_by_driver' => state_follower' = "RESET"
        BY <3>1, <3>3 DEF InStep
      <3>5. Jtag!pulled(trst_pin', srst_pin') => Jtag!held_by_driver'
        BY <1>1, <3>2, Zenon DEF Jtag!held_by_driver, Jtag!pulled
      <3>6. tap' = Jtag!NameOf(state_follower')
        BY <1>1, <3>1, <3>4, <3>5 DEF InStep
      <3>7. state_follower' # "RESET" => tms' = 0
        BY <1>6, <3>1 DEF InStep
      <3>  QED
        BY <3>2, <3>4, <3>6, <3>7 DEF InStep
    <2>  QED
      BY <2>1, <2>2
  <1>12. did'.kind = "none"
    BY <1>1 DEF Jtag!Nothing
  <1>13. state_follower' \in Jtag!Stable
    BY <1>1, <1>2, <1>7
  <1>  QED
    BY <1>10, <1>11, <1>12, <1>13 DEF JtagInv, Jtag!ScanIsExact, Jtag!RuntestCycles

\* What a flush that fails leaves.
LEMMA BreakOffType ==
  ASSUME Jtag!break_off
  PROVE  /\ trst_pin' \in BOOLEAN /\ srst_pin' \in BOOLEAN
         /\ tap' \in Jtag!Controller!TapState /\ tms' \in {0, 1} /\ lost' = TRUE
  <1>1. Jtag!NameOf("RESET") \in Jtag!Controller!TapState
    BY NamesAreStates DEF Jtag!TapStates
  <1>  QED
    BY <1>1, Zenon DEF Jtag!break_off

\* The ends of a queue and ftdi_execute_sleep (ftdi.c:592-604, 665-682).
LEMMA OthersKeep ==
  ASSUME BoardsKeepTms, Jtag!JtagAssumption, JtagInv,
         \/ Jtag!begin \/ Jtag!finish \/ Jtag!ftdi_execute_sleep \/ UNCHANGED Jtag!vars
  PROVE  JtagInv'
  <1>1. /\ board \in Boards /\ led \in {"init", "0", "1"} /\ tms \in {0, 1} /\ lost \in BOOLEAN
        /\ board \in Jtag!Board
    BY DEF JtagInv, Jtag!TypeOK, Jtag!JtagAssumption
  <1>2. ASSUME NEW byte \in {board.led}, NEW changed
        PROVE  /\ Jtag!tms_after(tms, byte, changed) \in {0, 1}
               /\ tms = 0 => Jtag!tms_after(tms, byte, changed) = 0
    BY <1>1, TmsStays
  <1>3. CASE Jtag!begin \/ Jtag!finish \/ Jtag!ftdi_execute_sleep
    <2>1. /\ state_follower' = state_follower /\ end_state_follower' = end_state_follower
          /\ board' = board /\ trst' = trst /\ srst' = srst
          /\ running' \in BOOLEAN /\ led' \in {"init", "0", "1"} /\ retval' \in {"none", "ok", "error"}
          /\ did' = Jtag!Nothing
      BY <1>1, <1>3, Zenon DEF Jtag!begin, Jtag!finish, Jtag!ftdi_execute_sleep, JtagInv, Jtag!TypeOK
    <2>2. \/ /\ trst_pin' = trst_pin /\ srst_pin' = srst_pin /\ tap' = tap /\ lost' = lost
             /\ tms' = tms \/ tms' = Jtag!tms_after(tms, board.led, led' # led)
          \/ Jtag!break_off
      BY <1>3 DEF Jtag!begin, Jtag!finish, Jtag!ftdi_execute_sleep
    <2>3. did'.kind = "none"
      BY <2>1 DEF Jtag!Nothing
    <2>4. CASE Jtag!break_off
      <3>1. Jtag!TypeOK'
        BY <2>1, <2>4, BreakOffType DEF JtagInv, Jtag!TypeOK
      <3>2. lost' = TRUE
        BY <2>4, BreakOffType
      <3>  QED
        BY <2>1, <2>3, <3>1, <3>2 DEF JtagInv, Jtag!ScanIsExact, Jtag!RuntestCycles
    <2>5. CASE ~Jtag!break_off
      <3>1. trst_pin' = trst_pin /\ srst_pin' = srst_pin /\ tap' = tap /\ lost' = lost
        BY <2>2, <2>5
      <3>2. tms' \in {0, 1} /\ (tms = 0 => tms' = 0)
        BY <1>1, <1>2, <2>2, <2>5
      <3>3. Jtag!TypeOK'
        BY <2>1, <3>1, <3>2 DEF JtagInv, Jtag!TypeOK
      <3>4. ~lost' => InStep'
        BY <2>1, <3>1, <3>2 DEF JtagInv, InStep, Jtag!held_by_driver, Jtag!pulled
      <3>  QED
        BY <2>1, <2>3, <3>3, <3>4 DEF JtagInv, Jtag!ScanIsExact, Jtag!RuntestCycles
    <2>  QED
      BY <2>4, <2>5
  <1>4. CASE UNCHANGED Jtag!vars
    BY <1>4 DEF Jtag!vars, Jtag!cable, JtagInv, Jtag!TypeOK, InStep, Jtag!held_by_driver,
                Jtag!pulled, Jtag!ScanIsExact, Jtag!RuntestCycles
  <1>  QED
    BY <1>3, <1>4

\* ftdi_initialize leaves the chain in reset and knows it.
LEMMA InitJtag ==
  ASSUME Jtag!Init, Jtag!JtagAssumption  PROVE JtagInv
  <1>1. board \in Jtag!Board /\ board.tms \in {0, 1}
    BY DEF Jtag!Init, Jtag!JtagAssumption, Jtag!Board
  <1>2. "RESET" \in Jtag!Stable /\ "RESET" \in Jtag!TapStates
    BY Places DEF Jtag!TapStates
  <1>3. Jtag!TypeOK
    BY <1>1, <1>2, Zenon DEF Jtag!Init, Jtag!TypeOK
  <1>4. ~lost => InStep
    BY Zenon DEF Jtag!Init, InStep, Jtag!held_by_driver, Jtag!pulled
  <1>5. did.kind = "none"
    BY DEF Jtag!Init, Jtag!Nothing
  <1>  QED
    BY <1>2, <1>3, <1>4, <1>5 DEF Jtag!Init, JtagInv, Jtag!ScanIsExact, Jtag!RuntestCycles

\* Every command keeps the driver in step.
LEMMA NextJtag ==
  ASSUME BoardsKeepTms, Jtag!JtagAssumption, JtagInv, Jtag!Next \/ UNCHANGED Jtag!vars
  PROVE  JtagInv'
  <1>1. CASE \E n \in Cycles, end_state \in Jtag!Stable : Jtag!ftdi_execute_runtest(n, end_state)
    BY <1>1, RuntestKeeps DEF Jtag!JtagAssumption
  <1>2. CASE \E end_state \in Jtag!Stable : Jtag!ftdi_execute_statemove(end_state)
    BY <1>2, StatemoveKeeps
  <1>3. CASE \E bits \in Moves :
               LET path == PathOf(bits)
               IN /\ path[Len(path)] \in Jtag!Stable
                  /\ Jtag!ftdi_execute_pathmove(path)
    BY <1>3, PathmoveKeeps DEF Jtag!JtagAssumption
  <1>4. CASE \E bits \in Moves : Jtag!ftdi_execute_tms(bits)
    BY <1>4, TmsKeeps DEF Jtag!JtagAssumption
  <1>5. CASE \E n \in Cycles : Jtag!ftdi_execute_stableclocks(n)
    BY <1>5, StableclocksKeeps DEF Jtag!JtagAssumption
  <1>6. CASE \E ir_scan \in BOOLEAN, fields \in Scans, end_state \in Jtag!Stable :
               Jtag!ftdi_execute_scan(ir_scan, fields, end_state)
    BY <1>6, ScanKeeps DEF Jtag!JtagAssumption
  <1>7. CASE \E req_trst, req_srst \in {-1, 0, 1} : Jtag!ftdi_execute_reset(req_trst, req_srst)
    BY <1>7, ResetKeeps
  <1>8. CASE Jtag!begin \/ Jtag!finish \/ Jtag!ftdi_execute_sleep \/ UNCHANGED Jtag!vars
    BY <1>8, OthersKeep
  <1>  QED
    BY <1>1, <1>2, <1>3, <1>4, <1>5, <1>6, <1>7, <1>8, Zenon DEF Jtag!Next, PathOf

-----------------------------------------------------------------------------
(* The types, on every board                                                 *)

JtagTypes == Jtag!TypeOK /\ state_follower \in Jtag!Stable

\* A command that clocks.
LEMMA DrivenTypes ==
  ASSUME JtagTypes, NEW clocks \in Seq(Clock), NEW goal \in Jtag!Stable, NEW what,
         Jtag!drive(clocks, goal, what), end_state_follower' \in Jtag!Stable, lost' \in BOOLEAN
  PROVE  JtagTypes'
  <1> DEFINE end == Jtag!run(Now, clocks)
  <1>1. Now \in Chain
    BY DEF JtagTypes, Jtag!TypeOK, Now, Chain
  <1>2. end.tap \in Jtag!Controller!TapState /\ end.tms \in {0, 1}
    BY <1>1, RunType, Zenon DEF Chain
  <1>3. Jtag!clocked(clocks) = end
    BY DEF Jtag!clocked, Now
  <1>  HIDE DEF end
  <1>4. /\ tap' = end.tap /\ tms' = end.tms /\ state_follower' = goal
        /\ UNCHANGED <<board, running, retval, led, trst, srst, trst_pin, srst_pin>>
    BY <1>3 DEF Jtag!drive, Jtag!cable
  <1>5. goal \in Jtag!TapStates
    BY DEF Jtag!Stable
  <1>  QED
    BY <1>2, <1>4, <1>5 DEF JtagTypes, Jtag!TypeOK

\* ftdi_execute_runtest (ftdi.c:352-389).
LEMMA RuntestTypes ==
  ASSUME JtagTypes, NEW n \in Nat, NEW end_state \in Jtag!Stable,
         Jtag!ftdi_execute_runtest(n, end_state)
  PROVE  JtagTypes'
  <1> DEFINE there == Jtag!move_if_needed(state_follower, "IDLE")
             cycles == Jtag!steady(n, 0)
             back == Jtag!move_if_needed("IDLE", end_state)
  <1>1. state_follower \in Jtag!Stable /\ "IDLE" \in Jtag!Stable /\ lost \in BOOLEAN
    BY Places DEF JtagTypes, Jtag!TypeOK
  <1>2. there \in Seq(Clock) /\ cycles \in Seq(Clock) /\ back \in Seq(Clock)
    BY <1>1, MoveClocks, SteadyClocks
  <1>3. /\ end_state_follower' = end_state /\ lost' = lost
        /\ \E what : Jtag!drive((there \o cycles) \o back, end_state, what)
    BY DEF Jtag!ftdi_execute_runtest
  <1>  HIDE DEF there, cycles, back
  <1>4. (there \o cycles) \o back \in Seq(Clock)
    BY <1>2, Concat
  <1>  QED
    BY <1>1, <1>3, <1>4, DrivenTypes, Zenon

\* ftdi_execute_statemove (ftdi.c:391-406).
LEMMA StatemoveTypes ==
  ASSUME JtagTypes, NEW goal \in Jtag!Stable, Jtag!ftdi_execute_statemove(goal)
  PROVE  JtagTypes'
  <1>1. Jtag!statemove_clocks(goal) \in Seq(Clock)
    <2>1. << >> \in Seq(Clock)
      OBVIOUS
    <2>  QED
      BY <2>1, MoveClocks DEF JtagTypes, Jtag!statemove_clocks
  <1>2. /\ end_state_follower' = goal /\ lost' \in BOOLEAN
        /\ \E what : Jtag!drive(Jtag!statemove_clocks(goal), goal, what)
    BY DEF Jtag!ftdi_execute_statemove, JtagTypes, Jtag!TypeOK
  <1>  QED
    BY <1>1, <1>2, DrivenTypes

\* ftdi_execute_pathmove (ftdi.c:429-456).
LEMMA PathmoveTypes ==
  ASSUME JtagTypes, NEW bits \in Seq({0, 1}), bits # << >>,
         PathOf(bits)[Len(PathOf(bits))] \in Jtag!Stable,
         Jtag!ftdi_execute_pathmove(PathOf(bits))
  PROVE  JtagTypes'
  <1> DEFINE path == PathOf(bits)
             clocks == Jtag!clocks_of(Jtag!path_bits(state_follower, path))
  <1>1. state_follower \in Jtag!TapStates /\ lost \in BOOLEAN
    BY DEF JtagTypes, Jtag!TypeOK
  <1>2. clocks \in Seq(Clock)
    BY <1>1, SameBits, ClocksOf
  <1>3. /\ end_state_follower' = path[Len(path)] /\ lost' = lost
        /\ \E what : Jtag!drive(clocks, path[Len(path)], what)
    BY DEF Jtag!ftdi_execute_pathmove
  <1>  HIDE DEF path, clocks
  <1>4. path[Len(path)] \in Jtag!Stable
    BY DEF path
  <1>  QED
    BY <1>1, <1>2, <1>3, <1>4, DrivenTypes

\* ftdi_execute_stableclocks (ftdi.c:606-626).
LEMMA StableclocksTypes ==
  ASSUME JtagTypes, NEW n \in Nat, Jtag!ftdi_execute_stableclocks(n)
  PROVE  JtagTypes'
  <1> DEFINE level == IF state_follower = "RESET" THEN 1 ELSE 0
  <1>1. Jtag!steady(n, level) \in Seq(Clock)
    BY SteadyClocks, Zenon
  <1>2. /\ end_state_follower' = end_state_follower /\ lost' = lost
        /\ \E what : Jtag!drive(Jtag!steady(n, level), state_follower, what)
    BY DEF Jtag!ftdi_execute_stableclocks
  <1>3. state_follower \in Jtag!Stable /\ end_state_follower \in Jtag!Stable /\ lost \in BOOLEAN
    BY DEF JtagTypes, Jtag!TypeOK
  <1>  HIDE DEF level
  <1>  QED
    BY <1>1, <1>2, <1>3, DrivenTypes

\* ftdi_execute_tms (ftdi.c:408-427).
LEMMA TmsTypes ==
  ASSUME JtagTypes, NEW bits \in Seq({0, 1}), Jtag!ftdi_execute_tms(bits)
  PROVE  JtagTypes'
  <1> DEFINE end == Jtag!run(Now, Jtag!clocks_of(bits))
  <1>1. Now \in Chain
    BY DEF JtagTypes, Jtag!TypeOK, Now, Chain
  <1>2. end \in Chain
    BY <1>1, ClocksOf, RunType
  <1>3. end.tap \in Jtag!Controller!TapState /\ end.tms \in {0, 1}
    BY <1>2 DEF Chain
  <1>4. Jtag!clocked(Jtag!clocks_of(bits)) = end
    BY DEF Jtag!clocked, Now
  <1>  HIDE DEF end
  <1>5. tap' = end.tap /\ tms' = end.tms /\ lost' = TRUE
        /\ UNCHANGED <<board, running, led, trst, srst, trst_pin, srst_pin, state_follower,
                       end_state_follower, retval>>
    BY <1>4 DEF Jtag!ftdi_execute_tms, Jtag!cable
  <1>  QED
    BY <1>3, <1>5 DEF JtagTypes, Jtag!TypeOK

\* ftdi_execute_scan (ftdi.c:458-545).
LEMMA ScanTypes ==
  ASSUME JtagTypes, NEW ir_scan \in BOOLEAN, NEW given \in Seq(Jtag!Field),
         NEW end_state \in Jtag!Stable, Jtag!ftdi_execute_scan(ir_scan, given, end_state)
  PROVE  JtagTypes'
  <1> DEFINE fields == Jtag!trimmed(given)
             shift == IF ir_scan THEN "IRSHIFT" ELSE "DRSHIFT"
             pause == IF ir_scan THEN "IRPAUSE" ELSE "DRPAUSE"
             leaving == end_state # shift
             there == Jtag!move_if_needed(state_follower, shift)
             data == Jtag!scan_clocks(fields, leaving)
             back == IF leaving THEN Jtag!move_if_needed(pause, end_state) ELSE << >>
  <1>1. lost' = lost /\ lost \in BOOLEAN
    BY DEF Jtag!ftdi_execute_scan, JtagTypes, Jtag!TypeOK
  <1>2. CASE fields = << >>
    BY <1>1, <1>2 DEF Jtag!ftdi_execute_scan, Jtag!cable, JtagTypes, Jtag!TypeOK
  <1>3. CASE fields # << >>
    <2>1. /\ end_state_follower' = end_state
          /\ \E what : Jtag!drive((there \o data) \o back, end_state, what)
      BY <1>3 DEF Jtag!ftdi_execute_scan
    <2>2. fields \in Seq(Jtag!Field) /\ fields[Len(fields)].num_bits \in Nat \ {0}
      BY <1>3, Trimmed
    <2>3. state_follower \in Jtag!Stable /\ shift \in Jtag!Stable /\ pause \in Jtag!Stable
      BY Places DEF JtagTypes
    <2>4. there \in Seq(Clock) /\ data \in Seq(Clock) /\ back \in Seq(Clock)
      <3>1. << >> \in Seq(Clock)
        OBVIOUS
      <3>  QED
        BY <1>3, <2>2, <2>3, <3>1, MoveClocks, ScanClocksType, Zenon
    <2>  HIDE DEF there, data, back
    <2>5. (there \o data) \o back \in Seq(Clock)
      BY <2>4, Concat
    <2>  QED
      BY <1>1, <2>1, <2>5, DrivenTypes, Zenon
  <1>  QED
    BY <1>2, <1>3

\* ftdi_execute_reset (ftdi.c:547-590).
LEMMA ResetTypes ==
  ASSUME Jtag!JtagAssumption, JtagTypes, NEW req_trst, NEW req_srst,
         Jtag!ftdi_execute_reset(req_trst, req_srst)
  PROVE  JtagTypes'
  <1>1. board \in Jtag!Board /\ board.tms \in {0, 1}
    BY DEF JtagTypes, Jtag!TypeOK, Jtag!JtagAssumption, Jtag!Board
  <1>2. /\ trst_pin' \in BOOLEAN /\ trst' \in {"init", "0", "1"}
        /\ srst_pin' \in BOOLEAN /\ srst' \in {"init", "0", "1"}
    BY PinFollows DEF Jtag!ftdi_execute_reset, JtagTypes, Jtag!TypeOK
  <1>3. tms' \in {0, 1}
    BY <1>1 DEF Jtag!ftdi_execute_reset, Jtag!tms_after, JtagTypes, Jtag!TypeOK
  <1>4. /\ Jtag!NameOf("RESET") \in Jtag!Controller!TapState /\ "RESET" \in Jtag!Stable
        /\ "RESET" \in Jtag!TapStates
    BY NamesAreStates, Places DEF Jtag!TapStates
  <1>5. state_follower' \in Jtag!Stable /\ state_follower' \in Jtag!TapStates
        /\ tap' \in Jtag!Controller!TapState
    BY <1>4 DEF Jtag!ftdi_execute_reset, JtagTypes, Jtag!TypeOK
  <1>6. lost' \in BOOLEAN
    BY Zenon DEF Jtag!ftdi_execute_reset, JtagTypes, Jtag!TypeOK, Jtag!resets_chain
  <1>7. UNCHANGED <<board, running, end_state_follower, led, retval>>
    BY DEF Jtag!ftdi_execute_reset
  <1>  QED
    BY <1>2, <1>3, <1>5, <1>6, <1>7 DEF JtagTypes, Jtag!TypeOK

\* The ends of a queue and ftdi_execute_sleep (ftdi.c:592-604, 665-682).
LEMMA OthersTypes ==
  ASSUME Jtag!JtagAssumption, JtagTypes,
         \/ Jtag!begin \/ Jtag!finish \/ Jtag!ftdi_execute_sleep \/ UNCHANGED Jtag!vars
  PROVE  JtagTypes'
  <1>1. board.tms \in {0, 1}
    BY DEF JtagTypes, Jtag!TypeOK, Jtag!JtagAssumption, Jtag!Board
  <1>2. CASE Jtag!begin \/ Jtag!finish \/ Jtag!ftdi_execute_sleep
    <2>1. /\ state_follower' = state_follower /\ end_state_follower' = end_state_follower
          /\ board' = board /\ trst' = trst /\ srst' = srst
          /\ running' \in BOOLEAN /\ led' \in {"init", "0", "1"} /\ retval' \in {"none", "ok", "error"}
      BY <1>2, Zenon DEF Jtag!begin, Jtag!finish, Jtag!ftdi_execute_sleep, JtagTypes, Jtag!TypeOK
    <2>2. \/ /\ trst_pin' = trst_pin /\ srst_pin' = srst_pin /\ tap' = tap /\ lost' = lost
             /\ tms' = tms \/ tms' = Jtag!tms_after(tms, board.led, led' # led)
          \/ Jtag!break_off
      BY <1>2 DEF Jtag!begin, Jtag!finish, Jtag!ftdi_execute_sleep
    <2>3. CASE Jtag!break_off
      BY <2>1, <2>3, BreakOffType DEF JtagTypes, Jtag!TypeOK
    <2>4. CASE ~Jtag!break_off
      <3>1. tms' \in {0, 1}
        BY <1>1, <2>2, <2>4 DEF Jtag!tms_after, JtagTypes, Jtag!TypeOK
      <3>  QED
        BY <2>1, <2>2, <2>4, <3>1 DEF JtagTypes, Jtag!TypeOK
    <2>  QED
      BY <2>3, <2>4
  <1>3. CASE UNCHANGED Jtag!vars
    BY <1>3 DEF Jtag!vars, Jtag!cable, JtagTypes, Jtag!TypeOK
  <1>  QED
    BY <1>2, <1>3

\* Every command keeps the types.
LEMMA NextTypes ==
  ASSUME Jtag!JtagAssumption, JtagTypes, Jtag!Next \/ UNCHANGED Jtag!vars
  PROVE  JtagTypes'
  <1>1. CASE \E n \in Cycles, end_state \in Jtag!Stable : Jtag!ftdi_execute_runtest(n, end_state)
    BY <1>1, RuntestTypes DEF Jtag!JtagAssumption
  <1>2. CASE \E end_state \in Jtag!Stable : Jtag!ftdi_execute_statemove(end_state)
    BY <1>2, StatemoveTypes
  <1>3. CASE \E bits \in Moves :
               LET path == PathOf(bits)
               IN /\ path[Len(path)] \in Jtag!Stable
                  /\ Jtag!ftdi_execute_pathmove(path)
    BY <1>3, PathmoveTypes DEF Jtag!JtagAssumption
  <1>4. CASE \E bits \in Moves : Jtag!ftdi_execute_tms(bits)
    BY <1>4, TmsTypes DEF Jtag!JtagAssumption
  <1>5. CASE \E n \in Cycles : Jtag!ftdi_execute_stableclocks(n)
    BY <1>5, StableclocksTypes DEF Jtag!JtagAssumption
  <1>6. CASE \E ir_scan \in BOOLEAN, fields \in Scans, end_state \in Jtag!Stable :
               Jtag!ftdi_execute_scan(ir_scan, fields, end_state)
    BY <1>6, ScanTypes DEF Jtag!JtagAssumption
  <1>7. CASE \E req_trst, req_srst \in {-1, 0, 1} : Jtag!ftdi_execute_reset(req_trst, req_srst)
    BY <1>7, ResetTypes
  <1>8. CASE Jtag!begin \/ Jtag!finish \/ Jtag!ftdi_execute_sleep \/ UNCHANGED Jtag!vars
    BY <1>8, OthersTypes
  <1>  QED
    BY <1>1, <1>2, <1>3, <1>4, <1>5, <1>6, <1>7, <1>8, Zenon DEF Jtag!Next, PathOf

-----------------------------------------------------------------------------
(* The invariant of each part, of the behaviours that are of it              *)

PartsInv ==
  /\ part \in {"ids", "signals"} => AdapterInv
  /\ ~NDEBUG /\ part = "swd" => SwdInv
  /\ part = "jtag" => JtagTypes
  /\ BoardsKeepTms /\ part = "jtag" => JtagInv
  /\ part = "walk" => WalkInv

\* What the parts take for granted of the constants.
LEMMA Assumptions ==
  Adapter!AdapterAssumption /\ Swd!SwdAssumption /\ Jtag!JtagAssumption
  BY FtdiAssumption

LEMMA InitInv == Init => PartsInv
  <1> SUFFICES ASSUME Init  PROVE PartsInv
    OBVIOUS
  <1>1. ASSUME part \in {"ids", "signals"}  PROVE AdapterInv
    <2>1. Adapter!Init
      BY <1>1 DEF Init
    <2>  QED
      BY <2>1, Assumptions, AdapterInitInv
  <1>3. ASSUME ~NDEBUG, part = "swd"  PROVE SwdInv
    <2>1. Swd!Init
      BY <1>3 DEF Init
    <2>  QED
      BY <2>1, Assumptions, SwdInitInv
  <1>4. ASSUME part = "jtag"  PROVE JtagTypes /\ JtagInv
    <2>1. Jtag!Init
      BY <1>4 DEF Init
    <2>  QED
      BY <2>1, Assumptions, InitJtag DEF JtagTypes, JtagInv
  <1>5. ASSUME part = "walk"  PROVE WalkInv
    <2>1. Walk!Init
      BY <1>5 DEF Init
    <2>  QED
      BY <2>1, InitWalks
  <1>  QED
    BY <1>1, <1>3, <1>4, <1>5 DEF PartsInv

\* A step is one of the behaviour's part, or none.
LEMMA StepOfPart ==
  ASSUME [Next]_vars
  PROVE  /\ part' = part
         /\ part \in {"ids", "signals"} => Adapter!Next \/ UNCHANGED Adapter!vars
         /\ part = "swd" => Swd!Next \/ UNCHANGED Swd!vars
         /\ part = "jtag" => Jtag!Next \/ UNCHANGED Jtag!vars
         /\ part = "walk" => Walk!Next \/ UNCHANGED Walk!vars
  <1>1. CASE Next
    <2>1. part' = part
      BY <1>1 DEF Next
    <2>2. part \in {"ids", "signals"} => Adapter!Next
      BY <1>1 DEF Next
    <2>4. part = "swd" => Swd!Next
      BY <1>1 DEF Next
    <2>5. part = "jtag" => Jtag!Next
      BY <1>1 DEF Next
    <2>6. part = "walk" => Walk!Next
      BY <1>1 DEF Next
    <2>  QED
      BY <2>1, <2>2, <2>4, <2>5, <2>6
  <1>2. CASE UNCHANGED vars
    BY <1>2 DEF vars, adapter_own, swd_own, jtag_own, walk_own, Adapter!vars,
                Swd!vars, Jtag!vars, Jtag!cable, Walk!vars
  <1>  QED
    BY <1>1, <1>2

LEMMA NextInv == PartsInv /\ [Next]_vars => PartsInv'
  <1> SUFFICES ASSUME PartsInv, [Next]_vars  PROVE PartsInv'
    OBVIOUS
  <1>1. ASSUME part \in {"ids", "signals"}  PROVE AdapterInv'
    BY <1>1, StepOfPart, Assumptions, AdapterNextInv, AdapterStutterInv DEF PartsInv
  <1>3. ASSUME ~NDEBUG, part = "swd"  PROVE SwdInv'
    BY <1>3, StepOfPart, Assumptions, SwdNextInv, SwdStutterInv DEF PartsInv
  <1>4. ASSUME part = "jtag"  PROVE JtagTypes'
    BY <1>4, StepOfPart, Assumptions, NextTypes DEF PartsInv
  <1>5. ASSUME BoardsKeepTms, part = "jtag"  PROVE JtagInv'
    BY <1>5, StepOfPart, Assumptions, NextJtag DEF PartsInv
  <1>6. ASSUME part = "walk"  PROVE WalkInv'
    BY <1>6, StepOfPart, NextWalks DEF PartsInv
  <1>7. BoardsKeepTms' <=> BoardsKeepTms
    BY DEF BoardsKeepTms
  <1>  QED
    BY <1>1, <1>3, <1>4, <1>5, <1>6, <1>7, StepOfPart DEF PartsInv

LEMMA Invariance == Spec => []PartsInv
  BY InitInv, NextInv, PTL DEF Spec

-----------------------------------------------------------------------------
(* Theorems                                                                  *)

\* In a build with assertions, an SWD answer goes to an entry in use of the array there
\* is, from there to its own transaction and only if it was good; and nothing is queued
\* behind an error that waits to be told (ftdi.c:1119-1202).
THEOREM AnswersStayOwn == ~NDEBUG => (Spec => []AnswersAreOwn)
  <1> SUFFICES ASSUME ~NDEBUG  PROVE Spec => []AnswersAreOwn
    OBVIOUS
  <1>1. PartsInv => AnswersAreOwn
    <2> SUFFICES ASSUME PartsInv, part = "swd"
                 PROVE  Swd!PointersAlive /\ Swd!DataIsOwn /\ Swd!ErrorStopsQueue
      BY DEF AnswersAreOwn
    <2>  QED
      BY Assumptions, SwdProperties DEF PartsInv
  <1>  QED
    BY <1>1, Invariance, PTL

\* In a build with assertions, a run of the SWD queue answers for every transaction since
\* the last run, those a full queue ran on the way included (ftdi.c:1119-1202).
THEOREM RunsTell == ~NDEBUG => (Spec => RunTells)
  <1> SUFFICES ASSUME ~NDEBUG  PROVE Spec => RunTells
    OBVIOUS
  <1>1. PartsInv /\ [Next]_vars => [part = "swd" => Swd!RunTells]_vars
    <2> SUFFICES ASSUME PartsInv, Next, part = "swd"  PROVE Swd!RunTells
      OBVIOUS
    <2>1. Swd!Next
      BY DEF Next
    <2>  QED
      BY <2>1, Assumptions, NextTells DEF PartsInv
  <1>  QED
    BY <1>1, Invariance, PTL DEF Spec, RunTells

\* A signal has at the chip the level it was set to, the chip has the driver's latches,
\* and an -nalias is the opposite of its signal (ftdi.c:188-239, 834-850).
THEOREM SignalsAlwaysHold == Spec => []SignalsHold
  <1>1. PartsInv => SignalsHold
    <2> SUFFICES ASSUME PartsInv, part = "signals"
                 PROVE  Adapter!LevelIsSet /\ Adapter!ChipInStep /\ Adapter!AliasInverts
      BY DEF SignalsHold
    <2>  QED
      BY Assumptions, AdapterProperties DEF PartsInv, AdapterInv
  <1>  QED
    BY <1>1, Invariance, PTL

\* The devices tried are those the last ftdi_vid_pid gave, and setting a signal moves no
\* pins but its own (ftdi.c:226-230, 697-702, 930-956).
THEOREM ConfigurationAlwaysHolds == Spec => ConfigurationHolds
  <1>1. PartsInv /\ [Next]_vars =>
          [/\ part = "ids" => Adapter!TriesConfigured
           /\ part = "signals" => Adapter!OthersStay]_vars
    <2> SUFFICES ASSUME PartsInv, Next
                 PROVE  /\ part = "ids" => Adapter!TriesConfigured
                        /\ part = "signals" => Adapter!OthersStay
      OBVIOUS
    <2>1. ASSUME part \in {"ids", "signals"}  PROVE Adapter!Next /\ AdapterInv
      BY <2>1 DEF Next, PartsInv
    <2>2. ASSUME part = "ids"  PROVE Adapter!TriesConfigured
      BY <2>1, <2>2, Assumptions, NextTries
    <2>3. ASSUME part = "signals"  PROVE Adapter!OthersStay
      BY <2>1, <2>3, Assumptions, NextKeepsOthers
    <2>  QED
      BY <2>2, <2>3
  <1>  QED
    BY <1>1, Invariance, PTL DEF Spec, ConfigurationHolds

\* The state that the driver keeps is the chain's, from one command to the next, unless it
\* has been lost (ftdi.c:276-680); and every path of both tables ends in the state it is
\* for, with the follower along (interface.c:136-195, 234-325).  It is so of boards where
\* the byte that has TMS, once high, has no signal that commands set.
THEOREM FollowerStaysRight == BoardsKeepTms => (Spec => []FollowerIsRight)
  <1> SUFFICES ASSUME BoardsKeepTms  PROVE Spec => []FollowerIsRight
    OBVIOUS
  <1>1. PartsInv => FollowerIsRight
    <2> SUFFICES ASSUME PartsInv  PROVE FollowerIsRight
      OBVIOUS
    <2>1. ASSUME part = "jtag"  PROVE Jtag!FollowerIsRight
      BY <2>1 DEF PartsInv, JtagInv, InStep, Jtag!FollowerIsRight
    <2>2. ASSUME part = "walk"  PROVE Walk!PathsArrive
      BY <2>2, WalkProperties DEF PartsInv
    <2>  QED
      BY <2>1, <2>2 DEF FollowerIsRight
  <1>  QED
    BY <1>1, Invariance, PTL

\* On such boards, a scan shifts the bits of its fields through its register, each once and
\* in order, and a runtest idles as long as it was asked to (ftdi.c:352-389, 458-545); and
\* no path shifts on its way, ends a scan or leaves out its extra clocks (interface.c:157-195).
THEOREM CommandsStayExact == BoardsKeepTms => (Spec => []CommandsAreExact)
  <1> SUFFICES ASSUME BoardsKeepTms  PROVE Spec => []CommandsAreExact
    OBVIOUS
  <1>1. PartsInv => CommandsAreExact
    <2> SUFFICES ASSUME PartsInv  PROVE CommandsAreExact
      OBVIOUS
    <2>1. ASSUME part = "jtag"  PROVE Jtag!ScanIsExact /\ Jtag!RuntestCycles
      BY <2>1 DEF PartsInv, JtagInv
    <2>2. ASSUME part = "walk"
          PROVE  Walk!MovesDoNotShift /\ Walk!ScanResumes /\ Walk!ExtraClocks
      BY <2>2, WalkProperties DEF PartsInv
    <2>  QED
      BY <2>1, <2>2 DEF CommandsAreExact
  <1>  QED
    BY <1>1, Invariance, PTL

\* In a build with assertions, and on every board, each variable has its type, and the
\* table of USB ids has an end (ftdi.c:953).
THEOREM TypesAreRight == ~NDEBUG => (Spec => []TypeOK)
  <1> SUFFICES ASSUME ~NDEBUG  PROVE Spec => []TypeOK
    OBVIOUS
  <1>1. PartsInv => TypeOK
    <2> SUFFICES ASSUME PartsInv  PROVE TypeOK
      OBVIOUS
    <2>1. ASSUME part \in {"ids", "signals"}  PROVE Adapter!TypeOK /\ Adapter!IdsTerminated
      BY <2>1, Assumptions, AdapterProperties DEF PartsInv, AdapterInv
    <2>3. ASSUME part = "swd"  PROVE Swd!TypeOK
      BY <2>3 DEF PartsInv, SwdInv
    <2>4. ASSUME part = "jtag"  PROVE Jtag!TypeOK
      BY <2>4 DEF PartsInv, JtagTypes
    <2>5. ASSUME part = "walk"  PROVE Walk!TypeOK
      BY <2>5, WalkProperties DEF PartsInv
    <2>  QED
      BY <2>1, <2>3, <2>4, <2>5 DEF TypeOK
  <1>  QED
    BY <1>1, Invariance, PTL
=============================================================================
