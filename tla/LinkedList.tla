----------------------------- MODULE LinkedList -----------------------------
(***************************************************************************)
(* The doubly linked, circular lists of helper/list.h, pointer by pointer, *)
(* with the loop that may free what it visits, which bit_copy_execute and  *)
(* bit_copy_discard run (binarybuffer.c:372-391).  MpsseQueue and FtdiSwd  *)
(* take such a list for the sequence ListContract says it is.              *)
(***************************************************************************)
EXTENDS Integers, SequencesExt, TLC

CONSTANTS
  Heads,     \* the cells that are heads of lists
  Entries,   \* the memory entries are allocated from
  NULL,      \* LIST_POISON1 and LIST_POISON2
  Dead       \* what may be in memory that was freed, or never written

Cells == Heads \cup Entries

\* What the constants are.
ListAssumption == /\ Heads \cap Entries = {}
                  /\ NULL \notin Cells /\ Dead \notin Cells /\ NULL # Dead
                  /\ IsFiniteSet(Cells)

VARIABLES
  next, prev,  \* the two pointers of every cell
  call,        \* the operation done last, with its arguments
  pos, n,      \* the variables of the loop, NULL outside of it
  over,        \* the head of the list the loop is over, NULL outside of it
  visited,     \* history: the entries the loop has visited
  expected     \* history: those that were in the list when it began

mem == <<next, prev>>
loop == <<pos, n, over, visited, expected>>
vars == <<next, prev, call, pos, n, over, visited, expected>>

-----------------------------------------------------------------------------
(* Stores, one after the other: m holds both pointers of every cell          *)

now == [next |-> next, prev |-> prev]
store(m, cell, field, value) == [m EXCEPT ![field][cell] = value]

INIT_LIST_HEAD(m, list) == store(store(m, list, "next", list), list, "prev", list)

\* Mutant: the entry after the new one keeps its way back.
Mutant_next_back(m, newl, before, after) ==
  LET m1 == store(m, newl, "next", after)
      m2 == store(m1, newl, "prev", before)
  IN store(m2, before, "next", newl)
insert(m, newl, before, after) ==   \* __list_add
  LET m1 == store(m, after, "prev", newl)
      m2 == store(m1, newl, "next", after)
      m3 == store(m2, newl, "prev", before)
  IN store(m3, before, "next", newl)

list_add(m, newl, head) == insert(m, newl, head, m.next[head])
\* Mutant: the entry goes in behind the last but one.
Mutant_before_last(m, newl, head) == insert(m, newl, m.prev[m.prev[head]], m.prev[head])
list_add_tail(m, newl, head) == insert(m, newl, m.prev[head], head)

unlink(m, entry) ==   \* __list_del_entry
  LET before == m.prev[entry]
      after == m.next[entry]
  IN store(store(m, after, "prev", before), before, "next", after)
list_del(m, entry) == store(store(unlink(m, entry), entry, "next", NULL), entry, "prev", NULL)
list_del_init(m, entry) == INIT_LIST_HEAD(unlink(m, entry), entry)

list_replace(m, old, newl) ==
  LET m1 == store(m, newl, "next", m.next[old])
      m2 == store(m1, m1.next[newl], "prev", newl)
      m3 == store(m2, newl, "prev", m2.prev[old])
  IN store(m3, m3.prev[newl], "next", newl)
list_replace_init(m, old, newl) == INIT_LIST_HEAD(list_replace(m, old, newl), old)

list_move(m, entry, head) == list_add(unlink(m, entry), entry, head)
list_move_tail(m, entry, head) == list_add_tail(unlink(m, entry), entry, head)

list_empty(m, head) == m.next[head] = head
list_is_singular(m, head) == ~list_empty(m, head) /\ m.next[head] = m.prev[head]
list_rotate_left(m, head) ==
  IF list_empty(m, head) THEN m ELSE list_move_tail(m, m.next[head], head)

splice(m, list, before, after) ==   \* __list_splice
  LET first == m.next[list]
      last == m.prev[list]
      m1 == store(store(m, first, "prev", before), before, "next", first)
  IN store(store(m1, last, "next", after), after, "prev", last)
\* Mutant: an empty list is spliced in as well.
Mutant_splices_empty(m, list, head) == INIT_LIST_HEAD(splice(m, list, head, m.next[head]), list)
list_splice_init(m, list, head) ==
  IF list_empty(m, list) THEN m
  ELSE INIT_LIST_HEAD(splice(m, list, head, m.next[head]), list)
list_splice_tail_init(m, list, head) ==
  IF list_empty(m, list) THEN m
  ELSE INIT_LIST_HEAD(splice(m, list, m.prev[head], head), list)

cut(m, list, head, entry) ==   \* __list_cut_position
  LET new_first == m.next[entry]
      m1 == store(m, list, "next", m.next[head])
      m2 == store(m1, m1.next[list], "prev", list)
      m3 == store(store(m2, list, "prev", entry), entry, "next", list)
  IN store(store(m3, head, "next", new_first), new_first, "prev", head)
list_cut_position(m, list, head, entry) ==
  IF \/ list_empty(m, head)
     \/ list_is_singular(m, head) /\ m.next[head] # entry /\ head # entry THEN m
  ELSE IF entry = head THEN INIT_LIST_HEAD(m, list)
  ELSE cut(m, list, head, entry)

-----------------------------------------------------------------------------
(* Operations.  Their callers know which list an entry is in, allocate what  *)
(* they add and free what they take out.                                     *)

\* The entries behind a head, as the next pointers tell; broken if they do not come back.
entries(h) ==
  LET cell[k \in 0 .. Cardinality(Cells)] ==
        IF k = 0 THEN next[h]
        ELSE LET last == cell[k - 1] IN IF last \in Entries THEN next[last] ELSE last
      back == {k \in 0 .. Cardinality(Cells) : cell[k] = h}
  IN IF back = {} THEN <<"broken">> ELSE [k \in 1 .. Min(back) |-> cell[k - 1]]

listed(h) == {e \in Entries : Contains(entries(h), e)}
unlisted == Entries \ UNION {listed(h) : h \in Heads}

Calls ==
  {[op |-> o, head |-> h, entry |-> e] : o \in {"add", "add_tail"}, h \in Heads, e \in unlisted}
  \cup {[op |-> o, entry |-> e] : o \in {"del", "del_init"}, e \in Entries \ unlisted}
  \cup {[op |-> o, old |-> old, entry |-> e] :
          o \in {"replace", "replace_init"}, old \in Entries \ unlisted, e \in unlisted}
  \cup {[op |-> o, head |-> h, entry |-> e] :
          o \in {"move", "move_tail"}, h \in Heads, e \in Entries \ unlisted}
  \cup {[op |-> "rotate_left", head |-> h] : h \in Heads}
  \cup {[op |-> o, head |-> h, list |-> l] :
          o \in {"splice_init", "splice_tail_init"}, h \in Heads, l \in Heads}
  \cup {[op |-> "cut_position", list |-> l, head |-> h, entry |-> e] :
          l \in {k \in Heads : entries(k) = << >>}, h \in Heads, e \in Cells}
\* Two lists are different ones, and a list is cut at one of its own entries or its head.
Legal(c) ==
  /\ c.op \in {"splice_init", "splice_tail_init", "cut_position"} => c.list # c.head
  /\ c.op = "cut_position" => c.entry \in listed(c.head) \cup {c.head}

After(c) ==
  CASE c.op = "add" -> list_add(now, c.entry, c.head)
    [] c.op = "add_tail" -> list_add_tail(now, c.entry, c.head)
    [] c.op = "del" -> list_del(now, c.entry)
    [] c.op = "del_init" -> list_del_init(now, c.entry)
    [] c.op = "replace" -> list_replace(now, c.old, c.entry)
    [] c.op = "replace_init" -> list_replace_init(now, c.old, c.entry)
    [] c.op = "move" -> list_move(now, c.entry, c.head)
    [] c.op = "move_tail" -> list_move_tail(now, c.entry, c.head)
    [] c.op = "rotate_left" -> list_rotate_left(now, c.head)
    [] c.op = "splice_init" -> list_splice_init(now, c.list, c.head)
    [] c.op = "splice_tail_init" -> list_splice_tail_init(now, c.list, c.head)
    [] c.op = "cut_position" -> list_cut_position(now, c.list, c.head, c.entry)

stored(m) == next' = m.next /\ prev' = m.prev

operate ==
  /\ over = NULL
  /\ \E c \in {k \in Calls : Legal(k)} : call' = c /\ stored(After(c))
  /\ UNCHANGED loop

\* Memory that is in no list is freed.
free(e) ==
  /\ over = NULL /\ e \in unlisted /\ next[e] # Dead
  /\ stored(store(store(now, e, "next", Dead), e, "prev", Dead))
  /\ UNCHANGED <<call, loop>>

-----------------------------------------------------------------------------
(* list_for_each_entry_safe over the list of a head                          *)

begin(h) ==
  /\ over = NULL /\ over' = h
  /\ pos' = next[h] /\ n' = next[pos']
  /\ visited' = << >> /\ expected' = entries(h)
  /\ UNCHANGED <<mem, call>>

\* Mutant: the loop that is not safe.
Mutant_reads_pos == next'[pos]
\* Where the loop goes on.
saved == n

step == pos' = saved /\ (IF pos' \in Cells THEN n' = next'[pos'] ELSE n' = Dead)

\* The body of bit_copy_execute: the entry is used, deleted and freed.
body_frees ==
  /\ over # NULL /\ pos # over /\ pos \in Cells
  /\ visited' = Append(visited, pos)
  /\ call' = [op |-> "del", entry |-> pos]
  /\ stored(LET m == list_del(now, pos) IN store(store(m, pos, "next", Dead), pos, "prev", Dead))
  /\ step /\ UNCHANGED <<over, expected>>

\* A body that leaves the entry where it is.
body_keeps ==
  /\ over # NULL /\ pos # over /\ pos \in Cells
  /\ visited' = Append(visited, pos)
  /\ stored(now) /\ step /\ UNCHANGED <<call, over, expected>>

end == /\ over # NULL /\ pos = over
       /\ pos' = NULL /\ n' = NULL /\ over' = NULL
       /\ visited' = << >> /\ expected' = << >>
       /\ UNCHANGED <<mem, call>>

Init == /\ next = [c \in Cells |-> IF c \in Heads THEN c ELSE Dead]
        /\ prev = next
        /\ call = [op |-> "none"]
        /\ pos = NULL /\ n = NULL /\ over = NULL /\ visited = << >> /\ expected = << >>
Next == \/ operate \/ (\E e \in Entries : free(e))
        \/ (\E h \in Heads : begin(h)) \/ body_frees \/ body_keeps \/ end
Spec == Init /\ [][Next]_vars

-----------------------------------------------------------------------------
(* Properties                                                                *)

TypeOK == /\ next \in [Cells -> Cells \cup {NULL, Dead}]
          /\ prev \in [Cells -> Cells \cup {NULL, Dead}]
          /\ {pos, n, over} \subseteq Cells \cup {NULL}

\* A list read backwards is the list: every operation keeps both pointers of all the cells it
\* touches in step, also where two of them are the same cell (list.h:37-355).
BothWays ==
  \A h \in Heads : \A c \in listed(h) \cup {h} : prev[next[c]] = c /\ next[prev[c]] = c

\* The loop visits every entry once and in order, whatever its body frees, and never follows
\* a pointer of freed memory (list.h:502-513, binarybuffer.c:372-391).
LoopVisitsAll ==
  over # NULL => /\ IsPrefix(visited, expected)
                 /\ pos = over => visited = expected
                 /\ pos # over => /\ Len(visited) < Len(expected)
                                  /\ pos = expected[Len(visited) + 1]

\* The pointers are the sequences ListContract speaks of.
Contract == INSTANCE ListContract WITH lists <- [h \in Heads |-> entries(h)]
\* Every operation does to the lists what its comment says, and to no other list anything.
KeepsContract == Contract!Spec
=============================================================================
