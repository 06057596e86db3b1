---------------------------- MODULE ListContract ----------------------------
(***************************************************************************)
(* What the lists of helper/list.h promise in their comments: each head    *)
(* stands for a sequence of entries, and an operation changes just that.   *)
(***************************************************************************)
EXTENDS Integers, SequencesExt

CONSTANTS Heads, Entries

VARIABLES
  lists,   \* the entries behind each head
  call     \* the operation done last, with its arguments

vars == <<lists, call>>

\* Where an entry is, which is in a list but once; 0 where it is not.
Place(s, e) == IF Contains(s, e) THEN CHOOSE k \in DOMAIN s : s[k] = e ELSE 0
Without(e) == [h \in Heads |-> RemoveAt(lists[h], Place(lists[h], e))]

Init == lists = [h \in Heads |-> << >>] /\ call = [op |-> "none"]

\* The operations, c their arguments.
Done(c) ==
  CASE c.op = "add" -> [lists EXCEPT ![c.head] = <<c.entry>> \o @]
    [] c.op = "add_tail" -> [lists EXCEPT ![c.head] = Append(@, c.entry)]
    [] c.op \in {"del", "del_init"} -> Without(c.entry)
    [] c.op \in {"replace", "replace_init"} ->
         [h \in Heads |-> ReplaceAll(lists[h], c.old, c.entry)]
    [] c.op = "move" -> [Without(c.entry) EXCEPT ![c.head] = <<c.entry>> \o @]
    [] c.op = "move_tail" -> [Without(c.entry) EXCEPT ![c.head] = Append(@, c.entry)]
    [] c.op = "rotate_left" -> [lists EXCEPT ![c.head] = IF @ = << >> THEN @ ELSE Tail(@) \o <<Head(@)>>]
    [] c.op = "splice_init" -> [lists EXCEPT ![c.head] = lists[c.list] \o @, ![c.list] = << >>]
    [] c.op = "splice_tail_init" -> [lists EXCEPT ![c.head] = @ \o lists[c.list], ![c.list] = << >>]
    [] c.op = "cut_position" ->
         LET k == Place(lists[c.head], c.entry)
         IN [lists EXCEPT ![c.list] = SubSeq(lists[c.head], 1, k),
                          ![c.head] = SubSeq(@, k + 1, Len(@))]

Ops == {"add", "add_tail", "del", "del_init", "replace", "replace_init", "move", "move_tail",
        "rotate_left", "splice_init", "splice_tail_init", "cut_position"}
Next == call'.op \in Ops /\ lists' = Done(call')
Spec == Init /\ [][Next]_vars
=============================================================================
