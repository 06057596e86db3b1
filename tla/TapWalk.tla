------------------------------- MODULE TapWalk -------------------------------
(***************************************************************************)
(* The paths of TapPaths clocked into a TAP controller: moves from stable  *)
(* state to stable state, one clock at a time.  The controller is the one  *)
(* of jtag_tap_controller.hpp, by its own table of states.                 *)
(***************************************************************************)
EXTENDS TapPaths

Controller == INSTANCE TapController WITH IrLen <- 1, DrLen <- 1, IdCode <- <<0>>

VARIABLES
  tms_seqs,   \* the table in use
  from, to,   \* the move
  left,       \* what of its path is still to be clocked
  tracked,    \* the state tap_state_transition gives
  tap,        \* the controller's state
  passed      \* the controller's states at the clocks of this move

vars == <<tms_seqs, from, to, left, tracked, tap, passed>>

Init == /\ tms_seqs = tap_use_new_tms_table(TRUE)
        /\ from = "RESET" /\ to = "RESET" /\ left = << >>
        /\ tracked = "RESET" /\ tap = "TEST_LOGIC_RESET" /\ passed = << >>

move(goal) ==
  /\ left = << >>
  /\ from' = to /\ to' = goal
  /\ left' = tap_get_tms_path(tms_seqs, to, goal)
  /\ passed' = << >>
  /\ UNCHANGED <<tms_seqs, tracked, tap>>

use_table(use_new) ==
  /\ left = << >>
  /\ tms_seqs' = tap_use_new_tms_table(use_new)
  /\ from' = to /\ passed' = << >>      \* a new beginning: the last move is forgotten
  /\ UNCHANGED <<to, left, tracked, tap>>

clock ==
  /\ left # << >>
  /\ left' = Tail(left)
  /\ tracked' = tap_state_transition(tracked, Head(left))
  /\ tap' = Controller!next_state(tap, Head(left))
  /\ passed' = Append(passed, tap)
  /\ UNCHANGED <<tms_seqs, from, to>>

Next == \/ clock
        \/ \E n \in DOMAIN StableStates : move(StableStates[n])
        \/ \E use_new \in BOOLEAN : use_table(use_new)
Spec == Init /\ [][Next]_vars

-----------------------------------------------------------------------------
(* Properties                                                                *)

TypeOK == /\ tms_seqs \in {old_tms_seqs, short_tms_seqs}
          /\ tap_is_state_stable(from) /\ tap_is_state_stable(to)
          /\ left \in Seq({0, 1}) /\ tracked \in TapStates
          /\ tap \in Controller!TapState /\ passed \in Seq(Controller!TapState)

\* At every clock, on the way and at its end, the state followed (interface.c:
\* 234-325) is the controller's (jtag_tap_controller.hpp:262-281), and every path
\* of both tables (interface.c:136-195) ends in the state it is for.
PathsArrive == /\ tap = NameOf(tracked)
               /\ left = << >> => tracked = to

NoStrayShift == \A k \in DOMAIN passed \ {1} : passed[k] \notin {"SHIFT_DR", "SHIFT_IR"}

\* No short path shifts: a move reaches a shift state, if it does, only with its
\* last clock, and one that begins there leaves it with its first.  A bit shifted
\* on the way would put every bit of the scan that follows in the wrong place.
MovesDoNotShift == tms_seqs = short_tms_seqs => NoStrayShift

\* Leaving a pause for the shift state of the same data scan resumes the scan:
\* nothing is captured or updated on the way (DRPAUSE to DRSHIFT in both tables).
ScanResumes ==
  from = "DRPAUSE" /\ to = "DRSHIFT" =>
    \A k \in DOMAIN passed : passed[k] \notin {"CAPTURE_DR", "UPDATE_DR"}

Extra(name) == {k \in DOMAIN passed \ {1} : passed[k] = name}

\* The extra clocks in front of a scan out of reset that interface.c:171-181
\* documents: three to DRSHIFT, two to IRSHIFT; to a state that is not a shift
\* state, at least one clock more in that state.
ExtraClocks ==
  left = << >> /\ passed # << >> /\ from = "RESET" =>
    CASE to = "DRSHIFT" -> Extra("TEST_LOGIC_RESET") = 2 .. 4
      [] to = "IRSHIFT" -> Extra("TEST_LOGIC_RESET") = 2 .. 3
      [] OTHER -> Extra(NameOf(to)) # {}
=============================================================================
