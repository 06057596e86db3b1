---------------------------- MODULE MpsseContract ----------------------------
(***************************************************************************)
(* What the MPSSE driver promises the code above it (mpsse.h:31-78): bits  *)
(* may be asked for at any time, they may arrive at any time up to the end *)
(* of the next flush, and that flush either vouches for all of them or     *)
(* fails.  After a failure or a purge nothing that was asked for before    *)
(* ever arrives: the memory belongs to the caller again.                   *)
(***************************************************************************)
EXTENDS Integers

CONSTANT MaxTicks

NoBit == -1
Ticks == 0 .. MaxTicks - 1

VARIABLES mem, asked, outcome

contractVars == <<mem, asked, outcome>>

Init == /\ mem = [d \in Ticks |-> NoBit]
        /\ asked = {}
        /\ outcome = "none"

\* Some of what was asked for arrives, each bit at its own place.
Arrivals == \A d \in Ticks : mem'[d] # mem[d] => d \in asked /\ mem'[d] = d

\* The caller asks for more, or does something that is not a flush.
Proceed == /\ Arrivals
           /\ asked \subseteq asked' /\ asked' \subseteq Ticks
           /\ outcome' = "none"

FlushOk == /\ Arrivals
           /\ \A d \in asked : mem'[d] = d
           /\ outcome' = "ok"
           /\ UNCHANGED asked

FlushFail == /\ asked' = {}
             /\ outcome' = "fail"
             /\ UNCHANGED mem

Purge == /\ asked' = {}
         /\ outcome' = "none"
         /\ UNCHANGED mem

Next == Proceed \/ FlushOk \/ FlushFail \/ Purge

Spec == Init /\ [][Next]_contractVars
=============================================================================
