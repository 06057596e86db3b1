------------------------------- MODULE TapPort -------------------------------
(***************************************************************************)
(* What a plug-in promises the JTAG server: every clock asked for steps    *)
(* the TAP controller at once and adds its TDO to the answers, and a       *)
(* flush hands over all the answers gathered.                              *)
(***************************************************************************)
EXTENDS TapController

CONSTANT MaxClocks   \* bound: clocks asked for in one call

VARIABLES tap,       \* the controller
          answers,   \* the TDO bits the server has not had yet
          report     \* what the server was given last

vars == <<tap, answers, report>>

\* The server asks for some clocks.
Asked(clocks) == /\ UNCHANGED report
                 /\ answers' = answers \o answered(tap, clocks)
                 /\ tap' = after(tap, clocks)

Flush == report' = answers /\ answers' = << >> /\ UNCHANGED tap

Init == tap = power_on /\ answers = << >> /\ report = << >>
Next == \/ Flush
        \/ \E n \in 1 .. MaxClocks :
             \E clocks \in [1 .. n -> [tms: Bit, tdi: Bit]] : Asked(clocks)
Spec == Init /\ [][Next]_vars
=============================================================================
