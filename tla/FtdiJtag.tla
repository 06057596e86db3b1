------------------------------- MODULE FtdiJtag -------------------------------
(***************************************************************************)
(* The execution of JTAG commands by the FTDI driver (ftdi.c:276-680) with *)
(* its state follower (interface.c:40-70), and the chain at the other end  *)
(* of the cable, a TAP controller with the table of                        *)
(* jtag_tap_controller.hpp.  One command is one step; what is queued is    *)
(* taken as clocked at once, and a flush that fails leaves the chain       *)
(* wherever it stopped.  A clock has the level of TMS, Hold where TMS is   *)
(* left as it is; what TDI shows and where TDO is stored are places        *)
(* <<field, bit>>, << >> for none.  A line that is released is "1" whether *)
(* it is driven or open-drain.                                             *)
(***************************************************************************)
EXTENDS TapPaths, SequencesExt

CONSTANTS
  Boards,       \* the boards: see Board
  Cycles,       \* numbers of cycles of a runtest or of stable clocks
  Moves,        \* the TMS bits of the paths to go along
  Scans         \* the lists of fields to scan

Controller == INSTANCE TapController WITH IrLen <- 1, DrLen <- 1, IdCode <- <<0>>
Stable == {s \in TapStates : tap_is_state_stable(s)}
Bytes == {"low", "high", "none"}     \* "none": the signal is not defined
\* tms: the level of TMS in jtag_output_init.
Board == [led: Bytes, trst: Bytes, srst: Bytes, tms: {0, 1},
          has_trst: BOOLEAN, has_srst: BOOLEAN, srst_pulls_trst: BOOLEAN]
Field == [num_bits: Nat, out: BOOLEAN, in: BOOLEAN]

\* What the constants are.
JtagAssumption ==
  /\ Boards \subseteq Board /\ Cycles \subseteq Nat
  /\ \A bits \in Moves : bits \in Seq({0, 1}) /\ bits # << >>
  /\ \A fields \in Scans : fields \in Seq(Field)

VARIABLES
  board,
  running,           \* inside ftdi_execute_queue
  state_follower, end_state_follower,
  led, trst, srst,   \* what the signals were last set to: "0", "1" or, at first, "init"
  trst_pin, srst_pin,\* are they asserted at the chain
  tms, tap,          \* external: the TMS pin and the state of the chain
  lost,              \* history: the chain may be elsewhere than the follower
  retval,            \* history: what ftdi_execute_queue returned last
  did                \* history: what the last command was to do and what it did,
                     \* where the chain was not lost

cable == <<led, trst, srst, trst_pin, srst_pin>>
vars == <<board, running, state_follower, end_state_follower, led, trst, srst, trst_pin,
          srst_pin, tms, tap, lost, retval, did>>

Nothing == [kind |-> "none", from |-> "RESET", cycles |-> 0, idled |-> 0,
            asked |-> << >>, shifted |-> << >>]

Init ==
  /\ board \in Boards /\ running = FALSE
  /\ state_follower = "RESET" /\ end_state_follower = "RESET"
  /\ led = "init" /\ trst = "init" /\ srst = "init" /\ trst_pin = FALSE /\ srst_pin = FALSE
  /\ tms = board.tms
  /\ tap \in Controller!TapState
  /\ lost = (tap # NameOf("RESET"))
  /\ retval = "none" /\ did = Nothing

\* Are the TAPs held in reset, by their pins and by what the signals were set to?
pulled(t, s) == t \/ (s /\ board.srst_pulls_trst)
held == pulled(trst_pin, srst_pin)
pins_in_step == trst_pin = (trst = "0") /\ srst_pin = (srst = "0")
held_by_driver == pulled(trst = "0", srst = "0")

-----------------------------------------------------------------------------
(* Clocks                                                                    *)

clocks_of(bits) == [k \in DOMAIN bits |-> [tms |-> bits[k], tdi |-> << >>, to |-> << >>]]

\* The move along the table's path.
move_to_state(from, goal) == clocks_of(tap_get_tms_path(short_tms_seqs, from, goal))
\* The move that is left out where nothing has to be moved.
move_if_needed(from, goal) == IF from # goal THEN move_to_state(from, goal) ELSE << >>

\* Clocks with one level of TMS, in commands of at most 7.
\* Mutant: a last command of fewer than 7 is forgotten.
Mutant_only_sevens(n, level) == clocks_of([k \in 1 .. 7 * (n \div 7) |-> level])
steady(n, level) == clocks_of([k \in 1 .. n |-> level])

Hold == -1
place(f, n, used) == IF used THEN <<f, n>> ELSE << >>

\* The first n bits of a field, by mpsse_clock_data, which does not touch TMS.
mpsse_clock_data(f, field, n) ==
  [k \in 1 .. n |-> [tms |-> Hold, tdi |-> place(f, k, field.out), to |-> place(f, k, field.in)]]

\* What the chain makes of a clock: where it goes, what it shifts and whether it idles.
\* A shift is one clock in a shift state, of ir or dr.
\* External: the chain follows its table unless it is held in reset.
shifting(state) == state \in {NameOf("DRSHIFT"), NameOf("IRSHIFT")}
turn(was, c) ==
  LET level == IF c.tms = Hold THEN was.tms ELSE c.tms
  IN [tap |-> IF held THEN NameOf("RESET") ELSE Controller!next_state(was.tap, level),
      tms |-> level,
      shifted |-> IF shifting(was.tap) /\ c.tdi \o c.to # << >>
                  THEN Append(was.shifted, <<was.tap, c.tdi, c.to>>) ELSE was.shifted,
      idled |-> was.idled + IF was.tap = NameOf("IDLE") /\ level = 0 THEN 1 ELSE 0]

\* What it makes of clocks.
run(was, clocks) ==
  LET r[k \in 0 .. Len(clocks)] == IF k = 0 THEN was ELSE turn(r[k - 1], clocks[k])
  IN r[Len(clocks)]
clocked(clocks) == run([tap |-> tap, tms |-> tms, shifted |-> << >>, idled |-> 0], clocks)

\* A command that clocks, and leaves the follower in goal.
drive(clocks, goal, what) ==
  LET result == clocked(clocks)
  IN /\ tap' = result.tap /\ tms' = result.tms
     /\ state_follower' = goal
     /\ did' = IF lost THEN Nothing
               ELSE [what EXCEPT !.from = state_follower, !.shifted = result.shifted,
                                 !.idled = result.idled]
     /\ UNCHANGED <<board, running, cable, retval>>

-----------------------------------------------------------------------------
(* The commands.  The core queues none but a reset while the TAPs are held.  *)

ready == running /\ ~held_by_driver

ftdi_execute_runtest(num_cycles, end_state) ==
  /\ ready
  /\ end_state_follower' = end_state
  /\ drive(move_if_needed(state_follower, "IDLE") \o steady(num_cycles, 0)
             \o move_if_needed("IDLE", end_state),
           end_state, [Nothing EXCEPT !.kind = "runtest", !.cycles = num_cycles])
  /\ UNCHANGED lost

\* A move to TAP_RESET is done wherever the follower is.
statemove_clocks(goal) ==
  IF state_follower # goal \/ goal = "RESET" THEN move_to_state(state_follower, goal) ELSE << >>

ftdi_execute_statemove(end_state) ==
  /\ ready
  /\ end_state_follower' = end_state
  /\ drive(statemove_clocks(end_state), end_state, [Nothing EXCEPT !.kind = "move"])
  /\ lost' = ((lost /\ end_state # "RESET") \/ held)

\* The bits that are found again from the states of a path.
\* Mutant: the transition is looked up from the state the path began in.
Mutant_from_start(start, path) ==
  [k \in DOMAIN path |-> IF tap_state_transition(start, 0) = path[k] THEN 0 ELSE 1]
path_bits(start, path) ==
  [k \in DOMAIN path |->
     IF tap_state_transition(IF k = 1 THEN start ELSE path[k - 1], 0) = path[k] THEN 0 ELSE 1]

\* A path is legal, not through TAP_RESET, and its end stable: the core's checks.
ftdi_execute_pathmove(path) ==
  LET goal == path[Len(path)]
  IN /\ ready
     /\ end_state_follower' = goal
     /\ drive(clocks_of(path_bits(state_follower, path)), goal, [Nothing EXCEPT !.kind = "move"])
     /\ UNCHANGED lost

\* The bits alone: the follower does not follow.
ftdi_execute_tms(bits) ==
  LET result == clocked(clocks_of(bits))
  IN /\ ready
     /\ tap' = result.tap /\ tms' = result.tms
     /\ lost' = TRUE /\ did' = Nothing
     /\ UNCHANGED <<board, running, cable, state_follower, end_state_follower, retval>>

ftdi_execute_stableclocks(num_cycles) ==
  /\ ready /\ tap_is_state_stable(state_follower)
  /\ drive(steady(num_cycles, IF state_follower = "RESET" THEN 1 ELSE 0), state_follower,
           [Nothing EXCEPT !.kind = "move"])
  /\ UNCHANGED <<end_state_follower, lost>>

-----------------------------------------------------------------------------
(* A scan                                                                    *)

\* Trailing fields of no bits are discarded.
trimmed(fields) ==
  LET used == {0} \cup {n \in DOMAIN fields : fields[n].num_bits > 0}
  IN SubSeq(fields, 1, CHOOSE n \in used : \A m \in used : m <= n)

\* Mutant: the last field's last bit is clocked before the move and again with it.
Mutant_last_bit_twice(fields, leaving) ==
  LET f == Len(fields)
  IN FlattenSeq([n \in DOMAIN fields |-> mpsse_clock_data(n, fields[n], fields[n].num_bits)])
     \o IF leaving THEN <<[tms |-> 1, tdi |-> place(f, fields[f].num_bits, fields[f].out),
                           to |-> place(f, fields[f].num_bits, fields[f].in)],
                          [tms |-> 0, tdi |-> << >>, to |-> << >>]>> ELSE << >>
\* The bits of the fields; when the shift state is left, with the last one, and on to
\* the pause state, TDI held.
scan_clocks(fields, leaving) ==
  LET f == Len(fields)
      last == fields[f].num_bits
      bits(n) == IF n = f /\ leaving THEN last - 1 ELSE fields[n].num_bits
      out == place(f, last, fields[f].out)
  IN FlattenSeq([n \in DOMAIN fields |-> mpsse_clock_data(n, fields[n], bits(n))])
     \o IF leaving THEN <<[tms |-> 1, tdi |-> out, to |-> place(f, last, fields[f].in)],
                          [tms |-> 0, tdi |-> out, to |-> << >>]>> ELSE << >>

\* The bits a scan asks for, each with its register: none of a field that neither
\* shows TDI anything nor stores TDO.
bits_asked(ir_scan, fields) ==
  LET register == NameOf(IF ir_scan THEN "IRSHIFT" ELSE "DRSHIFT")
      asked(f) == IF fields[f].out \/ fields[f].in THEN fields[f].num_bits ELSE 0
  IN FlattenSeq([f \in DOMAIN fields |-> [k \in 1 .. asked(f) |->
                   <<register, place(f, k, fields[f].out), place(f, k, fields[f].in)>>]])

ftdi_execute_scan(ir_scan, given, end_state) ==
  LET fields == trimmed(given)
      shift == IF ir_scan THEN "IRSHIFT" ELSE "DRSHIFT"
      pause == IF ir_scan THEN "IRPAUSE" ELSE "DRPAUSE"
      leaving == end_state # shift
  IN /\ ready
     /\ IF fields = << >>
        THEN /\ did' = Nothing
             /\ UNCHANGED <<board, running, cable, retval, tap, tms, state_follower,
                            end_state_follower>>
        ELSE /\ end_state_follower' = end_state
             /\ drive(move_if_needed(state_follower, shift) \o scan_clocks(fields, leaving)
                        \o (IF leaving THEN move_if_needed(pause, end_state) ELSE << >>),
                      end_state, [Nothing EXCEPT !.kind = "scan", !.asked = bits_asked(ir_scan, fields)])
     /\ UNCHANGED lost

-----------------------------------------------------------------------------
(* The reset lines, the LED and the queue                                    *)

\* The pin TMS after a signal of this byte has been set from one level to another:
\* the byte goes out with TMS as it was at the start.
tms_after(level, byte, changed) == IF byte = "low" /\ changed THEN board.tms ELSE level

\* What a reset command sets a line to: "keep" where it leaves it alone.
wanted(request, byte, has) ==
  CASE byte # "none" /\ request = 1 -> "0"
    [] byte # "none" /\ request = 0 /\ has -> "1"
    [] OTHER -> "keep"

\* Mutant: the level of a line that is left alone is not.
Mutant_sets_keep(level, goal) == goal
set(level, goal) == IF goal = "keep" THEN level ELSE goal
\* A level that is set already is not sent again.
pin_after(pin, level, goal) == IF goal = "keep" \/ goal = level THEN pin ELSE goal = "0"

\* Does the driver take a reset command for one that resets the TAPs?  On a board where
\* SRST pulls TRST, any srst but 0 does, -1 included, which leaves the line alone.
resets_chain(req_trst, req_srst) == req_trst = 1 \/ (req_srst # 0 /\ board.srst_pulls_trst)

ftdi_execute_reset(req_trst, req_srst) ==
  LET new_trst == wanted(req_trst, board.trst, board.has_trst)
      new_srst == wanted(req_srst, board.srst, board.has_srst)
      resets == resets_chain(req_trst, req_srst)
  IN /\ running
     /\ state_follower' = IF resets THEN "RESET" ELSE state_follower
     /\ trst' = set(trst, new_trst) /\ srst' = set(srst, new_srst)
     /\ trst_pin' = pin_after(trst_pin, trst, new_trst)
     /\ srst_pin' = pin_after(srst_pin, srst, new_srst)
     /\ tms' = tms_after(tms_after(tms, board.trst, trst' # trst), board.srst, srst' # srst)
     /\ tap' = IF pulled(trst_pin', srst_pin') THEN NameOf("RESET") ELSE tap
     /\ lost' = IF resets THEN ~(pulled(trst_pin', srst_pin') /\ pins_in_step') ELSE lost
     /\ did' = Nothing
     /\ UNCHANGED <<board, running, end_state_follower, led, retval>>

\* A flush that fails, somewhere: what was sent of the queue is not known.
break_off ==
  /\ trst_pin' \in IF trst = "init" THEN {FALSE} ELSE BOOLEAN
  /\ srst_pin' \in IF srst = "init" THEN {FALSE} ELSE BOOLEAN
  /\ tap' \in IF pulled(trst_pin', srst_pin') THEN {NameOf("RESET")} ELSE Controller!TapState
  /\ tms' \in {0, 1}
  /\ lost' = TRUE

\* The result of the flush is not looked at.
ftdi_execute_sleep ==
  /\ running /\ did' = Nothing
  /\ UNCHANGED <<tms, tap, trst_pin, srst_pin, lost>> \/ break_off
  /\ UNCHANGED <<board, running, state_follower, end_state_follower, led, trst, srst, retval>>

begin ==
  /\ ~running /\ running' = TRUE /\ did' = Nothing
  /\ led' = IF board.led = "none" THEN led ELSE "1"
  /\ tms' = tms_after(tms, board.led, led' # led)
  /\ retval' = "none"
  /\ UNCHANGED <<board, state_follower, end_state_follower, trst, srst, trst_pin, srst_pin,
                 tap, lost>>

finish ==
  /\ running /\ running' = FALSE /\ did' = Nothing
  /\ led' = IF board.led = "none" THEN led ELSE "0"
  /\ \/ /\ retval' = "ok"
        /\ tms' = tms_after(tms, board.led, led' # led)
        /\ UNCHANGED <<trst_pin, srst_pin, tap, lost>>
     \/ retval' = "error" /\ break_off
  /\ UNCHANGED <<board, state_follower, end_state_follower, trst, srst>>

Next ==
  \/ begin \/ finish
  \/ \E n \in Cycles, end_state \in Stable : ftdi_execute_runtest(n, end_state)
  \/ \E end_state \in Stable : ftdi_execute_statemove(end_state)
  \/ \E bits \in Moves :
       LET path == Tail([k \in 1 .. Len(bits) + 1 |-> walk(state_follower, bits)[k - 1]])
       IN /\ path[Len(path)] \in Stable /\ \A k \in DOMAIN path : path[k] # "RESET"
          /\ ftdi_execute_pathmove(path)
  \/ \E bits \in Moves : ftdi_execute_tms(bits)
  \/ \E n \in Cycles : ftdi_execute_stableclocks(n)
  \/ \E ir_scan \in BOOLEAN, fields \in Scans, end_state \in Stable :
       ftdi_execute_scan(ir_scan, fields, end_state)
  \/ \E req_trst, req_srst \in {-1, 0, 1} : ftdi_execute_reset(req_trst, req_srst)
  \/ ftdi_execute_sleep

Spec == Init /\ [][Next]_vars

-----------------------------------------------------------------------------
(* Properties                                                                *)

TypeOK ==
  /\ board \in Boards /\ running \in BOOLEAN
  /\ state_follower \in TapStates /\ end_state_follower \in Stable
  /\ {led, trst, srst} \subseteq {"init", "0", "1"}
  /\ trst_pin \in BOOLEAN /\ srst_pin \in BOOLEAN
  /\ tms \in {0, 1} /\ tap \in Controller!TapState
  /\ lost \in BOOLEAN /\ retval \in {"none", "ok", "error"}

\* The state follower is where the chain is (interface.h:44-48), through every command
\* and from one queue to the next.  The exceptions are those lost stands for: after a
\* TMS sequence (ftdi.c:404), after a flush that failed, and after a reset command that
\* sets the follower to TAP_RESET while no line is asserted: a TRST that no signal or no
\* byte asserts (ftdi.c:555-564), or an srst of -1 where SRST pulls TRST (ftdi.c:556).
\* A move to TAP_RESET ends them.
FollowerIsRight == ~lost => tap = NameOf(state_follower)

\* A scan shifts the bits of its fields through its own register, each once and in
\* order, and stores each where it belongs: those of earlier fields by data commands,
\* the last one with the move (ftdi.c:499-540).  No clock of a move shifts any.
ScanIsExact == did.kind = "scan" /\ ~lost => did.shifted = did.asked

\* A runtest spends its cycles in TAP_IDLE and no others (ftdi.c:361-376), but for
\* those of the path out of TAP_RESET.
RuntestCycles ==
  did.kind = "runtest" /\ ~lost /\ did.from # "RESET" => did.idled = did.cycles
=============================================================================
