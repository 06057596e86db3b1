------------------------------ MODULE FtdiParts ------------------------------
(***************************************************************************)
(* The parts of OpenOCD's FTDI driver and the paths it moves along.  They  *)
(* do not act on each other here, so a behaviour is of one part, and the   *)
(* variables of the others have no value.  Where two parts have a variable *)
(* or a property of one name, it is the one of the part.                   *)
(*   ids      FtdiAdapter, for its table of ids: no layout is given        *)
(*   signals  FtdiAdapter, for its signals: one id is configured           *)
(*   jtag     FtdiJtag                                                     *)
(*   swd      FtdiSwd                                                      *)
(*   walk     TapWalk, which has no constants                              *)
(***************************************************************************)
EXTENDS Integers, Sequences

CONSTANTS
  Names, Layouts, Inits, Ids, NoId, MAX_USB_IDS,   \* of ids and signals: see FtdiAdapter
  Id,                                \* of signals: the one id
  Boards, Cycles, Moves, Scans,      \* of jtag: see FtdiJtag
  Room, MaxAlloc, MaxCalls, HasLed, NDEBUG     \* of swd: see FtdiSwd

VARIABLES
  part,
  signals, ids, swd_mode, init, latches, mpsse_ctx, ready, chip, configured, tried, mirror, was_set,
  board, running, state_follower, end_state_follower, led, trst, srst, trst_pin, srst_pin, tms, did,
  s, calls, told,
  tms_seqs, from, to, left, tracked, passed,
  lost,      \* of signals, ids and jtag
  tap,       \* of jtag and walk
  retval     \* of jtag and swd

adapter_own == <<signals, ids, swd_mode, init, latches, mpsse_ctx, ready, chip, configured, tried,
                 mirror, was_set>>
jtag_own == <<board, running, state_follower, end_state_follower, led, trst, srst, trst_pin,
              srst_pin, tms, did>>
swd_own == <<s, calls, told>>
walk_own == <<tms_seqs, from, to, left, tracked, passed>>
vars == <<part, adapter_own, jtag_own, swd_own, walk_own, lost, tap, retval>>

-----------------------------------------------------------------------------
(* The parts                                                                 *)

Adapter == INSTANCE FtdiAdapter
Jtag == INSTANCE FtdiJtag
Swd == INSTANCE FtdiSwd
Walk == INSTANCE TapWalk

\* What the constants are.
ASSUME FtdiAssumption ==
  /\ Adapter!AdapterAssumption /\ Id \in Ids
  /\ Jtag!JtagAssumption /\ Swd!SwdAssumption

None == "no value"
NoAdapter ==
  /\ signals = None /\ ids = None /\ swd_mode = None /\ init = None /\ latches = None
  /\ mpsse_ctx = None /\ ready = None /\ chip = None /\ configured = None /\ tried = None
  /\ mirror = None /\ was_set = None
NoJtag ==
  /\ board = None /\ running = None /\ state_follower = None /\ end_state_follower = None
  /\ led = None /\ trst = None /\ srst = None /\ trst_pin = None /\ srst_pin = None
  /\ tms = None /\ did = None
NoSwd == s = None /\ calls = None /\ told = None
NoWalk == /\ tms_seqs = None /\ from = None /\ to = None /\ left = None
          /\ tracked = None /\ passed = None

Init ==
  \/ /\ part \in {"ids", "signals"} /\ Adapter!Init
     /\ NoJtag /\ NoSwd /\ NoWalk /\ tap = None /\ retval = None
  \/ /\ part = "jtag" /\ Jtag!Init
     /\ NoAdapter /\ NoSwd /\ NoWalk
  \/ /\ part = "swd" /\ Swd!Init
     /\ NoAdapter /\ NoJtag /\ NoWalk /\ lost = None /\ tap = None
  \/ /\ part = "walk" /\ Walk!Init
     /\ NoAdapter /\ NoJtag /\ NoSwd /\ lost = None /\ retval = None

Next ==
  /\ UNCHANGED part
  /\ \/ /\ part = "ids" /\ Adapter!Next /\ signals' = signals /\ init' = init
        /\ UNCHANGED <<jtag_own, swd_own, walk_own, tap, retval>>
     \/ /\ part = "signals" /\ Adapter!Next /\ configured' \in {<< >>, <<Id>>}
        /\ UNCHANGED <<jtag_own, swd_own, walk_own, tap, retval>>
     \/ /\ part = "jtag" /\ Jtag!Next
        /\ UNCHANGED <<adapter_own, swd_own, walk_own>>
     \/ /\ part = "swd" /\ Swd!Next
        /\ UNCHANGED <<adapter_own, jtag_own, walk_own, lost, tap>>
     \/ /\ part = "walk" /\ Walk!Next
        /\ UNCHANGED <<adapter_own, jtag_own, swd_own, lost, retval>>

Spec == Init /\ [][Next]_vars

-----------------------------------------------------------------------------
(* Properties                                                                *)

\* Every variable has its type, and the table of USB ids has an end (ftdi.c:953).
TypeOK ==
  /\ part \in {"ids", "signals"} => Adapter!TypeOK /\ Adapter!IdsTerminated
  /\ part = "jtag" => Jtag!TypeOK
  /\ part = "swd" => Swd!TypeOK
  /\ part = "walk" => Walk!TypeOK

\* The state the driver keeps of the chain is the chain's, through every command of
\* a queue (ftdi.c:276-680) and at every clock of every path of both tables, which
\* end in the state they are for (interface.c:136-195, 234-325).
FollowerIsRight ==
  /\ part = "jtag" => Jtag!FollowerIsRight
  /\ part = "walk" => Walk!PathsArrive

\* A scan shifts its own bits, once and in order, into its own register, and a runtest
\* idles as long as it was asked to, out of TAP_RESET excepted (ftdi.c:352-389,
\* 458-545); no path shifts a bit on its way or ends a scan that is only interrupted,
\* and those out of reset have their extra clocks (interface.c:157-195).
CommandsAreExact ==
  /\ part = "jtag" => Jtag!ScanIsExact /\ Jtag!RuntestCycles
  /\ part = "walk" => Walk!MovesDoNotShift /\ Walk!ScanResumes /\ Walk!ExtraClocks

\* An SWD answer goes to an entry in use of the array there is, from there to its own
\* transaction's destination and only if it was good; while an error waits to be told
\* nothing is queued that would be dropped (ftdi.c:1119-1202).
AnswersAreOwn ==
  part = "swd" => Swd!PointersAlive /\ Swd!DataIsOwn /\ Swd!ErrorStopsQueue

\* A run of the SWD queue answers for every transaction since the last, also for those
\* a full queue ran on the way (ftdi.c:1119-1202).
RunTells == [][part = "swd" => Swd!RunTells]_vars

\* A signal has the level it was set to, through every alias, whatever was set before;
\* the chip has the latches the driver believes it to have (ftdi.c:188-239, 834-850).
SignalsHold ==
  part = "signals" => Adapter!LevelIsSet /\ Adapter!ChipInStep /\ Adapter!AliasInverts

\* ftdi_initialize tries what the last ftdi_vid_pid gave (ftdi.c:697-702, 930-956), and
\* setting a signal moves no pins but its own (ftdi.c:226-230).
ConfigurationHolds ==
  [][/\ part = "ids" => Adapter!TriesConfigured
     /\ part = "signals" => Adapter!OthersStay]_vars
=============================================================================
