----------------------------- MODULE FtdiAdapter -----------------------------
(***************************************************************************)
(* The FTDI adapter of OpenOCD (ftdi.c): the configuration commands, the   *)
(* signals, starting and stopping.  A queued command of the chip is one    *)
(* that sets a byte of its latches; a flush that fails may have delivered  *)
(* the first of those queued.  mpsse_open is taken from MpsseOpen as one   *)
(* call that succeeds when the device is there.                            *)
(***************************************************************************)
EXTENDS FtdiSignals, Sequences

CONSTANTS
  Names,         \* names of signals, SWD_EN among them
  Layouts,       \* for each name the signals that layout_signal may define by masks
  Inits,         \* the latches that layout_init may give
  Ids,           \* pairs of a vendor and a product
  NoId,          \* the pair 0, 0
  MAX_USB_IDS    \* 8

\* What the constants are.
AdapterAssumption ==
  /\ "SWD_EN" \in Names
  /\ \A name \in Names : \A s \in Layouts[name] : s \in Signal /\ Sensible(s)
  /\ Inits \subseteq Latches
  /\ NoId \notin Ids /\ MAX_USB_IDS \in Nat \ {0}

VARIABLES
  signals,      \* the signals defined: a function from their names
  ids,          \* ftdi_vid and ftdi_pid, from 0
  swd_mode,
  init,         \* jtag_output_init and jtag_direction_init
  latches,      \* output and direction
  mpsse_ctx,    \* "null", "open" or, after quit, "dangling"
  ready,        \* has ftdi_initialize succeeded
  chip,         \* external: the latches of the chip
  configured,   \* history: what the last ftdi_vid_pid gave; NoId when it failed
  tried,        \* history: the pairs the last ftdi_initialize has tried
  mirror,       \* history: the names of an -nalias and of what it is an alias of
  was_set,      \* history: the last signal set, and to what
  lost          \* history: has a flush failed since the start

conf == <<signals, ids, swd_mode, init, configured, mirror>>
vars == <<signals, ids, swd_mode, init, latches, mpsse_ctx, ready, chip, configured,
          tried, mirror, was_set, lost>>

Start == [output |-> {}, direction |-> {}]

Init ==
  /\ signals = << >> /\ ids = [n \in 0 .. MAX_USB_IDS |-> NoId] /\ swd_mode = FALSE
  /\ init = Start /\ latches = Start /\ mpsse_ctx = "null" /\ ready = FALSE
  /\ chip = Start /\ configured = << >> /\ tried = << >>
  /\ mirror = << >> /\ was_set = << >> /\ lost = FALSE

-----------------------------------------------------------------------------
(* Configuration                                                             *)

\* find_signal_by_name: the first of the list with the name.  create_signal puts a
\* new one behind it, so a name that is defined keeps its meaning.
defined(name) == name \in DOMAIN signals
with_signal(name, s) ==
  [n \in DOMAIN signals \cup {name} |-> IF n = name THEN s ELSE signals[n]]

ftdi_handle_layout_init_command(new) ==
  /\ ~ready
  /\ init' = new
  /\ UNCHANGED <<signals, ids, swd_mode, latches, mpsse_ctx, ready, chip, configured, tried,
                 mirror, was_set, lost>>

\* The option -alias, or with inverted -nalias, of a signal that is defined.
\* Mutant: the aliased signal's own inversion is lost.
Mutant_alias_absolute(s, inverted) ==
  [s EXCEPT !.invert_data = inverted, !.invert_input = inverted]
aliased(s, inverted) ==
  [s EXCEPT !.invert_data = (inverted # @), !.invert_input = (inverted # @)]

define_signal(name, s) ==
  /\ signals' = with_signal(name, s)
  /\ was_set' = << >>
  /\ UNCHANGED <<ids, swd_mode, init, latches, mpsse_ctx, ready, chip, configured, tried, lost>>

ftdi_handle_layout_signal_command(name) ==
  \/ \E s \in Layouts[name] :
       /\ define_signal(name, s)
       /\ mirror' = IF mirror # << >> /\ name \in {mirror[1], mirror[2]} THEN << >> ELSE mirror
  \/ \E of \in DOMAIN signals \ {name}, inverted \in BOOLEAN :
       /\ define_signal(name, aliased(signals[of], inverted))
       /\ mirror' = IF inverted THEN <<name, of>>
                    ELSE IF mirror # << >> /\ name \in {mirror[1], mirror[2]} THEN << >> ELSE mirror

\* The pairs of a command written over the table, and an end behind them if all parse.
\* Mutant: the table is not terminated.
Mutant_no_terminator(pairs, good) ==
  [n \in 0 .. MAX_USB_IDS |-> IF n < Len(pairs) THEN pairs[n + 1] ELSE ids[n]]
written(pairs, good) ==
  [n \in 0 .. MAX_USB_IDS |-> IF n < Len(pairs) THEN pairs[n + 1]
                              ELSE IF good /\ n = Len(pairs) THEN NoId
                              ELSE ids[n]]

\* A number of the pair behind the first n does not parse: its place has what it had, or,
\* when the vendor was good, a half of the new pair beside a half of the old: some pair.
half_written(pairs, n, half) == [written(SubSeq(pairs, 1, n), FALSE) EXCEPT ![n] = half]

\* Mutant: one pair more than the table has room for beside its end.
Mutant_one_too_many(pairs) ==
  IF Len(pairs) > MAX_USB_IDS THEN SubSeq(pairs, 1, MAX_USB_IDS + 1) ELSE pairs
\* Extra pairs are ignored; so is, before this, the odd last number.
cut_to_table(pairs) ==
  IF Len(pairs) > MAX_USB_IDS THEN SubSeq(pairs, 1, MAX_USB_IDS) ELSE pairs

ftdi_handle_vid_pid_command(given) ==
  /\ ~ready /\ given # << >>
  /\ LET pairs == cut_to_table(given)
     IN \/ /\ ids' = written(pairs, TRUE)
           /\ configured' = pairs
        \/ \E n \in 0 .. Len(pairs) - 1, half \in Ids \cup {NoId} :
             /\ ids' = half_written(pairs, n, half)
             /\ configured' = <<NoId>>
  /\ UNCHANGED <<signals, swd_mode, init, latches, mpsse_ctx, ready, chip, tried, mirror,
                 was_set, lost>>

\* ftdi_swd_init: create_signals adds TCK, TDI, TDO and TMS, if they are not there.
ftdi_swd_init ==
  /\ ~ready /\ ~swd_mode
  /\ swd_mode' = TRUE
  /\ signals' = IF "TMS" \in Names /\ ~defined("TMS")
                THEN with_signal("TMS", [NoSignal EXCEPT !.data_mask = {TmsPin}])
                ELSE signals
  /\ UNCHANGED <<ids, init, latches, mpsse_ctx, ready, chip, configured, tried, mirror,
                 was_set, lost>>

-----------------------------------------------------------------------------
(* Starting and stopping                                                     *)

\* The pairs up to the end of the table.
id_count == CHOOSE n \in 0 .. MAX_USB_IDS : ids[n] = NoId /\ \A m \in 0 .. n - 1 : ids[m] # NoId

\* A flush of these bytes: all arrive, or it fails and some have.
flush(bytes, ok) == \E arrived \in SUBSET bytes : /\ ok => arrived = bytes
                                                  /\ chip' = sent(chip, latches', arrived)

\* present: the pairs whose device can be opened.
ftdi_initialize(present) ==
  /\ ~ready /\ mpsse_ctx = "null"
  /\ LET found == {n \in 0 .. id_count - 1 : ids[n] \in present}
         first == CHOOSE n \in found : \A m \in found : n <= m
     IN IF found = {}
        THEN /\ tried' = [n \in 1 .. id_count |-> ids[n - 1]]
             /\ UNCHANGED <<latches, mpsse_ctx, ready, chip, was_set, lost>>
        ELSE /\ tried' = [n \in 1 .. first + 1 |-> ids[n - 1]]
             /\ mpsse_ctx' = "open"
             /\ was_set' = << >>
             /\ IF swd_mode /\ ~defined("SWD_EN")
                THEN latches' = init /\ UNCHANGED <<ready, chip, lost>>
                ELSE /\ latches' = IF swd_mode /\ signals["SWD_EN"].data_mask # {}
                                   THEN set_latches(init, signals["SWD_EN"], "1") ELSE init
                     /\ \E ok \in BOOLEAN :
                          /\ flush({LowByte, Pins \ LowByte}, ok)
                          /\ ready' = ok /\ lost' = ~ok
  /\ UNCHANGED conf

ftdi_quit ==
  /\ ready
  /\ mpsse_ctx' = "dangling" /\ ready' = FALSE
  /\ UNCHANGED <<conf, latches, chip, tried, was_set, lost>>

-----------------------------------------------------------------------------
(* Setting and reading a signal                                              *)

ftdi_set_signal(s, value) ==
  IF can_set(s, value) THEN latches' = set_latches(latches, s, value)
  ELSE UNCHANGED latches

\* The result of ftdi_set_signal is not looked at; the flush's is returned.
ftdi_handle_set_signal_command(name, value) ==
  /\ ready /\ defined(name)
  /\ ftdi_set_signal(signals[name], value)
  /\ was_set' = IF can_set(signals[name], value) THEN <<name, value>> ELSE << >>
  /\ \E ok \in BOOLEAN : /\ flush(changed_bytes(latches, latches'), ok)
                         /\ lost' = (lost \/ ~ok)
  /\ UNCHANGED <<conf, mpsse_ctx, ready, tried>>

Next ==
  \/ \E new \in Inits : ftdi_handle_layout_init_command(new)
  \/ \E name \in Names : ftdi_handle_layout_signal_command(name)
  \/ \E n \in 1 .. MAX_USB_IDS + 1 : \E pairs \in [1 .. n -> Ids] :
       ftdi_handle_vid_pid_command(pairs)
  \/ ftdi_swd_init
  \/ \E present \in SUBSET Ids : ftdi_initialize(present)
  \/ ftdi_quit
  \/ \E name \in Names, value \in Levels : ftdi_handle_set_signal_command(name, value)

Spec == Init /\ [][Next]_vars

-----------------------------------------------------------------------------
(* Properties                                                                *)

TypeOK ==
  /\ DOMAIN signals \subseteq Names /\ \A n \in DOMAIN signals : signals[n] \in Signal
  /\ ids \in [0 .. MAX_USB_IDS -> Ids \cup {NoId}]
  /\ swd_mode \in BOOLEAN /\ init \in Latches /\ latches \in Latches /\ chip \in Latches
  /\ mpsse_ctx \in {"null", "open", "dangling"} /\ ready \in BOOLEAN
  /\ lost \in BOOLEAN

\* The table of USB ids has an end within its bounds (ftdi.c:121-124, 930-953).
IdsTerminated == \E n \in 0 .. MAX_USB_IDS : ids[n] = NoId

\* ftdi_initialize tries what the last ftdi_vid_pid configured, from the beginning
\* and nothing else: no pairs of an earlier, longer command are left behind the new
\* ones (ftdi.c:949-953).
TriesConfigured ==
  tried' # tried /\ configured # <<NoId>> =>
    /\ Len(tried') <= Len(configured)
    /\ tried' = SubSeq(configured, 1, Len(tried'))

\* Only changed bytes are sent (ftdi.c:233-236), yet the chip's latches are always
\* the driver's, as long as no flush has failed since the start.
ChipInStep == ready /\ ~lost => chip = latches

\* A signal that has been set has its level at the chip, whatever was set before and
\* whatever pins it has for data and output-enable (ftdi.c:198-230).
LevelIsSet ==
  ready /\ ~lost /\ was_set # << >> => level(chip, signals[was_set[1]]) = was_set[2]

\* Setting a signal moves only its own pins (ftdi.c:226-230).
OthersStay ==
  ready /\ ready' /\ was_set' # << >> /\ latches' # latches =>
    LET s == signals[was_set'[1]]
        own == s.data_mask \cup s.oe_mask
    IN /\ latches'.output \ own = latches.output \ own
       /\ latches'.direction \ own = latches.direction \ own

\* An -nalias is the opposite of its signal, whether that is itself inverted or not:
\* a level set through it and a level read through it (ftdi.c:834-850).
AliasInverts ==
  mirror # << >> =>
    LET s == signals[mirror[1]]
        t == signals[mirror[2]]
    IN /\ \A l \in {init, latches} : set_latches(l, s, "1") = set_latches(l, t, "0")
       /\ \A pins \in {{}, chip.output, Pins} :
            read_signal(pins, s) = t.input_mask \ read_signal(pins, t)
=============================================================================
