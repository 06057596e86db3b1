----------------------------- MODULE DummyPlugin -----------------------------
(***************************************************************************)
(* The plug-in without hardware (src/jtag_hw_dummy.cpp): clocks are staged *)
(* as in the FT232H plug-in, and do_flush runs them through the TAP        *)
(* controller one by one.  find_devs, find_descriptions, set_param,        *)
(* get_param, direct_control and do_close change nothing.                  *)
(***************************************************************************)
EXTENDS TapController

CONSTANTS Lengths,    \* bound: clocks the server asks for in one call
          MaxStaged   \* bound: clocks staged between two flushes

ASSUME StagedAssumption == Lengths \subseteq Nat /\ MaxStaged \in Nat

VARIABLES
  loaded,     \* the server has the table of functions (buffers allocated)
  server,     \* are server_ops and server_ops_data set?
  staged,     \* tdi_data, tms_data and the two counters
  tdo_data,   \* the buffer of answers
  tap,        \* jtag_controller
  flushing,   \* the i of the loop of do_flush; NotFlushing outside of it
  report      \* what the last do_flush passed to p_op_store_tdo

vars == <<loaded, server, staged, tdo_data, tap, flushing, report>>

Places == 0 .. MaxStaged - 1
Buffer == INSTANCE Staging
NotFlushing == -1

\* The server calls from one thread.
Called == loaded /\ flushing = NotFlushing

-----------------------------------------------------------------------------
get_supported_hardware(hw_type) ==
  /\ flushing = NotFlushing
  /\ loaded' = (loaded \/ hw_type = 0)
  /\ UNCHANGED <<server, staged, tdo_data, tap, flushing, report>>

init_dev(known, parent) ==
  /\ Called
  /\ server' = (server \/ (known /\ parent))
  /\ UNCHANGED <<loaded, staged, tdo_data, tap, flushing, report>>

Stage(clocks) ==
  /\ Called /\ server
  /\ staged.tdi_data_count + Len(clocks) <= MaxStaged
  /\ staged' = Buffer!stage(staged, clocks)
  /\ UNCHANGED <<loaded, server, tdo_data, tap, flushing, report>>

clock_raw(tms, tdi, len) == Stage(Buffer!clock_raw(tms, tdi, len))
clock_multiple(tms, bits) == Stage(Buffer!clock_multiple(tms, bits))

do_flush ==
  /\ Called /\ server
  /\ flushing' = 0
  /\ UNCHANGED <<loaded, server, staged, tdo_data, tap, report>>

\* Mutant: the loop counts the wrong counter.
Mutant_counts_tdi(s) == [s EXCEPT !.tdi_data_count = @ + 1]
counted(s) == [s EXCEPT !.tdo_data_count = @ + 1]

\* One turn of the loop.  The answer is or-ed in.
step_next ==
  /\ flushing \in 0 .. staged.tdi_data_count - 1
  /\ tap' = step(tap, staged.tms[flushing], staged.tdi[flushing])
  /\ tdo_data' = [tdo_data EXCEPT ![flushing] = Buffer!Or(@, tdo(tap))]
  /\ staged' = counted(staged)
  /\ flushing' = flushing + 1
  /\ UNCHANGED <<loaded, server, report>>

\* Mutant: the answers are not cleared.
Mutant_tdo_kept(tdo_bits) == tdo_bits
tdo_cleared(tdo_bits) == Buffer!Zeros

\* The tail of do_flush, up to p_op_indicate_flush.
finish_flush ==
  /\ flushing = staged.tdi_data_count
  /\ report' = [k \in 1 .. staged.tdo_data_count |-> tdo_data[k - 1]]
  /\ staged' = Buffer!Empty /\ tdo_data' = tdo_cleared(tdo_data)
  /\ flushing' = NotFlushing
  /\ UNCHANGED <<loaded, server, tap>>

-----------------------------------------------------------------------------
Init ==
  /\ loaded = FALSE /\ server = FALSE
  /\ staged = Buffer!Empty /\ tdo_data = Buffer!Zeros
  /\ tap = power_on /\ flushing = NotFlushing /\ report = << >>

load == \E hw_type \in {0, 1} : get_supported_hardware(hw_type)
open == \E known, parent \in BOOLEAN : init_dev(known, parent)
raw == \E tms, tdi \in Bit, len \in Lengths : clock_raw(tms, tdi, len)
multiple == \E tms \in Bit, len \in Lengths :
              \E bits \in [1 .. len -> Bit] : clock_multiple(tms, bits)

Next == load \/ open \/ raw \/ multiple \/ do_flush \/ step_next \/ finish_flush
Spec == Init /\ [][Next]_vars

-----------------------------------------------------------------------------
(* Properties                                                                *)

\* The clocks that have not reached the controller yet.
Waiting == Buffer!StagedFrom(staged, IF flushing = NotFlushing THEN 0 ELSE flushing)

Port == INSTANCE TapPort WITH
          tap <- after(tap, Waiting),
          answers <- [k \in 1 .. staged.tdo_data_count |-> tdo_data[k - 1]]
                       \o answered(tap, Waiting),
          MaxClocks <- MaxStaged

\* The plug-in keeps the promise of a port: whenever the server flushes, it gets
\* one TDO bit per clock it has asked for since the last flush, in order, as a
\* controller stepped at once by each would have answered, and the controller
\* is where those clocks lead (jtag_hw_dummy.cpp:99-130).  All three buffers
\* are or-ed into, so this needs every one of them cleared each time.
KeepsPort == Port!Spec
=============================================================================
