------------------------------ MODULE OtmaPlugin ------------------------------
(***************************************************************************)
(* The Quartus plug-in for the FT232H (src/jtag_hw_otma.cpp) on top of the *)
(* MPSSE driver.  The JTAG server of Quartus loads it, looks for devices,  *)
(* stages clocks with clock_raw and clock_multiple, and calls do_flush:    *)
(* the staged clocks go to the driver one bit at a time, the queue is      *)
(* flushed, and what the chip answered is handed to p_op_store_tdo.        *)
(*                                                                         *)
(* The driver is the module MpsseQueue.  Position k of tdo_data, in a      *)
(* do_flush that began at tick base, is position base + k of the memory    *)
(* MpsseQueue speaks of: the memset at the end of do_flush leaves tdo_data *)
(* as empty as memory nobody has asked a bit for yet.                      *)
(***************************************************************************)
EXTENDS Integers, Sequences

CONSTANTS WriteSize, ReadSize, MaxCmdBytes, UintMod, NDEBUG, \* see MpsseQueue
          Lengths,   \* bound: clocks the server asks for in one call
          MaxTicks   \* bound: clocks in one behaviour

ASSUME DriverAssumption ==
  /\ WriteSize \in Nat /\ WriteSize >= 5
  /\ ReadSize \in Nat /\ ReadSize >= 1
  /\ MaxCmdBytes \in Nat /\ MaxCmdBytes >= 1
  /\ UintMod \in Nat /\ UintMod > WriteSize + ReadSize + MaxCmdBytes + 3
  /\ NDEBUG \in BOOLEAN
ASSUME ServerAssumption == MaxTicks \in Nat /\ Lengths \subseteq Nat

VARIABLES ctx, call, mem, tick, asked, outcome, status       \* see MpsseQueue

Mpsse == INSTANCE MpsseQueue

VARIABLES
  loaded,     \* the server has the table of functions (buffers allocated)
  device,     \* the global ctx: not asked for yet, NULL after a failed
              \* mpsse_open, or open
  found,      \* has find_devs told the server of a device?
  server,     \* are server_ops and server_ops_data set?
  staged,     \* tdi_data, tms_data and the two counters
  flushing,   \* the i of the loop of do_flush; NotFlushing outside of it
  requested,  \* every clock the server asked for, in order
  driven,     \* every clock handed to the driver's calls, in order
  report      \* what the last do_flush passed to p_op_store_tdo

driver == <<ctx, call, mem, tick, asked, outcome, status>>
plugin == <<loaded, device, found, server, staged, flushing, requested, driven, report>>
vars == <<driver, plugin>>

Bit == {0, 1}
Places == 0 .. MaxTicks - 1            \* the bits of a staging buffer
Buffer == INSTANCE Staging
NotFlushing == -1
NoReport == [rc |-> "none", first |-> 0, due |-> 0, tdo |-> << >>]

Up == status = "running"
\* The server calls the plug-in from one thread, and only once it has the
\* table of functions.
Called == Up /\ loaded /\ flushing = NotFlushing

-----------------------------------------------------------------------------
(* Loading and opening                                                       *)

get_supported_hardware(hw_type) ==
  /\ Up /\ flushing = NotFlushing
  /\ loaded' = (loaded \/ hw_type = 0)
  /\ UNCHANGED <<driver, device, found, server, staged, flushing, requested, driven, report>>

\* mpsse_open gives a context or NULL.
find_devs(dev_index, api_ver) ==
  /\ Called
  /\ IF api_ver < 4 \/ dev_index >= 1
     THEN found' = found /\ device' = device
     ELSE /\ found' = TRUE
          /\ IF device = "open" THEN device' = device ELSE device' \in {"open", "null"}
  /\ UNCHANGED <<driver, loaded, server, staged, flushing, requested, driven, report>>

init_dev(known, parent) ==
  /\ Called
  /\ server' = (server \/ (known /\ parent))
  /\ UNCHANGED <<driver, loaded, device, found, staged, flushing, requested, driven, report>>

-----------------------------------------------------------------------------
(* Staging                                                                   *)

Stage(clocks) ==
  /\ Called /\ server
  /\ Len(requested) + Len(clocks) <= MaxTicks
  /\ staged' = Buffer!stage(staged, clocks)
  /\ requested' = requested \o clocks
  /\ UNCHANGED <<driver, loaded, device, found, server, flushing, driven, report>>

clock_raw(tms, tdi, len) == Stage(Buffer!clock_raw(tms, tdi, len))
clock_multiple(tms, bits) == Stage(Buffer!clock_multiple(tms, bits))

-----------------------------------------------------------------------------
(* do_flush                                                                  *)

\* With ctx = NULL the first thing the driver does is to read through it.
do_flush ==
  /\ Called /\ server
  /\ IF device = "open"
     THEN flushing' = 0 /\ UNCHANGED status
     ELSE status' = "aborted" /\ UNCHANGED flushing
  /\ UNCHANGED <<ctx, call, mem, tick, asked, outcome,
                 loaded, device, found, server, staged, requested, driven, report>>

\* Mutant: the loop counts the wrong counter.
Mutant_counts_tdi(s) == [s EXCEPT !.tdi_data_count = @ + 1]
counted(s) == [s EXCEPT !.tdo_data_count = @ + 1]

\* One turn of the loop: the next staged bit goes to the driver.
clock_next ==
  /\ Up /\ flushing \in 0 .. staged.tdi_data_count - 1
  /\ Mpsse!mpsse_clock_tms_cs(TRUE, 1)
  /\ driven' = Append(driven, [tms |-> staged.tms[flushing], tdi |-> staged.tdi[flushing]])
  /\ staged' = counted(staged)
  /\ flushing' = flushing + 1
  /\ UNCHANGED <<loaded, device, found, server, requested, report>>

\* What mpsse_clock_tms_cs does inside of that turn.
clocking ==
  /\ flushing # NotFlushing
  /\ Mpsse!tms_turn
  /\ UNCHANGED plugin

\* Mutants: tms_data is not cleared; the count of answers is not cleared.
Mutant_tms_kept(s) == [Buffer!Empty EXCEPT !.tms = s.tms]
Mutant_tdo_count_kept(s) == [Buffer!Empty EXCEPT !.tdo_data_count = s.tdo_data_count]
cleared(s) == Buffer!Empty

\* The tail of do_flush.  The result of mpsse_flush is only printed.
finish_flush ==
  /\ flushing = staged.tdi_data_count
  /\ Mpsse!flush
  /\ IF status' # "running" THEN UNCHANGED <<staged, flushing, report>>
     ELSE /\ LET base == tick - flushing
             IN report' = [rc |-> outcome', first |-> base, due |-> flushing,
                           tdo |-> [k \in 1 .. staged.tdo_data_count |->
                                      IF base + k - 1 \in Places
                                      THEN mem'[base + k - 1] ELSE Mpsse!NoBit]]
          /\ staged' = cleared(staged)
          /\ flushing' = NotFlushing
  /\ UNCHANGED <<loaded, device, found, server, requested, driven>>

\* The driver does not come back from a flush, of its own or of do_flush.
hanging ==
  /\ flushing = staged.tdi_data_count \/ call.length > 0
  /\ flushing # NotFlushing
  /\ Mpsse!flush_hangs
  /\ UNCHANGED plugin

-----------------------------------------------------------------------------
Init ==
  /\ Mpsse!Init
  /\ loaded = FALSE /\ device = "unopened" /\ found = FALSE /\ server = FALSE
  /\ staged = Buffer!Empty /\ flushing = NotFlushing
  /\ requested = << >> /\ driven = << >> /\ report = NoReport

load == \E hw_type \in {0, 1} : get_supported_hardware(hw_type)
scan == \E dev_index \in {0, 1}, api_ver \in {3, 4} : find_devs(dev_index, api_ver)
open == \E known, parent \in BOOLEAN : init_dev(known, parent)
raw == \E tms, tdi \in Bit, len \in Lengths : clock_raw(tms, tdi, len)
multiple == \E tms \in Bit, len \in Lengths :
              \E bits \in [1 .. len -> Bit] : clock_multiple(tms, bits)

Next == \/ load \/ scan \/ open \/ raw \/ multiple
        \/ do_flush \/ clock_next \/ clocking \/ finish_flush \/ hanging

\* do_flush runs on the server's thread, which goes on running it.
Fairness == WF_vars(clock_next) /\ WF_vars(clocking) /\ WF_vars(finish_flush)

Spec == Init /\ [][Next]_vars
FairSpec == Spec /\ Fairness

-----------------------------------------------------------------------------
(* Properties                                                                *)

\* Every variable of the plug-in is of its type.
TypeOK ==
  /\ loaded \in BOOLEAN /\ found \in BOOLEAN /\ server \in BOOLEAN
  /\ device \in {"unopened", "null", "open"}
  /\ staged \in Buffer!Buffers /\ staged.tdi_data_count <= MaxTicks
  /\ flushing \in NotFlushing .. MaxTicks
  /\ requested \in Seq(Buffer!Clock) /\ driven \in Seq(Buffer!Clock)

\* Every clock the server asks for is handed to the driver once, in order and with its
\* own TMS and TDI: what the driver's calls were given, followed by what is still
\* staged, is what was requested.  (A flush that fails drops clocks the driver was given;
\* the pins are not part of this.)  The buffers are or-ed into
\* (jtag_hw_otma.cpp:159-160 and 182-183), so this needs the bits behind the
\* staged ones to be zero, which is for the memset of do_flush to see to.
DrivenAsRequested ==
  requested = driven \o Buffer!StagedFrom(staged, IF flushing = NotFlushing THEN 0 ELSE flushing)

\* do_flush reports one TDO bit per staged clock, and a bit it reports is the
\* one sampled at that very clock, or zero when the transfer failed; never that
\* of another clock, however often the driver's buffers filled up on the way
\* (jtag_hw_otma.cpp:125-136).
ReportIsOwnBits ==
  /\ Len(report.tdo) = report.due
  /\ \A k \in DOMAIN report.tdo :
       \/ report.tdo[k] = report.first + k - 1
       \/ report.rc = "fail" /\ report.tdo[k] = Mpsse!NoBit

\* Between two calls of the server the driver holds nothing of the last one: no
\* command unsent, no entry that points into tdo_data, no error kept back
\* (do_flush ends in mpsse_flush, jtag_hw_otma.cpp:129).
DriverAtRest ==
  Up /\ flushing = NotFlushing =>
    /\ ctx.write_count = 0 /\ ctx.read_count = 0 /\ ctx.read_queue = << >>
    /\ ctx.retval = "OK" /\ call = Mpsse!NoCall

\* A do_flush comes to p_op_indicate_flush (jtag_hw_otma.cpp:144), which the server waits
\* for, unless the process dies in it or a flush of the driver does not return, as with a
\* device that stays silent (mpsse.c:840-842).
FlushIsIndicated == flushing # NotFlushing ~> flushing = NotFlushing \/ ~Up

\* A device that was found can be used: "if (ctx == NULL) ... error opening
\* FTDI device" (test_mpsse.c:45-47).
FoundIsOpen == found => device = "open"
=============================================================================
