------------------------------ MODULE MpsseOpen ------------------------------
(***************************************************************************)
(* Opening and closing the FTDI chip (mpsse.c:113-435): what mpsse_open    *)
(* and open_matching_device acquire, on which device they work, and what   *)
(* each of their error paths gives back.                                   *)
(*                                                                         *)
(* Every libusb call is one step that may fail.  A handle is known by the  *)
(* place of its device in the list: one list is walked once, so a device   *)
(* is opened at most once per mpsse_open.  Strings, numbers and addresses  *)
(* are values to compare.  Using what is no longer there is undefined      *)
(* behaviour: pc is "undefined" and the model stops.                       *)
(***************************************************************************)
EXTENDS Integers, Sequences, FiniteSets

CONSTANTS
  Buses,        \* the lists of devices libusb may find
  Filters,      \* what callers ask for: fields to match, NULL is any
  Channels,     \* interface numbers callers ask for
  NULL,
  PortNumbers   \* is HAVE_LIBUSB_GET_PORT_NUMBERS defined

Fields == {"vid", "pid", "product", "serial"}
ChipTypes == [c \in {1280, 1792, 2048, 2304} |->
                CASE c = 1280 -> "FT2232C" [] c = 1792 -> "FT2232H"
                  [] c = 2048 -> "FT4232H" [] c = 2304 -> "FT232H"]

\* A device: its descriptor, where it is plugged in, and the directions of the
\* endpoints of each of its interfaces.
IsDevice(d) ==
  /\ DOMAIN d = Fields \cup {"bcdDevice", "bus", "path", "interfaces"}
  /\ d.bcdDevice \in Nat /\ d.bus \in Nat
  /\ d.path \in Seq(Nat) /\ Len(d.path) <= 7
  /\ d.interfaces \in Seq(Seq({"in", "out"}))

\* What the constants are.
OpenAssumption ==
  /\ \A b \in Buses : b \in Seq({b[n] : n \in DOMAIN b}) /\ \A n \in DOMAIN b : IsDevice(b[n])
  /\ \A f \in Filters :
       /\ DOMAIN f = Fields \cup {"location"}
       /\ f.location # NULL => f.location.ports \in Seq(Nat)
  /\ Channels \subseteq Nat /\ PortNumbers \in BOOLEAN

VARIABLES
  pc,        \* where mpsse_open or mpsse_close is, "closed", "failed" or "open"
  asked,     \* the parameters vid, pid, description, serial, location
  ctx,       \* the fields of struct mpsse_ctx that are set here
  i,         \* the loop variable of open_matching_device
  list,      \* its list of devices: "none", "held", or "garbage" as declared
  config0,   \* is the configuration descriptor held
  bus,       \* external: the devices of the list
  opened,    \* external: the handles libusb has open
  claimed,   \* external: the handles whose interface is claimed
  touched    \* history: the devices configured, detached, claimed or reset

vars == <<pc, asked, ctx, i, list, config0, bus, opened, claimed, touched>>

Places == {"closed", "failed", "open", "undefined", "init", "list", "scan", "filter",
           "found", "config", "configure", "claim", "reset", "describe", "latency",
           "bitmode", "error"}
Buffers == {"read_chunk", "read_buffer", "write_buffer"}

\* usb_dev is a place in the list, 0 the null pointer.
Contexts == [buffers: SUBSET Buffers, usb_ctx: BOOLEAN, usb_dev: Nat, interface: Nat,
             type: {"none", "FT2232C", "FT2232H", "FT4232H", "FT232H"}, endpoints: BOOLEAN]
NoCtx == [buffers |-> {}, usb_ctx |-> FALSE, usb_dev |-> 0, interface |-> 0,
          type |-> "none", endpoints |-> FALSE]
NoFilter == [f \in Fields \cup {"location"} |-> NULL]

Init == /\ pc = "closed" /\ asked = NoFilter /\ ctx = NoCtx /\ i = 0
        /\ list = "none" /\ config0 = FALSE /\ bus = << >>
        /\ opened = {} /\ claimed = {} /\ touched = {}

-----------------------------------------------------------------------------
(* Comparing a device with what is asked for                                 *)

\* The steps of the while loop: numbers of the location that agree with the
\* path, counted on past the end of the path.
path_steps(path, ports) ==
  LET stops(n) == \/ n = 7 \/ n = Len(ports)
                  \/ n < Len(path) /\ ports[n + 1] # path[n + 1]
  IN CHOOSE n \in 0 .. 7 : stops(n) /\ \A m \in 0 .. n - 1 : ~stops(m)

\* Mutant: a location that is the beginning of the path is taken for it.
Mutant_prefix_equal(device, location) ==
  /\ PortNumbers /\ location.bus = device.bus
  /\ path_steps(device.path, location.ports) = Len(location.ports)
device_location_equal(device, location) ==
  /\ PortNumbers
  /\ location.bus = device.bus
  /\ path_steps(device.path, location.ports) = Len(device.path)

wanted(field, device) == asked[field] \in {NULL, device[field]}

\* Mutant: the serial number is not looked at.
Mutant_no_serial(device) ==
  /\ asked.location # NULL => device_location_equal(device, asked.location)
  /\ wanted("product", device)
passes_filter(device) ==
  /\ asked.location # NULL => device_location_equal(device, asked.location)
  /\ wanted("product", device)
  /\ wanted("serial", device)

\* Is a string of the open device fetched at all.
fetches_string == asked.product # NULL \/ asked.serial # NULL

-----------------------------------------------------------------------------
(* Giving back                                                               *)

\* libusb_close(ctx->usb_dev): a handle that is not open is not looked for.
libusb_close(to) ==
  /\ opened' = opened \ {ctx.usb_dev}
  /\ claimed' = claimed \ {ctx.usb_dev}
  /\ pc' = IF ctx.usb_dev \in opened THEN to ELSE "undefined"

\* Mutant: mpsse_open leaves usb_dev as open_matching_device left it.
Mutant_keeps_dev == UNCHANGED ctx
forget_dev == ctx' = [ctx EXCEPT !.usb_dev = 0]

\* Mutant: the handle is closed after libusb_exit.
Mutant_exit_first(to) ==
  IF ctx.usb_ctx THEN /\ ctx' = [ctx EXCEPT !.usb_ctx = FALSE]
                      /\ UNCHANGED <<pc, opened, claimed>>
  ELSE /\ ctx' = NoCtx
       /\ IF ctx.usb_dev # 0 THEN libusb_close(to)
          ELSE pc' = to /\ UNCHANGED <<opened, claimed>>
mpsse_close(to) ==
  /\ ctx' = NoCtx
  /\ IF ctx.usb_dev # 0 THEN libusb_close(to)
     ELSE pc' = to /\ UNCHANGED <<opened, claimed>>

close ==
  /\ pc = "open"
  /\ mpsse_close("closed")
  /\ UNCHANGED <<asked, i, list, config0, bus, touched>>

open_error ==
  /\ pc = "error"
  /\ mpsse_close("failed")
  /\ UNCHANGED <<asked, i, list, config0, bus, touched>>

-----------------------------------------------------------------------------
(* mpsse_open up to open_matching_device                                     *)

mpsse_open(filter, channel) ==
  /\ pc \in {"closed", "failed"}
  /\ asked' = filter
  /\ touched' = {} /\ bus' = << >> /\ i' = 0
  /\ \/ pc' = "failed" /\ UNCHANGED ctx                         \* calloc
     \/ \E got \in SUBSET Buffers :
          /\ ctx' = [NoCtx EXCEPT !.buffers = got, !.interface = channel]
          /\ pc' = IF got = Buffers THEN "init" ELSE "error"
  /\ UNCHANGED <<list, config0, opened, claimed>>

libusb_init ==
  /\ pc = "init"
  /\ \/ pc' = "error" /\ UNCHANGED ctx
     \/ pc' = "list" /\ ctx' = [ctx EXCEPT !.usb_ctx = TRUE]
  /\ UNCHANGED <<asked, i, list, config0, bus, opened, claimed, touched>>

-----------------------------------------------------------------------------
(* open_matching_device: the search                                          *)

\* With cnt < 0 the loop is not entered, and list is what it was: nothing.
get_device_list ==
  /\ pc = "list"
  /\ pc' = "scan" /\ i' = 1
  /\ \/ list' = "garbage" /\ bus' = << >>
     \/ list' = "held" /\ bus' \in Buses
  /\ UNCHANGED <<asked, ctx, config0, opened, claimed, touched>>

at == bus[i]
\* Mutant: i is counted on twice, by the loop and by its body.
Mutant_counts_twice == pc' = "scan" /\ i' = i + 2
next_device == pc' = "scan" /\ i' = i + 1

\* The device is passed over: no descriptor, another chip, or it does not open.
scan_skips ==
  /\ pc = "scan" /\ i <= Len(bus)
  /\ next_device
  /\ UNCHANGED <<asked, ctx, list, config0, bus, opened, claimed, touched>>

scan_opens ==
  /\ pc = "scan" /\ i <= Len(bus)
  /\ wanted("vid", at) /\ wanted("pid", at)
  /\ pc' = "filter"
  /\ ctx' = [ctx EXCEPT !.usb_dev = i]
  /\ opened' = opened \cup {i}
  /\ UNCHANGED <<asked, i, list, config0, bus, claimed, touched>>

\* usb_dev is left pointing at the handle that has been closed.
filter_refuses ==
  /\ pc = "filter"
  /\ ~passes_filter(at) \/ fetches_string
  /\ libusb_close("scan")
  /\ i' = i + 1
  /\ UNCHANGED <<asked, ctx, list, config0, bus, touched>>

filter_accepts ==
  /\ pc = "filter"
  /\ passes_filter(at)
  /\ pc' = "found"
  /\ UNCHANGED <<asked, ctx, i, list, config0, bus, opened, claimed, touched>>

\* libusb_free_device_list(list, 1) of a pointer never set may do anything, or,
\* when it happens to be NULL, nothing.
free_device_list ==
  /\ \/ pc = "found"
     \/ pc = "scan" /\ i > Len(bus)
  /\ \/ list = "garbage" /\ pc' = "undefined" /\ UNCHANGED <<ctx, list>>
     \/ pc = "found" /\ pc' = "config" /\ list' = "none" /\ UNCHANGED ctx
     \/ pc = "scan" /\ pc' = "error" /\ list' = "none" /\ forget_dev
  /\ UNCHANGED <<asked, i, config0, bus, opened, claimed, touched>>

-----------------------------------------------------------------------------
(* open_matching_device: setting the device up                               *)

\* The labels error and desc_error, and the return of mpsse_open after them.
\* Mutant: the handle is left open.
Mutant_leaves_handle == /\ config0' = FALSE /\ forget_dev
                        /\ pc' = "error" /\ UNCHANGED <<opened, claimed>>
give_up == /\ config0' = FALSE
           /\ libusb_close("error")
           /\ forget_dev

get_config_descriptor ==
  /\ pc = "config"
  /\ \/ give_up
     \/ config0' = TRUE /\ pc' = "configure" /\ UNCHANGED <<ctx, opened, claimed>>
  /\ UNCHANGED <<asked, i, list, bus, touched>>

\* get_configuration, set_configuration, and the detaching of the kernel's driver,
\* whose failure is only logged.
select_configuration ==
  /\ pc = "configure"
  /\ touched' \in {touched, touched \cup {i}}
  /\ \/ give_up
     \/ pc' = "claim" /\ UNCHANGED <<ctx, config0, opened, claimed>>
  /\ UNCHANGED <<asked, i, list, bus>>

claim_interface ==
  /\ pc = "claim"
  /\ \/ give_up /\ UNCHANGED touched
     \/ /\ pc' = "reset" /\ claimed' = claimed \cup {ctx.usb_dev}
        /\ touched' = touched \cup {i}
        /\ UNCHANGED <<ctx, config0, opened>>
  /\ UNCHANGED <<asked, i, list, bus>>

\* The reset request, then the chip's type from its descriptor.
reset_device ==
  /\ pc = "reset"
  /\ \/ give_up
     \/ /\ at.bcdDevice \in DOMAIN ChipTypes
        /\ pc' = "describe"
        /\ ctx' = [ctx EXCEPT !.type = ChipTypes[at.bcdDevice]]
        /\ UNCHANGED <<config0, opened, claimed>>
  /\ UNCHANGED <<asked, i, list, bus, touched>>

\* The interface is there, with one endpoint each way.
recognized(d) ==
  /\ ctx.interface < Len(d.interfaces)
  /\ LET eps == d.interfaces[ctx.interface + 1]
     IN /\ Len(eps) = 2
        /\ {eps[1], eps[2]} = {"in", "out"}

read_descriptor ==
  /\ pc = "describe"
  /\ IF recognized(at)
     THEN /\ pc' = "latency" /\ config0' = FALSE
          /\ ctx' = [ctx EXCEPT !.endpoints = TRUE]
          /\ UNCHANGED <<opened, claimed>>
     ELSE give_up
  /\ UNCHANGED <<asked, i, list, bus, touched>>

\* The two control transfers of mpsse_open, and mpsse_purge, whose failure is
\* only logged.
set_latency ==
  /\ pc = "latency" /\ pc' \in {"error", "bitmode"}
  /\ UNCHANGED <<asked, ctx, i, list, config0, bus, opened, claimed, touched>>
set_bitmode ==
  /\ pc = "bitmode" /\ pc' \in {"error", "open"}
  /\ UNCHANGED <<asked, ctx, i, list, config0, bus, opened, claimed, touched>>

Next == \/ \E f \in Filters, ch \in Channels : mpsse_open(f, ch)
        \/ close
        \/ libusb_init \/ get_device_list \/ scan_skips \/ scan_opens
        \/ filter_refuses \/ filter_accepts \/ free_device_list
        \/ get_config_descriptor \/ select_configuration \/ claim_interface
        \/ reset_device \/ read_descriptor \/ set_latency \/ set_bitmode
        \/ open_error

Spec == Init /\ [][Next]_vars

-----------------------------------------------------------------------------
(* Properties                                                                *)

TypeOK ==
  /\ pc \in Places
  /\ DOMAIN asked = Fields \cup {"location"}
  /\ ctx \in Contexts
  /\ i \in 0 .. Len(bus) + 1 /\ list \in {"none", "held", "garbage"} /\ config0 \in BOOLEAN
  /\ bus \in Buses \cup {<< >>}
  /\ opened \subseteq DOMAIN bus /\ claimed \subseteq opened /\ touched \subseteq DOMAIN bus

\* An mpsse_open that fails, at whatever call, has given back all it acquired, and
\* so has mpsse_close: find_devs (otma:70-72) and ftdi_initialize (ftdi.c:698-703)
\* try again after a failure, for as long as the server asks.
NothingKept ==
  pc \in {"closed", "failed"} =>
    /\ ctx = NoCtx /\ list = "none" /\ ~config0
    /\ opened = {} /\ claimed = {}

\* The only use of something that is not there is the free of a device list that
\* was never fetched (mpsse.c:195, 239); in particular no handle is closed twice,
\* though usb_dev keeps pointing at closed handles while the search goes on
\* (mpsse.c:216-230) and is closed by both functions' error paths (325, 387, 421).
UndefinedOnlyByList == pc = "undefined" => list = "garbage"

\* A context that mpsse_open returns is ready: its device is open, claimed, of a
\* known type and with both endpoints, and it is one the caller asked for - the
\* location walked by device_location_equal (mpsse.c:128-173) being its own path.
\* Nothing else that the search opened is still open.
OpenIsAsked ==
  pc = "open" =>
    LET d == bus[ctx.usb_dev]
    IN /\ opened = {ctx.usb_dev} /\ claimed = opened
       /\ \A f \in Fields : asked[f] \in {NULL, d[f]}
       /\ asked.location # NULL =>
            /\ asked.location.bus = d.bus
            /\ d.path = [n \in DOMAIN asked.location.ports \cap 1 .. 7 |->
                           asked.location.ports[n]]
       /\ ctx.type = ChipTypes[d.bcdDevice]
       /\ \E a, b \in 1 .. 2 : /\ d.interfaces[ctx.interface + 1][a] = "in"
                               /\ d.interfaces[ctx.interface + 1][b] = "out"

\* A device the caller did not ask for is opened at most to read its strings: it is
\* not configured, its kernel driver is not detached, it is not claimed or reset
\* (mpsse.c:256-290 come after the search).
OthersLeftAlone ==
  \A d \in touched : \A f \in Fields : asked[f] \in {NULL, bus[d][f]}

\* libusb_exit comes last: as long as a handle is open or the list is held, there is
\* the context they belong to (mpsse.c:419-424), and it is never without the buffers.
ContextOutlives ==
  opened # {} \/ list = "held" => ctx.usb_ctx /\ ctx.buffers = Buffers
=============================================================================
