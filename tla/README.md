# Formal models of the FT232H JTAG driver for Quartus

This directory holds TLA+ specifications of the repository's program, TLC
configurations that check them on small instances, and TLAPS proofs that hold for
every value of the constants. Paths and line numbers refer to the source tree;
`mpsse.c` is `openocd/src/jtag/drivers/mpsse.c`, `otma` is
`src/jtag_hw_otma.cpp`, `dummy` is `src/jtag_hw_dummy.cpp`, `ftdi.c` is
`openocd/src/jtag/drivers/ftdi.c`, `interface.c` is `openocd/src/jtag/interface.c`.

## 1. The system

Quartus' JTAG server loads a shared library (the *plug-in*), fetches a table of
functions from it and stages clock cycles - a TMS and a TDI bit each - with
`clock_raw` and `clock_multiple`. `do_flush` runs the staged clocks and hands the
captured TDO bits back through two callbacks. The repository has two plug-ins:
*otma* drives an FT232H over USB with the MPSSE driver taken from OpenOCD, *dummy*
steps a simulated TAP controller.

| component | source | state | operations |
|---|---|---|---|
| MPSSE command queue | `mpsse.c:442-767` | `struct mpsse_ctx`: write and read buffer counts, read queue, remembered error `retval` | `mpsse_clock_*`, `mpsse_set_*`, `mpsse_read_*`, `mpsse_purge`, `mpsse_flush` |
| MPSSE transfer | `mpsse.c:800-969` | two libusb transfers, two `transfer_result`s, the FIFOs of the chip | submit, callbacks, polling loop, cancel, free, purge |
| open and close | `mpsse.c:113-440` | libusb context, device handle, claimed interface, buffers | `mpsse_open`, `open_matching_device`, `mpsse_close` |
| speed | `mpsse.c:747-798` | divisor, divide-by-5, RTCK | `mpsse_set_frequency` |
| bit and text helpers | `openocd/src/helper/binarybuffer.c`, `.h` | queue of copies | `buf_set_buf`, `bit_copy_queued/execute/discard`, comparisons, shifts, text and back |
| linked lists | `openocd/src/helper/list.h` | two pointers an entry | add, delete, move, replace, cut, splice, the loop that may free |
| otma plug-in | `otma` | global `ctx`, three staging buffers and two counters, `server_ops` | the table of functions at 207-223 |
| dummy plug-in | `dummy` | the same buffers, a TAP controller | the same table |
| TAP controller | `inc/jtag_tap_controller.hpp`, `inc/shift_reg.hpp` | TAP state, instruction, three shift registers, a bit counter | `step` |
| FTDI adapter driver | `ftdi.c` | signals, output and direction latches, table of USB ids, SWD queue | configuration commands, start and stop, JTAG commands, SWD transactions; linked, called by nothing here. Under `#if 0` are the queue of states (276-305), the JTAG commands (339-682), the configuration commands (740-1061) and the SWD code (1091-1308) |
| TMS paths | `interface.c` | tables of state moves, the tracked state | moves between stable states; not linked into a target |
| test utility | `src/test_mpsse.c` | the bits it sends and receives | one fixed sequence of clocks |
| debug socket, declarations | `inc/sock_debug.hpp`, `helper/*`, `jtag.h` | - | logging; macros |

**How they interact.** Everything runs on the server's one thread: server →
plug-in → driver → libusb. libusb runs `read_cb` and `write_cb` inside
`libusb_handle_events_timeout_completed`, that is inside `mpsse_flush`. The only
real concurrency is with the device: the chip takes commands, executes them and
produces answers while the host is anywhere in its code.

**What is hard here.**
* A queuing call may run a flush in the middle of itself to make room
  (`mpsse.c:537, 611, ...`), and that flush may fail.
* Buffers fill up at different rates, with unsigned arithmetic around the limit.
* Captured bits travel through packed response bytes and a queue of copies and
  arrive long after they were asked for.
* A transfer may be cut short, time out, be cancelled or lose its device; what it
  leaves in the chip must not be mistaken for the answer to a later command.
* Opening walks a list of devices, with about twenty calls that may fail, each
  leaving something else to give back.
* The FTDI driver keeps copies of what it cannot see - the state of the chain, the
  latches of the chip, pointers handed to the driver below - and a flush that fails
  makes any of them wrong.
* The plug-in or-s bits into buffers that it must have cleared, and does one driver
  call per bit, so a flush of the server is usually many flushes of the driver.

**What makes each part correct.** Queue: no buffer overflows, every bit asked for
reaches its own place by the next successful flush or the failure is told, every
call returns. Transfer: a flush that succeeds sent its own commands once, in order,
and holds its own answers; it ends; the chip is quiet between flushes. Plug-in:
the chip sees exactly the clocks the server asked for and the server gets exactly
their TDO bits. Controller: a scan delays by the length of its register, the
instruction is the one shifted in, a reset is reached from anywhere. Open: what is
opened is what was asked for, what is acquired is given back once. FTDI driver: the
state follower is where the chain is, a scan shifts its own bits through its own
register, a set signal has its level, an SWD answer goes to its own destination and an
error is told. Helpers: a call changes the bits, digits or entries it names and no
others. The full list of hazards, each at its line, is in `PROJECT.json`.

## 2. The modules

| module | models | extends / instantiates |
|---|---|---|
| `MpsseContract` | what the driver promises its callers, without buffers or a queue | - |
| `MpsseQueue` | the command queue, turn by turn of the clock loops | instantiates `MpsseContract` as the specification it implements |
| `MpsseQueueProofs` | theorems about `MpsseQueue` | extends `MpsseQueue`, `TLAPS` |
| `MpsseTransfer` | the inside of `mpsse_flush`, the callbacks, the chip | - |
| `MpsseTransferProofs` | theorems about `MpsseTransfer` | extends `MpsseTransfer`, `TLAPS` |
| `Staging` | the buffers clocks are staged in, the same code in both plug-ins | - |
| `OtmaPlugin` | the plug-in on top of the driver | instantiates `MpsseQueue`, `Staging` |
| `OtmaPluginProofs` | theorems about `OtmaPlugin` | extends `OtmaPlugin`, `TLAPS`, instantiates `MpsseQueueProofs` for its lemmas |
| `TapController` | the simulated TAP controller: its tables, registers and `step`, as functions | - |
| `TapSession` | a controller under any sequence of clocks, with a history of the current scan | extends `TapController` |
| `TapSessionProofs` | theorems about `TapSession` | extends `TapSession`, `TLAPS` |
| `TapPort` | what a plug-in promises the server: a controller stepped at once by every clock | extends `TapController` |
| `DummyPlugin` | the plug-in without hardware | extends `TapController`, instantiates `Staging`, and `TapPort` as the specification it implements |
| `DummyPluginProofs` | theorems about `DummyPlugin` | extends `DummyPlugin`, `TLAPS`, instantiates `TapSessionProofs` for its lemmas |
| `MpsseOpen` | `mpsse_open`, the search for the device, `mpsse_close`, call by call | - |
| `MpsseFrequency` | the choice of the divisor and what the chip makes of it | - |
| `PacketStrip` | the status bytes `read_cb` leaves out | - |
| `TapPaths` | the TAP states of OpenOCD and both tables of TMS paths, as functions | - |
| `TapWalk` | the paths clocked into a controller | extends `TapPaths`, instantiates `TapController` |
| `FtdiSignals` | what a level of a signal means for the latches, as functions | - |
| `FtdiAdapter` | configuration, signals, start and stop of the FTDI driver | extends `FtdiSignals` |
| `FtdiJtag` | the execution of JTAG commands, on a chain of TAPs | extends `TapPaths`, instantiates `TapController` |
| `FtdiSwd` | the queue of SWD transactions and the pointers into it | - |
| `BitArray` | what the helpers on bits promise | - |
| `BitBuffers` | those helpers, with their fast paths, loops and masks | instantiates `BitArray` as the specification it implements |
| `BufferText` | numbers and buffers as text and back | - |
| `ListContract` | what the list operations promise: sequences | - |
| `LinkedList` | the list operations, pointer by pointer | instantiates `ListContract` as the specification it implements |
| `TestMpsse` | the test utility against a controller in any state | extends `TapController` |
| `FtdiParts` | the FTDI driver's parts and the TMS paths under one `Spec`, one part a behaviour | instantiates `FtdiAdapter`, `FtdiJtag`, `FtdiSwd`, `TapWalk` |
| `FtdiProofs` | theorems about `FtdiSwd`, `FtdiAdapter`, `FtdiJtag` and `TapWalk`, and about `FtdiParts` | extends `FtdiParts`, `TLAPS` |
| `Helpers` | the helpers of OpenOCD side by side, with what their constants are | instantiates `BitBuffers`, `BufferText`, `LinkedList` |
| `HelpersProofs` | lemmas about the arrays of bits and the lists, and their refinements step by step | extends `Helpers`, `TLAPS` |
| `Parts` | the parts that stand for themselves, one a behaviour | extends `Helpers`, instantiates `MpsseOpen`, `MpsseFrequency`, `PacketStrip`, `TestMpsse` |
| `PartsProofs` | theorems about `Parts`: opening, the clock, the status bytes, the utility, and the helpers by those lemmas | extends `Parts`, `HelpersProofs` |
| `MC*` | the small sets and functions TLC uses, which the `.cfg` gives to the constants | extend the module they are named after (`MCFtdi` `FtdiParts`) |

### MpsseQueue
`ctx` holds the fields of `struct mpsse_ctx` the queue uses; `call` is the clock
call whose loop is running (`length` is what it has left to clock, as in the code).
One turn of a clock loop is one action (`data_turn`, `tms_turn`), because a turn may
run `mpsse_flush`, and the call goes on after it. The other queuing calls have no
loop and are one action each. `mpsse_flush(c, m)` is an operator that gives the set
of its outcomes; the USB transfer in it either returns the answers or fails, and
`MpsseTransfer` is about when that abstraction is right. A flush may also never return
from its polling loop (`flush_hangs`; `ctx.status` is then `"hung"` and the model stops):
when it does return is `FlushReturns` of `MpsseTransfer`, when not finding 3.

*Data.* Each clock cycle asked for has a number, its *tick*. The bit sampled at tick
`t` is represented by `t` itself and belongs at position `t` of the caller's memory,
so a bit in the wrong place, or a padding bit taken for a sample, shows. `answer`
is the string of response bits the chip will produce for what stands in the write
buffer. Command bytes are counted, not spelled out: which opcode is sent, the
endianness of the mode and the values on the pins are left out.

*Caller.* Every length, with or without output and capture, in any order. Callers
ask for each tick once; two captures into one position are not modelled.

### MpsseTransfer
`pc` is the place in `mpsse_flush` or `mpsse_purge`; `w` and `r` join each libusb
transfer with its `transfer_result`. A callback may run whenever the host is in one
of the two loops (912-933) and its transfer is in flight, whatever made the transfer
end: completion, timeout, cancel or a lost device, because the code looks at none
of them. `again` of the read transfer changes with each submission, so that a read
submitted again is another state. `handle_events_return` is the return of the event
handler with any code.
The chip is external: it takes commands one at a time, executes them in order and
puts answers into its transmit FIFO; the cable may be pulled at any time.
FTDI names the purges from the chip's side: purge RX empties what the chip has
received, purge TX what it has to transmit.
Freeing a transfer in flight is undefined behaviour: the state is `"undefined"` and
the model stops there. A read transfer is taken for the answers in it; `PacketStrip`
is about the status bytes between them. Not modelled: a command split over two submissions and then purged, failing allocations.

### OtmaPlugin
`staged` is `tdi_data`, `tms_data` and the two counters, or-ed into as the code
does. `flushing` is the `i` of the loop of `do_flush`; every turn starts one
`mpsse_clock_tms_cs` of `MpsseQueue` (`clock_next`), whose own loop turn follows
(`clocking`). `finish_flush` is the tail: flush, report, clear. A flush of the driver,
on the way or at the tail, may never return (`hanging`). `device` tells the
three values of the global `ctx` apart: never asked for, NULL, open. `requested`
and `driven` are histories of what the server asked for and what the driver got.
The staging buffers come from `malloc` of 32 MiB, which glibc always serves with
fresh zero pages, and a second `get_supported_hardware` keeps them: they start as
zeros. `jtag_tms` and `jtag_tdi` are 0 or 1.

### TapController, TapSession
`step(t, tms, tdi)` is the whole of `JtagTapController::step` and `tdo(t)` what it
gives through `*tdo`; the table of states and the table of instruction codes are
those of the code. A register is a sequence with bit 0 first; the lengths and the
IDCODE are constants, and the conversion of a number into bits (`ShiftReg::load`) is
left out: constants are given as their bits. `_bit_cntr` decides only what is logged.
`TapSession` adds what a user can observe: TMS = 1 in a row (`ones`), no instruction
loaded since reset (`fresh`), and the bits in and out since the last capture.

### DummyPlugin
`staged` and `tdo_data` are the three buffers; one turn of the loop of `do_flush` is
`step_next`, its tail `finish_flush`. The refinement to `TapPort` sees the controller
as it will be once the staged clocks have run, and as answers those in `tdo_data`
followed by those still to come: staging is the step of the port, a turn of the loop
a stutter, the report the flush. Functions that change no state are left out.

### MpsseOpen
`pc` is the libusb call to be made next; each may fail. `list`, `config0`, `opened` and
`claimed` are what libusb has given out, `ctx` what the context points to (a handle is
the place of its device in the list), `touched` the devices that were configured,
detached, claimed or reset. Closing what is not open, or freeing what was not
allocated, leads to `"undefined"`. `PortNumbers` is `HAVE_LIBUSB_GET_PORT_NUMBERS`:
the build of this repository does not define it, and then no device is ever at the
location asked for; the run has it TRUE, the case with more to go wrong.

### MpsseFrequency, PacketStrip
`queued` and `chip` are the settings of the clock on their way and arrived; a flush that
fails may have brought the first of them. Quotients of 32-bit integers are those of the
code, and a frequency for which the rounding sum would leave `int` is given to it too.
`read_cb` of `PacketStrip` takes a transfer of up to three packets, the last perhaps
short, or of status bytes alone, and one of data nobody asked for at its end.

### TapPaths, TapWalk
The tables are those of `interface.c`, read right to left as its comment says. A `move`
chooses a goal, `clock` runs one TMS bit into the controller of
`jtag_tap_controller.hpp` and into `tap_state_transition`, and `passed` keeps where the
controller was at each clock. So the repository's two tables of states are compared too.

### FtdiSignals, FtdiAdapter
A mask and a latch are sets of pins. `ftdi_set_signal` changes `latches`, and the bytes
that changed go to the chip with the next flush, of which a failing one may bring
either. `ids` is the table `ftdi_vid_pid` writes, with the odd last number dropped; a
number that does not parse leaves the pairs before it written, perhaps half of its own
(`half_written`), and no end behind them. `configured` and `tried` are histories of what
the command gave and what `ftdi_initialize` tried. The loop that walks `ids` needs it to
end. The commands are under `#if 0` here; `ftdi_initialize` and `ftdi_quit` are compiled.

### FtdiJtag
One JTAG command is one action: it makes a sequence of clocks out of the paths of
`TapPaths` and the fields of the scan, and `run` of these clocks on the chain's controller
says where it gets, what it shifts and how long it idles. `tms` is the pin between two
commands, which `mpsse_clock_data` leaves alone and `mpsse_set_data_bits_low_byte` does
not. `lost` holds while the follower cannot be right: before the first reset, after raw
TMS sequences (which the code does not track, 403), after a failed flush, and after a
reset command that sets the follower to TAP_RESET with no line asserted: a TRST without
a signal, or an srst of -1, which leaves the line alone, on a board where SRST pulls TRST
(556 asks only whether it is zero). The code is under `#if 0` here and its caller, OpenOCD's core, is not in
the repository; assumed of it is that it queues only resets while the TAPs are held in
reset, that paths are legal and that end states are stable.

### FtdiSwd
`array` numbers the arrays `realloc` has given, so a pointer into an earlier one shows.
`mpsse_command` is any command of the driver below, which may flush by itself first, and
whose flush stores through the pointers in `reads`; here a flush always returns, for all
that is said is about safety. The code is under `#if 0` here. A transaction is its number, which is
also the data it reads; the target answers OK, WAIT, FAULT, or with a wrong parity.

### BitArray and BitBuffers, BufferText, ListContract and LinkedList
Each refinement compares one call with what it promises: `BitArray` in bits, without
bytes; `ListContract` in sequences, without pointers: it says where an entry is (`Place`)
and takes it out there. Between them, `LinkedList` chooses
operations in any order and the loop of `bit_copy_execute` as single turns; memory
that was freed holds `Dead`. `BufferText` takes characters for the digits they
stand for and floats for fractions, in hundred-thousandths.

### TestMpsse
`opening` and `clock_raw` are the calls of `main` in their order; what it prints as
`jtag_ident` is compared with the identity in the controller, from every state.

## 3. The runs

| run | checks | instance | result |
|---|---|---|---|
| `MpsseQueue` | 5 invariants, `KeepsContract`, `CallsReturn` | write buffer 8, read buffer 2, commands of at most 2 bytes, unsigned mod 256, calls of 5, 8 and 18 bits, 31 ticks | holds |
| `MpsseQueue_assert` | `NeverAborts` | as the first, assertions on | violated: finding 1 |
| `MpsseQueue_release` | `BuffersHold` | as the first, `NDEBUG` | violated: finding 2 |
| `MpsseTransfer` | 5 invariants, `FlushReturns` | 3 commands, chunks of 2 answers, 2 batches | holds |
| `MpsseTransfer_silent` | `SilentChipIsReported` | 2 commands, 1 batch | violated: finding 3 |
| `OtmaPlugin` | 4 invariants, `FlushIsIndicated` | write buffer 8, read buffer 2, 5 clocks | holds |
| `OtmaPlugin_null` | `FoundIsOpen` | 2 clocks | violated: finding 4 |
| `TapSession` | 4 invariants and `InstructionIsShiftedIn` | registers of 3 and 2 bits, scans of up to 5 | holds |
| `DummyPlugin` | `KeepsPort` | registers of 1 bit, 2 clocks between flushes | holds |
| `Ftdi`, part `ids` | `IdsTerminated`, `TriesConfigured` | a table of 2 ids, commands of up to 3 pairs | holds |
| part `signals` | `LevelIsSet`, `ChipInStep`, `AliasInverts`, `OthersStay` | 2 signals of 3 kinds and their aliases | holds |
| part `jtag` | `FollowerIsRight`, `ScanIsExact`, `RuntestCycles` | 2 boards, 3 scans of up to 4 fields, 0 and 8 cycles, 6 paths | holds |
| part `swd` | `PointersAlive`, `DataIsOwn`, `ErrorStopsQueue`, `RunTells` | an array of 2 that grows to 4, 4 transactions | holds |
| part `walk` | `PathsArrive`, `MovesDoNotShift`, `ScanResumes`, `ExtraClocks` | every move of both tables | holds |
| `FtdiJtag_tms` | `FollowerIsRight` | a board with its LED in the byte of TMS | violated: finding 5 |
| `Parts`, part `open` | `NothingKept`, `UndefinedOnlyByList`, `ContextOutlives`, `OpenIsAsked`, `OthersLeftAlone` | 3 buses of up to 3 devices, 5 filters, 2 channels | holds |
| part `frequency` | `NeverFaster`, `NotSlower`, `ReturnedIsActual`, `RtckAsAsked` | 30 frequencies, both kinds of chip | holds |
| part `strip` | `DataInOrder`, `NothingDropped` | packets of 5 bytes, 3 in a transfer, reads of up to 20 bytes | holds |
| part `bits` | the promise of `BitArray` | 9 bytes of 3 bits, ranges around each edge | holds |
| part `text` | `PrintedWhole`, `RoundTrip`, `TypedIsNumber`, `PairsFit` | buffers of up to 3 bytes, 16 texts | holds |
| part `lists` | the contract of `ListContract`, `BothWays`, `LoopVisitsAll` | 2 heads, 3 entries, symmetric | holds |
| part `utility` | `IdentityIsRead`, `ExpectedIsReceived` | registers of 10 and 32 bits, the real identity | holds |

`Ftdi` and `Parts` are one run each: `Init` chooses a part, and the variables of the
others have no value. `FtdiAdapter` is two parts, to keep the states of its table of ids
and of its signals from being multiplied: in `ids` no layout is given, in `signals` one id
is configured. A property of such a run is the conjunction of the properties of
its parts that are about one thing, each under `part = ...`: `TypeOK` has the types of
every part, `CommandsAreExact`
has `ScanIsExact`, `RuntestCycles`, `MovesDoNotShift`, `ScanResumes` and `ExtraClocks`,
and so on. `HelpersKeepPromise` is the refinement of `BitArray` in one part and of
`ListContract` in the other. What each part assumes of its constants is in
`FtdiAssumption`, `PartsAssumption` and `HelpersAssumption`, which TLC evaluates for the instance.

**Bounds and why they are enough.** A write buffer of 8 bytes takes a three-byte
command, a byte command with one data byte and the reserved byte, so every limit of
`data_bytes` and both kinds of short buffer occur; a read buffer of 2 is full before
the write buffer in captures without output and after it otherwise. A call of 18
bits needs two byte commands and a rest of two bits; 5 is a rest alone; 8 whole
bytes alone; a TMS call of 18 is cut in 7 + 7 + 4. 31 ticks allow the longest call
to meet a queue that other calls have left part full, and a second call after a
failure. The command limit of 2 bytes stands for 65536. `UintMod` of 256 is far from
any sum that occurs unless a subtraction wraps. In `MpsseTransfer` three commands
allow a write cut short at every place and a read in two chunks, and two batches are
what it takes for one to disturb the next. In `OtmaPlugin` a third clock in one
`do_flush` finds both buffers full and flushes on the way, and five clocks leave a
second `do_flush` after it. `OtmaPlugin`, `MpsseQueue_assert` and others turn the
deadlock check off where the process really may stop: an assertion has failed, a
freed transfer was used, or the bound is reached (in `TapSession` too). Scans of five
bits shift registers of three and two right through; codes of three bits select
IDCODE, BYPASS (as every code outside of the table does), and five instructions
without a register. `DummyPlugin` keeps the registers at one bit, since `TapSession`
is about them: two clocks between flushes are enough for one flush to leave something
behind for the next at each position, and the number of flushes is not bounded.

The buses of `MpsseOpen` have the device asked for behind others that differ from it in
one respect each - serial number, product id, type of chip, port, endpoints - so every
test of the search refuses one and every later one meets a handle that was closed. In
`MpsseFrequency` the frequencies are those at which a result of the code changes, and
their neighbours. Packets of 5 bytes have 3 of data; 20 bytes need a third transfer. Signals are of each
kind a layout has: data alone, inverted, enable on another pin, on the same pins, alone;
one in two bytes. In `FtdiJtag` a scan has an empty first and last field, a field in
and one out, 8 cycles are one command of seven and a rest; one board has LED and
SRST in the byte of TMS, the other none. An array of two is full before the third
transaction, and the fourth goes into one that has grown. Bytes of three bits give words
of 12 and buffers of two words and a byte, so each fast path is taken and each missed by
one bit on either side. Three entries are what it takes for an operation to have a
neighbour on each side that is no head; the entries are symmetric,
since no action names one and no other part of `Parts` has them, and `HelpersKeepPromise`
is a safety property. Part `signals` has only one pair of ids, for `ids` is about them.
A table of two ids has one that is full, one that is not, and one that a shorter or
broken list was written over. The deadlock check is off, too, in `Ftdi` (nothing starts the driver again after
`ftdi_quit`; the SWD transactions are bounded) and in `Parts` (a call of a helper, a
text, a read, the utility ends; there is nothing after undefined behaviour).

**Fairness.** `MpsseQueue`: the thread in a clock loop goes on. `OtmaPlugin`: the
same, for `do_flush`. Both say `~> ... \/ ~Running`: an assertion that fails or a flush
that hangs ends the wait too, and nothing is assumed to keep a flush from hanging.
Nothing forces a caller to call. `MpsseTransfer`, host: the
thread goes on; libusb delivers a callback for a transfer that has moved bytes or
lost its device, and the event handler returns once both are done (it returns every
second anyway, 915). No error is ever forced to happen. Chip: it takes and executes
what it is sent. `MpsseTransfer_silent` drops the chip's fairness and adds that each read ends by its
timeout, with or without data (`TimeoutSpec`).

## 4. Findings

1. **The sticky error always ends in an assertion** (`mpsse.c:537` and its
   copies). A flush that fails inside a queuing call sets `ctx->retval`, and the call
   then queues its command; the next `mpsse_flush` asserts that nothing is queued
   (872). `NDEBUG` is not set by `CMakeLists.txt`, so the server process dies.
2. **With `NDEBUG`, the buffer overflows**: the flush that reports the remembered
   error leaves the queue as it is, and the loop writes on behind the end.
3. **A silent chip is waited for without end**: `read_cb` ignores `transfer->status`
   and resubmits a read that has timed out (840-842). In the trace the write has been
   taken and `write_cb` is done; `read_cb` then goes round for ever.
4. **`find_devs` reports a device that could not be opened**: `ctx` is NULL and
   `do_flush` passes it to the driver.
5. **A signal in the byte of TMS moves TMS** (`ftdi.c:233`): the byte is sent with TMS
   as it was at the start. A scan that goes on where the last one stopped then
   clocks the chain out of its shift state, and the follower stays behind. Boards
   with TMS low at the start, or no signal in that byte, are safe (`Ftdi`).

Read off the models too, without a run of their own:

* In the queue and the transfer: a failed submit of the read transfer (907) and an
  interrupted event handler (920) free a transfer in flight (`FreedInFlightOnlyIf` says
  exactly when); a write that cannot be resubmitted leaves the read waiting
  (`WaitsInVain`); a transfer cut in the middle of a command and then purged leaves the
  chip waiting for the rest of it (962).
* `write_cb` submits a write again just as `read_cb` does (856-863): one the chip does not
  take is waited for without end too, even after the event handler has failed and the
  write was cancelled.
* In the plug-ins: a failed flush is reported to the server as TDO bits of zero (otma
  129-136); the 32 MiB of the staging buffers are not compared with the counters (otma
  159, dummy 138); `ctx` stays when the device has gone (otma 73).
* When `libusb_get_device_list` fails, a list that was never set is freed (`mpsse.c:195,
  239`; `UndefinedOnlyByList` says that this is the only such use).
* The old table of TMS paths shifts bits on six of its moves between different states or
  more (`interface.c:147-152`), where its comment knows of two exceptions, both moves to
  the same state; the short table does not go via IDLE from a shift state to itself, as
  its comment says it does (183-184): UPDATE leads straight to the next SELECT.
  `MovesDoNotShift` is therefore about the short table.
* In `ftdi.c`: a reset command with an srst of -1 on a board where SRST pulls TRST sets the
  follower to TAP_RESET with no line asserted (556 asks for nonzero, 575 and 581 for 1 and
  0; `lost` stands for it; no caller is in the repository, and no line of it says what -1
  means); a failed flush in a sleep is forgotten, and with it that commands before it
  never ran (596), as is one in `ftdi_get_signal` (256); latches are stale after a failed
  flush (227); a runtest out of TAP_RESET idles too long, for six cycles of the path are in
  TAP_IDLE already (361; `RuntestCycles` is about the other states); an option of
  `layout_signal` without a value reads past the words (818); with `NDEBUG`, an SWD answer
  is stored into freed memory, for after a failed flush inside a transaction the driver
  below keeps its pointer past the `realloc` (1193) - with assertions the process dies
  before, by finding 1.
* `khz * 1000` may overflow (`ftdi.c:336`); `buf_cmp` takes buffers that differ in a whole
  byte for equal (`binarybuffer.c:102-103`).

## 5. The proofs

Every theorem holds for all values of the constants that satisfy the assumptions named
with it. Its module says which properties of section 3 it states; those are the same
definitions TLC checks.

| module | theorem | establishes |
|---|---|---|
| `MpsseQueueProofs` | `Invariance` | `[]IInv`, the inductive invariant |
| | `TypeCorrect` | `[]TypeOK` |
| | `BuffersAreSafe` | `[]BuffersHold`, `[]ReadsHaveCommands`: what is read back was commanded |
| | `EntriesAreRight` | `[]EntriesPickTheirBits`, `[]OffsetsInStep`: `in_offset` is where the next bit goes |
| | `FlushDelivers` | `[]FlushOkMeansDelivered` |
| | `NoneForgotten` | `[]AskedAccountedFor` |
| | `Refinement` | `KeepsContract`: the queue implements `MpsseContract` |
| `MpsseTransferProofs` | `Invariance`, `TypeCorrect` | `[]IInv`, `[]TypeOK` |
| | `TakenInOrderOnce` | `[]SentInOrderOnce` |
| | `AnswersAreOwn` | `[]OwnAnswers` |
| | `QuietBetweenFlushes` | `[]ChipQuiet` |
| | `FreedWhenDone` | `[]FreedInFlightOnlyIf` |
| `OtmaPluginProofs` | `Invariance`, `TypeCorrect` | `[]OInv`, `[]TypeOK` |
| | `DrivesAsRequested` | `[]DrivenAsRequested` |
| | `ReportsOwnBits` | `[]ReportIsOwnBits` |
| | `RestsBetweenCalls` | `[]DriverAtRest` |
| `TapSessionProofs` | `Invariance`, `TypeCorrect` | `[]IInv`, `[]TypeOK` |
| | `ResetFromAnywhere` | `[]FiveOnesReset` |
| | `ResetIdentifies` | `[]ResetSelectsIdcode` |
| | `ScansAreRight` | `[]ScanIsDelayLine` |
| | `InstructionsAreRight` | `InstructionIsShiftedIn` |
| `DummyPluginProofs` | `Invariance` | `[]DInv` |
| | `Implements` | `KeepsPort`: the plug-in implements `TapPort` |
| `FtdiProofs` | `SwdInvariance`, `SwdTypeCorrect` | `[]SwdInv`, `[]TypeOK` of `FtdiSwd` |
| | `PointersStayAlive`, `DataStaysOwn`, `ErrorHoldsQueue` | `[]PointersAlive`, `[]DataIsOwn`, `[]ErrorStopsQueue` of `FtdiSwd` |
| | `SwdRunsTell` | `RunTells` of `FtdiSwd`, of every step |
| | `AdapterInvariance`, `AdapterTypeCorrect` | `[]AdapterInv`, `[]TypeOK`, `[]IdsTerminated` of `FtdiAdapter` |
| | `LevelHolds`, `ChipStaysInStep`, `AliasesInvert` | `[]LevelIsSet`, `[]ChipInStep`, `[]AliasInverts` |
| | `ConfiguredAreTried`, `OwnPinsOnly` | `TriesConfigured`, `OthersStay` of every step |
| | `AnswersStayOwn`, `RunsTell` | `[]AnswersAreOwn`, `RunTells` of `FtdiParts` |
| | `SignalsAlwaysHold` | `[]SignalsHold` |
| | `ConfigurationAlwaysHolds` | `ConfigurationHolds` |
| | `FollowerStaysRight` | `[]FollowerIsRight` |
| | `CommandsStayExact` | `[]CommandsAreExact` |
| | `TypesAreRight` | `[]TypeOK` |
| `PartsProofs` | `Invariance` | `[]PartsInv` |
| | `GivesBackAll` | `[]NothingKept` |
| | `OpensWhatIsAsked` | `[]OpenIsAsked` |
| | `ChoosesBestFrequency` | `[]FrequencyIsBest` |
| | `KeepsDataInOrder` | `[]DataInOrder` |
| | `ReadsAnyIdentity`, `ReadsIdentity` | the utility prints any identity; `[]IdentityIsRead` |
| | `VisitsWholeList` | `[]LoopVisitsAll` |
| | `ListsStaySound` | the types of the lists and `BothWays`, always |
| | `ListsKeepContract` | `LinkedList` implements `ListContract` |
| | `HelpersKeepAll` | `HelpersKeepPromise`: that, and `BitBuffers` implements `BitArray` |
| | `BytesStayBytes` | the types of the arrays of bits, always |

*Assumptions.* `BufferAssumption`, of the queue and the plug-in: a write buffer of at
least 5 bytes, a read buffer of at least one, and `unsigned` wide enough that no sum of
sizes wraps; the code's are 16384, 16384 and 2^32. `RegisterAssumption`: registers of at
least one bit, an IDCODE as long as its register. `StagedAssumption`: calls ask for any
number of clocks, and any number may be staged. `AdapterAssumption`: a signal is on
pins the chip has and, where it drives them, has a way to. `SwdAssumption`: the first array
has room for one entry at least. `OpenAssumption`: devices and filters have the fields
libusb and `mpsse_open` know. `FrequencyAssumption`: frequencies are `int`s that are not
negative. `PacketAssumption`: a USB packet is longer than its two status bytes.
`BufferAssumption` of `BitBuffers`: a byte of at least one bit, a buffer of at least
one byte. `JtagAssumption`: paths and scans are sequences, a path of at least one bit.
`ListAssumption`: heads, entries, the poison and what is in freed memory are different
things, and memory is finite. The others only give types and bounds.

*The byte of TMS.* `FollowerStaysRight` and `CommandsStayExact` say `BoardsKeepTms`: on a
board whose layout starts with TMS high, neither the LED nor the resets are in the byte
with TMS, or they do not raise it (`b.tms = 1 => b.led # "low" /\ ...`). Both are about a
follower that is not `lost` (section 2). The code does not
see to that, and without it the follower is wrong: that is finding 5, which run
`FtdiJtag_tms` shows on a board of the other kind. `TypesAreRight` is about every board.

*The identity.* `ReadsAnyIdentity` takes an identity of 32 bits, each 0 or 1, and
`ReadsIdentity` that of the chip `test_mpsse.c` was written against, which its expected
bytes contain. The instruction register is of any length.

*In a build with assertions.* The theorems about the queue, the plug-in and the SWD queue
say `~NDEBUG` (`TypesAreRight` too, since one of its parts is the SWD queue), the default
of this repository's build. Without assertions `BuffersHold` is false (finding 2), and so
is what rests on it: a flush that reports the error of an earlier one goes on with what is
queued, in the plug-in with bits of an earlier call, in the SWD queue with pointers into
an array that may be gone.

### The arguments

None of the properties is inductive alone; each module defines the conjunction that is,
and one lemma per action shows that it is kept. The runs of section 3 check the properties
themselves; the inductive invariants are proved and not listed in a run.

*MpsseQueue.* `FlushOkMeansDelivered` needs that every bit asked for is in memory, queued
or in the rest of the call (`AskedAccountedFor`), which needs that the entries of the
queue pick their own bits out of the answer (`EntriesPickTheirBits`), which for a new
entry needs that `in_offset` is in step with the ticks (`OffsetsInStep`), and the room for
the command needs that the space helpers do not wrap (`BuffersHold`). `IInv` is their
conjunction with the types, `call.length <= tick`, and that nothing later than `tick` has
been asked for. `Flush` and `FlushIf` say what a flush may leave; `DataRoom` and `TmsRoom`
that after the check at the head of a loop the command fits; `Read` that a capture
appends what its entry picks. The refinement maps `mem`, `asked` and `outcome` to
themselves: a turn is a `Proceed` with arrivals, a flush is `FlushOk` or `FlushFail`.

*MpsseTransfer.* What came in is the answers to this batch because of where each of them
is: in the order of the commands, a batch is made up of what the chip has executed, what
waits in its receive FIFO and what the write transfer still holds, and the answers of
what the read buffer has, what the read transfer carries and what the transmit FIFO has
left (`StreamInOrder`, with `WritesRest` and `ReadsRest` for the transfers). A result of
ERROR_OK closes both sums (`ResultMeans`), and a purge that works empties the chip's side
(`Purged`), so the next batch starts from nothing.

*OtmaPlugin.* `OInv` joins the queue's `IInv` with what the plug-in does with it: behind
the counters the staging buffers are zero (`ZerosBehind`), so that or-ing a bit in sets
it; tick `i` of the loop of `do_flush` is staged clock `i` (`LoopCounts`); each call
captures into its own place (`OwnMemory`); and nothing is queued between two calls
(`NothingLeft`). The steps of the driver inside of `do_flush` are those of
`MpsseQueueProofs`, cited as `D!...` and not proved again.

*TapSession.* `FiveOnesReset` is not inductive: `FromReset` gives each state its distance
to Test-Logic-Reset under TMS = 1, `Towards` shows that a clock shortens it, and the
invariant is that distance and `ones` add up to at most five. `ScanIsDelayLine` is
inductive on its own; `DelayStep` is its one step, used for each register at capture,
shift and rest. `InstructionsAreRight` follows since the register is the end of what was
captured and shifted in (`RegisterHoldsLast`).

*DummyPlugin.* `DInv` says that both staging buffers are zero behind the staged clocks
(`Clean`), the buffer of answers behind the answers, and that there is one answer for each
clock the loop of `do_flush` has taken; so whatever is or-ed in is set. The refinement
maps the controller to where the waiting clocks will lead it. Those are a sequence, and
what a sequence of clocks does is a recursive function: `RunFollows` shows that there is
one, `RunConcat` that clocks behind others are run behind them. Staging is then the
port's call (`StageKeeps`, with the new clocks behind), and a turn of the loop, which takes
one clock from the front and adds its answer at the end, changes nothing the port shows
(`StepKeeps`). That the controller stays one is `StepType` of `TapSessionProofs`.

*FtdiAdapter.* A signal keeps its level although others share its latches, because no
two that were set disagree about a pin they both drive (`SetSignal`), and an alias is the
mirror of what it was made from (`Mirrored`). The table of ids ends at its first NoId or
its last place (`TableEnds`), whatever lists were written over it.

*FtdiSwd.* The queue holds the last of the transactions there have been, in their order
(`Queued`); each pointer below is to the entry in the array there is of the transaction it
was made for (`Sound`), since `realloc` moves the array only after a run has emptied the
queue below; and what has left the queue has been stored (`Stored`).

*TapWalk* (`WalkInv`). The paths of both tables are walked row by row: `Leads` says that
a path takes each state it starts in to the state it is for, `Spares` that the short one
goes through no shift state on the way, and the invariant is that the controller is where
the path has got to (`Standing`, `Walking`). The clocks left are always the rest of the
path.

*FtdiJtag* (`JtagInv`). A command is a sequence of clocks and `run` a recursive function
of it, so there is a lemma for one clock, for two runs one behind the other, and one for
each kind of sequence: a move, idling, a field, all the fields of a scan. Each says where
the run ends, how often it idled and which bits it shifted. The bits of a scan are those
of its fields, flattened; that the extra clocks and the last bit of a field, which goes
with TMS = 1, fall where they should is what makes `ScanIsExact` hold for any number of
fields, empty ones included. The invariant says that unless the state has been lost the
chain is where the follower says, TMS is low outside of RESET and the reset pins are as
they were asked for (`InStep`). The types are proved apart (`JtagTypes`), since they hold
on every board.

*FtdiParts.* A behaviour of a part of `FtdiParts` is one of its module, with the variables
of the others standing still (`StepOfPart`), so each theorem is carried over. The adapter is
in two parts, with the same invariant: what bounds each part takes only steps away.

*Opening* (`OpenInv`). The place `pc` decides what is held (`OpenHolds`), which handle is
open and claimed (`OpenHandles`), and what its device has been found to be
(`OpenFound`): each test passed is remembered until the device is in use. Giving back then
is a matter of `pc` too. That a location is compared to the end of the path, no matter
how long the arrays are, is `LocationIsPath`.

*The clock* (`FrequencyInv`). The commands on their way are those of the frequency asked
for last, and once all have arrived the chip is set for it (`TakenAll`). That rounding
the divisor up gives the fastest clock that is not too fast is `RoundedUp`; that the base
clock of 6 MHz is taken only where 30 MHz with its 16-bit divisor would be too fast is
`FastIsTooFast` and `ChoiceIsBest`.

*The status bytes* (`StripInv`). The read buffer holds the numbers of the first bytes of
data, as many as came or as there is room for. Within one transfer the loop of `read_cb`
has an invariant of its own (`LoopAt`): as long as there is room, what remains is the
length of the transfer less whole packets. `Turn` is its step, `TransferIs` and
`ChunkIs` do the arithmetic of packets. The loop is a recursive function, so `LoopExists`
shows first that there is such a function.

*The utility* (`UtilityInv`). `Near` has the states the controller may be in after `k`
clocks, from wherever it was found; after six there is only one. From the tenth on the
register has the 32 bits of `Stream` that come next: the identity, then what went in.
So bit `k` that came out is bit `k - 10` of that stream, and the identity is the first 32.

*The lists* (`ListsInv`). There are lengths `len` and cells `cell` such that `cell[h]` is
the list of head `h`, with the head itself before its first and behind its last entry; no
cell is in two places (`Distinct`); and each cell points to the one behind it and to the
one before it (`Linked`). Every operation is then said twice: what its stores, one after
the other, leave in the two pointers of every cell, also where the two neighbours are one
cell or the list is empty, and which `len` and `cell` that is (`Longer`, `WithIn`,
`JoinedLen`, ...). `Becomes` joins both: what is stored is lists, and they are these
sequences. `EntriesAre` is the bridge to the contract, whose `entries` follow `next`
from the head: as the cells are different, the walk comes back to the head just when the
list is at its end (`FollowedIs`), and as there are finitely many it does (`ListIsShort`).

*The loop* (`LoopIs`). The loop is `d` entries into the list: `pos` and `n` are the
cells there, what it has visited is what it expected so far, and what it still expects is
what is ahead (`Ahead`). A body that frees its entry moves everything ahead one closer, one
that keeps it does not, and neither touches `n`.

*The bits* (`BitsInv`). Before the call the buffer and its arguments are what they were
given as; what has to be shown is what each helper computes, for bytes of any width and
buffers of any length. Powers of two are a recursive function, and what is known of them
(`PowerIs`, `PowerAdds`, ...) comes by induction through sets of numbers. Three facts
carry the rest: numbers below 2^n with the same bits are the same (`SameBits`); the bits of
a low part and a high part moved up behind it are theirs, one behind the other
(`JoinedWords`); a sum of words, each moved up behind those before it, has their bits
(`WordsAdd`). So a loop that adds up bits or bytes gives the bits it is meant to, `&` and `|`
are what they are bit by bit, and a loop that writes one bit after the other (`PutsAre`)
changes just those. For each helper there is then one lemma that says which bit its result
has at which place, on its fast path and on its loop alike, and one that makes the call a
step of `BitArray`.

`LeastNat` - a set of numbers that is not empty has a least one - is what the induction
theorems of the library come down to where they cannot be used as they stand (they take
an operator as a parameter); `SetInduction` follows from it.

### Only model-checked

* Everything about liveness (`CallsReturn`, `FlushReturns`, `FlushIsIndicated`): fairness
  and ENABLED are beyond TLAPS here.
* `TypeOK` of `Parts`: what is missing is the types of the text part, see below; those of
  every other part follow from `PartsInv`.
* `TextIsExact`: a number as text is a recursion over its digits, by division, and what it
  says is not so of every text: `str_to_buf` gives a decimal digit a share of 0.41524 of a
  byte (binarybuffer.c:293), slightly less than it takes, which comes to a byte too few
  for a number of some 1800 digits.
* What the five runs that expect a violation show; those are counterexamples.

## 6. Not modelled, and the plan

Done, in this order: `MpsseQueue` with `MpsseContract`, its proofs, `MpsseTransfer`,
`OtmaPlugin`, `TapController` with its proofs, `DummyPlugin`, `MpsseOpen`, `TapPaths` with
`TapWalk`, `FtdiSignals` with `FtdiAdapter`, `FtdiJtag`, `FtdiSwd`, `MpsseFrequency`,
`PacketStrip`, the helpers, `TestMpsse`; then the proofs about `MpsseTransfer`,
`OtmaPlugin`, `FtdiAdapter`, `FtdiSwd`, `MpsseOpen`, `MpsseFrequency`, `PacketStrip`,
`TapWalk`, `FtdiJtag`, `TestMpsse`, `LinkedList`, `DummyPlugin`, `BitBuffers`. What is left
to prove is the text: its types, `PairsFit`, and the digits of numbers that are short enough.

Left out for good:
* the debug socket: output only;
* the commands of `ftdi.c` that keep a string or a number for `mpsse_open` (742-791,
  958-979) and the one that prints a signal (906-926);
* names of states (`interface.c:330-389`) and the state machine that only logs (391-458);
* `list_splice` and `list_splice_tail`, whose lists may not be used afterwards, the
  loops of `list.h` that change nothing, and its hlists: no caller;
* time helpers, declarations, what Quartus does with results, the behaviour of the
  FT232H on half a command, exhausted memory, parsing of the commands' words.
