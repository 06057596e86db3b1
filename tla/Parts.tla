-------------------------------- MODULE Parts --------------------------------
(***************************************************************************)
(* The parts of the program that stand for themselves: each is called,     *)
(* does its work and keeps nothing for another one here.  A behaviour is   *)
(* of one part, and the variables of the others have no value.  Where two  *)
(* parts have a variable or a property of one name, it is the one of the   *)
(* part.                                                                   *)
(*   open       MpsseOpen                                                  *)
(*   frequency  MpsseFrequency                                             *)
(*   strip      PacketStrip                                                *)
(*   bits       BitBuffers                                                 *)
(*   text       BufferText                                                 *)
(*   lists      LinkedList                                                 *)
(*   utility    TestMpsse                                                  *)
(* Bits, text and lists are of Helpers.                                    *)
(***************************************************************************)
EXTENDS Helpers

CONSTANTS
  Buses, Filters, Channels, PortNumbers,          \* of open: see MpsseOpen
  Frequencies, IntMax,                            \* of frequency: see MpsseFrequency
  PacketSize, MaxPackets, MaxRead, MaxExtra,      \* of strip: see PacketStrip
  IrLen, DrLen, IdCode, Found                     \* of utility: see TestMpsse
                                                  \* NULL is of open as well

VARIABLES
  part,
  asked, ctx, i, list, config0, bus, opened, claimed, touched,
  type, queued, chip, in_step,
  read_count, read_buffer, done, sent,
  tap, arr_tdo  \* pc is of open and text, returned of frequency and text

open_own == <<ctx, list, config0, bus, opened, claimed, touched>>
frequency_own == <<type, queued, chip, in_step>>
strip_own == <<read_count, read_buffer, done, sent>>
bits_own == <<answer, made>>
text_own == <<kind, buf_len, room, text, typed, back>>
lists_own == <<next, prev, pos, n, over, visited, expected>>
utility_own == <<tap, arr_tdo>>
shared == <<asked, i, pc, returned, buffer, call>>
vars == <<part, open_own, frequency_own, strip_own, bits_own, text_own, lists_own, utility_own,
          shared>>

-----------------------------------------------------------------------------
(* The parts                                                                 *)

Open == INSTANCE MpsseOpen
Frequency == INSTANCE MpsseFrequency
Strip == INSTANCE PacketStrip
Utility == INSTANCE TestMpsse

\* What the constants are.
ASSUME PartsAssumption ==
  /\ Open!OpenAssumption /\ Frequency!FrequencyAssumption /\ Strip!PacketAssumption
  /\ Utility!FoundAssumption

None == "no value"
NoOpen == /\ ctx = None /\ list = None /\ config0 = None /\ bus = None
          /\ opened = None /\ claimed = None /\ touched = None
NoFrequency == type = None /\ queued = None /\ chip = None /\ in_step = None
NoStrip == read_count = None /\ read_buffer = None /\ done = None /\ sent = None
NoBits == answer = None /\ made = None
NoText == /\ kind = None /\ buf_len = None /\ room = None /\ text = None
          /\ typed = None /\ back = None
NoLists == /\ next = None /\ prev = None /\ pos = None /\ n = None /\ over = None
           /\ visited = None /\ expected = None
NoUtility == tap = None /\ arr_tdo = None

Init ==
  \/ /\ part = "open" /\ Open!Init
     /\ NoFrequency /\ NoStrip /\ NoBits /\ NoText /\ NoLists /\ NoUtility
     /\ returned = None /\ buffer = None /\ call = None
  \/ /\ part = "frequency" /\ Frequency!Init
     /\ NoOpen /\ NoStrip /\ NoBits /\ NoText /\ NoLists /\ NoUtility
     /\ i = None /\ pc = None /\ buffer = None /\ call = None
  \/ /\ part = "strip" /\ Strip!Init
     /\ NoOpen /\ NoFrequency /\ NoBits /\ NoText /\ NoLists /\ NoUtility
     /\ asked = None /\ i = None /\ pc = None /\ returned = None /\ buffer = None /\ call = None
  \/ /\ part = "bits" /\ Bits!Init
     /\ NoOpen /\ NoFrequency /\ NoStrip /\ NoText /\ NoLists /\ NoUtility
     /\ asked = None /\ i = None /\ pc = None /\ returned = None
  \/ /\ part = "text" /\ Text!Init
     /\ NoOpen /\ NoFrequency /\ NoStrip /\ NoBits /\ NoLists /\ NoUtility
     /\ asked = None /\ i = None /\ call = None
  \/ /\ part = "lists" /\ Lists!Init
     /\ NoOpen /\ NoFrequency /\ NoStrip /\ NoBits /\ NoText /\ NoUtility
     /\ asked = None /\ i = None /\ pc = None /\ returned = None /\ buffer = None
  \/ /\ part = "utility" /\ Utility!Init
     /\ NoOpen /\ NoFrequency /\ NoStrip /\ NoBits /\ NoText /\ NoLists
     /\ asked = None /\ pc = None /\ returned = None /\ buffer = None /\ call = None

Next ==
  /\ UNCHANGED part
  /\ \/ /\ part = "open" /\ Open!Next
        /\ UNCHANGED <<frequency_own, strip_own, bits_own, text_own, lists_own, utility_own,
                       returned, buffer, call>>
     \/ /\ part = "frequency" /\ Frequency!Next
        /\ UNCHANGED <<open_own, strip_own, bits_own, text_own, lists_own, utility_own,
                       i, pc, buffer, call>>
     \/ /\ part = "strip" /\ Strip!Next
        /\ UNCHANGED <<open_own, frequency_own, bits_own, text_own, lists_own, utility_own,
                       shared>>
     \/ /\ part = "bits" /\ Bits!Next
        /\ UNCHANGED <<open_own, frequency_own, strip_own, text_own, lists_own, utility_own,
                       asked, i, pc, returned>>
     \/ /\ part = "text" /\ Text!Next
        /\ UNCHANGED <<open_own, frequency_own, strip_own, bits_own, lists_own, utility_own,
                       asked, i, call>>
     \/ /\ part = "lists" /\ Lists!Next
        /\ UNCHANGED <<open_own, frequency_own, strip_own, bits_own, text_own, utility_own,
                       asked, i, pc, returned, buffer>>
     \/ /\ part = "utility" /\ Utility!Next
        /\ UNCHANGED <<open_own, frequency_own, strip_own, bits_own, text_own, lists_own,
                       asked, pc, returned, buffer, call>>

Spec == Init /\ [][Next]_vars

-----------------------------------------------------------------------------
(* Properties                                                                *)

\* Every variable has its type, and a list read backwards is the list (list.h:37-355).
TypeOK ==
  /\ part = "open" => Open!TypeOK
  /\ part = "frequency" => Frequency!TypeOK
  /\ part = "strip" => Strip!TypeOK
  /\ part = "bits" => Bits!TypeOK
  /\ part = "text" => Text!TypeOK
  /\ part = "lists" => Lists!TypeOK /\ Lists!BothWays
  /\ part = "utility" => Utility!TypeOK

\* An mpsse_open that fails at whatever call, and mpsse_close, have given back all that
\* was acquired, each once and with its context still there; what is given back without
\* ever having been acquired is the device list only (mpsse.c:195, 239, 325, 387, 419-424).
NothingKept ==
  part = "open" => Open!NothingKept /\ Open!UndefinedOnlyByList /\ Open!ContextOutlives

\* The device mpsse_open returns is the one asked for and ready for use, and it has not
\* touched any other (mpsse.c:191-290).
OpenIsAsked == part = "open" => Open!OpenIsAsked /\ Open!OthersLeftAlone

\* The chip runs as fast as it can without running faster than it was asked to, by
\* whichever base clock, the caller is told how fast that is, and RTCK is on when it was
\* asked for last (mpsse.c:769-798).
FrequencyIsBest ==
  part = "frequency" =>
    /\ Frequency!NeverFaster /\ Frequency!NotSlower
    /\ Frequency!ReturnedIsActual /\ Frequency!RtckAsAsked

\* The read buffer holds what the chip sent, in order and each byte once, whatever the
\* lengths of packets and transfers are, and as much of it as was asked for
\* (mpsse.c:814-835).
DataInOrder == part = "strip" => Strip!DataInOrder /\ Strip!NothingDropped

\* The helpers on arrays of bits read and write just the bits they are asked to, along
\* each of their paths: BitBuffers implements BitArray (binarybuffer.h:31-163,
\* binarybuffer.c:69-203, 461-480).  Every list operation does to the lists what its
\* comment says: LinkedList implements ListContract (list.h:37-355).
HelpersKeepPromise ==
  /\ part = "bits" => Bits!Promise!Init
  /\ part = "lists" => Lists!Contract!Init
  /\ [][/\ part = "bits" => [Bits!Promise!Next]_(Bits!Promise!vars)
        /\ part = "lists" => [Lists!Contract!Next]_(Lists!Contract!vars)]_vars

\* The loop visits every entry once and in order, whatever its body frees (list.h:502-513,
\* binarybuffer.c:372-391).
LoopVisitsAll == part = "lists" => Lists!LoopVisitsAll

\* A number is printed whole and read back as it was, a typed one is the number of its
\* digits, and pairs of hexadecimal digits stay within the room there is
\* (binarybuffer.c:205-348, 393-459).
TextIsExact ==
  part = "text" => Text!PrintedWhole /\ Text!RoundTrip /\ Text!TypedIsNumber /\ Text!PairsFit

\* The utility prints the identity of the controller, whatever state that was left in, and
\* out of a scan receives just the bytes it expects (test_mpsse.c:51-114).
IdentityIsRead == part = "utility" => Utility!IdentityIsRead /\ Utility!ExpectedIsReceived
=============================================================================
