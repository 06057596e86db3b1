----------------------------- MODULE PartsProofs -----------------------------
(***************************************************************************)
(* Theorems about the parts of the program that stand for themselves:      *)
(* opening and closing the chip (MpsseOpen), choosing its clock            *)
(* (MpsseFrequency), taking the data out of what it sends (PacketStrip)    *)
(* and the utility that reads the identity of a controller (TestMpsse),    *)
(* each with its inductive invariant; those of the lists and of the        *)
(* helpers on bits are proved in HelpersProofs.                            *)
(***************************************************************************)
EXTENDS Parts, HelpersProofs

-----------------------------------------------------------------------------
(* Opening the chip: the invariant                                           *)

\* The places behind the search, at which the device found is in use.
SetUp == {"found", "config", "configure", "claim", "reset", "describe", "latency",
          "bitmode", "open"}
\* The places from which mpsse_open goes on to succeed.
OnTheWay == {"init", "list", "scan", "filter"} \cup SetUp

\* What mpsse_open was called with, and what it works on.
OpenArguments ==
  /\ pc \in Open!Places
  /\ asked \in Filters \cup {Open!NoFilter}
  /\ bus \in Buses \cup {<< >>}
  /\ i \in 0 .. Len(bus) + 1
  /\ pc = "scan" => i # 0
  /\ ctx \in Open!Contexts
  /\ config0 \in BOOLEAN

\* What is held at each place.
OpenHolds ==
  /\ pc \in {"closed", "failed"} => ctx = Open!NoCtx
  /\ pc \in OnTheWay => ctx.buffers = Open!Buffers
  /\ pc \in OnTheWay \ {"init"} => ctx.usb_ctx
  /\ pc \in {"init", "list"} => ctx.usb_dev = 0
  /\ IF pc \in {"scan", "filter", "found"}
     THEN list = "held" \/ (list = "garbage" /\ bus = << >>)
     ELSE list = (IF pc = "undefined" THEN "garbage" ELSE "none")
  /\ config0 <=> pc \in {"configure", "claim", "reset", "describe"}

\* Which handles are open and claimed.
OpenHandles ==
  /\ pc \in {"filter"} \cup SetUp => opened = {i} /\ ctx.usb_dev = i /\ i \in DOMAIN bus
  /\ pc \in {"closed", "failed", "init", "list", "scan", "undefined"} => opened = {}
  /\ pc = "error" => \/ ctx.usb_dev = 0 /\ opened = {}
                     \/ /\ ctx.usb_dev = i /\ opened = {i} /\ i \in DOMAIN bus
                        /\ ctx.usb_ctx /\ ctx.buffers = Open!Buffers
  /\ claimed \subseteq opened
  /\ pc \in {"reset", "describe", "latency", "bitmode", "open"} => claimed = opened

\* What the device in use has been found to be, and that no other has been touched.
OpenFound ==
  /\ pc \in {"filter"} \cup SetUp =>
       asked.vid \in {NULL, bus[i].vid} /\ asked.pid \in {NULL, bus[i].pid}
  /\ pc \in SetUp => Open!passes_filter(bus[i])
  /\ pc \in {"describe", "latency", "bitmode", "open"} =>
       ctx.type = Open!ChipTypes[bus[i].bcdDevice]
  /\ pc \in {"latency", "bitmode", "open"} => Open!recognized(bus[i])
  /\ pc \in {"init", "list", "scan", "filter", "found", "config", "configure"} => touched = {}
  /\ touched \subseteq {i} \cap DOMAIN bus
  /\ touched # {} => /\ asked.vid \in {NULL, bus[i].vid} /\ asked.pid \in {NULL, bus[i].pid}
                     /\ Open!passes_filter(bus[i])

OpenInv == OpenArguments /\ OpenHolds /\ OpenHandles /\ OpenFound

-----------------------------------------------------------------------------
(* Opening the chip: the steps                                               *)

LEMMA OpenInit == Open!Init => OpenInv
  <1> SUFFICES ASSUME Open!Init  PROVE OpenInv
    OBVIOUS
  <1> USE DEF Open!Init
  <1>1. OpenArguments
    <2>1. Len(bus) = 0 /\ Len(bus) + 1 = 1
      OBVIOUS
    <2>2. pc \in Open!Places
      BY DEF Open!Places
    <2>3. asked \in Filters \cup {Open!NoFilter}
      OBVIOUS
    <2>5. bus \in Buses \cup {<< >>}
      OBVIOUS
    <2>6. i \in 0 .. Len(bus) + 1
      BY <2>1
    <2>7. pc # "scan" /\ config0 \in BOOLEAN
      OBVIOUS
    <2>8. ctx \in Open!Contexts
      BY DEF Open!NoCtx, Open!Contexts
    <2>  QED
      BY <2>2, <2>3, <2>5, <2>6, <2>7, <2>8 DEF OpenArguments
  <1>2. OpenHolds
    BY DEF OpenHolds, OnTheWay, SetUp
  <1>3. OpenHandles
    BY DEF OpenHandles, SetUp
  <1>4. OpenFound
    BY DEF OpenFound, SetUp
  <1>  QED
    BY <1>1, <1>2, <1>3, <1>4 DEF OpenInv

LEMMA OpenConstants == Open!OpenAssumption
  BY PartsAssumption

LEMMA BusIsSeq ==
  ASSUME OpenArguments
  PROVE  /\ Len(bus) \in Nat /\ DOMAIN bus = 1 .. Len(bus)
         /\ \A u \in DOMAIN bus : Open!IsDevice(bus[u])
  <1>1. CASE bus = << >>
    BY <1>1
  <1>2. CASE bus \in Buses
    <2> DEFINE S == {bus[m] : m \in DOMAIN bus}
    <2>1. bus \in Seq(S) /\ \A m \in DOMAIN bus : Open!IsDevice(bus[m])
      BY <1>2, OpenConstants DEF Open!OpenAssumption
    <2> HIDE DEF S
    <2>  QED
      BY <2>1
  <1>  QED
    BY <1>1, <1>2 DEF OpenArguments

LEMMA ChipsAreKnown ==
  \A c \in DOMAIN Open!ChipTypes :
    Open!ChipTypes[c] \in {"none", "FT2232C", "FT2232H", "FT4232H", "FT232H"}
  BY DEF Open!ChipTypes

LEMMA OpenNext == OpenInv /\ Open!Next => OpenInv'
  <1> SUFFICES ASSUME OpenInv, Open!Next  PROVE OpenInv'
    OBVIOUS
  <1> USE DEF OpenInv, OnTheWay, SetUp
  <1>0. /\ Len(bus) \in Nat /\ DOMAIN bus = 1 .. Len(bus) /\ i \in 0 .. Len(bus) + 1
        /\ \A u \in DOMAIN bus : Open!IsDevice(bus[u])
    BY BusIsSeq DEF OpenArguments
  <1>1. ASSUME NEW f \in Filters, NEW ch \in Channels, Open!mpsse_open(f, ch)  PROVE OpenInv'
    <2> USE DEF Open!mpsse_open, Open!NoCtx
    <2>1. OpenArguments'
      <3>1. ctx' \in Open!Contexts
        <4>1. ch \in Nat
          BY OpenConstants DEF Open!OpenAssumption
        <4>2. CASE UNCHANGED ctx
          BY <4>2 DEF OpenArguments
        <4>3. ASSUME NEW got \in SUBSET Open!Buffers,
                     ctx' = [Open!NoCtx EXCEPT !.buffers = got, !.interface = ch]
              PROVE  ctx' \in Open!Contexts
          BY <4>1, <4>3 DEF Open!Contexts
        <4>  QED
          BY <1>1, <4>2, <4>3
      <3>2. pc' \in Open!Places /\ pc' # "scan"
        BY <1>1 DEF Open!Places
      <3>3. bus' \in Buses \cup {<< >>} /\ Len(bus') = 0
        BY <1>1
      <3>4. asked' \in Filters \cup {Open!NoFilter}
        BY <1>1
      <3>5. i' \in 0 .. Len(bus') + 1
        <4>1. i' = 0
          BY <1>1
        <4>  QED
          BY ONLY <3>3, <4>1
      <3>6. config0' \in BOOLEAN
        BY <1>1 DEF OpenArguments
      <3>  QED
        BY <3>1, <3>2, <3>3, <3>4, <3>5, <3>6 DEF OpenArguments
    <2>2. OpenHolds'
      BY <1>1, <1>0 DEF OpenHolds, OpenArguments, OpenHandles, Open!Contexts
    <2>3. OpenHandles'
      BY <1>1, <1>0, ZenonT(60) DEF OpenHandles, OpenHolds, OpenArguments, Open!Contexts
    <2>4. OpenFound'
      BY <1>1, <1>0 DEF OpenFound, OpenHandles, OpenArguments, Open!Contexts, Open!passes_filter,
                      Open!wanted, Open!recognized
    <2>  QED
      BY <2>1, <2>2, <2>3, <2>4
  <1>2. ASSUME Open!close  PROVE OpenInv'
    <2> USE DEF Open!close, Open!mpsse_close, Open!libusb_close, Open!NoCtx
    <2>1. OpenArguments'
      BY <1>2, <1>0 DEF OpenArguments, OpenHandles, Open!Places, Open!Contexts
    <2>2. OpenHolds'
      BY <1>2, <1>0 DEF OpenHolds, OpenArguments, OpenHandles, Open!Contexts
    <2>3. OpenHandles'
      BY <1>2, <1>0 DEF OpenHandles, OpenHolds, OpenArguments, Open!Contexts
    <2>4. OpenFound'
      BY <1>2, <1>0 DEF OpenFound, OpenHandles, OpenArguments, Open!Contexts, Open!passes_filter,
                      Open!wanted, Open!recognized
    <2>  QED
      BY <2>1, <2>2, <2>3, <2>4
  <1>3. ASSUME Open!libusb_init  PROVE OpenInv'
    <2> USE DEF Open!libusb_init
    <2>1. OpenArguments'
      BY <1>3, <1>0, ZenonT(60) DEF OpenArguments, OpenHandles, Open!Places, Open!Contexts
    <2>2. OpenHolds'
      BY <1>3, <1>0 DEF OpenHolds, OpenArguments, OpenHandles, Open!Contexts
    <2>3. OpenHandles'
      BY <1>3, <1>0 DEF OpenHandles, OpenHolds, OpenArguments, Open!Contexts
    <2>4. OpenFound'
      BY <1>3, <1>0 DEF OpenFound, OpenHandles, OpenArguments, Open!Contexts, Open!passes_filter,
                      Open!wanted, Open!recognized
    <2>  QED
      BY <2>1, <2>2, <2>3, <2>4
  <1>4. ASSUME Open!get_device_list  PROVE OpenInv'
    <2> USE DEF Open!get_device_list
    <2>1. OpenArguments'
      BY <1>4, <1>0 DEF OpenArguments, OpenHandles, Open!Places, Open!Contexts
    <2>2. OpenHolds'
      BY <1>4, <1>0 DEF OpenHolds, OpenArguments, OpenHandles, Open!Contexts
    <2>3. OpenHandles'
      BY <1>4, <1>0 DEF OpenHandles, OpenHolds, OpenArguments, Open!Contexts
    <2>4. OpenFound'
      BY <1>4, <1>0 DEF OpenFound, OpenHandles, OpenArguments, Open!Contexts, Open!passes_filter,
                      Open!wanted, Open!recognized
    <2>  QED
      BY <2>1, <2>2, <2>3, <2>4
  <1>5. ASSUME Open!scan_skips  PROVE OpenInv'
    <2> USE DEF Open!scan_skips, Open!next_device
    <2>1. OpenArguments'
      BY <1>5, <1>0 DEF OpenArguments, OpenHandles, Open!Places, Open!Contexts
    <2>2. OpenHolds'
      BY <1>5, <1>0 DEF OpenHolds, OpenArguments, OpenHandles, Open!Contexts
    <2>3. OpenHandles'
      BY <1>5, <1>0 DEF OpenHandles, OpenHolds, OpenArguments, Open!Contexts
    <2>4. OpenFound'
      BY <1>5, <1>0 DEF OpenFound, OpenHandles, OpenArguments, Open!Contexts, Open!passes_filter,
                      Open!wanted, Open!recognized
    <2>  QED
      BY <2>1, <2>2, <2>3, <2>4
  <1>6. ASSUME Open!scan_opens  PROVE OpenInv'
    <2> USE DEF Open!scan_opens, Open!at, Open!wanted
    <2>1. OpenArguments'
      BY <1>6, <1>0 DEF OpenArguments, OpenHandles, Open!Places, Open!Contexts
    <2>2. OpenHolds'
      BY <1>6, <1>0 DEF OpenHolds, OpenArguments, OpenHandles, Open!Contexts
    <2>3. OpenHandles'
      BY <1>6, <1>0 DEF OpenHandles, OpenHolds, OpenArguments, Open!Contexts
    <2>4. OpenFound'
      BY <1>6, <1>0 DEF OpenFound, OpenHandles, OpenArguments, Open!Contexts, Open!passes_filter,
                      Open!wanted, Open!recognized
    <2>  QED
      BY <2>1, <2>2, <2>3, <2>4
  <1>7. ASSUME Open!filter_refuses  PROVE OpenInv'
    <2> USE DEF Open!filter_refuses, Open!libusb_close
    <2>1. OpenArguments'
      BY <1>7, <1>0 DEF OpenArguments, OpenHandles, Open!Places, Open!Contexts
    <2>2. OpenHolds'
      BY <1>7, <1>0 DEF OpenHolds, OpenArguments, OpenHandles, Open!Contexts
    <2>3. OpenHandles'
      BY <1>7, <1>0 DEF OpenHandles, OpenHolds, OpenArguments, Open!Contexts
    <2>4. OpenFound'
      BY <1>7, <1>0 DEF OpenFound, OpenHandles, OpenArguments, Open!Contexts, Open!passes_filter,
                      Open!wanted, Open!recognized
    <2>  QED
      BY <2>1, <2>2, <2>3, <2>4
  <1>8. ASSUME Open!filter_accepts  PROVE OpenInv'
    <2> USE DEF Open!filter_accepts, Open!at
    <2>1. OpenArguments'
      BY <1>8, <1>0 DEF OpenArguments, OpenHandles, Open!Places, Open!Contexts
    <2>2. OpenHolds'
      BY <1>8, <1>0 DEF OpenHolds, OpenArguments, OpenHandles, Open!Contexts
    <2>3. OpenHandles'
      BY <1>8, <1>0 DEF OpenHandles, OpenHolds, OpenArguments, Open!Contexts
    <2>4. OpenFound'
      BY <1>8, <1>0 DEF OpenFound, OpenHandles, OpenArguments, Open!Contexts, Open!passes_filter,
                      Open!wanted, Open!recognized
    <2>  QED
      BY <2>1, <2>2, <2>3, <2>4
  <1>9. ASSUME Open!free_device_list  PROVE OpenInv'
    <2> USE DEF Open!free_device_list, Open!forget_dev
    <2>1. OpenArguments'
      BY <1>9, <1>0 DEF OpenArguments, OpenHandles, Open!Places, Open!Contexts
    <2>2. OpenHolds'
      BY <1>9, <1>0 DEF OpenHolds, OpenArguments, OpenHandles, Open!Contexts
    <2>3. OpenHandles'
      BY <1>9, <1>0 DEF OpenHandles, OpenHolds, OpenArguments, Open!Contexts
    <2>4. OpenFound'
      BY <1>9, <1>0 DEF OpenFound, OpenHandles, OpenArguments, Open!Contexts, Open!passes_filter,
                      Open!wanted, Open!recognized
    <2>  QED
      BY <2>1, <2>2, <2>3, <2>4
  <1>10. ASSUME Open!get_config_descriptor  PROVE OpenInv'
    <2> USE DEF Open!get_config_descriptor, Open!give_up, Open!libusb_close, Open!forget_dev
    <2>1. OpenArguments'
      <3>1. ctx' \in Open!Contexts
        BY <1>10 DEF OpenArguments, Open!Contexts
      <3>2. pc' \in Open!Places /\ pc' # "scan"
        BY <1>10 DEF OpenHandles, Open!Places
      <3>3. config0' \in BOOLEAN
        BY <1>10 DEF OpenArguments
      <3>  QED
        BY <1>10, <3>1, <3>2, <3>3 DEF OpenArguments
    <2>2. OpenHolds'
      BY <1>10, <1>0 DEF OpenHolds, OpenArguments, OpenHandles, Open!Contexts
    <2>3. OpenHandles'
      BY <1>10, <1>0 DEF OpenHandles, OpenHolds, OpenArguments, Open!Contexts
    <2>4. OpenFound'
      BY <1>10, <1>0 DEF OpenFound, OpenHandles, OpenArguments, Open!Contexts, Open!passes_filter,
                      Open!wanted, Open!recognized
    <2>  QED
      BY <2>1, <2>2, <2>3, <2>4
  <1>11. ASSUME Open!select_configuration  PROVE OpenInv'
    <2> USE DEF Open!select_configuration, Open!give_up, Open!libusb_close, Open!forget_dev
    <2>1. OpenArguments'
      <3>1. ctx' \in Open!Contexts
        BY <1>11 DEF OpenArguments, Open!Contexts
      <3>2. pc' \in Open!Places /\ pc' # "scan"
        BY <1>11 DEF OpenHandles, Open!Places
      <3>3. config0' \in BOOLEAN
        BY <1>11 DEF OpenArguments
      <3>  QED
        BY <1>11, <3>1, <3>2, <3>3 DEF OpenArguments
    <2>2. OpenHolds'
      <3>1. CASE Open!give_up
        BY <1>11, <1>0, <3>1 DEF OpenHolds, OpenArguments, OpenHandles, Open!Contexts
      <3>2. CASE pc' = "claim" /\ UNCHANGED <<ctx, config0, opened, claimed>>
        BY <1>11, <3>2 DEF OpenHolds
      <3>  QED
        BY <1>11, <3>1, <3>2
    <2>3. OpenHandles'
      BY <1>11, <1>0 DEF OpenHandles, OpenHolds, OpenArguments, Open!Contexts
    <2>4. OpenFound'
      BY <1>11, <1>0 DEF OpenFound, OpenHandles, OpenArguments, Open!Contexts, Open!passes_filter,
                      Open!wanted, Open!recognized
    <2>  QED
      BY <2>1, <2>2, <2>3, <2>4
  <1>12. ASSUME Open!claim_interface  PROVE OpenInv'
    <2> USE DEF Open!claim_interface, Open!give_up, Open!libusb_close, Open!forget_dev
    <2>1. OpenArguments'
      <3>1. ctx' \in Open!Contexts
        BY <1>12 DEF OpenArguments, Open!Contexts
      <3>2. pc' \in Open!Places /\ pc' # "scan"
        BY <1>12 DEF OpenHandles, Open!Places
      <3>3. config0' \in BOOLEAN
        BY <1>12 DEF OpenArguments
      <3>  QED
        BY <1>12, <3>1, <3>2, <3>3 DEF OpenArguments
    <2>2. OpenHolds'
      BY <1>12, <1>0 DEF OpenHolds, OpenArguments, OpenHandles, Open!Contexts
    <2>3. OpenHandles'
      BY <1>12, <1>0, ZenonT(60) DEF OpenHandles, OpenHolds, OpenArguments, Open!Contexts
    <2>4. OpenFound'
      BY <1>12, <1>0 DEF OpenFound, OpenHandles, OpenArguments, Open!Contexts, Open!passes_filter,
                      Open!wanted, Open!recognized
    <2>  QED
      BY <2>1, <2>2, <2>3, <2>4
  <1>13. ASSUME Open!reset_device  PROVE OpenInv'
    <2> USE DEF Open!reset_device, Open!give_up, Open!libusb_close, Open!forget_dev, Open!at
    <2>1. OpenArguments'
      <3>1. ctx' \in Open!Contexts
        <4>1. CASE ctx' = [ctx EXCEPT !.usb_dev = 0]
          BY <4>1 DEF OpenArguments, Open!Contexts
        <4>2. CASE /\ bus[i].bcdDevice \in DOMAIN Open!ChipTypes
                   /\ ctx' = [ctx EXCEPT !.type = Open!ChipTypes[bus[i].bcdDevice]]
          BY <4>2, ChipsAreKnown DEF OpenArguments, Open!Contexts
        <4>  QED
          BY <1>13, <4>1, <4>2
      <3>2. pc' \in Open!Places /\ pc' # "scan"
        BY <1>13 DEF OpenHandles, Open!Places
      <3>3. config0' \in BOOLEAN
        BY <1>13 DEF OpenArguments
      <3>  QED
        BY <1>13, <3>1, <3>2, <3>3 DEF OpenArguments
    <2>2. OpenHolds'
      BY <1>13, <1>0 DEF OpenHolds, OpenArguments, OpenHandles, Open!Contexts
    <2>3. OpenHandles'
      BY <1>13, <1>0 DEF OpenHandles, OpenHolds, OpenArguments, Open!Contexts
    <2>4. OpenFound'
      BY <1>13, <1>0 DEF OpenFound, OpenHandles, OpenArguments, Open!Contexts, Open!passes_filter,
                      Open!wanted, Open!recognized
    <2>  QED
      BY <2>1, <2>2, <2>3, <2>4
  <1>14. ASSUME Open!read_descriptor  PROVE OpenInv'
    <2> USE DEF Open!read_descriptor, Open!give_up, Open!libusb_close, Open!forget_dev, Open!at
    <2>1. OpenArguments'
      <3>1. ctx' \in Open!Contexts
        <4>1. CASE ctx' = [ctx EXCEPT !.endpoints = TRUE]
          BY ONLY <4>1, OpenArguments DEF OpenArguments, Open!Contexts
        <4>2. CASE ctx' = [ctx EXCEPT !.usb_dev = 0]
          BY ONLY <4>2, OpenArguments DEF OpenArguments, Open!Contexts
        <4>  QED
          BY <1>14, <4>1, <4>2
      <3>2. pc' \in Open!Places /\ pc' # "scan"
        BY <1>14 DEF OpenHandles, Open!Places
      <3>3. config0' \in BOOLEAN
        BY <1>14 DEF OpenArguments
      <3>  QED
        BY <1>14, <3>1, <3>2, <3>3 DEF OpenArguments
    <2>2. OpenHolds'
      BY <1>14, <1>0 DEF OpenHolds, OpenArguments, OpenHandles, Open!Contexts
    <2>3. OpenHandles'
      BY <1>14, <1>0 DEF OpenHandles, OpenHolds, OpenArguments, Open!Contexts
    <2>4. OpenFound'
      BY <1>14, <1>0, ZenonT(60) DEF OpenFound, OpenHandles, OpenArguments, Open!Contexts, Open!passes_filter,
                      Open!wanted, Open!recognized
    <2>  QED
      BY <2>1, <2>2, <2>3, <2>4
  <1>15. ASSUME Open!set_latency  PROVE OpenInv'
    <2> USE DEF Open!set_latency
    <2>1. OpenArguments'
      BY <1>15, <1>0 DEF OpenArguments, OpenHandles, Open!Places, Open!Contexts
    <2>2. OpenHolds'
      BY <1>15, <1>0 DEF OpenHolds, OpenArguments, OpenHandles, Open!Contexts
    <2>3. OpenHandles'
      BY <1>15, <1>0 DEF OpenHandles, OpenHolds, OpenArguments, Open!Contexts
    <2>4. OpenFound'
      BY <1>15, <1>0 DEF OpenFound, OpenHandles, OpenArguments, Open!Contexts, Open!passes_filter,
                      Open!wanted, Open!recognized
    <2>  QED
      BY <2>1, <2>2, <2>3, <2>4
  <1>16. ASSUME Open!set_bitmode  PROVE OpenInv'
    <2> USE DEF Open!set_bitmode
    <2>1. OpenArguments'
      BY <1>16, <1>0 DEF OpenArguments, OpenHandles, Open!Places, Open!Contexts
    <2>2. OpenHolds'
      BY <1>16, <1>0 DEF OpenHolds, OpenArguments, OpenHandles, Open!Contexts
    <2>3. OpenHandles'
      BY <1>16, <1>0, SMTT(30) DEF OpenHandles, OpenHolds, OpenArguments, Open!Contexts
    <2>4. OpenFound'
      BY <1>16, <1>0 DEF OpenFound, OpenHandles, OpenArguments, Open!Contexts, Open!passes_filter,
                      Open!wanted, Open!recognized
    <2>  QED
      BY <2>1, <2>2, <2>3, <2>4
  <1>17. ASSUME Open!open_error  PROVE OpenInv'
    <2> USE DEF Open!open_error, Open!mpsse_close, Open!libusb_close, Open!NoCtx
    <2>1. OpenArguments'
      BY <1>17, <1>0 DEF OpenArguments, OpenHandles, Open!Places, Open!Contexts
    <2>2. OpenHolds'
      BY <1>17, <1>0 DEF OpenHolds, OpenArguments, OpenHandles, Open!Contexts
    <2>3. OpenHandles'
      BY <1>17, <1>0 DEF OpenHandles, OpenHolds, OpenArguments, Open!Contexts
    <2>4. OpenFound'
      BY <1>17, <1>0 DEF OpenFound, OpenHandles, OpenArguments, Open!Contexts, Open!passes_filter,
                      Open!wanted, Open!recognized
    <2>  QED
      BY <2>1, <2>2, <2>3, <2>4
  <1>  QED
    BY <1>1, <1>2, <1>3, <1>4, <1>5, <1>6, <1>7, <1>8, <1>9, <1>10, <1>11, <1>12, <1>13, <1>14, <1>15, <1>16, <1>17 DEF Open!Next

-----------------------------------------------------------------------------
(* Opening the chip: the properties                                          *)

\* The numbers of a location that are looked at.
LookedAt(ports) == [k \in DOMAIN ports \cap 1 .. 7 |-> ports[k]]

\* device_location_equal walks a location to the end of the path and finds it to be the
\* path, as far as the seven numbers it looks at go (mpsse.c:128-173).
LEMMA LocationIsPath ==
  ASSUME NEW path \in Seq(Nat), Len(path) <= 7, NEW ports \in Seq(Nat),
         Open!path_steps(path, ports) = Len(path)
  PROVE  path = LookedAt(ports)
  <1> DEFINE stops(u) == \/ u = 7 \/ u = Len(ports)
                         \/ u < Len(path) /\ ports[u + 1] # path[u + 1]
             P(u) == stops(u) /\ \A m \in 0 .. u - 1 : ~stops(m)
             S == {u \in 0 .. 7 : stops(u)}
  <1>1. \E u \in 0 .. 7 : P(u)
    <2>1. S \subseteq Nat /\ 7 \in S
      OBVIOUS
    <2>2. PICK u \in S : \A m \in S : u <= m
      BY <2>1, LeastNat
    <2>3. \A m \in 0 .. u - 1 : m \in 0 .. 7 /\ ~(u <= m)
      BY <2>2
    <2>  QED
      BY <2>2, <2>3
  <1> DEFINE L == Len(path)
  <1>2. P(CHOOSE u \in 0 .. 7 : P(u))
    <2> HIDE DEF P
    <2>  QED
      BY <1>1
  <1>3. Open!path_steps(path, ports) = CHOOSE u \in 0 .. 7 : P(u)
    BY SMTT(30) DEF Open!path_steps
  <1>4. P(L)
    BY <1>2, <1>3
  <1>5. L \in Nat /\ Len(ports) \in Nat /\ L <= 7
    OBVIOUS
  <1>6. Len(ports) >= L
    BY <1>4, <1>5
  <1>7. \A u \in 1 .. L : ports[u] = path[u]
    <2>1. ASSUME NEW u \in 1 .. L  PROVE ports[u] = path[u]
      <3>1. u - 1 \in 0 .. L - 1 /\ (u - 1) + 1 = u /\ u - 1 < L
        BY <1>5
      <3>2. ~stops(u - 1)
        BY <1>4, <3>1
      <3>  QED
        BY <3>1, <3>2
    <2>  QED
      BY <2>1
  <1>8. L = 7 \/ L = Len(ports)
    BY <1>4, <1>5
  <1>9. DOMAIN ports \cap 1 .. 7 = 1 .. L
    <2>1. DOMAIN ports = 1 .. Len(ports)
      OBVIOUS
    <2>2. CASE L = 7
      BY <1>5, <1>6, <2>1, <2>2
    <2>3. CASE L = Len(ports)
      <3>1. DOMAIN ports = 1 .. L
        BY <2>1, <2>3
      <3>2. (1 .. L) \cap (1 .. 7) = 1 .. L
        <4>1. L \in Nat /\ L <= 7
          BY <1>5
        <4>  HIDE DEF L
        <4>2. \A k \in 1 .. L : k \in 1 .. 7
          BY <4>1
        <4>  QED
          BY <4>2
      <3>  QED
        BY <3>1, <3>2
    <2>  QED
      BY <1>8, <2>2, <2>3
  <1>10. path = [u \in 1 .. L |-> path[u]]
    OBVIOUS
  <1>  QED
    BY <1>7, <1>9, <1>10 DEF LookedAt

LEMMA OpenProperties ==
  ASSUME OpenInv
  PROVE  /\ Open!NothingKept /\ Open!UndefinedOnlyByList /\ Open!ContextOutlives
         /\ Open!OpenIsAsked /\ Open!OthersLeftAlone
  <1> USE DEF OpenInv, SetUp, OnTheWay
  <1>1. Open!NothingKept
    BY DEF Open!NothingKept, OpenHolds, OpenHandles
  <1>2. Open!UndefinedOnlyByList
    BY DEF Open!UndefinedOnlyByList, OpenHolds
  <1>3. Open!ContextOutlives
    BY DEF Open!ContextOutlives, OpenArguments, OpenHolds, OpenHandles, Open!Places
  <1>4. Open!OpenIsAsked
    <2> SUFFICES ASSUME pc = "open"  PROVE Open!OpenIsAsked
      BY Zenon DEF Open!OpenIsAsked
    <2> DEFINE d == bus[i]
    <2>1. opened = {i} /\ ctx.usb_dev = i /\ i \in DOMAIN bus /\ claimed = opened
      BY DEF OpenHandles
    <2>2. Open!IsDevice(d)
      BY <2>1, BusIsSeq
    <2>3. \A f \in Open!Fields : asked[f] \in {NULL, d[f]}
      BY DEF OpenFound, Open!Fields, Open!passes_filter, Open!wanted
    <2>4. ASSUME asked.location # NULL
          PROVE  /\ asked.location.bus = d.bus
                 /\ d.path = [u \in DOMAIN asked.location.ports \cap 1 .. 7 |->
                               asked.location.ports[u]]
      <3>1. Open!device_location_equal(d, asked.location)
        BY <2>4 DEF OpenFound, Open!passes_filter
      <3>2. asked \in Filters
        BY <2>4 DEF OpenArguments, Open!NoFilter
      <3>3. asked.location.ports \in Seq(Nat)
        BY <2>4, <3>2, OpenConstants DEF Open!OpenAssumption
      <3>4. d.path \in Seq(Nat) /\ Len(d.path) <= 7
        BY <2>2 DEF Open!IsDevice
      <3>5. /\ asked.location.bus = d.bus
            /\ Open!path_steps(d.path, asked.location.ports) = Len(d.path)
        BY <3>1 DEF Open!device_location_equal
      <3>  DEFINE path == d.path
                  ports == asked.location.ports
      <3>6. path \in Seq(Nat) /\ Len(path) <= 7 /\ ports \in Seq(Nat)
            /\ Open!path_steps(path, ports) = Len(path)
        BY <3>3, <3>4, <3>5
      <3>7. path = LookedAt(ports)
        <4>  HIDE DEF path, ports
        <4>  QED
          BY <3>6, LocationIsPath
      <3>  QED
        BY <3>5, <3>7 DEF LookedAt
    <2>5. ctx.type = Open!ChipTypes[d.bcdDevice]
      BY DEF OpenFound
    <2>6. \E a, b \in 1 .. 2 : /\ d.interfaces[ctx.interface + 1][a] = "in"
                              /\ d.interfaces[ctx.interface + 1][b] = "out"
      <3> DEFINE eps == d.interfaces[ctx.interface + 1]
      <3>1. {eps[1], eps[2]} = {"in", "out"}
        BY DEF OpenFound, Open!recognized
      <3>2. \/ eps[1] = "in" /\ eps[2] = "out"
            \/ eps[2] = "in" /\ eps[1] = "out"
        BY <3>1
      <3>3. 1 \in 1 .. 2 /\ 2 \in 1 .. 2
        OBVIOUS
      <3>  QED
        BY <3>2, <3>3
    <2>  QED
      BY <2>1, <2>3, <2>4, <2>5, <2>6, SMTT(60) DEF Open!OpenIsAsked
  <1>5. Open!OthersLeftAlone
    BY DEF Open!OthersLeftAlone, OpenFound, Open!Fields, Open!passes_filter, Open!wanted
  <1>  QED
    BY <1>1, <1>2, <1>3, <1>4, <1>5

-----------------------------------------------------------------------------
(* The clock of the chip: the arithmetic of the choice                       *)

\* What a quotient that is rounded up is.
LEMMA RoundedUp ==
  ASSUME NEW a \in Nat, NEW f \in Nat \ {0}
  PROVE  /\ ((a + f) - 1) \div f \in Nat
         /\ \A m \in Nat : m * f >= a <=> m >= ((a + f) - 1) \div f
  OBVIOUS

\* The slow base clock divided by a number is the fast one divided by five times that.
LEMMA FifthOfBoth ==
  ASSUME NEW a \in Nat, NEW k \in Nat \ {0}
  PROVE  a \div k = (5 * a) \div (5 * k)
  <1> DEFINE q == a \div k
  <1>1. q \in Nat /\ q * k <= a /\ a < (q + 1) * k
    OBVIOUS
  <1> HIDE DEF q
  <1>2. q * (5 * k) <= 5 * a /\ 5 * a < (q + 1) * (5 * k)
    BY <1>1
  <1>3. q = (5 * a) \div (5 * k)
    <2> DEFINE b == 5 * a
               c == 5 * k
    <2>1. b \in Nat /\ c \in Nat \ {0}
      OBVIOUS
    <2>2. q * c <= b /\ b < (q + 1) * c
      BY <1>2
    <2> HIDE DEF b, c
    <2>3. q = b \div c
      BY <1>1, <2>1, <2>2
    <2>  QED
      BY <2>3 DEF b, c
  <1>  QED
    BY <1>3 DEF q

\* A base clock, halved, divided by so much that it is not faster than f.
DividedFor(a, f) == ((a + f) - 1) \div f

LEMMA DividedForIs ==
  ASSUME NEW a \in Nat, NEW f \in Nat \ {0}
  PROVE  /\ DividedFor(a, f) \in Nat
         /\ \A m \in Nat : m * f >= a <=> m >= DividedFor(a, f)
         /\ a > 0 => DividedFor(a, f) >= 1
  <1>1. /\ DividedFor(a, f) \in Nat
        /\ \A m \in Nat : m * f >= a <=> m >= DividedFor(a, f)
    BY RoundedUp DEF DividedFor
  <1>2. 0 * f = 0
    OBVIOUS
  <1>3. 0 * f >= a <=> 0 >= DividedFor(a, f)
    BY <1>1
  <1>  QED
    BY <1>1, <1>2, <1>3

LEMMA NeverZero ==
  ASSUME NEW a \in Nat \ {0}, NEW f \in Nat \ {0}
  PROVE  DividedFor(a, f) \in Nat \ {0}
  BY DividedForIs

LEMMA DivisorIs ==
  ASSUME NEW f \in Nat \ {0}
  PROVE  /\ Frequency!divisor(f) \in Nat /\ Frequency!divisor(f) <= 65535
         /\ Frequency!fast_base(f) =>
              /\ Frequency!high_speed
              /\ Frequency!divisor(f) + 1 = DividedFor(30000000, f)
              /\ Frequency!actual(f) = 30000000 \div (1 + Frequency!divisor(f))
         /\ ~Frequency!fast_base(f) =>
              /\ Frequency!high_speed => f <= 457
              /\ \/ Frequency!divisor(f) + 1 = DividedFor(6000000, f)
                 \/ /\ Frequency!divisor(f) + 1 = 65536
                    /\ 65536 < DividedFor(6000000, f)
              /\ Frequency!actual(f) = 6000000 \div (1 + Frequency!divisor(f))
  <1> DEFINE fast == DividedFor(30000000, f)
             slow == DividedFor(6000000, f)
  <1>1. fast \in Nat /\ slow \in Nat /\ fast >= 1 /\ slow >= 1
    <2>1. DividedFor(30000000, f) \in Nat \ {0}
      BY NeverZero, SMT
    <2>2. DividedFor(6000000, f) \in Nat \ {0}
      BY NeverZero, SMT
    <2>  QED
      BY <2>1, <2>2, SMT
  <1>2. f >= 458 => fast <= 65536
    <2>1. ASSUME f >= 458  PROVE fast <= 65536
      <3>1. 65536 * f >= 30000000
        BY <2>1, SMT
      <3>  QED
        BY <3>1, DividedForIs, SMT
    <2>  QED
      BY <2>1, SMT
  <1>3. Frequency!fast_base(f) <=> (f >= 458 /\ Frequency!high_speed)
    BY SMT DEF Frequency!fast_base
  <1>4. ASSUME Frequency!fast_base(f)
        PROVE  /\ Frequency!divisor(f) = fast - 1
               /\ Frequency!actual(f) = 30000000 \div (1 + Frequency!divisor(f))
    <2>1. Frequency!base_clock(f) \div 2 = 30000000
      BY <1>4, SMT DEF Frequency!base_clock
    <2>2. Frequency!divisor(f) = IF fast - 1 > 65535 THEN 65535 ELSE fast - 1
      BY <2>1, SMT DEF Frequency!divisor, DividedFor
    <2>3. Frequency!actual(f) = 30000000 \div (1 + Frequency!divisor(f))
      BY <2>1, SMT DEF Frequency!actual
    <2> HIDE DEF fast
    <2>  QED
      BY <1>1, <1>2, <1>3, <1>4, <2>2, <2>3, SMT
  <1>5. ASSUME ~Frequency!fast_base(f)
        PROVE  /\ Frequency!divisor(f) = IF slow - 1 > 65535 THEN 65535 ELSE slow - 1
               /\ Frequency!actual(f) = 6000000 \div (1 + Frequency!divisor(f))
    <2>1. Frequency!base_clock(f) \div 2 = 6000000
      BY <1>5, SMT DEF Frequency!base_clock
    <2>2. Frequency!divisor(f) = IF slow - 1 > 65535 THEN 65535 ELSE slow - 1
      BY <2>1, SMT DEF Frequency!divisor, DividedFor
    <2>3. Frequency!actual(f) = 6000000 \div (1 + Frequency!divisor(f))
      BY <2>1, SMT DEF Frequency!actual
    <2>  QED
      BY <2>2, <2>3, SMT
  <1> HIDE DEF fast, slow
  <1>6. Frequency!divisor(f) \in Nat /\ Frequency!divisor(f) <= 65535
    <2>1. CASE Frequency!fast_base(f)
      <3>1. fast <= 65536 /\ fast \in Nat \ {0}
        BY <1>1, <1>2, <1>3, <2>1, SMT
      <3>2. Frequency!divisor(f) = fast - 1
        BY <1>4, <2>1, SMT
      <3>  QED
        BY <3>1, <3>2, SMT
    <2>2. CASE ~Frequency!fast_base(f)
      <3>1. Frequency!divisor(f) = IF slow - 1 > 65535 THEN 65535 ELSE slow - 1
        BY <1>5, <2>2, SMT
      <3>  QED
        BY <1>1, <3>1, SMT
    <2>  QED
      BY <2>1, <2>2
  <1>7. Frequency!fast_base(f) => Frequency!divisor(f) + 1 = fast
    BY <1>1, <1>4, SMT
  <1>8. ~Frequency!fast_base(f) =>
          \/ Frequency!divisor(f) + 1 = slow
          \/ Frequency!divisor(f) + 1 = 65536 /\ 65536 < slow
    BY <1>1, <1>5, SMT
  <1>9. ~Frequency!fast_base(f) /\ Frequency!high_speed => f <= 457
    BY <1>3, SMT
  <1>  QED
    <2>1. Frequency!fast_base(f) =>
            /\ Frequency!high_speed
            /\ Frequency!divisor(f) + 1 = DividedFor(30000000, f)
            /\ Frequency!actual(f) = 30000000 \div (1 + Frequency!divisor(f))
      BY <1>3, <1>4, <1>7, SMT DEF fast
    <2>2. ~Frequency!fast_base(f) =>
            /\ Frequency!high_speed => f <= 457
            /\ \/ Frequency!divisor(f) + 1 = DividedFor(6000000, f)
               \/ /\ Frequency!divisor(f) + 1 = 65536
                  /\ 65536 < DividedFor(6000000, f)
            /\ Frequency!actual(f) = 6000000 \div (1 + Frequency!divisor(f))
      BY <1>5, <1>8, <1>9, SMT DEF slow
    <2>  QED
      BY <1>6, <2>1, <2>2

\* No multiple of five that is possible lies between what is wanted and what is chosen.
LEMMA ChoiceIsBest ==
  ASSUME NEW f \in Nat \ {0}, NEW d \in Nat,
         d = DividedFor(6000000, f) \/ (d = 65536 /\ 65536 < DividedFor(6000000, f))
  PROVE  /\ 5 * d >= DividedFor(30000000, f) \/ 5 * d = 5 * 65536
         /\ \A u \in DividedFor(30000000, f) .. 5 * d - 1 : u % 5 # 0
  <1> DEFINE fast == DividedFor(30000000, f)
             slow == DividedFor(6000000, f)
  <1>1. fast \in Nat /\ slow \in Nat
    <2>1. DividedFor(30000000, f) \in Nat
      BY NeverZero, SMT
    <2>2. DividedFor(6000000, f) \in Nat
      BY NeverZero, SMT
    <2>  QED
      BY <2>1, <2>2, SMT
  <1>2. \A m \in Nat : m * f >= 6000000 <=> m >= slow
    BY DividedForIs, SMT
  <1>3. \A m \in Nat : m * f >= 30000000 <=> m >= fast
    BY DividedForIs, SMT
  <1>5. d <= slow /\ (d = slow \/ d = 65536)
    BY <1>1, SMT
  <1> HIDE DEF fast, slow
  <1>4. \A m \in Nat : 5 * m >= fast <=> m >= slow
    <2>1. ASSUME NEW m \in Nat  PROVE 5 * m >= fast <=> m >= slow
      <3>1. 5 * m \in Nat
        BY SMT
      <3>2. (5 * m) * f >= 30000000 <=> 5 * m >= fast
        BY <1>3, <3>1, SMT
      <3>3. (5 * m) * f >= 30000000 <=> m * f >= 6000000
        BY SMT
      <3>  QED
        BY <1>2, <3>2, <3>3, SMT
    <2>  QED
      BY <2>1
  <1>6. 5 * d >= fast \/ 5 * d = 5 * 65536
    BY <1>1, <1>4, <1>5, SMT
  <1>7. ASSUME NEW u \in fast .. 5 * d - 1  PROVE u % 5 # 0
    <2>1. u \in Nat /\ u >= fast /\ u < 5 * d
      BY <1>1, SMT
    <2>2. ASSUME u % 5 = 0  PROVE FALSE
      <3>1. PICK m \in Nat : u = 5 * m
        BY <2>1, <2>2, SMT
      <3>2. m >= slow
        BY <1>4, <2>1, <3>1, SMT
      <3>  QED
        BY <1>1, <1>5, <2>1, <3>1, <3>2, SMT
    <2>  QED
      BY <2>2
  <1>  QED
    BY <1>6, <1>7, SMT DEF fast

\* Where the slow clock is chosen, no division of the fast one is slow enough.
LEMMA FastIsTooFast ==
  ASSUME NEW f \in Nat \ {0}, f <= 457
  PROVE  DividedFor(30000000, f) > 65536
  <1>1. 65536 * f < 30000000
    BY SMT
  <1>2. f \in Nat \ {0} /\ 65536 \in Nat /\ 30000000 \in Nat
    BY SMT
  <1>3. /\ DividedFor(30000000, f) \in Nat
        /\ 65536 * f >= 30000000 <=> 65536 >= DividedFor(30000000, f)
    BY <1>2, DividedForIs, SMT
  <1>  QED
    BY <1>1, <1>3, SMT

-----------------------------------------------------------------------------
(* The clock of the chip: the invariant                                      *)

\* The settings the last frequency asked for is to have.
SettingsFor ==
  IF asked = 0 THEN chip.rtck
  ELSE /\ ~chip.rtck
       /\ chip.divide_by_5 <=> ~Frequency!fast_base(asked)
       /\ chip.divisor = Frequency!divisor(asked)

FrequencyInv ==
  /\ asked \in Nat \cup {-1}
  /\ asked = 0 => Frequency!high_speed
  /\ asked # -1 => returned = Frequency!actual(asked)
  /\ queued = << >> \/ (asked # -1 /\ queued = Frequency!commands(asked))
  /\ DOMAIN chip = {"rtck", "divide_by_5", "divisor"}
  /\ ~Frequency!high_speed => ~chip.rtck /\ chip.divide_by_5
  /\ queued = << >> /\ in_step /\ asked # -1 => SettingsFor

LEMMA FrequencyInit == Frequency!Init => FrequencyInv
  BY DEF Frequency!Init, FrequencyInv

-----------------------------------------------------------------------------
(* The clock of the chip: the commands, and what the chip takes              *)

\* Three commands, one after the other.
LEMMA Triple ==
  ASSUME NEW S, NEW a \in S, NEW b \in S, NEW c \in S
  PROVE  (<<a>> \o <<b>>) \o <<c>> = <<a, b, c>>
  <1> DEFINE q == <<a>> \o <<b>>
             last == <<c>>
             r == q \o last
             t == <<a, b, c>>
  <1>1. <<a>> \in Seq(S) /\ <<b>> \in Seq(S)
    OBVIOUS
  <1>2. q \in Seq(S) /\ Len(q) = 2 /\ q[1] = a /\ q[2] = b
    BY <1>1, ConcatProperties
  <1>3. last \in Seq(S) /\ Len(last) = 1 /\ last[1] = c
    OBVIOUS
  <1>4. t \in Seq(S) /\ Len(t) = 3 /\ t[1] = a /\ t[2] = b /\ t[3] = c
    OBVIOUS
  <1>5. r \in Seq(S) /\ Len(r) = 3 /\ \A m \in 1 .. 3 : r[m] = IF m <= 2 THEN q[m] ELSE last[m - 2]
    <2>1. /\ r \in Seq(S) /\ Len(r) = Len(q) + Len(last)
          /\ \A m \in 1 .. Len(q) + Len(last) :
               r[m] = IF m <= Len(q) THEN q[m] ELSE last[m - Len(q)]
      <3>  HIDE DEF q, last
      <3>  QED
        BY <1>2, <1>3, ConcatProperties
    <2>  HIDE DEF q, last, r
    <2>  QED
      BY <1>2, <1>3, <2>1
  <1>6. r[1] = a /\ r[2] = b /\ r[3] = c
    <2>  HIDE DEF q, last, r
    <2>  QED
      BY <1>2, <1>3, <1>5
  <1>7. r = t
    <2>  HIDE DEF q, last, r, t
    <2>  QED
      BY <1>4, <1>5, <1>6, SeqEqual
  <1>  QED
    BY <1>7

\* The three commands of mpsse_set_frequency.
Rtck(enable) == [set |-> "rtck", to |-> enable]
DivideBy5(enable) == [set |-> "divide_by_5", to |-> enable]
Divisor(value) == [set |-> "divisor", to |-> value]

LEMMA CommandsAre ==
  ASSUME NEW f \in Nat
  PROVE  Frequency!commands(f) =
           IF Frequency!high_speed
           THEN IF f = 0 THEN <<Rtck(TRUE)>>
                ELSE <<Rtck(FALSE), DivideBy5(~Frequency!fast_base(f)),
                       Divisor(Frequency!divisor(f))>>
           ELSE IF f = 0 THEN << >> ELSE <<Divisor(Frequency!divisor(f))>>
  <1> DEFINE a == Rtck(FALSE)
             b == DivideBy5(~Frequency!fast_base(f))
             c == Divisor(Frequency!divisor(f))
  <1>1. CASE f = 0
    BY <1>1 DEF Frequency!commands, Frequency!config, Rtck
  <1>2. CASE f # 0 /\ Frequency!high_speed
    <2>1. Frequency!commands(f) = (<<a>> \o <<b>>) \o <<c>>
      BY <1>2 DEF Frequency!commands, Frequency!config, Rtck, DivideBy5, Divisor
    <2>2. (<<a>> \o <<b>>) \o <<c>> = <<a, b, c>>
      <3>  HIDE DEF a, b, c
      <3>1. a \in {a, b, c} /\ b \in {a, b, c} /\ c \in {a, b, c}
        OBVIOUS
      <3>  QED
        BY <3>1, Triple
    <2>  QED
      BY <1>2, <2>1, <2>2
  <1>3. CASE f # 0 /\ ~Frequency!high_speed
    <2>1. Frequency!commands(f) = (<< >> \o << >>) \o <<c>>
      BY <1>3 DEF Frequency!commands, Frequency!config, Divisor
    <2>2. << >> \o << >> = << >> /\ << >> \o <<c>> = <<c>>
      <3>  HIDE DEF c
      <3>  QED
        OBVIOUS
    <2>  QED
      BY <1>3, <2>1, <2>2
  <1>  QED
    BY <1>1, <1>2, <1>3

\* A setting is what the one command for it says.
LEMMA TakenAt ==
  ASSUME NEW k \in Nat, NEW s \in DOMAIN chip, NEW m \in 1 .. k, queued[m].set = s,
         \A j \in 1 .. k : queued[j].set = s => j = m
  PROVE  Frequency!taken(k)[s] = queued[m].to
  <1> DEFINE last == {j \in 1 .. k : queued[j].set = s}
             latest == CHOOSE j \in last : \A l \in last : l <= j
  <1>1. last = {m}
    OBVIOUS
  <1>2. latest = m
    <2>1. \E j \in last : \A l \in last : l <= j
      BY <1>1
    <2>2. latest \in last
      BY <2>1
    <2>  QED
      BY <1>1, <2>2
  <1>3. Frequency!taken(k)[s] = IF last = {} THEN chip[s] ELSE queued[latest].to
    BY DEF Frequency!taken
  <1>  HIDE DEF last, latest
  <1>  QED
    BY <1>1, <1>2, <1>3

\* A setting without a command stays.
LEMMA TakenNot ==
  ASSUME NEW k \in Nat, NEW s \in DOMAIN chip, \A j \in 1 .. k : queued[j].set # s
  PROVE  Frequency!taken(k)[s] = chip[s]
  <1>1. {j \in 1 .. k : queued[j].set = s} = {}
    OBVIOUS
  <1>  QED
    BY <1>1 DEF Frequency!taken

LEMMA ActualIsNat ==
  ASSUME NEW f \in Nat \ {0}
  PROVE  Frequency!actual(f) \in Nat
  <1> DEFINE d == 1 + Frequency!divisor(f)
  <1>1. d \in Nat \ {0}
    BY DivisorIs, SMT
  <1>2. Frequency!actual(f) = 30000000 \div d \/ Frequency!actual(f) = 6000000 \div d
    BY DivisorIs, SMT
  <1>  HIDE DEF d
  <1>  QED
    BY <1>1, <1>2, SMT

LEMMA CommandsAreSeq ==
  ASSUME NEW f \in Nat
  PROVE  /\ Len(Frequency!commands(f)) \in Nat
         /\ Frequency!high_speed \/ f # 0 => Frequency!commands(f) # << >>
  <1> DEFINE a == Rtck(TRUE)
             b == Rtck(FALSE)
             c == DivideBy5(~Frequency!fast_base(f))
             d == Divisor(Frequency!divisor(f))
  <1>1. Frequency!commands(f) = IF Frequency!high_speed
                                THEN IF f = 0 THEN <<a>> ELSE <<b, c, d>>
                                ELSE IF f = 0 THEN << >> ELSE <<d>>
    BY CommandsAre
  <1>  HIDE DEF a, b, c, d
  <1>2. /\ Len(<<a>>) = 1 /\ Len(<<d>>) = 1 /\ Len(<<b, c, d>>) = 3 /\ Len(<< >>) = 0
        /\ <<a>> # << >> /\ <<d>> # << >> /\ <<b, c, d>> # << >>
    OBVIOUS
  <1>  QED
    BY <1>1, <1>2

\* Once all its commands are taken the chip has the settings, and a chip of full speed
\* never changes its base clock or follows RTCK.
LEMMA TakenAll ==
  ASSUME FrequencyInv, queued # << >>, NEW k \in 0 .. Len(queued), chip' = Frequency!taken(k)
  PROVE  /\ DOMAIN chip' = DOMAIN chip
         /\ ~Frequency!high_speed => ~chip'.rtck /\ chip'.divide_by_5
         /\ k = Len(queued) =>
              IF asked = 0 THEN chip'.rtck
              ELSE /\ ~chip'.rtck
                   /\ chip'.divide_by_5 <=> ~Frequency!fast_base(asked)
                   /\ chip'.divisor = Frequency!divisor(asked)
  <1> DEFINE full == Len(queued)
  <1>1. DOMAIN chip' = DOMAIN chip
    BY DEF Frequency!taken
  <1>2. asked \in Nat /\ queued = Frequency!commands(asked)
    BY DEF FrequencyInv
  <1>3. "rtck" \in DOMAIN chip /\ "divide_by_5" \in DOMAIN chip /\ "divisor" \in DOMAIN chip
    BY DEF FrequencyInv
  <1>4. CASE ~Frequency!high_speed
    <2>1. asked # 0 /\ queued = <<Divisor(Frequency!divisor(asked))>>
      BY <1>2, <1>4, CommandsAre DEF FrequencyInv
    <2>2. full = 1 /\ k \in 0 .. 1 /\ queued[1] = Divisor(Frequency!divisor(asked))
      BY <2>1
    <2>3. queued[1].set = "divisor" /\ queued[1].to = Frequency!divisor(asked)
      BY <2>2 DEF Divisor
    <2>4. \A j \in 1 .. k : j = 1
      BY <2>2
    <2>5. chip'["rtck"] = chip["rtck"] /\ chip'["divide_by_5"] = chip["divide_by_5"]
      BY <1>3, <2>2, <2>3, <2>4, TakenNot
    <2>6. k = full => chip'["divisor"] = Frequency!divisor(asked)
      BY <1>3, <2>2, <2>3, <2>4, TakenAt
    <2>7. ~Frequency!fast_base(asked)
      BY <1>4 DEF Frequency!fast_base
    <2>8. ~chip'.rtck /\ chip'.divide_by_5
      BY <1>4, <2>5 DEF FrequencyInv
    <2>  QED
      BY <1>1, <1>4, <2>1, <2>6, <2>7, <2>8
  <1>5. CASE Frequency!high_speed /\ asked = 0
    <2>1. queued = <<Rtck(TRUE)>>
      BY <1>2, <1>5, CommandsAre
    <2>2. full = 1 /\ queued[1].set = "rtck" /\ queued[1].to = TRUE
      BY <2>1 DEF Rtck
    <2>3. k = full => chip'["rtck"] = TRUE
      BY <1>3, <2>2, TakenAt
    <2>  QED
      BY <1>1, <1>5, <2>3
  <1>6. CASE Frequency!high_speed /\ asked # 0
    <2>1. queued = <<Rtck(FALSE), DivideBy5(~Frequency!fast_base(asked)),
                     Divisor(Frequency!divisor(asked))>>
      BY <1>2, <1>6, CommandsAre
    <2>2. /\ full = 3
          /\ queued[1] = Rtck(FALSE) /\ queued[2] = DivideBy5(~Frequency!fast_base(asked))
          /\ queued[3] = Divisor(Frequency!divisor(asked))
      BY <2>1
    <2>3. /\ queued[1].set = "rtck" /\ queued[1].to = FALSE
          /\ queued[2].set = "divide_by_5" /\ queued[2].to = ~Frequency!fast_base(asked)
          /\ queued[3].set = "divisor" /\ queued[3].to = Frequency!divisor(asked)
      BY <2>2 DEF Rtck, DivideBy5, Divisor
    <2>4. ASSUME k = full
          PROVE  /\ chip'["rtck"] = queued[1].to
                 /\ chip'["divide_by_5"] = queued[2].to
                 /\ chip'["divisor"] = queued[3].to
      <3>1. k = 3 /\ \A j \in 1 .. 3 : j = 1 \/ j = 2 \/ j = 3
        BY <2>2, <2>4
      <3>2. chip'["rtck"] = queued[1].to
        BY <1>3, <2>3, <3>1, TakenAt
      <3>3. chip'["divide_by_5"] = queued[2].to
        BY <1>3, <2>3, <3>1, TakenAt
      <3>4. chip'["divisor"] = queued[3].to
        BY <1>3, <2>3, <3>1, TakenAt
      <3>  QED
        BY <3>2, <3>3, <3>4
    <2>5. ASSUME k = full
          PROVE  /\ ~chip'.rtck
                 /\ chip'.divide_by_5 <=> ~Frequency!fast_base(asked)
                 /\ chip'.divisor = Frequency!divisor(asked)
      BY <2>3, <2>4, <2>5
    <2>  QED
      BY <1>1, <1>6, <2>5
  <1>  QED
    BY <1>4, <1>5, <1>6

-----------------------------------------------------------------------------
(* The clock of the chip: the steps                                          *)

\* What is chosen depends on the chip and the frequency alone.
LEMMA SameChoice ==
  ASSUME type' = type, NEW f, asked' = f
  PROVE  /\ Frequency!high_speed' <=> Frequency!high_speed
         /\ Frequency!fast_base(asked)' <=> Frequency!fast_base(f)
         /\ Frequency!divisor(asked)' = Frequency!divisor(f)
         /\ Frequency!commands(asked)' = Frequency!commands(f)
         /\ Frequency!actual(asked)' = Frequency!actual(f)
  BY DEF Frequency!high_speed, Frequency!fast_base, Frequency!divisor, Frequency!base_clock,
         Frequency!commands, Frequency!config, Frequency!actual

LEMMA FrequencySet ==
  ASSUME FrequencyInv, NEW f \in Nat, Frequency!mpsse_set_frequency(f)
  PROVE  FrequencyInv'
  <1> USE DEF Frequency!mpsse_set_frequency
  <1>1. CASE Frequency!actual(f) < 0
    <2>1. ~Frequency!high_speed /\ f = 0
      <3>1. ASSUME f # 0  PROVE FALSE
        <4>1. Frequency!actual(f) \in Nat
          BY <3>1, ActualIsNat
        <4>  QED
          BY <1>1, <4>1
      <3>2. ~Frequency!high_speed
        BY <1>1, <3>1 DEF Frequency!actual
      <3>  QED
        BY <3>1, <3>2
    <2>2. asked' = -1 /\ queued' = << >>
      BY <1>1, <2>1, CommandsAre
    <2>3. Frequency!high_speed' <=> Frequency!high_speed
      BY DEF Frequency!high_speed
    <2>  QED
      BY <2>2, <2>3 DEF FrequencyInv
  <1>2. CASE ~(Frequency!actual(f) < 0)
    <2>1. asked' = f
      BY <1>2
    <2>2. f = 0 => Frequency!high_speed
      BY <1>2 DEF Frequency!actual, Frequency!ERROR_FAIL
    <2>3. queued' # << >>
      BY <2>2, CommandsAreSeq
    <2>  QED
      BY <2>1, <2>2, <2>3, SameChoice DEF FrequencyInv
  <1>  QED
    BY <1>1, <1>2

LEMMA FrequencyNext == FrequencyInv /\ Frequency!Next => FrequencyInv'
  <1> SUFFICES ASSUME FrequencyInv, Frequency!Next  PROVE FrequencyInv'
    OBVIOUS
  <1>0. Frequencies \subseteq Nat
    BY PartsAssumption DEF Frequency!FrequencyAssumption
  <1>1. ASSUME NEW f \in Frequencies, Frequency!mpsse_set_frequency(f)
        PROVE  FrequencyInv'
    BY <1>0, <1>1, FrequencySet
  <1>2. ASSUME NEW f \in Frequencies, Frequency!ftdi_khz_speed(f \div 1000)
        PROVE  FrequencyInv'
    <2>1. (f \div 1000) * 1000 \in Nat
      BY <1>0
    <2>2. Frequency!mpsse_set_frequency((f \div 1000) * 1000)
      BY <1>2 DEF Frequency!ftdi_khz_speed
    <2>  QED
      BY <2>1, <2>2, FrequencySet
  <1>3. ASSUME Frequency!mpsse_flush  PROVE FrequencyInv'
    <2> USE DEF Frequency!mpsse_flush
    <2>1. asked' = asked /\ type' = type /\ returned' = returned /\ queued' = << >>
      BY <1>3
    <2>2. PICK k \in 0 .. Len(queued) :
            chip' = Frequency!taken(k) /\ (in_step' => k = Len(queued))
      <3>1. Len(queued) \in Nat
        BY <1>3, CommandsAreSeq DEF FrequencyInv
      <3>  QED
        BY <1>3, <3>1
    <2>3. /\ DOMAIN chip' = DOMAIN chip
          /\ ~Frequency!high_speed => ~chip'.rtck /\ chip'.divide_by_5
          /\ in_step' =>
               IF asked = 0 THEN chip'.rtck
               ELSE /\ ~chip'.rtck
                    /\ chip'.divide_by_5 <=> ~Frequency!fast_base(asked)
                    /\ chip'.divisor = Frequency!divisor(asked)
      BY <1>3, <2>2, TakenAll
    <2>4. in_step' => SettingsFor'
      BY <2>1, <2>3, SameChoice DEF SettingsFor
    <2>  QED
      BY <2>1, <2>3, <2>4, SameChoice DEF FrequencyInv
  <1>  QED
    BY <1>1, <1>2, <1>3 DEF Frequency!Next

-----------------------------------------------------------------------------
(* The clock of the chip: the properties                                     *)

LEMMA FrequencyProperties ==
  ASSUME FrequencyInv
  PROVE  /\ Frequency!NeverFaster /\ Frequency!NotSlower
         /\ Frequency!ReturnedIsActual /\ Frequency!RtckAsAsked
  <1>1. Frequency!RtckAsAsked
    BY DEF Frequency!RtckAsAsked, FrequencyInv, SettingsFor
  <1>2. ASSUME Frequency!settled
        PROVE  Frequency!NeverFaster /\ Frequency!NotSlower /\ Frequency!ReturnedIsActual
    <2> DEFINE d == Frequency!divisor(asked) + 1
               fast == DividedFor(30000000, asked)
    <2>1. asked \in Nat \ {0}
      BY <1>2, SMT DEF Frequency!settled, FrequencyInv
    <2>2. /\ chip.divide_by_5 <=> ~Frequency!fast_base(asked)
          /\ chip.divisor = Frequency!divisor(asked)
          /\ returned = Frequency!actual(asked)
      BY <1>2, <2>1, SMT DEF Frequency!settled, FrequencyInv, SettingsFor
    <2>3. d \in Nat \ {0} /\ d <= 65536
      BY <2>1, DivisorIs, SMT
    <2>4. Frequency!wanted_division = fast /\ fast \in Nat
      <3>1. Frequency!wanted_division = fast
        BY <2>1, SMT DEF Frequency!wanted_division, DividedFor
      <3>2. fast \in Nat
        BY <2>1, NeverZero, SMT
      <3>  QED
        BY <3>1, <3>2
    <2>5. Frequency!slowest = 5 * 65536
      BY DEF Frequency!slowest
    <2>6. CASE Frequency!fast_base(asked)
      <3>1. Frequency!division = d /\ d = fast
        BY <2>1, <2>2, <2>6, DivisorIs, SMT DEF Frequency!division
      <3>2. returned = 30000000 \div d
        BY <2>1, <2>2, <2>6, DivisorIs, SMT
      <3>  HIDE DEF d, fast
      <3>3. Frequency!NeverFaster
        BY <2>3, <2>4, <3>1, SMT DEF Frequency!NeverFaster
      <3>4. Frequency!NotSlower
        BY <2>3, <2>4, <3>1, SMT DEF Frequency!NotSlower
      <3>5. Frequency!ReturnedIsActual
        BY <3>1, <3>2, SMT DEF Frequency!ReturnedIsActual
      <3>  QED
        BY <3>3, <3>4, <3>5
    <2>7. CASE ~Frequency!fast_base(asked)
      <3>1. Frequency!division = 5 * d
        BY <2>1, <2>2, <2>7, SMT DEF Frequency!division
      <3>2. /\ Frequency!high_speed => asked <= 457
            /\ d = DividedFor(6000000, asked) \/ (d = 65536 /\ 65536 < DividedFor(6000000, asked))
        BY <2>1, <2>7, DivisorIs, SMT
      <3>3. returned = 30000000 \div (5 * d)
        <4>1. returned = 6000000 \div d
          BY <2>1, <2>2, <2>7, DivisorIs, SMT
        <4>2. 6000000 \div d = (5 * 6000000) \div (5 * d)
          <5>  HIDE DEF d
          <5>  QED
            BY <2>3, FifthOfBoth, SMT
        <4>3. 5 * 6000000 = 30000000
          BY SMT
        <4>  HIDE DEF d
        <4>  QED
          BY <4>1, <4>2, <4>3, SMT
      <3>4. /\ 5 * d >= fast \/ 5 * d = 5 * 65536
            /\ \A m \in fast .. 5 * d - 1 : m % 5 # 0
        <4>  HIDE DEF d
        <4>  QED
          BY <2>1, <2>3, <3>2, ChoiceIsBest, SMT
      <3>5. Frequency!high_speed => fast > 65536
        BY <2>1, <3>2, FastIsTooFast, SMT
      <3>  HIDE DEF d, fast
      <3>6. Frequency!NeverFaster
        BY <2>3, <2>4, <2>5, <3>1, <3>4, SMT DEF Frequency!NeverFaster
      <3>7. Frequency!NotSlower
        BY <2>3, <2>4, <3>1, <3>4, <3>5, SMT DEF Frequency!NotSlower
      <3>8. Frequency!ReturnedIsActual
        BY <3>1, <3>3, SMT DEF Frequency!ReturnedIsActual
      <3>  QED
        BY <3>6, <3>7, <3>8
    <2>  QED
      BY <2>6, <2>7
  <1>3. ASSUME ~Frequency!settled
        PROVE  Frequency!NeverFaster /\ Frequency!NotSlower /\ Frequency!ReturnedIsActual
    BY <1>3 DEF Frequency!NeverFaster, Frequency!NotSlower, Frequency!ReturnedIsActual
  <1>  QED
    BY <1>1, <1>2, <1>3

-----------------------------------------------------------------------------
(* The packets of a transfer: what the chip sends                            *)

\* Min is the smallest of two or three numbers.
LEMMA MinIs ==
  /\ \A a, b \in Int : Strip!Min({a, b}) = IF a <= b THEN a ELSE b
  /\ \A a, b, c \in Int : Strip!Min({a, b, c}) = IF a <= b THEN IF a <= c THEN a ELSE c
                                          ELSE IF b <= c THEN b ELSE c
  BY DEF Strip!Min

\* The numbers of the first m bytes of data.
Count(m) == [k \in 1 .. m |-> k]

LEMMA CountIs ==
  ASSUME NEW m \in Nat
  PROVE  Count(m) \in Seq(Nat) /\ Len(Count(m)) = m
  BY DEF Count

\* The next s numbers go on where the first m end.
LEMMA CountOn ==
  ASSUME NEW m \in Nat, NEW s \in Nat
  PROVE  Count(m) \o [k \in 1 .. s |-> m + k] = Count(m + s)
  <1> DEFINE b == [k \in 1 .. s |-> m + k]
  <1>1. b \in Seq(Nat) /\ Len(b) = s
    OBVIOUS
  <1>2. \A k \in 1 .. s : b[k] = m + k
    OBVIOUS
  <1>3. Count(m) \in Seq(Nat) /\ Len(Count(m)) = m /\ \A k \in 1 .. m : Count(m)[k] = k
    BY CountIs DEF Count
  <1>4. /\ Count(m + s) \in Seq(Nat) /\ Len(Count(m + s)) = m + s
        /\ \A k \in 1 .. m + s : Count(m + s)[k] = k
    <2>1. m + s \in Nat
      OBVIOUS
    <2>  QED
      BY <2>1, CountIs DEF Count
  <1> HIDE DEF b
  <1>5. Count(m) \o b \in Seq(Nat) /\ Len(Count(m) \o b) = m + s
    BY <1>1, <1>3
  <1>6. \A k \in 1 .. m + s : (Count(m) \o b)[k] = k
    BY <1>1, <1>2, <1>3
  <1>7. Count(m) \o b = Count(m + s)
    BY <1>4, <1>5, <1>6, SeqEqual
  <1>  QED
    BY <1>7 DEF b

LEMMA StripConstants == PacketSize \in Nat /\ PacketSize > 2 /\ MaxPackets \in Nat \ {0}
  BY PartsAssumption DEF Strip!PacketAssumption

\* What is left of a transfer's data behind its whole packets.
Full(t) == Strip!whole_packets(t)
Rest(t) == t.data - Strip!payload * Strip!whole_packets(t)

\* A transfer of data bytes is its whole packets and, with its status bytes, the rest; and
\* read_cb rounds up to count its packets (mpsse.c:814-817).
LEMMA TransferIs ==
  ASSUME NEW t \in Strip!Transfers
  PROVE  /\ Full(t) \in Nat /\ Rest(t) \in 0 .. PacketSize - 3
         /\ t.data \in Nat /\ t.short \in BOOLEAN
         /\ t.data = (PacketSize - 2) * Full(t) + Rest(t)
         /\ ~t.short => Rest(t) = 0
         /\ Strip!actual_length(t) = PacketSize * Full(t) + Rest(t) + (IF t.short THEN 2 ELSE 0)
         /\ Strip!num_packets(t) = Full(t) + (IF t.short THEN 1 ELSE 0)
  <1> USE StripConstants
  <1> DEFINE p == PacketSize - 2
             q == t.data \div p
             r == t.data % p
  <1>1. p \in Nat \ {0} /\ Strip!payload = p
    BY DEF Strip!payload
  <1>2. MaxPackets * p \in Int
    BY <1>1
  <1>3. t.data \in Nat /\ t.short \in BOOLEAN /\ (r # 0 => t.short)
    BY <1>1, <1>2 DEF Strip!Transfers
  <1>4. q \in Nat /\ r \in 0 .. p - 1 /\ t.data = p * q + r
    BY <1>1, <1>3, DivisionOf
  <1>5. Full(t) = q /\ Strip!whole_packets(t) = q /\ Rest(t) = t.data - p * q
    BY <1>1 DEF Full, Rest, Strip!whole_packets
  <1> HIDE DEF q, r
  <1>6. PacketSize * q = p * q + 2 * q /\ p * q \in Nat /\ PacketSize * q \in Nat
    BY <1>1, <1>4
  <1>7. Rest(t) = r
    BY <1>4, <1>5, <1>6
  <1>8. Strip!actual_length(t) = PacketSize * q + r + (IF t.short THEN 2 ELSE 0)
    <2>1. Strip!actual_length(t) = t.data + 2 * (q + IF t.short THEN 1 ELSE 0)
      BY <1>5 DEF Strip!actual_length
    <2>  QED
      BY <2>1, <1>3, <1>4, <1>6
  <1>9. Strip!num_packets(t) = q + (IF t.short THEN 1 ELSE 0)
    <2>1. CASE t.short
      <3>1. Strip!actual_length(t) + PacketSize - 1 = PacketSize * (q + 1) + (r + 1)
        <4>1. PacketSize * (q + 1) = PacketSize * q + PacketSize
          BY <1>4
        <4>  QED
          BY <2>1, <1>4, <1>6, <1>8, <4>1
      <3>2. r + 1 \in 0 .. PacketSize - 1 /\ q + 1 \in Int /\ PacketSize \in Nat \ {0}
        BY <1>1, <1>4
      <3>3. (PacketSize * (q + 1) + (r + 1)) \div PacketSize = q + 1
        BY <3>2, DivisionIs, Zenon
      <3>4. Strip!num_packets(t) = q + 1
        BY <3>1, <3>3 DEF Strip!num_packets
      <3>  QED
        BY <2>1, <3>4
    <2>2. CASE ~t.short
      <3>1. Strip!actual_length(t) + PacketSize - 1 = PacketSize * q + (PacketSize - 1)
        BY <2>2, <1>3, <1>4, <1>6, <1>8
      <3>2. PacketSize - 1 \in 0 .. PacketSize - 1 /\ q \in Int /\ PacketSize \in Nat \ {0}
        BY <1>4
      <3>3. (PacketSize * q + (PacketSize - 1)) \div PacketSize = q
        BY <3>2, DivisionIs, Zenon
      <3>4. Strip!num_packets(t) = q
        BY <3>1, <3>3 DEF Strip!num_packets
      <3>  QED
        BY <2>2, <3>4, <1>4
    <2>  QED
      BY <2>1, <2>2
  <1>  QED
    BY <1>1, <1>3, <1>4, <1>5, <1>7, <1>8, <1>9

\* A byte behind the status bytes of a packet is a byte of data, of this transfer.
LEMMA ChunkIs ==
  ASSUME NEW t \in Strip!Transfers, NEW k \in Nat, NEW j \in Nat, j >= 1,
         sent \in Nat, k <= Full(t), j <= PacketSize - 2, k = Full(t) => t.short /\ j <= Rest(t)
  PROVE  Strip!chunk(t, PacketSize * k + 1 + j) = (sent + k * (PacketSize - 2)) + j
  <1> USE StripConstants
  <1>1. 1 + j \in 0 .. PacketSize - 1 /\ k \in Int /\ PacketSize \in Nat \ {0}
    OBVIOUS
  <1>2. /\ (PacketSize * k + (1 + j)) \div PacketSize = k
        /\ (PacketSize * k + (1 + j)) % PacketSize = 1 + j
    BY <1>1, DivisionIs, Zenon
  <1>3. PacketSize * k + 1 + j = PacketSize * k + (1 + j)
    OBVIOUS
  <1>4. PacketSize * k + (1 + j) < Strip!actual_length(t)
    <2> DEFINE q == Full(t)
               r == Rest(t)
               a == Strip!actual_length(t)
    <2>1. /\ q \in Nat /\ r \in Nat /\ t.short \in BOOLEAN
          /\ a = PacketSize * q + r + (IF t.short THEN 2 ELSE 0)
      BY TransferIs
    <2> HIDE DEF q, r, a
    <2>2. PacketSize * q \in Nat /\ PacketSize * k \in Nat
      BY <2>1
    <2>3. CASE k = q
      <3>1. t.short /\ j <= r
        BY <2>3 DEF q, r
      <3>2. a = PacketSize * k + r + 2
        BY <2>1, <2>3, <3>1
      <3>  QED
        BY <2>1, <2>2, <3>1, <3>2 DEF a
    <2>4. CASE k # q
      <3>1. k + 1 <= q
        BY <2>1, <2>4 DEF q
      <3>2. PacketSize * (q - (k + 1)) >= 0
        BY <2>1, <3>1
      <3>3. PacketSize * (q - (k + 1)) = PacketSize * q - PacketSize * k - PacketSize
        BY <2>1
      <3>4. PacketSize * k + PacketSize <= PacketSize * q
        BY <2>2, <3>2, <3>3
      <3>5. PacketSize * k + (1 + j) < PacketSize * q
        BY <2>2, <3>4
      <3>6. PacketSize * q <= a
        BY <2>1, <2>2
      <3>  QED
        BY <2>1, <2>2, <3>5, <3>6 DEF a
    <2>  QED
      BY <2>3, <2>4
  <1>5. ~(1 + j < 2) /\ PacketSize * k + (1 + j) \in Int
    OBVIOUS
  <1>6. Strip!actual_length(t) \in Int
    BY TransferIs
  <1>7. Strip!chunk(t, PacketSize * k + (1 + j)) = sent + k * (PacketSize - 2) + (1 + j) - 1
    BY <1>2, <1>4, <1>5, <1>6 DEF Strip!chunk, Strip!payload
  <1>8. k * (PacketSize - 2) \in Int
    OBVIOUS
  <1>  QED
    BY <1>3, <1>7, <1>8

-----------------------------------------------------------------------------
(* The packets of a transfer: the loop of read_cb                            *)

\* The smaller of two numbers.
Few(a, b) == IF a <= b THEN a ELSE b

\* The buffer holds what came in, as far as there was room asked for.
StripInv == /\ read_count \in Nat \ {0}
            /\ sent \in Nat
            /\ read_buffer = Count(Few(sent, read_count))

\* The loop of read_cb: before the first packet, and what packet k makes of it.
LoopStart(t) == [buffer |-> read_buffer, remains |-> Strip!actual_length(t)]
LoopTurn(t, last, k) ==
  LET size == Strip!this_size(last.remains, read_count - Len(last.buffer))
  IN IF last.remains <= 2 \/ Len(last.buffer) = read_count THEN last
     ELSE [buffer |-> last.buffer \o Strip!copied(t, k - 1, size),
           remains |-> last.remains - (size + 2)]

\* How much data the packet with k before it, and the first k, hold.
DataOf(t, k) == IF k < Full(t) THEN PacketSize - 2 ELSE Rest(t)
DataUpTo(t, k) == IF k <= Full(t) THEN k * (PacketSize - 2) ELSE t.data

\* The invariant of the loop: as long as there is room, all that came in is in the buffer
\* and the rest of the chunk remains.
LoopAt(t, k, last) ==
  /\ last.buffer = Count(Few(sent + DataUpTo(t, k), read_count))
  /\ k <= Full(t) /\ sent + DataUpTo(t, k) < read_count =>
       last.remains = Strip!actual_length(t) - k * PacketSize

\* Where a packet is in the data.
LEMMA DataGrows ==
  ASSUME NEW t \in Strip!Transfers, NEW k \in Nat, k < Strip!num_packets(t)
  PROVE  /\ k <= Full(t) /\ (k = Full(t) => t.short)
         /\ DataUpTo(t, k) = k * (PacketSize - 2) /\ DataUpTo(t, k) \in Nat
         /\ DataOf(t, k) \in 0 .. PacketSize - 2
         /\ DataUpTo(t, k + 1) = DataUpTo(t, k) + DataOf(t, k)
  <1> USE StripConstants
  <1> DEFINE q == Full(t)
             r == Rest(t)
  <1>1. /\ q \in Nat /\ r \in 0 .. PacketSize - 3 /\ t.short \in BOOLEAN
        /\ t.data = (PacketSize - 2) * q + r
        /\ Strip!num_packets(t) = q + (IF t.short THEN 1 ELSE 0)
    BY TransferIs
  <1> HIDE DEF q, r
  <1>2. k <= q /\ (k = q => t.short)
    BY <1>1
  <1>3. DataUpTo(t, k) = k * (PacketSize - 2) /\ k * (PacketSize - 2) \in Nat
    BY <1>1, <1>2 DEF DataUpTo, q
  <1>4. DataOf(t, k) = (IF k < q THEN PacketSize - 2 ELSE r)
    BY DEF DataOf, q, r
  <1>5. DataUpTo(t, k + 1) = DataUpTo(t, k) + DataOf(t, k)
    <2>1. CASE k < q
      <3>1. DataUpTo(t, k + 1) = (k + 1) * (PacketSize - 2)
        BY <1>1, <2>1 DEF DataUpTo, q
      <3>2. (k + 1) * (PacketSize - 2) = k * (PacketSize - 2) + (PacketSize - 2)
        OBVIOUS
      <3>  QED
        BY <1>3, <1>4, <2>1, <3>1, <3>2
    <2>2. CASE k = q
      <3>1. DataUpTo(t, k + 1) = t.data
        BY <1>1, <2>2 DEF DataUpTo, q
      <3>2. (PacketSize - 2) * q = k * (PacketSize - 2)
        BY <1>1, <2>2
      <3>3. t.data = k * (PacketSize - 2) + r
        BY <1>1, <3>2
      <3>  QED
        BY <1>1, <1>3, <1>4, <2>2, <3>1, <3>3
    <2>  QED
      BY <1>1, <1>2, <2>1, <2>2
  <1>6. DataOf(t, k) \in 0 .. PacketSize - 2
    BY <1>1, <1>4
  <1>  QED
    BY <1>2, <1>3, <1>5, <1>6 DEF q

\* What is copied of a packet is the next data (mpsse.c:820-828).
LEMMA CopiedIs ==
  ASSUME NEW t \in Strip!Transfers, NEW k \in Nat, k < Strip!num_packets(t),
         NEW s \in Nat, s <= DataOf(t, k), sent \in Nat
  PROVE  Strip!copied(t, k, s) = [j \in 1 .. s |-> (sent + DataUpTo(t, k)) + j]
  <1>1. /\ k <= Full(t) /\ (k = Full(t) => t.short)
        /\ DataUpTo(t, k) = k * (PacketSize - 2)
        /\ DataOf(t, k) \in 0 .. PacketSize - 2
    BY DataGrows
  <1>2. Full(t) \in Nat
    BY TransferIs
  <1>3. k = Full(t) => DataOf(t, k) = Rest(t)
    BY <1>2 DEF DataOf
  <1>4. ASSUME NEW j \in 1 .. s
        PROVE  Strip!chunk(t, PacketSize * k + 1 + j) = (sent + DataUpTo(t, k)) + j
    <2>1. j \in Nat /\ j >= 1 /\ j <= s
      BY <1>4
    <2>2. j <= DataOf(t, k) /\ j <= PacketSize - 2
      BY <1>1, <2>1, StripConstants
    <2>3. k = Full(t) => t.short /\ j <= Rest(t)
      BY <1>1, <1>3, <2>2
    <2>  QED
      BY <1>1, <2>1, <2>2, <2>3, ChunkIs
  <1>  QED
    BY <1>4 DEF Strip!copied

\* A turn of the loop keeps its invariant (mpsse.c:818-830).
LEMMA Turn ==
  ASSUME StripInv, NEW t \in Strip!Transfers, NEW k \in Nat, k < Strip!num_packets(t),
         NEW last, LoopAt(t, k, last)
  PROVE  LoopAt(t, k + 1, LoopTurn(t, last, k + 1))
  <1> USE StripConstants
  <1> DEFINE a == Strip!actual_length(t)
             q == Full(t)
             r == Rest(t)
             d == DataOf(t, k)
             w == sent + DataUpTo(t, k)
             v == sent + DataUpTo(t, k + 1)
             new == LoopTurn(t, last, k + 1)
  <1>1. /\ q \in Nat /\ r \in 0 .. PacketSize - 3
        /\ a = PacketSize * q + r + (IF t.short THEN 2 ELSE 0)
        /\ k <= q /\ (k = q => t.short) /\ d = (IF k < q THEN PacketSize - 2 ELSE r)
        /\ t.short \in BOOLEAN
    BY TransferIs, DataGrows DEF DataOf
  <1>2. w \in Nat /\ d \in 0 .. PacketSize - 2 /\ v = w + d /\ read_count \in Nat \ {0}
    BY DataGrows DEF StripInv
  <1>3. last.buffer = Count(Few(w, read_count)) /\ Len(last.buffer) = Few(w, read_count)
    BY <1>2, CountIs DEF LoopAt, Few
  <1>4. k <= q /\ w < read_count => last.remains = a - k * PacketSize
    BY DEF LoopAt
  <1> HIDE DEF a, q, r, d, w, v, new
  <1>5. a \in Nat /\ k * PacketSize \in Nat
    <2>1. PacketSize * q \in Nat
      BY <1>1
    <2>  QED
      BY <1>1, <2>1
  <1>6. CASE read_count <= w
    <2>1. Few(w, read_count) = read_count /\ Few(v, read_count) = read_count
      BY <1>2, <1>6 DEF Few
    <2>2. new = last
      BY <1>3, <2>1 DEF new, LoopTurn
    <2>3. new.buffer = Count(Few(v, read_count))
      BY <1>3, <2>1, <2>2
    <2>4. ~(v < read_count)
      BY <1>2, <1>6
    <2>  QED
      BY <2>3, <2>4 DEF LoopAt, new, v
  <1>7. CASE w < read_count
    <2>1. last.remains = a - k * PacketSize /\ Len(last.buffer) = w
      BY <1>1, <1>2, <1>3, <1>4, <1>7 DEF Few
    <2>2. last.remains \in Int /\ (k < q => last.remains >= PacketSize)
                               /\ (k = q => last.remains = r + 2)
      <3>1. CASE k < q
        <4>1. PacketSize * (q - (k + 1)) >= 0
          BY <1>1, <3>1
        <4>2. PacketSize * (q - (k + 1)) = PacketSize * q - (k * PacketSize + PacketSize)
          BY <1>1
        <4>3. PacketSize * q \in Nat
          BY <1>1
        <4>4. PacketSize * q >= k * PacketSize + PacketSize
          BY <1>5, <4>1, <4>2, <4>3
        <4>5. a >= PacketSize * q
          BY <1>1, <4>3
        <4>6. a - k * PacketSize >= PacketSize
          BY <1>5, <4>3, <4>4, <4>5
        <4>  QED
          BY <1>1, <1>5, <2>1, <3>1, <4>6
      <3>2. CASE k = q
        <4>1. PacketSize * q = k * PacketSize
          BY <1>1, <3>2
        <4>2. a = k * PacketSize + r + 2
          BY <1>1, <3>2, <4>1
        <4>  QED
          BY <1>1, <1>5, <2>1, <3>2, <4>2
      <3>  QED
        BY <1>1, <3>1, <3>2
    <2>3. CASE last.remains <= 2
      <3>1. new = last /\ d = 0 /\ v = w /\ k + 1 > q
        BY <1>1, <1>2, <2>2, <2>3 DEF new, LoopTurn
      <3>2. new.buffer = Count(Few(v, read_count))
        BY <1>3, <3>1
      <3>  QED
        BY <1>1, <3>1, <3>2 DEF LoopAt, new, v, q
    <2>4. CASE last.remains > 2
      <3> DEFINE s == Strip!this_size(last.remains, read_count - Len(last.buffer))
      <3>1. s = Few(d, read_count - w)
        <4>1. read_count - Len(last.buffer) = read_count - w /\ read_count - w \in Nat
          BY <1>2, <1>7, <2>1
        <4>2. s = Strip!Min({PacketSize - 2, last.remains - 2, read_count - w})
          BY <4>1 DEF Strip!this_size
        <4>3. s = (IF PacketSize - 2 <= last.remains - 2
                   THEN IF PacketSize - 2 <= read_count - w THEN PacketSize - 2 ELSE read_count - w
                   ELSE IF last.remains - 2 <= read_count - w
                        THEN last.remains - 2 ELSE read_count - w)
          BY <2>2, <4>1, <4>2, MinIs
        <4> HIDE DEF s
        <4>  QED
          BY <1>1, <2>2, <4>1, <4>3 DEF Few
      <3> HIDE DEF s
      <3>2. s \in Nat /\ s <= d /\ w + s = Few(v, read_count)
        BY <1>2, <1>7, <3>1 DEF Few
      <3>3. new = [buffer |-> last.buffer \o Strip!copied(t, k, s),
                   remains |-> last.remains - (s + 2)]
        <4>1. ~(last.remains <= 2 \/ Len(last.buffer) = read_count)
          BY <1>2, <1>7, <2>1, <2>2, <2>4
        <4>2. (k + 1) - 1 = k
          OBVIOUS
        <4>3. new = [buffer |-> last.buffer \o Strip!copied(t, (k + 1) - 1, s),
                     remains |-> last.remains - (s + 2)]
          BY <4>1 DEF new, LoopTurn, s
        <4>  QED
          BY <4>2, <4>3
      <3>4. new.buffer = Count(w) \o [j \in 1 .. s |-> w + j]
        <4>1. Strip!copied(t, k, s) = [j \in 1 .. s |-> w + j]
          BY <3>2, CopiedIs DEF StripInv, w, d
        <4>2. last.buffer = Count(w)
          BY <1>2, <1>3, <1>7 DEF Few
        <4>3. new.buffer = last.buffer \o Strip!copied(t, k, s)
          BY <3>3
        <4>  QED
          BY <4>1, <4>2, <4>3
      <3>5. new.buffer = Count(Few(v, read_count))
        BY <1>2, <3>2, <3>4, CountOn
      <3>6. ASSUME k + 1 <= q, v < read_count  PROVE new.remains = a - (k + 1) * PacketSize
        <4>1. s = PacketSize - 2
          BY <1>1, <1>2, <3>1, <3>6 DEF Few
        <4>2. new.remains = (a - k * PacketSize) - PacketSize
          BY <1>5, <2>1, <3>3, <4>1
        <4>3. (k + 1) * PacketSize = k * PacketSize + PacketSize
          OBVIOUS
        <4>  QED
          BY <1>5, <4>2, <4>3
      <3>  QED
        BY <3>5, <3>6 DEF LoopAt, new, v, q, a
    <2>  QED
      BY <2>2, <2>3, <2>4
  <1>  QED
    BY <1>2, <1>6, <1>7

\* The loop, to its packet m.
IsLoop(g, t, m) ==
  g = [k \in 0 .. m |-> IF k = 0 THEN LoopStart(t) ELSE LoopTurn(t, g[k - 1], k)]

LEMMA AfterIs ==
  ASSUME NEW t
  PROVE  Strip!after(t) = (CHOOSE g : IsLoop(g, t, Strip!num_packets(t)))
                            [Strip!num_packets(t)].buffer
  BY DEF Strip!after, IsLoop, LoopStart, LoopTurn

\* There is such a loop, of any length.
LEMMA LoopExists ==
  ASSUME NEW t, NEW m \in Nat
  PROVE  \E g : IsLoop(g, t, m)
  <1> DEFINE S == {b \in Nat : \E g : IsLoop(g, t, b)}
  <1>1. 0 \in S
    <2>1. IsLoop([k \in 0 .. 0 |-> LoopStart(t)], t, 0)
      BY DEF IsLoop
    <2>  QED
      BY <2>1
  <1>2. ASSUME NEW b \in Nat, b \in S  PROVE b + 1 \in S
    <2>1. PICK g : IsLoop(g, t, b)
      BY <1>2
    <2> DEFINE h == [k \in 0 .. b + 1 |-> IF k <= b THEN g[k] ELSE LoopTurn(t, g[b], k)]
    <2>2. \A k \in 0 .. b : g[k] = IF k = 0 THEN LoopStart(t) ELSE LoopTurn(t, g[k - 1], k)
      BY <2>1 DEF IsLoop
    <2>3. ASSUME NEW k \in 0 .. b + 1
          PROVE  h[k] = IF k = 0 THEN LoopStart(t) ELSE LoopTurn(t, h[k - 1], k)
      <3>1. CASE k = 0
        BY <2>2, <3>1
      <3>2. CASE k # 0 /\ k <= b
        <4>1. k \in 0 .. b /\ k - 1 \in 0 .. b + 1 /\ k - 1 <= b
          BY <3>2
        <4>2. h[k] = g[k] /\ h[k - 1] = g[k - 1]
          BY <4>1
        <4>  QED
          BY <2>2, <3>2, <4>1, <4>2
      <3>3. CASE k = b + 1
        <4>1. k - 1 = b /\ b \in 0 .. b + 1 /\ k # 0 /\ ~(k <= b)
          BY <3>3
        <4>2. h[k] = LoopTurn(t, g[b], k) /\ h[k - 1] = g[b]
          BY <4>1
        <4>  QED
          BY <4>1, <4>2
      <3>  QED
        BY <3>1, <3>2, <3>3
    <2>4. h = [k \in 0 .. b + 1 |-> h[k]]
      OBVIOUS
    <2> HIDE DEF h
    <2>5. IsLoop(h, t, b + 1)
      BY <2>3, <2>4 DEF IsLoop
    <2>6. b + 1 \in Nat
      OBVIOUS
    <2>  QED
      BY <2>5, <2>6
  <1> HIDE DEF S
  <1>3. S \in SUBSET Nat
    BY DEF S
  <1>4. S = Nat
    BY <1>1, <1>2, <1>3, SetInduction
  <1>  QED
    BY <1>4 DEF S

\* When the loop is over, all the data of the transfer is in the buffer (mpsse.c:812-831).
LEMMA AfterAll ==
  ASSUME StripInv, NEW t \in Strip!Transfers
  PROVE  Strip!after(t) = Count(Few(sent + t.data, read_count))
  <1> USE StripConstants
  <1> DEFINE m == Strip!num_packets(t)
             g == CHOOSE f : IsLoop(f, t, m)
             S == {k \in Nat : k <= m => LoopAt(t, k, g[k])}
  <1>1. /\ m \in Nat /\ t.data \in Nat /\ Full(t) \in Nat /\ t.short \in BOOLEAN
        /\ m = Full(t) + (IF t.short THEN 1 ELSE 0)
        /\ t.data = (PacketSize - 2) * Full(t) + Rest(t)
        /\ (~t.short => Rest(t) = 0)
        /\ Strip!actual_length(t) \in Int
    <2>1. /\ Full(t) \in Nat /\ Rest(t) \in Nat
          /\ Strip!actual_length(t) = PacketSize * Full(t) + Rest(t) + (IF t.short THEN 2 ELSE 0)
      BY TransferIs
    <2>2. PacketSize * Full(t) \in Nat
      BY <2>1
    <2>  QED
      BY <2>1, <2>2, TransferIs
  <1>2. IsLoop(g, t, m)
    BY <1>1, LoopExists
  <1>3. Strip!after(t) = g[m].buffer
    BY AfterIs
  <1> HIDE DEF m, g
  <1>4. \A k \in 0 .. m : g[k] = IF k = 0 THEN LoopStart(t) ELSE LoopTurn(t, g[k - 1], k)
    BY <1>2 DEF IsLoop
  <1>5. 0 \in S
    <2>1. g[0] = LoopStart(t)
      BY <1>1, <1>4
    <2>2. DataUpTo(t, 0) = 0
      BY <1>1 DEF DataUpTo
    <2>3. g[0].buffer = Count(Few(sent + DataUpTo(t, 0), read_count))
      BY <2>1, <2>2 DEF LoopStart, StripInv
    <2>4. g[0].remains = Strip!actual_length(t) - 0 * PacketSize
      BY <1>1, <2>1 DEF LoopStart
    <2>5. LoopAt(t, 0, g[0])
      BY <2>3, <2>4 DEF LoopAt
    <2>  QED
      BY <2>5
  <1>6. ASSUME NEW k \in Nat, k \in S  PROVE k + 1 \in S
    <2>1. ASSUME k + 1 <= m  PROVE LoopAt(t, k + 1, g[k + 1])
      <3>1. k + 1 \in 0 .. m /\ (k + 1) - 1 = k /\ k + 1 # 0 /\ k <= m /\ k < m
        BY <1>1, <2>1
      <3>2. g[k + 1] = LoopTurn(t, g[k], k + 1)
        BY <1>4, <3>1
      <3>3. LoopAt(t, k, g[k])
        BY <1>6, <3>1
      <3>  QED
        BY <3>1, <3>2, <3>3, Turn DEF m
    <2>  QED
      BY <2>1
  <1>7. S \in SUBSET Nat
    OBVIOUS
  <1> HIDE DEF S
  <1>8. S = Nat
    BY <1>5, <1>6, <1>7, SetInduction
  <1>9. LoopAt(t, m, g[m])
    BY <1>1, <1>8 DEF S
  <1>10. DataUpTo(t, m) = t.data
    <2>1. CASE t.short
      BY <1>1, <2>1 DEF DataUpTo
    <2>2. CASE ~t.short
      <3>1. m = Full(t) /\ t.data = (PacketSize - 2) * Full(t) + 0
        BY <1>1, <2>2
      <3>2. DataUpTo(t, m) = m * (PacketSize - 2)
        BY <1>1, <3>1 DEF DataUpTo
      <3>  QED
        BY <1>1, <3>1, <3>2
    <2>  QED
      BY <1>1, <2>1, <2>2
  <1>  QED
    BY <1>3, <1>9, <1>10 DEF LoopAt

-----------------------------------------------------------------------------
(* The packets of a transfer: the invariant and the properties               *)

LEMMA StripInit == Strip!Init => StripInv
  <1> SUFFICES ASSUME Strip!Init  PROVE StripInv
    OBVIOUS
  <1>1. read_count \in Nat \ {0} /\ sent = 0 /\ read_buffer = << >>
    BY PartsAssumption DEF Strip!Init, Strip!PacketAssumption
  <1>2. Few(sent, read_count) = 0
    BY <1>1 DEF Few
  <1>3. Count(0) = << >>
    BY DEF Count
  <1>  QED
    BY <1>1, <1>2, <1>3 DEF StripInv

LEMMA StripNext == StripInv /\ Strip!Next => StripInv'
  <1> SUFFICES ASSUME StripInv, NEW t \in Strip!Transfers, Strip!read_cb(t)  PROVE StripInv'
    BY DEF Strip!Next
  <1>1. /\ read_buffer' = Strip!after(t) /\ sent' = sent + t.data /\ read_count' = read_count
    BY DEF Strip!read_cb
  <1>2. t.data \in Nat
    BY TransferIs
  <1>3. read_buffer' = Count(Few(sent', read_count'))
    BY <1>1, AfterAll
  <1>  QED
    BY <1>1, <1>2, <1>3 DEF StripInv

LEMMA StripStutter == StripInv /\ UNCHANGED Strip!vars => StripInv'
  BY DEF StripInv, Strip!vars

LEMMA StripProperties == StripInv => Strip!DataInOrder /\ Strip!NothingDropped
  <1> SUFFICES ASSUME StripInv  PROVE Strip!DataInOrder /\ Strip!NothingDropped
    OBVIOUS
  <1> USE DEF StripInv
  <1>1. Few(sent, read_count) \in Nat
    BY DEF Few
  <1>2. Len(read_buffer) = Few(sent, read_count)
    BY <1>1, CountIs
  <1>3. Strip!DataInOrder
    BY <1>2 DEF Strip!DataInOrder, Count
  <1>4. Strip!Min({sent, read_count}) = Few(sent, read_count)
    BY MinIs DEF Few
  <1>  QED
    BY <1>2, <1>3, <1>4 DEF Strip!NothingDropped

-----------------------------------------------------------------------------
(* The utility: its clocks and what it is answered                           *)

\* TMS and TDI of the clocks of the procedure (test_mpsse.c:51-70).
TmsOf(k) == IF k <= 6 \/ k = 8 THEN 1 ELSE 0
TdiOf(k) == IF k \in 19 .. 24 \cup 27 .. 28 \cup {31} \cup 39 .. 42 THEN 0 ELSE 1
Pair == [tms: {0, 1}, tdi: {0, 1}]
Goes(clocks, len) ==
  /\ clocks \in Seq(Pair) /\ Len(clocks) = len
  /\ \A k \in 1 .. len : clocks[k].tms = TmsOf(k) /\ clocks[k].tdi = TdiOf(k)

\* Some more of them, by one call of clock_raw.
LEMMA GoesOnBy ==
  ASSUME NEW clocks, NEW len \in Nat, Goes(clocks, len), NEW b \in {0, 1}, NEW d \in {0, 1},
         NEW more \in Nat, NEW all, all = len + more,
         \A k \in len + 1 .. len + more : TmsOf(k) = b /\ TdiOf(k) = d
  PROVE  Goes(clocks \o Utility!clock_raw(b, d, more), all)
  <1> DEFINE new == Utility!clock_raw(b, d, more)
  <1>1. new \in Seq(Pair) /\ Len(new) = more
    BY DEF Utility!clock_raw, Pair
  <1>2. \A k \in 1 .. more : new[k].tms = b /\ new[k].tdi = d
    BY DEF Utility!clock_raw
  <1>3. clocks \in Seq(Pair) /\ Len(clocks) = len
    BY DEF Goes
  <1>  HIDE DEF new
  <1>4. clocks \o new \in Seq(Pair) /\ Len(clocks \o new) = all
    BY <1>1, <1>3
  <1>5. ASSUME NEW k \in 1 .. all
        PROVE  (clocks \o new)[k].tms = TmsOf(k) /\ (clocks \o new)[k].tdi = TdiOf(k)
    <2>1. CASE k <= len
      <3>1. (clocks \o new)[k] = clocks[k] /\ k \in 1 .. len
        BY <1>1, <1>3, <2>1
      <3>  QED
        BY <3>1 DEF Goes
    <2>2. CASE ~(k <= len)
      <3>1. (clocks \o new)[k] = new[k - len] /\ k - len \in 1 .. more /\ k \in len + 1 .. len + more
        BY <1>1, <1>3, <2>2
      <3>  QED
        BY <3>1, <1>2
    <2>  QED
      BY <2>1, <2>2
  <1>  QED
    BY <1>4, <1>5 DEF Goes, new

\* All of them.
LEMMA ProcedureIs == Goes(Utility!procedure, 138)
  <1> DEFINE raw(b, d, len) == Utility!clock_raw(b, d, len)
             p6 == raw(1, 1, 6)
             p7 == p6 \o raw(0, 1, 1)
             p8 == p7 \o raw(1, 1, 1)
             p18 == p8 \o raw(0, 1, 10)
             p24 == p18 \o raw(0, 0, 6)
             p26 == p24 \o raw(0, 1, 2)
             p28 == p26 \o raw(0, 0, 2)
             p30 == p28 \o raw(0, 1, 2)
             p31 == p30 \o raw(0, 0, 1)
             p38 == p31 \o raw(0, 1, 7)
             p42 == p38 \o raw(0, 0, 4)
             p138 == p42 \o raw(0, 1, 96)
  <1>1. Utility!procedure = p138
    BY DEF Utility!procedure, Utility!opening
  <1>2. Goes(p6, 6)
    BY DEF Goes, Utility!clock_raw, Pair, TmsOf, TdiOf
  <1>  HIDE DEF p6, p7, p8, p18, p24, p26, p28, p30, p31, p38, p42, p138
  <1>3. Goes(p7, 7)
    BY <1>2, GoesOnBy DEF TmsOf, TdiOf, p7
  <1>4. Goes(p8, 8)
    BY <1>3, GoesOnBy DEF TmsOf, TdiOf, p8
  <1>5. Goes(p18, 18)
    BY <1>4, GoesOnBy DEF TmsOf, TdiOf, p18
  <1>6. Goes(p24, 24)
    BY <1>5, GoesOnBy DEF TmsOf, TdiOf, p24
  <1>7. Goes(p26, 26)
    BY <1>6, GoesOnBy DEF TmsOf, TdiOf, p26
  <1>8. Goes(p28, 28)
    BY <1>7, GoesOnBy DEF TmsOf, TdiOf, p28
  <1>9. Goes(p30, 30)
    BY <1>8, GoesOnBy DEF TmsOf, TdiOf, p30
  <1>10. Goes(p31, 31)
    BY <1>9, GoesOnBy DEF TmsOf, TdiOf, p31
  <1>11. Goes(p38, 38)
    BY <1>10, GoesOnBy DEF TmsOf, TdiOf, p38
  <1>12. Goes(p42, 42)
    BY <1>11, GoesOnBy DEF TmsOf, TdiOf, p42
  <1>13. Goes(p138, 138)
    BY <1>12, GoesOnBy DEF TmsOf, TdiOf, p138
  <1>  QED
    BY <1>1, <1>13

-----------------------------------------------------------------------------
(* The utility: the invariant                                                *)

\* The states a controller may be in after k clocks with TMS = 1.
Near(k) ==
  CASE k = 0 -> Utility!TapState
    [] k = 1 -> {"TEST_LOGIC_RESET", "SELECT_DR_SCAN", "SELECT_IR_SCAN", "EXIT1_DR", "EXIT2_DR",
                 "UPDATE_DR", "EXIT1_IR", "EXIT2_IR", "UPDATE_IR"}
    [] k = 2 -> {"TEST_LOGIC_RESET", "SELECT_DR_SCAN", "SELECT_IR_SCAN", "UPDATE_DR", "UPDATE_IR"}
    [] k = 3 -> {"TEST_LOGIC_RESET", "SELECT_DR_SCAN", "SELECT_IR_SCAN"}
    [] k = 4 -> {"TEST_LOGIC_RESET", "SELECT_IR_SCAN"}
    [] k \in {5, 6} -> {"TEST_LOGIC_RESET"}
    [] k = 7 -> {"RUN_TEST_IDLE"}
    [] k = 8 -> {"SELECT_DR_SCAN"}
    [] k = 9 -> {"CAPTURE_DR"}
    [] OTHER -> {"SHIFT_DR"}

\* What is to come out of the register once it has the identity: that, and what goes in.
Stream(m) == IF m <= 32 THEN IdCode[m] ELSE TdiOf(m - 22)
InRegister(m) == [j \in 1 .. 32 |-> Stream(m + j)]
Outs == {0, 1} \cup {Utility!tdo(t) : t \in Found}

\* The state of the loop: where the controller is, what its register has, what came out.
UtilityInv ==
  /\ i \in 0 .. 138 /\ arr_tdo \in Seq(Outs) /\ Len(arr_tdo) = i
  /\ tap.state \in Near(i)
  /\ i = 0 => tap \in Found
  /\ i >= 6 => tap.instr = "IDCODE"
  /\ i >= 10 => tap.dr = InRegister(i - 10)
  /\ \A k \in 2 .. i : arr_tdo[k] = IF k <= 10 THEN 1 ELSE Stream(k - 10)

-----------------------------------------------------------------------------
(* The utility: the steps                                                    *)

\* Where TMS leads.
LEMMA NearNext ==
  ASSUME NEW k \in 0 .. 137, NEW state \in Near(k)
  PROVE  Utility!next_state(state, TmsOf(k + 1)) \in Near(k + 1)
  <1>1. Utility!TapState =
          {"TEST_LOGIC_RESET", "RUN_TEST_IDLE", "SELECT_DR_SCAN", "CAPTURE_DR",
           "SHIFT_DR", "EXIT1_DR", "PAUSE_DR", "EXIT2_DR", "UPDATE_DR",
           "SELECT_IR_SCAN", "CAPTURE_IR", "SHIFT_IR", "EXIT1_IR", "PAUSE_IR",
           "EXIT2_IR", "UPDATE_IR"}
    BY DEF Utility!TapState, Utility!jtag_tap_next_state
  <1>2. CASE k = 0
    BY <1>1, <1>2 DEF Near, TmsOf, Utility!next_state, Utility!jtag_tap_next_state
  <1>3. CASE k \in 1 .. 9
    BY <1>3 DEF Near, TmsOf, Utility!next_state, Utility!jtag_tap_next_state
  <1>4. CASE k \in 10 .. 137
    <2>1. state = "SHIFT_DR" /\ TmsOf(k + 1) = 0
      BY <1>4 DEF Near, TmsOf
    <2>2. Near(k + 1) = {"SHIFT_DR"}
      BY <1>4 DEF Near
    <2>  QED
      BY <2>1, <2>2 DEF Utility!next_state, Utility!jtag_tap_next_state
  <1>  QED
    BY <1>2, <1>3, <1>4

\* A register of some bits after a shift.
Shifted(one, other, b, S, len) ==
  /\ one \in Seq(S) /\ other \in Seq(S) /\ Len(one) = len /\ Len(other) = len /\ b \in S
  /\ \A k \in 1 .. len - 1 : other[k] = one[k + 1]
  /\ other[len] = b

\* Such a shift is made by Tail and Append.
LEMMA TailAppend ==
  ASSUME NEW one, NEW other, NEW b, NEW S, NEW len \in Nat \ {0}, Shifted(one, other, b, S, len)
  PROVE  Append(Tail(one), b) = other
  <1> DEFINE rest == Tail(one)
             l == Append(rest, b)
  <1>1. rest \in Seq(S) /\ Len(rest) = len - 1 /\ \A k \in 1 .. len - 1 : rest[k] = one[k + 1]
    BY DEF Shifted
  <1>  HIDE DEF rest
  <1>2. l \in Seq(S) /\ Len(l) = len /\ l[len] = b /\ \A k \in 1 .. len - 1 : l[k] = rest[k]
    BY <1>1 DEF Shifted
  <1>  HIDE DEF l
  <1>3. \A k \in 1 .. len : l[k] = other[k]
    <2>1. \A k \in 1 .. len : k \in 1 .. len - 1 \/ k = len
      OBVIOUS
    <2>  QED
      BY <1>1, <1>2, <2>1 DEF Shifted
  <1>4. l = other
    BY <1>2, <1>3, SeqEqual DEF Shifted
  <1>  QED
    BY <1>4 DEF l, rest

\* What is in a sequence of so many, and when it is a function.
LEMMA OfLength ==
  ASSUME NEW S, NEW len \in Nat, NEW seq \in Seq(S), Len(seq) = len
  PROVE  /\ \A k \in 1 .. len : seq[k] \in S
         /\ seq = [k \in 1 .. len |-> seq[k]]
  OBVIOUS

\* Each of the clocks.
LEMMA ProcedureAt ==
  /\ Len(Utility!procedure) = 138
  /\ \A k \in 1 .. 138 : /\ Utility!procedure[k].tms = TmsOf(k)
                         /\ Utility!procedure[k].tdi = TdiOf(k)
  BY ProcedureIs, Zenon DEF Goes

\* What a clock shifts into the register.
LEMMA RegisterOn ==
  ASSUME IdCode \in Utility!ShiftReg(32), NEW m \in 0 .. 127
  PROVE  /\ Utility!shift(InRegister(m), TdiOf(m + 11)) = InRegister(m + 1)
         /\ Head(InRegister(m)) = Stream(m + 1) /\ Stream(m + 1) \in {0, 1}
  <1> DEFINE Two == {0, 1}
  <1>0. IdCode \in Seq(Two) /\ Len(IdCode) = 32
    BY DEF Utility!ShiftReg, Utility!Bit
  <1>1. \A k \in 1 .. 160 : Stream(k) \in {0, 1}
    <2>1. \A k \in 1 .. 32 : IdCode[k] \in Two
      <3>  HIDE DEF Two
      <3>  QED
        BY <1>0, OfLength
    <2>2. \A k \in Nat : TdiOf(k) \in {0, 1}
      BY DEF TdiOf
    <2>  HIDE DEF TdiOf
    <2>  QED
      BY <2>1, <2>2 DEF Stream
  <1>2. Stream(m + 33) = TdiOf(m + 11)
    BY DEF Stream
  <1>  HIDE DEF Stream
  <1>3. InRegister(m) \in Seq({0, 1}) /\ Len(InRegister(m)) = 32
    BY <1>1 DEF InRegister
  <1>4. InRegister(m + 1) \in Seq({0, 1}) /\ Len(InRegister(m + 1)) = 32
    BY <1>1 DEF InRegister
  <1>5. TdiOf(m + 11) \in {0, 1}
    BY DEF TdiOf
  <1>6. \A k \in 1 .. 32 : InRegister(m)[k] = Stream(m + k) /\ InRegister(m + 1)[k] = Stream(m + 1 + k)
    BY DEF InRegister
  <1>7. Append(Tail(InRegister(m)), TdiOf(m + 11)) = InRegister(m + 1)
    <2>1. \A k \in 1 .. 31 : InRegister(m + 1)[k] = InRegister(m)[k + 1]
      <3>1. \A k \in 1 .. 31 : /\ k \in 1 .. 32 /\ k + 1 \in 1 .. 32
                               /\ m + (k + 1) = m + 1 + k
        OBVIOUS
      <3>  QED
        BY <1>6, <3>1
    <2>2. InRegister(m + 1)[32] = TdiOf(m + 11)
      <3>1. InRegister(m + 1)[32] = Stream(m + 1 + 32) /\ m + 1 + 32 = m + 33
        BY <1>6
      <3>  QED
        BY <3>1, <1>2
    <2>3. 32 \in Nat \ {0}
      OBVIOUS
    <2>4. \A k \in 1 .. 32 - 1 : InRegister(m + 1)[k] = InRegister(m)[k + 1]
      BY <2>1
    <2> DEFINE S == {0, 1}
               b == TdiOf(m + 11)
               one == InRegister(m)
               other == InRegister(m + 1)
    <2>5. Shifted(one, other, b, S, 32)
      BY <1>3, <1>4, <1>5, <2>2, <2>4, Zenon DEF Shifted
    <2>  HIDE DEF S, b, one, other
    <2>6. Append(Tail(one), b) = other
      BY <2>3, <2>5, TailAppend
    <2>  QED
      BY <2>6 DEF b, one, other
  <1>8. Head(InRegister(m)) = InRegister(m)[1]
    BY <1>3
  <1>9. Head(InRegister(m)) = Stream(m + 1) /\ Stream(m + 1) \in {0, 1}
    BY <1>1, <1>6, <1>8
  <1>  QED
    BY <1>7, <1>9 DEF Utility!shift

LEMMA UtilityInit == Utility!Init => UtilityInv
  <1> SUFFICES ASSUME Utility!Init, Utility!FoundAssumption  PROVE UtilityInv
    BY PartsAssumption
  <1>1. tap \in Found /\ tap.state \in Utility!TapState
    BY DEF Utility!Init, Utility!FoundAssumption, Utility!Tap
  <1>2. arr_tdo = << >> /\ i = 0
    BY DEF Utility!Init
  <1>3. Near(0) = Utility!TapState
    BY DEF Near
  <1>4. arr_tdo \in Seq(Outs) /\ Len(arr_tdo) = 0
    BY <1>2
  <1>  QED
    BY <1>1, <1>2, <1>3, <1>4 DEF UtilityInv

\* One turn of the loop (test_mpsse.c:76-91).
LEMMA UtilityNext ==
  ASSUME IdCode \in Utility!ShiftReg(32), UtilityInv, Utility!Next
  PROVE  UtilityInv'
  <1> DEFINE c == Utility!procedure[i + 1]
  <1>1. i \in 0 .. 137 /\ i' = i + 1
    BY ProcedureAt DEF Utility!Next, Utility!mpsse_clock_tms_cs, UtilityInv
  <1>2. c.tms = TmsOf(i + 1) /\ c.tdi = TdiOf(i + 1)
    BY <1>1, ProcedureAt
  <1>  HIDE DEF c
  <1>3. tap' = Utility!step(tap, c.tms, c.tdi) /\ arr_tdo' = Append(arr_tdo, Utility!tdo(tap))
    BY DEF Utility!Next, Utility!mpsse_clock_tms_cs, c
  <1>4. tap'.state = Utility!next_state(tap.state, c.tms)
    BY <1>3 DEF Utility!step
  <1>5. tap'.state \in Near(i')
    BY <1>1, <1>2, <1>4, NearNext DEF UtilityInv
  <1>6. i' >= 6 => tap'.instr = "IDCODE"
    <2>1. tap'.instr = Utility!instr_after(tap)
      BY <1>3 DEF Utility!step
    <2>2. i >= 5 => tap.state # "UPDATE_IR" /\ (i = 5 => tap.state = "TEST_LOGIC_RESET")
      BY <1>1 DEF UtilityInv, Near
    <2>3. i >= 6 => tap.instr = "IDCODE"
      BY DEF UtilityInv
    <2>  QED
      BY <1>1, <2>1, <2>2, <2>3 DEF Utility!instr_after
  <1>7. /\ i \in 1 .. 9 => Utility!selected(tap) = "none"
        /\ i >= 10 => Utility!selected(tap) = "dr" /\ tap.state = "SHIFT_DR"
        /\ i = 9 => tap.state = "CAPTURE_DR"
    <2>1. tap.state \in Near(i) /\ (i >= 6 => tap.instr = "IDCODE")
      BY DEF UtilityInv
    <2>2. i \in 1 .. 9 => tap.state \notin {"SHIFT_IR", "SHIFT_DR"}
      BY <2>1 DEF Near
    <2>3. i >= 10 => tap.state = "SHIFT_DR"
      BY <1>1, <2>1 DEF Near
    <2>4. i = 9 => tap.state = "CAPTURE_DR"
      BY <2>1 DEF Near
    <2>  QED
      BY <1>1, <2>1, <2>2, <2>3, <2>4 DEF Utility!selected
  <1>8. tap'.dr = IF tap.state = "CAPTURE_DR" /\ tap.instr = "IDCODE" THEN IdCode
                  ELSE IF Utility!selected(tap) = "dr" THEN Utility!shift(tap.dr, c.tdi) ELSE tap.dr
    BY <1>3 DEF Utility!step
  <1>9. i' >= 10 => tap'.dr = InRegister(i' - 10)
    <2>1. CASE i = 9
      <3>1. tap'.dr = IdCode
        BY <1>7, <1>8, <2>1 DEF UtilityInv
      <3>2. IdCode = InRegister(0)
        <4>1. IdCode \in Seq({0, 1}) /\ Len(IdCode) = 32
          BY DEF Utility!ShiftReg, Utility!Bit
        <4>  QED
          BY <4>1 DEF InRegister, Stream
      <3>  QED
        BY <1>1, <2>1, <3>1, <3>2
    <2>2. CASE i \in 10 .. 137
      <3>1. tap'.dr = Utility!shift(InRegister(i - 10), TdiOf(i + 1))
        BY <1>2, <1>7, <1>8, <2>2 DEF UtilityInv
      <3>2. i - 10 \in 0 .. 127 /\ (i - 10) + 11 = i + 1 /\ (i - 10) + 1 = i' - 10
        BY <1>1, <2>2
      <3>  QED
        BY <3>1, <3>2, RegisterOn
    <2>  QED
      BY <1>1, <2>1, <2>2
  <1>10. /\ Utility!tdo(tap) \in Outs
         /\ i >= 1 => Utility!tdo(tap) = IF i + 1 <= 10 THEN 1 ELSE Stream(i + 1 - 10)
    <2>1. CASE i = 0
      BY <2>1 DEF UtilityInv, Outs
    <2>2. CASE i \in 1 .. 9
      BY <1>7, <2>2 DEF Utility!tdo, Outs
    <2>3. CASE i \in 10 .. 137
      <3>1. Utility!tdo(tap) = Head(InRegister(i - 10))
        BY <1>7, <2>3 DEF UtilityInv, Utility!tdo
      <3>2. i - 10 \in 0 .. 127 /\ (i - 10) + 1 = i + 1 - 10
        BY <2>3
      <3>  QED
        BY <2>3, <3>1, <3>2, RegisterOn DEF Outs
    <2>  QED
      BY <1>1, <2>1, <2>2, <2>3
  <1> DEFINE bit == Utility!tdo(tap)
  <1>11. /\ arr_tdo' \in Seq(Outs) /\ Len(arr_tdo') = i'
         /\ \A k \in 1 .. i : arr_tdo'[k] = arr_tdo[k]
         /\ arr_tdo'[i + 1] = bit
    <2>1. arr_tdo \in Seq(Outs) /\ Len(arr_tdo) = i /\ bit \in Outs /\ arr_tdo' = Append(arr_tdo, bit)
      BY <1>3, <1>10 DEF UtilityInv
    <2>  HIDE DEF Outs, bit
    <2>  QED
      BY <1>1, <2>1
  <1>12. ASSUME NEW k \in 2 .. i'
         PROVE  arr_tdo'[k] = IF k <= 10 THEN 1 ELSE Stream(k - 10)
    <2>1. CASE k = i + 1
      BY <1>1, <1>10, <1>11, <2>1
    <2>2. CASE k # i + 1
      <3>1. k \in 2 .. i /\ k \in 1 .. i
        BY <1>1, <2>2
      <3>  QED
        BY <3>1, <1>11 DEF UtilityInv
    <2>  QED
      BY <2>1, <2>2
  <1>  QED
    BY <1>1, <1>5, <1>6, <1>9, <1>11, <1>12 DEF UtilityInv

LEMMA UtilityStutter == UtilityInv /\ UNCHANGED Utility!vars => UtilityInv'
  BY DEF UtilityInv, Utility!vars, Near, Stream, InRegister, Outs

\* The identity is what came out of the register first (test_mpsse.c:110-114).
LEMMA IdentityRight ==
  ASSUME UtilityInv, IdCode \in Utility!ShiftReg(32)
  PROVE  Utility!IdentityIsRead
  <1> SUFFICES ASSUME Utility!flushed  PROVE Utility!jtag_ident = IdCode
    BY DEF Utility!IdentityIsRead
  <1>1. i = 138
    BY ProcedureAt DEF Utility!flushed
  <1>2. \A k \in 1 .. 32 : arr_tdo[6 + 4 + k] = IdCode[k]
    <2>1. ASSUME NEW k \in 1 .. 32  PROVE arr_tdo[6 + 4 + k] = IdCode[k]
      <3>1. 6 + 4 + k \in 2 .. i /\ ~(6 + 4 + k <= 10) /\ (6 + 4 + k) - 10 = k
        BY <1>1
      <3>2. arr_tdo[6 + 4 + k] = Stream(k)
        BY <3>1 DEF UtilityInv
      <3>  QED
        BY <3>2 DEF Stream
    <2>  QED
      BY <2>1
  <1> DEFINE Two == {0, 1}
             last == 32
  <1>3. IdCode \in Seq(Two) /\ Len(IdCode) = last /\ last \in Nat
    BY DEF Utility!ShiftReg, Utility!Bit
  <1>4. Utility!jtag_ident = [k \in 1 .. last |-> IdCode[k]]
    BY <1>2 DEF Utility!jtag_ident
  <1> HIDE DEF Two, last
  <1>  QED
    BY <1>3, <1>4, OfLength

-----------------------------------------------------------------------------
(* The utility: the bytes it receives                                        *)

\* The identity of the chip the utility was written against, 0x029070DD, lowest bit first.
Identity ==
  [k \in 1 .. 32 |-> IF k \in {1, 3, 4, 5, 7, 8, 13, 14, 15, 21, 24, 26} THEN 1 ELSE 0]

LEMMA IdentityIsBits == Identity \in Utility!ShiftReg(32)
  <1>1. \A k \in 1 .. 32 : Identity[k] \in {0, 1}
    BY DEF Identity
  <1>  QED
    BY <1>1 DEF Identity, Utility!ShiftReg, Utility!Bit

\* Eight bits of a sequence, from a place on, as a number.
Weighed(b1, b2, b3, b4, b5, b6, b7, b8) ==
  b1 + 2 * b2 + 4 * b3 + 8 * b4 + 16 * b5 + 32 * b6 + 64 * b7 + 128 * b8

\* val of eight bits.
LEMMA ByteIs ==
  ASSUME NEW arr \in Seq(Int), Len(arr) = 8
  PROVE  Utility!val(arr) =
           Weighed(arr[1], arr[2], arr[3], arr[4], arr[5], arr[6], arr[7], arr[8])
  <1> DEFINE is(v) == v = [j \in 0 .. 8 |-> IF j = 0 THEN 0 ELSE 2 * v[j - 1] + arr[8 + 1 - j]]
             w1 == 2 * 0 + arr[8]
             w2 == 2 * w1 + arr[7]
             w3 == 2 * w2 + arr[6]
             w4 == 2 * w3 + arr[5]
             w5 == 2 * w4 + arr[4]
             w6 == 2 * w5 + arr[3]
             w7 == 2 * w6 + arr[2]
             w8 == 2 * w7 + arr[1]
             h == [j \in 0 .. 8 |->
                     CASE j = 0 -> 0 [] j = 1 -> w1 [] j = 2 -> w2 [] j = 3 -> w3
                       [] j = 4 -> w4 [] j = 5 -> w5 [] j = 6 -> w6 [] j = 7 -> w7 [] OTHER -> w8]
  <1>1. is(h)
    <2>1. \A j \in 0 .. 8 : h[j] = IF j = 0 THEN 0 ELSE 2 * h[j - 1] + arr[8 + 1 - j]
      <3>1. /\ h[0] = 0 /\ h[1] = w1 /\ h[2] = w2 /\ h[3] = w3 /\ h[4] = w4
            /\ h[5] = w5 /\ h[6] = w6 /\ h[7] = w7 /\ h[8] = w8
        <4> HIDE DEF w1, w2, w3, w4, w5, w6, w7, w8
        <4> QED
          OBVIOUS
      <3> HIDE DEF h
      <3>2. /\ h[1] = 2 * h[0] + arr[8] /\ h[2] = 2 * h[1] + arr[7] /\ h[3] = 2 * h[2] + arr[6]
            /\ h[4] = 2 * h[3] + arr[5] /\ h[5] = 2 * h[4] + arr[4] /\ h[6] = 2 * h[5] + arr[3]
            /\ h[7] = 2 * h[6] + arr[2] /\ h[8] = 2 * h[7] + arr[1]
        BY <3>1, Zenon
      <3>3. h[0] = 0
        BY <3>1
      <3> HIDE DEF w1, w2, w3, w4, w5, w6, w7, w8
      <3>  QED
        BY <3>2, <3>3
    <2>2. h = [j \in 0 .. 8 |-> h[j]]
      OBVIOUS
    <2> HIDE DEF h
    <2>  QED
      BY <2>1, <2>2
  <1> DEFINE v == CHOOSE f : is(f)
  <1>2. is(v)
    <2> HIDE DEF is, h
    <2>  QED
      BY <1>1, Zenon
  <1>3. Utility!val(arr) = v[8]
    BY DEF Utility!val
  <1> HIDE DEF v, h
  <1>4. /\ v[0] = 0 /\ v[1] = 2 * v[0] + arr[8] /\ v[2] = 2 * v[1] + arr[7]
        /\ v[3] = 2 * v[2] + arr[6] /\ v[4] = 2 * v[3] + arr[5] /\ v[5] = 2 * v[4] + arr[4]
        /\ v[6] = 2 * v[5] + arr[3] /\ v[7] = 2 * v[6] + arr[2] /\ v[8] = 2 * v[7] + arr[1]
    <2>1. \A j \in 0 .. 8 : v[j] = IF j = 0 THEN 0 ELSE 2 * v[j - 1] + arr[8 + 1 - j]
      BY <1>2
    <2>  QED
      BY <2>1
  <1>5. /\ arr[1] \in Int /\ arr[2] \in Int /\ arr[3] \in Int /\ arr[4] \in Int
        /\ arr[5] \in Int /\ arr[6] \in Int /\ arr[7] \in Int /\ arr[8] \in Int
    <2>1. \A k \in 1 .. 8 : arr[k] \in Int
      BY 8 \in Nat, OfLength
    <2>  QED
      BY <2>1
  <1> HIDE DEF is
  <1>6. v[8] = Weighed(arr[1], arr[2], arr[3], arr[4], arr[5], arr[6], arr[7], arr[8])
    <2>1. PICK b1 \in Int, b2 \in Int, b3 \in Int, b4 \in Int, b5 \in Int, b6 \in Int, b7 \in Int,
               b8 \in Int :
            /\ arr[1] = b1 /\ arr[2] = b2 /\ arr[3] = b3 /\ arr[4] = b4
            /\ arr[5] = b5 /\ arr[6] = b6 /\ arr[7] = b7 /\ arr[8] = b8
      BY <1>5, Zenon
    <2>2. v[0] = 0 /\ v[1] = 2 * v[0] + b8 /\ v[2] = 2 * v[1] + b7 /\ v[3] = 2 * v[2] + b6
          /\ v[4] = 2 * v[3] + b5 /\ v[5] = 2 * v[4] + b4 /\ v[6] = 2 * v[5] + b3
          /\ v[7] = 2 * v[6] + b2 /\ v[8] = 2 * v[7] + b1
      BY <1>4, <2>1, Zenon
    <2>3. v[3] = b6 + 2 * b7 + 4 * b8
      BY <2>2
    <2>4. v[6] = b3 + 2 * b4 + 4 * b5 + 8 * b6 + 16 * b7 + 32 * b8
      BY <2>2, <2>3
    <2>5. v[8] = Weighed(b1, b2, b3, b4, b5, b6, b7, b8)
      BY <2>2, <2>4 DEF Weighed
    <2>  QED
      BY <2>1, <2>5, Zenon
  <1>  QED
    BY <1>3, <1>6

\* What is answered to each clock, and nothing behind the last.
Answer(p) ==
  CASE p <= 10 -> 1
    [] p \in 11 .. 42 -> Identity[p - 10]
    [] p \in 43 .. 138 -> TdiOf(p - 32)
    [] OTHER -> 0

LEMMA AnswerAt ==
  ASSUME UtilityInv, IdCode = Identity, Utility!flushed, Head(arr_tdo) = 1
  PROVE  Len(arr_tdo) = 138 /\ \A p \in 1 .. 138 : arr_tdo[p] = Answer(p)
  <1>1. i = 138 /\ Len(arr_tdo) = 138
    BY ProcedureAt DEF Utility!flushed, UtilityInv
  <1>2. arr_tdo[1] = 1
    BY <1>1 DEF UtilityInv
  <1>3. ASSUME NEW p \in 2 .. 138  PROVE arr_tdo[p] = Answer(p)
    <2>1. arr_tdo[p] = IF p <= 10 THEN 1 ELSE Stream(p - 10)
      BY <1>1 DEF UtilityInv
    <2>2. p > 10 => Stream(p - 10) = Answer(p)
      <3>1. CASE p \in 11 .. 42
        BY <3>1 DEF Stream, Answer
      <3>2. CASE p \in 43 .. 138
        <4>1. (p - 10) - 22 = p - 32 /\ ~(p - 10 <= 32)
          BY <3>2
        <4>2. Stream(p - 10) = TdiOf(p - 32)
          BY <4>1 DEF Stream
        <4>3. Answer(p) = TdiOf(p - 32)
          BY <3>2 DEF Answer
        <4>  QED
          BY <4>2, <4>3
      <3>  QED
        BY <3>1, <3>2
    <2>3. p <= 10 => Answer(p) = 1
      BY DEF Answer
    <2>  QED
      BY <2>1, <2>2, <2>3
  <1>4. Answer(1) = 1
    BY DEF Answer
  <1>  QED
    BY <1>1, <1>2, <1>3, <1>4

\* Each byte of it (test_mpsse.c:101-107).
LEMMA BytesRight ==
  ASSUME UtilityInv, IdCode = Identity
  PROVE  Utility!ExpectedIsReceived
  <1> SUFFICES ASSUME Utility!flushed, Head(arr_tdo) = 1,
                      NEW byte \in 1 .. 18
               PROVE  Utility!received(byte) = Utility!expected[byte]
    BY DEF Utility!ExpectedIsReceived, Utility!expected
  <1>1. Len(arr_tdo) = 138 /\ \A p \in 1 .. 138 : arr_tdo[p] = Answer(p)
    BY AnswerAt
  <1> DEFINE at(k) == 8 * (byte - 1) + k
             arr == [k \in 1 .. 8 |-> IF at(k) <= Len(arr_tdo) THEN arr_tdo[at(k)] ELSE 0]
  <1>2. Utility!received(byte) = Utility!val(arr)
    BY DEF Utility!received
  <1>3. \A k \in 1 .. 8 : arr[k] = Answer(at(k))
    <2>1. ASSUME NEW k \in 1 .. 8  PROVE arr[k] = Answer(at(k))
      <3>1. at(k) \in Nat /\ at(k) >= 1
        OBVIOUS
      <3>2. ~(at(k) <= 138) => Answer(at(k)) = 0
        BY <3>1 DEF Answer
      <3>  QED
        BY <1>1, <3>1, <3>2
    <2>  QED
      BY <2>1
  <1>4. \A p \in Nat : Answer(p) \in {0, 1}
    BY DEF Answer, Identity, TdiOf
  <1>5. arr \in Seq(Int) /\ Len(arr) = 8
    <2>1. \A k \in 1 .. 8 : arr[k] \in Int
      <3>1. \A k \in 1 .. 8 : at(k) \in Nat
        OBVIOUS
      <3> HIDE DEF arr, at
      <3>  QED
        BY <1>3, <1>4, <3>1
    <2>  QED
      BY <2>1
  <1> HIDE DEF arr
  <1>6. Utility!val(arr) = Weighed(Answer(at(1)), Answer(at(2)), Answer(at(3)), Answer(at(4)),
                                   Answer(at(5)), Answer(at(6)), Answer(at(7)), Answer(at(8)))
    BY <1>3, <1>5, ByteIs
  <1>7. CASE byte = 1
    BY <1>2, <1>6, <1>7 DEF Weighed, Answer, Identity, TdiOf, Utility!expected
  <1>8. CASE byte = 2
    BY <1>2, <1>6, <1>8 DEF Weighed, Answer, Identity, TdiOf, Utility!expected
  <1>9. CASE byte = 3
    BY <1>2, <1>6, <1>9 DEF Weighed, Answer, Identity, TdiOf, Utility!expected
  <1>10. CASE byte = 4
    BY <1>2, <1>6, <1>10 DEF Weighed, Answer, Identity, TdiOf, Utility!expected
  <1>11. CASE byte = 5
    BY <1>2, <1>6, <1>11 DEF Weighed, Answer, Identity, TdiOf, Utility!expected
  <1>12. CASE byte = 6
    BY <1>2, <1>6, <1>12 DEF Weighed, Answer, Identity, TdiOf, Utility!expected
  <1>13. CASE byte \in 7 .. 10
    <2>1. CASE byte = 7
      BY <1>2, <1>6, <2>1 DEF Weighed, Answer, Identity, TdiOf, Utility!expected
    <2>2. CASE byte = 8
      BY <1>2, <1>6, <2>2 DEF Weighed, Answer, Identity, TdiOf, Utility!expected
    <2>3. CASE byte = 9
      BY <1>2, <1>6, <2>3 DEF Weighed, Answer, Identity, TdiOf, Utility!expected
    <2>4. CASE byte = 10
      BY <1>2, <1>6, <2>4 DEF Weighed, Answer, Identity, TdiOf, Utility!expected
    <2>  QED
      BY <1>13, <2>1, <2>2, <2>3, <2>4
  <1>14. CASE byte \in 11 .. 18
    <2>1. CASE byte = 11
      BY <1>2, <1>6, <2>1 DEF Weighed, Answer, Identity, TdiOf, Utility!expected
    <2>2. CASE byte = 12
      BY <1>2, <1>6, <2>2 DEF Weighed, Answer, Identity, TdiOf, Utility!expected
    <2>3. CASE byte = 13
      BY <1>2, <1>6, <2>3 DEF Weighed, Answer, Identity, TdiOf, Utility!expected
    <2>4. CASE byte = 14
      BY <1>2, <1>6, <2>4 DEF Weighed, Answer, Identity, TdiOf, Utility!expected
    <2>5. CASE byte = 15
      BY <1>2, <1>6, <2>5 DEF Weighed, Answer, Identity, TdiOf, Utility!expected
    <2>6. CASE byte = 16
      BY <1>2, <1>6, <2>6 DEF Weighed, Answer, Identity, TdiOf, Utility!expected
    <2>7. CASE byte = 17
      BY <1>2, <1>6, <2>7 DEF Weighed, Answer, Identity, TdiOf, Utility!expected
    <2>8. CASE byte = 18
      BY <1>2, <1>6, <2>8 DEF Weighed, Answer, Identity, TdiOf, Utility!expected
    <2>  QED
      BY <1>14, <2>1, <2>2, <2>3, <2>4, <2>5, <2>6, <2>7, <2>8
  <1>  QED
    BY <1>7, <1>8, <1>9, <1>10, <1>11, <1>12, <1>13, <1>14

-----------------------------------------------------------------------------
(* The parts together                                                        *)

LEMMA OpenStutter == OpenInv /\ UNCHANGED Open!vars => OpenInv'
  <1> SUFFICES ASSUME OpenInv, UNCHANGED Open!vars  PROVE OpenInv'
    OBVIOUS
  <1> USE DEF OpenInv, Open!vars
  <1>1. OpenArguments'
    BY DEF OpenArguments
  <1>2. OpenHolds'
    BY DEF OpenHolds
  <1>3. OpenHandles'
    BY DEF OpenHandles
  <1>4. OpenFound'
    BY DEF OpenFound, Open!passes_filter, Open!wanted, Open!recognized
  <1>  QED
    BY <1>1, <1>2, <1>3, <1>4

LEMMA FrequencyStutter == FrequencyInv /\ UNCHANGED Frequency!vars => FrequencyInv'
  <1> SUFFICES ASSUME FrequencyInv, UNCHANGED Frequency!vars  PROVE FrequencyInv'
    OBVIOUS
  <1>1. /\ asked' = asked /\ type' = type /\ returned' = returned
        /\ queued' = queued /\ chip' = chip /\ in_step' = in_step
    BY DEF Frequency!vars
  <1>2. /\ Frequency!high_speed' <=> Frequency!high_speed
        /\ Frequency!fast_base(asked)' <=> Frequency!fast_base(asked)
        /\ Frequency!divisor(asked)' = Frequency!divisor(asked)
        /\ Frequency!commands(asked)' = Frequency!commands(asked)
        /\ Frequency!actual(asked)' = Frequency!actual(asked)
    BY <1>1, SameChoice
  <1>3. SettingsFor' <=> SettingsFor
    BY <1>1, <1>2 DEF SettingsFor
  <1>  QED
    BY <1>1, <1>2, <1>3 DEF FrequencyInv

PartsInv == /\ part = "open" => OpenInv
            /\ part = "frequency" => FrequencyInv
            /\ part = "strip" => StripInv
            /\ IdCode \in Utility!ShiftReg(32) /\ part = "utility" => UtilityInv
            /\ part = "bits" => BitsInv
            /\ part = "lists" => ListsInv

LEMMA InitInv == Init => PartsInv
  BY OpenInit, FrequencyInit, StripInit, UtilityInit, BitsInit, ListsInit DEF Init, PartsInv

\* A step is one of the part there is.
LEMMA PartSteps ==
  ASSUME [Next]_vars
  PROVE  /\ part' = part
         /\ part = "open" => Open!Next \/ UNCHANGED Open!vars
         /\ part = "frequency" => Frequency!Next \/ UNCHANGED Frequency!vars
         /\ part = "strip" => Strip!Next \/ UNCHANGED Strip!vars
         /\ part = "utility" => Utility!Next \/ UNCHANGED Utility!vars
         /\ part = "bits" => Bits!Next \/ UNCHANGED Bits!vars
         /\ part = "lists" => Lists!Next \/ UNCHANGED Lists!vars
  <1>1. CASE Next
    BY <1>1 DEF Next
  <1>2. CASE UNCHANGED vars
    BY <1>2 DEF vars, open_own, frequency_own, strip_own, shared, Open!vars, Frequency!vars,
                   Strip!vars, utility_own, Utility!vars, bits_own, Bits!vars, lists_own,
                   Lists!vars
  <1>  QED
    BY <1>1, <1>2

LEMMA NextInv == PartsInv /\ [Next]_vars => PartsInv'
  <1> SUFFICES ASSUME PartsInv, [Next]_vars  PROVE PartsInv'
    OBVIOUS
  <1>1. /\ part' = part
        /\ part = "open" => Open!Next \/ UNCHANGED Open!vars
        /\ part = "frequency" => Frequency!Next \/ UNCHANGED Frequency!vars
        /\ part = "strip" => Strip!Next \/ UNCHANGED Strip!vars
        /\ part = "utility" => Utility!Next \/ UNCHANGED Utility!vars
        /\ part = "bits" => Bits!Next \/ UNCHANGED Bits!vars
        /\ part = "lists" => Lists!Next \/ UNCHANGED Lists!vars
    BY PartSteps
  <1>2. part = "open" => OpenInv'
    BY <1>1, OpenNext, OpenStutter DEF PartsInv
  <1>3. part = "frequency" => FrequencyInv'
    BY <1>1, FrequencyNext, FrequencyStutter DEF PartsInv
  <1>4. part = "strip" => StripInv'
    BY <1>1, StripNext, StripStutter DEF PartsInv
  <1>5. IdCode \in Utility!ShiftReg(32) /\ part = "utility" => UtilityInv'
    BY <1>1, UtilityNext, UtilityStutter DEF PartsInv
  <1>6. part = "lists" => ListsInv'
    BY <1>1, ListsNext, ListsStutter DEF PartsInv
  <1>7. part = "bits" => BitsInv'
    BY <1>1, BitsNext, BitsStutter DEF PartsInv
  <1>  QED
    BY <1>1, <1>2, <1>3, <1>4, <1>5, <1>6, <1>7 DEF PartsInv

-----------------------------------------------------------------------------
(* Theorems                                                                  *)

\* The state of mpsse_open and mpsse_close, of the choice of the clock, of the read buffer,
\* of the utility, of the bits and of the lists is always sound (mpsse.c:113-435, 769-798, 807-843,
\* test_mpsse.c:51-114, list.h:37-513).
THEOREM Invariance == Spec => []PartsInv
  BY InitInv, NextInv, PTL DEF Spec

\* An mpsse_open that fails has given back all it acquired, each once and before
\* libusb_exit, whatever devices there are and whichever call fails; only the device list
\* may be freed without having been fetched (mpsse.c:195, 239, 325, 387, 419-424).
THEOREM GivesBackAll == Spec => []NothingKept
  <1>1. PartsInv => NothingKept
    BY OpenProperties DEF PartsInv, NothingKept
  <1>  QED
    BY <1>1, Invariance, PTL

\* The device mpsse_open returns is one that was asked for and is ready for use, and no
\* device that was not asked for is configured, claimed or reset, for all devices on the
\* bus and all that callers ask for (mpsse.c:128-290).
THEOREM OpensWhatIsAsked == Spec => []OpenIsAsked
  <1>1. PartsInv => OpenIsAsked
    BY OpenProperties DEF PartsInv, OpenIsAsked
  <1>  QED
    BY <1>1, Invariance, PTL

\* The clock is the fastest the chip has that is not too fast, for every frequency an int
\* can hold, after any sequence of frequencies and of flushes that may fail; the caller is
\* told how fast that is, and RTCK is on when it was asked for last (mpsse.c:769-798).
THEOREM ChoosesBestFrequency == Spec => []FrequencyIsBest
  <1>1. PartsInv => FrequencyIsBest
    BY FrequencyProperties DEF PartsInv, FrequencyIsBest
  <1>  QED
    BY <1>1, Invariance, PTL

\* The read buffer holds the data the chip sent, in order and each byte once, as far as it
\* was asked for, for packets, transfers and requests of any length and any number of
\* transfers (mpsse.c:807-843).
THEOREM KeepsDataInOrder == Spec => []DataInOrder
  <1>1. PartsInv => DataInOrder
    BY StripProperties DEF PartsInv, DataInOrder
  <1>  QED
    BY <1>1, Invariance, PTL

\* The utility prints the identity the controller has, any of 32 bits, whatever its
\* instruction register is like and whatever state it was left in (test_mpsse.c:51-91,
\* 110-114).
THEOREM ReadsAnyIdentity ==
  ASSUME IdCode \in Utility!ShiftReg(32)
  PROVE  Spec => [](part = "utility" => Utility!IdentityIsRead)
  <1>1. PartsInv => (part = "utility" => Utility!IdentityIsRead)
    BY IdentityRight DEF PartsInv
  <1>  QED
    BY <1>1, Invariance, PTL

\* Of the chip it was written against, the utility also receives just the bytes it
\* expects, when that was not found in the middle of a scan (test_mpsse.c:51-114).
THEOREM ReadsIdentity ==
  ASSUME IdCode = Identity
  PROVE  Spec => []IdentityIsRead
  <1>1. IdCode \in Utility!ShiftReg(32)
    BY IdentityIsBits
  <1>2. PartsInv => IdentityIsRead
    BY <1>1, IdentityRight, BytesRight DEF PartsInv, IdentityIsRead
  <1>  QED
    BY <1>2, Invariance, PTL

\* The loop that may free what it visits visits every entry once and in order and never
\* follows a pointer of freed memory, in a list of any length (list.h:502-513,
\* binarybuffer.c:372-391).
THEOREM VisitsWholeList == Spec => []LoopVisitsAll
  <1>1. PartsInv => LoopVisitsAll
    BY LoopRight DEF PartsInv, LoopVisitsAll
  <1>  QED
    BY <1>1, Invariance, PTL

\* Every list is linked both ways, whatever operations, loops and frees came before and also
\* where an operation's cells are the same one (list.h:37-355).
THEOREM ListsStaySound == Spec => [](part = "lists" => Lists!TypeOK /\ Lists!BothWays)
  <1>1. PartsInv => (part = "lists" => Lists!TypeOK /\ Lists!BothWays)
    BY ListsTypes, ListsBothWays DEF PartsInv
  <1>  QED
    BY <1>1, Invariance, PTL

\* The lists are the sequences their comments speak of, and every operation does to them
\* what its comment says and nothing to any other list, for any number of heads and
\* entries: LinkedList implements ListContract (list.h:37-355).
THEOREM ListsKeepContract ==
  Spec => /\ part = "lists" => Lists!Contract!Init
          /\ [][part = "lists" => [Lists!Contract!Next]_(Lists!Contract!vars)]_vars
  <1>1. Init => (part = "lists" => Lists!Contract!Init)
    BY ContractInit DEF Init
  <1>2. PartsInv /\ [Next]_vars => [part = "lists" => [Lists!Contract!Next]_(Lists!Contract!vars)]_vars
    BY PartSteps, ContractNext DEF PartsInv
  <1>  QED
    BY <1>1, <1>2, Invariance, PTL DEF Spec

\* The helpers on arrays of bits do just what they promise, along each of their paths, for
\* bytes of any width, buffers of any length, all data and all ranges, and the lists what
\* their comments say: BitBuffers implements BitArray (binarybuffer.h:31-163,
\* binarybuffer.c:69-203, 461-480), LinkedList implements ListContract (list.h:37-355).
THEOREM HelpersKeepAll == Spec => HelpersKeepPromise
  <1>1. Init => /\ part = "bits" => Bits!Promise!Init
                /\ part = "lists" => Lists!Contract!Init
    BY PromiseInit, ContractInit DEF Init
  <1>2. PartsInv /\ [Next]_vars =>
          [/\ part = "bits" => [Bits!Promise!Next]_(Bits!Promise!vars)
           /\ part = "lists" => [Lists!Contract!Next]_(Lists!Contract!vars)]_vars
    <2> SUFFICES ASSUME PartsInv, [Next]_vars
                 PROVE  /\ part = "bits" => [Bits!Promise!Next]_(Bits!Promise!vars)
                        /\ part = "lists" => [Lists!Contract!Next]_(Lists!Contract!vars)
      OBVIOUS
    <2>1. part = "bits" => [Bits!Promise!Next]_(Bits!Promise!vars)
      BY PartSteps, PromiseNext, PromiseStutter DEF PartsInv
    <2>2. part = "lists" => [Lists!Contract!Next]_(Lists!Contract!vars)
      BY PartSteps, ContractNext DEF PartsInv
    <2>  QED
      BY <2>1, <2>2
  <1>  QED
    BY <1>1, <1>2, Invariance, PTL DEF Spec, HelpersKeepPromise

\* The buffer the helpers on bits write to holds bytes, whatever they put there
\* (binarybuffer.h:31-163, binarybuffer.c:69-203).
THEOREM BytesStayBytes == Spec => [](part = "bits" => Bits!TypeOK)
  <1>1. PartsInv => (part = "bits" => Bits!TypeOK)
    BY BitsTypes DEF PartsInv
  <1>  QED
    BY <1>1, Invariance, PTL
=============================================================================
