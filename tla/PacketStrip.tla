----------------------------- MODULE PacketStrip -----------------------------
(***************************************************************************)
(* What read_cb (mpsse.c:807-843) does with a finished read transfer, byte *)
(* by byte: the two status bytes at the head of every USB packet are left  *)
(* out and the rest goes to the read buffer, until it has read_count       *)
(* bytes.  MpsseTransfer takes such a transfer for the answers in it; this *)
(* module shows why it may.                                                *)
(*                                                                         *)
(* A byte of data is known by its place, from 1, in what the chip sends.   *)
(***************************************************************************)
EXTENDS Integers, SequencesExt

CONSTANTS
  PacketSize,   \* ctx->max_packet_size
  MaxPackets,   \* ctx->read_chunk_size in packets
  MaxRead,      \* bound: the largest read_count
  MaxExtra      \* bound: bytes the chip sends that were not asked for

\* What the constants are.
PacketAssumption == /\ PacketSize \in Nat /\ PacketSize > 2
                    /\ MaxPackets \in Nat \ {0}
                    /\ MaxRead \in Nat \ {0} /\ MaxExtra \in Nat

VARIABLES
  read_count,   \* ctx->read_count
  read_buffer,  \* the res->transferred first bytes of ctx->read_buffer
  done,         \* res->done
  sent          \* external: how many bytes of data the chip has sent

vars == <<read_count, read_buffer, done, sent>>

Status == 0    \* a status byte
Stale == -1    \* what is left in read_chunk of an earlier transfer

Init == /\ read_count \in 1 .. MaxRead
        /\ read_buffer = << >> /\ done = FALSE
        /\ sent = 0

-----------------------------------------------------------------------------
(* External: the packets of one transfer.  Each holds the status bytes and   *)
(* up to PacketSize - 2 bytes of data; one that is not full ends the         *)
(* transfer, and so do the end of the chunk and a timeout.                   *)

payload == PacketSize - 2
\* How much data there is, and whether the packet after the full ones, which may
\* hold no data, came at all.
Transfers == {t \in [data: 0 .. MaxPackets * payload, short: BOOLEAN] :
                /\ t.data % payload # 0 => t.short
                /\ t.data = MaxPackets * payload => ~t.short}
whole_packets(t) == t.data \div payload
actual_length(t) ==
  t.data + 2 * (whole_packets(t) + IF t.short THEN 1 ELSE 0)
\* The n-th byte of read_chunk, from 0.
chunk(t, n) ==
  IF n >= actual_length(t) THEN Stale
  ELSE IF n % PacketSize < 2 THEN Status
  ELSE sent + (n \div PacketSize) * payload + (n % PacketSize) - 1

-----------------------------------------------------------------------------
(* read_cb                                                                   *)

\* Mutant: only whole packets are counted.
Mutant_whole_packets(t) == actual_length(t) \div PacketSize
num_packets(t) == (actual_length(t) + PacketSize - 1) \div PacketSize   \* DIV_ROUND_UP

\* Mutants: the status bytes of the packet are taken for data; the end of the read
\* buffer is not minded.
Mutant_status_kept(remains, room) == Min({PacketSize - 2, remains, room})
Mutant_past_buffer(remains, room) == Min({PacketSize - 2, remains - 2})
\* How much of a packet is copied.
this_size(remains, room) == Min({PacketSize - 2, remains - 2, room})

\* The size bytes of packet i that are copied.
copied(t, i, size) == [k \in 1 .. size |-> chunk(t, PacketSize * i + 1 + k)]

\* The loop: the buffer and what remains of the chunk after the first i packets.
after(t) ==
  LET loop[i \in 0 .. num_packets(t)] ==
        IF i = 0 THEN [buffer |-> read_buffer, remains |-> actual_length(t)]
        ELSE LET last == loop[i - 1]
                 size == this_size(last.remains, read_count - Len(last.buffer))
             IN IF last.remains <= 2 \/ Len(last.buffer) = read_count THEN last
                ELSE [buffer |-> last.buffer \o copied(t, i - 1, size),
                      remains |-> last.remains - (size + 2)]
  IN loop[num_packets(t)].buffer

\* Is this the last transfer?  If not it is submitted again, which may fail.
complete(t) == Len(after(t)) = read_count

read_cb(t) ==
  /\ ~done /\ sent + t.data <= read_count + MaxExtra
  /\ read_buffer' = after(t)
  /\ sent' = sent + t.data
  /\ \/ done' = TRUE
     \/ ~complete(t) /\ UNCHANGED done
  /\ UNCHANGED read_count

Next == \E t \in Transfers : read_cb(t)
Spec == Init /\ [][Next]_vars

-----------------------------------------------------------------------------
(* Properties                                                                *)

TypeOK == /\ read_count \in 1 .. MaxRead
          /\ Len(read_buffer) <= read_count
          /\ done \in BOOLEAN
          /\ sent \in Nat

\* The buffer holds what the chip sent, in order, each byte once, with no status byte and
\* nothing of an earlier transfer (mpsse.c:814-835).
DataInOrder == read_buffer = [n \in 1 .. Len(read_buffer) |-> n]

\* All that came in is in the buffer as far as there was room asked for: nothing is lost at
\* the edge of a packet or of a transfer (mpsse.c:818-829).
NothingDropped == Len(read_buffer) = Min({sent, read_count})
=============================================================================
