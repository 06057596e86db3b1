------------------------------- MODULE Staging -------------------------------
(***************************************************************************)
(* The staging buffers both plug-ins collect clocks in.  clock_raw and     *)
(* clock_multiple or the bits of a clock into tdi_data and tms_data behind *)
(* those already there; do_flush takes them out in order and clears both.  *)
(***************************************************************************)
EXTENDS Integers, Sequences

CONSTANT Places    \* the bits of a buffer, 0 .. n - 1 for some n

Bit == {0, 1}
Clock == [tms: Bit, tdi: Bit]

Zeros == [p \in Places |-> 0]
Empty == [tdi |-> Zeros, tms |-> Zeros, tdi_data_count |-> 0, tdo_data_count |-> 0]
Buffers == [tdi: [Places -> Bit], tms: [Places -> Bit],
            tdi_data_count: Nat, tdo_data_count: Nat]

Or(a, b) == IF a = 1 \/ b = 1 THEN 1 ELSE 0

stage(s, clocks) ==
  LET n == s.tdi_data_count
      OrIn(old, field(_)) ==
        [p \in Places |-> IF p \in n .. n + Len(clocks) - 1
                          THEN Or(old[p], field(clocks[p - n + 1])) ELSE old[p]]
  IN [s EXCEPT !.tdi = OrIn(@, LAMBDA c : c.tdi),
               !.tms = OrIn(@, LAMBDA c : c.tms),
               !.tdi_data_count = n + Len(clocks)]

clock_raw(tms, tdi, len) == [k \in 1 .. len |-> [tms |-> tms, tdi |-> tdi]]
clock_multiple(tms, bits) == [k \in DOMAIN bits |-> [tms |-> tms, tdi |-> bits[k]]]

\* The clocks staged at positions from and later.
StagedFrom(s, from) == [k \in 1 .. s.tdi_data_count - from |->
                          [tms |-> s.tms[from + k - 1], tdi |-> s.tdi[from + k - 1]]]
=============================================================================
