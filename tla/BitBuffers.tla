----------------------------- MODULE BitBuffers -----------------------------
(***************************************************************************)
(* The helpers of binarybuffer.c and binarybuffer.h on arrays of bits kept *)
(* in bytes, each with its fast path for whole bytes or words, its loops,  *)
(* shifts and masks.  BitArray is what they promise; one call is compared  *)
(* with it a behaviour, for nothing is kept between calls.                 *)
(*                                                                         *)
(* A byte has W bits, 8 in the code, and a word 4 bytes.  Pointers are not *)
(* NULL: for those the helpers return at once.                             *)
(***************************************************************************)
EXTENDS Integers

CONSTANTS
  W,           \* bits in a byte
  Length,      \* bytes in the buffer
  Buffers,     \* what it, and the other buffers of a call, may hold
  Firsts,      \* bound: where a range may start
  Nums         \* bound: how long it may be

VARIABLES
  buffer,   \* the bytes of the buffer
  call,     \* the call to be made, with its arguments
  answer,   \* what it returned
  made      \* has the call been made

vars == <<buffer, call, answer, made>>

\* 2 ^ n
power[n \in Nat] == IF n = 0 THEN 1 ELSE 2 * power[n - 1]

Bytes == 0 .. Length - 1
Byte == 0 .. power[W] - 1
word == 4 * W
size == W * Length

\* What the constants are.
BufferAssumption == /\ W \in Nat \ {0} /\ Length \in Nat \ {0}
                    /\ Buffers \subseteq [Bytes -> Byte]
                    /\ Firsts \subseteq 0 .. size - 1 /\ Nums \subseteq 1 .. size

-----------------------------------------------------------------------------
(* Bits of a byte, or of a word                                              *)

shl(v, n) == v * power[n]
shr(v, n) == v \div power[n]
bit(v, n) == shr(v, n) % 2
\* v |= 1 << n and v &= ~(1 << n)
with_bit(v, n, b) == v + shl(b - bit(v, n), n)

\* a & b and a | b, of up to two bytes.
both(a, b) ==
  LET sum[n \in 0 .. 2 * W] ==
        IF n = 0 THEN 0 ELSE sum[n - 1] + shl(bit(a, n - 1) * bit(b, n - 1), n - 1)
  IN sum[2 * W]
either(a, b) == a + b - both(a, b)

\* The bit at place p of an array, and the array with b there.
bit_at(buf, p) == bit(buf[p \div W], p % W)
bit_put(buf, p, b) == [buf EXCEPT ![p \div W] = with_bit(@, p % W, b)]

-----------------------------------------------------------------------------
(* buf_set_u32, buf_set_u64, buf_get_u32, buf_get_u64: a word of the given   *)
(* number of bytes at a time, or bit by bit                                  *)

\* Mutant: wherever it starts, a word is set as the first.
Mutant_any_word(first, num, bytes) == num = word \/ (num = 2 * word /\ bytes = 8)
whole(first, num, bytes) == first = 0 /\ (num = word \/ (num = 2 * word /\ bytes = 8))

\* Mutant: a bit is only ever set.
Mutant_ones_only(buf, p, b) == IF b = 1 THEN bit_put(buf, p, 1) ELSE buf
store(buf, p, b) == bit_put(buf, p, b)

buf_set(first, num, value, bytes) ==
  LET loop[n \in 0 .. num] ==
        IF n = 0 THEN buffer ELSE store(loop[n - 1], first + n - 1, bit(value, n - 1))
  IN IF whole(first, num, bytes)
     THEN [k \in Bytes |-> IF k < num \div W THEN shr(value, W * k) % power[W] ELSE buffer[k]]
     ELSE loop[num]

buf_get(first, num, bytes) ==
  LET loop[n \in 0 .. num] ==
        IF n = 0 THEN 0 ELSE loop[n - 1] + shl(bit_at(buffer, first + n - 1), n - 1)
      fast[k \in 0 .. num \div W] ==
        IF k = 0 THEN 0 ELSE fast[k - 1] + shl(buffer[k - 1], W * (k - 1))
  IN IF whole(first, num, bytes) THEN fast[num \div W] ELSE loop[num]

-----------------------------------------------------------------------------
(* buf_cpy, buf_set_ones, buf_set_buf, buffer_shr                            *)

\* Mutant: the last byte is masked even where all of it belongs to the buffer.
Mutant_always_masked(buf, num) == [buf EXCEPT ![num \div W] = @ % power[num % W]]
\* The bits that do not belong to the last byte are masked out.
trailing_masked(buf, num) ==
  IF num % W = 0 THEN buf ELSE [buf EXCEPT ![num \div W] = @ % power[num % W]]

buf_cpy(from, num) ==
  trailing_masked([k \in Bytes |-> IF k < (num + W - 1) \div W THEN from[k] ELSE buffer[k]], num)

buf_set_ones(num) ==
  LET memset == [k \in Bytes |-> IF k < num \div W THEN power[W] - 1 ELSE buffer[k]]
  IN IF num % W = 0 THEN memset ELSE [memset EXCEPT ![num \div W] = power[num % W] - 1]

\* Mutant: bytes are copied where only the source starts at one.
Mutant_source_only(src_start, dst_start, len) == src_start % W = 0 /\ len % W = 0
bytewise(src_start, dst_start, len) ==
  src_start % W = 0 /\ dst_start % W = 0 /\ len % W = 0

buf_set_buf(src, src_start, dst_start, len) ==
  LET sb == src_start \div W
      db == dst_start \div W
      loop[n \in 0 .. len] ==
        IF n = 0 THEN buffer
        ELSE bit_put(loop[n - 1], dst_start + n - 1, bit_at(src, src_start + n - 1))
  IN IF bytewise(src_start, dst_start, len)
     THEN [k \in Bytes |-> IF k \in db .. db + len \div W - 1 THEN src[sb + k - db] ELSE buffer[k]]
     ELSE loop[len]

\* Mutants: the bits that come in from the next byte are where they were; those that do not
\* fit are not cut off.
Mutant_next_unshifted(shift, k) == either(shr(buffer[k], shift), buffer[k + 1])
Mutant_uncut(shift, k) == either(shr(buffer[k], shift), shl(buffer[k + 1], W - shift))
\* A byte but the last, shifted by less than a byte.
shifted(shift, k) ==
  either(shr(buffer[k], shift), shl(buffer[k + 1], W - shift) % power[W])

buffer_shr(count) ==
  LET bytes_to_remove == count \div W
      shift == count % W
      now == [k \in Bytes |-> IF k < Length - 1 THEN shifted(shift, k) ELSE shr(buffer[k], shift)]
  IN [k \in Bytes |-> IF k + bytes_to_remove < Length THEN now[k + bytes_to_remove] ELSE 0]

-----------------------------------------------------------------------------
(* flip_u32, buf_cmp, buf_cmp_mask                                           *)

bit_reverse_table(b) ==
  LET sum[n \in 0 .. W] == IF n = 0 THEN 0 ELSE sum[n - 1] + shl(bit(b, W - n), n - 1)
  IN sum[W]

moved_down(c, num) == IF num < word THEN shr(c, word - num) ELSE c

flip_u32(value, num) ==
  LET place[k \in 0 .. 4] ==
        IF k = 0 THEN 0
        ELSE place[k - 1]
             + shl(bit_reverse_table(shr(value, W * (k - 1)) % power[W]), word - W * k)
  IN moved_down(place[4], num)

buf_cmp_masked(a, b, m) == both(a, m) # both(b, m)
buf_cmp_trailing(a, b, m, trailing) == buf_cmp_masked(a, b, both(power[trailing] - 1, m))

buf_cmp(other, num) ==
  LET last == num \div W
  IN /\ \A k \in 0 .. last - 1 : buffer[k] = other[k]
     /\ num % W # 0
     /\ buf_cmp_trailing(buffer[last], other[last], power[W] - 1, num % W)

\* Mutant: the bits of the last byte that do not belong to the buffer count as well.
Mutant_tail_whole(other, mask, last, trailing) ==
  trailing # 0 /\ buf_cmp_masked(buffer[last], other[last], mask[last])
tail_differs(other, mask, last, trailing) ==
  trailing # 0 /\ buf_cmp_trailing(buffer[last], other[last], mask[last], trailing)

buf_cmp_mask(other, mask, num) ==
  LET last == num \div W
  IN \/ \E k \in 0 .. last - 1 : buf_cmp_masked(buffer[k], other[k], mask[k])
     \/ tail_differs(other, mask, last, num % W)

-----------------------------------------------------------------------------
(* One call                                                                  *)

\* The word in the first bytes of an array, which may be shorter.
value(buf, bytes) ==
  LET sum[k \in 0 .. bytes] ==
        IF k = 0 THEN 0
        ELSE sum[k - 1] + shl(IF k - 1 \in Bytes THEN buf[k - 1] ELSE 0, W * (k - 1))
  IN sum[bytes]

NoBuffer == [k \in Bytes |-> 0]
Call(op, num, first, from, data, mask) ==
  [op |-> op, num |-> num, first |-> first, from |-> from, data |-> data, mask |-> mask]
fits(first, num) == first + num <= size

\* The helpers for words take up to 4 or 8 bytes, and flip_u32 two bits or more.
WordNums(op) == {n \in Nums : n <= IF op \in {"set_u64", "get_u64"} THEN 2 * word ELSE word}
Calls ==
  {Call(op, n, f, 0, d, NoBuffer) :
     op \in {"set_u32", "set_u64"}, n \in Nums, f \in Firsts, d \in Buffers}
  \cup {Call(op, n, f, 0, NoBuffer, NoBuffer) :
           op \in {"get_u32", "get_u64"}, n \in Nums, f \in Firsts}
  \cup {Call("set_buf", n, f, g, d, NoBuffer) :
           n \in Nums, f \in Firsts, g \in Firsts, d \in Buffers}
  \cup {Call(op, n, 0, 0, d, NoBuffer) : op \in {"cpy", "cmp"}, n \in Nums, d \in Buffers}
  \cup {Call("cmp_mask", n, 0, 0, d, m) : n \in Nums, d \in Buffers, m \in Buffers}
  \cup {Call(op, n, 0, 0, NoBuffer, NoBuffer) : op \in {"ones", "shr", "flip_u32"}, n \in Nums}
Legal(c) ==
  /\ fits(c.first, c.num) /\ fits(c.from, c.num)
  /\ c.op \in {"set_u32", "get_u32", "set_u64", "get_u64", "flip_u32"} => c.num \in WordNums(c.op)
  /\ c.op = "flip_u32" => c.num > 1

Init == /\ buffer \in Buffers /\ call \in {c \in Calls : Legal(c)}
        /\ answer = FALSE /\ made = FALSE

writes(op, new) == call.op = op /\ buffer' = new /\ UNCHANGED answer
returns(op, value_returned) == call.op = op /\ answer' = value_returned /\ UNCHANGED buffer
bits_of_word(v) == [n \in 0 .. call.num - 1 |-> bit(v, n)]

Next ==
  /\ ~made /\ made' = TRUE /\ UNCHANGED call
  /\ \/ writes("set_u32", buf_set(call.first, call.num, value(call.data, 4), 4))
     \/ writes("set_u64", buf_set(call.first, call.num, value(call.data, 8), 8))
     \/ writes("cpy", buf_cpy(call.data, call.num))
     \/ writes("ones", buf_set_ones(call.num))
     \/ writes("set_buf", buf_set_buf(call.data, call.from, call.first, call.num))
     \/ writes("shr", buffer_shr(call.num))
     \/ returns("get_u32", bits_of_word(buf_get(call.first, call.num, 4)))
     \/ returns("get_u64", bits_of_word(buf_get(call.first, call.num, 8)))
     \/ returns("flip_u32", bits_of_word(flip_u32(value(buffer, 4), call.num)))
     \/ returns("cmp", buf_cmp(call.data, call.num))
     \/ returns("cmp_mask", buf_cmp_mask(call.data, call.mask, call.num))
Spec == Init /\ [][Next]_vars

-----------------------------------------------------------------------------
(* Properties                                                                *)

TypeOK == buffer \in [Bytes -> Byte] /\ made \in BOOLEAN

(* The helpers in bits.                                                      *)
kind == CASE call.op \in {"set_u32", "set_u64", "set_buf"} -> "write"
          [] call.op \in {"get_u32", "get_u64"} -> "read"
          [] call.op \in {"cpy", "ones"} -> "fill"
          [] call.op = "shr" -> "shift"
          [] call.op = "flip_u32" -> "reverse"
          [] call.op = "cmp" -> "compare"
          [] call.op = "cmp_mask" -> "compare masked"
data_in_bits ==
  [p \in 0 .. call.num - 1 |-> IF call.op = "ones" THEN 1 ELSE bit_at(call.data, call.from + p)]
mask_in_bits == [p \in 0 .. call.num - 1 |-> bit_at(call.mask, p)]
call_in_bits == [op |-> kind, first |-> call.first, num |-> call.num,
                 data |-> data_in_bits, mask |-> mask_in_bits]
Promise == INSTANCE BitArray WITH
             Size <- size, ByteBits <- W, bits <- [p \in 0 .. size - 1 |-> bit_at(buffer, p)],
             call <- call_in_bits

\* Every helper reads and writes just the bits it is asked to, whatever the range and
\* whichever path it takes: the fast ones, the loops over bits and the masks of the last
\* byte agree (binarybuffer.h:31-163, binarybuffer.c:69-203, 461-480).
KeepsPromise == Promise!Spec
=============================================================================
