------------------------------ MODULE BitArray ------------------------------
(***************************************************************************)
(* What the helpers of binarybuffer.h promise, in bits: a buffer is an     *)
(* array of them, and a call reads or writes the places it names and no    *)
(* others.  The bytes matter only where the comments of that file name     *)
(* them, for the places behind the last one of a copy.                     *)
(***************************************************************************)
EXTENDS Integers

CONSTANTS
  Size,       \* bits in the buffer
  ByteBits    \* bits in a byte

VARIABLES
  bits,    \* the buffer
  call,    \* the call, with its arguments in bits
  answer,  \* what it returned, a Boolean or an array of bits
  made     \* has it been made

vars == <<bits, answer, made>>

Places == 0 .. Size - 1
Zeros == [p \in Places |-> 0]

\* The places of the last byte behind the first n.
Behind(n) == {p \in Places : p >= n /\ p \div ByteBits = n \div ByteBits /\ n % ByteBits # 0}

\* data replaces the num bits from first.
Written(data, first, num) ==
  [p \in Places |-> IF p \in first .. first + num - 1 THEN data[p - first] ELSE bits[p]]

\* The first n bits are replaced, and the rest of their last byte is cleared.
Filled(data, n) ==
  [p \in Places |-> IF p < n THEN data[p] ELSE IF p \in Behind(n) THEN 0 ELSE bits[p]]

Differ(data, among) == \E p \in among : bits[p] # data[p]

Write == call.op = "write" /\ bits' = Written(call.data, call.first, call.num)
Fill == call.op = "fill" /\ bits' = Filled(call.data, call.num)
Shift == /\ call.op = "shift"
         /\ bits' = [p \in Places |-> IF p + call.num < Size THEN bits[p + call.num] ELSE 0]
Read == /\ call.op = "read"
        /\ answer' = [k \in 0 .. call.num - 1 |-> bits[call.first + k]]
        /\ UNCHANGED bits
Reverse == /\ call.op = "reverse"
           /\ answer' = [k \in 0 .. call.num - 1 |-> bits[call.num - 1 - k]]
           /\ UNCHANGED bits
CompareMasked == /\ call.op = "compare masked"
                 /\ answer' = Differ(call.data, {p \in 0 .. call.num - 1 : call.mask[p] = 1})
                 /\ UNCHANGED bits
\* buf_cmp promises nothing in words; what it does is to find a difference only where the
\* whole bytes before the last are equal.
CompareTail ==
  /\ call.op = "compare"
  /\ LET whole == 0 .. ByteBits * (call.num \div ByteBits) - 1
     IN answer' = (~Differ(call.data, whole) /\ Differ(call.data, 0 .. call.num - 1))
  /\ UNCHANGED bits

Init == bits \in [Places -> {0, 1}] /\ made = FALSE
Next == /\ ~made /\ made'
        /\ Write \/ Fill \/ Shift \/ Read \/ Reverse \/ CompareMasked \/ CompareTail
Spec == Init /\ [][Next]_vars
=============================================================================
