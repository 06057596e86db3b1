----------------------------- MODULE BufferText -----------------------------
(***************************************************************************)
(* Buffers as text and text as buffers: buf_to_str and str_to_buf          *)
(* (binarybuffer.c:205-348) in radix 8, 10 and 16, and the pairs of        *)
(* hexadecimal digits of hexify and unhexify (393-459).  A buffer is       *)
(* printed, or a text typed, and then read back.                           *)
(*                                                                         *)
(* A character is the digit it stands for, of either case, or one of the   *)
(* two below.  The factors of the code, its floats, are fractions here.    *)
(***************************************************************************)
EXTENDS Integers, SequencesExt

CONSTANTS
  Buffers,   \* sequences of bytes, least significant first
  Typed,     \* texts, most significant digit first
  MaxLen     \* bound: the length given to hexify

X == 16        \* x or X
Other == 17    \* any other character
NUL == -1

\* What the constants are.
TextAssumption == /\ Buffers \subseteq Seq(0 .. 255)
                  /\ Typed \subseteq Seq(0 .. Other)
                  /\ MaxLen \in Nat

VARIABLES
  pc,        \* source, text, done
  kind,      \* which pair of functions, with its radix; 0 has it guessed
  buffer,    \* the buffer that was printed, or the one read to before it is
  buf_len,   \* how many bits, or bytes, of it
  room,      \* the length given to hexify
  text,      \* the text
  typed,     \* history: was it typed
  back,      \* the buffer the text was read to
  returned   \* what the last function returned

vars == <<pc, kind, buffer, buf_len, room, text, typed, back, returned>>

Kinds == {[hex |-> FALSE, radix |-> r] : r \in {0, 8, 10, 16}} \cup {[hex |-> TRUE, radix |-> 16]}

-----------------------------------------------------------------------------
(* Numbers                                                                   *)

round_up(n, d) == (n + d - 1) \div d

\* Mutant: what is carried is of one digit alone.
Mutant_carry_of_one(digits, tmp, factor, base) ==
  LET carry(j) == IF j = 0 THEN tmp ELSE (digits[j] * factor) \div base
  IN [j \in 1 .. Len(digits) |-> (carry(j - 1) + digits[j] * factor) % base]
\* The loop both functions have: the number of these digits, least significant first, times
\* factor plus tmp, as far as there is room for it.
shift_in(digits, tmp, factor, base) ==
  LET carry[j \in 0 .. Len(digits)] ==
        IF j = 0 THEN tmp ELSE (carry[j - 1] + digits[j] * factor) \div base
  IN [j \in 1 .. Len(digits) |-> (carry[j - 1] + digits[j] * factor) % base]

zeros(n) == [j \in 1 .. n |-> 0]

\* Byte i, from 1, of a buffer of len bits, without the bits that do not belong to it.
masked(b, i, len) == IF i = len \div 8 + 1 /\ len % 8 # 0 THEN b % 2 ^ (len % 8) ELSE b

\* Mutant: a decimal digit is taken for a hexadecimal one.
Mutant_two_a_byte(bytes, radix) == 2 * bytes
\* How many digits a number of these bytes has: 2, 2.40824 or 2.66667 a byte.
str_len(bytes, radix) ==
  CASE radix = 16 -> 2 * bytes
    [] radix = 10 -> round_up(240824 * bytes, 100000)
    [] radix = 8 -> round_up(266667 * bytes, 100000)

buf_to_str(buf, len, radix) ==
  LET bytes == round_up(len, 8)
      loop[k \in 0 .. bytes] ==
        IF k = 0 THEN zeros(str_len(bytes, radix))
        ELSE LET i == bytes - k + 1 IN shift_in(loop[k - 1], masked(buf[i], i, len), 256, radix)
  IN Reverse(loop[bytes])

\* str_radix_guess: the radix, and how many characters are its prefix.
str_radix_guess(str, radix) ==
  IF radix # 0 THEN <<radix, 0>>
  ELSE IF Len(str) > 1 /\ str[1] = 0 /\ str[2] = X THEN <<16, 2>>
  ELSE IF Len(str) > 1 /\ str[1] = 0 THEN <<8, 1>>
  ELSE <<10, 0>>

\* How many bytes that many digits need: 0.5, 0.41524 or 0.375 of them.
b256_len(digits, radix) ==
  CASE radix = 16 -> round_up(digits, 2)
    [] radix = 10 -> round_up(41524 * digits, 100000)
    [] radix = 8 -> round_up(375 * digits, 1000)

\* Mutant: a digit the radix does not have counts.
Mutant_any_digit(c, radix) == c < X
taken(c, radix) == c < radix

\* The bytes, and how many characters were read.
str_to_buf(str, len, given_radix) ==
  LET guess == str_radix_guess(str, given_radix)
      radix == guess[1]
      chars == SubSeq(str, guess[2] + 1, Len(str))
      loop[k \in 0 .. Len(chars)] ==
        IF k = 0 THEN zeros(b256_len(Len(chars), radix))
        ELSE IF taken(chars[k], radix) THEN shift_in(loop[k - 1], chars[k], radix, 256)
        ELSE loop[k - 1]
      number == loop[Len(chars)]
  IN <<[i \in 1 .. round_up(len, 8) |->
          masked(IF i <= Len(number) THEN number[i] ELSE 0, i, len)], Len(chars)>>

-----------------------------------------------------------------------------
(* Pairs of hexadecimal digits                                               *)

Least(a, b) == IF a < b THEN a ELSE b

\* Mutant: the high digit is not cut off the low one.
Mutant_uncut(bin, n) == IF n % 2 = 1 THEN bin[n \div 2 + 1] \div 16 ELSE bin[n \div 2]
\* The n-th digit, from 1.
hex_digit(bin, n) == IF n % 2 = 1 THEN bin[n \div 2 + 1] \div 16 ELSE bin[n \div 2] % 16

\* Mutant: the terminating NUL is not counted in the length.
Mutant_no_room(length, count) == Least(length, 2 * count)
hex_len(length, count) == Least(length - 1, 2 * count)

\* What of the hex buffer is written, its NUL included; nothing where there is no length.
hexify(bin, count, length) ==
  IF length = 0 THEN << >>
  ELSE [n \in 1 .. hex_len(length, count) |-> hex_digit(bin, n)] \o <<NUL>>

pairs(n) == n \div 2

\* The bytes, the high half of the last one among them if it has no low half, and how many
\* pairs there were: reading stops at the first character that is no digit.
unhexify(hex, count) ==
  LET stops == {n \in 1 .. Len(hex) : hex[n] \notin 0 .. 15}
      read == Least(2 * count, IF stops = {} THEN Len(hex) ELSE Min(stops) - 1)
      half(n) == IF n <= read THEN hex[n] ELSE 0
  IN <<[i \in 1 .. count |-> 16 * half(2 * i - 1) + half(2 * i)], pairs(read)>>

-----------------------------------------------------------------------------
(* Steps                                                                     *)

Init == /\ pc = "source" /\ kind \in Kinds /\ buffer \in Buffers
        /\ buf_len \in IF kind.hex THEN {Len(buffer)} ELSE 8 * Len(buffer) - 7 .. 8 * Len(buffer)
        /\ room = 0 /\ text = << >> /\ typed = FALSE /\ back = << >> /\ returned = 0

print_number ==
  /\ pc = "source" /\ ~kind.hex /\ kind.radix # 0
  /\ text' = buf_to_str(buffer, buf_len, kind.radix)
  /\ pc' = "text" /\ UNCHANGED <<kind, buffer, buf_len, room, typed, back, returned>>

print_pairs(length) ==
  /\ pc = "source" /\ kind.hex
  /\ room' = length /\ text' = hexify(buffer, buf_len, length)
  /\ returned' = Len(text') - (IF length = 0 THEN 0 ELSE 1)
  /\ pc' = IF length = 0 THEN "done" ELSE "text"
  /\ UNCHANGED <<kind, buffer, buf_len, typed, back>>

type(str) ==
  /\ pc = "source" /\ text' = (IF kind.hex THEN Append(str, NUL) ELSE str) /\ typed' = TRUE
  /\ pc' = "text" /\ UNCHANGED <<kind, buffer, buf_len, room, back, returned>>

read_back ==
  /\ pc = "text" /\ pc' = "done"
  /\ LET read == IF kind.hex THEN unhexify(text, buf_len)
                 ELSE str_to_buf(text, buf_len, kind.radix)
     IN back' = read[1] /\ returned' = read[2]
  /\ UNCHANGED <<kind, buffer, buf_len, room, text, typed>>

Next == \/ print_number \/ (\E length \in 0 .. MaxLen : print_pairs(length))
        \/ (\E str \in Typed : type(str)) \/ read_back
Spec == Init /\ [][Next]_vars

-----------------------------------------------------------------------------
(* Properties                                                                *)

TypeOK == /\ pc \in {"source", "text", "done"} /\ kind \in Kinds
          /\ buffer \in Buffers /\ buf_len \in Nat /\ room \in 0 .. MaxLen /\ returned \in Nat /\ typed \in BOOLEAN
          /\ \A n \in DOMAIN text : text[n] \in NUL .. Other
          /\ \A i \in DOMAIN back : back[i] \in 0 .. 255

\* The number of these digits, most significant first.
number(digits, base) == FoldLeft(LAMBDA sum, digit : base * sum + digit, 0, digits)
bits_of(bytes) == number(Reverse(bytes), 256) % 2 ^ (IF kind.hex THEN 24 ELSE buf_len)

printed == ~typed /\ pc # "source"

\* A buffer is printed whole: no digit of it is lost for want of room, and no bit behind its
\* last one is in it (binarybuffer.c:235-254).
PrintedWhole == printed /\ ~kind.hex => number(text, kind.radix) = bits_of(buffer)

\* What was printed is read back as it was (binarybuffer.c:235-342).
RoundTrip == printed /\ pc = "done" /\ ~kind.hex => bits_of(back) = bits_of(buffer)

\* A typed text is the number of the digits its radix has, the radix its prefix names where
\* none is given, cut to the bits of the buffer (binarybuffer.c:261-342).
TypedIsNumber ==
  typed /\ pc = "done" /\ ~kind.hex =>
    LET hexadecimal == Len(text) > 1 /\ text[1] = 0 /\ text[2] = X
        radix == IF kind.radix # 0 THEN kind.radix
                 ELSE IF hexadecimal THEN 16
                 ELSE IF Len(text) > 0 /\ text[1] = 0 THEN 8 ELSE 10
        digits == SelectSeq(text, LAMBDA c : c < radix)
    IN bits_of(back) = number(digits, radix) % 2 ^ buf_len

\* hexify writes no more than the length it was given, its NUL included, and what unhexify
\* then converts is the pairs that were written whole (binarybuffer.c:405-459).
PairsFit ==
  kind.hex /\ printed =>
    /\ Len(text) <= room
    /\ pc = "done" /\ text # << >> =>
         /\ returned = (Len(text) - 1) \div 2
         /\ SubSeq(back, 1, returned) = SubSeq(buffer, 1, returned)
=============================================================================
