------------------------------- MODULE Helpers -------------------------------
(***************************************************************************)
(* The helpers of OpenOCD that the drivers are written with: arrays of     *)
(* bits, text, and lists.  They know nothing of each other: a call is of   *)
(* one of them.  Parts puts them with the other parts that stand for       *)
(* themselves.                                                             *)
(***************************************************************************)
EXTENDS Integers, Sequences

CONSTANTS
  W, Length, Arrays, Firsts, Nums,                \* of bits: see BitBuffers; its Buffers
  Numbers, Typed, MaxLen,                         \* of text: see BufferText; its Buffers
  Heads, Entries, Dead, NULL                      \* of lists: see LinkedList

VARIABLES
  answer, made,                                          \* of bits
  kind, buf_len, room, text, typed, back, pc, returned,  \* of text
  next, prev, pos, n, over, visited, expected,           \* of lists
  buffer,                                                \* of bits and text
  call                                                   \* of bits and lists

Bits == INSTANCE BitBuffers WITH Buffers <- Arrays
Text == INSTANCE BufferText WITH Buffers <- Numbers
Lists == INSTANCE LinkedList

\* What the constants are.
ASSUME HelpersAssumption ==
  Bits!BufferAssumption /\ Text!TextAssumption /\ Lists!ListAssumption
=============================================================================
