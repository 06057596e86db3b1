---------------------------- MODULE HelpersProofs ----------------------------
(***************************************************************************)
(* What is so of the helpers, each by itself: the lists (LinkedList) and   *)
(* the arrays of bits (BitBuffers), each with its inductive invariant and  *)
(* the steps that show it to keep its promise (ListContract, BitArray).    *)
(* PartsProofs puts them together.                                         *)
(*                                                                         *)
(* The arrays of bits keep nothing between calls: what is to be shown of   *)
(* them is what each loop, mask and shift computes, for bytes of any width *)
(* and buffers of any length.  Numbers are the same if their bits are      *)
(* (SameBits), a number is a low and a high part (JoinedWords), and a sum  *)
(* of words, each moved up behind those before it, has their bits          *)
(* (WordsAdd); every loop that adds up is one of these sums, and every     *)
(* loop that writes puts one bit after the other (PutsAre).                *)
(***************************************************************************)
EXTENDS Helpers, FiniteSetTheorems, FunctionTheorems, SequenceTheorems, WellFoundedInduction,
        TLAPS

-----------------------------------------------------------------------------
(* Numbers: the least of some, induction, and division                       *)

\* A set of numbers that is not empty has a least one.
LEMMA LeastNat ==
  ASSUME NEW T \in SUBSET Nat, T # {}
  PROVE  \E least \in T : \A u \in T : least <= u
  <1>1. IsWellFoundedOn(OpToRel(<, Nat), Nat)
    BY NatLessThanWellFounded
  <1>2. PICK least \in T : \A u \in T : ~(<<u, least>> \in OpToRel(<, Nat))
    <2>  HIDE DEF OpToRel
    <2>  QED
      BY <1>1, WFMin, Zenon
  <1>3. \A u \in T : ~(u < least)
    BY <1>2 DEF OpToRel
  <1>4. \A u \in T : u \in Nat /\ least \in Nat
    BY <1>2
  <1>5. \A u \in T : least <= u
    BY <1>3, <1>4
  <1>  QED
    BY <1>2, <1>5

\* Numbers that include zero, and with each the next, are all there are.
LEMMA SetInduction ==
  ASSUME NEW S \in SUBSET Nat, 0 \in S, \A m \in Nat : m \in S => m + 1 \in S
  PROVE  S = Nat
  <1> DEFINE T == Nat \ S
  <1>1. ASSUME T # {}  PROVE FALSE
    <2>1. PICK least \in T : \A m \in T : least <= m
      BY <1>1, LeastNat
    <2>2. least # 0 /\ least - 1 \in Nat
      BY <2>1
    <2>3. least - 1 \in S
      BY <2>1, <2>2
    <2>  QED
      BY <2>1, <2>2, <2>3
  <1>  QED
    BY <1>1

\* A quotient and a remainder are what makes up the number, and nothing else does.
LEMMA DivisionIs ==
  ASSUME NEW d \in Nat \ {0}, NEW q \in Int, NEW r \in 0 .. d - 1
  PROVE  (d * q + r) \div d = q /\ (d * q + r) % d = r
  <1> DEFINE a == d * q + r
             p == a \div d
             s == a % d
  <1>1. d * q \in Int /\ a \in Int
    OBVIOUS
  <1>2. p \in Int /\ s \in 0 .. d - 1 /\ a = d * p + s
    BY <1>1
  <1> HIDE DEF p, s
  <1>3. ~(p < q)
    <2>1. ASSUME p < q  PROVE FALSE
      <3>1. d * (q - p) >= d
        BY <1>2, <2>1
      <3>2. d * (q - p) = d * q - d * p
        BY <1>2
      <3>  QED
        BY <1>1, <1>2, <3>1, <3>2
    <2>  QED
      BY <2>1
  <1>4. ~(q < p)
    <2>1. ASSUME q < p  PROVE FALSE
      <3>1. d * (p - q) >= d
        BY <1>2, <2>1
      <3>2. d * (p - q) = d * p - d * q
        BY <1>2
      <3>  QED
        BY <1>1, <1>2, <3>1, <3>2
    <2>  QED
      BY <2>1
  <1>5. p = q
    BY <1>2, <1>3, <1>4
  <1>6. s = r
    BY <1>1, <1>2, <1>5
  <1>  QED
    BY <1>5, <1>6 DEF p, s

LEMMA DivisionOf ==
  ASSUME NEW d \in Nat \ {0}, NEW a \in Nat
  PROVE  a \div d \in Nat /\ a % d \in 0 .. d - 1 /\ a = d * (a \div d) + (a % d)
  <1> DEFINE p == a \div d
             s == a % d
  <1>1. p \in Int /\ s \in 0 .. d - 1 /\ a = d * p + s
    OBVIOUS
  <1>6. a = d * (a \div d) + (a % d)
    OBVIOUS
  <1> HIDE DEF p, s
  <1>2. p >= 0
    <2>1. ASSUME p < 0  PROVE FALSE
      <3>1. d * (0 - p) >= d
        BY <1>1, <2>1
      <3>2. d * (0 - p) = 0 - d * p
        BY <1>1
      <3>  QED
        BY <1>1, <3>1, <3>2
    <2>  QED
      BY <1>1, <2>1
  <1>3. p \in Nat /\ s \in 0 .. d - 1
    BY <1>1, <1>2
  <1>4. a \div d \in Nat
    BY <1>3 DEF p
  <1>5. a % d \in 0 .. d - 1
    BY <1>3 DEF s
  <1>  QED
    BY <1>4, <1>5, <1>6, Zenon

-----------------------------------------------------------------------------
(* The lists: what the pointers are                                          *)

\* The cells of each list: its head at 0 and again behind its last entry.
Cells == Lists!Cells
Pointers == [Cells -> Cells \cup {NULL, Dead}]

Shape(len, cell) ==
  /\ len \in [Heads -> Nat] /\ cell \in [Heads -> [Nat -> Cells]]
  /\ \A h \in Heads : /\ cell[h][0] = h /\ cell[h][len[h] + 1] = h
                      /\ \A k \in 1 .. len[h] : cell[h][k] \in Entries
Distinct(len, cell) ==
  \A h, g \in Heads : \A j \in 0 .. len[h], k \in 0 .. len[g] :
    cell[h][j] = cell[g][k] => h = g /\ j = k
Linked(len, cell, a, b) ==
  \A h \in Heads : \A j \in 0 .. len[h] : /\ a[cell[h][j]] = cell[h][j + 1]
                                          /\ b[cell[h][j + 1]] = cell[h][j]
ListsAre(len, cell, a, b) ==
  /\ Shape(len, cell) /\ Distinct(len, cell) /\ Linked(len, cell, a, b)
  /\ a \in Pointers /\ b \in Pointers

InNone(len, cell, e) == e \in Entries /\ \A h \in Heads : \A j \in 1 .. len[h] : cell[h][j] # e

LEMMA ListConstants == Lists!ListAssumption
  BY HelpersAssumption

LEMMA SameFinite == ASSUME NEW S PROVE Lists!IsFiniteSet(S) <=> IsFiniteSet(S)
  BY DEF IsFiniteSet, Lists!IsFiniteSet

LEMMA HeadsAndEntries ==
  /\ Heads \cap Entries = {} /\ Cells = Heads \cup Entries
  /\ NULL \notin Cells /\ Dead \notin Cells /\ NULL # Dead /\ IsFiniteSet(Cells)
  BY ListConstants, SameFinite DEF Lists!ListAssumption, Cells, Lists!Cells

\* The cells behind those of two lists differ as well.
LEMMA DistinctBehind ==
  ASSUME NEW len, NEW cell, Shape(len, cell), Distinct(len, cell),
         NEW h \in Heads, NEW g \in Heads, NEW j \in 1 .. len[h] + 1, NEW k \in 1 .. len[g] + 1,
         cell[h][j] = cell[g][k]
  PROVE  h = g /\ j = k
  <1>0. len[h] \in Nat /\ len[g] \in Nat
    BY DEF Shape
  <1>1. cell[h][0] = h /\ cell[h][len[h] + 1] = h /\ cell[g][0] = g /\ cell[g][len[g] + 1] = g
    BY DEF Shape
  <1>2. CASE j = len[h] + 1 /\ k = len[g] + 1
    <2>1. h = g
      BY <1>1, <1>2
    <2>  QED
      BY <1>2, <2>1
  <1>3. CASE j = len[h] + 1 /\ k # len[g] + 1
    <2>1. cell[h][0] = cell[g][k] /\ k \in 0 .. len[g] /\ 0 \in 0 .. len[h] /\ 0 # k
      BY <1>0, <1>1, <1>3
    <2>  QED
      BY <2>1 DEF Distinct
  <1>4. CASE j # len[h] + 1 /\ k = len[g] + 1
    <2>1. cell[g][0] = cell[h][j] /\ j \in 0 .. len[h] /\ 0 \in 0 .. len[g] /\ 0 # j
      BY <1>0, <1>1, <1>4
    <2>  QED
      BY <2>1 DEF Distinct
  <1>5. CASE j # len[h] + 1 /\ k # len[g] + 1
    <2>1. j \in 0 .. len[h] /\ k \in 0 .. len[g]
      BY <1>0, <1>5
    <2>  QED
      BY <2>1 DEF Distinct
  <1>  QED
    BY <1>2, <1>3, <1>4, <1>5

\* What is in no list is no cell of one.
LEMMA InNoneAnywhere ==
  ASSUME NEW len, NEW cell, Shape(len, cell), NEW e, InNone(len, cell, e),
         NEW h \in Heads, NEW j \in 0 .. len[h] + 1
  PROVE  cell[h][j] # e
  <1>0. len[h] \in Nat /\ cell[h][0] = h /\ cell[h][len[h] + 1] = h /\ e \in Entries /\ h # e
    BY HeadsAndEntries DEF Shape, InNone
  <1>1. j = 0 \/ j = len[h] + 1 \/ j \in 1 .. len[h]
    BY <1>0
  <1>  QED
    BY <1>0, <1>1 DEF InNone

\* Pointers of what is in no list do not matter.
LEMMA ElsewhereKeeps ==
  ASSUME NEW len, NEW cell, NEW a, NEW b, ListsAre(len, cell, a, b),
         NEW e, InNone(len, cell, e), NEW a2 \in Pointers, NEW b2 \in Pointers,
         \A c \in Cells \ {e} : a2[c] = a[c] /\ b2[c] = b[c]
  PROVE  ListsAre(len, cell, a2, b2)
  <1>1. ASSUME NEW h \in Heads, NEW j \in 0 .. len[h]
        PROVE  a2[cell[h][j]] = cell[h][j + 1] /\ b2[cell[h][j + 1]] = cell[h][j]
    <2>1. len[h] \in Nat /\ j \in 0 .. len[h] + 1 /\ j + 1 \in 0 .. len[h] + 1
      BY DEF ListsAre, Shape
    <2>2. cell[h][j] # e /\ cell[h][j + 1] # e
      BY <2>1, InNoneAnywhere DEF ListsAre
    <2>3. cell[h][j] \in Cells /\ cell[h][j + 1] \in Cells
      BY <2>1 DEF ListsAre, Shape
    <2>4. a[cell[h][j]] = cell[h][j + 1] /\ b[cell[h][j + 1]] = cell[h][j]
      BY DEF ListsAre, Linked
    <2>  QED
      BY <2>2, <2>3, <2>4
  <1>  QED
    BY <1>1 DEF ListsAre, Linked

-----------------------------------------------------------------------------
(* The lists: an entry goes in                                               *)

Longer(len, g) == [len EXCEPT ![g] = @ + 1]
WithIn(cell, g, k, e) ==
  [cell EXCEPT ![g] = [j \in Nat |-> IF j <= k THEN cell[g][j]
                                     ELSE IF j = k + 1 THEN e ELSE cell[g][j - 1]]]

LEMMA InsertKeeps ==
  ASSUME NEW len, NEW cell, NEW a, NEW b, ListsAre(len, cell, a, b),
         NEW g \in Heads, NEW k \in 0 .. len[g], NEW e, InNone(len, cell, e),
         NEW a2 \in Pointers, NEW b2 \in Pointers,
         \A c \in Cells : a2[c] = IF c = cell[g][k] THEN e
                                  ELSE IF c = e THEN cell[g][k + 1] ELSE a[c],
         \A c \in Cells : b2[c] = IF c = e THEN cell[g][k]
                                  ELSE IF c = cell[g][k + 1] THEN e ELSE b[c]
  PROVE  ListsAre(Longer(len, g), WithIn(cell, g, k, e), a2, b2)
  <1> DEFINE len2 == Longer(len, g)
             cell2 == WithIn(cell, g, k, e)
             row == [j \in Nat |-> IF j <= k THEN cell[g][j]
                                   ELSE IF j = k + 1 THEN e ELSE cell[g][j - 1]]
  <1>0. /\ len \in [Heads -> Nat] /\ cell \in [Heads -> [Nat -> Cells]] /\ len[g] \in Nat
        /\ k \in Nat /\ k <= len[g] /\ e \in Entries /\ e \in Cells
        /\ Shape(len, cell) /\ Distinct(len, cell) /\ Linked(len, cell, a, b)
    BY HeadsAndEntries DEF ListsAre, Shape, InNone
  <1>1. row \in [Nat -> Cells]
    BY <1>0
  <1>2. /\ len2 \in [Heads -> Nat] /\ len2[g] = len[g] + 1
        /\ \A h \in Heads : h # g => len2[h] = len[h]
    BY <1>0 DEF Longer
  <1>3. /\ cell2 \in [Heads -> [Nat -> Cells]] /\ cell2[g] = row
        /\ \A h \in Heads : h # g => cell2[h] = cell[h]
    BY <1>0, <1>1 DEF WithIn
  <1>4. /\ \A j \in 0 .. k : row[j] = cell[g][j]
        /\ row[k + 1] = e
        /\ \A j \in k + 2 .. len[g] + 2 : row[j] = cell[g][j - 1]
    BY <1>0
  <1>  HIDE DEF len2, cell2, row
  <1>5. Shape(len2, cell2)
    <2>1. ASSUME NEW h \in Heads
          PROVE  /\ cell2[h][0] = h /\ cell2[h][len2[h] + 1] = h
                 /\ \A j \in 1 .. len2[h] : cell2[h][j] \in Entries
      <3>0. /\ cell[h][0] = h /\ cell[h][len[h] + 1] = h
            /\ \A j \in 1 .. len[h] : cell[h][j] \in Entries
        BY <1>0 DEF Shape
      <3>1. CASE h # g
        BY <1>2, <1>3, <3>0, <3>1
      <3>2. CASE h = g
        <4>1. row[0] = g /\ row[len[g] + 2] = g
          BY <1>0, <1>4, <3>0, <3>2
        <4>2. ASSUME NEW j \in 1 .. len[g] + 1  PROVE row[j] \in Entries
          <5>1. j \in 1 .. k \/ j = k + 1 \/ (j \in k + 2 .. len[g] + 2 /\ j - 1 \in 1 .. len[g])
            BY <1>0
          <5>2. j \in 1 .. k => j \in 0 .. k /\ j \in 1 .. len[g]
            BY <1>0
          <5>  QED
            BY <1>0, <1>4, <3>0, <3>2, <5>1, <5>2
        <4>  QED
          BY <1>0, <1>2, <1>3, <3>2, <4>1, <4>2
      <3>  QED
        BY <3>1, <3>2
    <2>  QED
      BY <1>2, <1>3, <2>1 DEF Shape
  <1>6. Distinct(len2, cell2)
    <2>1. \A h \in Heads : \A j \in 0 .. len[h] : cell[h][j] # e
      <3>1. \A h \in Heads : \A j \in 0 .. len[h] : j \in 0 .. len[h] + 1
        BY <1>0
      <3>  QED
        BY <1>0, <3>1, InNoneAnywhere
    <2>2. ASSUME NEW j \in 0 .. len2[g]
          PROVE  \/ j \in 0 .. k /\ j \in 0 .. len[g] /\ row[j] = cell[g][j]
                 \/ j = k + 1 /\ row[j] = e
                 \/ j \in k + 2 .. len[g] + 2 /\ j - 1 \in 0 .. len[g] /\ row[j] = cell[g][j - 1]
      BY <1>0, <1>2, <1>4
    <2>3. ASSUME NEW h \in Heads, NEW j \in 0 .. len2[g], NEW m \in 0 .. len2[h], h # g
          PROVE  row[j] # cell[h][m]
      <3>1. m \in 0 .. len[h]
        BY <1>2, <2>3
      <3>  QED
        BY <1>0, <2>1, <2>2, <2>3, <3>1 DEF Distinct
    <2>4. ASSUME NEW j \in 0 .. len2[g], NEW m \in 0 .. len2[g], row[j] = row[m]
          PROVE  j = m
      <3>1. j \in Int /\ m \in Int
        BY <1>0, <1>2
      <3>  QED
        BY <1>0, <2>1, <2>2, <2>4, <3>1 DEF Distinct
    <2>  QED
      BY <1>0, <1>2, <1>3, <2>3, <2>4 DEF Distinct
  <1>7. Linked(len2, cell2, a2, b2)
    <2>1. ASSUME NEW h \in Heads, NEW j \in 0 .. len[h], ~(h = g /\ j = k)
          PROVE  a2[cell[h][j]] = cell[h][j + 1] /\ b2[cell[h][j + 1]] = cell[h][j]
      <3>1. len[h] \in Nat /\ j \in 0 .. len[h] + 1 /\ j + 1 \in 0 .. len[h] + 1
            /\ j + 1 \in 1 .. len[h] + 1 /\ k + 1 \in 1 .. len[g] + 1
        BY <1>0
      <3>2. cell[h][j] # e /\ cell[h][j + 1] # e
        BY <1>0, <3>1, InNoneAnywhere
      <3>3. cell[h][j] # cell[g][k]
        BY <1>0, <2>1 DEF Distinct
      <3>4. cell[h][j + 1] # cell[g][k + 1]
        <4>1. j + 1 = k + 1 => j = k
          BY <1>0
        <4>  QED
          BY <1>0, <2>1, <3>1, <4>1, DistinctBehind
      <3>5. cell[h][j] \in Cells /\ cell[h][j + 1] \in Cells
        BY <1>0, <3>1
      <3>6. a[cell[h][j]] = cell[h][j + 1] /\ b[cell[h][j + 1]] = cell[h][j]
        BY <1>0 DEF Linked
      <3>  QED
        BY <3>2, <3>3, <3>4, <3>5, <3>6
    <2>2. /\ a2[cell[g][k]] = e /\ b2[e] = cell[g][k] /\ a2[e] = cell[g][k + 1]
          /\ b2[cell[g][k + 1]] = e
      <3>1. k \in 0 .. len[g] + 1 /\ k + 1 \in 0 .. len[g] + 1
        BY <1>0
      <3>2. cell[g][k] # e /\ cell[g][k + 1] # e
        BY <1>0, <3>1, InNoneAnywhere
      <3>3. cell[g][k] \in Cells /\ cell[g][k + 1] \in Cells
        BY <1>0, <3>1
      <3>  QED
        BY <1>0, <3>2, <3>3
    <2>3. ASSUME NEW h \in Heads, NEW j \in 0 .. len2[h]
          PROVE  /\ a2[cell2[h][j]] = cell2[h][j + 1]
                 /\ b2[cell2[h][j + 1]] = cell2[h][j]
      <3>1. CASE h # g
        BY <1>2, <1>3, <2>1, <3>1
      <3>2. CASE h = g /\ j \in 0 .. k - 1
        <4>1. j \in 0 .. k /\ j + 1 \in 0 .. k /\ j \in 0 .. len[g] /\ j # k
          BY <1>0, <3>2
        <4>2. row[j] = cell[g][j] /\ row[j + 1] = cell[g][j + 1]
          BY <1>4, <4>1
        <4>  QED
          BY <1>3, <2>1, <3>2, <4>1, <4>2
      <3>3. CASE h = g /\ j = k
        <4>1. row[j] = cell[g][k] /\ row[j + 1] = e
          BY <1>0, <1>4, <3>3
        <4>  QED
          BY <1>3, <2>2, <3>3, <4>1
      <3>4. CASE h = g /\ j = k + 1
        <4>1. j + 1 \in k + 2 .. len[g] + 2 /\ (j + 1) - 1 = k + 1
          BY <1>0, <3>4
        <4>2. row[j] = e /\ row[j + 1] = cell[g][k + 1]
          BY <1>4, <3>4, <4>1
        <4>  QED
          BY <1>3, <2>2, <3>4, <4>2
      <3>5. CASE h = g /\ j \in k + 2 .. len[g] + 1
        <4>1. /\ j \in k + 2 .. len[g] + 2 /\ j + 1 \in k + 2 .. len[g] + 2
              /\ (j + 1) - 1 = (j - 1) + 1 /\ j - 1 \in 0 .. len[g] /\ j - 1 # k
          BY <1>0, <3>5
        <4>2. row[j] = cell[g][j - 1] /\ row[j + 1] = cell[g][(j - 1) + 1]
          BY <1>4, <4>1
        <4>3. /\ a2[cell[g][j - 1]] = cell[g][(j - 1) + 1]
              /\ b2[cell[g][(j - 1) + 1]] = cell[g][j - 1]
          BY <2>1, <4>1
        <4>  QED
          BY <1>3, <3>5, <4>2, <4>3, Zenon
      <3>6. h = g => j \in 0 .. k - 1 \/ j = k \/ j = k + 1 \/ j \in k + 2 .. len[g] + 1
        <4>1. len[g] \in Nat /\ k \in Nat /\ k <= len[g]
          BY <1>0
        <4>2. h = g => j \in 0 .. len[g] + 1
          BY <1>2
        <4>  QED
          BY ONLY <4>1, <4>2
      <3>  QED
        BY <3>1, <3>2, <3>3, <3>4, <3>5, <3>6
    <2>  QED
      BY <2>3 DEF Linked
  <1>  QED
    BY <1>5, <1>6, <1>7 DEF ListsAre, len2, cell2

-----------------------------------------------------------------------------
(* The lists: an entry comes out                                             *)

Shorter(len, g) == [len EXCEPT ![g] = @ - 1]
LeftOut(cell, g, k) ==
  [cell EXCEPT ![g] = [j \in Nat |-> IF j < k THEN cell[g][j] ELSE cell[g][j + 1]]]

LEMMA UnlinkKeeps ==
  ASSUME NEW len, NEW cell, NEW a, NEW b, ListsAre(len, cell, a, b),
         NEW g \in Heads, NEW k \in 1 .. len[g],
         NEW a2 \in Pointers, NEW b2 \in Pointers,
         \A c \in Cells : a2[c] = IF c = cell[g][k - 1] THEN cell[g][k + 1] ELSE a[c],
         \A c \in Cells : b2[c] = IF c = cell[g][k + 1] THEN cell[g][k - 1] ELSE b[c]
  PROVE  /\ ListsAre(Shorter(len, g), LeftOut(cell, g, k), a2, b2)
         /\ InNone(Shorter(len, g), LeftOut(cell, g, k), cell[g][k])
  <1> DEFINE len2 == Shorter(len, g)
             cell2 == LeftOut(cell, g, k)
             row == [j \in Nat |-> IF j < k THEN cell[g][j] ELSE cell[g][j + 1]]
  <1>0. /\ len \in [Heads -> Nat] /\ cell \in [Heads -> [Nat -> Cells]] /\ len[g] \in Nat
        /\ k \in Nat /\ k <= len[g] /\ 1 <= k
        /\ Shape(len, cell) /\ Distinct(len, cell) /\ Linked(len, cell, a, b)
    BY DEF ListsAre, Shape
  <1>1. row \in [Nat -> Cells]
    BY <1>0
  <1>2. /\ len2 \in [Heads -> Nat] /\ len2[g] = len[g] - 1
        /\ \A h \in Heads : h # g => len2[h] = len[h]
    BY <1>0 DEF Shorter
  <1>3. /\ cell2 \in [Heads -> [Nat -> Cells]] /\ cell2[g] = row
        /\ \A h \in Heads : h # g => cell2[h] = cell[h]
    BY <1>0, <1>1 DEF LeftOut
  <1>4. /\ \A j \in 0 .. k - 1 : row[j] = cell[g][j]
        /\ \A j \in k .. len[g] : row[j] = cell[g][j + 1]
    BY <1>0
  <1>  HIDE DEF len2, cell2, row
  <1>5. Shape(len2, cell2)
    <2>1. ASSUME NEW h \in Heads
          PROVE  /\ cell2[h][0] = h /\ cell2[h][len2[h] + 1] = h
                 /\ \A j \in 1 .. len2[h] : cell2[h][j] \in Entries
      <3>0. /\ cell[h][0] = h /\ cell[h][len[h] + 1] = h
            /\ \A j \in 1 .. len[h] : cell[h][j] \in Entries
        BY <1>0 DEF Shape
      <3>1. CASE h # g
        BY <1>2, <1>3, <3>0, <3>1
      <3>2. CASE h = g
        <4>1. row[0] = g /\ row[len[g]] = g
          BY <1>0, <1>4, <3>0, <3>2
        <4>2. ASSUME NEW j \in 1 .. len[g] - 1  PROVE row[j] \in Entries
          <5>1. (j \in 0 .. k - 1 /\ j \in 1 .. len[g]) \/ (j \in k .. len[g] /\ j + 1 \in 1 .. len[g])
            BY <1>0
          <5>  QED
            BY <1>4, <3>0, <3>2, <5>1
        <4>3. (len[g] - 1) + 1 = len[g]
          BY <1>0
        <4>  QED
          BY <1>2, <1>3, <3>2, <4>1, <4>2, <4>3
      <3>  QED
        BY <3>1, <3>2
    <2>  QED
      BY <1>2, <1>3, <2>1 DEF Shape
  <1>6. ASSUME NEW j \in 0 .. len2[g]
        PROVE  \/ j \in 0 .. k - 1 /\ j \in 0 .. len[g] /\ row[j] = cell[g][j]
               \/ j \in k .. len[g] /\ j + 1 \in 0 .. len[g] /\ row[j] = cell[g][j + 1]
    BY <1>0, <1>2, <1>4
  <1>7. Distinct(len2, cell2)
    <2>1. ASSUME NEW h \in Heads, NEW j \in 0 .. len2[g], NEW m \in 0 .. len2[h], h # g
          PROVE  row[j] # cell[h][m]
      <3>1. m \in 0 .. len[h]
        BY <1>2, <2>1
      <3>  QED
        BY <1>0, <1>6, <2>1, <3>1 DEF Distinct
    <2>2. ASSUME NEW j \in 0 .. len2[g], NEW m \in 0 .. len2[g], row[j] = row[m]
          PROVE  j = m
      <3>1. j \in Int /\ m \in Int
        BY <1>0, <1>2
      <3>  QED
        BY <1>0, <1>6, <2>2, <3>1 DEF Distinct
    <2>  QED
      BY <1>0, <1>2, <1>3, <2>1, <2>2 DEF Distinct
  <1>8. Linked(len2, cell2, a2, b2)
    <2>1. ASSUME NEW h \in Heads, NEW j \in 0 .. len[h], ~(h = g /\ j \in {k - 1, k})
          PROVE  a2[cell[h][j]] = cell[h][j + 1] /\ b2[cell[h][j + 1]] = cell[h][j]
      <3>1. len[h] \in Nat /\ j + 1 \in 1 .. len[h] + 1 /\ k + 1 \in 1 .. len[g] + 1
            /\ k - 1 \in 0 .. len[g]
        BY <1>0
      <3>3. cell[h][j] # cell[g][k - 1]
        BY <1>0, <2>1, <3>1 DEF Distinct
      <3>4. cell[h][j + 1] # cell[g][k + 1]
        <4>1. j + 1 = k + 1 => j = k
          BY <1>0
        <4>  QED
          BY <1>0, <2>1, <3>1, <4>1, DistinctBehind
      <3>5. cell[h][j] \in Cells /\ cell[h][j + 1] \in Cells
        BY <1>0, <3>1
      <3>6. a[cell[h][j]] = cell[h][j + 1] /\ b[cell[h][j + 1]] = cell[h][j]
        BY <1>0 DEF Linked
      <3>  QED
        BY <3>3, <3>4, <3>5, <3>6
    <2>2. a2[cell[g][k - 1]] = cell[g][k + 1] /\ b2[cell[g][k + 1]] = cell[g][k - 1]
      BY <1>0
    <2>3. ASSUME NEW h \in Heads, NEW j \in 0 .. len2[h]
          PROVE  /\ a2[cell2[h][j]] = cell2[h][j + 1]
                 /\ b2[cell2[h][j + 1]] = cell2[h][j]
      <3>1. CASE h # g
        BY <1>2, <1>3, <2>1, <3>1
      <3>2. CASE h = g /\ j \in 0 .. k - 2
        <4>1. j \in 0 .. k - 1 /\ j + 1 \in 0 .. k - 1 /\ j \in 0 .. len[g] /\ j \notin {k - 1, k}
          BY <1>0, <3>2
        <4>2. row[j] = cell[g][j] /\ row[j + 1] = cell[g][j + 1]
          BY <1>4, <4>1
        <4>  QED
          BY <1>3, <2>1, <3>2, <4>1, <4>2
      <3>3. CASE h = g /\ j = k - 1
        <4>1. row[j] = cell[g][k - 1] /\ row[j + 1] = cell[g][k + 1]
          BY <1>0, <1>4, <3>3
        <4>  QED
          BY <1>3, <2>2, <3>3, <4>1
      <3>4. CASE h = g /\ j \in k .. len[g] - 1
        <4>1. /\ j \in k .. len[g] /\ j + 1 \in k .. len[g]
              /\ j + 1 \in 0 .. len[g] /\ j + 1 \notin {k - 1, k}
          BY <1>0, <3>4
        <4>2. row[j] = cell[g][j + 1] /\ row[j + 1] = cell[g][(j + 1) + 1]
          BY <1>4, <4>1
        <4>3. /\ a2[cell[g][j + 1]] = cell[g][(j + 1) + 1]
              /\ b2[cell[g][(j + 1) + 1]] = cell[g][j + 1]
          BY <2>1, <4>1
        <4>  QED
          BY <1>3, <3>4, <4>2, <4>3, Zenon
      <3>5. h = g => j \in 0 .. k - 2 \/ j = k - 1 \/ j \in k .. len[g] - 1
        <4>1. len[g] \in Nat /\ k \in Nat /\ k <= len[g] /\ 1 <= k
          BY <1>0
        <4>2. h = g => j \in 0 .. len[g] - 1
          BY <1>2
        <4>  QED
          BY ONLY <4>1, <4>2
      <3>  QED
        BY <3>1, <3>2, <3>3, <3>4, <3>5
    <2>  QED
      BY <2>3 DEF Linked
  <1>9. InNone(len2, cell2, cell[g][k])
    <2>1. cell[g][k] \in Entries /\ k \in 0 .. len[g]
      BY <1>0 DEF Shape
    <2>2. ASSUME NEW h \in Heads, NEW j \in 1 .. len2[h]  PROVE cell2[h][j] # cell[g][k]
      <3>1. CASE h # g
        <4>1. j \in 0 .. len[h]
          BY <1>2, <3>1
        <4>  QED
          BY <1>0, <1>3, <2>1, <3>1, <4>1 DEF Distinct
      <3>2. CASE h = g
        <4>2. j \in 0 .. len2[g] /\ j \in Int
          BY <1>2, <3>2
        <4>3. row[j] # cell[g][k]
          BY <1>0, <1>6, <2>1, <4>2 DEF Distinct
        <4>  QED
          BY <1>3, <3>2, <4>3
      <3>  QED
        BY <3>1, <3>2
    <2>  QED
      BY <2>1, <2>2 DEF InNone
  <1>  QED
    BY <1>5, <1>7, <1>8, <1>9 DEF ListsAre, len2, cell2

-----------------------------------------------------------------------------
(* The lists: a list goes into another                                       *)

JoinedLen(len, l, g) ==
  [h \in Heads |-> IF h = g THEN len[g] + len[l] ELSE IF h = l THEN 0 ELSE len[h]]
Joined(len, cell, l, g, k) ==
  [h \in Heads |->
     IF h = g THEN [j \in Nat |-> IF j <= k THEN cell[g][j]
                                  ELSE IF j <= k + len[l] THEN cell[l][j - k]
                                  ELSE cell[g][j - len[l]]]
     ELSE IF h = l THEN [j \in Nat |-> l] ELSE cell[h]]

LEMMA SpliceKeeps ==
  ASSUME NEW len, NEW cell, NEW a, NEW b, ListsAre(len, cell, a, b),
         NEW g \in Heads, NEW k \in 0 .. len[g], NEW l \in Heads, l # g, len[l] > 0,
         NEW a2 \in Pointers, NEW b2 \in Pointers,
         \A c \in Cells : a2[c] = IF c = l THEN l ELSE IF c = cell[l][len[l]] THEN cell[g][k + 1]
                                  ELSE IF c = cell[g][k] THEN cell[l][1] ELSE a[c],
         \A c \in Cells : b2[c] = IF c = l THEN l ELSE IF c = cell[g][k + 1] THEN cell[l][len[l]]
                                  ELSE IF c = cell[l][1] THEN cell[g][k] ELSE b[c]
  PROVE  ListsAre(JoinedLen(len, l, g), Joined(len, cell, l, g, k), a2, b2)
  <1> DEFINE len2 == JoinedLen(len, l, g)
             cell2 == Joined(len, cell, l, g, k)
             row == [j \in Nat |-> IF j <= k THEN cell[g][j]
                                   ELSE IF j <= k + len[l] THEN cell[l][j - k]
                                   ELSE cell[g][j - len[l]]]
             more == len[l]
  <1>0. /\ len \in [Heads -> Nat] /\ cell \in [Heads -> [Nat -> Cells]] /\ len[g] \in Nat
        /\ k \in Nat /\ k <= len[g] /\ more \in Nat /\ 1 <= more
        /\ Shape(len, cell) /\ Distinct(len, cell) /\ Linked(len, cell, a, b) /\ l \in Cells
    BY HeadsAndEntries DEF ListsAre, Shape
  <1>1. row \in [Nat -> Cells]
    <2>1. \A j \in Nat : (~(j <= k) /\ j <= k + more => j - k \in Nat)
                         /\ (~(j <= k + more) => j - more \in Nat)
      BY <1>0
    <2>  QED
      BY <1>0, <2>1
  <1>2. /\ len2 \in [Heads -> Nat] /\ len2[g] = len[g] + more /\ len2[l] = 0
        /\ \A h \in Heads : h # g /\ h # l => len2[h] = len[h]
    BY <1>0 DEF JoinedLen
  <1>3. /\ cell2 \in [Heads -> [Nat -> Cells]] /\ cell2[g] = row
        /\ \A j \in Nat : cell2[l][j] = l
        /\ \A h \in Heads : h # g /\ h # l => cell2[h] = cell[h]
    <2>1. [j \in Nat |-> l] \in [Nat -> Cells]
      BY <1>0
    <2>  QED
      BY <1>0, <1>1, <2>1 DEF Joined
  <1>4. /\ \A j \in 0 .. k : row[j] = cell[g][j]
        /\ \A j \in k + 1 .. k + more : row[j] = cell[l][j - k]
        /\ \A j \in k + more + 1 .. len[g] + more + 1 : row[j] = cell[g][j - more]
    BY <1>0
  <1>5. /\ cell[l][0] = l /\ cell[l][more + 1] = l /\ cell[g][0] = g /\ cell[g][len[g] + 1] = g
    BY <1>0 DEF Shape
  <1>  HIDE DEF len2, cell2, row, more
  <1>6. Shape(len2, cell2)
    <2>1. ASSUME NEW h \in Heads
          PROVE  /\ cell2[h][0] = h /\ cell2[h][len2[h] + 1] = h
                 /\ \A j \in 1 .. len2[h] : cell2[h][j] \in Entries
      <3>0. \A j \in 1 .. len[h] : cell[h][j] \in Entries
        BY <1>0 DEF Shape
      <3>1. CASE h # g /\ h # l
        BY <1>0, <1>2, <1>3, <3>1 DEF Shape
      <3>2. CASE h = l
        BY <1>2, <1>3, <3>2
      <3>3. CASE h = g
        <4>1. row[0] = g /\ row[len[g] + more + 1] = g
          <5>1. (len[g] + more + 1) - more = len[g] + 1
            BY <1>0
          <5>2. 0 \in 0 .. k /\ len[g] + more + 1 \in k + more + 1 .. len[g] + more + 1
            BY <1>0
          <5>  QED
            BY <1>4, <1>5, <5>1, <5>2
        <4>2. ASSUME NEW j \in 1 .. len[g] + more  PROVE row[j] \in Entries
          <5>1. \A m \in 1 .. more : cell[l][m] \in Entries
            BY <1>0 DEF Shape, more
          <5>2. \/ j \in 0 .. k /\ j \in 1 .. len[g]
                \/ j \in k + 1 .. k + more /\ j - k \in 1 .. more
                \/ j \in k + more + 1 .. len[g] + more + 1 /\ j - more \in 1 .. len[g]
            BY <1>0
          <5>  QED
            BY <1>4, <3>0, <3>3, <5>1, <5>2
        <4>  QED
          BY <1>2, <1>3, <3>3, <4>1, <4>2
      <3>  QED
        BY <3>1, <3>2, <3>3
    <2>  QED
      BY <1>2, <1>3, <2>1 DEF Shape
  <1>7. ASSUME NEW j \in 0 .. len2[g]
        PROVE  \/ j \in 0 .. k /\ j \in 0 .. len[g] /\ row[j] = cell[g][j]
               \/ j \in k + 1 .. k + more /\ j - k \in 1 .. more /\ row[j] = cell[l][j - k]
               \/ /\ j \in k + more + 1 .. len[g] + more /\ j - more \in 1 .. len[g]
                  /\ row[j] = cell[g][j - more]
    <2>1. j \in 0 .. len[g] + more
      BY <1>2
    <2>2. \/ j \in 0 .. k /\ j \in 0 .. len[g]
          \/ j \in k + 1 .. k + more /\ j - k \in 1 .. more
          \/ /\ j \in k + more + 1 .. len[g] + more /\ j - more \in 1 .. len[g]
             /\ j \in k + more + 1 .. len[g] + more + 1
      BY ONLY <1>0, <2>1
    <2>  QED
      BY <1>4, <2>2
  <1>8. Distinct(len2, cell2)
    <2>0. \A m \in 1 .. more : m \in 0 .. len[l]
      BY <1>0 DEF more
    <2>00. \A m \in 1 .. len[g] : m \in 0 .. len[g]
      BY <1>0
    <2>1. ASSUME NEW h \in Heads, NEW j \in 0 .. len2[g], NEW m \in 0 .. len[h], h # g, h # l
          PROVE  row[j] # cell[h][m]
      <3>1. m \in 0 .. len[h]
        BY <1>2, <2>1
      <3>  QED
        BY <1>0, <1>7, <2>0, <2>00, <2>1, <3>1 DEF Distinct
    <2>2. ASSUME NEW j \in 0 .. len2[g]  PROVE row[j] # l
      <3>1. 0 \in 0 .. len[l]
        BY <1>0 DEF more
      <3>2. \A m \in 0 .. len[g] : cell[g][m] # l
        BY <1>0, <1>5, <3>1 DEF Distinct
      <3>3. \A m \in 1 .. more : cell[l][m] # l
        <4>1. \A m \in 1 .. more : m # 0
          BY <1>0
        <4>  QED
          BY <1>0, <1>5, <2>0, <3>1, <4>1 DEF Distinct
      <3>  QED
        BY <1>7, <2>00, <3>2, <3>3
    <2>3. ASSUME NEW j \in 0 .. len2[g], NEW m \in 0 .. len2[g], row[j] = row[m]
          PROVE  j = m
      <3>1. j \in Int /\ m \in Int
        BY <1>0, <1>2
      <3>2. \A p, q \in 0 .. len[g] : cell[g][p] = cell[g][q] => p = q
        BY <1>0 DEF Distinct
      <3>3. \A p, q \in 1 .. more : cell[l][p] = cell[l][q] => p = q
        BY <1>0, <2>0 DEF Distinct
      <3>4. \A p \in 0 .. len[g], q \in 1 .. more : cell[g][p] # cell[l][q]
        BY <1>0, <2>0 DEF Distinct
      <3>  QED
        BY <1>0, <1>7, <2>00, <2>3, <3>1, <3>2, <3>3, <3>4
    <2>4. ASSUME NEW h \in Heads, NEW f \in Heads, NEW j \in 0 .. len2[h], NEW m \in 0 .. len2[f],
                 cell2[h][j] = cell2[f][m]
          PROVE  h = f /\ j = m
      <3>1. /\ h = l => j = 0 /\ cell2[h][j] = l
            /\ f = l => m = 0 /\ cell2[f][m] = l
        BY <1>2, <1>3
      <3>2. /\ h # g /\ h # l => j \in 0 .. len[h] /\ cell2[h][j] = cell[h][j]
            /\ f # g /\ f # l => m \in 0 .. len[f] /\ cell2[f][m] = cell[f][m]
        BY <1>2, <1>3
      <3>3. /\ h = g => cell2[h][j] = row[j] /\ j \in 0 .. len2[g]
            /\ f = g => cell2[f][m] = row[m] /\ m \in 0 .. len2[g]
        BY <1>3
      <3>4. \A o \in Heads : o # l => \A p \in 0 .. len[o] : cell[o][p] # l
        <4>1. 0 \in 0 .. len[l]
          BY <1>0 DEF more
        <4>  QED
          BY <1>0, <1>5, <4>1 DEF Distinct
      <3>5. CASE h = g /\ f = g
        BY <2>3, <2>4, <3>3, <3>5
      <3>6. CASE (h = g) # (f = g)
        <4>1. h = g /\ f # g => cell2[h][j] # cell2[f][m]
          BY <2>1, <2>2, <3>1, <3>2, <3>3
        <4>2. h # g /\ f = g => cell2[h][j] # cell2[f][m]
          BY <2>1, <2>2, <3>1, <3>2, <3>3
        <4>  QED
          BY <2>4, <3>6, <4>1, <4>2
      <3>7. CASE h # g /\ f # g
        <4>1. CASE h = l \/ f = l
          BY <2>4, <3>1, <3>2, <3>4, <3>7, <4>1
        <4>2. CASE h # l /\ f # l
          BY <1>0, <2>4, <3>2, <3>7, <4>2 DEF Distinct
        <4>  QED
          BY <4>1, <4>2
      <3>  QED
        BY <3>5, <3>6, <3>7
    <2>  QED
      BY <2>4 DEF Distinct
  <1>9. Linked(len2, cell2, a2, b2)
    <2>1. ASSUME NEW h \in Heads, NEW j \in 0 .. len[h], ~(h = g /\ j = k),
                 ~(h = l /\ j \in {0, more})
          PROVE  a2[cell[h][j]] = cell[h][j + 1] /\ b2[cell[h][j + 1]] = cell[h][j]
      <3>1. len[h] \in Nat /\ j + 1 \in 1 .. len[h] + 1 /\ k + 1 \in 1 .. len[g] + 1
            /\ 0 \in 0 .. len[l] /\ more \in 0 .. len[l] /\ 1 \in 1 .. len[l] + 1
            /\ more + 1 \in 1 .. len[l] + 1 /\ more = len[l] /\ j \in Nat
        BY <1>0 DEF more
      <3>2. cell[h][j] # cell[g][k] /\ cell[h][j] # l /\ cell[h][j] # cell[l][more]
        BY <1>0, <1>5, <2>1, <3>1 DEF Distinct
      <3>3. /\ cell[h][j + 1] # cell[g][k + 1] /\ cell[h][j + 1] # l
            /\ cell[h][j + 1] # cell[l][1]
        <4>1. (j + 1 = k + 1 => j = k) /\ (j + 1 = more + 1 => j = more) /\ (j + 1 = 1 => j = 0)
          BY <1>0, <3>1
        <4>2. cell[h][j + 1] # cell[g][k + 1]
          BY <1>0, <2>1, <3>1, <4>1, DistinctBehind
        <4>3. cell[h][j + 1] # cell[l][more + 1]
          BY <1>0, <2>1, <3>1, <4>1, DistinctBehind
        <4>4. cell[h][j + 1] # cell[l][1]
          BY <1>0, <2>1, <3>1, <4>1, DistinctBehind
        <4>  QED
          BY <1>5, <4>2, <4>3, <4>4
      <3>4. cell[h][j] \in Cells /\ cell[h][j + 1] \in Cells
        BY <1>0, <3>1
      <3>5. a[cell[h][j]] = cell[h][j + 1] /\ b[cell[h][j + 1]] = cell[h][j]
        BY <1>0 DEF Linked
      <3>  QED
        BY <3>1, <3>2, <3>3, <3>4, <3>5 DEF more
    <2>2. /\ a2[l] = l /\ b2[l] = l
          /\ a2[cell[g][k]] = cell[l][1] /\ b2[cell[l][1]] = cell[g][k]
          /\ a2[cell[l][more]] = cell[g][k + 1] /\ b2[cell[g][k + 1]] = cell[l][more]
      <3>1. /\ 0 \in 0 .. len[l] /\ more \in 0 .. len[l] /\ 1 \in 1 .. len[l] + 1
            /\ more + 1 \in 1 .. len[l] + 1 /\ more = len[l] /\ k + 1 \in 1 .. len[g] + 1
            /\ k \in 0 .. len[g] /\ more # 0 /\ 1 # more + 1 /\ 1 \in Nat /\ more \in Nat /\ k + 1 \in Nat
        BY <1>0 DEF more
      <3>2. cell[l][more] # l /\ cell[g][k] # l /\ cell[g][k] # cell[l][more]
        BY <1>0, <1>5, <3>1 DEF Distinct
      <3>3. cell[l][1] # l
        BY <1>0, <1>5, <3>1, DistinctBehind
      <3>4. cell[g][k + 1] # l
        BY <1>0, <1>5, <3>1, DistinctBehind
      <3>5. cell[g][k + 1] # cell[l][1]
        BY <1>0, <3>1, DistinctBehind
      <3>6. /\ l \in Cells /\ cell[g][k] \in Cells /\ cell[l][1] \in Cells
            /\ cell[l][more] \in Cells /\ cell[g][k + 1] \in Cells
        BY <1>0, <3>1
      <3>  QED
        BY <3>1, <3>2, <3>3, <3>4, <3>5, <3>6 DEF more
    <2>3. ASSUME NEW h \in Heads, NEW j \in 0 .. len2[h]
          PROVE  /\ a2[cell2[h][j]] = cell2[h][j + 1]
                 /\ b2[cell2[h][j + 1]] = cell2[h][j]
      <3>1. CASE h # g /\ h # l
        BY <1>2, <1>3, <2>1, <3>1
      <3>2. CASE h = l
        BY <1>2, <1>3, <2>2, <3>2
      <3>3. CASE h = g /\ j \in 0 .. k - 1
        <4>1. j \in 0 .. k /\ j + 1 \in 0 .. k /\ j \in 0 .. len[g] /\ j # k
          BY <1>0, <3>3
        <4>2. row[j] = cell[g][j] /\ row[j + 1] = cell[g][j + 1]
          BY <1>4, <4>1
        <4>  QED
          BY <1>3, <2>1, <3>3, <4>1, <4>2
      <3>4. CASE h = g /\ j = k
        <4>1. k \in 0 .. k /\ k + 1 \in k + 1 .. k + more /\ (k + 1) - k = 1
          BY <1>0
        <4>2. row[j] = cell[g][k] /\ row[j + 1] = cell[l][1]
          BY <1>4, <3>4, <4>1
        <4>  QED
          BY <1>3, <2>2, <3>4, <4>2
      <3>5. CASE h = g /\ j \in k + 1 .. k + more - 1
        <4>1. /\ j \in k + 1 .. k + more /\ j + 1 \in k + 1 .. k + more
              /\ (j + 1) - k = (j - k) + 1 /\ j - k \in 0 .. len[l] /\ j - k \notin {0, more}
          BY <1>0, <3>5 DEF more
        <4>2. row[j] = cell[l][j - k] /\ row[j + 1] = cell[l][(j - k) + 1]
          BY <1>4, <4>1
        <4>3. /\ a2[cell[l][j - k]] = cell[l][(j - k) + 1]
              /\ b2[cell[l][(j - k) + 1]] = cell[l][j - k]
          BY <2>1, <4>1
        <4>  QED
          BY <1>3, <3>5, <4>2, <4>3, Zenon
      <3>6. CASE h = g /\ j = k + more
        <4>1. /\ j \in k + 1 .. k + more /\ j - k = more
              /\ j + 1 \in k + more + 1 .. len[g] + more + 1 /\ (j + 1) - more = k + 1
          BY <1>0, <3>6
        <4>2. row[j] = cell[l][more] /\ row[j + 1] = cell[g][k + 1]
          BY <1>4, <4>1
        <4>  QED
          BY <1>3, <2>2, <3>6, <4>2
      <3>7. CASE h = g /\ j \in k + more + 1 .. len[g] + more
        <4>1. /\ j \in k + more + 1 .. len[g] + more + 1 /\ j + 1 \in k + more + 1 .. len[g] + more + 1
              /\ (j + 1) - more = (j - more) + 1 /\ j - more \in 0 .. len[g] /\ j - more # k
          BY <1>0, <3>7
        <4>2. row[j] = cell[g][j - more] /\ row[j + 1] = cell[g][(j - more) + 1]
          BY <1>4, <4>1
        <4>3. /\ a2[cell[g][j - more]] = cell[g][(j - more) + 1]
              /\ b2[cell[g][(j - more) + 1]] = cell[g][j - more]
          BY <2>1, <4>1
        <4>  QED
          BY <1>3, <3>7, <4>2, <4>3, Zenon
      <3>8. h = g => \/ j \in 0 .. k - 1 \/ j = k \/ j \in k + 1 .. k + more - 1
                     \/ j = k + more \/ j \in k + more + 1 .. len[g] + more
        <4>1. len[g] \in Nat /\ k \in Nat /\ k <= len[g] /\ 1 <= more /\ more \in Nat
          BY <1>0
        <4>2. h = g => j \in 0 .. len[g] + more
          BY <1>2
        <4>  QED
          BY ONLY <4>1, <4>2
      <3>  QED
        BY <3>1, <3>2, <3>3, <3>4, <3>5, <3>6, <3>7, <3>8
    <2>  QED
      BY <2>3 DEF Linked
  <1>  QED
    BY <1>6, <1>8, <1>9 DEF ListsAre, len2, cell2

-----------------------------------------------------------------------------
(* The lists: a list is cut in two                                           *)

CutLen(len, l, g, k) ==
  [h \in Heads |-> IF h = g THEN len[g] - k ELSE IF h = l THEN k ELSE len[h]]
CutCells(len, cell, l, g, k) ==
  [h \in Heads |->
     IF h = g THEN [j \in Nat |-> IF j = 0 THEN g ELSE cell[g][j + k]]
     ELSE IF h = l THEN [j \in Nat |-> IF j \in 1 .. k THEN cell[g][j] ELSE l]
     ELSE cell[h]]

LEMMA CutKeeps ==
  ASSUME NEW len, NEW cell, NEW a, NEW b, ListsAre(len, cell, a, b),
         NEW g \in Heads, NEW k \in 1 .. len[g], NEW l \in Heads, l # g, len[l] = 0,
         NEW a2 \in Pointers, NEW b2 \in Pointers,
         \A c \in Cells : a2[c] = IF c = g THEN cell[g][k + 1] ELSE IF c = cell[g][k] THEN l
                                  ELSE IF c = l THEN cell[g][1] ELSE a[c],
         \A c \in Cells : b2[c] = IF c = cell[g][k + 1] THEN g ELSE IF c = l THEN cell[g][k]
                                  ELSE IF c = cell[g][1] THEN l ELSE b[c]
  PROVE  ListsAre(CutLen(len, l, g, k), CutCells(len, cell, l, g, k), a2, b2)
  <1> DEFINE len2 == CutLen(len, l, g, k)
             cell2 == CutCells(len, cell, l, g, k)
             row == [j \in Nat |-> IF j = 0 THEN g ELSE cell[g][j + k]]
             head == [j \in Nat |-> IF j \in 1 .. k THEN cell[g][j] ELSE l]
  <1>0. /\ len \in [Heads -> Nat] /\ cell \in [Heads -> [Nat -> Cells]] /\ len[g] \in Nat
        /\ k \in Nat /\ k <= len[g] /\ 1 <= k /\ l \in Cells /\ g \in Cells
        /\ Shape(len, cell) /\ Distinct(len, cell) /\ Linked(len, cell, a, b)
    BY HeadsAndEntries DEF ListsAre, Shape
  <1>1. row \in [Nat -> Cells] /\ head \in [Nat -> Cells]
    BY <1>0
  <1>2. /\ len2 \in [Heads -> Nat] /\ len2[g] = len[g] - k /\ len2[l] = k
        /\ \A h \in Heads : h # g /\ h # l => len2[h] = len[h]
    BY <1>0 DEF CutLen
  <1>3. /\ cell2 \in [Heads -> [Nat -> Cells]] /\ cell2[g] = row /\ cell2[l] = head
        /\ \A h \in Heads : h # g /\ h # l => cell2[h] = cell[h]
    BY <1>0, <1>1 DEF CutCells
  <1>4. /\ row[0] = g /\ \A j \in 1 .. (len[g] - k) + 1 : row[j] = cell[g][j + k]
        /\ head[0] = l /\ head[k + 1] = l /\ \A j \in 1 .. k : head[j] = cell[g][j]
    BY <1>0
  <1>5. /\ cell[l][0] = l /\ cell[l][1] = l /\ cell[g][0] = g /\ cell[g][len[g] + 1] = g
    BY <1>0 DEF Shape
  <1>  HIDE DEF len2, cell2, row, head
  <1>6. Shape(len2, cell2)
    <2>0. \A j \in 1 .. len[g] : cell[g][j] \in Entries
      BY <1>0 DEF Shape
    <2>1. ASSUME NEW h \in Heads
          PROVE  /\ cell2[h][0] = h /\ cell2[h][len2[h] + 1] = h
                 /\ \A j \in 1 .. len2[h] : cell2[h][j] \in Entries
      <3>1. CASE h # g /\ h # l
        BY <1>0, <1>2, <1>3, <3>1 DEF Shape
      <3>2. CASE h = l
        <4>1. \A j \in 1 .. k : j \in 1 .. len[g]
          BY <1>0
        <4>  QED
          BY <1>2, <1>3, <1>4, <2>0, <3>2, <4>1
      <3>3. CASE h = g
        <4>1. row[(len[g] - k) + 1] = g
          <5>1. (len[g] - k) + 1 \in 1 .. (len[g] - k) + 1 /\ ((len[g] - k) + 1) + k = len[g] + 1
            BY <1>0
          <5>  QED
            BY <1>4, <1>5, <5>1
        <4>2. ASSUME NEW j \in 1 .. len[g] - k  PROVE row[j] \in Entries
          <5>1. j \in 1 .. (len[g] - k) + 1 /\ j + k \in 1 .. len[g]
            BY <1>0
          <5>  QED
            BY <1>4, <2>0, <5>1
        <4>  QED
          BY <1>2, <1>3, <1>4, <3>3, <4>1, <4>2
      <3>  QED
        BY <3>1, <3>2, <3>3
    <2>  QED
      BY <1>2, <1>3, <2>1 DEF Shape
  <1>7. /\ \A j \in 0 .. len2[g] : (j = 0 /\ row[j] = g)
                                   \/ (j # 0 /\ j + k \in 0 .. len[g] /\ row[j] = cell[g][j + k])
        /\ \A j \in 0 .. len2[l] : (j = 0 /\ head[j] = l)
                                   \/ (j # 0 /\ j \in 0 .. len[g] /\ head[j] = cell[g][j])
    <2>1. ASSUME NEW j \in 0 .. len2[g]
          PROVE  (j = 0 /\ row[j] = g)
                 \/ (j # 0 /\ j + k \in 0 .. len[g] /\ row[j] = cell[g][j + k])
      <3>1. j \in 0 .. len[g] - k
        BY <1>2
      <3>2. j = 0 \/ (j # 0 /\ j + k \in 0 .. len[g] /\ j \in 1 .. (len[g] - k) + 1)
        BY ONLY <1>0, <3>1
      <3>  QED
        BY <1>4, <3>2
    <2>2. ASSUME NEW j \in 0 .. len2[l]
          PROVE  (j = 0 /\ head[j] = l) \/ (j # 0 /\ j \in 0 .. len[g] /\ head[j] = cell[g][j])
      <3>1. j \in 0 .. k
        BY <1>2
      <3>2. j = 0 \/ (j # 0 /\ j \in 0 .. len[g] /\ j \in 1 .. k)
        BY ONLY <1>0, <3>1
      <3>  QED
        BY <1>4, <3>2
    <2>  QED
      BY <2>1, <2>2
  <1>8. Distinct(len2, cell2)
    <2>0. /\ \A p, q \in 0 .. len[g] : cell[g][p] = cell[g][q] => p = q
          /\ \A p \in 0 .. len[g] : cell[g][p] # l
          /\ \A o \in Heads : o # g => \A p \in 0 .. len[o], q \in 0 .. len[g] : cell[o][p] # cell[g][q]
          /\ \A o \in Heads : o # l => \A p \in 0 .. len[o] : cell[o][p] # l
      BY <1>0, <1>5 DEF Distinct
    <2>1. ASSUME NEW j \in 0 .. len2[g], NEW m \in 0 .. len2[g], row[j] = row[m]
          PROVE  j = m
      <3>1. j \in Int /\ m \in Int /\ 0 \in 0 .. len[g] /\ (j # 0 => j + k # 0) /\ (m # 0 => m + k # 0)
        <4>1. j \in 0 .. len[g] - k /\ m \in 0 .. len[g] - k
          BY <1>2
        <4>  QED
          BY ONLY <1>0, <4>1
      <3>2. CASE j = 0 \/ m = 0
        BY <1>5, <1>7, <2>0, <2>1, <3>1, <3>2
      <3>3. CASE j # 0 /\ m # 0
        <4>1. j + k = m + k
          BY <1>7, <2>0, <2>1, <3>3
        <4>  QED
          BY <1>0, <3>1, <4>1
      <3>  QED
        BY <3>2, <3>3
    <2>2. ASSUME NEW j \in 0 .. len2[l], NEW m \in 0 .. len2[l], head[j] = head[m]
          PROVE  j = m
      BY <1>7, <2>0, <2>2
    <2>3. ASSUME NEW j \in 0 .. len2[g], NEW m \in 0 .. len2[l]
          PROVE  row[j] # head[m]
      <3>1. j \in Int /\ m \in Int /\ 0 \in 0 .. len[g] /\ (j # 0 => j + k # m) /\ m \in 0 .. k
            /\ (j # 0 => j + k # 0)
        <4>1. j \in 0 .. len[g] - k /\ m \in 0 .. k
          BY <1>2
        <4>  QED
          BY ONLY <1>0, <4>1
      <3>2. g # l
        OBVIOUS
      <3>  QED
        BY <1>5, <1>7, <2>0, <3>1, <3>2
    <2>4. ASSUME NEW o \in Heads, NEW j \in 0 .. len2[o], NEW f \in Heads, NEW m \in 0 .. len2[f],
                 o \in {g, l}, f \notin {g, l}
          PROVE  cell2[o][j] # cell2[f][m]
      <3>1. m \in 0 .. len[f] /\ cell2[f][m] = cell[f][m] /\ f # g /\ f # l /\ 0 \in 0 .. len[g]
        BY <1>0, <1>2, <1>3, <2>4
      <3>2. cell[f][m] # l /\ cell[f][m] # g
        BY <1>5, <2>0, <3>1
      <3>3. CASE o = g
        BY <1>3, <1>7, <2>0, <3>1, <3>2, <3>3
      <3>4. CASE o = l
        BY <1>3, <1>7, <2>0, <3>1, <3>2, <3>4
      <3>  QED
        BY <2>4, <3>3, <3>4
    <2>5. ASSUME NEW h \in Heads, NEW f \in Heads, NEW j \in 0 .. len2[h], NEW m \in 0 .. len2[f],
                 cell2[h][j] = cell2[f][m]
          PROVE  h = f /\ j = m
      <3>1. CASE h \in {g, l} /\ f \in {g, l}
        <4>1. CASE h = g /\ f = g
          BY <1>3, <2>1, <2>5, <4>1
        <4>2. CASE h = l /\ f = l
          BY <1>3, <2>2, <2>5, <4>2
        <4>3. CASE h = g /\ f = l
          BY <1>3, <2>3, <2>5, <4>3
        <4>4. CASE h = l /\ f = g
          BY <1>3, <2>3, <2>5, <4>4
        <4>  QED
          BY <3>1, <4>1, <4>2, <4>3, <4>4
      <3>2. CASE h \in {g, l} /\ f \notin {g, l}
        BY <2>4, <2>5, <3>2
      <3>3. CASE h \notin {g, l} /\ f \in {g, l}
        BY <2>4, <2>5, <3>3
      <3>4. CASE h \notin {g, l} /\ f \notin {g, l}
        <4>1. j \in 0 .. len[h] /\ m \in 0 .. len[f] /\ cell[h][j] = cell[f][m]
          BY <1>2, <1>3, <2>5, <3>4
        <4>  QED
          BY <1>0, <4>1 DEF Distinct
      <3>  QED
        BY <3>1, <3>2, <3>3, <3>4
    <2>  QED
      BY <2>5 DEF Distinct
  <1>9. Linked(len2, cell2, a2, b2)
    <2>1. ASSUME NEW h \in Heads, NEW j \in 0 .. len[h], ~(h = g /\ j \in {0, k}), h # l
          PROVE  a2[cell[h][j]] = cell[h][j + 1] /\ b2[cell[h][j + 1]] = cell[h][j]
      <3>1. len[h] \in Nat /\ j + 1 \in 1 .. len[h] + 1 /\ k + 1 \in 1 .. len[g] + 1
            /\ 0 \in 0 .. len[l] /\ 1 \in 1 .. len[l] + 1 /\ 1 \in 1 .. len[g] + 1
            /\ 0 \in 0 .. len[g] /\ k \in 0 .. len[g] /\ j \in Nat
        BY <1>0
      <3>2. cell[h][j] # g /\ cell[h][j] # l /\ cell[h][j] # cell[g][k]
        BY <1>0, <1>5, <2>1, <3>1 DEF Distinct
      <3>3. /\ cell[h][j + 1] # cell[g][k + 1] /\ cell[h][j + 1] # l
            /\ cell[h][j + 1] # cell[g][1]
        <4>1. (j + 1 = k + 1 => j = k) /\ (j + 1 = 1 => j = 0)
          BY <1>0, <3>1
        <4>2. cell[h][j + 1] # cell[g][k + 1]
          BY <1>0, <2>1, <3>1, <4>1, DistinctBehind
        <4>3. cell[h][j + 1] # cell[l][1]
          BY <1>0, <2>1, <3>1, <4>1, DistinctBehind
        <4>4. cell[h][j + 1] # cell[g][1]
          BY <1>0, <2>1, <3>1, <4>1, DistinctBehind
        <4>  QED
          BY <1>5, <4>2, <4>3, <4>4
      <3>4. cell[h][j] \in Cells /\ cell[h][j + 1] \in Cells
        BY <1>0, <3>1
      <3>5. a[cell[h][j]] = cell[h][j + 1] /\ b[cell[h][j + 1]] = cell[h][j]
        BY <1>0 DEF Linked
      <3>  QED
        BY <3>1, <3>2, <3>3, <3>4, <3>5
    <2>2. /\ a2[g] = cell[g][k + 1] /\ b2[cell[g][k + 1]] = g
          /\ a2[cell[g][k]] = l /\ b2[l] = cell[g][k]
          /\ a2[l] = cell[g][1] /\ b2[cell[g][1]] = l
      <3>1. /\ 0 \in 0 .. len[l] /\ 1 \in 1 .. len[l] + 1 /\ k + 1 \in 1 .. len[g] + 1
            /\ 1 \in 1 .. len[g] + 1 /\ k \in 0 .. len[g] /\ 0 \in 0 .. len[g]
            /\ k # 0 /\ 1 # k + 1 /\ 1 \in Nat /\ k + 1 \in Nat
        BY <1>0
      <3>2. cell[g][k] # l /\ cell[g][k] # g
        BY <1>0, <1>5, <3>1 DEF Distinct
      <3>3. cell[g][1] # l
        BY <1>0, <1>5, <3>1, DistinctBehind
      <3>4. cell[g][k + 1] # l
        BY <1>0, <1>5, <3>1, DistinctBehind
      <3>5. cell[g][k + 1] # cell[g][1]
        BY <1>0, <3>1, DistinctBehind
      <3>6. /\ l \in Cells /\ g \in Cells /\ cell[g][k] \in Cells
            /\ cell[g][1] \in Cells /\ cell[g][k + 1] \in Cells
        BY <1>0, <3>1
      <3>  QED
        BY <3>1, <3>2, <3>3, <3>4, <3>5, <3>6
    <2>3. ASSUME NEW h \in Heads, NEW j \in 0 .. len2[h]
          PROVE  /\ a2[cell2[h][j]] = cell2[h][j + 1]
                 /\ b2[cell2[h][j + 1]] = cell2[h][j]
      <3>1. CASE h # g /\ h # l
        BY <1>2, <1>3, <2>1, <3>1
      <3>2. CASE h = l /\ j = 0
        <4>1. 1 \in 1 .. k
          BY <1>0
        <4>2. head[j] = l /\ head[j + 1] = cell[g][1]
          BY <1>4, <3>2, <4>1
        <4>  QED
          BY <1>3, <2>2, <3>2, <4>2
      <3>3. CASE h = l /\ j \in 1 .. k - 1
        <4>1. j \in 1 .. k /\ j + 1 \in 1 .. k /\ j \in 0 .. len[g] /\ j \notin {0, k}
          BY <1>0, <3>3
        <4>2. head[j] = cell[g][j] /\ head[j + 1] = cell[g][j + 1]
          BY <1>4, <4>1
        <4>3. a2[cell[g][j]] = cell[g][j + 1] /\ b2[cell[g][j + 1]] = cell[g][j]
          BY <2>1, <4>1
        <4>  QED
          BY <1>3, <3>3, <4>2, <4>3, Zenon
      <3>4. CASE h = l /\ j = k
        <4>1. k \in 1 .. k
          BY <1>0
        <4>2. head[j] = cell[g][k] /\ head[j + 1] = l
          BY <1>4, <3>4, <4>1
        <4>  QED
          BY <1>3, <2>2, <3>4, <4>2
      <3>5. CASE h = g /\ j = 0
        <4>1. 1 \in 1 .. (len[g] - k) + 1 /\ 1 + k = k + 1
          BY <1>0
        <4>2. row[j] = g /\ row[j + 1] = cell[g][k + 1]
          BY <1>4, <3>5, <4>1
        <4>  QED
          BY <1>3, <2>2, <3>5, <4>2
      <3>6. CASE h = g /\ j \in 1 .. len[g] - k
        <4>1. /\ j \in 1 .. (len[g] - k) + 1 /\ j + 1 \in 1 .. (len[g] - k) + 1
              /\ (j + 1) + k = (j + k) + 1 /\ j + k \in 0 .. len[g] /\ j + k \notin {0, k}
          BY <1>0, <3>6
        <4>2. row[j] = cell[g][j + k] /\ row[j + 1] = cell[g][(j + k) + 1]
          BY <1>4, <4>1
        <4>3. /\ a2[cell[g][j + k]] = cell[g][(j + k) + 1]
              /\ b2[cell[g][(j + k) + 1]] = cell[g][j + k]
          BY <2>1, <4>1
        <4>  QED
          BY <1>3, <3>6, <4>2, <4>3, Zenon
      <3>7. (h = g => j = 0 \/ j \in 1 .. len[g] - k) /\ (h = l => j = 0 \/ j \in 1 .. k - 1 \/ j = k)
        <4>1. (h = g => j \in 0 .. len[g] - k) /\ (h = l => j \in 0 .. k)
          BY <1>2
        <4>  QED
          BY ONLY <1>0, <4>1
      <3>  QED
        BY <3>1, <3>2, <3>3, <3>4, <3>5, <3>6, <3>7
    <2>  QED
      BY <2>3 DEF Linked
  <1>  QED
    BY <1>6, <1>8, <1>9 DEF ListsAre, len2, cell2

-----------------------------------------------------------------------------
(* The lists: what the next pointers tell                                    *)

SeqOf(len, cell, h) == [k \in 1 .. len[h] |-> cell[h][k]]

LEMMA SameCardinality == ASSUME NEW S PROVE Lists!Cardinality(S) = Cardinality(S)
  BY DEF Cardinality, Lists!Cardinality

LEMMA LeastIs ==
  ASSUME NEW S \in SUBSET Nat, NEW m \in S, \A q \in S : m <= q
  PROVE  Lists!Min(S) = m
  <1>1. \A x \in S : (\A y \in S : x <= y) => x = m
    OBVIOUS
  <1>  QED
    BY <1>1 DEF Lists!Min

\* A list has no more entries than there are cells.
LEMMA ListIsShort ==
  ASSUME NEW len, NEW cell, Shape(len, cell), Distinct(len, cell), NEW h \in Heads
  PROVE  Cardinality(Cells) \in Nat /\ len[h] <= Cardinality(Cells)
  <1> DEFINE f == [k \in 1 .. len[h] |-> cell[h][k]]
  <1>1. IsFiniteSet(Cells) /\ len[h] \in Nat
    BY HeadsAndEntries DEF Shape
  <1>2. f \in Injection(1 .. len[h], Cells)
    <2>1. f \in [1 .. len[h] -> Cells]
      <3>1. \A k \in 1 .. len[h] : cell[h][k] \in Cells
        BY DEF Shape
      <3>  QED
        BY <3>1
    <2>2. \A j, k \in 1 .. len[h] : f[j] = f[k] => j = k
      <3>1. \A k \in 1 .. len[h] : k \in 0 .. len[h]
        BY <1>1
      <3>  QED
        BY <3>1 DEF Distinct
    <2>  QED
      BY <2>1, <2>2, Fun_IsInj
  <1>3. Cardinality(1 .. len[h]) <= Cardinality(Cells)
    <2>  HIDE DEF f
    <2>  QED
      BY <1>1, <1>2, FS_Injection
  <1>4. Cardinality(1 .. len[h]) = len[h]
    BY <1>1, FS_Interval
  <1>5. Cardinality(Cells) \in Nat
    BY <1>1, FS_CardinalityType
  <1>  QED
    BY <1>3, <1>4, <1>5

\* The loop of list_for_each_entry, of some turns, along the pointers a.
IsChain(f, a, h, turns) ==
  f = [k \in 0 .. turns |-> IF k = 0 THEN a[h]
                            ELSE IF f[k - 1] \in Entries THEN a[f[k - 1]] ELSE f[k - 1]]
Followed(a, h) ==
  LET turns == Lists!Cardinality(Lists!Cells)
      f == CHOOSE g : IsChain(g, a, h, turns)
      home == {k \in 0 .. turns : f[k] = h}
  IN IF home = {} THEN <<"broken">> ELSE [k \in 1 .. Lists!Min(home) |-> f[k - 1]]

LEMMA EntriesBy ==
  ASSUME NEW h
  PROVE  Lists!entries(h) = Followed(next, h) /\ Lists!entries(h)' = Followed(next', h)
  <1>1. Lists!entries(h) = Followed(next, h)
    BY DEF Lists!entries, Followed, IsChain
  <1>2. Lists!entries(h)' = Followed(next', h)
    BY DEF Lists!entries, Followed, IsChain
  <1>  QED
    BY <1>1, <1>2

LEMMA FollowedIs ==
  ASSUME NEW len, NEW cell, NEW a, NEW b, ListsAre(len, cell, a, b), NEW h \in Heads
  PROVE  Followed(a, h) = SeqOf(len, cell, h)
  <1> DEFINE turns == Lists!Cardinality(Lists!Cells)
             f == CHOOSE g : IsChain(g, a, h, turns)
             home == {k \in 0 .. turns : f[k] = h}
             chain == [k \in 0 .. turns |-> IF k <= len[h] THEN cell[h][k + 1] ELSE h]
             top == len[h]
  <1>0. /\ turns \in Nat /\ top \in Nat /\ top <= turns
        /\ cell[h][0] = h /\ cell[h][top + 1] = h /\ h \notin Entries
        /\ \A k \in 1 .. top : cell[h][k] \in Entries
        /\ \A k \in 0 .. top : a[cell[h][k]] = cell[h][k + 1]
    <2>1. turns = Cardinality(Cells)
      BY SameCardinality DEF Cells
    <2>2. turns \in Nat /\ top <= turns
      BY <2>1, ListIsShort DEF ListsAre
    <2>3. /\ top \in Nat /\ cell[h][0] = h /\ cell[h][top + 1] = h
          /\ \A k \in 1 .. top : cell[h][k] \in Entries
          /\ \A k \in 0 .. top : a[cell[h][k]] = cell[h][k + 1]
      BY DEF ListsAre, Shape, Linked
    <2>  QED
      BY <2>2, <2>3, HeadsAndEntries
  <1>  HIDE DEF turns
  <1>1. IsChain(chain, a, h, turns)
    <2>1. ASSUME NEW k \in 0 .. turns
          PROVE  chain[k] = IF k = 0 THEN a[h]
                            ELSE IF chain[k - 1] \in Entries THEN a[chain[k - 1]] ELSE chain[k - 1]
      <3>1. CASE k = 0
        <4>1. chain[0] = cell[h][0 + 1] /\ 0 \in 0 .. top
          BY <1>0
        <4>  QED
          BY <1>0, <3>1, <4>1
      <3>2. CASE k \in 1 .. top
        <4>1. k \in 0 .. top /\ k - 1 \in 0 .. turns /\ k - 1 <= top /\ (k - 1) + 1 = k /\ k <= top
          BY <1>0, <3>2
        <4>2. chain[k] = cell[h][k + 1] /\ chain[k - 1] = cell[h][k]
          BY <4>1
        <4>  QED
          BY <1>0, <3>2, <4>1, <4>2
      <3>3. CASE k \in top + 1 .. turns
        <4>1. /\ k - 1 \in 0 .. turns /\ ~(k <= top) /\ k # 0
              /\ (k - 1 <= top => (k - 1) + 1 = top + 1)
          BY <1>0, <3>3
        <4>2. chain[k] = h /\ chain[k - 1] = h
          BY <1>0, <4>1
        <4>  QED
          BY <1>0, <4>1, <4>2
      <3>  QED
        BY <1>0, <3>1, <3>2, <3>3
    <2>2. chain = [k \in 0 .. turns |-> chain[k]]
      OBVIOUS
    <2>  HIDE DEF chain
    <2>  QED
      BY <2>1, <2>2, Zenon DEF IsChain
  <1>  HIDE DEF chain
  <1>2. IsChain(f, a, h, turns)
    BY <1>1, Zenon
  <1>3. \A k \in 0 .. turns : f[k] = IF k = 0 THEN a[h]
                              ELSE IF f[k - 1] \in Entries THEN a[f[k - 1]] ELSE f[k - 1]
    BY <1>2, Zenon DEF IsChain
  <1>4. \A k \in 0 .. turns : chain[k] = IF k = 0 THEN a[h]
                              ELSE IF chain[k - 1] \in Entries THEN a[chain[k - 1]] ELSE chain[k - 1]
    BY <1>1 DEF IsChain
  <1>5. \A k \in 0 .. turns : f[k] = chain[k]
    <2> DEFINE S == {k \in Nat : k <= turns => f[k] = chain[k]}
    <2>  HIDE DEF f
    <2>1. 0 \in S
      BY <1>0, <1>3, <1>4
    <2>2. ASSUME NEW k \in Nat, k \in S  PROVE k + 1 \in S
      <3>1. k + 1 <= turns => k + 1 \in 0 .. turns /\ k <= turns /\ (k + 1) - 1 = k /\ k + 1 # 0
        BY <1>0
      <3>  QED
        BY <1>3, <1>4, <2>2, <3>1
    <2>3. S \in SUBSET Nat
      OBVIOUS
    <2>  HIDE DEF S
    <2>4. S = Nat
      BY <2>1, <2>2, <2>3, SetInduction
    <2>  QED
      BY <1>0, <2>4 DEF S
  <1>6. /\ \A k \in 0 .. top : f[k] = cell[h][k + 1]
        /\ f[top] = h /\ \A k \in 0 .. top - 1 : f[k] # h
    <2>  HIDE DEF f
    <2>1. \A k \in 0 .. top : k \in 0 .. turns /\ k <= top
      BY <1>0
    <2>2. \A k \in 0 .. top : f[k] = cell[h][k + 1]
      BY <1>5, <2>1 DEF chain
    <2>3. \A k \in 0 .. top - 1 : k \in 0 .. top /\ k + 1 \in 1 .. top
      BY <1>0
    <2>4. top \in 0 .. top
      BY <1>0
    <2>5. \A k \in 0 .. top - 1 : f[k] # h
      <3>1. \A k \in 0 .. top - 1 : f[k] \in Entries
        BY <1>0, <2>2, <2>3
      <3>  QED
        BY <1>0, <3>1
    <2>  QED
      BY <1>0, <2>2, <2>4, <2>5
  <1>  HIDE DEF f, top
  <1>7. Lists!Min(home) = top /\ home # {}
    <2>1. home \in SUBSET Nat /\ top \in home
      BY <1>0, <1>6
    <2>2. \A q \in home : top <= q
      <3>1. \A q \in 0 .. turns : ~(top <= q) => q \in 0 .. top - 1
        BY <1>0
      <3>  QED
        BY <1>6, <3>1
    <2>  HIDE DEF home
    <2>  QED
      BY <2>1, <2>2, LeastIs
  <1>8. Followed(a, h) = [k \in 1 .. top |-> f[k - 1]]
    BY <1>7 DEF Followed, f, turns, home
  <1>9. \A k \in 1 .. top : f[k - 1] = cell[h][k]
    <2>1. \A k \in 1 .. top : k - 1 \in 0 .. top /\ (k - 1) + 1 = k
      BY <1>0
    <2>  QED
      BY <1>6, <2>1
  <1>10. [k \in 1 .. top |-> f[k - 1]] = [k \in 1 .. top |-> cell[h][k]]
    BY <1>9
  <1>  QED
    BY <1>8, <1>10 DEF SeqOf, top

LEMMA EntriesAre ==
  ASSUME NEW len, NEW cell, ListsAre(len, cell, next, prev), NEW h \in Heads
  PROVE  Lists!entries(h) = SeqOf(len, cell, h)
  BY EntriesBy, FollowedIs

LEMMA EntriesThen ==
  ASSUME NEW len, NEW cell, ListsAre(len, cell, next, prev)', NEW h \in Heads
  PROVE  Lists!entries(h)' = SeqOf(len, cell, h)
  <1> DEFINE a == next'
             b == prev'
  <1>1. ListsAre(len, cell, a, b)
    OBVIOUS
  <1>2. Lists!entries(h)' = Followed(a, h)
    BY EntriesBy
  <1>  HIDE DEF a, b
  <1>  QED
    BY <1>1, <1>2, FollowedIs

\* Which entries are in a list, and which in none.
LEMMA ListedIs ==
  ASSUME NEW len, NEW cell, ListsAre(len, cell, next, prev)
  PROVE  /\ \A h \in Heads : Lists!listed(h) = {cell[h][k] : k \in 1 .. len[h]}
         /\ \A e \in Lists!unlisted : InNone(len, cell, e)
         /\ \A e \in Entries \ Lists!unlisted :
              \E h \in Heads : \E k \in 1 .. len[h] : e = cell[h][k]
  <1>1. ASSUME NEW h \in Heads
        PROVE  Lists!listed(h) = {cell[h][k] : k \in 1 .. len[h]}
    <2>1. Lists!entries(h) = SeqOf(len, cell, h)
      BY EntriesAre
    <2>2. len[h] \in Nat /\ \A k \in 1 .. len[h] : cell[h][k] \in Entries
      BY DEF ListsAre, Shape
    <2>3. Len(SeqOf(len, cell, h)) = len[h]
      BY <2>2 DEF SeqOf
    <2>4. \A e : Lists!Contains(Lists!entries(h), e) <=> \E k \in 1 .. len[h] : cell[h][k] = e
      BY <2>1, <2>3 DEF Lists!Contains, SeqOf
    <2>  QED
      BY <2>2, <2>4 DEF Lists!listed
  <1>2. \A e \in Lists!unlisted : InNone(len, cell, e)
    BY <1>1 DEF Lists!unlisted, InNone
  <1>3. ASSUME NEW e \in Entries \ Lists!unlisted
        PROVE  \E h \in Heads : \E k \in 1 .. len[h] : e = cell[h][k]
    BY <1>1 DEF Lists!unlisted
  <1>  QED
    BY <1>1, <1>2, <1>3

-----------------------------------------------------------------------------
(* The lists: the operations                                                 *)

Mem(a, b) == [next |-> a, prev |-> b]
In(len, cell, m) == m = Mem(m.next, m.prev) /\ ListsAre(len, cell, m.next, m.prev)

LEMMA Fields == ASSUME NEW a, NEW b  PROVE Mem(a, b).next = a /\ Mem(a, b).prev = b
  BY DEF Mem

LEMMA StoreNext ==
  ASSUME NEW a, NEW b, NEW c, NEW v
  PROVE  Lists!store(Mem(a, b), c, "next", v) = Mem([a EXCEPT ![c] = v], b)
  BY DEF Lists!store, Mem

LEMMA StorePrev ==
  ASSUME NEW a, NEW b, NEW c, NEW v
  PROVE  Lists!store(Mem(a, b), c, "prev", v) = Mem(a, [b EXCEPT ![c] = v])
  BY DEF Lists!store, Mem

\* What an operation stores, as two functions.
LEMMA InsertIs ==
  ASSUME NEW a, NEW b, NEW e, NEW before, NEW after
  PROVE  Lists!insert(Mem(a, b), e, before, after)
         = Mem([[a EXCEPT ![e] = after] EXCEPT ![before] = e],
               [[b EXCEPT ![after] = e] EXCEPT ![e] = before])
  <1> DEFINE a1 == [a EXCEPT ![e] = after]
             a2 == [a1 EXCEPT ![before] = e]
             b1 == [b EXCEPT ![after] = e]
             b2 == [b1 EXCEPT ![e] = before]
             m1 == Lists!store(Mem(a, b), after, "prev", e)
             m2 == Lists!store(m1, e, "next", after)
             m3 == Lists!store(m2, e, "prev", before)
             m4 == Lists!store(m3, before, "next", e)
  <1>1. m1 = Mem(a, b1)
    BY StorePrev
  <1>  HIDE DEF m1, b1
  <1>2. m2 = Mem(a1, b1)
    BY <1>1, StoreNext
  <1>  HIDE DEF m2, a1
  <1>3. m3 = Mem(a1, b2)
    BY <1>2, StorePrev
  <1>  HIDE DEF m3, b2
  <1>4. m4 = Mem(a2, b2)
    BY <1>3, StoreNext
  <1>5. m4 = Lists!insert(Mem(a, b), e, before, after)
    BY DEF m1, m2, m3, Lists!insert
  <1>  QED
    BY <1>4, <1>5 DEF a1, b1, b2

LEMMA UnlinkIs ==
  ASSUME NEW a, NEW b, NEW e
  PROVE  Lists!unlink(Mem(a, b), e)
         = Mem([a EXCEPT ![b[e]] = a[e]], [b EXCEPT ![a[e]] = b[e]])
  <1> DEFINE before == Mem(a, b).prev[e]
             after == Mem(a, b).next[e]
             m1 == Lists!store(Mem(a, b), after, "prev", before)
             b1 == [b EXCEPT ![after] = before]
             m2 == Lists!store(m1, before, "next", after)
  <1>1. before = b[e] /\ after = a[e]
    BY Fields
  <1>2. Lists!unlink(Mem(a, b), e) = m2
    BY DEF Lists!unlink
  <1>  HIDE DEF before, after
  <1>3. m1 = Mem(a, b1)
    BY StorePrev
  <1>  HIDE DEF m1
  <1>4. m2 = Mem([a EXCEPT ![before] = after], b1)
    BY <1>3, StoreNext
  <1>  HIDE DEF m2
  <1>  QED
    BY <1>1, <1>2, <1>4

LEMMA InitIs ==
  ASSUME NEW a, NEW b, NEW c
  PROVE  Lists!INIT_LIST_HEAD(Mem(a, b), c) = Mem([a EXCEPT ![c] = c], [b EXCEPT ![c] = c])
  <1> DEFINE m1 == Lists!store(Mem(a, b), c, "next", c)
  <1>1. Lists!INIT_LIST_HEAD(Mem(a, b), c) = Lists!store(m1, c, "prev", c)
    BY DEF Lists!INIT_LIST_HEAD
  <1>2. m1 = Mem([a EXCEPT ![c] = c], b)
    BY StoreNext
  <1>  HIDE DEF m1
  <1>  QED
    BY <1>1, <1>2, StorePrev

LEMMA InsertDone ==
  ASSUME NEW len, NEW cell, NEW m, In(len, cell, m),
         NEW g \in Heads, NEW k \in 0 .. len[g], NEW e, InNone(len, cell, e)
  PROVE  In(Longer(len, g), WithIn(cell, g, k, e), Lists!insert(m, e, cell[g][k], cell[g][k + 1]))
  <1> DEFINE a == m.next
             b == m.prev
             before == cell[g][k]
             after == cell[g][k + 1]
             a2 == [[a EXCEPT ![e] = after] EXCEPT ![before] = e]
             b2 == [[b EXCEPT ![after] = e] EXCEPT ![e] = before]
  <1>1. /\ m = Mem(a, b) /\ ListsAre(len, cell, a, b) /\ a \in Pointers /\ b \in Pointers
    BY DEF In, ListsAre
  <1>2. before \in Cells /\ after \in Cells /\ e \in Cells
    <2>1. len[g] \in Nat /\ cell[g] \in [Nat -> Cells]
      BY <1>1 DEF ListsAre, Shape
    <2>  QED
      BY <2>1, HeadsAndEntries DEF InNone
  <1>  HIDE DEF a, b
  <1>3. a2 \in Pointers /\ b2 \in Pointers
    BY <1>1, <1>2 DEF Pointers
  <1>4. /\ \A c \in Cells : a2[c] = IF c = before THEN e ELSE IF c = e THEN after ELSE a[c]
        /\ \A c \in Cells : b2[c] = IF c = e THEN before ELSE IF c = after THEN e ELSE b[c]
    BY <1>1, <1>2 DEF Pointers
  <1>  HIDE DEF a2, b2
  <1>5. ListsAre(Longer(len, g), WithIn(cell, g, k, e), a2, b2)
    BY <1>1, <1>3, <1>4, InsertKeeps
  <1>6. Lists!insert(m, e, before, after) = Mem(a2, b2)
    BY <1>1, InsertIs DEF a2, b2
  <1>7. Mem(a2, b2).next = a2 /\ Mem(a2, b2).prev = b2
    BY Fields
  <1>  QED
    BY <1>5, <1>6, <1>7 DEF In

LEMMA UnlinkDone ==
  ASSUME NEW len, NEW cell, NEW m, In(len, cell, m), NEW g \in Heads, NEW k \in 1 .. len[g]
  PROVE  /\ In(Shorter(len, g), LeftOut(cell, g, k), Lists!unlink(m, cell[g][k]))
         /\ InNone(Shorter(len, g), LeftOut(cell, g, k), cell[g][k])
         /\ m.next[cell[g][k]] = cell[g][k + 1] /\ m.prev[cell[g][k]] = cell[g][k - 1]
         /\ \A c \in Cells : c # cell[g][k - 1] => Lists!unlink(m, cell[g][k]).next[c] = m.next[c]
  <1> DEFINE a == m.next
             b == m.prev
             before == cell[g][k - 1]
             after == cell[g][k + 1]
             e == cell[g][k]
             a2 == [a EXCEPT ![before] = after]
             b2 == [b EXCEPT ![after] = before]
  <1>1. /\ m = Mem(a, b) /\ ListsAre(len, cell, a, b) /\ a \in Pointers /\ b \in Pointers
    BY DEF In, ListsAre
  <1>2. before \in Cells /\ after \in Cells /\ e \in Cells /\ a[e] = after /\ b[e] = before
    <2>1. len[g] \in Nat /\ cell[g] \in [Nat -> Cells]
      BY <1>1 DEF ListsAre, Shape
    <2>2. k \in 0 .. len[g] /\ k - 1 \in 0 .. len[g] /\ (k - 1) + 1 = k /\ k + 1 \in Nat
          /\ k - 1 \in Nat /\ k \in Nat
      BY <2>1
    <2>  QED
      BY <1>1, <2>1, <2>2 DEF ListsAre, Linked
  <1>  HIDE DEF a, b, e, before, after
  <1>3. a2 \in Pointers /\ b2 \in Pointers
    BY <1>1, <1>2 DEF Pointers
  <1>4. /\ \A c \in Cells : a2[c] = IF c = before THEN after ELSE a[c]
        /\ \A c \in Cells : b2[c] = IF c = after THEN before ELSE b[c]
    BY <1>1, <1>2 DEF Pointers
  <1>  HIDE DEF a2, b2
  <1>5. /\ ListsAre(Shorter(len, g), LeftOut(cell, g, k), a2, b2)
        /\ InNone(Shorter(len, g), LeftOut(cell, g, k), e)
    BY <1>1, <1>3, <1>4, UnlinkKeeps DEF before, after, e
  <1>6. Lists!unlink(m, e) = Mem(a2, b2)
    BY <1>1, <1>2, UnlinkIs DEF a2, b2
  <1>7. Mem(a2, b2).next = a2 /\ Mem(a2, b2).prev = b2
    BY Fields
  <1>8. In(Shorter(len, g), LeftOut(cell, g, k), Lists!unlink(m, e))
    BY <1>5, <1>6, <1>7 DEF In
  <1>  QED
    BY <1>2, <1>4, <1>5, <1>6, <1>7, <1>8 DEF e, before, after, a, b

\* Both pointers of an entry that is in no list.
LEMMA WriteDone ==
  ASSUME NEW len, NEW cell, NEW m, In(len, cell, m), NEW e, InNone(len, cell, e),
         NEW v \in Cells \cup {NULL, Dead}
  PROVE  /\ In(len, cell, Lists!store(Lists!store(m, e, "next", v), e, "prev", v))
         /\ \A c \in Cells \ {e} :
              Lists!store(Lists!store(m, e, "next", v), e, "prev", v).next[c] = m.next[c]
  <1> DEFINE a == m.next
             b == m.prev
             a2 == [a EXCEPT ![e] = v]
             b2 == [b EXCEPT ![e] = v]
             m2 == Lists!store(Lists!store(m, e, "next", v), e, "prev", v)
  <1>1. /\ m = Mem(a, b) /\ ListsAre(len, cell, a, b) /\ a \in Pointers /\ b \in Pointers
        /\ e \in Cells
    BY HeadsAndEntries DEF In, ListsAre, InNone
  <1>  HIDE DEF a, b
  <1>2. a2 \in Pointers /\ b2 \in Pointers
    BY <1>1 DEF Pointers
  <1>3. \A c \in Cells \ {e} : a2[c] = a[c] /\ b2[c] = b[c]
    BY <1>1 DEF Pointers
  <1>4. m2 = Mem(a2, b2)
    BY <1>1, StoreNext, StorePrev
  <1>  HIDE DEF a2, b2, m2
  <1>5. ListsAre(len, cell, a2, b2)
    BY <1>1, <1>2, <1>3, ElsewhereKeeps
  <1>6. Mem(a2, b2).next = a2 /\ Mem(a2, b2).prev = b2
    BY Fields
  <1>  QED
    BY <1>3, <1>4, <1>5, <1>6 DEF In, m2, a

LEMMA SpliceDone ==
  ASSUME NEW len, NEW cell, NEW m, In(len, cell, m),
         NEW g \in Heads, NEW k \in 0 .. len[g], NEW l \in Heads, l # g, len[l] > 0
  PROVE  In(JoinedLen(len, l, g), Joined(len, cell, l, g, k),
            Lists!INIT_LIST_HEAD(Lists!splice(m, l, cell[g][k], cell[g][k + 1]), l))
  <1> DEFINE a == m.next
             b == m.prev
             before == cell[g][k]
             after == cell[g][k + 1]
             first == cell[l][1]
             last == cell[l][len[l]]
             a1 == [a EXCEPT ![before] = first]
             b1 == [b EXCEPT ![first] = before]
             a2 == [a1 EXCEPT ![last] = after]
             b2 == [b1 EXCEPT ![after] = last]
             a3 == [a2 EXCEPT ![l] = l]
             b3 == [b2 EXCEPT ![l] = l]
             m0 == Lists!store(m, first, "prev", before)
             m1 == Lists!store(m0, before, "next", first)
             m2 == Lists!store(m1, last, "next", after)
             m3 == Lists!store(m2, after, "prev", last)
  <1>1. /\ m = Mem(a, b) /\ ListsAre(len, cell, a, b) /\ a \in Pointers /\ b \in Pointers
    BY DEF In, ListsAre
  <1>2. before \in Cells /\ after \in Cells /\ first \in Cells /\ last \in Cells /\ l \in Cells
    BY <1>1, HeadsAndEntries DEF ListsAre, Shape
  <1>3. a[l] = first /\ b[l] = last
    <2>1. cell[l][0] = l /\ cell[l][len[l] + 1] = l /\ 0 \in 0 .. len[l] /\ len[l] \in 0 .. len[l]
          /\ 0 + 1 = 1
      BY <1>1 DEF ListsAre, Shape
    <2>  QED
      BY <1>1, <2>1 DEF ListsAre, Linked
  <1>4. Lists!splice(m, l, before, after) = m3
    BY <1>3 DEF Lists!splice
  <1>  HIDE DEF a, b, before, after, first, last
  <1>5. m0 = Mem(a, b1)
    BY <1>1, StorePrev
  <1>  HIDE DEF m0, b1
  <1>6. m1 = Mem(a1, b1)
    BY <1>5, StoreNext
  <1>  HIDE DEF m1, a1
  <1>7. m2 = Mem(a2, b1)
    BY <1>6, StoreNext
  <1>  HIDE DEF m2, a2
  <1>8. m3 = Mem(a2, b2)
    BY <1>7, StorePrev
  <1>  HIDE DEF m3, b2
  <1>9. Lists!INIT_LIST_HEAD(m3, l) = Mem(a3, b3)
    BY <1>8, InitIs
  <1>10. /\ a1 \in Pointers /\ b1 \in Pointers /\ a2 \in Pointers /\ b2 \in Pointers
         /\ a3 \in Pointers /\ b3 \in Pointers
    BY <1>1, <1>2 DEF Pointers, a1, a2, b1, b2
  <1>11. /\ \A c \in Cells : a3[c] = IF c = l THEN l ELSE IF c = last THEN after
                                     ELSE IF c = before THEN first ELSE a[c]
         /\ \A c \in Cells : b3[c] = IF c = l THEN l ELSE IF c = after THEN last
                                     ELSE IF c = first THEN before ELSE b[c]
    BY <1>1, <1>2, <1>10 DEF Pointers, a1, a2, b1, b2
  <1>  HIDE DEF a3, b3
  <1>12. ListsAre(JoinedLen(len, l, g), Joined(len, cell, l, g, k), a3, b3)
    BY <1>1, <1>10, <1>11, SpliceKeeps DEF first, last, before, after
  <1>13. Mem(a3, b3).next = a3 /\ Mem(a3, b3).prev = b3
    BY Fields
  <1>  QED
    BY <1>4, <1>9, <1>12, <1>13 DEF In, before, after

LEMMA CutDone ==
  ASSUME NEW len, NEW cell, NEW m, In(len, cell, m),
         NEW g \in Heads, NEW k \in 1 .. len[g], NEW l \in Heads, l # g, len[l] = 0
  PROVE  In(CutLen(len, l, g, k), CutCells(len, cell, l, g, k), Lists!cut(m, l, g, cell[g][k]))
  <1> DEFINE a == m.next
             b == m.prev
             entry == cell[g][k]
             new_first == cell[g][k + 1]
             first == cell[g][1]
             a1 == [a EXCEPT ![l] = first]
             b1 == [b EXCEPT ![first] = l]
             b2 == [b1 EXCEPT ![l] = entry]
             a2 == [a1 EXCEPT ![entry] = l]
             a3 == [a2 EXCEPT ![g] = new_first]
             b3 == [b2 EXCEPT ![new_first] = g]
             m1 == Lists!store(m, l, "next", m.next[g])
             m2 == Lists!store(m1, m1.next[l], "prev", l)
             m3 == Lists!store(m2, l, "prev", entry)
             m4 == Lists!store(m3, entry, "next", l)
             m5 == Lists!store(m4, g, "next", m.next[entry])
             m6 == Lists!store(m5, m.next[entry], "prev", g)
  <1>1. /\ m = Mem(a, b) /\ ListsAre(len, cell, a, b) /\ a \in Pointers /\ b \in Pointers
    BY DEF In, ListsAre
  <1>2. /\ entry \in Cells /\ new_first \in Cells /\ first \in Cells /\ l \in Cells /\ g \in Cells
        /\ len[g] \in Nat
    BY <1>1, HeadsAndEntries DEF ListsAre, Shape
  <1>3. m.next[g] = first /\ m.next[entry] = new_first
    <2>1. cell[g][0] = g /\ 0 \in 0 .. len[g] /\ k \in 0 .. len[g] /\ 0 + 1 = 1
      BY <1>1 DEF ListsAre, Shape
    <2>  QED
      BY <1>1, <2>1 DEF ListsAre, Linked
  <1>4. Lists!cut(m, l, g, entry) = m6
    BY DEF Lists!cut
  <1>  HIDE DEF a, b, entry, new_first, first
  <1>5. m1 = Mem(a1, b)
    BY <1>1, <1>3, StoreNext
  <1>6. m1.next[l] = first
    <2>1. m1.next = a1
      BY <1>5, Fields
    <2>  QED
      BY <1>1, <1>2, <2>1 DEF Pointers
  <1>  HIDE DEF m1, a1
  <1>7. m2 = Mem(a1, b1)
    BY <1>5, <1>6, StorePrev
  <1>  HIDE DEF m2, b1
  <1>8. m3 = Mem(a1, b2)
    BY <1>7, StorePrev
  <1>  HIDE DEF m3, b2
  <1>9. m4 = Mem(a2, b2)
    BY <1>8, StoreNext
  <1>  HIDE DEF m4, a2
  <1>10. m5 = Mem(a3, b2)
    BY <1>3, <1>9, StoreNext
  <1>  HIDE DEF m5
  <1>11. m6 = Mem(a3, b3)
    BY <1>3, <1>10, StorePrev
  <1>  HIDE DEF m6
  <1>12. a3 \in Pointers /\ b3 \in Pointers
    BY <1>1, <1>2 DEF Pointers, a1, a2, b1, b2
  <1>13. /\ \A c \in Cells : a3[c] = IF c = g THEN new_first ELSE IF c = entry THEN l
                                     ELSE IF c = l THEN first ELSE a[c]
         /\ \A c \in Cells : b3[c] = IF c = new_first THEN g ELSE IF c = l THEN entry
                                     ELSE IF c = first THEN l ELSE b[c]
    BY <1>1, <1>2 DEF Pointers, a1, a2, b1, b2
  <1>  HIDE DEF a3, b3
  <1>14. ListsAre(CutLen(len, l, g, k), CutCells(len, cell, l, g, k), a3, b3)
    BY <1>1, <1>12, <1>13, CutKeeps DEF first, entry, new_first
  <1>15. Mem(a3, b3).next = a3 /\ Mem(a3, b3).prev = b3
    BY Fields
  <1>  QED
    BY <1>4, <1>11, <1>14, <1>15 DEF In, entry

\* The neighbours of a head.
LEMMA EndsAre ==
  ASSUME NEW len, NEW cell, NEW m, In(len, cell, m), NEW g \in Heads
  PROVE  /\ cell[g][0] = g /\ cell[g][len[g] + 1] = g /\ len[g] \in Nat /\ g \in Cells
         /\ m.next[g] = cell[g][1] /\ m.prev[g] = cell[g][len[g]]
         /\ Lists!list_empty(m, g) <=> len[g] = 0
  <1>1. /\ cell[g][0] = g /\ cell[g][len[g] + 1] = g /\ len[g] \in Nat /\ g \in Cells
        /\ \A k \in 1 .. len[g] : cell[g][k] \in Entries
    BY HeadsAndEntries DEF In, ListsAre, Shape
  <1>2. m.next[g] = cell[g][1] /\ m.prev[g] = cell[g][len[g]]
    <2>1. 0 \in 0 .. len[g] /\ len[g] \in 0 .. len[g] /\ 0 + 1 = 1
      BY <1>1
    <2>  QED
      BY <1>1, <2>1 DEF In, ListsAre, Linked
  <1>3. len[g] # 0 => cell[g][1] # g
    <2>1. len[g] # 0 => 1 \in 1 .. len[g]
      BY <1>1
    <2>  QED
      BY <1>1, <2>1, HeadsAndEntries
  <1>4. len[g] = 0 => cell[g][1] = g
    BY <1>1
  <1>  QED
    BY <1>1, <1>2, <1>3, <1>4 DEF Lists!list_empty

LEMMA DelDone ==
  ASSUME NEW len, NEW cell, NEW m, In(len, cell, m), NEW g \in Heads, NEW k \in 1 .. len[g]
  PROVE  /\ In(Shorter(len, g), LeftOut(cell, g, k), Lists!list_del(m, cell[g][k]))
         /\ In(Shorter(len, g), LeftOut(cell, g, k), Lists!list_del_init(m, cell[g][k]))
  <1> DEFINE e == cell[g][k]
             m2 == Lists!unlink(m, e)
  <1>1. /\ In(Shorter(len, g), LeftOut(cell, g, k), m2)
        /\ InNone(Shorter(len, g), LeftOut(cell, g, k), e)
    BY UnlinkDone
  <1>2. e \in Cells
    BY <1>1, HeadsAndEntries DEF InNone
  <1>  HIDE DEF e, m2
  <1>3. /\ In(Shorter(len, g), LeftOut(cell, g, k),
              Lists!store(Lists!store(m2, e, "next", NULL), e, "prev", NULL))
        /\ In(Shorter(len, g), LeftOut(cell, g, k),
              Lists!store(Lists!store(m2, e, "next", e), e, "prev", e))
    BY <1>1, <1>2, WriteDone
  <1>  QED
    BY <1>3 DEF Lists!list_del, Lists!list_del_init, Lists!INIT_LIST_HEAD, m2, e

\* What is in no list stays out of them when another entry comes out, or goes in.
LEMMA StaysOut ==
  ASSUME NEW len, NEW cell, Shape(len, cell), NEW g \in Heads, NEW e, InNone(len, cell, e)
  PROVE  /\ \A k \in 1 .. len[g] : InNone(Shorter(len, g), LeftOut(cell, g, k), e)
         /\ \A k \in 0 .. len[g] : \A f : f # e => InNone(Longer(len, g), WithIn(cell, g, k, f), e)
  <1>0. /\ len \in [Heads -> Nat] /\ cell \in [Heads -> [Nat -> Cells]] /\ len[g] \in Nat
        /\ e \in Entries
    BY DEF Shape, InNone
  <1>1. \A h \in Heads : \A j \in 0 .. len[h] + 1 : cell[h][j] # e
    BY InNoneAnywhere
  <1>2. ASSUME NEW k \in 1 .. len[g], NEW h \in Heads, NEW j \in 1 .. Shorter(len, g)[h]
        PROVE  LeftOut(cell, g, k)[h][j] # e
    <2>1. CASE h # g
      <3>1. LeftOut(cell, g, k)[h] = cell[h] /\ Shorter(len, g)[h] = len[h]
        BY <1>0, <2>1 DEF LeftOut, Shorter
      <3>  QED
        BY <3>1 DEF InNone
    <2>2. CASE h = g
      <3>1. Shorter(len, g)[g] = len[g] - 1
        BY <1>0 DEF Shorter
      <3>2. j \in Nat /\ j \in 0 .. len[g] + 1 /\ j + 1 \in 0 .. len[g] + 1
        BY <1>0, <2>2, <3>1
      <3>3. LeftOut(cell, g, k)[g][j] = IF j < k THEN cell[g][j] ELSE cell[g][j + 1]
        BY <1>0, <3>2 DEF LeftOut
      <3>  QED
        BY <1>1, <2>2, <3>2, <3>3
    <2>  QED
      BY <2>1, <2>2
  <1>3. ASSUME NEW k \in 0 .. len[g], NEW f, f # e, NEW h \in Heads, NEW j \in 1 .. Longer(len, g)[h]
        PROVE  WithIn(cell, g, k, f)[h][j] # e
    <2>1. CASE h # g
      <3>1. WithIn(cell, g, k, f)[h] = cell[h] /\ Longer(len, g)[h] = len[h]
        BY <1>0, <2>1 DEF WithIn, Longer
      <3>  QED
        BY <3>1 DEF InNone
    <2>2. CASE h = g
      <3>1. Longer(len, g)[g] = len[g] + 1
        BY <1>0 DEF Longer
      <3>2. j \in Nat /\ j \in 0 .. len[g] + 1 /\ j - 1 \in 0 .. len[g] + 1
        BY <1>0, <2>2, <3>1
      <3>3. WithIn(cell, g, k, f)[g][j] = IF j <= k THEN cell[g][j]
                                          ELSE IF j = k + 1 THEN f ELSE cell[g][j - 1]
        BY <1>0, <3>2 DEF WithIn
      <3>  QED
        BY <1>1, <1>3, <2>2, <3>2, <3>3
    <2>  QED
      BY <2>1, <2>2
  <1>  QED
    BY <1>0, <1>2, <1>3 DEF InNone

\* To replace an entry is to take it out and to put the other where it was.
LEMMA ReplaceIs ==
  ASSUME NEW len, NEW cell, NEW m, In(len, cell, m), NEW g \in Heads, NEW k \in 1 .. len[g],
         NEW e, InNone(len, cell, e)
  PROVE  Lists!list_replace(m, cell[g][k], e)
         = Lists!insert(Lists!unlink(m, cell[g][k]), e, cell[g][k - 1], cell[g][k + 1])
  <1> DEFINE a == m.next
             b == m.prev
             before == cell[g][k - 1]
             after == cell[g][k + 1]
             old == cell[g][k]
             a1 == [a EXCEPT ![e] = after]
             a2 == [a1 EXCEPT ![before] = e]
             b1 == [b EXCEPT ![after] = e]
             b2 == [b1 EXCEPT ![e] = before]
             m1 == Lists!store(m, e, "next", m.next[old])
             m2 == Lists!store(m1, m1.next[e], "prev", e)
             m3 == Lists!store(m2, e, "prev", m2.prev[old])
             m4 == Lists!store(m3, m3.prev[e], "next", e)
             a3 == [[[a EXCEPT ![before] = after] EXCEPT ![e] = after] EXCEPT ![before] = e]
             b3 == [[[b EXCEPT ![after] = before] EXCEPT ![after] = e] EXCEPT ![e] = before]
  <1>1. /\ m = Mem(a, b) /\ ListsAre(len, cell, a, b) /\ a \in Pointers /\ b \in Pointers
    BY DEF In, ListsAre
  <1>2. /\ before \in Cells /\ after \in Cells /\ old \in Cells /\ e \in Cells
        /\ a[old] = after /\ b[old] = before /\ e # before /\ e # after /\ old # after
    <2>1. len[g] \in Nat /\ cell[g] \in [Nat -> Cells] /\ Shape(len, cell)
      BY <1>1 DEF ListsAre, Shape
    <2>2. k \in 0 .. len[g] /\ k - 1 \in 0 .. len[g] /\ (k - 1) + 1 = k /\ k + 1 \in Nat
          /\ k - 1 \in Nat /\ k \in Nat /\ k - 1 \in 0 .. len[g] + 1 /\ k + 1 \in 0 .. len[g] + 1
          /\ k \in 1 .. len[g] + 1 /\ k + 1 \in 1 .. len[g] + 1 /\ k # k + 1
      BY <2>1
    <2>3. e # before /\ e # after
      BY <2>1, <2>2, InNoneAnywhere
    <2>4. old # after
      BY <1>1, <2>1, <2>2, DistinctBehind DEF ListsAre
    <2>5. a[old] = after /\ b[old] = before
      BY <1>1, <2>2 DEF ListsAre, Linked
    <2>  QED
      BY <2>1, <2>2, <2>3, <2>4, <2>5, HeadsAndEntries DEF InNone
  <1>3. Lists!list_replace(m, old, e) = m4
    BY DEF Lists!list_replace
  <1>  HIDE DEF a, b, before, after, old
  <1>4. m1 = Mem(a1, b)
    <2>1. m.next[old] = after
      BY <1>1, <1>2, Fields
    <2>  QED
      BY <1>1, <2>1, StoreNext
  <1>5. m1.next[e] = after
    <2>1. m1.next = a1
      BY <1>4, Fields
    <2>  QED
      BY <1>1, <1>2, <2>1 DEF Pointers
  <1>  HIDE DEF m1, a1
  <1>6. m2 = Mem(a1, b1)
    BY <1>4, <1>5, StorePrev
  <1>7. m2.prev[old] = before
    <2>1. m2.prev = b1
      BY <1>6, Fields
    <2>  QED
      BY <1>1, <1>2, <2>1 DEF Pointers
  <1>  HIDE DEF m2, b1
  <1>8. m3 = Mem(a1, b2)
    BY <1>6, <1>7, StorePrev
  <1>9. m3.prev[e] = before
    <2>1. m3.prev = b2
      BY <1>8, Fields
    <2>  QED
      BY <1>1, <1>2, <2>1 DEF Pointers, b1
  <1>  HIDE DEF m3, b2
  <1>10. m4 = Mem(a2, b2)
    BY <1>8, <1>9, StoreNext
  <1>  HIDE DEF m4, a2
  <1>11. Lists!insert(Lists!unlink(m, old), e, before, after) = Mem(a3, b3)
    <2> DEFINE c == [a EXCEPT ![before] = after]
               d == [b EXCEPT ![after] = before]
    <2>1. Lists!unlink(m, old) = Mem(c, d)
      BY <1>1, <1>2, UnlinkIs
    <2>2. Lists!insert(Mem(c, d), e, before, after)
          = Mem([[c EXCEPT ![e] = after] EXCEPT ![before] = e],
                [[d EXCEPT ![after] = e] EXCEPT ![e] = before])
      <3>  HIDE DEF c, d
      <3>  QED
        BY InsertIs
    <2>  QED
      BY <2>1, <2>2
  <1>12. a2 = a3
    <2>1. a2 \in Pointers /\ a3 \in Pointers
      BY <1>1, <1>2 DEF Pointers, a2, a1
    <2>2. \A c \in Cells : a2[c] = a3[c]
      BY <1>1, <1>2 DEF Pointers, a2, a1
    <2>  HIDE DEF a3
    <2>  QED
      BY <2>1, <2>2 DEF Pointers
  <1>13. b2 = b3
    <2>1. b2 \in Pointers /\ b3 \in Pointers
      BY <1>1, <1>2 DEF Pointers, b2, b1
    <2>2. \A c \in Cells : b2[c] = b3[c]
      BY <1>1, <1>2 DEF Pointers, b2, b1
    <2>  HIDE DEF b3
    <2>  QED
      BY <2>1, <2>2 DEF Pointers
  <1>  QED
    BY <1>3, <1>10, <1>11, <1>12, <1>13 DEF old, before, after

-----------------------------------------------------------------------------
(* The lists: what the operations make of the sequences                      *)

Rows(len, cell) == [h \in Heads |-> SeqOf(len, cell, h)]

\* The entries of s are those of a row of cells, the first top of it.
Reads(s, top, r) == s \in Seq(Entries) /\ Len(s) = top /\ \A x \in 1 .. top : s[x] = r[x]
\* A row that is another one and then a third.
Follow(r, j, p, k, q) == (\A x \in 1 .. j : r[x] = p[x]) /\ (\A x \in 1 .. k : r[j + x] = q[x])
Skips(q, k, r, top) == \A x \in 1 .. top : q[x] = r[k + x]

LEMMA ReadsIs ==
  ASSUME NEW len, NEW cell, Shape(len, cell), NEW h \in Heads
  PROVE  len[h] \in Nat /\ Reads(SeqOf(len, cell, h), len[h], cell[h])
  <1> DEFINE top == len[h]
             r == cell[h]
             s == [k \in 1 .. top |-> r[k]]
  <1>1. top \in Nat /\ \A k \in 1 .. top : r[k] \in Entries
    BY DEF Shape
  <1>2. SeqOf(len, cell, h) = s
    BY DEF SeqOf
  <1>  HIDE DEF top, r
  <1>3. s \in [1 .. top -> Entries] /\ \A k \in 1 .. top : s[k] = r[k]
    BY <1>1
  <1>  HIDE DEF s
  <1>4. s \in Seq(Entries) /\ Len(s) = top
    BY <1>1, <1>3
  <1>  QED
    BY <1>1, <1>2, <1>3, <1>4 DEF Reads, top, r

LEMMA ReadsSame ==
  ASSUME NEW s, NEW t, NEW top, NEW r, Reads(s, top, r), Reads(t, top, r)
  PROVE  s = t
  <1>1. s \in Seq(Entries) /\ t \in Seq(Entries) /\ Len(s) = Len(t) /\ \A x \in 1 .. Len(s) : s[x] = t[x]
    BY DEF Reads
  <1>  QED
    BY <1>1, SeqEqual

LEMMA ReadsJoined ==
  ASSUME NEW j \in Nat, NEW k \in Nat, NEW both, both = j + k, NEW p, NEW q, NEW r,
         NEW s, NEW t, Reads(s, j, p), Reads(t, k, q), Follow(r, j, p, k, q)
  PROVE  Reads(s \o t, both, r)
  <1>1. s \in Seq(Entries) /\ t \in Seq(Entries) /\ Len(s) = j /\ Len(t) = k
    BY DEF Reads
  <1>2. /\ s \o t \in Seq(Entries) /\ Len(s \o t) = both
        /\ \A x \in 1 .. both : (s \o t)[x] = IF x <= j THEN s[x] ELSE t[x - j]
    BY <1>1, ConcatProperties
  <1>3. ASSUME NEW x \in 1 .. both  PROVE (s \o t)[x] = r[x]
    <2>1. x \in 1 .. j \/ (~(x <= j) /\ x - j \in 1 .. k /\ j + (x - j) = x)
      OBVIOUS
    <2>2. CASE x \in 1 .. j
      <3>1. x <= j
        BY <2>2
      <3>  QED
        BY <1>2, <2>2, <3>1 DEF Reads, Follow
    <2>3. CASE ~(x <= j) /\ x - j \in 1 .. k /\ j + (x - j) = x
      <3>1. t[x - j] = q[x - j] /\ r[x] = q[x - j]
        BY <2>3, Zenon DEF Reads, Follow
      <3>  QED
        BY <1>2, <2>3, <3>1
    <2>  QED
      BY <2>1, <2>2, <2>3
  <1>  QED
    BY <1>2, <1>3 DEF Reads

LEMMA ReadsOne ==
  ASSUME NEW e \in Entries  PROVE Reads(<<e>>, 1, [x \in Nat |-> e])
  BY DEF Reads

LEMMA RowReads ==
  ASSUME NEW top, NEW r, NEW s, Reads(s, top, r), top \in Nat
  PROVE  [x \in 1 .. top |-> r[x]] = s
  <1>1. s \in Seq(Entries) /\ Len(s) = top /\ \A x \in 1 .. top : s[x] = r[x]
    BY DEF Reads
  <1>2. s = [x \in 1 .. top |-> s[x]]
    BY <1>1
  <1>  QED
    BY <1>1, <1>2

LEMMA SeqReads ==
  ASSUME NEW len, NEW cell, NEW h, NEW s, NEW top \in Nat, len[h] = top, Reads(s, top, cell[h])
  PROVE  SeqOf(len, cell, h) = s
  BY RowReads DEF SeqOf

\* A part of a row, at its beginning and at its end.
LEMMA ReadsPart ==
  ASSUME NEW top \in Nat, NEW r, NEW s, Reads(s, top, r), NEW k \in 0 .. top
  PROVE  /\ Reads(SubSeq(s, 1, k), k, r)
         /\ \A q : Skips(q, k, r, top - k) => Reads(SubSeq(s, k + 1, top), top - k, q)
  <1>1. s \in Seq(Entries) /\ Len(s) = top /\ k \in Nat /\ k <= top
        /\ \A x \in 1 .. top : s[x] = r[x] /\ s[x] \in Entries
    BY DEF Reads
  <1>2. Reads(SubSeq(s, 1, k), k, r)
    <2>1. \A x \in 1 .. k : x \in 1 .. top
      BY <1>1
    <2> DEFINE t == SubSeq(s, 1, k)
    <2>2. t \in Seq(Entries) /\ Len(t) = k /\ \A x \in 1 .. k : t[x] = s[x]
      BY <1>1
    <2>  HIDE DEF t
    <2>  QED
      BY <1>1, <2>1, <2>2 DEF Reads, t
  <1>3. ASSUME NEW q, Skips(q, k, r, top - k)
        PROVE  Reads(SubSeq(s, k + 1, top), top - k, q)
    <2>1. \A x \in 1 .. top - k : k + x \in 1 .. top
      BY <1>1
    <2> DEFINE t == SubSeq(s, k + 1, top)
    <2>2. t \in Seq(Entries) /\ Len(t) = top - k /\ \A x \in 1 .. top - k : t[x] = s[k + x]
      BY <1>1
    <2>  HIDE DEF t
    <2>  QED
      BY <1>1, <1>3, <2>1, <2>2 DEF Reads, Skips, t
  <1>  QED
    BY <1>2, <1>3

\* An entry more, in front and at the end.
LEMMA LongerRows ==
  ASSUME NEW len, NEW cell, Shape(len, cell), NEW g \in Heads, NEW e \in Entries
  PROVE  /\ Rows(Longer(len, g), WithIn(cell, g, 0, e)) = [Rows(len, cell) EXCEPT ![g] = <<e>> \o @]
         /\ Rows(Longer(len, g), WithIn(cell, g, len[g], e)) = [Rows(len, cell) EXCEPT ![g] = Append(@, e)]
  <1> DEFINE top == len[g]
             r == cell[g]
             one == [x \in Nat |-> e]
             s == SeqOf(len, cell, g)
             len2 == Longer(len, g)
             front == WithIn(cell, g, 0, e)
             rear == WithIn(cell, g, top, e)
  <1>0. len \in [Heads -> Nat] /\ cell \in [Heads -> [Nat -> Cells]] /\ top \in Nat
    BY DEF Shape
  <1>1. len2[g] = top + 1 /\ \A h \in Heads : h # g => len2[h] = len[h]
    BY <1>0 DEF Longer
  <1>2. /\ front[g] = [j \in Nat |-> IF j <= 0 THEN r[j] ELSE IF j = 0 + 1 THEN e ELSE r[j - 1]]
        /\ rear[g] = [j \in Nat |-> IF j <= top THEN r[j] ELSE IF j = top + 1 THEN e ELSE r[j - 1]]
        /\ \A h \in Heads : h # g => front[h] = cell[h] /\ rear[h] = cell[h]
    BY <1>0 DEF WithIn
  <1>3. Reads(s, top, r) /\ Reads(<<e>>, 1, one)
    BY ReadsIs, ReadsOne
  <1>4. Follow(front[g], 1, one, top, r)
    <2>1. \A x \in 1 .. top : 1 + x \in Nat /\ ~(1 + x <= 0) /\ 1 + x # 0 + 1 /\ (1 + x) - 1 = x
      BY <1>0
    <2>2. one[1] = e /\ front[g][1] = e
      BY <1>2
    <2>3. ASSUME NEW x \in 1 .. top  PROVE front[g][1 + x] = r[x]
      <3>1. front[g][1 + x] = IF 1 + x <= 0 THEN r[1 + x] ELSE IF 1 + x = 0 + 1 THEN e ELSE r[(1 + x) - 1]
        BY <1>2, <2>1
      <3>  QED
        BY <2>1, <3>1
    <2>4. \A x \in 1 .. 1 : x = 1
      OBVIOUS
    <2>  HIDE DEF front, one, r, top
    <2>  QED
      BY <2>2, <2>3, <2>4 DEF Follow
  <1>5. Follow(rear[g], top, r, 1, one)
    <2>1. \A x \in 1 .. top : x \in Nat /\ x <= top
      BY <1>0
    <2>2. top + 1 \in Nat /\ ~(top + 1 <= top)
      BY <1>0
    <2>3. \A x \in 1 .. 1 : x = 1
      OBVIOUS
    <2>4. one[1] = e /\ rear[g][top + 1] = e /\ \A x \in 1 .. top : rear[g][x] = r[x]
      BY <1>2, <2>1, <2>2
    <2>  HIDE DEF rear, one, r, top
    <2>  QED
      BY <2>3, <2>4 DEF Follow
  <1>  HIDE DEF one, top, r, s, len2, front, rear
  <1>6. Reads(<<e>> \o s, top + 1, front[g]) /\ Reads(s \o <<e>>, top + 1, rear[g])
    <2>1. PICK k \in Nat : k = 1
      OBVIOUS
    <2>2. PICK both : both = top + 1
      OBVIOUS
    <2>3. both = k + top /\ both = top + k /\ Reads(<<e>>, k, one)
          /\ Follow(front[g], k, one, top, r) /\ Follow(rear[g], top, r, k, one)
      BY <1>0, <1>3, <1>4, <1>5, <2>1, <2>2
    <2>4. Reads(<<e>> \o s, both, front[g]) /\ Reads(s \o <<e>>, both, rear[g])
      BY <1>0, <1>3, <2>3, ReadsJoined
    <2>  QED
      BY <2>2, <2>4
  <1>10. top + 1 \in Nat
    BY <1>0
  <1>7. s \o <<e>> = Append(s, e)
    BY <1>3, AppendIsConcat DEF Reads
  <1>8. SeqOf(len2, front, g) = <<e>> \o s /\ SeqOf(len2, rear, g) = Append(s, e)
    BY <1>1, <1>6, <1>7, <1>10, SeqReads
  <1>9. \A h \in Heads : h # g => /\ SeqOf(len2, front, h) = SeqOf(len, cell, h)
                                  /\ SeqOf(len2, rear, h) = SeqOf(len, cell, h)
    BY <1>1, <1>2 DEF SeqOf
  <1>  QED
    BY <1>8, <1>9 DEF Rows, s, len2, front, rear, top

\* An entry less.  A sequence with nothing taken out, at 0, is what it was.
LEMMA RemovedReads ==
  ASSUME NEW top \in Nat, NEW r, NEW s, Reads(s, top, r)
  PROVE  /\ Lists!Contract!RemoveAt(s, 0) = s
         /\ \A k \in 1 .. top : \A q :
              (\A x \in 1 .. k - 1 : q[x] = r[x]) /\ (\A x \in 1 .. top - k : q[(k - 1) + x] = r[k + x])
              => Reads(Lists!Contract!RemoveAt(s, k), top - 1, q)
  <1>0. s \in Seq(Entries) /\ Len(s) = top
    BY DEF Reads
  <1>1. Lists!Contract!RemoveAt(s, 0) = s
    <2>1. SubSeq(s, 1, 0 - 1) = << >>
      BY SubSeqEmpty
    <2>2. SubSeq(s, 0 + 1, Len(s)) = s
      BY <1>0, SubSeqFull
    <2>3. << >> \o s = s
      BY <1>0, ConcatEmptySeq
    <2>  QED
      BY <2>1, <2>2, <2>3 DEF Lists!Contract!RemoveAt
  <1>2. ASSUME NEW k \in 1 .. top, NEW q, \A x \in 1 .. k - 1 : q[x] = r[x],
               \A x \in 1 .. top - k : q[(k - 1) + x] = r[k + x]
        PROVE  Reads(Lists!Contract!RemoveAt(s, k), top - 1, q)
    <2> DEFINE rest == [x \in Nat |-> r[k + x]]
               j == k - 1
               l == top - k
               both == top - 1
    <2>1. Skips(rest, k, r, l)
      BY DEF Skips
    <2>2. \A x \in 1 .. l : rest[x] = r[k + x]
      OBVIOUS
    <2>3. j \in Nat /\ j \in 0 .. top /\ l \in Nat /\ both = j + l /\ k \in 0 .. top /\ j <= top /\ k <= top
      OBVIOUS
    <2>4. Follow(q, j, r, l, rest)
      BY <1>2, <2>2 DEF Follow
    <2>5. Reads(SubSeq(s, 1, j), j, r) /\ Reads(SubSeq(s, k + 1, top), l, rest)
      <3>  HIDE DEF rest
      <3>  QED
        BY <2>1, <2>3, ReadsPart
    <2>6. Reads(SubSeq(s, 1, j) \o SubSeq(s, k + 1, top), both, q)
      <3>  HIDE DEF rest, j, l, both
      <3>  QED
        BY <2>3, <2>4, <2>5, ReadsJoined
    <2>  QED
      BY <1>0, <2>6 DEF Lists!Contract!RemoveAt
  <1>  QED
    BY <1>1, <1>2

\* Where an entry is.
LEMMA PlaceIs ==
  ASSUME NEW len, NEW cell, Shape(len, cell), Distinct(len, cell), NEW h \in Heads
  PROVE  /\ \A k \in 1 .. len[h] : Lists!Contract!Place(SeqOf(len, cell, h), cell[h][k]) = k
         /\ \A e : (\A k \in 1 .. len[h] : cell[h][k] # e)
                   => Lists!Contract!Place(SeqOf(len, cell, h), e) = 0
  <1> DEFINE s == SeqOf(len, cell, h)
             top == len[h]
             r == cell[h]
  <1>0. top \in Nat /\ Reads(s, top, r)
    BY ReadsIs
  <1>1. \A j, k \in 1 .. top : r[j] = r[k] => j = k
    <2>1. \A j \in 1 .. top : j \in 0 .. top
      BY <1>0
    <2>  QED
      BY <2>1 DEF Distinct
  <1>  HIDE DEF s, top, r
  <1>2. /\ s \in Seq(Entries) /\ Len(s) = top /\ DOMAIN s = 1 .. top
        /\ \A x \in 1 .. top : s[x] = r[x]
    BY <1>0 DEF Reads
  <1>3. \A e : Lists!Contract!Contains(s, e) <=> \E x \in 1 .. top : r[x] = e
    BY <1>2 DEF Lists!Contract!Contains
  <1>4. ASSUME NEW k \in 1 .. top  PROVE Lists!Contract!Place(s, r[k]) = k
    <2>1. Lists!Contract!Contains(s, r[k])
      BY <1>3
    <2>2. (CHOOSE x \in DOMAIN s : s[x] = r[k]) = k
      <3>1. \A x \in DOMAIN s : s[x] = r[k] <=> x = k
        BY <1>1, <1>2
      <3>  QED
        BY <1>2, <3>1
    <2>  QED
      BY <2>1, <2>2 DEF Lists!Contract!Place
  <1>5. ASSUME NEW e, \A k \in 1 .. top : r[k] # e  PROVE Lists!Contract!Place(s, e) = 0
    BY <1>3, <1>5 DEF Lists!Contract!Place
  <1>  QED
    BY <1>4, <1>5 DEF s, top, r

\* The lists without an entry.
Out(f, e) == [h \in Heads |-> Lists!Contract!RemoveAt(f[h], Lists!Contract!Place(f[h], e))]

LEMMA ShorterRows ==
  ASSUME NEW len, NEW cell, Shape(len, cell), Distinct(len, cell), NEW g \in Heads, NEW k \in 1 .. len[g]
  PROVE  Rows(Shorter(len, g), LeftOut(cell, g, k)) = Out(Rows(len, cell), cell[g][k])
  <1> DEFINE len2 == Shorter(len, g)
             cell2 == LeftOut(cell, g, k)
             e == cell[g][k]
             top == len[g]
             r == cell[g]
             q == cell2[g]
             s == SeqOf(len, cell, g)
  <1>0. len \in [Heads -> Nat] /\ cell \in [Heads -> [Nat -> Cells]] /\ top \in Nat /\ Reads(s, top, r)
    BY ReadsIs DEF Shape
  <1>1. len2[g] = top - 1 /\ \A h \in Heads : h # g => len2[h] = len[h]
    BY <1>0 DEF Shorter
  <1>2. /\ q = [j \in Nat |-> IF j < k THEN r[j] ELSE r[j + 1]]
        /\ \A h \in Heads : h # g => cell2[h] = cell[h]
    BY <1>0 DEF LeftOut
  <1>3. /\ Lists!Contract!Place(s, e) = k
        /\ \A h \in Heads : h # g => Lists!Contract!Place(SeqOf(len, cell, h), e) = 0
    <2>1. Lists!Contract!Place(s, e) = k
      BY PlaceIs
    <2>2. ASSUME NEW h \in Heads, h # g  PROVE \A j \in 1 .. len[h] : cell[h][j] # e
      <3>1. k \in 0 .. len[g] /\ \A j \in 1 .. len[h] : j \in 0 .. len[h]
        BY <1>0
      <3>  QED
        BY <2>2, <3>1 DEF Distinct
    <2>  QED
      BY <2>1, <2>2, PlaceIs
  <1>4. /\ \A x \in 1 .. k - 1 : q[x] = r[x]
        /\ \A x \in 1 .. top - k : q[(k - 1) + x] = r[k + x]
    <2>1. \A x \in 1 .. k - 1 : x \in Nat /\ x < k
      BY <1>0
    <2>2. \A x \in 1 .. top - k : (k - 1) + x \in Nat /\ ~((k - 1) + x < k) /\ ((k - 1) + x) + 1 = k + x
      BY <1>0
    <2>3. ASSUME NEW x \in 1 .. top - k  PROVE q[(k - 1) + x] = r[k + x]
      <3>1. q[(k - 1) + x] = r[((k - 1) + x) + 1]
        BY <1>2, <2>2
      <3>  QED
        BY <2>2, <3>1
    <2>  QED
      BY <1>2, <2>1, <2>3
  <1>  HIDE DEF len2, cell2, e, top, r, q, s
  <1>5. Reads(Lists!Contract!RemoveAt(s, k), top - 1, q)
    BY <1>0, <1>4, RemovedReads DEF top
  <1>6. top - 1 \in Nat
    BY <1>0 DEF top
  <1>7. SeqOf(len2, cell2, g) = Lists!Contract!RemoveAt(s, Lists!Contract!Place(s, e))
    BY <1>1, <1>3, <1>5, <1>6, SeqReads DEF q
  <1>8. ASSUME NEW h \in Heads, h # g
        PROVE  SeqOf(len2, cell2, h)
               = Lists!Contract!RemoveAt(SeqOf(len, cell, h), Lists!Contract!Place(SeqOf(len, cell, h), e))
    <2>1. SeqOf(len2, cell2, h) = SeqOf(len, cell, h)
      BY <1>1, <1>2, <1>8 DEF SeqOf
    <2>2. Lists!Contract!RemoveAt(SeqOf(len, cell, h), 0) = SeqOf(len, cell, h)
      BY ReadsIs, RemovedReads
    <2>  QED
      BY <1>3, <1>8, <2>1, <2>2
  <1>  QED
    BY <1>7, <1>8 DEF Rows, Out, s, len2, cell2, e

\* One entry for another.
LEMMA ReplacedRows ==
  ASSUME NEW len, NEW cell, Shape(len, cell), Distinct(len, cell), NEW g \in Heads, NEW k \in 1 .. len[g],
         NEW e
  PROVE  Rows(Longer(Shorter(len, g), g), WithIn(LeftOut(cell, g, k), g, k - 1, e))
         = [h \in Heads |-> Lists!Contract!ReplaceAll(Rows(len, cell)[h], cell[g][k], e)]
  <1> DEFINE len1 == Shorter(len, g)
             cell1 == LeftOut(cell, g, k)
             len2 == Longer(len1, g)
             cell2 == WithIn(cell1, g, k - 1, e)
             old == cell[g][k]
             top == len[g]
             r == cell[g]
  <1>0. len \in [Heads -> Nat] /\ cell \in [Heads -> [Nat -> Cells]] /\ top \in Nat
    BY DEF Shape
  <1>1. /\ len2[g] = top /\ \A h \in Heads : h # g => len2[h] = len[h]
    <2>1. /\ len1[g] = top - 1 /\ len1 \in [Heads -> Int] /\ \A h \in Heads : h # g => len1[h] = len[h]
      BY <1>0 DEF Shorter
    <2>  HIDE DEF len1
    <2>  QED
      BY <1>0, <2>1 DEF Longer
  <1>2. /\ \A j \in Nat : cell1[g][j] = IF j < k THEN r[j] ELSE r[j + 1]
        /\ \A h \in Heads : h # g => cell1[h] = cell[h]
        /\ DOMAIN cell1 = Heads
    BY <1>0 DEF LeftOut
  <1>  HIDE DEF cell1, len1
  <1>3. /\ \A j \in Nat : cell2[g][j] = IF j <= k - 1 THEN cell1[g][j]
                                        ELSE IF j = (k - 1) + 1 THEN e ELSE cell1[g][j - 1]
        /\ \A h \in Heads : h # g => cell2[h] = cell[h]
    BY <1>2 DEF WithIn
  <1>  HIDE DEF cell2, len2, top, r, old
  <1>4. ASSUME NEW x \in 1 .. top  PROVE cell2[g][x] = IF x = k THEN e ELSE r[x]
    <2>1. x \in Nat /\ (x < k \/ x = k \/ k < x) /\ (k - 1) + 1 = k
      BY <1>0 DEF top
    <2>2. CASE x < k
      <3>1. x <= k - 1 /\ x # k
        BY <2>1, <2>2
      <3>  QED
        BY <1>2, <1>3, <2>1, <2>2, <3>1
    <2>3. CASE x = k
      <3>1. ~(x <= k - 1)
        BY <2>1, <2>3
      <3>  QED
        BY <1>3, <2>1, <2>3, <3>1
    <2>4. CASE k < x
      <3>1. ~(x <= k - 1) /\ x # k /\ x - 1 \in Nat /\ ~(x - 1 < k) /\ (x - 1) + 1 = x
        BY <2>1, <2>4
      <3>2. cell2[g][x] = cell1[g][x - 1]
        BY <1>3, <2>1, <3>1
      <3>3. cell1[g][x - 1] = r[(x - 1) + 1]
        BY <1>2, <3>1
      <3>  QED
        BY <3>1, <3>2, <3>3
    <2>  QED
      BY <2>1, <2>2, <2>3, <2>4
  <1>5. ASSUME NEW h \in Heads, NEW x \in 1 .. len[h]
        PROVE  cell[h][x] = old <=> h = g /\ x = k
    <2>1. x \in 0 .. len[h] /\ k \in 0 .. len[g]
      BY <1>0
    <2>  QED
      BY <2>1 DEF Distinct, old
  <1>6. ASSUME NEW h \in Heads
        PROVE  SeqOf(len2, cell2, h) = Lists!Contract!ReplaceAll(SeqOf(len, cell, h), old, e)
    <2> DEFINE s == SeqOf(len, cell, h)
    <2>1. len[h] \in Nat /\ Len(s) = len[h] /\ \A x \in 1 .. len[h] : s[x] = cell[h][x]
      BY ReadsIs DEF Reads
    <2>2. \A x \in 1 .. len[h] : cell2[h][x] = IF s[x] = old THEN e ELSE s[x]
      BY <1>3, <1>4, <1>5, <2>1 DEF top, r
    <2>3. len2[h] = Len(s)
      BY <1>1, <2>1 DEF top
    <2>4. Lists!Contract!ReplaceAll(s, old, e) = [x \in 1 .. Len(s) |-> IF s[x] = old THEN e ELSE s[x]]
      BY DEF Lists!Contract!ReplaceAll
    <2>  HIDE DEF s
    <2>5. SeqOf(len2, cell2, h) = [x \in 1 .. Len(s) |-> cell2[h][x]]
      BY <2>3 DEF SeqOf
    <2>6. [x \in 1 .. Len(s) |-> cell2[h][x]] = [x \in 1 .. Len(s) |-> IF s[x] = old THEN e ELSE s[x]]
      BY <2>1, <2>2
    <2>  QED
      BY <2>4, <2>5, <2>6 DEF s
  <1>  QED
    BY <1>6 DEF Rows, len2, cell2, len1, cell1, old

\* A list in another, in front and at the end.
InFront(f, l, g) == [f EXCEPT ![g] = f[l] \o @, ![l] = << >>]
Behind(f, l, g) == [f EXCEPT ![g] = @ \o f[l], ![l] = << >>]

LEMMA JoinedRows ==
  ASSUME NEW len, NEW cell, Shape(len, cell), NEW g \in Heads, NEW l \in Heads, l # g
  PROVE  /\ Rows(JoinedLen(len, l, g), Joined(len, cell, l, g, 0)) = InFront(Rows(len, cell), l, g)
         /\ Rows(JoinedLen(len, l, g), Joined(len, cell, l, g, len[g])) = Behind(Rows(len, cell), l, g)
  <1> DEFINE len2 == JoinedLen(len, l, g)
             front == Joined(len, cell, l, g, 0)
             top == len[g]
             rear == Joined(len, cell, l, g, top)
             more == len[l]
             r == cell[g]
             q == cell[l]
             s == SeqOf(len, cell, g)
             t == SeqOf(len, cell, l)
             both == top + more
  <1>0. top \in Nat /\ more \in Nat /\ both \in Nat /\ both = more + top
    BY DEF Shape
  <1>1. len2[g] = both /\ len2[l] = 0 /\ \A h \in Heads : h # g /\ h # l => len2[h] = len[h]
    BY DEF JoinedLen
  <1>2. /\ front[g] = [j \in Nat |-> IF j <= 0 THEN r[j] ELSE IF j <= 0 + more THEN q[j - 0] ELSE r[j - more]]
        /\ rear[g] = [j \in Nat |-> IF j <= top THEN r[j] ELSE IF j <= top + more THEN q[j - top] ELSE r[j - more]]
        /\ \A h \in Heads : h # g /\ h # l => front[h] = cell[h] /\ rear[h] = cell[h]
    BY DEF Joined
  <1>3. Reads(s, top, r) /\ Reads(t, more, q)
    BY ReadsIs
  <1>  HIDE DEF front, rear, len2, top, more, r, q, s, t
  <1>4. Follow(front[g], more, q, top, r)
    <2>1. ASSUME NEW x \in 1 .. more  PROVE front[g][x] = q[x]
      <3>1. x \in Nat /\ ~(x <= 0) /\ x <= 0 + more /\ x - 0 = x
        BY <1>0
      <3>2. front[g][x] = q[x - 0]
        BY <1>2, <3>1
      <3>  QED
        BY <3>1, <3>2
    <2>2. ASSUME NEW x \in 1 .. top  PROVE front[g][more + x] = r[x]
      <3>1. more + x \in Nat /\ ~(more + x <= 0) /\ ~(more + x <= 0 + more) /\ (more + x) - more = x
        BY <1>0
      <3>2. front[g][more + x] = r[(more + x) - more]
        BY <1>2, <3>1
      <3>  QED
        BY <3>1, <3>2
    <2>  QED
      BY <2>1, <2>2 DEF Follow
  <1>5. Follow(rear[g], top, r, more, q)
    <2>1. ASSUME NEW x \in 1 .. top  PROVE rear[g][x] = r[x]
      <3>1. x \in Nat /\ x <= top
        BY <1>0
      <3>  QED
        BY <1>2, <3>1
    <2>2. ASSUME NEW x \in 1 .. more  PROVE rear[g][top + x] = q[x]
      <3>1. top + x \in Nat /\ ~(top + x <= top) /\ top + x <= top + more /\ (top + x) - top = x
        BY <1>0
      <3>2. rear[g][top + x] = q[(top + x) - top]
        BY <1>2, <3>1
      <3>  QED
        BY <3>1, <3>2
    <2>  QED
      BY <2>1, <2>2 DEF Follow
  <1>  HIDE DEF both
  <1>6. Reads(t \o s, both, front[g]) /\ Reads(s \o t, both, rear[g])
    <2>1. both = top + more
      BY DEF both
    <2>  QED
      BY <1>0, <1>3, <1>4, <1>5, <2>1, ReadsJoined
  <1>7. SeqOf(len2, front, g) = t \o s /\ SeqOf(len2, rear, g) = s \o t
    BY <1>0, <1>1, <1>6, SeqReads
  <1>8. SeqOf(len2, front, l) = << >> /\ SeqOf(len2, rear, l) = << >>
    BY <1>1 DEF SeqOf
  <1>9. \A h \in Heads : h # g /\ h # l => /\ SeqOf(len2, front, h) = SeqOf(len, cell, h)
                                           /\ SeqOf(len2, rear, h) = SeqOf(len, cell, h)
    BY <1>1, <1>2 DEF SeqOf
  <1>10. Rows(len2, front) = InFront(Rows(len, cell), l, g)
    BY <1>7, <1>8, <1>9 DEF Rows, InFront, s, t
  <1>11. Rows(len2, rear) = Behind(Rows(len, cell), l, g)
    BY <1>7, <1>8, <1>9 DEF Rows, Behind, s, t
  <1>  QED
    BY <1>10, <1>11 DEF len2, front, rear, top

\* A list in two.
LEMMA CutRows ==
  ASSUME NEW len, NEW cell, Shape(len, cell), NEW g \in Heads, NEW k \in 1 .. len[g],
         NEW l \in Heads, l # g
  PROVE  Rows(CutLen(len, l, g, k), CutCells(len, cell, l, g, k))
         = [Rows(len, cell) EXCEPT ![l] = SubSeq(Rows(len, cell)[g], 1, k),
                                   ![g] = SubSeq(@, k + 1, Len(@))]
  <1> DEFINE len2 == CutLen(len, l, g, k)
             cell2 == CutCells(len, cell, l, g, k)
             top == len[g]
             r == cell[g]
             s == SeqOf(len, cell, g)
             rest == top - k
  <1>0. top \in Nat /\ rest \in Nat /\ k \in 0 .. top /\ k \in Nat /\ Reads(s, top, r)
    BY ReadsIs DEF Shape
  <1>1. len2[g] = rest /\ len2[l] = k /\ \A h \in Heads : h # g /\ h # l => len2[h] = len[h]
    BY DEF CutLen
  <1>2. /\ cell2[g] = [j \in Nat |-> IF j = 0 THEN g ELSE r[j + k]]
        /\ cell2[l] = [j \in Nat |-> IF j \in 1 .. k THEN r[j] ELSE l]
        /\ \A h \in Heads : h # g /\ h # l => cell2[h] = cell[h]
    BY DEF CutCells
  <1>  HIDE DEF len2, cell2, r, s
  <1>3. Skips(cell2[g], k, r, rest)
    <2>1. \A x \in 1 .. rest : x \in Nat /\ x # 0 /\ x + k = k + x
      BY <1>0
    <2>2. ASSUME NEW x \in 1 .. rest  PROVE cell2[g][x] = r[k + x]
      <3>1. cell2[g][x] = r[x + k]
        BY <1>2, <2>1
      <3>  QED
        BY <2>1, <3>1
    <2>  QED
      BY <2>2 DEF Skips
  <1>4. Reads(SubSeq(s, 1, k), k, r) /\ Reads(SubSeq(s, k + 1, top), rest, cell2[g])
    <2>  HIDE DEF top
    <2>  QED
      BY <1>0, <1>3, ReadsPart
  <1>5. Reads(SubSeq(s, 1, k), k, cell2[l])
    <2>1. \A x \in 1 .. k : x \in Nat /\ cell2[l][x] = r[x]
      BY <1>0, <1>2
    <2>  QED
      BY <1>4, <2>1 DEF Reads
  <1>  HIDE DEF top, rest
  <1>6. SeqOf(len2, cell2, l) = SubSeq(s, 1, k) /\ SeqOf(len2, cell2, g) = SubSeq(s, k + 1, Len(s))
    <2>1. Len(s) = top
      BY <1>0 DEF Reads
    <2>  QED
      BY <1>0, <1>1, <1>4, <1>5, <2>1, SeqReads
  <1>7. \A h \in Heads : h # g /\ h # l => SeqOf(len2, cell2, h) = SeqOf(len, cell, h)
    BY <1>1, <1>2 DEF SeqOf
  <1>  QED
    BY <1>6, <1>7 DEF Rows, s, len2, cell2

-----------------------------------------------------------------------------
(* The lists: every operation                                                *)

\* What is stored is lists, and these sequences.
Becomes(m, f) ==
  \E len \in [Heads -> Nat], cell \in [Heads -> [Nat -> Cells]] :
    In(len, cell, m) /\ Rows(len, cell) = f

LEMMA BecomesBy ==
  ASSUME NEW len, NEW cell, NEW m, In(len, cell, m)  PROVE Becomes(m, Rows(len, cell))
  BY DEF Becomes, In, ListsAre, Shape

LEMMA AddBecomes ==
  ASSUME NEW len, NEW cell, NEW m, In(len, cell, m), NEW g \in Heads, NEW e, InNone(len, cell, e)
  PROVE  /\ Becomes(Lists!list_add(m, e, g), [Rows(len, cell) EXCEPT ![g] = <<e>> \o @])
         /\ Becomes(Lists!list_add_tail(m, e, g), [Rows(len, cell) EXCEPT ![g] = Append(@, e)])
  <1>1. /\ cell[g][0] = g /\ cell[g][len[g] + 1] = g /\ len[g] \in Nat
        /\ m.next[g] = cell[g][0 + 1] /\ m.prev[g] = cell[g][len[g]]
        /\ 0 \in 0 .. len[g] /\ len[g] \in 0 .. len[g]
    BY EndsAre
  <1>2. Becomes(Lists!insert(m, e, cell[g][0], cell[g][0 + 1]),
                Rows(Longer(len, g), WithIn(cell, g, 0, e)))
    BY <1>1, InsertDone, BecomesBy
  <1>3. Becomes(Lists!insert(m, e, cell[g][len[g]], cell[g][len[g] + 1]),
                Rows(Longer(len, g), WithIn(cell, g, len[g], e)))
    BY <1>1, InsertDone, BecomesBy
  <1>4. /\ Rows(Longer(len, g), WithIn(cell, g, 0, e)) = [Rows(len, cell) EXCEPT ![g] = <<e>> \o @]
        /\ Rows(Longer(len, g), WithIn(cell, g, len[g], e)) = [Rows(len, cell) EXCEPT ![g] = Append(@, e)]
    <2>1. Shape(len, cell) /\ e \in Entries
      BY DEF In, ListsAre, InNone
    <2>  QED
      BY <2>1, LongerRows
  <1>5. /\ Lists!list_add(m, e, g) = Lists!insert(m, e, cell[g][0], cell[g][0 + 1])
        /\ Lists!list_add_tail(m, e, g) = Lists!insert(m, e, cell[g][len[g]], cell[g][len[g] + 1])
    BY <1>1 DEF Lists!list_add, Lists!list_add_tail
  <1>  QED
    BY <1>2, <1>3, <1>4, <1>5

LEMMA DelBecomes ==
  ASSUME NEW len, NEW cell, NEW m, In(len, cell, m), NEW g \in Heads, NEW k \in 1 .. len[g]
  PROVE  /\ Becomes(Lists!list_del(m, cell[g][k]), Out(Rows(len, cell), cell[g][k]))
         /\ Becomes(Lists!list_del_init(m, cell[g][k]), Out(Rows(len, cell), cell[g][k]))
  <1>1. Rows(Shorter(len, g), LeftOut(cell, g, k)) = Out(Rows(len, cell), cell[g][k])
    BY ShorterRows DEF In, ListsAre
  <1>  QED
    BY <1>1, DelDone, BecomesBy

LEMMA ReplaceBecomes ==
  ASSUME NEW len, NEW cell, NEW m, In(len, cell, m), NEW g \in Heads, NEW k \in 1 .. len[g],
         NEW e, InNone(len, cell, e)
  PROVE  LET f == [h \in Heads |-> Lists!Contract!ReplaceAll(Rows(len, cell)[h], cell[g][k], e)]
         IN  /\ Becomes(Lists!list_replace(m, cell[g][k], e), f)
             /\ Becomes(Lists!list_replace_init(m, cell[g][k], e), f)
  <1> DEFINE f == [h \in Heads |-> Lists!Contract!ReplaceAll(Rows(len, cell)[h], cell[g][k], e)]
             old == cell[g][k]
             m1 == Lists!unlink(m, old)
             len1 == Shorter(len, g)
             cell1 == LeftOut(cell, g, k)
             m2 == Lists!insert(m1, e, cell[g][k - 1], cell[g][k + 1])
             len2 == Longer(len1, g)
             cell2 == WithIn(cell1, g, k - 1, e)
  <1>0. /\ len \in [Heads -> Nat] /\ cell \in [Heads -> [Nat -> Cells]] /\ len[g] \in Nat
        /\ Shape(len, cell) /\ Distinct(len, cell) /\ \A j \in 1 .. len[g] : cell[g][j] \in Entries
    BY DEF In, ListsAre, Shape
  <1>1. In(len1, cell1, m1) /\ InNone(len1, cell1, old)
    BY UnlinkDone
  <1>2. InNone(len1, cell1, e) /\ e # old
    BY <1>0, StaysOut DEF InNone
  <1>3. /\ len1[g] = len[g] - 1 /\ k - 1 \in 0 .. len1[g] /\ (k - 1) + 1 = k
        /\ cell1[g][k - 1] = cell[g][k - 1] /\ cell1[g][k] = cell[g][k + 1]
    <2>1. len1[g] = len[g] - 1
      BY <1>0 DEF Shorter
    <2>2. k - 1 \in 0 .. len[g] - 1 /\ (k - 1) + 1 = k /\ k - 1 \in Nat /\ k \in Nat
          /\ k - 1 < k /\ ~(k < k)
      BY <1>0
    <2>3. cell1[g] = [j \in Nat |-> IF j < k THEN cell[g][j] ELSE cell[g][j + 1]]
      BY <1>0 DEF LeftOut
    <2>  QED
      BY <2>1, <2>2, <2>3
  <1>4. Rows(len2, cell2) = f
    BY <1>0, ReplacedRows
  <1>  HIDE DEF m1, len1, cell1, f
  <1>5. In(len2, cell2, m2)
    BY <1>1, <1>2, <1>3, InsertDone
  <1>6. InNone(len2, cell2, old)
    <2>1. Shape(len1, cell1)
      BY <1>1 DEF In, ListsAre
    <2>  QED
      BY <1>1, <1>2, <1>3, <2>1, StaysOut
  <1>7. Lists!list_replace(m, old, e) = m2
    BY ReplaceIs DEF m1
  <1>8. old \in Cells
    BY <1>0, HeadsAndEntries
  <1>  HIDE DEF len2, cell2, m2, old
  <1>9. In(len2, cell2, Lists!store(Lists!store(m2, old, "next", old), old, "prev", old))
    BY <1>5, <1>6, <1>8, WriteDone
  <1>10. Lists!list_replace_init(m, old, e)
         = Lists!store(Lists!store(m2, old, "next", old), old, "prev", old)
    BY <1>7 DEF Lists!list_replace_init, Lists!INIT_LIST_HEAD
  <1>11. Becomes(Lists!list_replace(m, old, e), f) /\ Becomes(Lists!list_replace_init(m, old, e), f)
    BY <1>4, <1>5, <1>7, <1>9, <1>10, BecomesBy
  <1>  QED
    BY <1>11 DEF old, f

LEMMA MoveBecomes ==
  ASSUME NEW len, NEW cell, NEW m, In(len, cell, m), NEW g \in Heads, NEW k \in 1 .. len[g],
         NEW h \in Heads
  PROVE  LET e == cell[g][k]
         IN  /\ Becomes(Lists!list_move(m, e, h), [Out(Rows(len, cell), e) EXCEPT ![h] = <<e>> \o @])
             /\ Becomes(Lists!list_move_tail(m, e, h), [Out(Rows(len, cell), e) EXCEPT ![h] = Append(@, e)])
  <1> DEFINE e == cell[g][k]
             m1 == Lists!unlink(m, e)
             len1 == Shorter(len, g)
             cell1 == LeftOut(cell, g, k)
  <1>1. In(len1, cell1, m1) /\ InNone(len1, cell1, e)
    BY UnlinkDone
  <1>2. Rows(len1, cell1) = Out(Rows(len, cell), e)
    BY ShorterRows DEF In, ListsAre
  <1>  HIDE DEF len1, cell1, m1, e
  <1>3. /\ Becomes(Lists!list_add(m1, e, h), [Rows(len1, cell1) EXCEPT ![h] = <<e>> \o @])
        /\ Becomes(Lists!list_add_tail(m1, e, h), [Rows(len1, cell1) EXCEPT ![h] = Append(@, e)])
    BY <1>1, AddBecomes
  <1>4. /\ Lists!list_move(m, e, h) = Lists!list_add(m1, e, h)
        /\ Lists!list_move_tail(m, e, h) = Lists!list_add_tail(m1, e, h)
    BY DEF Lists!list_move, Lists!list_move_tail, m1
  <1>5. /\ Becomes(Lists!list_move(m, e, h), [Out(Rows(len, cell), e) EXCEPT ![h] = <<e>> \o @])
        /\ Becomes(Lists!list_move_tail(m, e, h), [Out(Rows(len, cell), e) EXCEPT ![h] = Append(@, e)])
    BY <1>2, <1>3, <1>4
  <1>  QED
    BY <1>5 DEF e

LEMMA RotateBecomes ==
  ASSUME NEW len, NEW cell, NEW m, In(len, cell, m), NEW g \in Heads
  PROVE  Becomes(Lists!list_rotate_left(m, g),
                 [Rows(len, cell) EXCEPT ![g] = IF @ = << >> THEN @ ELSE Tail(@) \o <<Head(@)>>])
  <1> DEFINE f == Rows(len, cell)
             s == SeqOf(len, cell, g)
             e == cell[g][1]
             out == Lists!Contract!RemoveAt(s, 1)
             f2 == [f EXCEPT ![g] = IF @ = << >> THEN @ ELSE Tail(@) \o <<Head(@)>>]
  <1>1. /\ len[g] \in Nat /\ m.next[g] = cell[g][1] /\ (Lists!list_empty(m, g) <=> len[g] = 0)
        /\ (len[g] # 0 => 1 \in 1 .. len[g])
    BY EndsAre
  <1>2. /\ Shape(len, cell) /\ Distinct(len, cell) /\ f \in [Heads -> Seq(Entries)] /\ f[g] = s
        /\ s \in Seq(Entries) /\ Len(s) = len[g] /\ \A x \in 1 .. len[g] : s[x] = cell[g][x]
    <2>1. Shape(len, cell) /\ Distinct(len, cell)
      BY DEF In, ListsAre
    <2>2. /\ \A h \in Heads : SeqOf(len, cell, h) \in Seq(Entries)
          /\ Len(s) = len[g] /\ \A x \in 1 .. len[g] : s[x] = cell[g][x]
      BY <2>1, ReadsIs DEF Reads
    <2>  QED
      BY <2>1, <2>2 DEF Rows
  <1>3. CASE len[g] = 0
    <2>1. s = << >>
      BY <1>2, <1>3, EmptySeq
    <2>2. f2 = f
      <3>  HIDE DEF f, s
      <3>  QED
        BY <1>2, <2>1
    <2>3. Becomes(m, f)
      BY BecomesBy
    <2>  QED
      BY <1>1, <1>3, <2>2, <2>3 DEF Lists!list_rotate_left
  <1>4. CASE len[g] # 0
    <2>1. /\ Becomes(Lists!list_move_tail(m, e, g), [Out(f, e) EXCEPT ![g] = Append(@, e)])
      BY <1>1, <1>4, MoveBecomes
    <2>2. Lists!list_rotate_left(m, g) = Lists!list_move_tail(m, e, g)
      BY <1>1, <1>4 DEF Lists!list_rotate_left
    <2>3. /\ Out(f, e)[g] = out
          /\ \A h \in Heads : h # g => Out(f, e)[h] = f[h]
      <3> DEFINE k == 1
      <3>1. k \in 1 .. len[g] /\ k = 1 /\ k \in 0 .. len[g]
        BY <1>1, <1>4
      <3>  HIDE DEF k
      <3>2. Lists!Contract!Place(SeqOf(len, cell, g), cell[g][k]) = k
        BY <1>2, <3>1, PlaceIs
      <3>3. ASSUME NEW h \in Heads, h # g
            PROVE  Lists!Contract!Place(SeqOf(len, cell, h), cell[g][k]) = 0
        <4>1. \A j \in 1 .. len[h] : cell[h][j] # cell[g][k]
          <5>1. len[h] \in Nat /\ \A j \in 1 .. len[h] : j \in 0 .. len[h]
            BY <1>2 DEF Shape
          <5>  QED
            BY <1>2, <3>1, <3>3, <5>1 DEF Distinct
        <4>  QED
          BY <1>2, <4>1, PlaceIs
      <3>4. \A h \in Heads : f[h] = SeqOf(len, cell, h)
                             /\ Lists!Contract!RemoveAt(SeqOf(len, cell, h), 0) = SeqOf(len, cell, h)
        BY <1>2, ReadsIs, RemovedReads DEF Rows
      <3>  HIDE DEF f
      <3>  QED
        BY <3>1, <3>2, <3>3, <3>4 DEF Out
    <2>4. out = Tail(s) /\ e = Head(s) /\ s # << >> /\ Tail(s) \in Seq(Entries) /\ e \in Entries
      <3>1. s # << >> /\ Head(s) = s[1]
        BY <1>1, <1>2, <1>4
      <3>2. Tail(s) = SubSeq(s, 2, Len(s)) /\ Tail(s) \in Seq(Entries) /\ Head(s) \in Entries
        BY <1>2, <3>1, TailIsSubSeq, HeadTailProperties
      <3>3. SubSeq(s, 1, 1 - 1) = << >>
        BY SubSeqEmpty
      <3>4. out = << >> \o SubSeq(s, 1 + 1, Len(s))
        BY <3>3 DEF Lists!Contract!RemoveAt
      <3>5. e = Head(s)
        BY <1>1, <1>2, <1>4, <3>1
      <3>6. << >> \o Tail(s) = Tail(s)
        BY <3>2, ConcatEmptySeq
      <3>7. 1 + 1 = 2
        OBVIOUS
      <3>  HIDE DEF s, out, e
      <3>  QED
        BY <3>1, <3>2, <3>4, <3>5, <3>6, <3>7
    <2>5. Append(out, e) = Tail(s) \o <<Head(s)>>
      <3>  HIDE DEF s, out, e
      <3>  QED
        BY <2>4, AppendIsConcat
    <2>6. [Out(f, e) EXCEPT ![g] = Append(@, e)] = f2
      <3>1. DOMAIN Out(f, e) = Heads
        BY DEF Out
      <3> DEFINE o == Out(f, e)
      <3>2. o = [h \in Heads |-> o[h]]
        BY DEF Out
      <3>  HIDE DEF f, s, out, e, o
      <3>  QED
        BY <1>2, <2>3, <2>4, <2>5, <3>1, <3>2 DEF o
    <2>  QED
      BY <2>1, <2>2, <2>6
  <1>  QED
    BY <1>3, <1>4

LEMMA SpliceBecomes ==
  ASSUME NEW len, NEW cell, NEW m, In(len, cell, m), NEW g \in Heads, NEW l \in Heads, l # g
  PROVE  /\ Becomes(Lists!list_splice_init(m, l, g), InFront(Rows(len, cell), l, g))
         /\ Becomes(Lists!list_splice_tail_init(m, l, g), Behind(Rows(len, cell), l, g))
  <1> DEFINE f == Rows(len, cell)
             front == InFront(f, l, g)
             rear == Behind(f, l, g)
  <1>1. /\ cell[g][0] = g /\ cell[g][len[g] + 1] = g /\ len[g] \in Nat
        /\ m.next[g] = cell[g][0 + 1] /\ m.prev[g] = cell[g][len[g]]
        /\ 0 \in 0 .. len[g] /\ len[g] \in 0 .. len[g]
    BY EndsAre
  <1>2. (Lists!list_empty(m, l) <=> len[l] = 0) /\ len[l] \in Nat
    BY EndsAre
  <1>3. Becomes(m, f) /\ Shape(len, cell)
    BY BecomesBy DEF In, ListsAre
  <1>4. ASSUME len[l] = 0
        PROVE  /\ Becomes(Lists!list_splice_init(m, l, g), front)
               /\ Becomes(Lists!list_splice_tail_init(m, l, g), rear)
    <2>1. f[l] = << >> /\ f[g] \in Seq(Entries) /\ f = [h \in Heads |-> f[h]]
      <3>1. Reads(SeqOf(len, cell, l), 0, cell[l]) /\ SeqOf(len, cell, g) \in Seq(Entries)
        BY <1>3, <1>4, ReadsIs DEF Reads
      <3>2. SeqOf(len, cell, l) = << >>
        BY <3>1, EmptySeq DEF Reads
      <3>  QED
        BY <3>1, <3>2 DEF Rows
    <2>  HIDE DEF f
    <2>2. f[l] \o f[g] = f[g] /\ f[g] \o f[l] = f[g]
      BY <2>1, ConcatEmptySeq
    <2>3. front = [f EXCEPT ![g] = f[g], ![l] = f[l]] /\ rear = front
      BY <2>1, <2>2 DEF InFront, Behind
    <2>5. front = f
      BY <2>1, <2>3
    <2>4. Lists!list_splice_init(m, l, g) = m /\ Lists!list_splice_tail_init(m, l, g) = m
      BY <1>2, <1>4 DEF Lists!list_splice_init, Lists!list_splice_tail_init
    <2>  HIDE DEF front, rear
    <2>  QED
      BY <1>3, <2>3, <2>4, <2>5
  <1>5. CASE len[l] > 0
    <2>1. /\ Rows(JoinedLen(len, l, g), Joined(len, cell, l, g, 0)) = front
          /\ Rows(JoinedLen(len, l, g), Joined(len, cell, l, g, len[g])) = rear
      BY <1>3, JoinedRows
    <2>  HIDE DEF front, rear
    <2>2. Becomes(Lists!INIT_LIST_HEAD(Lists!splice(m, l, cell[g][0], cell[g][0 + 1]), l), front)
      <3>1. In(JoinedLen(len, l, g), Joined(len, cell, l, g, 0),
               Lists!INIT_LIST_HEAD(Lists!splice(m, l, cell[g][0], cell[g][0 + 1]), l))
        BY <1>1, <1>5, SpliceDone
      <3>  QED
        BY <2>1, <3>1, BecomesBy
    <2>3. Becomes(Lists!INIT_LIST_HEAD(Lists!splice(m, l, cell[g][len[g]], cell[g][len[g] + 1]), l), rear)
      <3>1. In(JoinedLen(len, l, g), Joined(len, cell, l, g, len[g]),
               Lists!INIT_LIST_HEAD(Lists!splice(m, l, cell[g][len[g]], cell[g][len[g] + 1]), l))
        BY <1>1, <1>5, SpliceDone
      <3>  QED
        BY <2>1, <3>1, BecomesBy
    <2>4. ~Lists!list_empty(m, l)
      BY <1>2, <1>5
    <2>5. Becomes(Lists!list_splice_init(m, l, g), front) /\ Becomes(Lists!list_splice_tail_init(m, l, g), rear)
      BY <1>1, <2>2, <2>3, <2>4 DEF Lists!list_splice_init, Lists!list_splice_tail_init
    <2>  QED
      BY <2>5 DEF front, rear
  <1>6. len[l] = 0 \/ len[l] > 0
    BY <1>2
  <1>  QED
    BY <1>4, <1>5, <1>6

\* A list is cut behind one of its entries, or in front of all of them.
LEMMA CutBecomes ==
  ASSUME NEW len, NEW cell, NEW m, In(len, cell, m), NEW g \in Heads, NEW l \in Heads, l # g,
         len[l] = 0, NEW e, e = g \/ \E k \in 1 .. len[g] : e = cell[g][k]
  PROVE  Becomes(Lists!list_cut_position(m, l, g, e),
                 LET k == Lists!Contract!Place(Rows(len, cell)[g], e)
                 IN [Rows(len, cell) EXCEPT ![l] = SubSeq(Rows(len, cell)[g], 1, k),
                                            ![g] = SubSeq(@, k + 1, Len(@))])
  <1> DEFINE f == Rows(len, cell)
             Parted(k) == [f EXCEPT ![l] = SubSeq(f[g], 1, k), ![g] = SubSeq(@, k + 1, Len(@))]
             place == Lists!Contract!Place(f[g], e)
  <1>0. /\ Shape(len, cell) /\ Distinct(len, cell) /\ f[g] = SeqOf(len, cell, g) /\ f[l] = SeqOf(len, cell, l)
        /\ f = [h \in Heads |-> f[h]]
    BY DEF In, ListsAre, Rows
  <1>1. /\ len[g] \in Nat /\ f[g] \in Seq(Entries) /\ f[l] = << >>
        /\ \A x \in 1 .. len[g] : cell[g][x] \in Entries
    <2>1. len[g] \in Nat /\ f[g] \in Seq(Entries) /\ f[l] \in Seq(Entries) /\ Len(f[l]) = 0
      BY <1>0, ReadsIs DEF Reads
    <2>2. f[l] = << >>
      BY <2>1, EmptySeq
    <2>  QED
      BY <1>0, <2>1, <2>2 DEF Shape
  <1>2. ASSUME e = g  PROVE Becomes(Lists!list_cut_position(m, l, g, e), Parted(place))
    <2> DEFINE a == m.next
               b == m.prev
    <2>1. /\ m = Mem(a, b) /\ a \in Pointers /\ b \in Pointers /\ l \in Cells
          /\ a[l] = l /\ b[l] = l
      BY EndsAre DEF In, ListsAre
    <2>  HIDE DEF a, b
    <2>2. Lists!INIT_LIST_HEAD(m, l) = Mem([a EXCEPT ![l] = l], [b EXCEPT ![l] = l])
      BY <2>1, InitIs
    <2>3. [a EXCEPT ![l] = l] = a
      BY <2>1 DEF Pointers
    <2>4. [b EXCEPT ![l] = l] = b
      BY <2>1 DEF Pointers
    <2>5. Lists!INIT_LIST_HEAD(m, l) = m
      BY <2>1, <2>2, <2>3, <2>4
    <2>6. Lists!list_cut_position(m, l, g, e) = m
      BY <1>2, <2>5 DEF Lists!list_cut_position
    <2>7. place = 0
      <3>1. \A k \in 1 .. len[g] : cell[g][k] # e
        BY <1>1, <1>2, HeadsAndEntries
      <3>  QED
        BY <1>0, <3>1, PlaceIs
    <2>8. Parted(0) = f
      <3>1. SubSeq(f[g], 1, 0) = f[l]
        BY <1>1, SubSeqEmpty
      <3>2. SubSeq(f[g], 0 + 1, Len(f[g])) = f[g]
        BY <1>1, SubSeqFull
      <3>  HIDE DEF f
      <3>3. Parted(0) = [f EXCEPT ![l] = f[l], ![g] = f[g]]
        BY <1>0, <3>1, <3>2
      <3>  QED
        BY <1>0, <3>3
    <2>9. Becomes(m, f)
      BY BecomesBy
    <2>  HIDE DEF f, Parted, place
    <2>  QED
      BY <2>6, <2>7, <2>8, <2>9
  <1>3. ASSUME e # g  PROVE Becomes(Lists!list_cut_position(m, l, g, e), Parted(place))
    <2>1. PICK k \in 1 .. len[g] : e = cell[g][k]
      BY <1>3
    <2>2. place = k
      BY <1>0, <2>1, PlaceIs
    <2>3. Rows(CutLen(len, l, g, k), CutCells(len, cell, l, g, k)) = Parted(k)
      BY <1>0, CutRows
    <2>4. Becomes(Lists!cut(m, l, g, e), Parted(k))
      <3>1. In(CutLen(len, l, g, k), CutCells(len, cell, l, g, k), Lists!cut(m, l, g, cell[g][k]))
        BY CutDone
      <3>  HIDE DEF Parted
      <3>  QED
        BY <2>1, <2>3, <3>1, BecomesBy
    <2>5. Lists!list_cut_position(m, l, g, e) = Lists!cut(m, l, g, e)
      <3>1. ~Lists!list_empty(m, g) /\ m.next[g] = cell[g][1] /\ m.prev[g] = cell[g][len[g]]
        BY <1>1, EndsAre
      <3>2. m.next[g] = m.prev[g] => m.next[g] = e
        <4>1. 1 \in 0 .. len[g] /\ len[g] \in 0 .. len[g]
          BY <1>1
        <4>2. cell[g][1] = cell[g][len[g]] => 1 = len[g]
          BY <1>0, <4>1 DEF Distinct
        <4>3. 1 = len[g] => k = 1
          OBVIOUS
        <4>  QED
          BY <2>1, <3>1, <4>2, <4>3
      <3>  QED
        BY <1>3, <3>1, <3>2 DEF Lists!list_cut_position, Lists!list_is_singular
    <2>  HIDE DEF Parted, place
    <2>  QED
      BY <2>2, <2>4, <2>5
  <1>4. Becomes(Lists!list_cut_position(m, l, g, e), Parted(place))
    BY <1>2, <1>3
  <1>  QED
    BY <1>4

\* The sequences ListContract speaks of.
Told == [h \in Heads |-> Lists!entries(h)]

LEMMA ToldIs ==
  ASSUME NEW len, NEW cell, ListsAre(len, cell, next, prev)  PROVE Told = Rows(len, cell)
  BY EntriesAre DEF Told, Rows

LEMMA ToldThen ==
  ASSUME NEW len, NEW cell, ListsAre(len, cell, next, prev)'  PROVE Told' = Rows(len, cell)
  BY EntriesThen DEF Told, Rows

Good(c) == Becomes(Lists!After(c), Lists!Contract!Done(c)) /\ c.op \in Lists!Contract!Ops

\* Whatever operation a caller may ask for, the lists become what they should.
LEMMA OperateBecomes ==
  ASSUME NEW len, NEW cell, ListsAre(len, cell, next, prev),
         NEW c \in Lists!Calls, Lists!Legal(c)
  PROVE  Good(c)
  <1> DEFINE m == Lists!now
             f == Told
  <1>1. In(len, cell, m)
    BY DEF Lists!now, In, Mem
  <1>2. /\ \A e \in Lists!unlisted : InNone(len, cell, e)
        /\ \A e \in Entries \ Lists!unlisted : \E h \in Heads : \E k \in 1 .. len[h] : e = cell[h][k]
        /\ \A h \in Heads : Lists!listed(h) = {cell[h][k] : k \in 1 .. len[h]}
    BY ListedIs
  <1>0. Rows(len, cell) = f
    BY ToldIs
  <1>3. ASSUME NEW h \in Heads, NEW e \in Lists!unlisted
        PROVE  /\ Good([op |-> "add", head |-> h, entry |-> e])
               /\ Good([op |-> "add_tail", head |-> h, entry |-> e])
    <2> DEFINE c1 == [op |-> "add", head |-> h, entry |-> e]
               c2 == [op |-> "add_tail", head |-> h, entry |-> e]
               f1 == [f EXCEPT ![h] = <<e>> \o @]
               f2 == [f EXCEPT ![h] = Append(@, e)]
    <2>1. Becomes(Lists!list_add(m, e, h), f1) /\ Becomes(Lists!list_add_tail(m, e, h), f2)
      BY <1>0, <1>1, <1>2, AddBecomes
    <2>2. Lists!After(c1) = Lists!list_add(m, e, h) /\ Lists!After(c2) = Lists!list_add_tail(m, e, h)
      BY DEF Lists!After
    <2>3. Lists!Contract!Done(c1) = f1 /\ Lists!Contract!Done(c2) = f2
      BY DEF Lists!Contract!Done, Told
    <2>4. c1.op \in Lists!Contract!Ops /\ c2.op \in Lists!Contract!Ops
      BY DEF Lists!Contract!Ops
    <2>  HIDE DEF f1, f2, c1, c2, m
    <2>5. Good(c1) /\ Good(c2)
      BY <2>1, <2>2, <2>3, <2>4 DEF Good
    <2>  QED
      BY <2>5 DEF c1, c2
  <1>4. ASSUME NEW e \in Entries \ Lists!unlisted
        PROVE  Good([op |-> "del", entry |-> e]) /\ Good([op |-> "del_init", entry |-> e])
    <2> DEFINE c1 == [op |-> "del", entry |-> e]
               c2 == [op |-> "del_init", entry |-> e]
    <2>1. PICK g \in Heads : \E k \in 1 .. len[g] : e = cell[g][k]
      BY <1>2
    <2>2. Becomes(Lists!list_del(m, e), Out(f, e)) /\ Becomes(Lists!list_del_init(m, e), Out(f, e))
      BY <1>0, <1>1, <2>1, DelBecomes
    <2>3. Lists!After(c1) = Lists!list_del(m, e) /\ Lists!After(c2) = Lists!list_del_init(m, e)
      BY DEF Lists!After
    <2>4. Lists!Contract!Done(c1) = Lists!Contract!Without(e) /\ Lists!Contract!Done(c2) = Lists!Contract!Without(e)
      BY DEF Lists!Contract!Done
    <2>5. Lists!Contract!Without(e) = Out(f, e)
      BY DEF Lists!Contract!Without, Out, Told
    <2>6. c1.op \in Lists!Contract!Ops /\ c2.op \in Lists!Contract!Ops
      BY DEF Lists!Contract!Ops
    <2>  HIDE DEF c1, c2, m
    <2>7. Good(c1) /\ Good(c2)
      BY <2>2, <2>3, <2>4, <2>5, <2>6 DEF Good
    <2>  QED
      BY <2>7 DEF c1, c2
  <1>5. ASSUME NEW old \in Entries \ Lists!unlisted, NEW e \in Lists!unlisted
        PROVE  /\ Good([op |-> "replace", old |-> old, entry |-> e])
               /\ Good([op |-> "replace_init", old |-> old, entry |-> e])
    <2> DEFINE c1 == [op |-> "replace", old |-> old, entry |-> e]
               c2 == [op |-> "replace_init", old |-> old, entry |-> e]
               f1 == [h \in Heads |-> Lists!Contract!ReplaceAll(f[h], old, e)]
    <2>1. PICK g \in Heads : \E k \in 1 .. len[g] : old = cell[g][k]
      BY <1>2
    <2>2. Becomes(Lists!list_replace(m, old, e), f1) /\ Becomes(Lists!list_replace_init(m, old, e), f1)
      BY <1>0, <1>1, <1>2, <2>1, ReplaceBecomes
    <2>3. Lists!After(c1) = Lists!list_replace(m, old, e) /\ Lists!After(c2) = Lists!list_replace_init(m, old, e)
      BY DEF Lists!After
    <2>4. Lists!Contract!Done(c1) = f1 /\ Lists!Contract!Done(c2) = f1
      BY DEF Lists!Contract!Done, Told
    <2>5. c1.op \in Lists!Contract!Ops /\ c2.op \in Lists!Contract!Ops
      BY DEF Lists!Contract!Ops
    <2>  HIDE DEF c1, c2, f1, m
    <2>6. Good(c1) /\ Good(c2)
      BY <2>2, <2>3, <2>4, <2>5 DEF Good
    <2>  QED
      BY <2>6 DEF c1, c2
  <1>6. ASSUME NEW h \in Heads, NEW e \in Entries \ Lists!unlisted
        PROVE  /\ Good([op |-> "move", head |-> h, entry |-> e])
               /\ Good([op |-> "move_tail", head |-> h, entry |-> e])
    <2> DEFINE c1 == [op |-> "move", head |-> h, entry |-> e]
               c2 == [op |-> "move_tail", head |-> h, entry |-> e]
               f1 == [Out(f, e) EXCEPT ![h] = <<e>> \o @]
               f2 == [Out(f, e) EXCEPT ![h] = Append(@, e)]
    <2>1. PICK g \in Heads : \E k \in 1 .. len[g] : e = cell[g][k]
      BY <1>2
    <2>2. Becomes(Lists!list_move(m, e, h), f1) /\ Becomes(Lists!list_move_tail(m, e, h), f2)
      BY <1>0, <1>1, <2>1, MoveBecomes
    <2>3. Lists!After(c1) = Lists!list_move(m, e, h) /\ Lists!After(c2) = Lists!list_move_tail(m, e, h)
      BY DEF Lists!After
    <2>4. Lists!Contract!Without(e) = Out(f, e)
      BY DEF Lists!Contract!Without, Out, Told
    <2>5. /\ Lists!Contract!Done(c1) = [Lists!Contract!Without(e) EXCEPT ![h] = <<e>> \o @]
          /\ Lists!Contract!Done(c2) = [Lists!Contract!Without(e) EXCEPT ![h] = Append(@, e)]
      BY DEF Lists!Contract!Done
    <2>6. c1.op \in Lists!Contract!Ops /\ c2.op \in Lists!Contract!Ops
      BY DEF Lists!Contract!Ops
    <2>7. Lists!Contract!Done(c1) = f1 /\ Lists!Contract!Done(c2) = f2
      BY <2>4, <2>5
    <2>  HIDE DEF c1, c2, f1, f2, m
    <2>8. Good(c1) /\ Good(c2)
      BY <2>2, <2>3, <2>6, <2>7 DEF Good
    <2>  QED
      BY <2>8 DEF c1, c2
  <1>7. ASSUME NEW h \in Heads
        PROVE  Good([op |-> "rotate_left", head |-> h])
    <2> DEFINE c1 == [op |-> "rotate_left", head |-> h]
               f1 == [f EXCEPT ![h] = IF @ = << >> THEN @ ELSE Tail(@) \o <<Head(@)>>]
    <2>1. Becomes(Lists!list_rotate_left(m, h), f1)
      BY <1>0, <1>1, RotateBecomes
    <2>2. Lists!After(c1) = Lists!list_rotate_left(m, h)
      BY DEF Lists!After
    <2>3. Lists!Contract!Done(c1) = f1
      BY DEF Lists!Contract!Done, Told
    <2>4. c1.op \in Lists!Contract!Ops
      BY DEF Lists!Contract!Ops
    <2>  HIDE DEF c1, f1, m
    <2>5. Good(c1)
      BY <2>1, <2>2, <2>3, <2>4 DEF Good
    <2>  QED
      BY <2>5 DEF c1
  <1>8. ASSUME NEW h \in Heads, NEW l \in Heads, l # h
        PROVE  /\ Good([op |-> "splice_init", head |-> h, list |-> l])
               /\ Good([op |-> "splice_tail_init", head |-> h, list |-> l])
    <2> DEFINE c1 == [op |-> "splice_init", head |-> h, list |-> l]
               c2 == [op |-> "splice_tail_init", head |-> h, list |-> l]
    <2>1. /\ Becomes(Lists!list_splice_init(m, l, h), InFront(f, l, h))
          /\ Becomes(Lists!list_splice_tail_init(m, l, h), Behind(f, l, h))
      BY <1>0, <1>1, <1>8, SpliceBecomes
    <2>2. /\ Lists!After(c1) = Lists!list_splice_init(m, l, h)
          /\ Lists!After(c2) = Lists!list_splice_tail_init(m, l, h)
      BY DEF Lists!After
    <2>3. Lists!Contract!Done(c1) = InFront(f, l, h) /\ Lists!Contract!Done(c2) = Behind(f, l, h)
      BY DEF Lists!Contract!Done, Told, InFront, Behind
    <2>4. c1.op \in Lists!Contract!Ops /\ c2.op \in Lists!Contract!Ops
      BY DEF Lists!Contract!Ops
    <2>  HIDE DEF c1, c2, m
    <2>5. Good(c1) /\ Good(c2)
      BY <2>1, <2>2, <2>3, <2>4 DEF Good
    <2>  QED
      BY <2>5 DEF c1, c2
  <1>9. ASSUME NEW l \in Heads, Lists!entries(l) = << >>, NEW h \in Heads, l # h,
               NEW e \in Lists!listed(h) \cup {h}
        PROVE  Good([op |-> "cut_position", list |-> l, head |-> h, entry |-> e])
    <2> DEFINE c1 == [op |-> "cut_position", list |-> l, head |-> h, entry |-> e]
               k == Lists!Contract!Place(f[h], e)
               f1 == [f EXCEPT ![l] = SubSeq(f[h], 1, k), ![h] = SubSeq(@, k + 1, Len(@))]
    <2>1. len[l] = 0
      <3>1. SeqOf(len, cell, l) = << >> /\ len[l] \in Nat
        BY <1>9, EntriesAre DEF ListsAre, Shape
      <3>2. DOMAIN SeqOf(len, cell, l) = 1 .. len[l]
        BY DEF SeqOf
      <3>3. 1 .. len[l] = {}
        BY <3>1, <3>2
      <3>  QED
        BY <3>1, <3>3
    <2>2. Becomes(Lists!list_cut_position(m, l, h, e), f1)
      BY <1>0, <1>1, <1>2, <1>9, <2>1, CutBecomes
    <2>3. Lists!After(c1) = Lists!list_cut_position(m, l, h, e)
      BY DEF Lists!After
    <2>4. Lists!Contract!Done(c1) = f1
      BY DEF Lists!Contract!Done, Told
    <2>5. c1.op \in Lists!Contract!Ops
      BY DEF Lists!Contract!Ops
    <2>  HIDE DEF c1, f1, m
    <2>6. Good(c1)
      BY <2>2, <2>3, <2>4, <2>5 DEF Good
    <2>  QED
      BY <2>6 DEF c1
  <1>  HIDE DEF m
  <1>10. CASE \E o \in {"add", "add_tail"}, h \in Heads, e \in Lists!unlisted :
                c = [op |-> o, head |-> h, entry |-> e]
    BY <1>3, <1>10
  <1>11. CASE \E o \in {"del", "del_init"}, e \in Entries \ Lists!unlisted : c = [op |-> o, entry |-> e]
    BY <1>4, <1>11
  <1>12. CASE \E o \in {"replace", "replace_init"}, old \in Entries \ Lists!unlisted, e \in Lists!unlisted :
                c = [op |-> o, old |-> old, entry |-> e]
    BY <1>5, <1>12
  <1>13. CASE \E o \in {"move", "move_tail"}, h \in Heads, e \in Entries \ Lists!unlisted :
                c = [op |-> o, head |-> h, entry |-> e]
    BY <1>6, <1>13
  <1>14. CASE \E h \in Heads : c = [op |-> "rotate_left", head |-> h]
    BY <1>7, <1>14
  <1>15. CASE \E o \in {"splice_init", "splice_tail_init"}, h \in Heads, l \in Heads :
                c = [op |-> o, head |-> h, list |-> l]
    <2>1. PICK o \in {"splice_init", "splice_tail_init"}, h \in Heads, l \in Heads :
                 c = [op |-> o, head |-> h, list |-> l]
      BY <1>15
    <2>2. c.op = o /\ c.list = l /\ c.head = h
      BY <2>1
    <2>3. l # h
      BY <2>2 DEF Lists!Legal
    <2>  QED
      BY <1>8, <2>1, <2>3
  <1>16. CASE \E l \in {k \in Heads : Lists!entries(k) = << >>}, h \in Heads, e \in Lists!Cells :
                c = [op |-> "cut_position", list |-> l, head |-> h, entry |-> e]
    <2>1. PICK l \in {k \in Heads : Lists!entries(k) = << >>}, h \in Heads, e \in Lists!Cells :
                 c = [op |-> "cut_position", list |-> l, head |-> h, entry |-> e]
      BY <1>16
    <2>2. c.op = "cut_position" /\ c.list = l /\ c.head = h /\ c.entry = e
      BY <2>1
    <2>3. l # h /\ e \in Lists!listed(h) \cup {h}
      BY <2>2 DEF Lists!Legal
    <2>  QED
      BY <1>9, <2>1, <2>3
  <1>  QED
    BY <1>10, <1>11, <1>12, <1>13, <1>14, <1>15, <1>16 DEF Lists!Calls

-----------------------------------------------------------------------------
(* The lists: the invariant                                                  *)

\* The loop is at an entry with d before it in the list that are still there, and what is
\* from there on in the list is what it has yet to visit.
Ahead(len, cell, d) ==
  /\ len[over] = d + (Len(expected) - Len(visited))
  /\ \A j \in 1 .. Len(expected) - Len(visited) : cell[over][d + j] = expected[Len(visited) + j]
  /\ pos = cell[over][d + 1]
  /\ pos # over => n = cell[over][d + 2]

Going(len, cell) ==
  /\ over \in Heads /\ n \in Cells
  /\ visited \in Seq(Entries) /\ expected \in Seq(Entries) /\ Len(visited) <= Len(expected)
  /\ \A k \in 1 .. Len(visited) : visited[k] = expected[k]
  /\ \E d \in Nat : Ahead(len, cell, d)

LoopIs(len, cell) == IF over = NULL THEN pos = NULL /\ n = NULL ELSE Going(len, cell)

ListsInv ==
  \E len \in [Heads -> Nat], cell \in [Heads -> [Nat -> Cells]] :
    ListsAre(len, cell, next, prev) /\ LoopIs(len, cell)

LEMMA ListsBy ==
  ASSUME NEW len, NEW cell, ListsAre(len, cell, next, prev)', LoopIs(len, cell)'
  PROVE  ListsInv'
  BY DEF ListsInv, ListsAre, Shape

\* What is stored is what the lists are then.
LEMMA StoredBy ==
  ASSUME NEW len, NEW cell, NEW m, In(len, cell, m), Lists!stored(m)
  PROVE  ListsAre(len, cell, next, prev)'
  BY DEF Lists!stored, In

\* The pointer behind a cell of a list is a cell of it again.
LEMMA BehindIsCell ==
  ASSUME NEW len, NEW cell, NEW a, NEW b, ListsAre(len, cell, a, b),
         NEW h \in Heads, NEW j \in 1 .. len[h] + 1
  PROVE  /\ cell[h][j] \in Cells /\ a[cell[h][j]] \in Cells
         /\ j # len[h] + 1 => a[cell[h][j]] = cell[h][j + 1] /\ cell[h][j] \in Entries
         /\ cell[h][j] = h <=> j = len[h] + 1
  <1>0. /\ cell \in [Heads -> [Nat -> Cells]] /\ len[h] \in Nat
        /\ cell[h][0] = h /\ cell[h][len[h] + 1] = h
        /\ \A k \in 1 .. len[h] : cell[h][k] \in Entries
        /\ \A k \in 0 .. len[h] : a[cell[h][k]] = cell[h][k + 1]
    BY DEF ListsAre, Shape, Linked
  <1>1. CASE j = len[h] + 1
    <2>1. 0 \in 0 .. len[h] /\ 0 + 1 \in Nat
      BY <1>0
    <2>  QED
      BY <1>0, <1>1, <2>1
  <1>2. CASE j # len[h] + 1
    <2>1. j \in 1 .. len[h] /\ j \in 0 .. len[h] /\ j + 1 \in Nat /\ j \in Nat
      BY <1>0, <1>2
    <2>  QED
      BY <1>0, <1>2, <2>1, HeadsAndEntries
  <1>  QED
    BY <1>1, <1>2

\* One turn of the loop, whatever the body has done to the entry.
LEMMA GoesOn ==
  ASSUME NEW len, NEW cell, ListsAre(len, cell, next, prev)', NEW d \in Nat,
         over \in Heads, over' = over, expected' = expected,
         visited \in Seq(Entries), expected \in Seq(Entries), Len(visited) < Len(expected),
         \A k \in 1 .. Len(visited) : visited[k] = expected[k],
         pos = expected[Len(visited) + 1], visited' = Append(visited, pos),
         len[over] = d + (Len(expected) - (Len(visited) + 1)),
         \A j \in 1 .. Len(expected) - (Len(visited) + 1) :
           cell[over][d + j] = expected[(Len(visited) + 1) + j],
         pos' = cell[over][d + 1], pos' \in Cells => n' = next'[pos']
  PROVE  LoopIs(len, cell)'
  <1>1. Len(visited) \in Nat /\ Len(expected) \in Nat /\ Len(visited) + 1 \in 1 .. Len(expected)
    OBVIOUS
  <1>2. pos \in Entries
    BY <1>1, ElementOfSeq
  <1>3. /\ visited' \in Seq(Entries) /\ Len(visited') = Len(visited) + 1
        /\ \A k \in 1 .. Len(visited) : visited'[k] = visited[k]
        /\ visited'[Len(visited) + 1] = pos
    BY <1>2, AppendProperties
  <1>4. \A k \in 1 .. Len(visited') : visited'[k] = expected'[k]
    <2>1. \A k \in 1 .. Len(visited') : k \in 1 .. Len(visited) \/ k = Len(visited) + 1
      BY <1>1, <1>3
    <2>  QED
      BY <1>3, <2>1
  <1>5. d + 1 \in 1 .. len[over] + 1 /\ (d + 1) + 1 = d + 2
    BY <1>1
  <1>6. pos' \in Cells /\ n' \in Cells /\ (pos' # over => n' = cell[over][d + 2])
    <2>1. /\ cell[over][d + 1] \in Cells /\ next'[cell[over][d + 1]] \in Cells
          /\ d + 1 # len[over] + 1 => next'[cell[over][d + 1]] = cell[over][(d + 1) + 1]
          /\ cell[over][d + 1] = over <=> d + 1 = len[over] + 1
      <3>1. ListsAre(len, cell, next', prev')
        OBVIOUS
      <3> DEFINE a == next'
                 b == prev'
                 h == over
      <3>2. ListsAre(len, cell, a, b) /\ h \in Heads /\ d + 1 \in 1 .. len[h] + 1
        BY <1>5, <3>1
      <3>  HIDE DEF a, b, h
      <3>3. /\ cell[h][d + 1] \in Cells /\ a[cell[h][d + 1]] \in Cells
            /\ d + 1 # len[h] + 1 => a[cell[h][d + 1]] = cell[h][(d + 1) + 1]
            /\ cell[h][d + 1] = h <=> d + 1 = len[h] + 1
        BY <3>2, BehindIsCell
      <3>  QED
        BY <3>3 DEF a, b, h
    <2>2. pos' \in Cells /\ n' = next'[cell[over][d + 1]]
      BY <2>1
    <2>3. n' \in Cells
      BY <2>1, <2>2
    <2>4. pos' # over => n' = cell[over][d + 2]
      BY <1>5, <2>1, <2>2
    <2>  QED
      BY <2>2, <2>3, <2>4
  <1>7. over # NULL
    BY HeadsAndEntries
  <1>8. Len(visited') <= Len(expected')
    BY <1>1, <1>3
  <1>9. Going(len, cell)'
    <2>1. Ahead(len, cell, d)'
      BY <1>3, <1>6 DEF Ahead
    <2>  QED
      BY <1>3, <1>4, <1>6, <1>8, <2>1 DEF Going
  <1>  QED
    BY <1>7, <1>9 DEF LoopIs

LEMMA ListsAtFirst ==
  ASSUME Lists!Init
  PROVE  \E len \in [Heads -> Nat], cell \in [Heads -> [Nat -> Cells]] :
           ListsAre(len, cell, next, prev) /\ LoopIs(len, cell) /\ \A h \in Heads : len[h] = 0
  <1> DEFINE len == [h \in Heads |-> 0]
             cell == [h \in Heads |-> [k \in Nat |-> h]]
  <1>0. Heads \cap Entries = {} /\ Cells = Heads \cup Entries /\ Lists!Cells = Cells
    BY HeadsAndEntries DEF Cells
  <1>1. /\ len \in [Heads -> Nat] /\ cell \in [Heads -> [Nat -> Cells]]
        /\ \A h \in Heads : len[h] = 0 /\ \A k \in Nat : cell[h][k] = h
    BY <1>0
  <1>  HIDE DEF len, cell
  <1>2. /\ next \in Pointers /\ prev \in Pointers
        /\ \A h \in Heads : next[h] = h /\ prev[h] = h
    BY <1>0 DEF Lists!Init, Pointers
  <1>3. Shape(len, cell)
    BY <1>1 DEF Shape
  <1>4. Distinct(len, cell) /\ Linked(len, cell, next, prev)
    BY <1>1, <1>2 DEF Distinct, Linked
  <1>5. LoopIs(len, cell)
    BY DEF Lists!Init, LoopIs
  <1>  QED
    BY <1>1, <1>2, <1>3, <1>4, <1>5 DEF ListsAre

LEMMA ListsInit == Lists!Init => ListsInv
  BY ListsAtFirst DEF ListsInv

\* Operations between two loops.
LEMMA OperateKeeps == ListsInv /\ Lists!operate => ListsInv'
  <1> SUFFICES ASSUME ListsInv, Lists!operate  PROVE ListsInv'
    OBVIOUS
  <1>1. PICK len \in [Heads -> Nat], cell \in [Heads -> [Nat -> Cells]] :
               ListsAre(len, cell, next, prev) /\ LoopIs(len, cell)
    BY DEF ListsInv
  <1>2. /\ over = NULL /\ over' = over /\ pos' = pos /\ n' = n
    BY DEF Lists!operate, Lists!loop
  <1>3. PICK c \in Lists!Calls : Lists!Legal(c) /\ Lists!stored(Lists!After(c))
    BY DEF Lists!operate
  <1>4. Good(c)
    BY <1>1, <1>3, OperateBecomes
  <1>5. PICK len2 \in [Heads -> Nat], cell2 \in [Heads -> [Nat -> Cells]] :
               In(len2, cell2, Lists!After(c))
    BY <1>4 DEF Good, Becomes
  <1>6. ListsAre(len2, cell2, next, prev)'
    BY <1>3, <1>5, StoredBy
  <1>7. LoopIs(len2, cell2)'
    BY <1>1, <1>2 DEF LoopIs
  <1>  QED
    BY <1>6, <1>7, ListsBy

LEMMA FreeKeeps == ASSUME NEW e \in Entries  PROVE ListsInv /\ Lists!free(e) => ListsInv'
  <1> SUFFICES ASSUME ListsInv, Lists!free(e)  PROVE ListsInv'
    OBVIOUS
  <1>1. PICK len \in [Heads -> Nat], cell \in [Heads -> [Nat -> Cells]] :
               ListsAre(len, cell, next, prev) /\ LoopIs(len, cell)
    BY DEF ListsInv
  <1>2. /\ over = NULL /\ over' = over /\ pos' = pos /\ n' = n /\ e \in Lists!unlisted
        /\ Lists!stored(Lists!store(Lists!store(Lists!now, e, "next", Dead), e, "prev", Dead))
    BY DEF Lists!free, Lists!loop
  <1>3. In(len, cell, Lists!now)
    BY <1>1 DEF Lists!now, In, Mem
  <1>4. InNone(len, cell, e)
    BY <1>1, <1>2, ListedIs
  <1>5. In(len, cell, Lists!store(Lists!store(Lists!now, e, "next", Dead), e, "prev", Dead))
    BY <1>3, <1>4, WriteDone
  <1>6. ListsAre(len, cell, next, prev)'
    BY <1>2, <1>5, StoredBy
  <1>7. LoopIs(len, cell)'
    BY <1>1, <1>2 DEF LoopIs
  <1>  QED
    BY <1>6, <1>7, ListsBy

LEMMA BeginKeeps == ASSUME NEW h \in Heads  PROVE ListsInv /\ Lists!begin(h) => ListsInv'
  <1> SUFFICES ASSUME ListsInv, Lists!begin(h)  PROVE ListsInv'
    OBVIOUS
  <1>1. PICK len \in [Heads -> Nat], cell \in [Heads -> [Nat -> Cells]] :
               ListsAre(len, cell, next, prev) /\ LoopIs(len, cell)
    BY DEF ListsInv
  <1>2. /\ over' = h /\ pos' = next[h] /\ n' = next[pos'] /\ visited' = << >>
        /\ expected' = Lists!entries(h) /\ next' = next /\ prev' = prev
    BY DEF Lists!begin, Lists!mem
  <1>3. expected' = SeqOf(len, cell, h)
    BY <1>1, <1>2, EntriesAre
  <1>4. /\ len[h] \in Nat /\ cell[h][0] = h /\ \A k \in 1 .. len[h] : cell[h][k] \in Entries
        /\ next[h] = cell[h][1]
    <2>1. len[h] \in Nat /\ cell[h][0] = h /\ \A k \in 1 .. len[h] : cell[h][k] \in Entries
      BY <1>1 DEF ListsAre, Shape
    <2>2. 0 \in 0 .. len[h] /\ 0 + 1 = 1
      BY <2>1
    <2>  QED
      BY <1>1, <2>1, <2>2 DEF ListsAre, Linked
  <1>5. /\ expected' \in Seq(Entries) /\ Len(expected') = len[h]
        /\ \A k \in 1 .. len[h] : expected'[k] = cell[h][k]
    <2>  HIDE DEF Lists!begin
    <2>1. SeqOf(len, cell, h) \in Seq(Entries) /\ Len(SeqOf(len, cell, h)) = len[h]
      <3> DEFINE top == len[h]
                 s == SeqOf(len, cell, h)
      <3>1. s \in [1 .. top -> Entries] /\ top \in Nat
        BY <1>4 DEF SeqOf
      <3>  HIDE DEF top, s
      <3>2. s \in Seq(Entries) /\ Len(s) = top
        BY <3>1
      <3>  QED
        BY <3>2 DEF top, s
    <2>2. \A k \in 1 .. len[h] : SeqOf(len, cell, h)[k] = cell[h][k]
      BY DEF SeqOf
    <2>  QED
      BY <1>3, <2>1, <2>2
  <1>6. pos' = cell[h][1] /\ n' = next[cell[h][1]]
    BY <1>2, <1>4
  <1>7. /\ next[cell[h][1]] \in Cells
        /\ 1 # len[h] + 1 => next[cell[h][1]] = cell[h][1 + 1]
        /\ cell[h][1] = h <=> 1 = len[h] + 1
    <2> DEFINE j == 1
    <2>1. j \in 1 .. len[h] + 1
      BY <1>4
    <2>  HIDE DEF j
    <2>2. /\ next[cell[h][j]] \in Cells
          /\ j # len[h] + 1 => next[cell[h][j]] = cell[h][j + 1]
          /\ cell[h][j] = h <=> j = len[h] + 1
      BY <1>1, <2>1, BehindIsCell
    <2>  QED
      BY <2>2 DEF j
  <1>8. n' \in Cells /\ (pos' # h => n' = cell[h][2])
    BY <1>6, <1>7
  <1>9. Len(visited') = 0 /\ visited' \in Seq(Entries) /\ over' = h
    BY <1>2
  <1>10. Ahead(len, cell, 0)'
    <2>1. len[h] = 0 + (Len(expected') - 0)
      BY <1>4, <1>5
    <2>2. \A j \in 1 .. Len(expected') - 0 : cell[h][0 + j] = expected'[0 + j]
      BY <1>4, <1>5
    <2>  QED
      BY <1>6, <1>8, <1>9, <2>1, <2>2 DEF Ahead
  <1>11. Going(len, cell)'
    <2>1. Len(visited') <= Len(expected')
      BY <1>4, <1>5, <1>9
    <2>2. \A k \in 1 .. Len(visited') : visited'[k] = expected'[k]
      BY <1>9
    <2>  QED
      BY <1>5, <1>8, <1>9, <1>10, <2>1, <2>2 DEF Going
  <1>12. h # NULL
    BY HeadsAndEntries
  <1>13. LoopIs(len, cell)'
    BY <1>9, <1>11, <1>12 DEF LoopIs
  <1>14. ListsAre(len, cell, next, prev)'
    BY <1>1, <1>2
  <1>  QED
    BY <1>13, <1>14, ListsBy

\* Where the loop is, in numbers.
LEMMA VisitAt ==
  ASSUME NEW len, NEW cell, ListsAre(len, cell, next, prev), LoopIs(len, cell), over # NULL
  PROVE  /\ over \in Heads /\ n \in Cells /\ pos \in Cells
         /\ visited \in Seq(Entries) /\ expected \in Seq(Entries) /\ Len(visited) <= Len(expected)
         /\ \A k \in 1 .. Len(visited) : visited[k] = expected[k]
         /\ \E d \in Nat : Ahead(len, cell, d)
         /\ pos = over => Len(visited) = Len(expected)
         /\ pos # over => /\ Len(visited) < Len(expected) /\ pos = expected[Len(visited) + 1]
  <1>1. /\ over \in Heads /\ n \in Cells
        /\ visited \in Seq(Entries) /\ expected \in Seq(Entries) /\ Len(visited) <= Len(expected)
        /\ \A k \in 1 .. Len(visited) : visited[k] = expected[k]
        /\ \E d \in Nat : Ahead(len, cell, d)
    BY DEF LoopIs, Going
  <1>2. PICK d \in Nat : Ahead(len, cell, d)
    BY <1>1
  <1>3. /\ Len(visited) \in Nat /\ Len(expected) \in Nat
        /\ len[over] = d + (Len(expected) - Len(visited)) /\ pos = cell[over][d + 1]
        /\ \A j \in 1 .. Len(expected) - Len(visited) : cell[over][d + j] = expected[Len(visited) + j]
    <2>1. /\ len[over] = d + (Len(expected) - Len(visited)) /\ pos = cell[over][d + 1]
          /\ \A j \in 1 .. Len(expected) - Len(visited) : cell[over][d + j] = expected[Len(visited) + j]
      BY <1>2 DEF Ahead
    <2>2. Len(visited) \in Nat /\ Len(expected) \in Nat
      BY <1>1
    <2>  QED
      BY <2>1, <2>2
  <1>4. d + 1 \in 1 .. len[over] + 1
    BY <1>1, <1>3
  <1>5. pos \in Cells /\ (pos = over <=> d + 1 = len[over] + 1)
    <2> DEFINE h == over
               j == d + 1
    <2>1. h \in Heads /\ j \in 1 .. len[h] + 1
      BY <1>1, <1>4
    <2>  HIDE DEF h, j
    <2>2. cell[h][j] \in Cells /\ (cell[h][j] = h <=> j = len[h] + 1)
      BY <2>1, BehindIsCell
    <2>  QED
      BY <1>3, <2>2 DEF h, j
  <1>6. pos = over => Len(visited) = Len(expected)
    BY <1>3, <1>5
  <1>7. pos # over => Len(visited) < Len(expected) /\ 1 \in 1 .. Len(expected) - Len(visited)
    BY <1>1, <1>3, <1>5
  <1>  QED
    BY <1>1, <1>3, <1>5, <1>6, <1>7

LEMMA KeepsGoing == ListsInv /\ Lists!body_keeps => ListsInv'
  <1> SUFFICES ASSUME ListsInv, Lists!body_keeps  PROVE ListsInv'
    OBVIOUS
  <1>1. PICK len \in [Heads -> Nat], cell \in [Heads -> [Nat -> Cells]] :
               ListsAre(len, cell, next, prev) /\ LoopIs(len, cell)
    BY DEF ListsInv
  <1>2. /\ over # NULL /\ pos # over /\ visited' = Append(visited, pos)
        /\ over' = over /\ expected' = expected /\ next' = next /\ prev' = prev
        /\ pos' = n /\ (pos' \in Cells => n' = next'[pos'])
    BY DEF Lists!body_keeps, Lists!stored, Lists!now, Lists!step, Lists!saved, Cells
  <1>3. /\ over \in Heads /\ visited \in Seq(Entries) /\ expected \in Seq(Entries)
        /\ \A k \in 1 .. Len(visited) : visited[k] = expected[k]
        /\ \E d \in Nat : Ahead(len, cell, d)
        /\ Len(visited) < Len(expected) /\ pos = expected[Len(visited) + 1]
    BY <1>1, <1>2, VisitAt
  <1>4. PICK d \in Nat : Ahead(len, cell, d)
    BY <1>3
  <1>5. /\ len[over] = d + (Len(expected) - Len(visited)) /\ n = cell[over][d + 2]
        /\ \A j \in 1 .. Len(expected) - Len(visited) : cell[over][d + j] = expected[Len(visited) + j]
        /\ Len(visited) \in Nat /\ Len(expected) \in Nat
    <2>1. /\ len[over] = d + (Len(expected) - Len(visited)) /\ n = cell[over][d + 2]
          /\ \A j \in 1 .. Len(expected) - Len(visited) : cell[over][d + j] = expected[Len(visited) + j]
      <3>1. pos # over
        BY <1>2
      <3>  QED
        BY <1>4, <3>1 DEF Ahead
    <2>2. Len(visited) \in Nat /\ Len(expected) \in Nat
      BY <1>3
    <2>  QED
      BY <2>1, <2>2
  <1>6. /\ d + 1 \in Nat /\ len[over] = (d + 1) + (Len(expected) - (Len(visited) + 1))
        /\ (d + 1) + 1 = d + 2
    BY <1>5
  <1>7. ASSUME NEW j \in 1 .. Len(expected) - (Len(visited) + 1)
        PROVE  cell[over][(d + 1) + j] = expected[(Len(visited) + 1) + j]
    <2>1. /\ j + 1 \in 1 .. Len(expected) - Len(visited) /\ d + (j + 1) = (d + 1) + j
          /\ Len(visited) + (j + 1) = (Len(visited) + 1) + j
      BY <1>5
    <2>2. cell[over][d + (j + 1)] = expected[Len(visited) + (j + 1)]
      BY <1>5, <2>1
    <2>  QED
      BY <2>1, <2>2, Zenon
  <1>8. ListsAre(len, cell, next, prev)'
    BY <1>1, <1>2
  <1>9. LoopIs(len, cell)'
    BY <1>2, <1>3, <1>5, <1>6, <1>7, <1>8, GoesOn
  <1>  QED
    BY <1>8, <1>9, ListsBy

LEMMA FreesGoing == ListsInv /\ Lists!body_frees => ListsInv'
  <1> SUFFICES ASSUME ListsInv, Lists!body_frees  PROVE ListsInv'
    OBVIOUS
  <1>1. PICK len \in [Heads -> Nat], cell \in [Heads -> [Nat -> Cells]] :
               ListsAre(len, cell, next, prev) /\ LoopIs(len, cell)
    BY DEF ListsInv
  <1> DEFINE m == Lists!list_del(Lists!now, pos)
             m2 == Lists!store(Lists!store(m, pos, "next", Dead), pos, "prev", Dead)
  <1>2. /\ over # NULL /\ pos # over /\ visited' = Append(visited, pos)
        /\ over' = over /\ expected' = expected
        /\ pos' = n /\ (pos' \in Cells => n' = next'[pos'])
    BY DEF Lists!body_frees, Lists!step, Lists!saved, Cells
  <1>3. Lists!stored(m2)
    BY DEF Lists!body_frees
  <1>  HIDE DEF m2
  <1>4. /\ over \in Heads /\ visited \in Seq(Entries) /\ expected \in Seq(Entries)
        /\ \A k \in 1 .. Len(visited) : visited[k] = expected[k]
        /\ \E d \in Nat : Ahead(len, cell, d)
        /\ Len(visited) < Len(expected) /\ pos = expected[Len(visited) + 1]
    BY <1>1, <1>2, VisitAt
  <1>0. PICK g \in Heads : g = over
    BY <1>4
  <1>5. PICK d \in Nat : Ahead(len, cell, d)
    BY <1>4
  <1>6. /\ len[g] = d + (Len(expected) - Len(visited)) /\ n = cell[g][d + 2]
        /\ pos = cell[g][d + 1]
        /\ \A j \in 1 .. Len(expected) - Len(visited) : cell[g][d + j] = expected[Len(visited) + j]
        /\ Len(visited) \in Nat /\ Len(expected) \in Nat
    <2>1. /\ len[g] = d + (Len(expected) - Len(visited)) /\ n = cell[g][d + 2]
          /\ pos = cell[g][d + 1]
          /\ \A j \in 1 .. Len(expected) - Len(visited) : cell[g][d + j] = expected[Len(visited) + j]
      <3>1. pos # over
        BY <1>2
      <3>  QED
        BY <1>0, <1>5, <3>1 DEF Ahead
    <2>2. Len(visited) \in Nat /\ Len(expected) \in Nat
      BY <1>4
    <2>  QED
      BY <2>1, <2>2
  <1> DEFINE k == d + 1
             len2 == Shorter(len, g)
             cell2 == LeftOut(cell, g, k)
  <1>7. k \in 1 .. len[g] /\ len[g] \in Nat
    BY <1>4, <1>6
  <1>8. In(len2, cell2, m) /\ InNone(len2, cell2, pos)
    <2>1. In(len, cell, Lists!now) /\ pos = cell[g][k]
      BY <1>1, <1>6 DEF Lists!now, In, Mem
    <2>  HIDE DEF k
    <2>2. /\ In(Shorter(len, g), LeftOut(cell, g, k), Lists!list_del(Lists!now, cell[g][k]))
          /\ InNone(Shorter(len, g), LeftOut(cell, g, k), cell[g][k])
      BY <1>7, <2>1, DelDone, UnlinkDone
    <2>  QED
      BY <2>1, <2>2
  <1>9. /\ len2[g] = len[g] - 1
        /\ \A j \in Nat : cell2[g][j] = IF j < k THEN cell[g][j] ELSE cell[g][j + 1]
    <2>1. len \in [Heads -> Nat] /\ cell \in [Heads -> [Nat -> Cells]]
      BY <1>4
    <2>  QED
      BY <2>1 DEF Shorter, LeftOut
  <1>  HIDE DEF m, len2, cell2
  <1>10. In(len2, cell2, m2)
    BY <1>8, WriteDone DEF m2
  <1>11. ListsAre(len2, cell2, next, prev)'
    BY <1>3, <1>10, StoredBy
  <1>12. len2[g] = d + (Len(expected) - (Len(visited) + 1))
    BY <1>6, <1>9
  <1>13. ASSUME NEW j \in 1 .. Len(expected) - (Len(visited) + 1)
         PROVE  cell2[g][d + j] = expected[(Len(visited) + 1) + j]
    <2>1. /\ j + 1 \in 1 .. Len(expected) - Len(visited) /\ d + (j + 1) = (d + j) + 1
          /\ Len(visited) + (j + 1) = (Len(visited) + 1) + j
          /\ d + j \in Nat /\ ~(d + j < k)
      BY <1>6
    <2>2. cell[g][d + (j + 1)] = expected[Len(visited) + (j + 1)]
      BY <1>6, <2>1
    <2>3. cell2[g][d + j] = cell[g][(d + j) + 1]
      BY <1>9, <2>1
    <2>  QED
      BY <2>1, <2>2, <2>3, Zenon
  <1>14. pos' = cell2[g][d + 1]
    <2>1. d + 1 \in Nat /\ ~(d + 1 < k) /\ (d + 1) + 1 = d + 2
      OBVIOUS
    <2>2. cell2[g][d + 1] = cell[g][(d + 1) + 1]
      BY <1>9, <2>1
    <2>  QED
      BY <1>2, <1>6, <2>1, <2>2
  <1>15. LoopIs(len2, cell2)'
    BY <1>0, <1>2, <1>4, <1>11, <1>12, <1>13, <1>14, GoesOn
  <1>  QED
    BY <1>11, <1>15, ListsBy

LEMMA ListsNext == ListsInv /\ Lists!Next => ListsInv'
  <1> SUFFICES ASSUME ListsInv, Lists!Next  PROVE ListsInv'
    OBVIOUS
  <1>1. CASE Lists!operate
    BY <1>1, OperateKeeps
  <1>2. CASE \E e \in Entries : Lists!free(e)
    BY <1>2, FreeKeeps
  <1>3. CASE \E h \in Heads : Lists!begin(h)
    BY <1>3, BeginKeeps
  <1>4. CASE Lists!body_frees
    BY <1>4, FreesGoing
  <1>5. CASE Lists!body_keeps
    BY <1>5, KeepsGoing
  <1>6. CASE Lists!end
    <2>1. PICK len \in [Heads -> Nat], cell \in [Heads -> [Nat -> Cells]] :
                 ListsAre(len, cell, next, prev) /\ LoopIs(len, cell)
      BY DEF ListsInv
    <2>2. next' = next /\ prev' = prev /\ over' = NULL /\ pos' = NULL /\ n' = NULL
      BY <1>6 DEF Lists!end, Lists!mem
    <2>3. ListsAre(len, cell, next, prev)' /\ LoopIs(len, cell)'
      BY <2>1, <2>2 DEF LoopIs
    <2>  QED
      BY <2>3, ListsBy
  <1>  QED
    BY <1>1, <1>2, <1>3, <1>4, <1>5, <1>6 DEF Lists!Next

LEMMA ListsStutter == ListsInv /\ UNCHANGED Lists!vars => ListsInv'
  <1> SUFFICES ASSUME ListsInv, UNCHANGED Lists!vars  PROVE ListsInv'
    OBVIOUS
  <1>1. PICK len \in [Heads -> Nat], cell \in [Heads -> [Nat -> Cells]] :
               ListsAre(len, cell, next, prev) /\ LoopIs(len, cell)
    BY DEF ListsInv
  <1>2. /\ next' = next /\ prev' = prev /\ pos' = pos /\ n' = n /\ over' = over
        /\ visited' = visited /\ expected' = expected
    BY DEF Lists!vars
  <1>3. ListsAre(len, cell, next, prev)'
    BY <1>1, <1>2
  <1>4. LoopIs(len, cell)'
    BY <1>1, <1>2 DEF LoopIs, Going, Ahead
  <1>  QED
    BY <1>3, <1>4, ListsBy

-----------------------------------------------------------------------------
(* The lists: what follows                                                   *)

LEMMA LoopRight == ListsInv => Lists!LoopVisitsAll
  <1> SUFFICES ASSUME ListsInv, over # NULL  PROVE Lists!LoopVisitsAll
    BY DEF Lists!LoopVisitsAll
  <1>1. PICK len \in [Heads -> Nat], cell \in [Heads -> [Nat -> Cells]] :
               ListsAre(len, cell, next, prev) /\ LoopIs(len, cell)
    BY DEF ListsInv
  <1>2. /\ visited \in Seq(Entries) /\ expected \in Seq(Entries) /\ Len(visited) <= Len(expected)
        /\ \A k \in 1 .. Len(visited) : visited[k] = expected[k]
        /\ pos = over => Len(visited) = Len(expected)
        /\ pos # over => /\ Len(visited) < Len(expected) /\ pos = expected[Len(visited) + 1]
    BY <1>1, VisitAt
  <1>3. SubSeq(visited, 1, Len(visited)) = SubSeq(expected, 1, Len(visited))
    BY <1>2
  <1>4. Lists!IsPrefix(visited, expected)
    BY <1>2, <1>3 DEF Lists!IsPrefix
  <1>5. Len(visited) = Len(expected) => visited = expected
    BY <1>2, SeqEqual
  <1>  QED
    BY <1>2, <1>4, <1>5 DEF Lists!LoopVisitsAll

LEMMA ListsTypes == ListsInv => Lists!TypeOK
  <1> SUFFICES ASSUME ListsInv  PROVE Lists!TypeOK
    OBVIOUS
  <1>1. PICK len \in [Heads -> Nat], cell \in [Heads -> [Nat -> Cells]] :
               ListsAre(len, cell, next, prev) /\ LoopIs(len, cell)
    BY DEF ListsInv
  <1>2. next \in Pointers /\ prev \in Pointers
    BY <1>1 DEF ListsAre
  <1>3. over # NULL => over \in Heads /\ n \in Cells /\ pos \in Cells
    BY <1>1, VisitAt
  <1>4. over = NULL => pos = NULL /\ n = NULL
    BY <1>1 DEF LoopIs
  <1>  QED
    BY <1>2, <1>3, <1>4, HeadsAndEntries DEF Lists!TypeOK, Pointers, Cells

LEMMA ListsBothWays == ListsInv => Lists!BothWays
  <1> SUFFICES ASSUME ListsInv, NEW h \in Heads, NEW c \in Lists!listed(h) \cup {h}
               PROVE  prev[next[c]] = c /\ next[prev[c]] = c
    BY DEF Lists!BothWays
  <1>1. PICK len \in [Heads -> Nat], cell \in [Heads -> [Nat -> Cells]] :
               ListsAre(len, cell, next, prev) /\ LoopIs(len, cell)
    BY DEF ListsInv
  <1>2. /\ len[h] \in Nat /\ cell[h][0] = h /\ cell[h][len[h] + 1] = h
        /\ \A j \in 0 .. len[h] : next[cell[h][j]] = cell[h][j + 1] /\ prev[cell[h][j + 1]] = cell[h][j]
    BY <1>1 DEF ListsAre, Shape, Linked
  <1>3. ASSUME NEW k \in 0 .. len[h], c = cell[h][k]  PROVE prev[next[c]] = c
    BY <1>2, <1>3
  <1>4. ASSUME NEW k \in 1 .. len[h] + 1, c = cell[h][k]  PROVE next[prev[c]] = c
    <2>1. k - 1 \in 0 .. len[h] /\ (k - 1) + 1 = k
      BY <1>2
    <2>  QED
      BY <1>2, <1>4, <2>1
  <1>5. CASE c = h
    <2>1. 0 \in 0 .. len[h] /\ len[h] + 1 \in 1 .. len[h] + 1
      BY <1>2
    <2>  QED
      BY <1>2, <1>3, <1>4, <1>5, <2>1
  <1>6. CASE c # h
    <2>1. PICK k \in 1 .. len[h] : c = cell[h][k]
      BY <1>1, <1>6, ListedIs
    <2>2. k \in 0 .. len[h] /\ k \in 1 .. len[h] + 1
      BY <1>2
    <2>  QED
      BY <1>3, <1>4, <2>1, <2>2
  <1>  QED
    BY <1>5, <1>6

-----------------------------------------------------------------------------
(* The lists: they are the sequences of ListContract                         *)

LEMMA ContractInit == Lists!Init => Lists!Contract!Init
  <1> SUFFICES ASSUME Lists!Init  PROVE Lists!Contract!Init
    OBVIOUS
  <1>1. PICK len \in [Heads -> Nat], cell \in [Heads -> [Nat -> Cells]] :
               ListsAre(len, cell, next, prev) /\ \A h \in Heads : len[h] = 0
    BY ListsAtFirst
  <1>2. ASSUME NEW h \in Heads  PROVE SeqOf(len, cell, h) = << >>
    <2>1. len[h] = 0
      BY <1>1
    <2>  QED
      BY <2>1 DEF SeqOf
  <1>3. Told = [h \in Heads |-> << >>]
    <2>1. Told = Rows(len, cell)
      BY <1>1, ToldIs
    <2>  QED
      BY <1>2, <2>1 DEF Rows
  <1>  QED
    BY <1>3 DEF Lists!Init, Lists!Contract!Init, Told

\* Where the pointers of the lists stay, and where nothing is called.
LEMMA ContractStutter ==
  ASSUME NEW len, NEW cell, ListsAre(len, cell, next, prev), ListsAre(len, cell, next, prev)',
         call' = call
  PROVE  UNCHANGED Lists!Contract!vars
  <1>1. Told' = Told
    BY ToldIs, ToldThen
  <1>  QED
    BY <1>1 DEF Lists!Contract!vars, Told

LEMMA ContractOperate == ListsInv /\ Lists!operate => Lists!Contract!Next
  <1> SUFFICES ASSUME ListsInv, Lists!operate  PROVE Lists!Contract!Next
    OBVIOUS
  <1>1. PICK len \in [Heads -> Nat], cell \in [Heads -> [Nat -> Cells]] :
               ListsAre(len, cell, next, prev) /\ LoopIs(len, cell)
    BY DEF ListsInv
  <1>2. PICK c \in Lists!Calls : Lists!Legal(c) /\ call' = c /\ Lists!stored(Lists!After(c))
    BY DEF Lists!operate
  <1>3. Good(c)
    BY <1>1, <1>2, OperateBecomes
  <1>4. PICK len2 \in [Heads -> Nat], cell2 \in [Heads -> [Nat -> Cells]] :
               In(len2, cell2, Lists!After(c)) /\ Rows(len2, cell2) = Lists!Contract!Done(c)
    BY <1>3 DEF Good, Becomes
  <1>5. ListsAre(len2, cell2, next, prev)'
    BY <1>2, <1>4, StoredBy
  <1>6. Told' = Lists!Contract!Done(c)
    BY <1>4, <1>5, ToldThen
  <1>7. c.op \in Lists!Contract!Ops
    BY <1>3 DEF Good
  <1>  QED
    BY <1>2, <1>6, <1>7 DEF Lists!Contract!Next, Told

LEMMA ContractFrees == ListsInv /\ Lists!body_frees => Lists!Contract!Next
  <1> SUFFICES ASSUME ListsInv, Lists!body_frees  PROVE Lists!Contract!Next
    OBVIOUS
  <1>1. PICK len \in [Heads -> Nat], cell \in [Heads -> [Nat -> Cells]] :
               ListsAre(len, cell, next, prev) /\ LoopIs(len, cell)
    BY DEF ListsInv
  <1>2. /\ over # NULL /\ pos # over /\ pos \in Cells /\ call' = [op |-> "del", entry |-> pos]
        /\ Lists!stored(Lists!store(Lists!store(Lists!list_del(Lists!now, pos), pos, "next", Dead),
                                    pos, "prev", Dead))
    BY DEF Lists!body_frees, Cells
  <1>3. PICK g \in Heads, k \in Nat : k \in 1 .. len[g] /\ pos = cell[g][k]
    <2>1. /\ over \in Heads /\ visited \in Seq(Entries) /\ expected \in Seq(Entries)
          /\ \E d \in Nat : Ahead(len, cell, d)
          /\ Len(visited) < Len(expected)
      BY <1>1, <1>2, VisitAt
    <2>2. PICK d \in Nat : Ahead(len, cell, d)
      BY <2>1
    <2>3. Len(visited) \in Nat /\ Len(expected) \in Nat
      BY <2>1
    <2>4. len[over] = d + (Len(expected) - Len(visited)) /\ pos = cell[over][d + 1]
      BY <2>2 DEF Ahead
    <2>5. d + 1 \in Nat /\ d + 1 \in 1 .. len[over]
      BY <2>1, <2>3, <2>4
    <2>  QED
      BY <2>1, <2>4, <2>5
  <1> DEFINE len2 == Shorter(len, g)
             cell2 == LeftOut(cell, g, k)
             m == Lists!list_del(Lists!now, pos)
             m2 == Lists!store(Lists!store(m, pos, "next", Dead), pos, "prev", Dead)
  <1>4. In(len2, cell2, m) /\ InNone(len2, cell2, pos)
    <2>1. In(len, cell, Lists!now)
      BY <1>1 DEF Lists!now, In, Mem
    <2>  QED
      BY <1>3, <2>1, DelDone, UnlinkDone
  <1>5. Rows(len2, cell2) = Out(Rows(len, cell), pos)
    BY <1>1, <1>3, ShorterRows DEF ListsAre
  <1>  HIDE DEF len2, cell2, m
  <1>6. In(len2, cell2, m2)
    BY <1>4, WriteDone
  <1>7. ListsAre(len2, cell2, next, prev)'
    <2>1. Lists!stored(m2)
      BY <1>2 DEF m
    <2>  HIDE DEF m2
    <2>  QED
      BY <1>6, <2>1, StoredBy
  <1>8. Told' = Out(Told, pos)
    BY <1>1, <1>5, <1>7, ToldIs, ToldThen
  <1> DEFINE c == [op |-> "del", entry |-> pos]
  <1>9. Lists!Contract!Done(c) = Lists!Contract!Without(pos) /\ c.op \in Lists!Contract!Ops
    BY DEF Lists!Contract!Done, Lists!Contract!Ops
  <1>10. Lists!Contract!Without(pos) = Out(Told, pos)
    BY DEF Lists!Contract!Without, Out, Told
  <1>11. call' = c
    BY <1>2
  <1>  HIDE DEF c
  <1>  QED
    BY <1>8, <1>9, <1>10, <1>11 DEF Lists!Contract!Next, Told

LEMMA ContractNext ==
  ListsInv /\ (Lists!Next \/ UNCHANGED Lists!vars) => [Lists!Contract!Next]_(Lists!Contract!vars)
  <1> SUFFICES ASSUME ListsInv, Lists!Next \/ UNCHANGED Lists!vars
               PROVE  Lists!Contract!Next \/ UNCHANGED Lists!Contract!vars
    OBVIOUS
  <1>0. PICK len \in [Heads -> Nat], cell \in [Heads -> [Nat -> Cells]] :
               ListsAre(len, cell, next, prev)
    BY DEF ListsInv
  <1>1. CASE Lists!operate
    BY <1>1, ContractOperate
  <1>2. CASE \E e \in Entries : Lists!free(e)
    <2>1. PICK e \in Entries : Lists!free(e)
      BY <1>2
    <2>2. /\ call' = call /\ e \in Lists!unlisted
          /\ Lists!stored(Lists!store(Lists!store(Lists!now, e, "next", Dead), e, "prev", Dead))
      BY <2>1 DEF Lists!free
    <2>3. In(len, cell, Lists!now) /\ InNone(len, cell, e)
      BY <1>0, <2>2, ListedIs DEF Lists!now, In, Mem
    <2>4. In(len, cell, Lists!store(Lists!store(Lists!now, e, "next", Dead), e, "prev", Dead))
      BY <2>3, WriteDone
    <2>5. ListsAre(len, cell, next, prev)'
      BY <2>2, <2>4, StoredBy
    <2>  QED
      BY <1>0, <2>2, <2>5, ContractStutter
  <1>3. CASE Lists!body_frees
    BY <1>3, ContractFrees
  <1>4. CASE (\E h \in Heads : Lists!begin(h)) \/ Lists!body_keeps \/ Lists!end \/ UNCHANGED Lists!vars
    <2>1. next' = next /\ prev' = prev /\ call' = call
      BY <1>4 DEF Lists!begin, Lists!body_keeps, Lists!end, Lists!vars, Lists!mem, Lists!stored, Lists!now
    <2>2. ListsAre(len, cell, next, prev)'
      BY <1>0, <2>1
    <2>  QED
      BY <1>0, <2>1, <2>2, ContractStutter
  <1>  QED
    BY <1>1, <1>2, <1>3, <1>4 DEF Lists!Next

-----------------------------------------------------------------------------
(* Powers of two                                                             *)

\* What is so for 0, and with each number for the next, is so for all: power, to its place n.
IsPower(g, m) == g = [k \in 0 .. m |-> IF k = 0 THEN 1 ELSE 2 * g[k - 1]]

\* The powers of two, as far as any place.
LEMMA PowersTo ==
  ASSUME NEW m \in Nat
  PROVE  \E g : IsPower(g, m)
  <1> DEFINE S == {b \in Nat : \E g : IsPower(g, b)}
  <1>1. 0 \in S
    <2>1. IsPower([k \in 0 .. 0 |-> 1], 0)
      BY DEF IsPower
    <2>  QED
      BY <2>1
  <1>2. ASSUME NEW b \in Nat, b \in S  PROVE b + 1 \in S
    <2>1. PICK g : IsPower(g, b)
      BY <1>2
    <2> DEFINE h == [k \in 0 .. b + 1 |-> IF k <= b THEN g[k] ELSE 2 * g[b]]
    <2>2. \A k \in 0 .. b : g[k] = IF k = 0 THEN 1 ELSE 2 * g[k - 1]
      BY <2>1 DEF IsPower
    <2>3. ASSUME NEW k \in 0 .. b + 1  PROVE h[k] = IF k = 0 THEN 1 ELSE 2 * h[k - 1]
      <3>1. CASE k <= b
        <4>1. k \in 0 .. b /\ h[k] = g[k]
          BY <3>1
        <4>2. k # 0 => k - 1 \in 0 .. b + 1 /\ k - 1 <= b
          BY <3>1
        <4>3. k # 0 => h[k - 1] = g[k - 1]
          BY <4>2
        <4>  QED
          BY <2>2, <4>1, <4>3
      <3>2. CASE k = b + 1
        <4>1. k - 1 = b /\ b \in 0 .. b + 1 /\ b <= b /\ k # 0 /\ ~(k <= b)
          BY <3>2
        <4>2. h[b] = g[b] /\ h[k] = 2 * g[b]
          BY <4>1
        <4>  QED
          BY <4>1, <4>2
      <3>  QED
        BY <3>1, <3>2
    <2>4. h = [k \in 0 .. b + 1 |-> h[k]]
      OBVIOUS
    <2> HIDE DEF h
    <2>5. IsPower(h, b + 1)
      BY <2>3, <2>4 DEF IsPower
    <2>  QED
      BY <2>5
  <1> HIDE DEF S
  <1>3. S \in SUBSET Nat
    BY DEF S
  <1>4. S = Nat
    BY <1>1, <1>2, <1>3, SetInduction
  <1>  QED
    BY <1>4 DEF S

\* They agree where there are two of them.
LEMMA PowersAgree ==
  ASSUME NEW g, NEW h, NEW l \in Nat, NEW m \in Nat, IsPower(g, l), IsPower(h, m),
         NEW k \in Nat, k <= l, k <= m
  PROVE  g[k] = h[k]
  <1> DEFINE S == {b \in Nat : b <= l /\ b <= m => g[b] = h[b]}
  <1>1. 0 \in S
    BY DEF IsPower
  <1>2. ASSUME NEW b \in Nat, b \in S  PROVE b + 1 \in S
    <2>1. CASE b + 1 <= l /\ b + 1 <= m
      <3>1. b + 1 \in 0 .. l /\ b + 1 \in 0 .. m /\ (b + 1) - 1 = b /\ b + 1 # 0 /\ b <= l /\ b <= m
        BY <2>1
      <3>2. g[b + 1] = 2 * g[b] /\ h[b + 1] = 2 * h[b]
        BY <3>1 DEF IsPower
      <3>  QED
        BY <1>2, <3>1, <3>2
    <2>  QED
      BY <2>1
  <1> HIDE DEF S
  <1>3. S \in SUBSET Nat
    BY DEF S
  <1>4. S = Nat
    BY <1>1, <1>2, <1>3, SetInduction
  <1>  QED
    BY <1>4 DEF S

\* power doubles from each place to the next.
LEMMA PowerIs ==
  /\ Bits!power[0] = 1
  /\ \A nn \in Nat : Bits!power[nn + 1] = 2 * Bits!power[nn]
  <1> DEFINE to(m) == CHOOSE g : IsPower(g, m)
             all == [nn \in Nat |-> to(nn)[nn]]
  <1>1. ASSUME NEW nn \in Nat  PROVE IsPower(to(nn), nn)
    BY PowersTo
  <1>2. ASSUME NEW nn \in Nat  PROVE all[nn] = IF nn = 0 THEN 1 ELSE 2 * all[nn - 1]
    <2>1. nn \in 0 .. nn /\ all[nn] = to(nn)[nn]
      OBVIOUS
    <2>2. to(nn)[nn] = IF nn = 0 THEN 1 ELSE 2 * to(nn)[nn - 1]
      <3> HIDE DEF to
      <3>  QED
        BY <1>1, <2>1 DEF IsPower
    <2>3. nn # 0 => to(nn)[nn - 1] = to(nn - 1)[nn - 1]
      <3> HIDE DEF to
      <3>1. nn # 0 => nn - 1 \in Nat /\ nn - 1 <= nn
        OBVIOUS
      <3>  QED
        BY <1>1, <3>1, PowersAgree
    <2>4. nn # 0 => all[nn - 1] = to(nn - 1)[nn - 1]
      OBVIOUS
    <2> HIDE DEF to, all
    <2>  QED
      BY <2>1, <2>2, <2>3, <2>4
  <1>3. all = [nn \in Nat |-> IF nn = 0 THEN 1 ELSE 2 * all[nn - 1]]
    <2>1. all = [nn \in Nat |-> all[nn]]
      OBVIOUS
    <2> HIDE DEF all
    <2>  QED
      BY <1>2, <2>1
  <1>4. Bits!power = [nn \in Nat |-> IF nn = 0 THEN 1 ELSE 2 * Bits!power[nn - 1]]
    <2> HIDE DEF all
    <2>  QED
      BY <1>3 DEF Bits!power
  <1>5. Bits!power[0] = 1
    BY <1>4
  <1>6. ASSUME NEW nn \in Nat  PROVE Bits!power[nn + 1] = 2 * Bits!power[nn]
    <2>1. nn + 1 \in Nat /\ nn + 1 # 0 /\ (nn + 1) - 1 = nn
      OBVIOUS
    <2>  QED
      BY <1>4, <2>1
  <1>  QED
    BY <1>5, <1>6

LEMMA PowerType == \A nn \in Nat : Bits!power[nn] \in Nat \ {0}
  <1> DEFINE S == {b \in Nat : Bits!power[b] \in Nat \ {0}}
  <1>1. 0 \in S
    BY PowerIs
  <1>2. ASSUME NEW b \in Nat, b \in S  PROVE b + 1 \in S
    <2>1. Bits!power[b + 1] = 2 * Bits!power[b] /\ Bits!power[b] \in Nat \ {0}
      BY <1>2, PowerIs
    <2>  QED
      BY <2>1
  <1> HIDE DEF S
  <1>3. S \in SUBSET Nat
    BY DEF S
  <1>4. S = Nat
    BY <1>1, <1>2, <1>3, SetInduction
  <1>  QED
    BY <1>4 DEF S

LEMMA PowerAdds ==
  ASSUME NEW m \in Nat, NEW nn \in Nat
  PROVE  Bits!power[m + nn] = Bits!power[m] * Bits!power[nn]
  <1> DEFINE S == {b \in Nat : Bits!power[m + b] = Bits!power[m] * Bits!power[b]}
  <1>1. 0 \in S
    <2>1. m + 0 = m /\ Bits!power[m] \in Nat /\ Bits!power[0] = 1
      BY PowerIs, PowerType
    <2>  QED
      BY <2>1
  <1>2. ASSUME NEW b \in Nat, b \in S  PROVE b + 1 \in S
    <2>1. Bits!power[(m + b) + 1] = 2 * Bits!power[m + b] /\ Bits!power[b + 1] = 2 * Bits!power[b]
      BY PowerIs
    <2>2. (m + b) + 1 = m + (b + 1)
      OBVIOUS
    <2>3. Bits!power[m + b] = Bits!power[m] * Bits!power[b]
      BY <1>2
    <2>4. Bits!power[m] \in Nat /\ Bits!power[b] \in Nat
      BY PowerType
    <2>5. 2 * (Bits!power[m] * Bits!power[b]) = Bits!power[m] * (2 * Bits!power[b])
      BY <2>4
    <2>  QED
      BY <2>1, <2>2, <2>3, <2>5
  <1> HIDE DEF S
  <1>3. S \in SUBSET Nat
    BY DEF S
  <1>4. S = Nat
    BY <1>1, <1>2, <1>3, SetInduction
  <1>  QED
    BY <1>4 DEF S

-----------------------------------------------------------------------------
(* Bits                                                                      *)

\* To divide twice is to divide once.
LEMMA DividesTwice ==
  ASSUME NEW a \in Nat, NEW d \in Nat \ {0}, NEW e \in Nat \ {0}
  PROVE  (a \div d) \div e = a \div (d * e)
  <1> DEFINE q == a \div d
             r == a % d
             s == q \div e
             t == q % e
  <1>1. q \in Nat /\ r \in 0 .. d - 1 /\ a = d * q + r
    BY DivisionOf
  <1>2. s \in Nat /\ t \in 0 .. e - 1 /\ q = e * s + t
    BY <1>1, DivisionOf
  <1> HIDE DEF q, r, s, t
  <1>3. d * (e * s + t) = (d * e) * s + d * t
    BY <1>2
  <1>4. d * t >= 0 /\ d * t <= d * (e - 1) /\ d * (e - 1) = d * e - d
    BY <1>2
  <1>5. d * e \in Nat \ {0} /\ d * t \in Nat
    BY <1>2
  <1>6. d * t + r \in 0 .. d * e - 1
    BY <1>1, <1>4, <1>5
  <1>7. a = (d * e) * s + (d * t + r)
    <2>1. a = ((d * e) * s + d * t) + r
      BY <1>1, <1>2, <1>3
    <2>2. (d * e) * s \in Nat
      BY <1>2, <1>5
    <2>  QED
      BY <2>1, <2>2, <1>5, <1>1
  <1>8. a \div (d * e) = s
    <2> DEFINE de == d * e
               rest == d * t + r
    <2>1. de \in Nat \ {0} /\ rest \in 0 .. de - 1 /\ s \in Int /\ a = de * s + rest
      BY <1>2, <1>5, <1>6, <1>7
    <2> HIDE DEF de, rest
    <2>2. a \div de = s
      BY <2>1, DivisionIs
    <2>  QED
      BY <2>2 DEF de
  <1>  QED
    BY <1>8 DEF s, q

LEMMA BitType == ASSUME NEW v \in Nat, NEW nn \in Nat
  PROVE Bits!bit(v, nn) \in {0, 1} /\ Bits!shr(v, nn) \in Nat
  <1>1. Bits!power[nn] \in Nat \ {0}
    BY PowerType
  <1>2. v \div Bits!power[nn] \in Nat
    BY <1>1, DivisionOf
  <1>3. (v \div Bits!power[nn]) % 2 \in 0 .. 1
    BY <1>2, DivisionOf
  <1>  QED
    BY <1>2, <1>3 DEF Bits!bit, Bits!shr

LEMMA ShiftsTwice ==
  ASSUME NEW v \in Nat, NEW m \in Nat, NEW nn \in Nat
  PROVE  Bits!shr(Bits!shr(v, m), nn) = Bits!shr(v, m + nn)
  <1>1. Bits!power[m] \in Nat \ {0} /\ Bits!power[nn] \in Nat \ {0}
          /\ Bits!power[m + nn] = Bits!power[m] * Bits!power[nn]
    BY PowerType, PowerAdds
  <1>  QED
    BY <1>1, DividesTwice DEF Bits!shr

LEMMA ShiftedBit ==
  ASSUME NEW v \in Nat, NEW m \in Nat, NEW k \in Nat
  PROVE  Bits!bit(Bits!shr(v, m), k) = Bits!bit(v, m + k)
  BY ShiftsTwice DEF Bits!bit

LEMMA ZeroBit == ASSUME NEW k \in Nat  PROVE Bits!bit(0, k) = 0
  <1>1. Bits!power[k] \in Nat \ {0}
    BY PowerType
  <1>2. 0 = Bits!power[k] * 0 + 0 /\ 0 \in 0 .. Bits!power[k] - 1
    BY <1>1
  <1>3. 0 \div Bits!power[k] = 0
    <2> DEFINE d == Bits!power[k]
    <2> HIDE DEF d
    <2>1. d \in Nat \ {0} /\ 0 = d * 0 + 0 /\ 0 \in 0 .. d - 1
      BY <1>1, <1>2 DEF d
    <2>2. 0 \div d = 0
      BY <2>1, DivisionIs
    <2>  QED
      BY <2>2 DEF d
  <1>  QED
    BY <1>3 DEF Bits!bit, Bits!shr

\* A number in two: the low places and the high ones.
LEMMA JoinedWords ==
  ASSUME NEW m \in Nat, NEW x \in 0 .. Bits!power[m] - 1, NEW v \in Nat
  PROVE  /\ x + Bits!power[m] * v \in Nat
         /\ Bits!shr(x + Bits!power[m] * v, m) = v
         /\ (x + Bits!power[m] * v) % Bits!power[m] = x
         /\ \A k \in Nat : Bits!bit(x + Bits!power[m] * v, k)
              = IF k < m THEN Bits!bit(x, k) ELSE Bits!bit(v, k - m)
  <1> DEFINE d == Bits!power[m]
             y == x + Bits!power[m] * v
  <1>1. d \in Nat \ {0} /\ x \in Nat
    BY PowerType
  <1>2. y = d * v + x /\ y \in Nat
    BY <1>1
  <1>3. y \div d = v /\ y % d = x
    <2>1. x \in 0 .. d - 1
      OBVIOUS
    <2> HIDE DEF d, y
    <2>2. (d * v + x) \div d = v /\ (d * v + x) % d = x
      BY <1>1, <2>1, DivisionIs
    <2>  QED
      BY <1>2, <2>2
  <1>4. Bits!shr(y, m) = v
    BY <1>3 DEF Bits!shr
  <1>5. ASSUME NEW k \in Nat, k >= m  PROVE Bits!bit(y, k) = Bits!bit(v, k - m)
    <2>1. k - m \in Nat /\ m + (k - m) = k
      BY <1>5
    <2>2. Bits!bit(Bits!shr(y, m), k - m) = Bits!bit(y, m + (k - m))
      <3> HIDE DEF y
      <3>  QED
        BY <1>2, <2>1, ShiftedBit
    <2> HIDE DEF y
    <2>  QED
      BY <1>4, <2>1, <2>2
  <1>6. ASSUME NEW k \in Nat, k < m  PROVE Bits!bit(y, k) = Bits!bit(x, k)
    <2> DEFINE e == Bits!power[k]
               f == Bits!power[m - k - 1]
               q == x \div e
               r == x % e
    <2>1. m - k - 1 \in Nat /\ k + 1 \in Nat /\ (k + 1) + (m - k - 1) = m
      BY <1>6
    <2>2. e \in Nat \ {0} /\ f \in Nat \ {0}
      BY <2>1, PowerType
    <2>3. d = Bits!power[k + 1] * f /\ Bits!power[k + 1] = 2 * e
      BY <2>1, PowerAdds, PowerIs
    <2>4. q \in Nat /\ r \in 0 .. e - 1 /\ x = e * q + r
      BY <1>1, <2>2, DivisionOf
    <2>5. f * v \in Nat
      BY <2>2
    <2>6. d * v = e * (2 * (f * v))
      <3>1. d * v = ((2 * e) * f) * v
        BY <2>3
      <3>  QED
        BY <2>2, <3>1
    <2>7. y = e * (q + 2 * (f * v)) + r
      <3> DEFINE w == 2 * (f * v)
      <3>1. w \in Nat /\ y = e * w + (e * q + r)
        BY <1>2, <2>4, <2>5, <2>6
      <3> HIDE DEF w, y, q, r, e
      <3>2. e * (q + w) = e * q + e * w
        BY <2>2, <2>4, <3>1
      <3>3. e * q \in Nat /\ e * w \in Nat
        BY <2>2, <2>4, <3>1
      <3>4. y = e * (q + w) + r
        BY <2>4, <3>1, <3>2, <3>3
      <3>  QED
        BY <3>4 DEF w
    <2>8. y \div e = q + 2 * (f * v)
      <3> DEFINE w == q + 2 * (f * v)
      <3>1. w \in Int /\ y = e * w + r
        BY <2>4, <2>5, <2>7
      <3> HIDE DEF w, y, q, r, e
      <3>2. y \div e = w
        BY <2>2, <2>4, <3>1, DivisionIs
      <3>  QED
        BY <3>2 DEF w
    <2>9. (q + 2 * (f * v)) % 2 = q % 2
      BY <2>4, <2>5
    <2>  QED
      BY <2>8, <2>9 DEF Bits!bit, Bits!shr
  <1>7. \A k \in Nat : Bits!bit(y, k) = IF k < m THEN Bits!bit(x, k) ELSE Bits!bit(v, k - m)
    <2> HIDE DEF y
    <2>  QED
      BY <1>5, <1>6
  <1>  QED
    BY <1>2, <1>3, <1>4, <1>7

\* Every number is in two so.
LEMMA Halves ==
  ASSUME NEW v \in Nat, NEW m \in Nat
  PROVE  /\ v % Bits!power[m] \in 0 .. Bits!power[m] - 1
         /\ Bits!shr(v, m) \in Nat
         /\ v = (v % Bits!power[m]) + Bits!power[m] * Bits!shr(v, m)
  <1> DEFINE d == Bits!power[m]
             q == v \div d
             r == v % d
  <1>1. d \in Nat \ {0}
    BY PowerType
  <1>2. q \in Nat /\ r \in 0 .. d - 1 /\ v = d * q + r
    BY <1>1, DivisionOf
  <1>3. v = r + d * q
    <2> HIDE DEF d, q, r
    <2>  QED
      BY <1>1, <1>2
  <1>  QED
    BY <1>2, <1>3 DEF Bits!shr

LEMMA NoBitAbove ==
  ASSUME NEW m \in Nat, NEW x \in 0 .. Bits!power[m] - 1, NEW k \in Nat, k >= m
  PROVE  Bits!bit(x, k) = 0
  <1>1. Bits!power[m] \in Nat /\ x \in Nat
    BY PowerType
  <1>2. x + Bits!power[m] * 0 = x
    BY <1>1
  <1>3. Bits!bit(x + Bits!power[m] * 0, k) = Bits!bit(0, k - m)
    BY JoinedWords
  <1>4. k - m \in Nat
    OBVIOUS
  <1>  QED
    BY <1>2, <1>3, <1>4, ZeroBit

LEMMA CutBits ==
  ASSUME NEW v \in Nat, NEW m \in Nat, NEW k \in Nat
  PROVE  Bits!bit(v % Bits!power[m], k) = IF k < m THEN Bits!bit(v, k) ELSE 0
  <1> DEFINE x == v % Bits!power[m]
             u == Bits!shr(v, m)
  <1>1. x \in 0 .. Bits!power[m] - 1 /\ u \in Nat /\ v = x + Bits!power[m] * u
    BY Halves
  <1> HIDE DEF x, u
  <1>2. Bits!bit(v, k) = IF k < m THEN Bits!bit(x, k) ELSE Bits!bit(u, k - m)
    BY <1>1, JoinedWords
  <1>3. k >= m => Bits!bit(x, k) = 0
    BY <1>1, NoBitAbove
  <1>4. k < m => Bits!bit(x, k) = Bits!bit(v, k)
    BY <1>2
  <1>5. Bits!bit(x, k) = IF k < m THEN Bits!bit(v, k) ELSE 0
    BY <1>3, <1>4
  <1>  QED
    BY <1>5 DEF x

LEMMA ShiftedUp ==
  ASSUME NEW v \in Nat, NEW m \in Nat
  PROVE  /\ Bits!shl(v, m) \in Nat
         /\ \A k \in Nat : Bits!bit(Bits!shl(v, m), k) = IF k < m THEN 0 ELSE Bits!bit(v, k - m)
  <1>1. Bits!power[m] \in Nat \ {0}
    BY PowerType
  <1>2. Bits!shl(v, m) = 0 + Bits!power[m] * v /\ 0 \in 0 .. Bits!power[m] - 1
    BY <1>1 DEF Bits!shl
  <1>  QED
    BY <1>2, JoinedWords, ZeroBit

\* What fits into so many places.
LEMMA JoinedFits ==
  ASSUME NEW m \in Nat, NEW nn \in Nat, NEW x \in 0 .. Bits!power[m] - 1,
           NEW y \in 0 .. Bits!power[nn] - 1
  PROVE  x + Bits!power[m] * y \in 0 .. Bits!power[m + nn] - 1
  <1> DEFINE d == Bits!power[m]
             e == Bits!power[nn]
  <1>1. d \in Nat \ {0} /\ e \in Nat \ {0} /\ Bits!power[m + nn] = d * e
    BY PowerType, PowerAdds
  <1>2. x \in 0 .. d - 1 /\ y \in 0 .. e - 1
    OBVIOUS
  <1> HIDE DEF d, e
  <1>3. d * y \in Nat /\ d * y <= d * (e - 1) /\ d * (e - 1) = d * e - d
    BY <1>1, <1>2
  <1>4. d * e \in Nat
    BY <1>1
  <1>5. x + d * y \in 0 .. d * e - 1
    BY <1>1, <1>2, <1>3, <1>4
  <1>  QED
    BY <1>1, <1>5 DEF d

LEMMA ShiftedFits ==
  ASSUME NEW m \in Nat, NEW nn \in Nat, NEW v \in 0 .. Bits!power[m + nn] - 1
  PROVE  Bits!shr(v, m) \in 0 .. Bits!power[nn] - 1
  <1> DEFINE d == Bits!power[m]
             e == Bits!power[nn]
             q == Bits!shr(v, m)
             r == v % Bits!power[m]
  <1>1. d \in Nat \ {0} /\ e \in Nat \ {0} /\ Bits!power[m + nn] = d * e
    BY PowerType, PowerAdds
  <1>2. v \in Nat /\ v < d * e
    <2>1. Bits!power[m + nn] \in Nat
      BY PowerType
    <2>  QED
      BY <1>1, <2>1
  <1>3. r \in 0 .. d - 1 /\ q \in Nat /\ v = r + d * q
    BY <1>2, Halves
  <1> HIDE DEF d, e, q, r
  <1>4. ~(q >= e)
    <2>1. ASSUME q >= e  PROVE FALSE
      <3>1. d * q >= d * e
        BY <1>1, <1>3, <2>1
      <3>2. d * q \in Nat /\ d * e \in Nat
        BY <1>1, <1>3
      <3>  QED
        BY <1>2, <1>3, <3>1, <3>2
    <2>  QED
      BY <2>1
  <1>5. q \in 0 .. e - 1
    BY <1>1, <1>3, <1>4
  <1>  QED
    BY <1>5 DEF q, e

\* Two numbers of so many places are the same if their bits are.
LEMMA SameBits ==
  ASSUME NEW m \in Nat, NEW x \in 0 .. Bits!power[m] - 1, NEW y \in 0 .. Bits!power[m] - 1,
         \A k \in 0 .. m - 1 : Bits!bit(x, k) = Bits!bit(y, k)
  PROVE  x = y
  <1> DEFINE S == {b \in Nat : b <= m => x % Bits!power[b] = y % Bits!power[b]}
  <1>1. x \in Nat /\ y \in Nat /\ Bits!power[m] \in Nat
    BY PowerType
  <1>2. 0 \in S
    <2>1. Bits!power[0] = 1 /\ x % 1 = 0 /\ y % 1 = 0
      BY <1>1, PowerIs
    <2>  QED
      BY <2>1
  <1>3. ASSUME NEW b \in Nat, b \in S  PROVE b + 1 \in S
    <2>1. CASE b + 1 <= m
      <3>1. b <= m /\ b \in 0 .. m - 1
        BY <2>1
      <3>2. x % Bits!power[b] = y % Bits!power[b] /\ Bits!bit(x, b) = Bits!bit(y, b)
        BY <1>3, <3>1
      <3>3. ASSUME NEW v \in Nat
            PROVE  v % Bits!power[b + 1] = (v % Bits!power[b]) + Bits!power[b] * Bits!bit(v, b)
        <4> DEFINE d == Bits!power[b]
                   r == v % Bits!power[b]
                   u == Bits!shr(v, b)
                   s == u % 2
                   t == u \div 2
        <4>1. d \in Nat \ {0} /\ Bits!power[b + 1] = 2 * d
          BY PowerType, PowerIs
        <4>2. r \in 0 .. d - 1 /\ u \in Nat /\ v = r + d * u
          BY Halves
        <4> HIDE DEF r, u
        <4>3. s \in 0 .. 1 /\ t \in Nat /\ u = 2 * t + s
          BY <4>2, DivisionOf
        <4> HIDE DEF d, s, t
        <4>4. d * (2 * t + s) = (2 * d) * t + d * s
          BY <4>1, <4>3
        <4>5. d * s \in 0 .. d
          <5>1. s = 0 \/ s = 1
            BY <4>3
          <5>  QED
            BY <4>1, <5>1
        <4>6. r + d * s \in 0 .. 2 * d - 1
          BY <4>1, <4>2, <4>5
        <4>7. v = (2 * d) * t + (r + d * s)
          <5>1. (2 * d) * t \in Nat
            BY <4>1, <4>3
          <5>  QED
            BY <4>2, <4>3, <4>4, <4>5, <5>1
        <4>8. v % (2 * d) = r + d * s
          <5> DEFINE dd == 2 * d
                     rest == r + d * s
          <5>1. dd \in Nat \ {0} /\ rest \in 0 .. dd - 1 /\ v = dd * t + rest /\ t \in Int
            BY <4>1, <4>3, <4>6, <4>7
          <5> HIDE DEF dd, rest
          <5>2. v % dd = rest
            BY <5>1, DivisionIs
          <5>  QED
            BY <5>2 DEF dd, rest
        <4>9. Bits!bit(v, b) = s
          BY DEF Bits!bit, s, u
        <4>  QED
          BY <4>1, <4>8, <4>9 DEF d, r
      <3>  QED
        BY <1>1, <3>2, <3>3
    <2>  QED
      BY <2>1
  <1> HIDE DEF S
  <1>4. S \in SUBSET Nat
    BY DEF S
  <1>5. S = Nat
    BY <1>2, <1>3, <1>4, SetInduction
  <1>6. x % Bits!power[m] = y % Bits!power[m]
    BY <1>5 DEF S
  <1>7. ASSUME NEW z \in 0 .. Bits!power[m] - 1  PROVE z % Bits!power[m] = z
    <2>1. z + Bits!power[m] * 0 = z
      BY <1>1
    <2>2. (z + Bits!power[m] * 0) % Bits!power[m] = z
      BY JoinedWords
    <2>  QED
      BY <2>1, <2>2
  <1>  QED
    BY <1>6, <1>7

-----------------------------------------------------------------------------
(* Sums of bits, and of words                                                *)

\* A loop that adds up so many terms.
IsSum(s, t, m) == s = [nn \in 0 .. m |-> IF nn = 0 THEN 0 ELSE s[nn - 1] + t[nn - 1]]

LEMMA SumExists ==
  ASSUME NEW t, NEW m \in Nat
  PROVE  \E s : IsSum(s, t, m)
  <1> DEFINE S == {b \in Nat : \E s : IsSum(s, t, b)}
  <1>1. 0 \in S
    <2>1. IsSum([k \in 0 .. 0 |-> 0], t, 0)
      BY DEF IsSum
    <2>  QED
      BY <2>1
  <1>2. ASSUME NEW b \in Nat, b \in S  PROVE b + 1 \in S
    <2>1. PICK g : IsSum(g, t, b)
      BY <1>2
    <2> DEFINE h == [k \in 0 .. b + 1 |-> IF k <= b THEN g[k] ELSE g[b] + t[b]]
    <2>2. \A k \in 0 .. b : g[k] = IF k = 0 THEN 0 ELSE g[k - 1] + t[k - 1]
      BY <2>1 DEF IsSum
    <2>3. ASSUME NEW k \in 0 .. b + 1  PROVE h[k] = IF k = 0 THEN 0 ELSE h[k - 1] + t[k - 1]
      <3>1. CASE k <= b
        <4>1. k \in 0 .. b /\ h[k] = g[k]
          BY <3>1
        <4>2. k # 0 => k - 1 \in 0 .. b + 1 /\ k - 1 <= b
          BY <3>1
        <4>3. k # 0 => h[k - 1] = g[k - 1]
          BY <4>2
        <4>  QED
          BY <2>2, <4>1, <4>3
      <3>2. CASE k = b + 1
        <4>1. k - 1 = b /\ b \in 0 .. b + 1 /\ b <= b /\ k # 0 /\ ~(k <= b)
          BY <3>2
        <4>2. h[b] = g[b] /\ h[k] = g[b] + t[b]
          BY <4>1
        <4>  QED
          BY <4>1, <4>2
      <3>  QED
        BY <3>1, <3>2
    <2>4. h = [k \in 0 .. b + 1 |-> h[k]]
      OBVIOUS
    <2> HIDE DEF h
    <2>5. IsSum(h, t, b + 1)
      BY <2>3, <2>4 DEF IsSum
    <2>  QED
      BY <2>5
  <1> HIDE DEF S
  <1>3. S \in SUBSET Nat
    BY DEF S
  <1>4. S = Nat
    BY <1>1, <1>2, <1>3, SetInduction
  <1>  QED
    BY <1>4 DEF S

\* The sum of words, each moved up behind those before it, has their bits.
AddsWords(w, m, s, y) ==
  /\ \A j \in 0 .. m - 1 : y[j] \in 0 .. Bits!power[w] - 1
  /\ s[0] = 0
  /\ \A nn \in 0 .. m - 1 : s[nn + 1] = s[nn] + Bits!shl(y[nn], w * nn)

HasWords(w, nn, sum, y) ==
  /\ sum \in 0 .. Bits!power[w * nn] - 1
  /\ \A k \in 0 .. w * nn - 1 : Bits!bit(sum, k) = Bits!bit(y[k \div w], k % w)

LEMMA WordsAdd ==
  ASSUME NEW w \in Nat \ {0}, NEW m \in Nat, NEW s, NEW y, AddsWords(w, m, s, y)
  PROVE  \A nn \in 0 .. m : HasWords(w, nn, s[nn], y)
  <1> USE DEF AddsWords, HasWords
  <1> DEFINE Holds(nn) == /\ s[nn] \in 0 .. Bits!power[w * nn] - 1
                          /\ \A k \in 0 .. w * nn - 1 :
                               Bits!bit(s[nn], k) = Bits!bit(y[k \div w], k % w)
             S == {nn \in Nat : nn <= m => Holds(nn)}
  <1>1. 0 \in S
    <2>1. w * 0 = 0 /\ Bits!power[0] = 1
      BY PowerIs
    <2>  QED
      BY <2>1
  <1>2. ASSUME NEW b \in Nat, b \in S  PROVE b + 1 \in S
    <2>1. CASE b + 1 <= m
      <3>1. b <= m /\ b \in 0 .. m - 1
        BY <2>1
      <3>2. Holds(b)
        BY <1>2, <3>1
      <3>3. w * b \in Nat /\ w * (b + 1) = w * b + w
        OBVIOUS
      <3> DEFINE p == w * b
                 x == s[b]
                 v == y[b]
      <3>4. x \in 0 .. Bits!power[p] - 1 /\ v \in 0 .. Bits!power[w] - 1
        BY <3>1, <3>2
      <3>5. Bits!power[p] \in Nat \ {0} /\ Bits!power[w] \in Nat \ {0} /\ v \in Nat
        BY <3>3, <3>4, PowerType
      <3>6. s[b + 1] = x + Bits!power[p] * v
        <4>1. s[b + 1] = x + v * Bits!power[p]
          BY <3>1 DEF Bits!shl
        <4> HIDE DEF x, v, p
        <4>  QED
          BY <3>5, <4>1
      <3>7. s[b + 1] \in 0 .. Bits!power[w * (b + 1)] - 1
        <4> HIDE DEF x, v, p
        <4>1. x + Bits!power[p] * v \in 0 .. Bits!power[p + w] - 1
          BY <3>3, <3>4, JoinedFits DEF p
        <4>  QED
          BY <3>3, <3>6, <4>1 DEF p
      <3>8. ASSUME NEW k \in 0 .. w * (b + 1) - 1
            PROVE  Bits!bit(s[b + 1], k) = Bits!bit(y[k \div w], k % w)
        <4>1. k \in Nat
          BY <3>3
        <4>2. Bits!bit(s[b + 1], k) = IF k < p THEN Bits!bit(x, k) ELSE Bits!bit(v, k - p)
          <5> HIDE DEF x, v, p
          <5>  QED
            BY <3>3, <3>4, <3>5, <3>6, <4>1, JoinedWords DEF p
        <4>3. CASE k < p
          BY <3>2, <4>1, <4>2, <4>3
        <4>4. CASE ~(k < p)
          <5>1. k - p \in 0 .. w - 1 /\ k = w * b + (k - p)
            BY <3>3, <4>1, <4>4
          <5>2. k \div w = b /\ k % w = k - p
            <6> DEFINE r == k - p
            <6>1. r \in 0 .. w - 1 /\ k = w * b + r
              BY <5>1
            <6> HIDE DEF r, p
            <6>2. k \div w = b /\ k % w = r
              BY <6>1, DivisionIs
            <6>  QED
              BY <6>2 DEF r
          <5>  QED
            BY <4>2, <4>4, <5>2
        <4>  QED
          BY <4>3, <4>4
      <3>  QED
        BY <3>7, <3>8
    <2>  QED
      BY <2>1
  <1> HIDE DEF S
  <1>3. S \in SUBSET Nat
    BY DEF S
  <1>4. S = Nat
    BY <1>1, <1>2, <1>3, SetInduction
  <1>5. ASSUME NEW nn \in 0 .. m  PROVE Holds(nn)
    <2> HIDE DEF Holds
    <2>  QED
      BY <1>4, <1>5 DEF S
  <1>  QED
    BY <1>5

\* The same of bits.
LEMMA BitsAdd ==
  ASSUME NEW m \in Nat, NEW s, NEW f,
         \A j \in 0 .. m - 1 : f[j] \in {0, 1},
         s[0] = 0, \A nn \in 0 .. m - 1 : s[nn + 1] = s[nn] + Bits!shl(f[nn], nn)
  PROVE  /\ s[m] \in 0 .. Bits!power[m] - 1
         /\ \A k \in 0 .. m - 1 : Bits!bit(s[m], k) = f[k]
  <1>1. Bits!power[0] = 1 /\ Bits!power[1] = 2
    <2>1. Bits!power[0 + 1] = 2 * Bits!power[0] /\ Bits!power[0] = 1
      BY PowerIs
    <2>  QED
      BY <2>1
  <1>2. \A j \in 0 .. m - 1 : f[j] \in 0 .. Bits!power[1] - 1
    BY <1>1
  <1>3. \A nn \in 0 .. m - 1 : s[nn + 1] = s[nn] + Bits!shl(f[nn], 1 * nn)
    <2>1. \A nn \in 0 .. m - 1 : 1 * nn = nn
      OBVIOUS
    <2>  QED
      BY <2>1
  <1>4. /\ s[m] \in 0 .. Bits!power[1 * m] - 1
        /\ \A k \in 0 .. 1 * m - 1 : Bits!bit(s[m], k) = Bits!bit(f[k \div 1], k % 1)
    <2> DEFINE one == 1
    <2>1. one \in Nat \ {0} /\ m \in 0 .. m
      OBVIOUS
    <2>2. /\ \A j \in 0 .. m - 1 : f[j] \in 0 .. Bits!power[one] - 1
          /\ \A nn \in 0 .. m - 1 : s[nn + 1] = s[nn] + Bits!shl(f[nn], one * nn)
      BY <1>2, <1>3
    <2> HIDE DEF one
    <2>3. AddsWords(one, m, s, f)
      BY <2>2 DEF AddsWords
    <2>4. HasWords(one, m, s[m], f)
      BY <2>1, <2>3, WordsAdd
    <2>  QED
      BY <2>4 DEF one, HasWords
  <1>5. 1 * m = m
    OBVIOUS
  <1>6. ASSUME NEW k \in 0 .. m - 1  PROVE Bits!bit(s[m], k) = f[k]
    <2>1. k \div 1 = k /\ k % 1 = 0
      OBVIOUS
    <2>2. Bits!bit(s[m], k) = Bits!bit(f[k], 0)
      BY <1>4, <1>5, <2>1
    <2>3. f[k] \in {0, 1}
      OBVIOUS
    <2>4. Bits!bit(f[k], 0) = f[k]
      <3>1. \A z \in {0, 1} : (z \div 1) % 2 = z
        OBVIOUS
      <3>  QED
        BY <1>1, <2>3, <3>1 DEF Bits!bit, Bits!shr
    <2>  QED
      BY <2>2, <2>4
  <1>  QED
    BY <1>4, <1>5, <1>6

\* The loop of both.
IsBoth(s, a, b) ==
  s = [nn \in 0 .. 2 * W |->
         IF nn = 0 THEN 0
           ELSE s[nn - 1] + Bits!shl(Bits!bit(a, nn - 1) * Bits!bit(b, nn - 1), nn - 1)]

\* a & b has the bits that both have.
LEMMA BothIs ==
  ASSUME W \in Nat \ {0}, NEW a \in Nat, NEW b \in Nat
  PROVE  /\ Bits!both(a, b) \in 0 .. Bits!power[2 * W] - 1
         /\ \A k \in 0 .. 2 * W - 1 : Bits!bit(Bits!both(a, b), k) = Bits!bit(a, k) * Bits!bit(b, k)
  <1> DEFINE f == [j \in 0 .. 2 * W - 1 |-> Bits!bit(a, j) * Bits!bit(b, j)]
             t == [j \in 0 .. 2 * W - 1 |-> Bits!shl(f[j], j)]
             s == CHOOSE z : IsBoth(z, a, b)
             m == 2 * W
  <1>1. m \in Nat
    OBVIOUS
  <1>2. \E z : IsBoth(z, a, b)
    <2>1. PICK z : IsSum(z, t, m)
      <3> HIDE DEF t, m
      <3>  QED
        BY <1>1, SumExists
    <2>2. ASSUME NEW nn \in 0 .. m
          PROVE  z[nn] = IF nn = 0 THEN 0
                   ELSE z[nn - 1] + Bits!shl(Bits!bit(a, nn - 1) * Bits!bit(b, nn - 1), nn - 1)
      <3>1. z[nn] = IF nn = 0 THEN 0 ELSE z[nn - 1] + t[nn - 1]
        <4> HIDE DEF t, m
        <4>  QED
          BY <2>1 DEF IsSum
      <3>2. nn # 0 => nn - 1 \in 0 .. 2 * W - 1
        OBVIOUS
      <3>3. nn # 0 => t[nn - 1] = Bits!shl(Bits!bit(a, nn - 1) * Bits!bit(b, nn - 1), nn - 1)
        BY <3>2
      <3>  QED
        BY <3>1, <3>3
    <2>3. z = [nn \in 0 .. 2 * W |-> z[nn]]
      BY <2>1 DEF IsSum
    <2>4. IsBoth(z, a, b)
      BY <2>2, <2>3 DEF IsBoth
    <2>  QED
      BY <2>4
  <1>3. IsBoth(s, a, b)
    BY <1>2
  <1>4. Bits!both(a, b) = s[m]
    BY DEF Bits!both, IsBoth
  <1> HIDE DEF s
  <1>5. s[0] = 0
    BY <1>3 DEF IsBoth
  <1>6. ASSUME NEW nn \in 0 .. m - 1  PROVE s[nn + 1] = s[nn] + Bits!shl(f[nn], nn)
    <2>1. nn + 1 \in 0 .. 2 * W /\ nn + 1 # 0 /\ (nn + 1) - 1 = nn
      OBVIOUS
    <2>2. s[nn + 1] = s[nn] + Bits!shl(Bits!bit(a, nn) * Bits!bit(b, nn), nn)
      BY <1>3, <2>1 DEF IsBoth
    <2>  QED
      BY <2>2
  <1>7. ASSUME NEW j \in 0 .. m - 1
        PROVE  f[j] \in {0, 1} /\ f[j] = Bits!bit(a, j) * Bits!bit(b, j)
    <2>1. Bits!bit(a, j) \in {0, 1} /\ Bits!bit(b, j) \in {0, 1}
      BY BitType
    <2>  QED
      BY <2>1
  <1> HIDE DEF f
  <1>8. /\ s[m] \in 0 .. Bits!power[m] - 1
        /\ \A k \in 0 .. m - 1 : Bits!bit(s[m], k) = f[k]
    <2> HIDE DEF m
    <2>  QED
      BY <1>1, <1>5, <1>6, <1>7, BitsAdd
  <1>  QED
    BY <1>4, <1>7, <1>8

\* All the lower bits are in a power of two less one.
LEMMA OnesAre ==
  ASSUME NEW m \in Nat
  PROVE  /\ Bits!power[m] - 1 \in 0 .. Bits!power[m] - 1
         /\ \A k \in Nat : Bits!bit(Bits!power[m] - 1, k) = IF k < m THEN 1 ELSE 0
  <1>1. Bits!power[m] \in Nat \ {0} /\ Bits!power[m] - 1 \in 0 .. Bits!power[m] - 1
    BY PowerType
  <1>2. ASSUME NEW k \in Nat, k < m  PROVE Bits!bit(Bits!power[m] - 1, k) = 1
    <2> DEFINE d == Bits!power[k]
               e == Bits!power[m - k - 1]
    <2>1. m - k - 1 \in Nat /\ m - k \in Nat /\ k + (m - k) = m /\ (m - k - 1) + 1 = m - k
      BY <1>2
    <2>2. d \in Nat \ {0} /\ e \in Nat \ {0}
      BY <2>1, PowerType
    <2>3. Bits!power[m - k] = 2 * e /\ Bits!power[m] = d * (2 * e)
      <3>1. Bits!power[(m - k - 1) + 1] = 2 * Bits!power[m - k - 1]
        BY <2>1, PowerIs
      <3>2. Bits!power[k + (m - k)] = Bits!power[k] * Bits!power[m - k]
        BY <2>1, PowerAdds
      <3>  QED
        BY <2>1, <3>1, <3>2
    <2> HIDE DEF d, e
    <2>4. Bits!power[m] - 1 = d * (2 * e - 1) + (d - 1)
      <3>1. d * (2 * e - 1) = d * (2 * e) - d
        BY <2>2
      <3>2. d * (2 * e) \in Int
        BY <2>2
      <3>  QED
        BY <2>2, <2>3, <3>1, <3>2
    <2>5. (Bits!power[m] - 1) \div d = 2 * e - 1
      <3> DEFINE q == 2 * e - 1
                 r == d - 1
      <3>1. q \in Int /\ r \in 0 .. d - 1 /\ Bits!power[m] - 1 = d * q + r
        BY <2>2, <2>4
      <3> HIDE DEF q, r
      <3>2. (d * q + r) \div d = q
        BY <2>2, <3>1, DivisionIs
      <3>  QED
        BY <3>1, <3>2 DEF q
    <2>6. (2 * e - 1) % 2 = 1
      BY <2>2
    <2>  QED
      BY <2>5, <2>6 DEF Bits!bit, Bits!shr, d
  <1>3. ASSUME NEW k \in Nat, ~(k < m)  PROVE Bits!bit(Bits!power[m] - 1, k) = 0
    BY <1>1, <1>3, NoBitAbove
  <1>  QED
    BY <1>1, <1>2, <1>3

\* v |= 1 << n and v &= ~(1 << n).
LEMMA WithBitIs ==
  ASSUME W \in Nat \ {0}, NEW v \in 0 .. Bits!power[W] - 1, NEW nn \in 0 .. W - 1, NEW b \in {0, 1}
  PROVE  /\ Bits!with_bit(v, nn, b) \in 0 .. Bits!power[W] - 1
         /\ \A k \in Nat : Bits!bit(Bits!with_bit(v, nn, b), k)
              = IF k = nn THEN b ELSE Bits!bit(v, k)
  <1> DEFINE d == Bits!power[nn]
             r == v % Bits!power[nn]
             h == Bits!shr(v, nn)
             c == Bits!bit(v, nn)
             u == h \div 2
             new == b + 2 * u
             l == W - nn - 1
  <1>1. d \in Nat \ {0} /\ v \in Nat /\ Bits!power[W] \in Nat /\ l \in Nat /\ nn \in Nat
    BY PowerType
  <1>2. r \in 0 .. d - 1 /\ h \in Nat /\ v = r + d * h
    BY <1>1, Halves
  <1>3. c = h % 2
    BY DEF Bits!bit
  <1>4. u \in Nat /\ c \in {0, 1} /\ h = c + 2 * u
    <2>1. u \in Nat /\ h % 2 \in 0 .. 1 /\ h = 2 * (h \div 2) + (h % 2)
      <3> HIDE DEF h
      <3>  QED
        BY <1>2, DivisionOf
    <2>  QED
      BY <1>3, <2>1
  <1>5. Bits!power[1] = 2 /\ Bits!power[l + 1] = Bits!power[1] * Bits!power[l]
          /\ Bits!power[l] \in Nat \ {0}
    <2>1. Bits!power[0 + 1] = 2 * Bits!power[0] /\ Bits!power[0] = 1
      BY PowerIs
    <2>2. Bits!power[l + 1] = 2 * Bits!power[l]
      BY <1>1, PowerIs
    <2>  QED
      BY <1>1, <2>1, <2>2, PowerType
  <1>6. Bits!with_bit(v, nn, b) = r + Bits!power[nn] * new
    <2>1. Bits!with_bit(v, nn, b) = v + (b - c) * d
      BY DEF Bits!with_bit, Bits!shl
    <2> HIDE DEF d, r, h, c, u
    <2>2. d * (c + 2 * u) + (b - c) * d = d * (b + 2 * u)
      BY <1>1, <1>4
    <2>3. d * (c + 2 * u) \in Int /\ (b - c) * d \in Int
      BY <1>1, <1>4
    <2>  QED
      BY <1>2, <1>4, <2>1, <2>2, <2>3 DEF d
  <1>7. h \in 0 .. Bits!power[l + 1] - 1
    <2>1. nn + (l + 1) = W /\ l + 1 \in Nat
      BY <1>1
    <2>2. v \in 0 .. Bits!power[nn + (l + 1)] - 1
      BY <2>1
    <2> HIDE DEF l
    <2>  QED
      BY <1>1, <2>1, <2>2, ShiftedFits
  <1>8. new \in 0 .. Bits!power[l + 1] - 1
    <2> HIDE DEF h, c, u, l, d, r
    <2>  QED
      BY <1>4, <1>5, <1>7
  <1>9. Bits!with_bit(v, nn, b) \in 0 .. Bits!power[W] - 1
    <2>1. nn + (l + 1) = W /\ l + 1 \in Nat
      BY <1>1
    <2> HIDE DEF h, c, u, l, d, r, new
    <2>2. r + Bits!power[nn] * new \in 0 .. Bits!power[nn + (l + 1)] - 1
      BY <1>1, <1>2, <1>8, <2>1, JoinedFits DEF d
    <2>  QED
      BY <1>6, <2>1, <2>2
  <1>10. ASSUME NEW k \in Nat
         PROVE  Bits!bit(Bits!with_bit(v, nn, b), k) = IF k = nn THEN b ELSE Bits!bit(v, k)
    <2>1. new \in Nat
      BY <1>4
    <2>2. /\ Bits!bit(Bits!with_bit(v, nn, b), k)
               = IF k < nn THEN Bits!bit(r, k) ELSE Bits!bit(new, k - nn)
          /\ Bits!bit(v, k) = IF k < nn THEN Bits!bit(r, k) ELSE Bits!bit(h, k - nn)
      <3> HIDE DEF h, c, u, l, r, new
      <3>1. nn \in Nat /\ r \in 0 .. Bits!power[nn] - 1 /\ v = r + Bits!power[nn] * h
        BY <1>1, <1>2 DEF d
      <3>2. Bits!bit(r + Bits!power[nn] * new, k)
              = IF k < nn THEN Bits!bit(r, k) ELSE Bits!bit(new, k - nn)
        BY <2>1, <3>1, JoinedWords
      <3>3. Bits!bit(r + Bits!power[nn] * h, k)
              = IF k < nn THEN Bits!bit(r, k) ELSE Bits!bit(h, k - nn)
        BY <1>2, <3>1, JoinedWords
      <3>  QED
        BY <1>6, <3>1, <3>2, <3>3
    <2>3. ASSUME NEW j \in Nat, NEW z \in {0, 1}
          PROVE  Bits!bit(z + 2 * u, j) = IF j < 1 THEN Bits!bit(z, j) ELSE Bits!bit(u, j - 1)
      <3>1. z \in 0 .. Bits!power[1] - 1 /\ 1 \in Nat
        BY <1>5
      <3>2. Bits!bit(z + Bits!power[1] * u, j)
              = IF j < 1 THEN Bits!bit(z, j) ELSE Bits!bit(u, j - 1)
        <4> HIDE DEF u
        <4>  QED
          BY <1>4, <3>1, JoinedWords
      <3>  QED
        BY <1>5, <3>2
    <2>4. \A z \in {0, 1} : Bits!bit(z, 0) = z
      <3>1. \A z \in {0, 1} : (z \div 1) % 2 = z
        OBVIOUS
      <3>  QED
        BY <3>1, PowerIs DEF Bits!bit, Bits!shr
    <2>5. CASE k < nn
      BY <2>2, <2>5
    <2>6. CASE k = nn
      <3>1. k - nn = 0 /\ 0 \in Nat /\ 0 < 1
        BY <1>1, <2>6
      <3>2. Bits!bit(new, 0) = b
        BY <2>3, <2>4, <3>1
      <3>  QED
        BY <1>1, <2>2, <2>6, <3>1, <3>2
    <2>7. CASE k > nn
      <3>1. k - nn \in Nat /\ ~(k - nn < 1) /\ ~(k < nn) /\ k # nn
        BY <1>1, <2>7
      <3>2. Bits!bit(new, k - nn) = Bits!bit(u, (k - nn) - 1)
        BY <2>3, <3>1
      <3>3. Bits!bit(h, k - nn) = Bits!bit(u, (k - nn) - 1)
        <4>1. Bits!bit(c + 2 * u, k - nn) = Bits!bit(u, (k - nn) - 1)
          <5> HIDE DEF u, c
          <5>  QED
            BY <1>4, <2>3, <3>1
        <4>  QED
          BY <1>4, <4>1
      <3>  QED
        BY <2>2, <3>1, <3>2, <3>3
    <2>  QED
      BY <1>1, <2>5, <2>6, <2>7
  <1>  QED
    BY <1>9, <1>10

-----------------------------------------------------------------------------
(* Arrays of bits                                                            *)


LEMMA BitsConstants ==
  /\ W \in Nat \ {0} /\ Length \in Nat \ {0} /\ Bits!size = W * Length /\ Bits!size \in Nat
  /\ Arrays \subseteq [Bits!Bytes -> Bits!Byte] /\ Firsts \subseteq 0 .. Bits!size - 1
       /\ Nums \subseteq 1 .. Bits!size
  /\ Bits!power[W] \in Nat \ {0} /\ Bits!word = 4 * W
  <1>1. W \in Nat \ {0} /\ Length \in Nat \ {0}
    BY HelpersAssumption DEF Bits!BufferAssumption
  <1>2. Bits!size = W * Length /\ W * Length \in Nat
    BY <1>1 DEF Bits!size
  <1>  QED
    BY <1>1, <1>2, HelpersAssumption, PowerType DEF Bits!BufferAssumption, Bits!word

LEMMA WidthIs == W \in Nat \ {0}
  BY BitsConstants

LEMMA SizeIs == Bits!size \in Nat /\ \A p \in 0 .. Bits!size - 1 : p \in Nat /\ p < Bits!size
  BY BitsConstants

\* The byte a place is in, and the bit of it.
LEMMA BitPlaceIs ==
  ASSUME NEW p \in Nat
  PROVE  /\ p \div W \in Nat /\ p % W \in 0 .. W - 1 /\ p = W * (p \div W) + (p % W)
         /\ p < Bits!size => p \div W \in Bits!Bytes
         /\ \A nn \in Nat : (p < W * nn) <=> (p \div W < nn)
  <1> DEFINE q == p \div W
             r == p % W
  <1>1. q \in Nat /\ r \in 0 .. W - 1 /\ p = W * q + r
    BY BitsConstants, DivisionOf
  <1> HIDE DEF q, r
  <1>2. ASSUME NEW nn \in Nat  PROVE (p < W * nn) <=> (q < nn)
    <2>1. CASE q < nn
      <3>1. W * (q + 1) <= W * nn /\ W * (q + 1) = W * q + W
        BY <1>1, <2>1, BitsConstants
      <3>2. W * q \in Nat /\ W * nn \in Nat
        BY <1>1, BitsConstants
      <3>  QED
        BY <1>1, <2>1, <3>1, <3>2, BitsConstants
    <2>2. CASE ~(q < nn)
      <3>1. W * q >= W * nn
        BY <1>1, <2>2, BitsConstants
      <3>2. W * q \in Nat /\ W * nn \in Nat
        BY <1>1, BitsConstants
      <3>  QED
        BY <1>1, <2>2, <3>1, <3>2, BitsConstants
    <2>  QED
      BY <2>1, <2>2
  <1>3. p < Bits!size => q \in Bits!Bytes
    BY <1>1, <1>2, BitsConstants DEF Bits!Bytes
  <1>  QED
    BY <1>1, <1>2, <1>3 DEF q, r

LEMMA PlaceIn ==
  ASSUME NEW p \in 0 .. Bits!size - 1
  PROVE  /\ p \in Nat /\ p \div W \in Bits!Bytes /\ p \div W \in Nat
         /\ p % W \in 0 .. W - 1 /\ p % W \in Nat /\ p = W * (p \div W) + (p % W)
  <1>1. p \in Nat /\ p < Bits!size
    BY SizeIs
  <1>2. p \div W \in Bits!Bytes /\ p \div W \in Nat /\ p % W \in 0 .. W - 1
    BY <1>1, BitPlaceIs
  <1>3. p % W \in Nat
    BY <1>2, WidthIs
  <1>4. p = W * (p \div W) + (p % W)
    BY <1>1, BitPlaceIs
  <1>  QED
    BY <1>1, <1>2, <1>3, <1>4, Zenon

LEMMA PlaceOf ==
  ASSUME NEW k \in Nat, NEW j \in 0 .. W - 1
  PROVE  W * k + j \in Nat /\ (W * k + j) \div W = k /\ (W * k + j) % W = j
  <1>1. W * k + j \in Nat
    BY WidthIs
  <1>2. k \in Int
    OBVIOUS
  <1>3. (W * k + j) \div W = k /\ (W * k + j) % W = j
    BY <1>2, WidthIs, DivisionIs
  <1>  QED
    BY <1>1, <1>3, Zenon

Array == [Bits!Bytes -> Bits!Byte]

LEMMA ArrayByte == \A b \in Bits!Byte : b \in Nat /\ b \in 0 .. Bits!power[W] - 1
  BY BitsConstants DEF Bits!Byte

LEMMA BitAtType ==
  ASSUME NEW buf \in Array, NEW p \in 0 .. Bits!size - 1
  PROVE  Bits!bit_at(buf, p) \in {0, 1}
  <1>1. p \in Nat /\ p \div W \in Bits!Bytes /\ p % W \in Nat
    BY PlaceIn
  <1>2. buf[p \div W] \in Nat
    BY <1>1, ArrayByte DEF Array
  <1>  QED
    BY <1>1, <1>2, BitType DEF Bits!bit_at

\* A bit put into an array is in its place, and the others are as they were.
LEMMA PutIs ==
  ASSUME NEW buf \in Array, NEW p \in 0 .. Bits!size - 1, NEW b \in {0, 1}
  PROVE  /\ Bits!bit_put(buf, p, b) \in Array
         /\ \A q \in 0 .. Bits!size - 1 :
              Bits!bit_at(Bits!bit_put(buf, p, b), q) = IF q = p THEN b ELSE Bits!bit_at(buf, q)
  <1> DEFINE k == p \div W
             j == p % W
             put == Bits!with_bit(buf[k], j, b)
  <1>1. p \in Nat /\ k \in Bits!Bytes /\ j \in 0 .. W - 1 /\ p = W * k + j
    BY PlaceIn
  <1>2. buf[k] \in 0 .. Bits!power[W] - 1
    BY <1>1, ArrayByte DEF Array
  <1>3. put \in 0 .. Bits!power[W] - 1 /\ \A nn \in Nat : Bits!bit(put, nn)
          = IF nn = j THEN b ELSE Bits!bit(buf[k], nn)
    <2> HIDE DEF k, j
    <2>  QED
      BY <1>1, <1>2, BitsConstants, WithBitIs
  <1>4. Bits!bit_put(buf, p, b) = [buf EXCEPT ![k] = put]
    BY DEF Bits!bit_put
  <1> HIDE DEF k, j, put
  <1>5. [buf EXCEPT ![k] = put] \in Array
    BY <1>3 DEF Array, Bits!Byte
  <1>6. ASSUME NEW q \in 0 .. Bits!size - 1
        PROVE  Bits!bit_at([buf EXCEPT ![k] = put], q) = IF q = p THEN b ELSE Bits!bit_at(buf, q)
    <2>1. q \in Nat /\ q \div W \in Bits!Bytes /\ q % W \in 0 .. W - 1
            /\ q = W * (q \div W) + (q % W)
      BY PlaceIn
    <2>2. q % W \in Nat
      BY <2>1
    <2>3. CASE q \div W = k
      <3>1. [buf EXCEPT ![k] = put][q \div W] = put
        BY <2>1, <2>3 DEF Array
      <3>2. Bits!bit_at([buf EXCEPT ![k] = put], q)
              = IF q % W = j THEN b ELSE Bits!bit(buf[k], q % W)
        BY <1>3, <2>2, <3>1 DEF Bits!bit_at
      <3>3. (q % W = j) <=> (q = p)
        BY <1>1, <2>1, <2>3 DEF k, j
      <3>  QED
        BY <2>3, <3>2, <3>3 DEF Bits!bit_at
    <2>4. CASE q \div W # k
      <3>1. [buf EXCEPT ![k] = put][q \div W] = buf[q \div W]
        BY <2>1, <2>4 DEF Array
      <3>2. q # p
        BY <2>4 DEF k
      <3>  QED
        BY <3>1, <3>2 DEF Bits!bit_at
    <2>  QED
      BY <2>3, <2>4
  <1>  QED
    BY <1>4, <1>5, <1>6

\* A loop that puts one bit after the other, and there is such a loop.
IsPuts(g, m, buf, first, f) ==
  g = [nn \in 0 .. m |-> IF nn = 0 THEN buf ELSE Bits!bit_put(g[nn - 1], first + nn - 1, f[nn - 1])]

LEMMA PutsExist ==
  ASSUME NEW m \in Nat, NEW buf, NEW first, NEW f
  PROVE  \E g : IsPuts(g, m, buf, first, f)
  <1> DEFINE S == {b \in Nat : \E g : IsPuts(g, b, buf, first, f)}
  <1>1. 0 \in S
    <2>1. IsPuts([k \in 0 .. 0 |-> buf], 0, buf, first, f)
      BY DEF IsPuts
    <2>  QED
      BY <2>1
  <1>2. ASSUME NEW b \in Nat, b \in S  PROVE b + 1 \in S
    <2>1. PICK g : IsPuts(g, b, buf, first, f)
      BY <1>2
    <2> DEFINE turn(x, k) == Bits!bit_put(x, first + k - 1, f[k - 1])
               h == [k \in 0 .. b + 1 |-> IF k <= b THEN g[k] ELSE turn(g[b], k)]
    <2>2. \A k \in 0 .. b : g[k] = IF k = 0 THEN buf ELSE turn(g[k - 1], k)
      BY <2>1 DEF IsPuts
    <2> HIDE DEF turn
    <2>3. ASSUME NEW k \in 0 .. b + 1  PROVE h[k] = IF k = 0 THEN buf ELSE turn(h[k - 1], k)
      <3>1. CASE k <= b
        <4>1. k \in 0 .. b /\ h[k] = g[k]
          BY <3>1
        <4>2. k # 0 => k - 1 \in 0 .. b + 1 /\ k - 1 <= b
          BY <3>1
        <4>3. k # 0 => h[k - 1] = g[k - 1]
          BY <4>2
        <4>  QED
          BY <2>2, <4>1, <4>3
      <3>2. CASE k = b + 1
        <4>1. k - 1 = b /\ b \in 0 .. b + 1 /\ b <= b /\ k # 0 /\ ~(k <= b)
          BY <3>2
        <4>2. h[b] = g[b] /\ h[k] = turn(g[b], k)
          BY <4>1
        <4>  QED
          BY <4>1, <4>2
      <3>  QED
        BY <3>1, <3>2
    <2>4. h = [k \in 0 .. b + 1 |-> h[k]]
      OBVIOUS
    <2> HIDE DEF h
    <2>5. h = [k \in 0 .. b + 1 |-> IF k = 0 THEN buf ELSE turn(h[k - 1], k)]
      BY <2>3, <2>4
    <2>6. IsPuts(h, b + 1, buf, first, f)
      BY <2>5 DEF IsPuts, turn
    <2>  QED
      BY <2>6
  <1> HIDE DEF S
  <1>3. S \in SUBSET Nat
    BY DEF S
  <1>4. S = Nat
    BY <1>1, <1>2, <1>3, SetInduction
  <1>  QED
    BY <1>4 DEF S

\* What it comes to.
PutsDone(g, nn, buf, first, f) ==
  /\ g \in Array
  /\ \A q \in 0 .. Bits!size - 1 :
       Bits!bit_at(g, q) = IF first <= q /\ q < first + nn THEN f[q - first]
         ELSE Bits!bit_at(buf, q)

LEMMA PutsAre ==
  ASSUME NEW m \in Nat, NEW buf \in Array, NEW first \in Nat, NEW f, NEW g,
         first + m <= Bits!size, \A j \in 0 .. m - 1 : f[j] \in {0, 1},
         IsPuts(g, m, buf, first, f)
  PROVE  PutsDone(g[m], m, buf, first, f)
  <1> DEFINE S == {nn \in Nat : nn <= m => PutsDone(g[nn], nn, buf, first, f)}
  <1>1. 0 \in S
    <2>1. g[0] = buf
      BY DEF IsPuts
    <2>  QED
      BY <2>1 DEF PutsDone
  <1>2. ASSUME NEW b \in Nat, b \in S  PROVE b + 1 \in S
    <2>1. CASE b + 1 <= m
      <3>1. b <= m /\ b \in 0 .. m - 1 /\ b + 1 \in 0 .. m /\ (b + 1) - 1 = b /\ b + 1 # 0
        BY <2>1
      <3>2. first + (b + 1) - 1 = first + b /\ first + b \in 0 .. Bits!size - 1
        BY <2>1, BitsConstants
      <3>3. g[b + 1] = Bits!bit_put(g[b], first + b, f[b])
        BY <3>1, <3>2 DEF IsPuts
      <3>4. PutsDone(g[b], b, buf, first, f)
        BY <1>2, <3>1
      <3>5. f[b] \in {0, 1} /\ g[b] \in Array
        BY <3>1, <3>4 DEF PutsDone
      <3>6. /\ g[b + 1] \in Array
            /\ \A q \in 0 .. Bits!size - 1 :
                 Bits!bit_at(g[b + 1], q) = IF q = first + b THEN f[b] ELSE Bits!bit_at(g[b], q)
        BY <3>2, <3>3, <3>5, PutIs
      <3>7. ASSUME NEW q \in 0 .. Bits!size - 1
            PROVE  Bits!bit_at(g[b + 1], q) = IF first <= q /\ q < first + (b + 1)
                                          THEN f[q - first] ELSE Bits!bit_at(buf, q)
        <4>1. q \in Nat
          BY BitsConstants
        <4>2. q = first + b => q - first = b
          BY <4>1
        <4>3. Bits!bit_at(g[b], q) = IF first <= q /\ q < first + b THEN f[q - first]
                ELSE Bits!bit_at(buf, q)
          BY <3>4 DEF PutsDone
        <4>  QED
          BY <3>6, <4>1, <4>2, <4>3
      <3>  QED
        BY <3>6, <3>7 DEF PutsDone
    <2>  QED
      BY <2>1
  <1> HIDE DEF S
  <1>3. S \in SUBSET Nat
    BY DEF S
  <1>4. S = Nat
    BY <1>1, <1>2, <1>3, SetInduction
  <1>  QED
    BY <1>4 DEF S

\* The loop of value.
IsValue(s, buf, bytes) ==
  s = [k \in 0 .. bytes |->
         IF k = 0 THEN 0
         ELSE s[k - 1] + Bits!shl(IF k - 1 \in Bits!Bytes THEN buf[k - 1] ELSE 0, W * (k - 1))]

\* The word in an array has the bits of the array.
LEMMA ValueIs ==
  ASSUME NEW buf \in Array, NEW bytes \in Nat
  PROVE  /\ Bits!value(buf, bytes) \in Nat
         /\ \A k \in 0 .. Bits!size - 1 : k < W * bytes
              => Bits!bit(Bits!value(buf, bytes), k) = Bits!bit_at(buf, k)
  <1> DEFINE y == [j \in 0 .. bytes |-> IF j \in Bits!Bytes THEN buf[j] ELSE 0]
             t == [j \in 0 .. bytes |-> Bits!shl(y[j], W * j)]
             s == CHOOSE z : IsValue(z, buf, bytes)
  <1>1. \E z : IsValue(z, buf, bytes)
    <2>1. PICK z : IsSum(z, t, bytes)
      <3> HIDE DEF t
      <3>  QED
        BY SumExists
    <2>2. ASSUME NEW nn \in 0 .. bytes
          PROVE  z[nn] = IF nn = 0 THEN 0
                        ELSE z[nn - 1] + Bits!shl(IF nn - 1 \in Bits!Bytes THEN buf[nn - 1]
                          ELSE 0, W * (nn - 1))
      <3>1. z[nn] = IF nn = 0 THEN 0 ELSE z[nn - 1] + t[nn - 1]
        <4> HIDE DEF t
        <4>  QED
          BY <2>1 DEF IsSum
      <3>2. nn # 0 => nn - 1 \in 0 .. bytes
        OBVIOUS
      <3>3. nn # 0 => t[nn - 1] = Bits!shl(IF nn - 1 \in Bits!Bytes THEN buf[nn - 1]
              ELSE 0, W * (nn - 1))
        BY <3>2
      <3>  QED
        BY <3>1, <3>3
    <2>3. z = [nn \in 0 .. bytes |-> z[nn]]
      BY <2>1 DEF IsSum
    <2>4. IsValue(z, buf, bytes)
      BY <2>2, <2>3 DEF IsValue
    <2>  QED
      BY <2>4
  <1>2. IsValue(s, buf, bytes)
    BY <1>1
  <1>3. Bits!value(buf, bytes) = s[bytes]
    BY DEF Bits!value, IsValue
  <1> HIDE DEF s
  <1>4. s[0] = 0
    BY <1>2 DEF IsValue
  <1>5. ASSUME NEW nn \in 0 .. bytes - 1  PROVE s[nn + 1] = s[nn] + Bits!shl(y[nn], W * nn)
    <2>1. nn + 1 \in 0 .. bytes /\ nn + 1 # 0 /\ (nn + 1) - 1 = nn /\ nn \in 0 .. bytes
      OBVIOUS
    <2>2. s[nn + 1] = s[nn] + Bits!shl(IF nn \in Bits!Bytes THEN buf[nn] ELSE 0, W * nn)
      BY <1>2, <2>1 DEF IsValue
    <2>  QED
      BY <2>1, <2>2
  <1>6. ASSUME NEW j \in 0 .. bytes
        PROVE  y[j] \in 0 .. Bits!power[W] - 1 /\ (j \in Bits!Bytes => y[j] = buf[j])
    BY ArrayByte, BitsConstants DEF Array
  <1> HIDE DEF y
  <1>7. AddsWords(W, bytes, s, y)
    BY <1>4, <1>5, <1>6 DEF AddsWords
  <1>8. HasWords(W, bytes, s[bytes], y)
    BY <1>7, BitsConstants, WordsAdd
  <1>9. Bits!power[W * bytes] \in Nat /\ W * bytes \in Nat
    BY BitsConstants, PowerType
  <1>10. ASSUME NEW k \in 0 .. Bits!size - 1, k < W * bytes
                  PROVE Bits!bit(s[bytes], k) = Bits!bit_at(buf, k)
    <2>1. k \in Nat /\ k \in 0 .. W * bytes - 1
      BY <1>9, <1>10, BitsConstants
    <2>2. k \div W \in Bits!Bytes /\ k \div W < bytes /\ k \div W \in Nat
      <3>1. k \div W \in Bits!Bytes /\ k \div W \in Nat
        BY PlaceIn
      <3>2. k \div W < bytes
        BY <1>10, <2>1, BitPlaceIs
      <3>  QED
        BY <3>1, <3>2
    <2>3. y[k \div W] = buf[k \div W]
      BY <1>6, <2>2
    <2>4. Bits!bit(s[bytes], k) = Bits!bit(y[k \div W], k % W)
      BY <1>8, <2>1 DEF HasWords
    <2>  QED
      BY <2>3, <2>4 DEF Bits!bit_at
  <1>  QED
    BY <1>3, <1>8, <1>9, <1>10 DEF HasWords

-----------------------------------------------------------------------------
(* Words set and read                                                        *)

\* A multiple of the width ends at the end of a byte.
LEMMA WholeBytes ==
  ASSUME NEW nn \in Nat, nn % W = 0
  PROVE  nn = W * (nn \div W) /\ nn \div W \in Nat
  <1> DEFINE q == nn \div W
  <1>1. nn = W * q + (nn % W) /\ q \in Nat
    BY BitPlaceIs
  <1> HIDE DEF q
  <1>2. nn = W * q + 0
    BY <1>1
  <1>3. W * q + 0 = W * q
    BY <1>1, WidthIs
  <1>4. nn = W * q
    BY <1>2, <1>3
  <1>  QED
    BY <1>1, <1>4 DEF q

LEMMA WholeIs ==
  ASSUME NEW first, NEW num \in Nat, NEW bytes, Bits!whole(first, num, bytes)
  PROVE  first = 0 /\ num % W = 0
  <1>1. first = 0 /\ (num = W * 4 \/ num = W * 8)
    <2>1. 4 * W = W * 4 /\ 2 * (4 * W) = W * 8
      BY WidthIs
    <2>  QED
      BY <2>1, BitsConstants DEF Bits!whole
  <1>2. ASSUME NEW k \in Nat  PROVE (W * k) % W = 0
    <2>1. 0 \in 0 .. W - 1 /\ W * k + 0 = W * k
      BY WidthIs
    <2>2. (W * k + 0) % W = 0
      BY <2>1, PlaceOf
    <2>  QED
      BY <2>1, <2>2
  <1>3. (W * 4) % W = 0 /\ (W * 8) % W = 0
    BY <1>2
  <1>  QED
    BY <1>1, <1>3

\* The loop of buf_set_u32 and buf_set_u64.
IsSet(g, first, num, v) ==
  g = [nn \in 0 .. num |->
         IF nn = 0 THEN buffer ELSE Bits!store(g[nn - 1], first + nn - 1, Bits!bit(v, nn - 1))]

LEMMA SetBits ==
  ASSUME NEW first \in Nat, NEW num \in Nat, first + num <= Bits!size, NEW v \in Nat,
           buffer \in Array
  PROVE  PutsDone((CHOOSE g : IsSet(g, first, num, v))[num], num, buffer, first,
                  [j \in 0 .. num - 1 |-> Bits!bit(v, j)])
  <1> DEFINE f == [j \in 0 .. num - 1 |-> Bits!bit(v, j)]
             g == CHOOSE z : IsSet(z, first, num, v)
  <1>1. ASSUME NEW z  PROVE IsSet(z, first, num, v) <=> IsPuts(z, num, buffer, first, f)
    <2>1. ASSUME NEW nn \in 0 .. num
          PROVE  (IF nn = 0 THEN buffer
                   ELSE Bits!store(z[nn - 1], first + nn - 1, Bits!bit(v, nn - 1)))
                   = (IF nn = 0 THEN buffer ELSE Bits!bit_put(z[nn - 1], first + nn - 1, f[nn - 1]))
      <3>1. nn # 0 => nn - 1 \in 0 .. num - 1
        OBVIOUS
      <3>2. nn # 0 => f[nn - 1] = Bits!bit(v, nn - 1)
        BY <3>1
      <3>  QED
        BY <3>2 DEF Bits!store
    <2>2. [nn \in 0 .. num |-> IF nn = 0 THEN buffer
            ELSE Bits!store(z[nn - 1], first + nn - 1, Bits!bit(v, nn - 1))]
            = [nn \in 0 .. num |-> IF nn = 0 THEN buffer
              ELSE Bits!bit_put(z[nn - 1], first + nn - 1, f[nn - 1])]
      <3> HIDE DEF f
      <3>  QED
        BY <2>1
    <2>  QED
      BY <2>2 DEF IsSet, IsPuts
  <1>2. \A j \in 0 .. num - 1 : f[j] \in {0, 1}
    BY BitType
  <1> HIDE DEF f
  <1>3. \E z : IsSet(z, first, num, v)
    BY <1>1, PutsExist
  <1>4. IsPuts(g, num, buffer, first, f)
    BY <1>1, <1>3
  <1> HIDE DEF g
  <1>5. PutsDone(g[num], num, buffer, first, f)
    BY <1>2, <1>4, PutsAre
  <1>  QED
    BY <1>5 DEF f, g

\* buf_set_u32 and buf_set_u64 replace the bits of the range by those of the value, and no
\* other, along both paths.
LEMMA SetIs ==
  ASSUME NEW first \in Nat, NEW num \in Nat, first + num <= Bits!size, NEW v \in Nat, NEW bytes,
         buffer \in Array
  PROVE  PutsDone(Bits!buf_set(first, num, v, bytes), num, buffer, first,
                  [j \in 0 .. num - 1 |-> Bits!bit(v, j)])
  <1> DEFINE fast == [k \in Bits!Bytes |-> IF k < num \div W
               THEN Bits!shr(v, W * k) % Bits!power[W] ELSE buffer[k]]
             f == [j \in 0 .. num - 1 |-> Bits!bit(v, j)]
  <1>1. Bits!buf_set(first, num, v, bytes) =
          IF Bits!whole(first, num, bytes) THEN fast ELSE (CHOOSE g : IsSet(g, first, num, v))[num]
    BY DEF Bits!buf_set, IsSet
  <1>2. CASE ~Bits!whole(first, num, bytes)
    BY <1>1, <1>2, SetBits
  <1>3. CASE Bits!whole(first, num, bytes)
    <2>1. first = 0 /\ num % W = 0
      BY <1>3, WholeIs
    <2>2. num = W * (num \div W) /\ num \div W \in Nat
      BY <2>1, WholeBytes
    <2>3. \A k \in Bits!Bytes : k \in Nat /\ W * k \in Nat
      BY BitsConstants DEF Bits!Bytes
    <2>4. ASSUME NEW k \in Bits!Bytes  PROVE fast[k] \in Bits!Byte
      <3>1. Bits!shr(v, W * k) \in Nat
        BY <2>3, BitType
      <3>2. Bits!shr(v, W * k) % Bits!power[W] \in 0 .. Bits!power[W] - 1
        BY <3>1, WidthIs, Halves
      <3>  QED
        BY <3>2 DEF Array, Bits!Byte
    <2>5. fast \in Array
      <3>1. fast = [k \in Bits!Bytes |-> fast[k]]
        OBVIOUS
      <3> HIDE DEF fast
      <3>  QED
        BY <2>4, <3>1 DEF Array
    <2>6. ASSUME NEW q \in 0 .. Bits!size - 1
          PROVE  Bits!bit_at(fast, q) = IF 0 <= q /\ q < 0 + num THEN f[q - 0]
                   ELSE Bits!bit_at(buffer, q)
      <3> DEFINE k == q \div W
                 j == q % W
      <3>1. q \in Nat /\ k \in Bits!Bytes /\ k \in Nat /\ j \in 0 .. W - 1 /\ j \in Nat
              /\ q = W * k + j
        BY PlaceIn
      <3>2. (q < num) <=> (k < num \div W)
        BY <2>2, <3>1, BitPlaceIs
      <3>3. CASE q < num
        <4>1. fast[k] = Bits!shr(v, W * k) % Bits!power[W]
          BY <3>1, <3>2, <3>3
        <4>2. Bits!bit(Bits!shr(v, W * k) % Bits!power[W], j) = Bits!bit(v, q)
          <5> HIDE DEF k, j
          <5>1. Bits!shr(v, W * k) \in Nat /\ W * k \in Nat /\ j < W
            <6>1. W * k \in Nat
              BY <2>3, <3>1
            <6>2. Bits!shr(v, W * k) \in Nat
              BY <6>1, BitType
            <6>3. j < W
              BY <3>1, WidthIs
            <6>  QED
              BY <6>1, <6>2, <6>3
          <5>2. Bits!bit(Bits!shr(v, W * k) % Bits!power[W], j) = Bits!bit(Bits!shr(v, W * k), j)
            BY <3>1, <5>1, WidthIs, CutBits
          <5>3. Bits!bit(Bits!shr(v, W * k), j) = Bits!bit(v, W * k + j)
            BY <3>1, <5>1, ShiftedBit
          <5>  QED
            BY <3>1, <5>2, <5>3
        <4>3. q - 0 = q /\ 0 <= q /\ q < 0 + num /\ q \in 0 .. num - 1
          BY <3>1, <3>3
        <4>4. f[q] = Bits!bit(v, q)
          BY <4>3
        <4> HIDE DEF fast, f
        <4>  QED
          BY <4>1, <4>2, <4>3, <4>4 DEF Bits!bit_at
      <3>4. CASE ~(q < num)
        <4>1. fast[k] = buffer[k]
          BY <3>1, <3>2, <3>4
        <4>2. ~(q < 0 + num)
          BY <3>4
        <4> HIDE DEF fast, f
        <4>  QED
          BY <4>1, <4>2 DEF Bits!bit_at
      <3>  QED
        BY <3>3, <3>4
    <2> HIDE DEF fast, f
    <2>7. PutsDone(fast, num, buffer, first, f)
      BY <2>1, <2>5, <2>6 DEF PutsDone
    <2>  QED
      BY <1>1, <1>3, <2>7 DEF f
  <1>  QED
    BY <1>2, <1>3

\* The loops of buf_get_u32 and buf_get_u64.
IsGet(s, first, num) ==
  s = [nn \in 0 .. num |->
         IF nn = 0 THEN 0 ELSE s[nn - 1] + Bits!shl(Bits!bit_at(buffer, first + nn - 1), nn - 1)]
IsGetFast(s, num) ==
  s = [k \in 0 .. num \div W |->
         IF k = 0 THEN 0 ELSE s[k - 1] + Bits!shl(buffer[k - 1], W * (k - 1))]

LEMMA GetBits ==
  ASSUME NEW first \in Nat, NEW num \in Nat, first + num <= Bits!size, buffer \in Array,
         NEW k \in 0 .. num - 1
  PROVE  Bits!bit((CHOOSE s : IsGet(s, first, num))[num], k) = Bits!bit_at(buffer, first + k)
  <1> DEFINE f == [j \in 0 .. num - 1 |-> Bits!bit_at(buffer, first + j)]
             t == [j \in 0 .. num - 1 |-> Bits!shl(f[j], j)]
             s == CHOOSE z : IsGet(z, first, num)
  <1>1. \E z : IsGet(z, first, num)
    <2>1. PICK z : IsSum(z, t, num)
      <3> HIDE DEF t
      <3>  QED
        BY SumExists
    <2>2. ASSUME NEW nn \in 0 .. num
          PROVE  z[nn] = IF nn = 0 THEN 0
                   ELSE z[nn - 1] + Bits!shl(Bits!bit_at(buffer, first + nn - 1), nn - 1)
      <3>1. z[nn] = IF nn = 0 THEN 0 ELSE z[nn - 1] + t[nn - 1]
        <4> HIDE DEF t
        <4>  QED
          BY <2>1 DEF IsSum
      <3>2. nn # 0 => nn - 1 \in 0 .. num - 1 /\ first + (nn - 1) = first + nn - 1
        OBVIOUS
      <3>3. nn # 0 => t[nn - 1] = Bits!shl(Bits!bit_at(buffer, first + nn - 1), nn - 1)
        BY <3>2
      <3>  QED
        BY <3>1, <3>3
    <2>3. z = [nn \in 0 .. num |-> z[nn]]
      BY <2>1 DEF IsSum
    <2>4. IsGet(z, first, num)
      BY <2>2, <2>3 DEF IsGet
    <2>  QED
      BY <2>4
  <1>2. IsGet(s, first, num)
    BY <1>1
  <1> HIDE DEF s
  <1>3. s[0] = 0
    BY <1>2 DEF IsGet
  <1>4. ASSUME NEW nn \in 0 .. num - 1  PROVE s[nn + 1] = s[nn] + Bits!shl(f[nn], nn)
    <2>1. nn + 1 \in 0 .. num /\ nn + 1 # 0 /\ (nn + 1) - 1 = nn
            /\ first + (nn + 1) - 1 = first + nn
      OBVIOUS
    <2>2. s[nn + 1] = s[nn] + Bits!shl(Bits!bit_at(buffer, first + nn), nn)
      BY <1>2, <2>1 DEF IsGet
    <2>  QED
      BY <2>2
  <1>5. ASSUME NEW j \in 0 .. num - 1
        PROVE  f[j] \in {0, 1} /\ f[j] = Bits!bit_at(buffer, first + j)
    <2>1. first + j \in 0 .. Bits!size - 1
      BY SizeIs
    <2>2. Bits!bit_at(buffer, first + j) \in {0, 1}
      BY <2>1, BitAtType
    <2>  QED
      BY <2>2
  <1> HIDE DEF f
  <1>6. \A j \in 0 .. num - 1 : Bits!bit(s[num], j) = f[j]
    BY <1>3, <1>4, <1>5, BitsAdd
  <1>  QED
    BY <1>5, <1>6 DEF s

LEMMA GetBytes ==
  ASSUME NEW num \in Nat, num <= Bits!size, num % W = 0, buffer \in Array, NEW p \in 0 .. num - 1
  PROVE  Bits!bit((CHOOSE s : IsGetFast(s, num))[num \div W], p) = Bits!bit_at(buffer, p)
  <1> DEFINE m == num \div W
             t == [j \in 0 .. m |-> Bits!shl(buffer[j], W * j)]
             s == CHOOSE z : IsGetFast(z, num)
  <1>1. m \in Nat /\ num = W * m
    BY WholeBytes
  <1>2. \E z : IsGetFast(z, num)
    <2>1. PICK z : IsSum(z, t, m)
      <3> HIDE DEF t, m
      <3>  QED
        BY <1>1, SumExists
    <2>2. ASSUME NEW nn \in 0 .. m
          PROVE  z[nn] = IF nn = 0 THEN 0 ELSE z[nn - 1] + Bits!shl(buffer[nn - 1], W * (nn - 1))
      <3> HIDE DEF m
      <3>1. z[nn] = IF nn = 0 THEN 0 ELSE z[nn - 1] + t[nn - 1]
        <4> HIDE DEF t
        <4>  QED
          BY <2>1 DEF IsSum
      <3>2. nn # 0 => nn - 1 \in 0 .. m
        BY <1>1
      <3>3. nn # 0 => t[nn - 1] = Bits!shl(buffer[nn - 1], W * (nn - 1))
        BY <3>2
      <3>  QED
        BY <3>1, <3>3
    <2>3. z = [nn \in 0 .. m |-> z[nn]]
      BY <2>1 DEF IsSum
    <2>4. IsGetFast(z, num)
      BY <2>2, <2>3 DEF IsGetFast
    <2>  QED
      BY <2>4
  <1>3. IsGetFast(s, num)
    BY <1>2
  <1> HIDE DEF s
  <1>4. s[0] = 0
    <2>1. 0 \in 0 .. m
      BY <1>1
    <2>  QED
      BY <1>3, <2>1 DEF IsGetFast
  <1>5. ASSUME NEW nn \in 0 .. m - 1  PROVE s[nn + 1] = s[nn] + Bits!shl(buffer[nn], W * nn)
    <2>1. nn + 1 \in 0 .. m /\ nn + 1 # 0 /\ (nn + 1) - 1 = nn
      BY <1>1
    <2>  QED
      BY <1>3, <2>1 DEF IsGetFast
  <1> HIDE DEF m
  <1>6. m <= Length
    <2>1. ASSUME Length < m  PROVE FALSE
      <3>1. W * Length < W * m
        BY <1>1, <2>1, BitsConstants
      <3>  QED
        BY <1>1, <3>1, BitsConstants
    <2>  QED
      BY <1>1, <2>1, BitsConstants
  <1>7. ASSUME NEW j \in 0 .. m - 1  PROVE buffer[j] \in 0 .. Bits!power[W] - 1
    <2>1. j \in Bits!Bytes
      BY <1>1, <1>6, BitsConstants DEF Bits!Bytes
    <2>  QED
      BY <2>1, ArrayByte DEF Array
  <1>8. AddsWords(W, m, s, buffer)
    BY <1>4, <1>5, <1>7 DEF AddsWords
  <1>9. HasWords(W, m, s[m], buffer)
    <2>1. m \in 0 .. m
      BY <1>1
    <2>  QED
      BY <1>1, <1>8, <2>1, WidthIs, WordsAdd
  <1>10. Bits!bit(s[m], p) = Bits!bit(buffer[p \div W], p % W)
    BY <1>1, <1>9 DEF HasWords
  <1>  QED
    BY <1>10 DEF Bits!bit_at, m, s

LEMMA GetIs ==
  ASSUME NEW first \in Nat, NEW num \in Nat, first + num <= Bits!size, NEW bytes, buffer \in Array,
         NEW k \in 0 .. num - 1
  PROVE  Bits!bit(Bits!buf_get(first, num, bytes), k) = Bits!bit_at(buffer, first + k)
  <1>1. Bits!buf_get(first, num, bytes) =
          IF Bits!whole(first, num, bytes) THEN (CHOOSE s : IsGetFast(s, num))[num \div W]
          ELSE (CHOOSE s : IsGet(s, first, num))[num]
    BY DEF Bits!buf_get, IsGet, IsGetFast
  <1>2. CASE ~Bits!whole(first, num, bytes)
    BY <1>1, <1>2, GetBits
  <1>3. CASE Bits!whole(first, num, bytes)
    <2>1. first = 0 /\ num % W = 0
      BY <1>3, WholeIs
    <2>2. num <= Bits!size /\ first + k = k
      BY <2>1
    <2>  QED
      BY <1>1, <1>3, <2>1, <2>2, GetBytes
  <1>  QED
    BY <1>2, <1>3

-----------------------------------------------------------------------------
(* Bits filled in, and copied                                                *)

\* The places of the last byte of the first n bits that are behind them.
IsBehind(q, nn) == q >= nn /\ q \div W = nn \div W /\ nn % W # 0

\* The bits before the n-th replaced, and those behind in its byte cleared.
FillDone(g, nn, f) ==
  /\ g \in Array
  /\ \A q \in 0 .. Bits!size - 1 :
       Bits!bit_at(g, q) = IF q < nn THEN f[q] ELSE IF IsBehind(q, nn) THEN 0
         ELSE Bits!bit_at(buffer, q)

\* Where a place is with respect to the first n bits.
LEMMA PlaceBy ==
  ASSUME NEW q \in Nat, NEW nn \in Nat
  PROVE  /\ (q < nn) <=> (q \div W < nn \div W \/ (q \div W = nn \div W /\ q % W < nn % W))
         /\ q < nn => q \div W < (nn + W - 1) \div W
         /\ q >= nn /\ ~IsBehind(q, nn) => ~(q \div W < (nn + W - 1) \div W)
  <1> DEFINE k == q \div W
             j == q % W
             m == nn \div W
             r == nn % W
             c == (nn + W - 1) \div W
  <1>1. k \in Nat /\ j \in 0 .. W - 1 /\ q = W * k + j
    BY BitPlaceIs
  <1>2. m \in Nat /\ r \in 0 .. W - 1 /\ nn = W * m + r
    BY BitPlaceIs
  <1>3. nn + W - 1 \in Nat
    BY WidthIs
  <1>4. c \in Nat
    BY <1>3, BitPlaceIs
  <1>5. \A l \in Nat : (l < c) <=> (W * l < nn)
    <2>1. ASSUME NEW l \in Nat  PROVE (l < c) <=> (W * l < nn)
      <3>1. l + 1 \in Nat
        OBVIOUS
      <3>2. (nn + W - 1 < W * (l + 1)) <=> (c < l + 1)
        BY <1>3, <3>1, BitPlaceIs
      <3> HIDE DEF c
      <3>3. W * (l + 1) = W * l + W /\ W * l \in Nat
        BY WidthIs
      <3>  QED
        BY <1>4, <3>2, <3>3, WidthIs
    <2>  QED
      BY <2>1
  <1> DEFINE behind == q >= nn /\ k = m /\ r # 0
  <1>6. IsBehind(q, nn) <=> behind
    BY DEF IsBehind
  <1> HIDE DEF k, j, m, r, c
  <1>7. ASSUME NEW a \in Nat, NEW b \in Nat, a < b  PROVE W * a + W <= W * b
    <2>1. W * (a + 1) <= W * b
      BY <1>7, WidthIs
    <2>2. W * (a + 1) = W * a + W
      BY WidthIs
    <2>  QED
      BY <2>1, <2>2
  <1>8. W * k \in Nat /\ W * m \in Nat
    BY <1>1, <1>2, WidthIs
  <1>9. (q < nn) <=> (k < m \/ (k = m /\ j < r))
    <2>1. CASE k < m
      BY <1>1, <1>2, <1>7, <1>8, <2>1, WidthIs
    <2>2. CASE m < k
      BY <1>1, <1>2, <1>7, <1>8, <2>2, WidthIs
    <2>3. CASE k = m
      BY <1>1, <1>2, <1>8, <2>3, WidthIs
    <2>  QED
      BY <1>1, <1>2, <2>1, <2>2, <2>3
  <1>10. q < nn => k < c
    BY <1>1, <1>5, <1>8, WidthIs
  <1>11. q >= nn /\ ~behind => ~(k < c)
    <2>1. SUFFICES ASSUME q >= nn, ~behind  PROVE ~(W * k < nn)
      BY <1>1, <1>5
    <2>2. CASE k = m
      BY <1>2, <1>8, <2>1, <2>2, WidthIs
    <2>3. CASE m < k
      BY <1>1, <1>2, <1>7, <1>8, <2>3, WidthIs
    <2>4. ~(k < m)
      BY <1>1, <1>2, <1>7, <1>8, <2>1, WidthIs
    <2>  QED
      BY <1>1, <1>2, <2>2, <2>3, <2>4
  <1>  QED
    BY <1>6, <1>9, <1>10, <1>11 DEF k, j, m, r, c

\* A length that ends within a byte ends within the buffer.
LEMMA TailIsByte ==
  ASSUME NEW nn \in 0 .. Bits!size, nn % W # 0
  PROVE  nn \in Nat /\ nn \div W \in Bits!Bytes /\ nn % W \in 0 .. W - 1 /\ nn % W \in Nat
  <1>1. nn \in Nat /\ nn <= Bits!size
    BY SizeIs
  <1>2. Bits!size % W = 0
    <2>1. 0 \in 0 .. W - 1 /\ Length \in Nat /\ W * Length + 0 = Bits!size
      BY BitsConstants
    <2>2. (W * Length + 0) % W = 0
      BY <2>1, PlaceOf
    <2>  QED
      BY <2>1, <2>2
  <1>3. nn \in 0 .. Bits!size - 1
    BY <1>1, <1>2, SizeIs
  <1>  QED
    BY <1>1, <1>3, PlaceIn

\* The last byte masked.
LEMMA MaskIs ==
  ASSUME NEW buf \in Array, NEW nn \in 0 .. Bits!size
  PROVE  /\ Bits!trailing_masked(buf, nn) \in Array
         /\ \A q \in 0 .. Bits!size - 1 :
              Bits!bit_at(Bits!trailing_masked(buf, nn), q)
                = IF IsBehind(q, nn) THEN 0 ELSE Bits!bit_at(buf, q)
  <1>1. CASE nn % W = 0
    <2>1. Bits!trailing_masked(buf, nn) = buf
      BY <1>1 DEF Bits!trailing_masked
    <2>  QED
      BY <1>1, <2>1 DEF IsBehind
  <1>2. CASE nn % W # 0
    <2> DEFINE m == nn \div W
               r == nn % W
               cut == buf[m] % Bits!power[r]
               new == [buf EXCEPT ![m] = cut]
    <2>1. nn \in Nat /\ m \in Bits!Bytes /\ r \in 0 .. W - 1 /\ r \in Nat
      BY <1>2, TailIsByte
    <2>2. Bits!trailing_masked(buf, nn) = new
      BY <1>2 DEF Bits!trailing_masked
    <2>3. buf[m] \in Nat /\ buf[m] \in 0 .. Bits!power[W] - 1
      BY <2>1, ArrayByte DEF Array
    <2>4. cut \in Nat /\ cut \in Bits!Byte /\ \A k \in Nat : Bits!bit(cut, k)
            = IF k < r THEN Bits!bit(buf[m], k) ELSE 0
      <3> HIDE DEF m, r
      <3>1. cut \in 0 .. Bits!power[r] - 1 /\ \A k \in Nat : Bits!bit(cut, k)
              = IF k < r THEN Bits!bit(buf[m], k) ELSE 0
        BY <2>1, <2>3, Halves, CutBits
      <3>2. Bits!power[r] \in Nat \ {0}
        BY <2>1, PowerType
      <3>3. cut <= buf[m]
        <4> DEFINE a == buf[m]
                   d == Bits!power[r]
                   h == Bits!shr(a, r)
        <4>1. h \in Nat /\ a = cut + d * h
          BY <2>1, <2>3, Halves
        <4>2. d \in Nat /\ cut \in Nat /\ a \in Nat
          BY <2>3, <3>1, <3>2
        <4> HIDE DEF a, d, h, cut
        <4>3. d * h \in Nat
          BY <4>1, <4>2
        <4>  QED
          BY <4>1, <4>2, <4>3 DEF a
      <3> HIDE DEF cut
      <3>4. cut \in Nat
        BY <3>1, <3>2
      <3>5. cut \in Bits!Byte
        BY <2>3, <3>3, <3>4, BitsConstants DEF Bits!Byte
      <3>  QED
        BY <3>1, <3>4, <3>5
    <2> HIDE DEF m, r, cut
    <2>5. new \in Array
      BY <2>4 DEF Array
    <2>6. ASSUME NEW q \in 0 .. Bits!size - 1
          PROVE  Bits!bit_at(new, q) = IF IsBehind(q, nn) THEN 0 ELSE Bits!bit_at(buf, q)
      <3>1. q \in Nat /\ q \div W \in Bits!Bytes /\ q % W \in Nat
        BY PlaceIn
      <3>2. IsBehind(q, nn) <=> q >= nn /\ q \div W = m
        BY <1>2 DEF IsBehind, m
      <3>3. CASE q \div W = m
        <4>1. (q < nn) <=> (q % W < r)
          <5>1. (q < nn) <=> (q \div W < nn \div W \/ (q \div W = nn \div W /\ q % W < nn % W))
            BY <2>1, <3>1, PlaceBy
          <5>2. ~(m < m)
            <6>1. m \in Int
              BY <2>1, BitsConstants DEF Bits!Bytes
            <6>  QED
              BY <6>1
          <5>  QED
            BY <3>3, <5>1, <5>2 DEF m, r
        <4>2. new[q \div W] = cut
          BY <3>1, <3>3 DEF Array
        <4>3. Bits!bit_at(new, q) = IF q % W < r THEN Bits!bit(buf[m], q % W) ELSE 0
          BY <2>4, <3>1, <4>2 DEF Bits!bit_at
        <4>4. Bits!bit_at(buf, q) = Bits!bit(buf[m], q % W)
          BY <3>3 DEF Bits!bit_at
        <4>5. (q >= nn) <=> ~(q < nn)
          BY <2>1, <3>1
        <4>  QED
          BY <3>2, <3>3, <4>1, <4>3, <4>4, <4>5
      <3>4. CASE q \div W # m
        <4>1. new[q \div W] = buf[q \div W]
          BY <3>1, <3>4 DEF Array
        <4>  QED
          BY <3>2, <3>4, <4>1 DEF Bits!bit_at
      <3>  QED
        BY <3>3, <3>4
    <2>  QED
      BY <2>2, <2>5, <2>6
  <1>  QED
    BY <1>1, <1>2

\* buf_cpy.
LEMMA CpyIs ==
  ASSUME NEW from \in Array, NEW num \in 0 .. Bits!size, buffer \in Array
  PROVE  FillDone(Bits!buf_cpy(from, num), num, [p \in 0 .. num - 1 |-> Bits!bit_at(from, 0 + p)])
  <1> DEFINE c == (num + W - 1) \div W
             mixed == [k \in Bits!Bytes |-> IF k < c THEN from[k] ELSE buffer[k]]
             f == [p \in 0 .. num - 1 |-> Bits!bit_at(from, 0 + p)]
  <1>1. Bits!buf_cpy(from, num) = Bits!trailing_masked(mixed, num)
    BY DEF Bits!buf_cpy
  <1>2. mixed \in Array
    BY DEF Array
  <1>3. ASSUME NEW q \in 0 .. Bits!size - 1
        PROVE  Bits!bit_at(Bits!trailing_masked(mixed, num), q) =
                 IF q < num THEN f[q] ELSE IF IsBehind(q, num) THEN 0 ELSE Bits!bit_at(buffer, q)
    <2>1. q \in Nat /\ q \div W \in Bits!Bytes /\ num \in Nat
      BY PlaceIn, SizeIs
    <2>2. Bits!bit_at(Bits!trailing_masked(mixed, num), q) =
            IF IsBehind(q, num) THEN 0 ELSE Bits!bit_at(mixed, q)
      <3> HIDE DEF mixed
      <3>  QED
        BY <1>2, MaskIs
    <2>3. Bits!bit_at(mixed, q) = IF q \div W < c THEN Bits!bit_at(from, q)
            ELSE Bits!bit_at(buffer, q)
      <3>1. mixed[q \div W] = IF q \div W < c THEN from[q \div W] ELSE buffer[q \div W]
        BY <2>1
      <3> HIDE DEF mixed, c
      <3>  QED
        BY <3>1 DEF Bits!bit_at
    <2>4. CASE q < num
      <3>1. q \div W < c
        BY <2>1, <2>4, PlaceBy
      <3>2. ~IsBehind(q, num)
        BY <2>1, <2>4 DEF IsBehind
      <3>3. q \in 0 .. num - 1 /\ 0 + q = q
        BY <2>1, <2>4
      <3>4. f[q] = Bits!bit_at(from, q)
        BY <3>3
      <3> HIDE DEF f, c, mixed
      <3>  QED
        BY <2>2, <2>3, <2>4, <3>1, <3>2, <3>4
    <2>5. CASE ~(q < num)
      <3>1. ~IsBehind(q, num) => ~(q \div W < c)
        BY <2>1, <2>5, PlaceBy
      <3> HIDE DEF f, c, mixed
      <3>  QED
        BY <2>2, <2>3, <2>5, <3>1
    <2>  QED
      BY <2>4, <2>5
  <1> HIDE DEF mixed, f
  <1>4. Bits!trailing_masked(mixed, num) \in Array
    BY <1>2, MaskIs
  <1>  QED
    BY <1>1, <1>3, <1>4 DEF FillDone, f

\* buf_set_ones.
LEMMA SetOnesIs ==
  ASSUME NEW num \in 0 .. Bits!size, buffer \in Array
  PROVE  FillDone(Bits!buf_set_ones(num), num, [p \in 0 .. num - 1 |-> 1])
  <1> DEFINE m == num \div W
             r == num % W
             memset == [k \in Bits!Bytes |-> IF k < m THEN Bits!power[W] - 1 ELSE buffer[k]]
             last == Bits!power[r] - 1
             f == [p \in 0 .. num - 1 |-> 1]
             new == Bits!buf_set_ones(num)
  <1>1. new = IF r = 0 THEN memset ELSE [memset EXCEPT ![m] = last]
    BY DEF Bits!buf_set_ones
  <1>2. num \in Nat /\ m \in Nat /\ r \in 0 .. W - 1 /\ r \in Nat
    <2>1. num \in Nat
      BY SizeIs
    <2>2. m \in Nat /\ r \in 0 .. W - 1
      BY <2>1, BitPlaceIs
    <2>3. r \in Nat
      BY <2>2, WidthIs
    <2>  QED
      BY <2>1, <2>2, <2>3
  <1>3. memset \in Array
    <2>1. Bits!power[W] - 1 \in Bits!Byte
      BY BitsConstants DEF Bits!Byte
    <2>  QED
      BY <2>1 DEF Array
  <1>4. r # 0 => m \in Bits!Bytes
    BY TailIsByte
  <1>5. last \in Bits!Byte
    <2>1. Bits!power[W] = Bits!power[r] * Bits!power[W - r] /\ Bits!power[W - r] \in Nat \ {0}
            /\ Bits!power[r] \in Nat \ {0}
      <3> HIDE DEF r
      <3>1. W - r \in Nat /\ r + (W - r) = W
        BY <1>2, WidthIs
      <3>2. Bits!power[r + (W - r)] = Bits!power[r] * Bits!power[W - r]
        BY <1>2, <3>1, PowerAdds
      <3>  QED
        BY <1>2, <3>1, <3>2, PowerType
    <2> DEFINE a == Bits!power[r]
               b == Bits!power[W - r]
               w == Bits!power[W]
    <2>2. a \in Nat \ {0} /\ b \in Nat \ {0} /\ w = a * b
      BY <2>1
    <2>3. a - 1 \in 0 .. w - 1
      <3> HIDE DEF a, b, w
      <3>1. a * b >= a
        BY <2>2
      <3>2. a * b \in Nat
        BY <2>2
      <3>  QED
        BY <2>2, <3>1, <3>2
    <2>  QED
      BY <2>3 DEF Bits!Byte
  <1>6. new \in Array
    <2>1. CASE r = 0
      BY <1>1, <1>3, <2>1
    <2>2. CASE r # 0
      <3> HIDE DEF memset, m, r, last, new
      <3>1. [memset EXCEPT ![m] = last] \in Array
        BY <1>3, <1>5 DEF Array
      <3>  QED
        BY <1>1, <2>2, <3>1
    <2>  QED
      BY <2>1, <2>2
  <1>7. ASSUME NEW q \in 0 .. Bits!size - 1
        PROVE  Bits!bit_at(new, q) =
                 IF q < num THEN f[q] ELSE IF IsBehind(q, num) THEN 0 ELSE Bits!bit_at(buffer, q)
    <2> DEFINE k == q \div W
               j == q % W
    <2>1. q \in Nat /\ k \in Bits!Bytes /\ k \in Nat /\ j \in 0 .. W - 1 /\ j \in Nat /\ j < W
      <3>1. q \in Nat /\ k \in Bits!Bytes /\ k \in Nat /\ j \in 0 .. W - 1 /\ j \in Nat
        BY PlaceIn
      <3> HIDE DEF j
      <3>  QED
        BY <3>1, WidthIs
    <2>2. (q < num) <=> (k < m \/ (k = m /\ j < r))
      BY <1>2, <2>1, PlaceBy
    <2>3. IsBehind(q, num) <=> ~(q < num) /\ k = m /\ r # 0
      <3>1. (q >= num) <=> ~(q < num)
        BY <1>2, <2>1
      <3>  QED
        BY <3>1 DEF IsBehind
    <2>4. q < num => f[q] = 1
      BY <1>2, <2>1
    <2>5. Bits!bit_at(new, q) = Bits!bit(new[k], j)
            /\ Bits!bit_at(buffer, q) = Bits!bit(buffer[k], j)
      BY DEF Bits!bit_at
    <2>6. memset[k] = IF k < m THEN Bits!power[W] - 1 ELSE buffer[k]
      BY <2>1
    <2>7. new[k] = IF k = m /\ r # 0 THEN last ELSE IF k < m THEN Bits!power[W] - 1 ELSE buffer[k]
      <3> HIDE DEF memset, m, r, last, k, new
      <3>  QED
        BY <1>1, <1>3, <2>1, <2>6 DEF Array
    <2>8. Bits!bit(last, j) = IF j < r THEN 1 ELSE 0
      <3> HIDE DEF r, j
      <3>  QED
        BY <1>2, <2>1, OnesAre
    <2>9. Bits!bit(Bits!power[W] - 1, j) = 1
      <3> HIDE DEF j
      <3>  QED
        BY <2>1, WidthIs, OnesAre
    <2> HIDE DEF m, r, last, k, j, f, new, memset
    <2>10. CASE k < m
      BY <1>2, <2>1, <2>2, <2>4, <2>5, <2>7, <2>9, <2>10
    <2>11. CASE k = m
      BY <1>2, <2>1, <2>2, <2>3, <2>4, <2>5, <2>7, <2>8, <2>11
    <2>12. CASE k > m
      BY <1>2, <2>1, <2>2, <2>3, <2>4, <2>5, <2>7, <2>12
    <2>  QED
      BY <1>2, <2>1, <2>10, <2>11, <2>12
  <1>  QED
    BY <1>6, <1>7 DEF FillDone

\* The loop of buf_set_buf.
IsCopy(g, src, src_start, dst_start, len) ==
  g = [nn \in 0 .. len |->
         IF nn = 0 THEN buffer
         ELSE Bits!bit_put(g[nn - 1], dst_start + nn - 1, Bits!bit_at(src, src_start + nn - 1))]

LEMMA CopyBits ==
  ASSUME NEW src \in Array, NEW from \in Nat, NEW first \in Nat, NEW len \in Nat,
         from + len <= Bits!size, first + len <= Bits!size, buffer \in Array
  PROVE  PutsDone((CHOOSE g : IsCopy(g, src, from, first, len))[len], len, buffer, first,
                  [j \in 0 .. len - 1 |-> Bits!bit_at(src, from + j)])
  <1> DEFINE f == [j \in 0 .. len - 1 |-> Bits!bit_at(src, from + j)]
             g == CHOOSE z : IsCopy(z, src, from, first, len)
  <1>1. ASSUME NEW z  PROVE IsCopy(z, src, from, first, len) <=> IsPuts(z, len, buffer, first, f)
    <2>1. ASSUME NEW nn \in 0 .. len
          PROVE  (IF nn = 0 THEN buffer
                  ELSE Bits!bit_put(z[nn - 1], first + nn - 1, Bits!bit_at(src, from + nn - 1)))
                   = (IF nn = 0 THEN buffer ELSE Bits!bit_put(z[nn - 1], first + nn - 1, f[nn - 1]))
      <3>1. nn # 0 => nn - 1 \in 0 .. len - 1 /\ from + (nn - 1) = from + nn - 1
        OBVIOUS
      <3>2. nn # 0 => f[nn - 1] = Bits!bit_at(src, from + nn - 1)
        BY <3>1
      <3>  QED
        BY <3>2
    <2>2. [nn \in 0 .. len |-> IF nn = 0 THEN buffer
                              ELSE Bits!bit_put(z[nn - 1], first + nn - 1,
                                Bits!bit_at(src, from + nn - 1))]
            = [nn \in 0 .. len |-> IF nn = 0 THEN buffer
              ELSE Bits!bit_put(z[nn - 1], first + nn - 1, f[nn - 1])]
      <3> HIDE DEF f
      <3>  QED
        BY <2>1
    <2>  QED
      BY <2>2 DEF IsCopy, IsPuts
  <1>2. \A j \in 0 .. len - 1 : f[j] \in {0, 1}
    <2>1. \A j \in 0 .. len - 1 : from + j \in 0 .. Bits!size - 1
      BY SizeIs
    <2>  QED
      BY <2>1, BitAtType
  <1> HIDE DEF f
  <1>3. \E z : IsCopy(z, src, from, first, len)
    BY <1>1, PutsExist
  <1>4. IsPuts(g, len, buffer, first, f)
    BY <1>1, <1>3
  <1> HIDE DEF g
  <1>5. PutsDone(g[len], len, buffer, first, f)
    BY <1>2, <1>4, PutsAre
  <1>  QED
    BY <1>5 DEF f, g

LEMMA SetBufIs ==
  ASSUME NEW src \in Array, NEW from \in Nat, NEW first \in Nat, NEW len \in Nat,
         from + len <= Bits!size, first + len <= Bits!size, buffer \in Array
  PROVE  PutsDone(Bits!buf_set_buf(src, from, first, len), len, buffer, first,
                  [j \in 0 .. len - 1 |-> Bits!bit_at(src, from + j)])
  <1> DEFINE sb == from \div W
             db == first \div W
             l == len \div W
             fast == [k \in Bits!Bytes |-> IF k \in db .. db + l - 1 THEN src[sb + k - db]
               ELSE buffer[k]]
             f == [j \in 0 .. len - 1 |-> Bits!bit_at(src, from + j)]
  <1>1. Bits!buf_set_buf(src, from, first, len) =
          IF Bits!bytewise(from, first, len) THEN fast
          ELSE (CHOOSE g : IsCopy(g, src, from, first, len))[len]
    BY DEF Bits!buf_set_buf, IsCopy
  <1>2. CASE ~Bits!bytewise(from, first, len)
    BY <1>1, <1>2, CopyBits
  <1>3. CASE Bits!bytewise(from, first, len)
    <2>1. /\ from = W * sb /\ first = W * db /\ len = W * l
          /\ sb \in Nat /\ db \in Nat /\ l \in Nat
      BY <1>3, WholeBytes DEF Bits!bytewise
    <2>2. W * (db + l) = first + len /\ W * (sb + l) = from + len /\ db + l \in Nat
            /\ sb + l \in Nat
      <3> HIDE DEF sb, db, l
      <3>1. W * (db + l) = W * db + W * l /\ W * (sb + l) = W * sb + W * l
        BY <2>1, WidthIs
      <3>  QED
        BY <2>1, <3>1
    <2>3. sb + l <= Length
      <3> HIDE DEF sb, l
      <3>1. ASSUME Length < sb + l  PROVE FALSE
        <4>1. W * Length < W * (sb + l)
          BY <2>1, <3>1, BitsConstants
        <4>  QED
          BY <2>1, <2>2, <4>1, BitsConstants
      <3>  QED
        BY <2>1, <3>1, BitsConstants
    <2>4. \A k \in Bits!Bytes : k \in db .. db + l - 1
            => sb + k - db \in Bits!Bytes /\ sb + k - db \in Nat
      <3> HIDE DEF sb, db, l
      <3>  QED
        BY <2>1, <2>3, BitsConstants DEF Bits!Bytes
    <2>5. fast \in Array
      <3> HIDE DEF sb, db, l
      <3>  QED
        BY <2>4 DEF Array
    <2>6. ASSUME NEW q \in 0 .. Bits!size - 1
          PROVE  Bits!bit_at(fast, q) = IF first <= q /\ q < first + len THEN f[q - first]
                   ELSE Bits!bit_at(buffer, q)
      <3> DEFINE k == q \div W
                 j == q % W
      <3>1. q \in Nat /\ k \in Bits!Bytes /\ k \in Nat /\ j \in 0 .. W - 1 /\ j \in Nat
              /\ q = W * k + j
        BY PlaceIn
      <3>2. (first <= q /\ q < first + len) <=> k \in db .. db + l - 1
        <4>1. (q < W * db) <=> (k < db)
          BY <2>1, <3>1, BitPlaceIs
        <4>2. (q < W * (db + l)) <=> (k < db + l)
          BY <2>2, <3>1, BitPlaceIs
        <4> HIDE DEF sb, db, l, k
        <4>  QED
          BY <2>1, <2>2, <3>1, <4>1, <4>2
      <3>3. fast[k] = IF k \in db .. db + l - 1 THEN src[sb + k - db] ELSE buffer[k]
        BY <3>1
      <3>4. CASE k \in db .. db + l - 1
        <4>1. sb + k - db \in Nat
          BY <2>4, <3>1, <3>4
        <4>2. from + (q - first) = W * (sb + k - db) + j
          <5> HIDE DEF sb, db, l, k, j
          <5>1. W * (sb + k - db) = W * sb + W * k - W * db
            BY <2>1, <3>1, WidthIs
          <5>2. W * sb \in Nat /\ W * k \in Nat /\ W * db \in Nat
            BY <2>1, <3>1, WidthIs
          <5>  QED
            BY <2>1, <3>1, <5>1, <5>2
        <4>3. Bits!bit_at(src, from + (q - first)) = Bits!bit(src[sb + k - db], j)
          <5> HIDE DEF sb, db, l, k, j
          <5>1. (W * (sb + k - db) + j) \div W = sb + k - db /\ (W * (sb + k - db) + j) % W = j
            BY <3>1, <4>1, PlaceOf
          <5>  QED
            BY <4>2, <5>1 DEF Bits!bit_at
        <4>4. q - first \in 0 .. len - 1
          BY <3>1, <3>2, <3>4
        <4>5. f[q - first] = Bits!bit_at(src, from + (q - first))
          BY <4>4
        <4>6. Bits!bit_at(fast, q) = Bits!bit(src[sb + k - db], j)
          <5> HIDE DEF fast, sb, db, l
          <5>  QED
            BY <3>3, <3>4 DEF Bits!bit_at
        <4> HIDE DEF fast, sb, db, l, k, j, f
        <4>  QED
          BY <3>2, <3>4, <4>3, <4>5, <4>6
      <3>5. CASE k \notin db .. db + l - 1
        <4> HIDE DEF fast, sb, db, l
        <4>  QED
          BY <3>2, <3>3, <3>5 DEF Bits!bit_at
      <3>  QED
        BY <3>4, <3>5
    <2> HIDE DEF fast, f
    <2>7. PutsDone(fast, len, buffer, first, f)
      BY <2>5, <2>6 DEF PutsDone
    <2>  QED
      BY <1>1, <1>3, <2>7 DEF f
  <1>  QED
    BY <1>2, <1>3

-----------------------------------------------------------------------------
(* A buffer shifted, and a word reversed                                     *)

\* Two bytes shifted into one.
ShiftedTo(e, u, v, s) ==
  /\ e \in 0 .. Bits!power[W] - 1
  /\ \A j \in 0 .. W - 1 : Bits!bit(e, j)
       = IF j + s < W THEN Bits!bit(u, j + s) ELSE Bits!bit(v, j + s - W)

LEMMA ShiftedIs ==
  ASSUME NEW u \in 0 .. Bits!power[W] - 1, NEW v \in 0 .. Bits!power[W] - 1, NEW s \in 0 .. W - 1
  PROVE  ShiftedTo(Bits!either(Bits!shr(u, s), Bits!shl(v, W - s) % Bits!power[W]), u, v, s)
  <1> DEFINE l == W - s
             a == Bits!shr(u, s)
             y == v % Bits!power[s]
             h == Bits!shr(v, s)
             c == Bits!shl(v, l) % Bits!power[W]
             x == 0 + Bits!power[l] * y
             e == Bits!either(a, c)
  <1>1. s \in Nat /\ l \in Nat /\ s + l = W /\ l + s = W /\ W \in Nat
    BY WidthIs
  <1>2. u \in Nat /\ v \in Nat /\ u \in 0 .. Bits!power[s + l] - 1
    BY <1>1, BitsConstants
  <1>3. a \in 0 .. Bits!power[l] - 1
    <2> HIDE DEF l
    <2>  QED
      BY <1>1, <1>2, ShiftedFits
  <1>4. y \in 0 .. Bits!power[s] - 1 /\ h \in Nat /\ v = y + Bits!power[s] * h
    BY <1>1, <1>2, Halves
  <1>5. Bits!power[s] \in Nat \ {0} /\ Bits!power[l] \in Nat \ {0}
          /\ Bits!power[W] = Bits!power[l] * Bits!power[s]
    <2>1. Bits!power[l + s] = Bits!power[l] * Bits!power[s]
      <3> HIDE DEF l
      <3>  QED
        BY <1>1, PowerAdds
    <2>  QED
      BY <1>1, <2>1, PowerType
  <1>6. y \in Nat /\ a \in Nat
    BY <1>3, <1>4, <1>5
  <1>7. x \in 0 .. Bits!power[W] - 1
    <2> HIDE DEF l, y
    <2>1. 0 \in 0 .. Bits!power[l] - 1
      BY <1>5
    <2>2. 0 + Bits!power[l] * y \in 0 .. Bits!power[l + s] - 1
      BY <1>1, <1>4, <2>1, JoinedFits
    <2>  QED
      BY <1>1, <2>2
  <1>8. Bits!shl(v, l) = x + Bits!power[W] * h
    <2> DEFINE p == Bits!power[l]
               q == Bits!power[s]
    <2>1. p \in Nat /\ q \in Nat /\ Bits!power[W] = p * q
      BY <1>5
    <2>2. Bits!shl(v, l) = v * p /\ v = y + q * h /\ x = 0 + p * y
      BY <1>4 DEF Bits!shl
    <2> HIDE DEF p, q, x, y, h, l
    <2>3. (y + q * h) * p = p * y + (p * q) * h
      BY <1>4, <1>6, <2>1
    <2>4. 0 + p * y = p * y
      BY <1>6, <2>1
    <2>  QED
      BY <2>1, <2>2, <2>3, <2>4
  <1>9. c = x
    <2> HIDE DEF x, h, l
    <2>  QED
      BY <1>1, <1>4, <1>7, <1>8, JoinedWords
  <1>10. x \in Nat
    <2> HIDE DEF x
    <2>  QED
      BY <1>7, BitsConstants
  <1>11. Bits!both(a, x) = 0
    <2> HIDE DEF a, y, l
    <2>1. ASSUME NEW k \in 0 .. 2 * W - 1  PROVE Bits!bit(Bits!both(a, x), k) = Bits!bit(0, k)
      <3>1. k \in Nat
        BY <1>1
      <3>2. Bits!bit(Bits!both(a, x), k) = Bits!bit(a, k) * Bits!bit(x, k)
        BY <1>6, <1>10, WidthIs, BothIs
      <3>3. Bits!bit(a, k) \in {0, 1} /\ Bits!bit(x, k) \in {0, 1}
        BY <1>6, <1>10, <3>1, BitType
      <3>4. CASE k < l
        <4>1. x = Bits!shl(y, l)
          <5> DEFINE p == Bits!power[l]
          <5>1. p \in Nat
            BY <1>5
          <5> HIDE DEF p
          <5>2. 0 + p * y = y * p
            BY <1>6, <5>1
          <5>  QED
            BY <5>2 DEF Bits!shl, p
        <4>2. Bits!bit(Bits!shl(y, l), k) = 0
          BY <1>1, <1>6, <3>1, <3>4, ShiftedUp
        <4> HIDE DEF x
        <4>3. Bits!bit(x, k) = 0
          BY <4>1, <4>2
        <4>  QED
          BY <3>1, <3>2, <3>3, <4>3, ZeroBit
      <3>5. CASE ~(k < l)
        <4>1. Bits!bit(a, k) = 0
          BY <1>1, <1>3, <3>1, <3>5, NoBitAbove
        <4> HIDE DEF x
        <4>  QED
          BY <3>1, <3>2, <3>3, <4>1, ZeroBit
      <3>  QED
        BY <3>4, <3>5
    <2> HIDE DEF x
    <2>2. 2 * W \in Nat /\ Bits!power[2 * W] \in Nat \ {0}
      <3>1. 2 * W \in Nat
        BY <1>1
      <3>  QED
        BY <3>1, PowerType
    <2>3. Bits!both(a, x) \in 0 .. Bits!power[2 * W] - 1 /\ 0 \in 0 .. Bits!power[2 * W] - 1
      <3>1. Bits!both(a, x) \in 0 .. Bits!power[2 * W] - 1
        BY <1>6, <1>10, WidthIs, BothIs
      <3>2. 0 \in 0 .. Bits!power[2 * W] - 1
        BY <2>2
      <3>  QED
        BY <3>1, <3>2
    <2>  QED
      BY <2>1, <2>2, <2>3, SameBits
  <1>12. e = a + Bits!power[l] * y
    <2>1. e = a + x - Bits!both(a, x)
      BY <1>9 DEF Bits!either
    <2>2. Bits!power[l] * y \in Nat
      <3> HIDE DEF y, l
      <3>  QED
        BY <1>5, <1>6
    <2>3. x = Bits!power[l] * y
      <3> HIDE DEF y, l
      <3>  QED
        BY <2>2
    <2> HIDE DEF e, a, x, y, l
    <2>  QED
      BY <1>6, <1>11, <2>1, <2>2, <2>3
  <1>13. e \in 0 .. Bits!power[W] - 1
    <2> HIDE DEF e, a, y, l
    <2>1. a + Bits!power[l] * y \in 0 .. Bits!power[l + s] - 1
      BY <1>1, <1>3, <1>4, JoinedFits
    <2>  QED
      BY <1>1, <1>12, <2>1
  <1>14. ASSUME NEW j \in 0 .. W - 1
         PROVE  Bits!bit(e, j) = IF j + s < W THEN Bits!bit(u, j + s) ELSE Bits!bit(v, j + s - W)
    <2>1. j \in Nat /\ (j < l <=> j + s < W) /\ (~(j < l)
            => j - l = j + s - W /\ j - l \in Nat /\ j - l < s)
      BY <1>1
    <2>2. Bits!bit(e, j) = IF j < l THEN Bits!bit(a, j) ELSE Bits!bit(y, j - l)
      <3> HIDE DEF e, a, y, l
      <3>  QED
        BY <1>1, <1>3, <1>6, <1>12, <2>1, JoinedWords
    <2>3. Bits!bit(a, j) = Bits!bit(u, s + j)
      BY <1>1, <1>2, <2>1, ShiftedBit
    <2>4. s + j = j + s
      BY <1>1, <2>1
    <2>5. ~(j < l) => Bits!bit(y, j - l) = Bits!bit(v, j - l)
      <3> HIDE DEF l
      <3>  QED
        BY <1>1, <1>2, <2>1, CutBits
    <2> HIDE DEF e, a, y, l
    <2>  QED
      BY <2>1, <2>2, <2>3, <2>4, <2>5
  <1>  QED
    BY <1>13, <1>14 DEF e, c, a, l, ShiftedTo

\* A place is before another one of its byte, or of an earlier byte.
LEMMA PlaceMoved ==
  ASSUME NEW k \in Nat, NEW j \in Nat, NEW nn \in Nat
  PROVE  /\ W * k + j < W * nn /\ j < W <=> k < nn /\ j < W
         /\ k >= nn => W * k + j >= W * nn
  <1>1. W * k \in Nat /\ W * nn \in Nat
    BY WidthIs
  <1>2. k >= nn => W * k >= W * nn
    BY WidthIs
  <1>3. k < nn => W * (k + 1) <= W * nn
    BY WidthIs
  <1>4. W * (k + 1) = W * k + W
    BY WidthIs
  <1>  QED
    BY <1>1, <1>2, <1>3, <1>4, WidthIs

\* buffer_shr: every bit comes from so many places on, and none comes from behind the end.
LEMMA ShrIs ==
  ASSUME NEW count \in Nat, buffer \in Array
  PROVE  /\ Bits!buffer_shr(count) \in Array
         /\ \A q \in 0 .. Bits!size - 1 :
              Bits!bit_at(Bits!buffer_shr(count), q) =
                IF q + count < Bits!size THEN Bits!bit_at(buffer, q + count) ELSE 0
  <1> DEFINE r == count \div W
             s == count % W
             now == [k \in Bits!Bytes |-> IF k < Length - 1 THEN Bits!shifted(s, k)
               ELSE Bits!shr(buffer[k], s)]
             new == [k \in Bits!Bytes |-> IF k + r < Length THEN now[k + r] ELSE 0]
  <1>1. Bits!buffer_shr(count) = new
    BY DEF Bits!buffer_shr
  <1>2. r \in Nat /\ s \in 0 .. W - 1 /\ count = W * r + s
    BY BitPlaceIs
  <1>3. \A k \in Bits!Bytes : k \in Nat /\ k < Length /\ buffer[k] \in 0 .. Bits!power[W] - 1
    BY BitsConstants, ArrayByte DEF Bits!Bytes, Array
  <1>4. Length \in Nat \ {0} /\ \A k \in Nat : k < Length => k \in Bits!Bytes
    BY BitsConstants DEF Bits!Bytes
  <1> HIDE DEF r, s
  <1>5. ASSUME NEW k \in Bits!Bytes
        PROVE  /\ now[k] \in 0 .. Bits!power[W] - 1
               /\ \A j \in 0 .. W - 1 :
                    Bits!bit(now[k], j)
                      = IF W * k + j + s < Bits!size THEN Bits!bit_at(buffer, W * k + j + s) ELSE 0
    <2>1. k \in Nat /\ k < Length /\ buffer[k] \in 0 .. Bits!power[W] - 1 /\ s \in Nat /\ W \in Nat
      BY <1>2, <1>3, WidthIs
    <2>2. ASSUME NEW j \in 0 .. W - 1
          PROVE  /\ j \in Nat /\ W * k \in Nat
                 /\ j + s < W => W * k + j + s < Bits!size
                      /\ Bits!bit_at(buffer, W * k + j + s) = Bits!bit(buffer[k], j + s)
                 /\ ~(j + s < W) =>
                      /\ k < Length - 1 => /\ W * k + j + s < Bits!size
                                           /\ Bits!bit_at(buffer, W * k + j + s)
                                                = Bits!bit(buffer[k + 1], j + s - W)
                      /\ ~(k < Length - 1) => ~(W * k + j + s < Bits!size)
      <3>1. j \in Nat /\ W * k \in Nat /\ Bits!size = W * Length /\ Bits!size \in Nat
        BY <2>1, WidthIs, BitsConstants
      <3>2. CASE j + s < W
        <4>1. j + s \in 0 .. W - 1 /\ W * k + j + s = W * k + (j + s)
          BY <2>1, <3>1, <3>2
        <4>2. (W * k + (j + s)) \div W = k /\ (W * k + (j + s)) % W = j + s
          BY <2>1, <4>1, PlaceOf
        <4>3. W * k + (j + s) < W * Length
          BY <1>4, <2>1, <3>1, <3>2, PlaceMoved
        <4>4. Bits!bit_at(buffer, W * k + (j + s)) = Bits!bit(buffer[k], j + s)
          BY <4>2 DEF Bits!bit_at
        <4>  QED
          BY <3>1, <3>2, <4>1, <4>3, <4>4
      <3>3. CASE ~(j + s < W)
        <4>1. W * (k + 1) = W * k + W /\ W * (k + 1) \in Nat
          BY <2>1, WidthIs
        <4>2. j + s - W \in 0 .. W - 1 /\ W * k + j + s = W * (k + 1) + (j + s - W)
          BY <1>2, <2>1, <3>1, <3>3, <4>1
        <4>3. k + 1 \in Nat /\ j + s - W \in Nat /\ j + s - W < W
          BY <2>1, <4>2
        <4>4. (W * (k + 1) + (j + s - W)) \div W = k + 1
                /\ (W * (k + 1) + (j + s - W)) % W = j + s - W
          BY <4>2, <4>3, PlaceOf
        <4>5. Bits!bit_at(buffer, W * k + j + s) = Bits!bit(buffer[k + 1], j + s - W)
          BY <4>2, <4>4 DEF Bits!bit_at
        <4>6. k < Length - 1 => W * (k + 1) + (j + s - W) < W * Length
          <5>1. k < Length - 1 => k + 1 < Length
            BY <1>4, <2>1
          <5>  QED
            BY <1>4, <4>3, <5>1, PlaceMoved
        <4>7. ~(k < Length - 1) => ~(W * (k + 1) + (j + s - W) < W * Length)
          <5>1. ~(k < Length - 1) => k + 1 >= Length
            BY <1>4, <2>1
          <5>2. W * (k + 1) + (j + s - W) \in Nat /\ W * Length \in Nat
            BY <3>1, <4>1, <4>3
          <5>3. ~(k < Length - 1) => W * (k + 1) + (j + s - W) >= W * Length
            BY <1>4, <4>3, <5>1, PlaceMoved
          <5>  QED
            BY <5>2, <5>3
        <4>  QED
          BY <3>1, <3>3, <4>2, <4>5, <4>6, <4>7
      <3>  QED
        BY <3>2, <3>3
    <2>3. CASE k < Length - 1
      <3>1. k + 1 \in Bits!Bytes
        BY <1>4, <2>1, <2>3
      <3>2. buffer[k + 1] \in 0 .. Bits!power[W] - 1
        BY <1>3, <3>1
      <3>3. now[k] = Bits!either(Bits!shr(buffer[k], s),
              Bits!shl(buffer[k + 1], W - s) % Bits!power[W])
        BY <2>3 DEF Bits!shifted
      <3> HIDE DEF now
      <3>4. ShiftedTo(now[k], buffer[k], buffer[k + 1], s)
        BY <1>2, <2>1, <3>2, <3>3, ShiftedIs
      <3>  QED
        BY <2>2, <2>3, <3>4 DEF ShiftedTo
    <2>4. CASE ~(k < Length - 1)
      <3> DEFINE b == buffer[k]
      <3>1. now[k] = Bits!shr(b, s)
        BY <2>4
      <3> HIDE DEF now
      <3>2. b \in Nat /\ b \in 0 .. Bits!power[W] - 1
        BY <2>1, BitsConstants
      <3> HIDE DEF b
      <3>3. Bits!shr(b, s) \in 0 .. Bits!power[W] - 1
        <4> DEFINE d == Bits!power[s]
                   h == Bits!shr(b, s)
                   c == b % Bits!power[s]
                   w == Bits!power[W]
        <4>1. c \in 0 .. d - 1 /\ h \in Nat /\ b = c + d * h
          BY <2>1, <3>2, Halves
        <4>2. d \in Nat \ {0} /\ w \in Nat /\ b \in 0 .. w - 1
          BY <2>1, <3>2, PowerType
        <4> HIDE DEF d, h, c, w
        <4>3. d * h >= h /\ d * h \in Nat
          BY <4>1, <4>2
        <4>4. h \in 0 .. w - 1
          BY <3>2, <4>1, <4>2, <4>3
        <4>  QED
          BY <4>4 DEF h, w
      <3>4. ASSUME NEW j \in 0 .. W - 1
            PROVE  Bits!bit(now[k], j)
                     = IF W * k + j + s < Bits!size THEN Bits!bit_at(buffer, W * k + j + s) ELSE 0
        <4>1. j \in Nat /\ s + j = j + s /\ j + s \in Nat
          BY <2>1
        <4>2. Bits!bit(Bits!shr(b, s), j) = Bits!bit(b, j + s)
          BY <2>1, <3>2, <4>1, ShiftedBit
        <4>3. CASE j + s < W
          BY <2>2, <3>1, <4>2, <4>3 DEF b
        <4>4. CASE ~(j + s < W)
          <5>1. Bits!bit(b, j + s) = 0
            BY <2>1, <3>2, <4>1, <4>4, NoBitAbove
          <5>  QED
            BY <2>2, <2>4, <3>1, <4>2, <4>4, <5>1
        <4>  QED
          BY <4>3, <4>4
      <3>  QED
        BY <3>1, <3>3, <3>4
    <2>  QED
      BY <2>3, <2>4
  <1> HIDE DEF now
  <1>6. \A k \in Bits!Bytes : k + r < Length => k + r \in Bits!Bytes
    BY <1>2, <1>3, <1>4
  <1>7. new \in Array
    <2>1. 0 \in 0 .. Bits!power[W] - 1
      BY BitsConstants
    <2>  QED
      BY <1>5, <1>6, <2>1 DEF Array, Bits!Byte
  <1>8. ASSUME NEW q \in 0 .. Bits!size - 1
        PROVE  Bits!bit_at(new, q)
                 = IF q + count < Bits!size THEN Bits!bit_at(buffer, q + count) ELSE 0
    <2> DEFINE k == q \div W
               j == q % W
    <2>1. q \in Nat /\ k \in Bits!Bytes /\ k \in Nat /\ j \in 0 .. W - 1 /\ j \in Nat
            /\ q = W * k + j
      BY PlaceIn
    <2>2. Bits!bit_at(new, q) = Bits!bit(new[k], j) /\ new[k]
            = IF k + r < Length THEN now[k + r] ELSE 0
      BY <2>1 DEF Bits!bit_at
    <2> HIDE DEF k, j, new
    <2>3. W * (k + r) = W * k + W * r /\ W * k \in Nat /\ W * r \in Nat /\ s \in Nat
            /\ k + r \in Nat
      BY <1>2, <2>1, WidthIs
    <2>4. q + count = W * (k + r) + j + s
      BY <1>2, <2>1, <2>3
    <2>5. CASE k + r < Length
      BY <1>5, <1>6, <2>1, <2>2, <2>4, <2>5
    <2>6. CASE ~(k + r < Length)
      <3>1. W * (k + r) + (j + s) >= W * Length
        <4>1. j + s \in Nat /\ k + r >= Length
          BY <1>4, <2>1, <2>3, <2>6
        <4>  QED
          BY <1>4, <2>3, <4>1, PlaceMoved
      <3>2. ~(q + count < Bits!size)
        <4>1. q + count = W * (k + r) + (j + s) /\ Bits!size = W * Length
          BY <2>1, <2>3, <2>4, BitsConstants
        <4>2. Bits!size \in Nat /\ q + count \in Nat
          BY <1>2, <2>1, <2>3, <2>4, SizeIs
        <4>  QED
          BY <3>1, <4>1, <4>2
      <3>  QED
        BY <2>1, <2>2, <2>6, <3>2, ZeroBit
    <2>  QED
      BY <2>5, <2>6
  <1>  QED
    BY <1>1, <1>7, <1>8

\* The loop of bit_reverse_table.
IsReversed(s, b) ==
  s = [nn \in 0 .. W |-> IF nn = 0 THEN 0 ELSE s[nn - 1] + Bits!shl(Bits!bit(b, W - nn), nn - 1)]

LEMMA TableIs ==
  ASSUME NEW b \in Nat
  PROVE  /\ Bits!bit_reverse_table(b) \in 0 .. Bits!power[W] - 1
         /\ \A j \in 0 .. W - 1 : Bits!bit(Bits!bit_reverse_table(b), j) = Bits!bit(b, W - 1 - j)
  <1> DEFINE f == [j \in 0 .. W - 1 |-> Bits!bit(b, W - 1 - j)]
             t == [j \in 0 .. W - 1 |-> Bits!shl(f[j], j)]
             s == CHOOSE z : IsReversed(z, b)
  <1>1. W \in Nat
    BY WidthIs
  <1>2. \E z : IsReversed(z, b)
    <2>1. PICK z : IsSum(z, t, W)
      <3> HIDE DEF t
      <3>  QED
        BY <1>1, SumExists
    <2>2. ASSUME NEW nn \in 0 .. W
          PROVE  z[nn] = IF nn = 0 THEN 0 ELSE z[nn - 1] + Bits!shl(Bits!bit(b, W - nn), nn - 1)
      <3>1. z[nn] = IF nn = 0 THEN 0 ELSE z[nn - 1] + t[nn - 1]
        <4> HIDE DEF t
        <4>  QED
          BY <2>1 DEF IsSum
      <3>2. nn # 0 => nn - 1 \in 0 .. W - 1 /\ W - 1 - (nn - 1) = W - nn
        BY <1>1
      <3>3. nn # 0 => t[nn - 1] = Bits!shl(Bits!bit(b, W - nn), nn - 1)
        BY <3>2
      <3>  QED
        BY <3>1, <3>3
    <2>3. z = [nn \in 0 .. W |-> z[nn]]
      BY <2>1 DEF IsSum
    <2>4. IsReversed(z, b)
      BY <2>2, <2>3 DEF IsReversed
    <2>  QED
      BY <2>4
  <1>3. IsReversed(s, b)
    BY <1>2
  <1>4. Bits!bit_reverse_table(b) = s[W]
    BY DEF Bits!bit_reverse_table, IsReversed
  <1> HIDE DEF s
  <1>5. s[0] = 0
    <2>1. 0 \in 0 .. W
      BY <1>1
    <2>  QED
      BY <1>3, <2>1 DEF IsReversed
  <1>6. ASSUME NEW nn \in 0 .. W - 1  PROVE s[nn + 1] = s[nn] + Bits!shl(f[nn], nn)
    <2>1. nn + 1 \in 0 .. W /\ nn + 1 # 0 /\ (nn + 1) - 1 = nn /\ W - (nn + 1) = W - 1 - nn
      BY <1>1
    <2>2. s[nn + 1] = s[nn] + Bits!shl(Bits!bit(b, W - 1 - nn), nn)
      BY <1>3, <2>1 DEF IsReversed
    <2>  QED
      BY <2>2
  <1>7. ASSUME NEW j \in 0 .. W - 1  PROVE f[j] \in {0, 1} /\ f[j] = Bits!bit(b, W - 1 - j)
    <2>1. W - 1 - j \in Nat
      BY <1>1
    <2>2. Bits!bit(b, W - 1 - j) \in {0, 1}
      BY <2>1, BitType
    <2>  QED
      BY <2>2
  <1> HIDE DEF f
  <1>8. s[W] \in 0 .. Bits!power[W] - 1 /\ \A j \in 0 .. W - 1 : Bits!bit(s[W], j) = f[j]
    BY <1>1, <1>5, <1>6, <1>7, BitsAdd
  <1>  QED
    BY <1>4, <1>7, <1>8

\* The loop of flip_u32.
IsPlaced(s, v) ==
  s = [k \in 0 .. 4 |->
         IF k = 0 THEN 0
         ELSE s[k - 1] + Bits!shl(Bits!bit_reverse_table(Bits!shr(v, W * (k - 1)) % Bits!power[W]),
           Bits!word - W * k)]

LEMMA PlacedExists ==
  ASSUME NEW v
  PROVE  \E s : IsPlaced(s, v)
  <1> DEFINE t == [j \in 0 .. 3 |->
                     Bits!shl(Bits!bit_reverse_table(Bits!shr(v, W * j) % Bits!power[W]),
                       Bits!word - W * (j + 1))]
  <1>1. PICK z : IsSum(z, t, 4)
    <2> HIDE DEF t
    <2>  QED
      BY SumExists
  <1>2. ASSUME NEW nn \in 0 .. 4
        PROVE  z[nn] = IF nn = 0 THEN 0
                      ELSE z[nn - 1] + Bits!shl(Bits!bit_reverse_table(Bits!shr(v,
                        W * (nn - 1)) % Bits!power[W]), Bits!word - W * nn)
    <2>1. z[nn] = IF nn = 0 THEN 0 ELSE z[nn - 1] + t[nn - 1]
      <3> HIDE DEF t
      <3>  QED
        BY <1>1 DEF IsSum
    <2>2. nn # 0 => nn - 1 \in 0 .. 3 /\ (nn - 1) + 1 = nn
      OBVIOUS
    <2>3. nn # 0 => t[nn - 1] = Bits!shl(Bits!bit_reverse_table(Bits!shr(v,
            W * (nn - 1)) % Bits!power[W]), Bits!word - W * nn)
      BY <2>2
    <2>  QED
      BY <2>1, <2>3
  <1>3. z = [nn \in 0 .. 4 |-> z[nn]]
    BY <1>1 DEF IsSum
  <1>4. IsPlaced(z, v)
    BY <1>2, <1>3 DEF IsPlaced
  <1>  QED
    BY <1>4

\* The four bytes reversed, each in its new place: the word reversed.
LEMMA PlacedIs ==
  ASSUME NEW v \in Nat, NEW s, IsPlaced(s, v)
  PROVE  /\ s[4] \in Nat
         /\ \A p \in 0 .. 4 * W - 1 : Bits!bit(s[4], p) = Bits!bit(v, 4 * W - 1 - p)
  <1> DEFINE T(k) == Bits!bit_reverse_table(Bits!shr(v, W * k) % Bits!power[W])
             y == [j \in 0 .. 3 |-> T(3 - j)]
             g == [nn \in 0 .. 4 |->
                     IF nn = 0 THEN 0
                     ELSE IF nn = 1 THEN 0 + Bits!shl(T(3), W * 0)
                     ELSE IF nn = 2 THEN (0 + Bits!shl(T(3), W * 0)) + Bits!shl(T(2), W * 1)
                     ELSE IF nn = 3 THEN ((0 + Bits!shl(T(3), W * 0)) + Bits!shl(T(2), W * 1))
                       + Bits!shl(T(1), W * 2)
                     ELSE (((0 + Bits!shl(T(3), W * 0)) + Bits!shl(T(2), W * 1)) + Bits!shl(T(1),
                       W * 2))
                            + Bits!shl(T(0), W * 3)]
  <1>1. W \in Nat \ {0} /\ Bits!word = 4 * W
    BY BitsConstants
  <1>2. ASSUME NEW k \in 0 .. 3
        PROVE  /\ T(k) \in 0 .. Bits!power[W] - 1
               /\ \A j \in 0 .. W - 1 : Bits!bit(T(k), j) = Bits!bit(v, W * k + (W - 1 - j))
    <2> DEFINE b == Bits!shr(v, W * k) % Bits!power[W]
    <2>1. W * k \in Nat
      BY <1>1
    <2>2. Bits!shr(v, W * k) \in Nat
      BY <2>1, BitType
    <2>3. b \in 0 .. Bits!power[W] - 1
      BY <1>1, <2>2, Halves
    <2>4. b \in Nat
      BY <2>3, BitsConstants
    <2>5. ASSUME NEW j \in 0 .. W - 1  PROVE Bits!bit(T(k), j) = Bits!bit(v, W * k + (W - 1 - j))
      <3>1. W - 1 - j \in Nat /\ W - 1 - j < W
        BY <1>1
      <3>2. Bits!bit(Bits!bit_reverse_table(b), j) = Bits!bit(b, W - 1 - j)
        <4> HIDE DEF b
        <4>  QED
          BY <2>4, TableIs
      <3>3. Bits!bit(b, W - 1 - j) = Bits!bit(Bits!shr(v, W * k), W - 1 - j)
        BY <1>1, <2>2, <3>1, CutBits
      <3>4. Bits!bit(Bits!shr(v, W * k), W - 1 - j) = Bits!bit(v, W * k + (W - 1 - j))
        BY <2>1, <3>1, ShiftedBit
      <3> HIDE DEF b
      <3>  QED
        BY <3>2, <3>3, <3>4 DEF b
    <2>6. Bits!bit_reverse_table(b) \in 0 .. Bits!power[W] - 1
      <3> HIDE DEF b
      <3>  QED
        BY <2>4, TableIs
    <2>  QED
      BY <2>5, <2>6
  <1> HIDE DEF T
  <1>3. \A k \in 0 .. 3 : T(k) \in Nat
    <2>1. \A z \in 0 .. Bits!power[W] - 1 : z \in Nat
      BY BitsConstants
    <2>  QED
      BY <1>2, <2>1
  <1>4. \A k \in 0 .. 3 : \A nn \in 0 .. 3 : Bits!shl(T(k), W * nn) \in Nat
    <2>1. \A nn \in 0 .. 3 : W * nn \in Nat
      BY <1>1
    <2>  QED
      BY <1>3, <2>1, ShiftedUp
  <1>5. /\ s[0] = 0
        /\ s[1] = s[0] + Bits!shl(T(0), W * 3) /\ s[2] = s[1] + Bits!shl(T(1), W * 2)
        /\ s[3] = s[2] + Bits!shl(T(2), W * 1) /\ s[4] = s[3] + Bits!shl(T(3), W * 0)
    <2>1. /\ Bits!word - W * 1 = W * 3 /\ Bits!word - W * 2 = W * 2
          /\ Bits!word - W * 3 = W * 1 /\ Bits!word - W * 4 = W * 0
      BY <1>1
    <2>2. ASSUME NEW k \in 1 .. 4  PROVE s[k] = s[k - 1] + Bits!shl(T(k - 1), Bits!word - W * k)
      <3>1. k \in 0 .. 4 /\ k # 0
        OBVIOUS
      <3>  QED
        BY <3>1 DEF IsPlaced, T
    <2>3. s[0] = 0
      BY DEF IsPlaced
    <2>4. s[1] = s[0] + Bits!shl(T(0), Bits!word - W * 1)
      BY <2>2
    <2>5. s[2] = s[1] + Bits!shl(T(1), Bits!word - W * 2)
      BY <2>2
    <2>6. s[3] = s[2] + Bits!shl(T(2), Bits!word - W * 3)
      BY <2>2
    <2>7. s[4] = s[3] + Bits!shl(T(3), Bits!word - W * 4)
      BY <2>2
    <2>  QED
      BY <2>1, <2>3, <2>4, <2>5, <2>6, <2>7
  <1>6. s[4] = g[4]
    <2> DEFINE a == Bits!shl(T(0), W * 3)
               b == Bits!shl(T(1), W * 2)
               c == Bits!shl(T(2), W * 1)
               d == Bits!shl(T(3), W * 0)
    <2>1. a \in Nat /\ b \in Nat /\ c \in Nat /\ d \in Nat
      BY <1>4
    <2>2. s[4] = (((0 + a) + b) + c) + d
      BY <1>5
    <2>3. g[4] = (((0 + d) + c) + b) + a
      OBVIOUS
    <2> HIDE DEF a, b, c, d, g
    <2>  QED
      BY <2>1, <2>2, <2>3
  <1>7. AddsWords(W, 4, g, y)
    <2>1. \A j \in 0 .. 3 : y[j] \in 0 .. Bits!power[W] - 1
      <3>1. \A j \in 0 .. 3 : 3 - j \in 0 .. 3
        OBVIOUS
      <3>  QED
        BY <1>2, <3>1
    <2>2. g[0] = 0
      OBVIOUS
    <2>3. ASSUME NEW nn \in 0 .. 3  PROVE g[nn + 1] = g[nn] + Bits!shl(y[nn], W * nn)
      <3>1. y[0] = T(3) /\ y[1] = T(2) /\ y[2] = T(1) /\ y[3] = T(0)
        OBVIOUS
      <3>2. /\ g[1] = g[0] + Bits!shl(T(3), W * 0) /\ g[2] = g[1] + Bits!shl(T(2), W * 1)
            /\ g[3] = g[2] + Bits!shl(T(1), W * 2) /\ g[4] = g[3] + Bits!shl(T(0), W * 3)
        OBVIOUS
      <3>3. nn = 0 \/ nn = 1 \/ nn = 2 \/ nn = 3
        OBVIOUS
      <3> HIDE DEF g, y
      <3>  QED
        BY <3>1, <3>2, <3>3
    <2> HIDE DEF g, y
    <2>  QED
      BY <2>1, <2>2, <2>3 DEF AddsWords
  <1>8. HasWords(W, 4, g[4], y)
    <2> HIDE DEF g, y
    <2>1. 4 \in Nat /\ 4 \in 0 .. 4
      OBVIOUS
    <2>  QED
      BY <1>1, <1>7, <2>1, WordsAdd
  <1>9. W * 4 = 4 * W /\ Bits!power[W * 4] \in Nat
    <2>1. W * 4 = 4 * W /\ W * 4 \in Nat
      BY <1>1
    <2>  QED
      BY <2>1, PowerType
  <1>10. ASSUME NEW p \in 0 .. 4 * W - 1  PROVE Bits!bit(g[4], p) = Bits!bit(v, 4 * W - 1 - p)
    <2> DEFINE k == p \div W
               j == p % W
    <2>1. p \in Nat /\ p < W * 4
      BY <1>1, <1>9
    <2>2. k \in Nat /\ j \in 0 .. W - 1 /\ p = W * k + j
      BY <2>1, BitPlaceIs
    <2>3. k < 4
      BY <2>1, BitPlaceIs
    <2>4. Bits!bit(g[4], p) = Bits!bit(y[k], j)
      <3> HIDE DEF g, y
      <3>  QED
        BY <1>8, <1>9 DEF HasWords
    <2>5. k \in 0 .. 3 /\ 3 - k \in 0 .. 3
      <3> HIDE DEF k
      <3>  QED
        BY <2>2, <2>3
    <2>6. y[k] = T(3 - k)
      BY <2>5
    <2> HIDE DEF g, y, k, j
    <2>7. Bits!bit(T(3 - k), j) = Bits!bit(v, W * (3 - k) + (W - 1 - j))
      BY <1>2, <2>2, <2>5
    <2>8. W * (3 - k) + (W - 1 - j) = 4 * W - 1 - p
      <3>1. W * (3 - k) = W * 3 - W * k /\ W * k \in Nat
        BY <1>1, <2>2
      <3>  QED
        BY <1>1, <2>2, <3>1
    <2>  QED
      BY <2>4, <2>6, <2>7, <2>8
  <1> HIDE DEF g, y
  <1>11. g[4] \in Nat
    BY <1>8, <1>9 DEF HasWords
  <1>  QED
    BY <1>6, <1>10, <1>11

\* flip_u32 turns the bits of the word around.
LEMMA FlipIs ==
  ASSUME NEW v \in Nat, NEW num \in Nat, num <= Bits!word, NEW k \in 0 .. num - 1
  PROVE  Bits!bit(Bits!flip_u32(v, num), k) = Bits!bit(v, num - 1 - k)
  <1> DEFINE s == CHOOSE z : IsPlaced(z, v)
             c == s[4]
  <1>1. W \in Nat \ {0} /\ Bits!word = 4 * W
    BY BitsConstants
  <1>2. Bits!flip_u32(v, num) = Bits!moved_down(c, num)
    BY DEF Bits!flip_u32, IsPlaced
  <1>3. IsPlaced(s, v)
    BY PlacedExists
  <1> HIDE DEF s
  <1>4. c \in Nat /\ \A p \in 0 .. 4 * W - 1 : Bits!bit(c, p) = Bits!bit(v, 4 * W - 1 - p)
    BY <1>3, PlacedIs
  <1> HIDE DEF c
  <1>5. CASE num < Bits!word
    <2>1. Bits!word - num \in Nat /\ k \in Nat
      BY <1>1
    <2>2. Bits!bit(Bits!shr(c, Bits!word - num), k) = Bits!bit(c, (Bits!word - num) + k)
      BY <1>4, <2>1, ShiftedBit
    <2>3. (Bits!word - num) + k \in 0 .. 4 * W - 1
            /\ 4 * W - 1 - ((Bits!word - num) + k) = num - 1 - k
      BY <1>1
    <2>4. Bits!flip_u32(v, num) = Bits!shr(c, Bits!word - num)
      BY <1>2, <1>5 DEF Bits!moved_down
    <2>  QED
      BY <1>4, <2>2, <2>3, <2>4
  <1>6. CASE ~(num < Bits!word)
    <2>1. num = 4 * W /\ k \in 0 .. 4 * W - 1
      BY <1>1, <1>6
    <2>2. Bits!flip_u32(v, num) = c
      BY <1>2, <1>6 DEF Bits!moved_down
    <2>  QED
      BY <1>4, <2>1, <2>2
  <1>  QED
    BY <1>5, <1>6

-----------------------------------------------------------------------------
(* Arrays compared                                                           *)

\* Two numbers differ under a mask where one of its bits is one that differs.
LEMMA MaskedDiffers ==
  ASSUME NEW a \in Nat, NEW b \in Nat, NEW m \in Nat
  PROVE  Bits!buf_cmp_masked(a, b, m) <=>
           \E k \in 0 .. 2 * W - 1 : Bits!bit(m, k) = 1 /\ Bits!bit(a, k) # Bits!bit(b, k)
  <1> DEFINE x == Bits!both(a, m)
             y == Bits!both(b, m)
             nn == 2 * W
  <1>1. /\ x \in 0 .. Bits!power[nn] - 1 /\ y \in 0 .. Bits!power[nn] - 1
        /\ \A k \in 0 .. nn - 1 : Bits!bit(x, k) = Bits!bit(a, k) * Bits!bit(m, k)
             /\ Bits!bit(y, k) = Bits!bit(b, k) * Bits!bit(m, k)
    BY WidthIs, BothIs
  <1>2. nn \in Nat
    BY WidthIs
  <1>3. ASSUME NEW k \in 0 .. nn - 1
        PROVE  (Bits!bit(x, k) # Bits!bit(y, k))
                 <=> (Bits!bit(m, k) = 1 /\ Bits!bit(a, k) # Bits!bit(b, k))
    <2>1. k \in Nat
      BY <1>2
    <2>2. Bits!bit(a, k) \in {0, 1} /\ Bits!bit(b, k) \in {0, 1} /\ Bits!bit(m, k) \in {0, 1}
      BY <2>1, BitType
    <2> HIDE DEF x, y, nn
    <2>  QED
      BY <1>1, <2>2
  <1> HIDE DEF x, y
  <1>4. (x # y) <=> \E k \in 0 .. nn - 1 : Bits!bit(x, k) # Bits!bit(y, k)
    <2> HIDE DEF nn
    <2>1. ASSUME \A k \in 0 .. nn - 1 : Bits!bit(x, k) = Bits!bit(y, k)  PROVE x = y
      BY <1>1, <1>2, <2>1, SameBits
    <2>  QED
      BY <2>1
  <1>5. Bits!buf_cmp_masked(a, b, m) <=> x # y
    BY DEF Bits!buf_cmp_masked, x, y
  <1>  QED
    BY <1>3, <1>4, <1>5

\* For bytes, the bits of a byte are enough to look at.
LEMMA BytesDiffer ==
  ASSUME NEW a \in 0 .. Bits!power[W] - 1, NEW b \in 0 .. Bits!power[W] - 1, NEW m \in Nat
  PROVE  Bits!buf_cmp_masked(a, b, m) <=>
           \E k \in 0 .. W - 1 : Bits!bit(m, k) = 1 /\ Bits!bit(a, k) # Bits!bit(b, k)
  <1>1. a \in Nat /\ b \in Nat
    BY BitsConstants
  <1>2. ASSUME NEW k \in 0 .. 2 * W - 1, Bits!bit(a, k) # Bits!bit(b, k)  PROVE k \in 0 .. W - 1
    <2>1. k \in Nat /\ W \in Nat
      BY WidthIs
    <2>2. k >= W => Bits!bit(a, k) = 0 /\ Bits!bit(b, k) = 0
      BY <2>1, NoBitAbove
    <2>  QED
      BY <1>2, <2>1, <2>2
  <1>3. \A k \in 0 .. W - 1 : k \in 0 .. 2 * W - 1
    BY WidthIs
  <1>4. Bits!buf_cmp_masked(a, b, m) <=>
           \E k \in 0 .. 2 * W - 1 : Bits!bit(m, k) = 1 /\ Bits!bit(a, k) # Bits!bit(b, k)
    BY <1>1, MaskedDiffers
  <1>  QED
    BY <1>2, <1>3, <1>4

LEMMA TrailingDiffers ==
  ASSUME NEW a \in 0 .. Bits!power[W] - 1, NEW b \in 0 .. Bits!power[W] - 1, NEW m \in Nat,
         NEW t \in 0 .. W - 1
  PROVE  Bits!buf_cmp_trailing(a, b, m, t) <=>
           \E k \in 0 .. t - 1 : Bits!bit(m, k) = 1 /\ Bits!bit(a, k) # Bits!bit(b, k)
  <1> DEFINE ones == Bits!power[t] - 1
             mm == Bits!both(ones, m)
  <1>1. t \in Nat /\ W \in Nat
    BY WidthIs
  <1>2. ones \in Nat /\ \A k \in Nat : Bits!bit(ones, k) = IF k < t THEN 1 ELSE 0
    <2>1. Bits!power[t] - 1 \in 0 .. Bits!power[t] - 1 /\ Bits!power[t] \in Nat
      BY <1>1, OnesAre, PowerType
    <2>  QED
      BY <1>1, <2>1, OnesAre
  <1> HIDE DEF ones
  <1>3. mm \in Nat /\ \A k \in 0 .. 2 * W - 1 : Bits!bit(mm, k) = Bits!bit(ones, k) * Bits!bit(m, k)
    <2>1. mm \in 0 .. Bits!power[2 * W] - 1 /\ \A k \in 0 .. 2 * W - 1 : Bits!bit(mm, k)
            = Bits!bit(ones, k) * Bits!bit(m, k)
      BY <1>2, WidthIs, BothIs
    <2>2. 2 * W \in Nat
      BY <1>1
    <2>3. Bits!power[2 * W] \in Nat
      BY <2>2, PowerType
    <2> HIDE DEF mm
    <2>  QED
      BY <2>1, <2>3
  <1> HIDE DEF mm
  <1>4. ASSUME NEW k \in 0 .. W - 1  PROVE (Bits!bit(mm, k) = 1) <=> (k < t /\ Bits!bit(m, k) = 1)
    <2>1. k \in Nat /\ k \in 0 .. 2 * W - 1
      BY <1>1
    <2>2. Bits!bit(m, k) \in {0, 1}
      BY <2>1, BitType
    <2>3. Bits!bit(mm, k) = (IF k < t THEN 1 ELSE 0) * Bits!bit(m, k)
      BY <1>2, <1>3, <2>1
    <2>  QED
      BY <2>2, <2>3
  <1>5. Bits!buf_cmp_trailing(a, b, m, t) <=>
           \E k \in 0 .. W - 1 : Bits!bit(mm, k) = 1 /\ Bits!bit(a, k) # Bits!bit(b, k)
    <2>1. Bits!buf_cmp_trailing(a, b, m, t) <=> Bits!buf_cmp_masked(a, b, mm)
      BY DEF Bits!buf_cmp_trailing, mm, ones
    <2>  QED
      BY <1>3, <2>1, BytesDiffer
  <1>6. \A k : (k \in 0 .. t - 1) <=> (k \in 0 .. W - 1 /\ k < t)
    BY <1>1
  <1>  QED
    BY <1>4, <1>5, <1>6

\* Two arrays differ at a place.
DiffersAt(other, p) == Bits!bit_at(buffer, p) # Bits!bit_at(other, p)

LEMMA BytesBefore ==
  ASSUME NEW nn \in 0 .. Bits!size
  PROVE  /\ nn \in Nat /\ nn \div W \in Nat /\ nn % W \in 0 .. W - 1
              /\ nn = W * (nn \div W) + (nn % W)
         /\ \A k \in 0 .. (nn \div W) - 1 : k \in Bits!Bytes
  <1> DEFINE m == nn \div W
             r == nn % W
  <1>1. nn \in Nat /\ nn <= Bits!size
    BY SizeIs
  <1>2. m \in Nat /\ r \in 0 .. W - 1 /\ nn = W * m + r
    BY <1>1, BitPlaceIs
  <1> HIDE DEF m, r
  <1>3. m <= Length
    <2>1. ASSUME Length < m  PROVE FALSE
      <3>1. W * Length < W * m
        BY <1>2, <2>1, BitsConstants
      <3>2. W * m \in Nat /\ r \in Nat
        BY <1>2, WidthIs
      <3>  QED
        BY <1>1, <1>2, <3>1, <3>2, BitsConstants
    <2>  QED
      BY <1>2, <2>1, BitsConstants
  <1>4. \A k \in 0 .. m - 1 : k \in Bits!Bytes
    BY <1>2, <1>3, BitsConstants DEF Bits!Bytes
  <1>  QED
    BY <1>1, <1>2, <1>4 DEF m, r

\* Places in whole bytes, and in the one behind them.
LEMMA PlacesOfBytes ==
  ASSUME NEW m \in Nat, NEW r \in 0 .. W - 1
  PROVE  /\ \A p \in 0 .. W * m - 1 :
              p \in Nat /\ p \div W \in 0 .. m - 1 /\ p % W \in 0 .. W - 1
         /\ \A k \in 0 .. m - 1 : \A j \in 0 .. W - 1 :
              W * k + j \in 0 .. W * m - 1 /\ (W * k + j) \div W = k /\ (W * k + j) % W = j
         /\ \A p \in W * m .. W * m + r - 1 :
              p \in Nat /\ p \div W = m /\ p % W = p - W * m /\ p % W \in 0 .. r - 1
         /\ \A j \in 0 .. r - 1 :
              W * m + j \in W * m .. W * m + r - 1 /\ (W * m + j) \div W = m /\ (W * m + j) % W = j
  <1>1. W * m \in Nat /\ r \in Nat /\ W \in Nat
    BY WidthIs
  <1>2. ASSUME NEW p \in 0 .. W * m - 1
        PROVE  p \in Nat /\ p \div W \in 0 .. m - 1 /\ p % W \in 0 .. W - 1
    <2>1. p \in Nat /\ p < W * m
      BY <1>1
    <2>2. p \div W \in Nat /\ p \div W < m /\ p % W \in 0 .. W - 1
      BY <2>1, BitPlaceIs
    <2> DEFINE q == p \div W
    <2> HIDE DEF q
    <2>3. q \in Nat /\ q < m
      BY <2>2 DEF q
    <2>4. q \in 0 .. m - 1
      BY <2>3
    <2>  QED
      BY <2>1, <2>2, <2>4 DEF q
  <1>3. ASSUME NEW k \in 0 .. m - 1, NEW j \in 0 .. W - 1
        PROVE  W * k + j \in 0 .. W * m - 1 /\ (W * k + j) \div W = k /\ (W * k + j) % W = j
    <2>1. k \in Nat /\ k < m /\ j \in Nat /\ j < W
      BY <1>1
    <2>2. (W * k + j) \div W = k /\ (W * k + j) % W = j /\ W * k + j \in Nat
      BY <2>1, PlaceOf
    <2>3. W * k + j < W * m
      BY <2>1, PlaceMoved
    <2>4. W * k + j \in 0 .. W * m - 1
      BY <1>1, <2>2, <2>3
    <2>  QED
      BY <2>2, <2>4
  <1>4. ASSUME NEW j \in 0 .. r - 1
        PROVE  W * m + j \in W * m .. W * m + r - 1 /\ (W * m + j) \div W = m /\ (W * m + j) % W = j
    <2>1. j \in 0 .. W - 1
      BY <1>1
    <2>2. (W * m + j) \div W = m /\ (W * m + j) % W = j
      BY <2>1, PlaceOf
    <2>3. W * m + j \in W * m .. W * m + r - 1
      BY <1>1
    <2>  QED
      BY <2>2, <2>3
  <1>5. ASSUME NEW p \in W * m .. W * m + r - 1
        PROVE  p \in Nat /\ p \div W = m /\ p % W = p - W * m /\ p % W \in 0 .. r - 1
    <2> DEFINE j == p - W * m
    <2>1. p \in Nat /\ j \in 0 .. r - 1 /\ W * m + j = p
      BY <1>1
    <2> HIDE DEF j
    <2>2. p \div W = m /\ p % W = j
      BY <1>4, <2>1
    <2>  QED
      BY <2>1, <2>2 DEF j
  <1>  QED
    BY <1>2, <1>3, <1>4, <1>5

\* buf_cmp finds a difference in the last byte, where those before it are the same.
LEMMA CmpIs ==
  ASSUME NEW other \in Array, NEW num \in 0 .. Bits!size, buffer \in Array
  PROVE  Bits!buf_cmp(other, num) <=>
           /\ ~\E p \in 0 .. W * (num \div W) - 1 : DiffersAt(other, p)
           /\ \E p \in 0 .. num - 1 : DiffersAt(other, p)
  <1> DEFINE m == num \div W
             r == num % W
             Same == \A k \in 0 .. m - 1 : buffer[k] = other[k]
             LastByte == \E j \in 0 .. r - 1 : Bits!bit(buffer[m], j) # Bits!bit(other[m], j)
             Whole == \E p \in 0 .. W * m - 1 : DiffersAt(other, p)
             InLast == \E p \in W * m .. W * m + r - 1 : DiffersAt(other, p)
  <1>1. /\ num \in Nat /\ m \in Nat /\ r \in 0 .. W - 1 /\ num = W * m + r
        /\ \A k \in 0 .. m - 1 : k \in Bits!Bytes
    BY BytesBefore
  <1>2. r # 0 => m \in Bits!Bytes
    BY TailIsByte
  <1>3. Bits!buf_cmp(other, num) <=>
          Same /\ r # 0 /\ Bits!buf_cmp_trailing(buffer[m], other[m], Bits!power[W] - 1, r)
    BY DEF Bits!buf_cmp
  <1> HIDE DEF m, r
  <1>4. \A k \in Bits!Bytes : /\ buffer[k] \in 0 .. Bits!power[W] - 1 /\ buffer[k] \in Nat
                         /\ other[k] \in 0 .. Bits!power[W] - 1 /\ other[k] \in Nat
    BY ArrayByte DEF Array
  <1>5. r # 0 => (Bits!buf_cmp_trailing(buffer[m], other[m], Bits!power[W] - 1, r) <=> LastByte)
    <2>1. SUFFICES ASSUME r # 0  PROVE Bits!buf_cmp_trailing(buffer[m], other[m],
                            Bits!power[W] - 1, r) <=> LastByte
      OBVIOUS
    <2>2. W \in Nat /\ r \in Nat /\ \A j \in 0 .. r - 1 : j \in Nat /\ j < W
      BY <1>1, WidthIs
    <2>3. Bits!power[W] - 1 \in Nat /\ \A j \in Nat : Bits!bit(Bits!power[W] - 1, j)
            = IF j < W THEN 1 ELSE 0
      BY <2>2, BitsConstants, OnesAre
    <2>4. Bits!buf_cmp_trailing(buffer[m], other[m], Bits!power[W] - 1, r) <=>
            \E j \in 0 .. r - 1 : Bits!bit(Bits!power[W] - 1, j) = 1
              /\ Bits!bit(buffer[m], j) # Bits!bit(other[m], j)
      BY <1>1, <1>2, <1>4, <2>1, <2>3, TrailingDiffers
    <2>5. \A j \in 0 .. r - 1 : Bits!bit(Bits!power[W] - 1, j) = 1
      BY <2>2, <2>3
    <2>  QED
      BY <2>4, <2>5
  <1>6. Same <=> ~Whole
    <2>1. ASSUME Same, NEW p \in 0 .. W * m - 1  PROVE ~DiffersAt(other, p)
      <3>1. p \div W \in 0 .. m - 1
        BY <1>1, PlacesOfBytes
      <3>2. buffer[p \div W] = other[p \div W]
        BY <2>1, <3>1
      <3>  QED
        BY <3>2 DEF DiffersAt, Bits!bit_at
    <2>2. ASSUME ~Whole, NEW k \in 0 .. m - 1  PROVE buffer[k] = other[k]
      <3>1. ASSUME NEW j \in 0 .. W - 1  PROVE Bits!bit(buffer[k], j) = Bits!bit(other[k], j)
        <4>1. /\ W * k + j \in 0 .. W * m - 1
              /\ (W * k + j) \div W = k /\ (W * k + j) % W = j
          BY <1>1, PlacesOfBytes
        <4>2. ~DiffersAt(other, W * k + j)
          BY <2>2, <4>1
        <4>  QED
          BY <4>1, <4>2 DEF DiffersAt, Bits!bit_at
      <3>2. buffer[k] \in 0 .. Bits!power[W] - 1 /\ other[k] \in 0 .. Bits!power[W] - 1 /\ W \in Nat
        BY <1>1, <1>4, WidthIs
      <3>  QED
        BY <3>1, <3>2, SameBits
    <2>  QED
      BY <2>1, <2>2
  <1>7. LastByte <=> InLast
    <2>1. ASSUME NEW j \in 0 .. r - 1, Bits!bit(buffer[m], j) # Bits!bit(other[m], j)  PROVE InLast
      <3>1. /\ W * m + j \in W * m .. W * m + r - 1
            /\ (W * m + j) \div W = m /\ (W * m + j) % W = j
        BY <1>1, PlacesOfBytes
      <3>2. DiffersAt(other, W * m + j)
        BY <2>1, <3>1 DEF DiffersAt, Bits!bit_at
      <3>  QED
        BY <3>1, <3>2
    <2>2. ASSUME NEW p \in W * m .. W * m + r - 1, DiffersAt(other, p)  PROVE LastByte
      <3>1. p \div W = m /\ p % W \in 0 .. r - 1
        BY <1>1, PlacesOfBytes
      <3>2. Bits!bit(buffer[m], p % W) # Bits!bit(other[m], p % W)
        BY <2>2, <3>1 DEF DiffersAt, Bits!bit_at
      <3>  QED
        BY <3>1, <3>2
    <2>  QED
      BY <2>1, <2>2
  <1>8. (\E p \in 0 .. num - 1 : DiffersAt(other, p)) <=> Whole \/ InLast
    <2>1. W * m \in Nat /\ r \in Nat
      BY <1>1, WidthIs
    <2>2. \A p : (p \in 0 .. num - 1) <=> (p \in 0 .. W * m - 1 \/ p \in W * m .. W * m + r - 1)
      BY <1>1, <2>1
    <2>  QED
      BY <2>2
  <1>9. InLast => r # 0
    <2>1. W * m \in Nat
      BY <1>1, WidthIs
    <2>2. ASSUME r = 0, NEW p \in W * m .. W * m + r - 1  PROVE FALSE
      BY <2>1, <2>2
    <2>  QED
      BY <2>2
  <1> HIDE DEF Same, LastByte, Whole, InLast
  <1>10. Bits!buf_cmp(other, num) <=> ~Whole /\ \E p \in 0 .. num - 1 : DiffersAt(other, p)
    BY <1>3, <1>5, <1>6, <1>7, <1>8, <1>9
  <1>  QED
    BY <1>10 DEF Whole, m

\* buf_cmp_mask finds every difference under the mask, and no other.
LEMMA CmpMaskIs ==
  ASSUME NEW other \in Array, NEW mask \in Array, NEW num \in 0 .. Bits!size, buffer \in Array
  PROVE  Bits!buf_cmp_mask(other, mask, num) <=>
           \E p \in 0 .. num - 1 : Bits!bit_at(mask, p) = 1 /\ DiffersAt(other, p)
  <1> DEFINE m == num \div W
             r == num % W
             D(k, j) == Bits!bit(mask[k], j) = 1 /\ Bits!bit(buffer[k], j) # Bits!bit(other[k], j)
             E(p) == Bits!bit_at(mask, p) = 1 /\ DiffersAt(other, p)
             Front == \E k \in 0 .. m - 1 : Bits!buf_cmp_masked(buffer[k], other[k], mask[k])
             Back == Bits!tail_differs(other, mask, m, r)
  <1>1. /\ num \in Nat /\ m \in Nat /\ r \in 0 .. W - 1 /\ num = W * m + r
        /\ \A k \in 0 .. m - 1 : k \in Bits!Bytes
    BY BytesBefore
  <1>2. r # 0 => m \in Bits!Bytes
    BY TailIsByte
  <1>3. Bits!buf_cmp_mask(other, mask, num) <=> Front \/ Back
    BY DEF Bits!buf_cmp_mask
  <1> HIDE DEF m, r
  <1>4. \A k \in Bits!Bytes : /\ buffer[k] \in 0 .. Bits!power[W] - 1 /\ mask[k] \in Nat
                         /\ other[k] \in 0 .. Bits!power[W] - 1
    BY ArrayByte DEF Array
  <1>5. \A p : E(p) <=> D(p \div W, p % W)
    BY DEF DiffersAt, Bits!bit_at
  <1>6. Front <=> \E k \in 0 .. m - 1 : \E j \in 0 .. W - 1 : D(k, j)
    <2>1. ASSUME NEW k \in 0 .. m - 1
          PROVE  Bits!buf_cmp_masked(buffer[k], other[k], mask[k]) <=> \E j \in 0 .. W - 1 : D(k, j)
      BY <1>1, <1>4, BytesDiffer
    <2> HIDE DEF D
    <2>  QED
      BY <2>1
  <1>7. Back <=> \E j \in 0 .. r - 1 : D(m, j)
    <2>1. CASE r = 0
      BY <2>1 DEF Bits!tail_differs
    <2>2. CASE r # 0
      <3>1. Bits!buf_cmp_trailing(buffer[m], other[m], mask[m], r) <=> \E j \in 0 .. r - 1 : D(m, j)
        BY <1>1, <1>2, <1>4, <2>2, TrailingDiffers
      <3> HIDE DEF D
      <3>  QED
        BY <2>2, <3>1 DEF Bits!tail_differs
    <2>  QED
      BY <2>1, <2>2
  <1> HIDE DEF D, E
  <1>8. (\E k \in 0 .. m - 1 : \E j \in 0 .. W - 1 : D(k, j)) <=> \E p \in 0 .. W * m - 1 : E(p)
    <2>1. ASSUME NEW k \in 0 .. m - 1, NEW j \in 0 .. W - 1, D(k, j)
          PROVE  \E p \in 0 .. W * m - 1 : E(p)
      <3>1. /\ W * k + j \in 0 .. W * m - 1
            /\ (W * k + j) \div W = k /\ (W * k + j) % W = j
        BY <1>1, PlacesOfBytes
      <3>2. E(W * k + j)
        BY <1>5, <2>1, <3>1
      <3>  QED
        BY <3>1, <3>2
    <2>2. ASSUME NEW p \in 0 .. W * m - 1, E(p)
          PROVE  \E k \in 0 .. m - 1 : \E j \in 0 .. W - 1 : D(k, j)
      <3>1. p \div W \in 0 .. m - 1 /\ p % W \in 0 .. W - 1
        BY <1>1, PlacesOfBytes
      <3>  QED
        BY <1>5, <2>2, <3>1
    <2>  QED
      BY <2>1, <2>2
  <1>9. (\E j \in 0 .. r - 1 : D(m, j)) <=> \E p \in W * m .. W * m + r - 1 : E(p)
    <2>1. ASSUME NEW j \in 0 .. r - 1, D(m, j)  PROVE \E p \in W * m .. W * m + r - 1 : E(p)
      <3>1. /\ W * m + j \in W * m .. W * m + r - 1
            /\ (W * m + j) \div W = m /\ (W * m + j) % W = j
        BY <1>1, PlacesOfBytes
      <3>2. E(W * m + j)
        BY <1>5, <2>1, <3>1
      <3>  QED
        BY <3>1, <3>2
    <2>2. ASSUME NEW p \in W * m .. W * m + r - 1, E(p)  PROVE \E j \in 0 .. r - 1 : D(m, j)
      <3>1. p \div W = m /\ p % W \in 0 .. r - 1
        BY <1>1, PlacesOfBytes
      <3>  QED
        BY <1>5, <2>2, <3>1
    <2>  QED
      BY <2>1, <2>2
  <1>10. (\E p \in 0 .. num - 1 : E(p))
           <=> (\E p \in 0 .. W * m - 1 : E(p)) \/ (\E p \in W * m .. W * m + r - 1 : E(p))
    <2>1. W * m \in Nat /\ r \in Nat
      BY <1>1, WidthIs
    <2>2. \A p : (p \in 0 .. num - 1) <=> (p \in 0 .. W * m - 1 \/ p \in W * m .. W * m + r - 1)
      BY <1>1, <2>1
    <2>  QED
      BY <2>2
  <1>11. Bits!buf_cmp_mask(other, mask, num) <=> \E p \in 0 .. num - 1 : E(p)
    BY <1>3, <1>6, <1>7, <1>8, <1>9, <1>10
  <1>  QED
    BY <1>11 DEF E

-----------------------------------------------------------------------------
(* The helpers on bits: what they promise                                    *)

BitsInv == buffer \in Array /\ made \in BOOLEAN /\ call \in Bits!Calls /\ Bits!Legal(call)

Ops == {"set_u32", "set_u64", "get_u32", "get_u64", "set_buf", "cpy", "cmp", "cmp_mask",
        "ones", "shr", "flip_u32"}

\* What a call is made with.
CallFits(c) ==
  /\ c.op \in Ops
  /\ c.num \in 0 .. Bits!size /\ c.num \in Nat
  /\ c.first \in Nat /\ c.from \in Nat
  /\ c.data \in Array /\ c.mask \in Array
  /\ c.first + c.num <= Bits!size /\ c.from + c.num <= Bits!size
  /\ c.op # "set_buf" => c.from = 0
  /\ c.op \in {"set_u32", "flip_u32"} => c.num <= W * 4
  /\ c.op = "set_u64" => c.num <= W * 8

LEMMA CallIs ==
  ASSUME NEW c \in Bits!Calls, Bits!Legal(c)
  PROVE  CallFits(c)
  <1>1. Bits!NoBuffer \in Array
    <2>1. 0 \in Bits!Byte
      BY BitsConstants DEF Bits!Byte
    <2>  QED
      BY <2>1 DEF Bits!NoBuffer, Array
  <1>2. Arrays \subseteq Array
    BY BitsConstants DEF Array
  <1>3. Firsts \subseteq Nat /\ Nums \subseteq Nat
    <2>1. \A nn \in 1 .. Bits!size : nn \in Nat
      BY SizeIs
    <2>2. \A nn \in 0 .. Bits!size - 1 : nn \in Nat
      BY SizeIs
    <2>  QED
      BY <2>1, <2>2, BitsConstants
  <1> DEFINE IsMade == \E op \in Ops, num \in Nums, first \in Nat, from \in Nat, data \in Array,
               mask \in Array :
                         c = Bits!Call(op, num, first, from, data, mask) /\ (op # "set_buf"
                           => from = 0)
  <1>4. IsMade
    <2>1. 0 \in Nat
      OBVIOUS
    <2>2. ASSUME NEW op \in {"set_u32", "set_u64"}, NEW nn \in Nums, NEW f \in Firsts,
                   NEW d \in Arrays,
                 c = Bits!Call(op, nn, f, 0, d, Bits!NoBuffer)
          PROVE  IsMade
      BY <1>1, <1>2, <1>3, <2>1, <2>2 DEF Ops
    <2>3. ASSUME NEW op \in {"get_u32", "get_u64"}, NEW nn \in Nums, NEW f \in Firsts,
                 c = Bits!Call(op, nn, f, 0, Bits!NoBuffer, Bits!NoBuffer)
          PROVE  IsMade
      BY <1>1, <1>2, <1>3, <2>1, <2>3 DEF Ops
    <2>4. ASSUME NEW nn \in Nums, NEW f \in Firsts, NEW g \in Firsts, NEW d \in Arrays,
                 c = Bits!Call("set_buf", nn, f, g, d, Bits!NoBuffer)
          PROVE  IsMade
      BY <1>1, <1>2, <1>3, <2>1, <2>4 DEF Ops
    <2>5. ASSUME NEW op \in {"cpy", "cmp"}, NEW nn \in Nums, NEW d \in Arrays,
                 c = Bits!Call(op, nn, 0, 0, d, Bits!NoBuffer)
          PROVE  IsMade
      BY <1>1, <1>2, <1>3, <2>1, <2>5 DEF Ops
    <2>6. ASSUME NEW nn \in Nums, NEW d \in Arrays, NEW m \in Arrays,
                 c = Bits!Call("cmp_mask", nn, 0, 0, d, m)
          PROVE  IsMade
      BY <1>1, <1>2, <1>3, <2>1, <2>6 DEF Ops
    <2>7. ASSUME NEW op \in {"ones", "shr", "flip_u32"}, NEW nn \in Nums,
                 c = Bits!Call(op, nn, 0, 0, Bits!NoBuffer, Bits!NoBuffer)
          PROVE  IsMade
      BY <1>1, <1>2, <1>3, <2>1, <2>7 DEF Ops
    <2> HIDE DEF IsMade
    <2>  QED
      BY <2>2, <2>3, <2>4, <2>5, <2>6, <2>7 DEF Bits!Calls
  <1>5. PICK op \in Ops, num \in Nums, first \in Nat, from \in Nat, data \in Array, mask \in Array :
          c = Bits!Call(op, num, first, from, data, mask) /\ (op # "set_buf" => from = 0)
    BY <1>4
  <1>6. /\ c.op = op /\ c.num = num /\ c.data = data /\ c.mask = mask
        /\ c.from = from /\ c.first = first
    BY <1>5 DEF Bits!Call
  <1>7. num \in Nat /\ num \in 0 .. Bits!size
    <2>1. num \in 1 .. Bits!size
      BY BitsConstants
    <2>  QED
      BY <2>1, SizeIs
  <1>8. first + num <= Bits!size /\ from + num <= Bits!size
    BY <1>6 DEF Bits!Legal, Bits!fits
  <1>9. /\ op \in {"set_u32", "flip_u32"} => num <= W * 4
        /\ op = "set_u64" => num <= W * 8
    <2>1. op \in {"set_u32", "set_u64", "flip_u32"} => num \in Bits!WordNums(op)
      BY <1>6 DEF Bits!Legal
    <2>2. op \in {"set_u32", "flip_u32"} => num <= Bits!word
      BY <2>1 DEF Bits!WordNums
    <2>3. op = "set_u64" => num <= 2 * Bits!word
      BY <2>1 DEF Bits!WordNums
    <2>4. Bits!word = W * 4 /\ 2 * Bits!word = W * 8
      BY WidthIs, BitsConstants
    <2>  QED
      BY <2>2, <2>3, <2>4
  <1>  QED
    BY <1>5, <1>6, <1>7, <1>8, <1>9 DEF CallFits

LEMMA BitsInit == Bits!Init => BitsInv
  BY BitsConstants DEF Bits!Init, BitsInv, Array

LEMMA BitsFacts ==
  ASSUME BitsInv
  PROVE  buffer \in Array /\ CallFits(call)
  BY CallIs DEF BitsInv

LEMMA BitsNext == BitsInv /\ Bits!Next => BitsInv'
  <1> SUFFICES ASSUME BitsInv, Bits!Next  PROVE BitsInv'
    OBVIOUS
  <1>1. buffer \in Array /\ CallFits(call)
    BY BitsFacts
  <1> USE DEF CallFits
  <1>2. made' = TRUE /\ UNCHANGED call
    BY DEF Bits!Next
  <1>3. buffer' \in Array
    <2>1. CASE Bits!writes("set_u32",
                 Bits!buf_set(call.first, call.num, Bits!value(call.data, 4), 4))
      <3>1. Bits!value(call.data, 4) \in Nat
        BY <1>1, ValueIs
      <3>  QED
        BY <1>1, <2>1, <3>1, SetIs DEF Bits!writes, PutsDone
    <2>2. CASE Bits!writes("set_u64",
                 Bits!buf_set(call.first, call.num, Bits!value(call.data, 8), 8))
      <3>1. Bits!value(call.data, 8) \in Nat
        BY <1>1, ValueIs
      <3>  QED
        BY <1>1, <2>2, <3>1, SetIs DEF Bits!writes, PutsDone
    <2>3. CASE Bits!writes("cpy", Bits!buf_cpy(call.data, call.num))
      BY <1>1, <2>3, CpyIs DEF Bits!writes, FillDone
    <2>4. CASE Bits!writes("ones", Bits!buf_set_ones(call.num))
      BY <1>1, <2>4, SetOnesIs DEF Bits!writes, FillDone
    <2>5. CASE Bits!writes("set_buf", Bits!buf_set_buf(call.data, call.from, call.first, call.num))
      BY <1>1, <2>5, SetBufIs DEF Bits!writes, PutsDone
    <2>6. CASE Bits!writes("shr", Bits!buffer_shr(call.num))
      BY <1>1, <2>6, ShrIs DEF Bits!writes
    <2>7. CASE UNCHANGED buffer
      BY <1>1, <2>7
    <2>  QED
      BY <2>1, <2>2, <2>3, <2>4, <2>5, <2>6, <2>7 DEF Bits!Next, Bits!returns
  <1>  QED
    BY <1>2, <1>3 DEF BitsInv

LEMMA BitsStutter == BitsInv /\ UNCHANGED Bits!vars => BitsInv'
  BY DEF BitsInv, Bits!vars

LEMMA BitsTypes == BitsInv => Bits!TypeOK
  BY DEF BitsInv, Bits!TypeOK, Array

-----------------------------------------------------------------------------
(* The helpers on bits: each step is one of the promise                      *)

LEMMA PromiseInit == Bits!Init => Bits!Promise!Init
  <1> SUFFICES ASSUME Bits!Init  PROVE Bits!Promise!Init
    OBVIOUS
  <1>1. buffer \in Array /\ made = FALSE
    BY BitsConstants DEF Bits!Init, Array
  <1>2. \A p \in 0 .. Bits!size - 1 : Bits!bit_at(buffer, p) \in {0, 1}
    BY <1>1, BitAtType
  <1>  QED
    BY <1>1, <1>2 DEF Bits!Promise!Init, Bits!Promise!Places

LEMMA PromiseStutter == UNCHANGED Bits!vars => UNCHANGED Bits!Promise!vars
  BY DEF Bits!vars, Bits!Promise!vars, Bits!bit_at

\* What is written along PutsDone is what is to be written.
LEMMA PutsWritten ==
  ASSUME CallFits(call), NEW f,
         PutsDone(buffer', call.num, buffer, call.first, f),
         \A j \in 0 .. call.num - 1 : f[j] = Bits!bit_at(call.data, call.from + j),
         call.op # "ones", Bits!kind = "write"
  PROVE  Bits!Promise!Write
  <1> USE DEF CallFits
  <1> DEFINE old == [p \in 0 .. Bits!size - 1 |-> Bits!bit_at(buffer, p)]
             new == [p \in 0 .. Bits!size - 1 |-> Bits!bit_at(buffer', p)]
             due == [p \in 0 .. Bits!size - 1 |->
                       IF p \in call.first .. call.first + call.num - 1
                       THEN Bits!data_in_bits[p - call.first] ELSE old[p]]
  <1>1. ASSUME NEW q \in 0 .. Bits!size - 1  PROVE Bits!bit_at(buffer', q) = due[q]
    <2>1. q \in Nat /\ call.first \in Nat /\ call.num \in Nat
      BY SizeIs
    <2>2. Bits!bit_at(buffer', q) = IF call.first <= q /\ q < call.first + call.num
                               THEN f[q - call.first] ELSE Bits!bit_at(buffer, q)
      BY DEF PutsDone
    <2>3. (call.first <= q /\ q < call.first + call.num)
            <=> q \in call.first .. call.first + call.num - 1
      BY <2>1
    <2>4. CASE q \in call.first .. call.first + call.num - 1
      <3>1. q - call.first \in 0 .. call.num - 1
        BY <2>1, <2>4
      <3>2. Bits!data_in_bits[q - call.first] = Bits!bit_at(call.data, call.from + (q - call.first))
        BY <3>1 DEF Bits!data_in_bits
      <3>3. f[q - call.first] = Bits!data_in_bits[q - call.first]
        BY <3>1, <3>2
      <3>4. due[q] = Bits!data_in_bits[q - call.first]
        BY <2>4
      <3>  QED
        BY <2>2, <2>3, <2>4, <3>3, <3>4
    <2>5. CASE q \notin call.first .. call.first + call.num - 1
      <3>1. due[q] = Bits!bit_at(buffer, q)
        BY <2>5
      <3>  QED
        BY <2>2, <2>3, <2>5, <3>1
    <2>  QED
      BY <2>4, <2>5
  <1>2. new = due
    <2>1. due = [p \in 0 .. Bits!size - 1 |-> due[p]]
      OBVIOUS
    <2> HIDE DEF due
    <2>  QED
      BY <1>1, <2>1
  <1>3. /\ Bits!call_in_bits.op = Bits!kind /\ Bits!call_in_bits.data = Bits!data_in_bits
        /\ Bits!call_in_bits.first = call.first /\ Bits!call_in_bits.num = call.num
    BY DEF Bits!call_in_bits
  <1>4. Bits!Promise!Written(Bits!data_in_bits, call.first, call.num) = due
    BY DEF Bits!Promise!Written, Bits!Promise!Places
  <1> HIDE DEF due, new
  <1>5. new = Bits!Promise!Written(Bits!data_in_bits, call.first, call.num)
    BY <1>2, <1>4
  <1>  QED
    BY <1>3, <1>5 DEF Bits!Promise!Write, new

\* What is filled in along FillDone is what is to be filled in.
LEMMA FillWritten ==
  ASSUME CallFits(call), NEW f, FillDone(buffer', call.num, f),
         \A j \in 0 .. call.num - 1 : f[j] = Bits!data_in_bits[j],
         Bits!kind = "fill"
  PROVE  Bits!Promise!Fill
  <1> USE DEF CallFits
  <1> DEFINE old == [p \in 0 .. Bits!size - 1 |-> Bits!bit_at(buffer, p)]
             new == [p \in 0 .. Bits!size - 1 |-> Bits!bit_at(buffer', p)]
             due == [p \in 0 .. Bits!size - 1 |->
                       IF p < call.num THEN Bits!data_in_bits[p]
                       ELSE IF p \in Bits!Promise!Behind(call.num) THEN 0 ELSE old[p]]
  <1>1. ASSUME NEW q \in 0 .. Bits!size - 1  PROVE Bits!bit_at(buffer', q) = due[q]
    <2>1. q \in Nat /\ call.num \in Nat
      BY SizeIs
    <2>2. Bits!bit_at(buffer', q) = IF q < call.num THEN f[q]
                               ELSE IF IsBehind(q, call.num) THEN 0 ELSE Bits!bit_at(buffer, q)
      BY DEF FillDone
    <2>3. IsBehind(q, call.num) <=> q \in Bits!Promise!Behind(call.num)
      BY DEF IsBehind, Bits!Promise!Behind, Bits!Promise!Places
    <2>4. q < call.num => f[q] = Bits!data_in_bits[q]
      BY <2>1
    <2>5. due[q] = IF q < call.num THEN Bits!data_in_bits[q]
                   ELSE IF q \in Bits!Promise!Behind(call.num) THEN 0 ELSE Bits!bit_at(buffer, q)
      OBVIOUS
    <2> HIDE DEF due
    <2>  QED
      BY <2>2, <2>3, <2>4, <2>5
  <1>2. new = due
    <2>1. due = [p \in 0 .. Bits!size - 1 |-> due[p]]
      OBVIOUS
    <2> HIDE DEF due
    <2>  QED
      BY <1>1, <2>1
  <1>3. /\ Bits!call_in_bits.op = Bits!kind /\ Bits!call_in_bits.data = Bits!data_in_bits
        /\ Bits!call_in_bits.num = call.num
    BY DEF Bits!call_in_bits
  <1>4. Bits!Promise!Filled(Bits!data_in_bits, call.num) = due
    BY DEF Bits!Promise!Filled, Bits!Promise!Places
  <1> HIDE DEF due, new
  <1>5. new = Bits!Promise!Filled(Bits!data_in_bits, call.num)
    BY <1>2, <1>4
  <1>  QED
    BY <1>3, <1>5 DEF Bits!Promise!Fill, new

\* The data of a call, in bits.
LEMMA DataIs ==
  ASSUME CallFits(call), NEW j \in 0 .. call.num - 1
  PROVE  /\ call.op # "ones" => Bits!data_in_bits[j] = Bits!bit_at(call.data, call.from + j)
         /\ call.op = "ones" => Bits!data_in_bits[j] = 1
         /\ Bits!mask_in_bits[j] = Bits!bit_at(call.mask, j)
  BY DEF Bits!data_in_bits, Bits!mask_in_bits

\* A word set.
LEMMA SetWritten ==
  ASSUME BitsInv, NEW op \in {"set_u32", "set_u64"}, NEW bytes \in {4, 8},
         op = "set_u32" => bytes = 4, op = "set_u64" => bytes = 8,
         Bits!writes(op, Bits!buf_set(call.first, call.num, Bits!value(call.data, bytes), bytes))
  PROVE  Bits!Promise!Write /\ Bits!kind = "write"
  <1>1. buffer \in Array /\ CallFits(call) /\ call.op = op
    BY BitsFacts DEF Bits!writes
  <1> DEFINE v == Bits!value(call.data, bytes)
             f == [j \in 0 .. call.num - 1 |-> Bits!bit(v, j)]
  <1>2. bytes \in Nat /\ call.num <= W * bytes
    BY <1>1 DEF CallFits
  <1>3. /\ v \in Nat
        /\ \A k \in 0 .. Bits!size - 1 : k < W * bytes => Bits!bit(v, k) = Bits!bit_at(call.data, k)
    BY <1>1, <1>2, ValueIs DEF CallFits
  <1> HIDE DEF v
  <1>4. PutsDone(buffer', call.num, buffer, call.first, f)
    BY <1>1, <1>3, SetIs DEF Bits!writes, CallFits, v
  <1>5. ASSUME NEW j \in 0 .. call.num - 1  PROVE f[j] = Bits!bit_at(call.data, call.from + j)
    <2>1. call.from = 0 /\ call.num \in Nat /\ call.num <= Bits!size /\ W * bytes \in Nat
      <3>1. call.num \in 0 .. Bits!size
        BY <1>1 DEF CallFits
      <3>  QED
        BY <1>1, <1>2, <3>1, WidthIs, SizeIs DEF CallFits
    <2>2. j \in 0 .. Bits!size - 1 /\ j < W * bytes /\ 0 + j = j
      BY <1>2, <2>1, SizeIs
    <2>  QED
      BY <1>3, <2>1, <2>2
  <1>6. Bits!kind = "write"
    BY <1>1 DEF Bits!kind
  <1>7. call.op # "ones"
    BY <1>1
  <1> HIDE DEF f
  <1>  QED
    BY <1>1, <1>4, <1>5, <1>6, <1>7, PutsWritten

LEMMA SetBufWritten ==
  ASSUME BitsInv, Bits!writes("set_buf",
           Bits!buf_set_buf(call.data, call.from, call.first, call.num))
  PROVE  Bits!Promise!Write
  <1>1. buffer \in Array /\ CallFits(call) /\ call.op = "set_buf"
    BY BitsFacts DEF Bits!writes
  <1> DEFINE f == [j \in 0 .. call.num - 1 |-> Bits!bit_at(call.data, call.from + j)]
  <1>2. PutsDone(buffer', call.num, buffer, call.first, f)
    BY <1>1, SetBufIs DEF Bits!writes, CallFits
  <1>3. \A j \in 0 .. call.num - 1 : f[j] = Bits!bit_at(call.data, call.from + j)
    OBVIOUS
  <1>4. Bits!kind = "write" /\ call.op # "ones"
    BY <1>1 DEF Bits!kind
  <1> HIDE DEF f
  <1>  QED
    BY <1>1, <1>2, <1>3, <1>4, PutsWritten

LEMMA CpyWritten ==
  ASSUME BitsInv, Bits!writes("cpy", Bits!buf_cpy(call.data, call.num))
  PROVE  Bits!Promise!Fill
  <1>1. buffer \in Array /\ CallFits(call) /\ call.op = "cpy"
    BY BitsFacts DEF Bits!writes
  <1> DEFINE f == [p \in 0 .. call.num - 1 |-> Bits!bit_at(call.data, 0 + p)]
  <1>2. FillDone(buffer', call.num, f)
    BY <1>1, CpyIs DEF Bits!writes, CallFits
  <1>3. \A j \in 0 .. call.num - 1 : f[j] = Bits!data_in_bits[j]
    <2>1. call.from = 0 /\ call.op # "ones"
      BY <1>1 DEF CallFits
    <2>2. \A j \in 0 .. call.num - 1 : Bits!data_in_bits[j] = Bits!bit_at(call.data, 0 + j)
      BY <1>1, <2>1, DataIs
    <2>  QED
      BY <2>2
  <1>4. Bits!kind = "fill"
    BY <1>1 DEF Bits!kind
  <1> HIDE DEF f
  <1>  QED
    BY <1>1, <1>2, <1>3, <1>4, FillWritten

LEMMA OnesWritten ==
  ASSUME BitsInv, Bits!writes("ones", Bits!buf_set_ones(call.num))
  PROVE  Bits!Promise!Fill
  <1>1. buffer \in Array /\ CallFits(call) /\ call.op = "ones"
    BY BitsFacts DEF Bits!writes
  <1> DEFINE f == [p \in 0 .. call.num - 1 |-> 1]
  <1>2. FillDone(buffer', call.num, f)
    BY <1>1, SetOnesIs DEF Bits!writes, CallFits
  <1>3. \A j \in 0 .. call.num - 1 : f[j] = Bits!data_in_bits[j]
    BY <1>1, DataIs
  <1>4. Bits!kind = "fill"
    BY <1>1 DEF Bits!kind
  <1> HIDE DEF f
  <1>  QED
    BY <1>1, <1>2, <1>3, <1>4, FillWritten

LEMMA ShrWritten ==
  ASSUME BitsInv, Bits!writes("shr", Bits!buffer_shr(call.num))
  PROVE  Bits!Promise!Shift
  <1>1. buffer \in Array /\ CallFits(call) /\ call.op = "shr" /\ call.num \in Nat
    BY BitsFacts DEF Bits!writes, CallFits
  <1>2. Bits!call_in_bits.op = "shift" /\ Bits!call_in_bits.num = call.num
    BY <1>1 DEF Bits!call_in_bits, Bits!kind
  <1> DEFINE old == [p \in 0 .. Bits!size - 1 |-> Bits!bit_at(buffer, p)]
             due == [p \in 0 .. Bits!size - 1 |-> IF p + call.num < Bits!size
               THEN old[p + call.num] ELSE 0]
  <1>3. ASSUME NEW q \in 0 .. Bits!size - 1  PROVE Bits!bit_at(buffer', q) = due[q]
    <2>1. Bits!bit_at(buffer', q)
            = IF q + call.num < Bits!size THEN Bits!bit_at(buffer, q + call.num) ELSE 0
      BY <1>1, ShrIs DEF Bits!writes
    <2>2. q + call.num < Bits!size => q + call.num \in 0 .. Bits!size - 1
      BY <1>1, SizeIs
    <2>3. q + call.num < Bits!size => old[q + call.num] = Bits!bit_at(buffer, q + call.num)
      BY <2>2
    <2> HIDE DEF old
    <2>  QED
      BY <2>1, <2>3
  <1>4. [p \in 0 .. Bits!size - 1 |-> Bits!bit_at(buffer', p)] = due
    <2>1. due = [p \in 0 .. Bits!size - 1 |-> due[p]]
      OBVIOUS
    <2> HIDE DEF due
    <2>  QED
      BY <1>3, <2>1
  <1>  QED
    BY <1>2, <1>4 DEF Bits!Promise!Shift, Bits!Promise!Places

\* A word read.
LEMMA GetWritten ==
  ASSUME BitsInv, NEW op \in {"get_u32", "get_u64"}, NEW bytes,
         Bits!returns(op, Bits!bits_of_word(Bits!buf_get(call.first, call.num, bytes)))
  PROVE  Bits!Promise!Read
  <1>1. buffer \in Array /\ CallFits(call) /\ call.op = op
    BY BitsFacts DEF Bits!returns
  <1>2. /\ Bits!call_in_bits.op = "read" /\ Bits!call_in_bits.num = call.num
        /\ Bits!call_in_bits.first = call.first
    BY <1>1 DEF Bits!call_in_bits, Bits!kind
  <1> DEFINE old == [p \in 0 .. Bits!size - 1 |-> Bits!bit_at(buffer, p)]
             due == [k \in 0 .. call.num - 1 |-> old[call.first + k]]
             v == Bits!buf_get(call.first, call.num, bytes)
  <1>3. ASSUME NEW k \in 0 .. call.num - 1  PROVE Bits!bit(v, k) = due[k]
    <2>1. call.first + k \in 0 .. Bits!size - 1
      BY <1>1, SizeIs DEF CallFits
    <2>2. old[call.first + k] = Bits!bit_at(buffer, call.first + k)
      BY <2>1
    <2>3. Bits!bit(v, k) = Bits!bit_at(buffer, call.first + k)
      BY <1>1, GetIs DEF CallFits
    <2> HIDE DEF old, v
    <2>  QED
      BY <2>2, <2>3
  <1>4. answer' = due
    <2>1. due = [k \in 0 .. call.num - 1 |-> due[k]]
      OBVIOUS
    <2>2. answer' = [k \in 0 .. call.num - 1 |-> Bits!bit(v, k)]
      BY DEF Bits!returns, Bits!bits_of_word
    <2> HIDE DEF due, v
    <2>  QED
      BY <1>3, <2>1, <2>2
  <1>5. UNCHANGED buffer
    BY DEF Bits!returns
  <1>  QED
    BY <1>2, <1>4, <1>5 DEF Bits!Promise!Read, Bits!bit_at

LEMMA FlipWritten ==
  ASSUME BitsInv, Bits!returns("flip_u32",
           Bits!bits_of_word(Bits!flip_u32(Bits!value(buffer, 4), call.num)))
  PROVE  Bits!Promise!Reverse
  <1>1. buffer \in Array /\ CallFits(call) /\ call.op = "flip_u32"
    BY BitsFacts DEF Bits!returns
  <1>2. Bits!call_in_bits.op = "reverse" /\ Bits!call_in_bits.num = call.num
    BY <1>1 DEF Bits!call_in_bits, Bits!kind
  <1> DEFINE old == [p \in 0 .. Bits!size - 1 |-> Bits!bit_at(buffer, p)]
             due == [k \in 0 .. call.num - 1 |-> old[call.num - 1 - k]]
             w == Bits!value(buffer, 4)
             v == Bits!flip_u32(w, call.num)
  <1>3. call.num \in Nat /\ call.num <= Bits!size /\ call.num <= W * 4 /\ call.num <= Bits!word
    <2>1. call.num \in 0 .. Bits!size /\ call.num \in Nat /\ call.num <= W * 4
      BY <1>1 DEF CallFits
    <2>2. Bits!word = W * 4
      BY WidthIs, BitsConstants
    <2>  QED
      BY <2>1, <2>2, SizeIs
  <1>4. w \in Nat /\ \A k \in 0 .. Bits!size - 1 : k < W * 4
          => Bits!bit(w, k) = Bits!bit_at(buffer, k)
    BY <1>1, ValueIs
  <1> HIDE DEF w
  <1>5. ASSUME NEW k \in 0 .. call.num - 1  PROVE Bits!bit(v, k) = due[k]
    <2>1. call.num - 1 - k \in 0 .. Bits!size - 1 /\ call.num - 1 - k < W * 4
      <3>1. W * 4 \in Nat
        BY WidthIs
      <3>  QED
        BY <1>3, <3>1, SizeIs
    <2>2. old[call.num - 1 - k] = Bits!bit_at(buffer, call.num - 1 - k)
      BY <2>1
    <2>3. Bits!bit(v, k) = Bits!bit(w, call.num - 1 - k)
      BY <1>3, <1>4, FlipIs
    <2>4. due[k] = old[call.num - 1 - k]
      OBVIOUS
    <2> HIDE DEF old, v, due
    <2>  QED
      BY <1>4, <2>1, <2>2, <2>3, <2>4
  <1>6. answer' = due
    <2>1. due = [k \in 0 .. call.num - 1 |-> due[k]]
      OBVIOUS
    <2>2. answer' = [k \in 0 .. call.num - 1 |-> Bits!bit(v, k)]
      BY DEF Bits!returns, Bits!bits_of_word, w
    <2> HIDE DEF due, v
    <2>  QED
      BY <1>5, <2>1, <2>2
  <1>7. UNCHANGED buffer
    BY DEF Bits!returns
  <1>  QED
    BY <1>2, <1>6, <1>7 DEF Bits!Promise!Reverse, Bits!bit_at

\* Two arrays compared.
LEMMA DifferIs ==
  ASSUME CallFits(call), call.op \in {"cmp", "cmp_mask"}, NEW p \in 0 .. call.num - 1
  PROVE  ([q \in 0 .. Bits!size - 1 |-> Bits!bit_at(buffer, q)][p] # Bits!data_in_bits[p])
           <=> DiffersAt(call.data, p)
  <1>1. call.from = 0 /\ call.op # "ones" /\ call.num \in 0 .. Bits!size
    BY DEF CallFits
  <1>2. p \in 0 .. Bits!size - 1 /\ 0 + p = p
    BY <1>1, SizeIs
  <1>3. Bits!data_in_bits[p] = Bits!bit_at(call.data, 0 + p)
    BY <1>1, DataIs
  <1>  QED
    BY <1>2, <1>3 DEF DiffersAt

LEMMA CmpWritten ==
  ASSUME BitsInv, Bits!returns("cmp", Bits!buf_cmp(call.data, call.num))
  PROVE  Bits!Promise!CompareTail
  <1>1. buffer \in Array /\ CallFits(call) /\ call.op = "cmp" /\ call.num \in 0 .. Bits!size
    BY BitsFacts DEF Bits!returns, CallFits
  <1>2. /\ Bits!call_in_bits.op = "compare" /\ Bits!call_in_bits.num = call.num
        /\ Bits!call_in_bits.data = Bits!data_in_bits
    BY <1>1 DEF Bits!call_in_bits, Bits!kind
  <1> DEFINE whole_places == 0 .. W * (call.num \div W) - 1
             all_places == 0 .. call.num - 1
  <1>3. \A p \in whole_places : p \in all_places
    <2>1. /\ call.num \in Nat /\ call.num \div W \in Nat /\ call.num % W \in 0 .. W - 1
          /\ call.num = W * (call.num \div W) + (call.num % W)
      BY <1>1, BytesBefore
    <2> DEFINE m == call.num \div W
               r == call.num % W
    <2> HIDE DEF m, r
    <2>2. call.num \in Nat /\ m \in Nat /\ r \in Nat /\ call.num = W * m + r /\ W * m \in Nat
      BY <2>1, WidthIs DEF m, r
    <2>3. \A p \in 0 .. W * m - 1 : p \in 0 .. call.num - 1
      BY <2>2
    <2>  QED
      BY <2>3 DEF m
  <1>4. Bits!Promise!Differ(Bits!data_in_bits, all_places)
          <=> \E p \in all_places : DiffersAt(call.data, p)
    BY <1>1, DifferIs DEF Bits!Promise!Differ
  <1>5. Bits!Promise!Differ(Bits!data_in_bits, whole_places)
          <=> \E p \in whole_places : DiffersAt(call.data, p)
    BY <1>1, <1>3, DifferIs DEF Bits!Promise!Differ
  <1>6. Bits!buf_cmp(call.data, call.num) <=>
          ~Bits!Promise!Differ(Bits!data_in_bits, whole_places)
            /\ Bits!Promise!Differ(Bits!data_in_bits, all_places)
    BY <1>1, <1>4, <1>5, CmpIs DEF CallFits
  <1>7. answer' = Bits!buf_cmp(call.data, call.num) /\ UNCHANGED buffer
    BY DEF Bits!returns
  <1>8. Bits!buf_cmp(call.data, call.num) =
          (~Bits!Promise!Differ(Bits!data_in_bits, whole_places)
            /\ Bits!Promise!Differ(Bits!data_in_bits, all_places))
    <2>1. Bits!buf_cmp(call.data, call.num) \in BOOLEAN
      BY DEF Bits!buf_cmp
    <2>  QED
      BY <1>6, <2>1
  <1>9. answer' =
          (~Bits!Promise!Differ(Bits!data_in_bits, whole_places)
            /\ Bits!Promise!Differ(Bits!data_in_bits, all_places))
    BY <1>7, <1>8
  <1>  QED
    BY <1>2, <1>7, <1>9 DEF Bits!Promise!CompareTail, Bits!bit_at

LEMMA CmpMaskWritten ==
  ASSUME BitsInv, Bits!returns("cmp_mask", Bits!buf_cmp_mask(call.data, call.mask, call.num))
  PROVE  Bits!Promise!CompareMasked
  <1>1. buffer \in Array /\ CallFits(call) /\ call.op = "cmp_mask" /\ call.num \in 0 .. Bits!size
    BY BitsFacts DEF Bits!returns, CallFits
  <1>2. /\ Bits!call_in_bits.op = "compare masked" /\ Bits!call_in_bits.num = call.num
        /\ Bits!call_in_bits.data = Bits!data_in_bits /\ Bits!call_in_bits.mask = Bits!mask_in_bits
    BY <1>1 DEF Bits!call_in_bits, Bits!kind
  <1> DEFINE among == {p \in 0 .. call.num - 1 : Bits!mask_in_bits[p] = 1}
  <1>3. Bits!Promise!Differ(Bits!data_in_bits, among) <=>
          \E p \in 0 .. call.num - 1 : Bits!bit_at(call.mask, p) = 1 /\ DiffersAt(call.data, p)
    <2>1. \A p \in 0 .. call.num - 1 : Bits!mask_in_bits[p] = Bits!bit_at(call.mask, p)
      BY <1>1, DataIs
    <2>  QED
      BY <1>1, <2>1, DifferIs DEF Bits!Promise!Differ
  <1>4. Bits!buf_cmp_mask(call.data, call.mask, call.num)
          <=> Bits!Promise!Differ(Bits!data_in_bits, among)
    BY <1>1, <1>3, CmpMaskIs DEF CallFits
  <1>5. answer' = Bits!buf_cmp_mask(call.data, call.mask, call.num) /\ UNCHANGED buffer
    BY DEF Bits!returns
  <1>6. Bits!buf_cmp_mask(call.data, call.mask, call.num) = Bits!Promise!Differ(Bits!data_in_bits,
          among)
    <2>1. Bits!buf_cmp_mask(call.data, call.mask, call.num) \in BOOLEAN
      BY DEF Bits!buf_cmp_mask
    <2>2. Bits!Promise!Differ(Bits!data_in_bits, among) \in BOOLEAN
      BY DEF Bits!Promise!Differ
    <2>  QED
      BY <1>4, <2>1, <2>2
  <1>7. answer' = Bits!Promise!Differ(Bits!data_in_bits, among)
    BY <1>5, <1>6
  <1>  QED
    BY <1>2, <1>5, <1>7 DEF Bits!Promise!CompareMasked, Bits!bit_at

LEMMA PromiseNext == BitsInv /\ Bits!Next => Bits!Promise!Next
  <1> SUFFICES ASSUME BitsInv, Bits!Next  PROVE Bits!Promise!Next
    OBVIOUS
  <1>1. ~made /\ made'
    BY DEF Bits!Next
  <1>2. CASE Bits!writes("set_u32", Bits!buf_set(call.first, call.num, Bits!value(call.data, 4), 4))
    BY <1>1, <1>2, SetWritten DEF Bits!Promise!Next
  <1>3. CASE Bits!writes("set_u64", Bits!buf_set(call.first, call.num, Bits!value(call.data, 8), 8))
    BY <1>1, <1>3, SetWritten DEF Bits!Promise!Next
  <1>4. CASE Bits!writes("cpy", Bits!buf_cpy(call.data, call.num))
    BY <1>1, <1>4, CpyWritten DEF Bits!Promise!Next
  <1>5. CASE Bits!writes("ones", Bits!buf_set_ones(call.num))
    BY <1>1, <1>5, OnesWritten DEF Bits!Promise!Next
  <1>6. CASE Bits!writes("set_buf", Bits!buf_set_buf(call.data, call.from, call.first, call.num))
    BY <1>1, <1>6, SetBufWritten DEF Bits!Promise!Next
  <1>7. CASE Bits!writes("shr", Bits!buffer_shr(call.num))
    BY <1>1, <1>7, ShrWritten DEF Bits!Promise!Next
  <1>8. CASE Bits!returns("get_u32", Bits!bits_of_word(Bits!buf_get(call.first, call.num, 4)))
    BY <1>1, <1>8, GetWritten DEF Bits!Promise!Next
  <1>9. CASE Bits!returns("get_u64", Bits!bits_of_word(Bits!buf_get(call.first, call.num, 8)))
    BY <1>1, <1>9, GetWritten DEF Bits!Promise!Next
  <1>10. CASE Bits!returns("flip_u32",
                Bits!bits_of_word(Bits!flip_u32(Bits!value(buffer, 4), call.num)))
    BY <1>1, <1>10, FlipWritten DEF Bits!Promise!Next
  <1>11. CASE Bits!returns("cmp", Bits!buf_cmp(call.data, call.num))
    BY <1>1, <1>11, CmpWritten DEF Bits!Promise!Next
  <1>12. CASE Bits!returns("cmp_mask", Bits!buf_cmp_mask(call.data, call.mask, call.num))
    BY <1>1, <1>12, CmpMaskWritten DEF Bits!Promise!Next
  <1>  QED
    BY <1>2, <1>3, <1>4, <1>5, <1>6, <1>7, <1>8, <1>9, <1>10, <1>11, <1>12 DEF Bits!Next
=============================================================================
