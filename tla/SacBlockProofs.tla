---------------------------- MODULE SacBlockProofs ----------------------------
(***************************************************************************)
(* The blocks of the files of the SAC server are owned once, marked in the *)
(* bitmap and cover the sizes of the files, for any number of handlers,    *)
(* paths, nodes and blocks and for disks of any geometry.                  *)
(***************************************************************************)
EXTENDS SacTreeProofs

(***************************************************************************)
(* Arithmetic of positions: a file is rows of pointers, a row is columns   *)
(* of blocks, a block is BLOQUE_SIZE bytes.                                *)
(***************************************************************************)
Rows == 0..(BLKINDIRECT - 1)
Cols == 0..(PUNTEROS_A_BLOQUES_DATOS - 1)

\* The number of the block at row i and column j of a file.
Nth(i, j) == i * PUNTEROS_A_BLOQUES_DATOS + j

LEMMA Geometry ==
  /\ BLOQUE_SIZE \in Nat \ {0} /\ PUNTEROS_A_BLOQUES_DATOS \in Nat \ {0} /\ BLKINDIRECT \in Nat \ {0}
  /\ BLKINDIRECT * PUNTEROS_A_BLOQUES_DATOS > 1
BY SacAssumption DEF SacAssumption

LEMMA ProductLess ==
  ASSUME NEW a \in Int, NEW b \in Int, NEW m \in Nat \ {0}
  PROVE  (a * m < b * m <=> a < b) /\ (a * m <= b * m <=> a <= b)
<1>1. a < b => a * m < b * m
  <2>1. ASSUME NEW d \in Nat \ {0} PROVE d * m > 0
    OBVIOUS
  <2>2. a < b => b - a \in Nat \ {0} /\ b * m = a * m + (b - a) * m
    OBVIOUS
  <2> QED
    BY <2>1, <2>2
<1>2. b < a => b * m < a * m
  <2>1. ASSUME NEW d \in Nat \ {0} PROVE d * m > 0
    OBVIOUS
  <2>2. b < a => a - b \in Nat \ {0} /\ a * m = b * m + (a - b) * m
    OBVIOUS
  <2> QED
    BY <2>1, <2>2
<1>3. a = b => a * m = b * m
  OBVIOUS
<1>4. a * m \in Int /\ b * m \in Int
  OBVIOUS
<1> QED
  BY <1>1, <1>2, <1>3, <1>4

LEMMA Divided ==
  ASSUME NEW a \in Int, NEW m \in Int, m > 0, NEW q \in Int, q = a \div m, NEW r \in Int, r = a % m
  PROVE  a = m * q + r /\ 0 <= r /\ r < m
OBVIOUS

LEMMA Division ==
  ASSUME NEW a \in Nat, NEW m \in Nat \ {0}
  PROVE  /\ a \div m \in Nat /\ a % m \in 0..(m - 1)
         /\ a = (a \div m) * m + (a % m)
<1> DEFINE q == a \div m
           r == a % m
<1>1. q \in Int /\ r \in Int /\ a \in Int /\ m \in Int /\ m > 0 /\ q >= 0
  OBVIOUS
<1>2. q = a \div m /\ r = a % m
  OBVIOUS
<1> HIDE DEF q, r
<1>3. a = m * q + r /\ 0 <= r /\ r < m
  BY <1>1, <1>2, Divided
<1>4. a = q * m + r /\ q \in Nat /\ r \in 0..(m - 1)
  BY <1>1, <1>3
<1> QED
  BY <1>4 DEF q, r

\* A quotient and a rest determine each other.
LEMMA QuotientIs ==
  ASSUME NEW q \in Int, NEW r \in Int, NEW p \in Int, NEW s \in Int, NEW m \in Nat \ {0},
         0 <= r, r < m, 0 <= s, s < m, q * m + r = p * m + s
  PROVE  q = p /\ r = s
<1>1. q * m \in Int /\ p * m \in Int
  OBVIOUS
<1>2. (q + 1) * m = q * m + m /\ (p + 1) * m = p * m + m
  OBVIOUS
<1>3. q * m < (p + 1) * m /\ p * m < (q + 1) * m
  BY <1>1, <1>2
<1>4. q < p + 1 /\ p < q + 1
  BY <1>3, ProductLess
<1>5. q = p
  BY <1>4
<1> QED
  BY <1>1, <1>5

LEMMA NthIs ==
  ASSUME NEW i \in Int, NEW j \in Int
  PROVE  /\ Nth(i, j) \in Int /\ Nth(i, 0) = i * PUNTEROS_A_BLOQUES_DATOS
         /\ PointerBlock \in Nat \ {0}
         /\ Nth(i, j) * BLOQUE_SIZE = i * PointerBlock + j * BLOQUE_SIZE
<1> DEFINE p == PUNTEROS_A_BLOQUES_DATOS
           b == BLOQUE_SIZE
<1>1. p \in Nat \ {0} /\ b \in Nat \ {0}
  BY Geometry
<1> HIDE DEF p, b
<1>2. i * p \in Int /\ p * b \in Nat \ {0} /\ i * (p * b) = (i * p) * b /\ (i * p + j) * b = (i * p) * b + j * b
  BY <1>1
<1> QED
  BY <1>1, <1>2 DEF Nth, PointerBlock, p, b

\* The row and the column of a byte.
LEMMA PositionOf ==
  ASSUME NEW o \in Nat
  PROVE  /\ PointerPos(o) \in Nat /\ DataPos(o) \in Cols
         /\ Nth(PointerPos(o), DataPos(o)) \in Nat
         /\ Nth(PointerPos(o), DataPos(o)) * BLOQUE_SIZE <= o
         /\ o < Nth(PointerPos(o), DataPos(o)) * BLOQUE_SIZE + BLOQUE_SIZE
<1> DEFINE p == PUNTEROS_A_BLOQUES_DATOS
           b == BLOQUE_SIZE
           q == PointerBlock
           i == o \div q
           e == o % q
           j == e \div b
           f == e % b
<1>1. p \in Nat \ {0} /\ b \in Nat \ {0} /\ q \in Nat \ {0} /\ q = p * b
  BY Geometry, NthIs, 0 \in Int DEF PointerBlock
<1>2. i \in Nat /\ e \in 0..(q - 1) /\ o = i * q + e
  BY <1>1, Division
<1> HIDE DEF i, e
<1>3. j \in Nat /\ f \in 0..(b - 1) /\ e = j * b + f
  <2>1. e \in Nat
    BY <1>1, <1>2
  <2> QED
    BY <1>1, <2>1, Division
<1>4. PointerPos(o) = i /\ DataPos(o) = j
  BY DEF PointerPos, DataPos, i, e
<1> HIDE DEF j, f
<1>5. j < p
  <2>1. j * b \in Int /\ p * b \in Int
    BY <1>1, <1>3
  <2>2. j * b < p * b
    BY <1>1, <1>2, <1>3, <2>1
  <2> QED
    BY <1>1, <1>3, <2>2, ProductLess
<1>6. Nth(i, j) * b = i * q + j * b /\ Nth(i, j) \in Nat
  <2>1. i \in Int /\ j \in Int /\ i * p \in Nat
    BY <1>1, <1>2, <1>3
  <2>2. Nth(i, j) = i * p + j
    BY DEF Nth
  <2> QED
    BY <1>3, <2>1, <2>2, NthIs
<1>7. i * q \in Int /\ j * b \in Int
  BY <1>1, <1>2, <1>3
<1> HIDE DEF p, b, q
<1>8. Nth(i, j) * b <= o /\ o < Nth(i, j) * b + b
  BY <1>1, <1>2, <1>3, <1>6, <1>7
<1>9. Nth(PointerPos(o), DataPos(o)) = Nth(i, j)
  BY <1>4
<1>10. i \in Nat /\ j \in 0..(p - 1)
  BY <1>1, <1>2, <1>3, <1>5
<1> QED
  BY <1>4, <1>6, <1>8, <1>9, <1>10 DEF Cols, p, b

\* Two positions with one number are one position.
LEMMA NthUnique ==
  ASSUME NEW i \in Int, NEW j \in Cols, NEW k \in Int, NEW m \in Cols, Nth(i, j) = Nth(k, m)
  PROVE  i = k /\ j = m
<1> DEFINE p == PUNTEROS_A_BLOQUES_DATOS
<1>1. p \in Nat \ {0} /\ j \in Int /\ 0 <= j /\ j < p /\ m \in Int /\ 0 <= m /\ m < p
  BY Geometry DEF Cols
<1>2. i * p + j = k * p + m
  BY DEF Nth
<1> HIDE DEF p
<1> QED
  BY <1>1, <1>2, QuotientIs

\* The block of a byte is the one whose bytes it is in.
LEMMA ByteIn ==
  ASSUME NEW o \in Nat, NEW i \in Nat, NEW j \in Cols,
         Nth(i, j) * BLOQUE_SIZE <= o, o < Nth(i, j) * BLOQUE_SIZE + BLOQUE_SIZE
  PROVE  PointerPos(o) = i /\ DataPos(o) = j
<1> DEFINE a == Nth(i, j)
           c == Nth(PointerPos(o), DataPos(o))
           b == BLOQUE_SIZE
<1>0. PointerPos(o) \in Nat /\ DataPos(o) \in Cols /\ i \in Int /\ PointerPos(o) \in Int
  BY PositionOf
<1>1. b \in Nat \ {0} /\ a \in Int /\ c \in Int
  BY Geometry, PositionOf, NthIs DEF Cols
<1>2. c * b <= o /\ o < c * b + b /\ a * b <= o /\ o < a * b + b
  BY PositionOf
<1> HIDE DEF a, b, c
<1>3. a * b \in Int /\ c * b \in Int /\ (a + 1) * b = a * b + b /\ (c + 1) * b = c * b + b
  BY <1>1
<1>4. c * b < (a + 1) * b /\ a * b < (c + 1) * b
  BY <1>1, <1>2, <1>3
<1>5. a = c
  BY <1>1, <1>4, ProductLess
<1> QED
  BY <1>0, <1>5, NthUnique DEF a, c

\* A position whose number is below that of a file is in its rows.
LEMMA NthInRows ==
  ASSUME NEW i \in Nat, NEW j \in Cols, NEW c \in Nat, Nth(i, j) < c, c <= BLKINDIRECT * PUNTEROS_A_BLOQUES_DATOS
  PROVE  i \in Rows /\ Nth(i, 0) < c
<1> DEFINE p == PUNTEROS_A_BLOQUES_DATOS
           k == BLKINDIRECT
<1>1. p \in Nat \ {0} /\ k \in Nat \ {0} /\ j \in Nat /\ i \in Int /\ 0 \in Int
  BY Geometry DEF Cols
<1>2. Nth(i, j) = i * p + j /\ Nth(i, 0) = i * p /\ i * p \in Int /\ k * p \in Int
  BY <1>1, NthIs DEF Nth
<1> HIDE DEF p, k
<1>3. i * p < k * p /\ i * p < c
  BY <1>1, <1>2 DEF p, k
<1>4. i < k
  BY <1>1, <1>3, ProductLess
<1> QED
  BY <1>1, <1>2, <1>3, <1>4 DEF Rows, k

\* The byte of a file that has c blocks.
LEMMA ByteBelow ==
  ASSUME NEW o \in Nat, NEW c \in Nat, o < c * BLOQUE_SIZE, c <= BLKINDIRECT * PUNTEROS_A_BLOQUES_DATOS
  PROVE  /\ PointerPos(o) \in Rows /\ DataPos(o) \in Cols
         /\ Nth(PointerPos(o), DataPos(o)) < c /\ Nth(PointerPos(o), 0) < c
<1> DEFINE n == Nth(PointerPos(o), DataPos(o))
           b == BLOQUE_SIZE
<1>1. b \in Nat \ {0} /\ n \in Nat /\ n * b <= o /\ PointerPos(o) \in Nat /\ DataPos(o) \in Cols
  BY Geometry, PositionOf
<1> HIDE DEF n
<1>2. n * b \in Int /\ c * b \in Int
  BY <1>1
<1>3. n * b < c * b
  BY <1>1, <1>2
<1>4. n < c
  BY <1>1, <1>3, ProductLess
<1> QED
  BY <1>1, <1>4, NthInRows DEF n

\* A size of whole blocks.
Whole(size) == size \in Nat /\ size % BLOQUE_SIZE = 0

LEMMA WholeIs ==
  ASSUME NEW size, Whole(size)
  PROVE  size = Nth(PointerPos(size), DataPos(size)) * BLOQUE_SIZE
<1> DEFINE n == Nth(PointerPos(size), DataPos(size))
           b == BLOQUE_SIZE
           q == size \div b
<1>1. b \in Nat \ {0} /\ n \in Nat /\ n * b <= size /\ size < n * b + b /\ size \in Nat
  BY Geometry, PositionOf DEF Whole
<1>2. q \in Nat /\ size = q * b
  <2>1. size % b = 0
    BY DEF Whole
  <2>2. q \in Nat /\ size = q * b + (size % b)
    BY <1>1, Division
  <2> HIDE DEF q, b
  <2>3. q * b \in Int
    BY <1>1, <2>2
  <2> QED
    BY <2>1, <2>2, <2>3
<1> HIDE DEF n, q
<1>3. n * b <= q * b /\ q * b < (n + 1) * b
  BY <1>1, <1>2
<1>4. n = q
  BY <1>1, <1>2, <1>3, ProductLess
<1> QED
  BY <1>2, <1>4 DEF n

\* The blocks of k bytes that s bytes begin.
LEMMA CeilIs ==
  ASSUME NEW s \in Nat
  PROVE  /\ CeilDiv(s, BLOQUE_SIZE) \in Nat
         /\ \A k \in Int : k < CeilDiv(s, BLOQUE_SIZE) <=> k * BLOQUE_SIZE < s
<1> DEFINE b == BLOQUE_SIZE
           a == s + b - 1
           q == a \div b
           r == a % b
<1>1. b \in Nat \ {0} /\ a \in Nat
  BY Geometry
<1>2. q \in Nat /\ r \in 0..(b - 1) /\ a = q * b + r
  BY <1>1, Division
<1> HIDE DEF q, r
<1>3. q * b \in Int /\ q * b - b < s /\ s <= q * b
  BY <1>1, <1>2
<1>4. ASSUME NEW k \in Int
      PROVE  k < q <=> k * b < s
  <2>1. k * b \in Int /\ (q - 1) * b = q * b - b
    BY <1>1, <1>2
  <2>2. CASE k < q
    <3>1. k <= q - 1 /\ q - 1 \in Int
      BY <2>2, <1>2
    <3>2. k * b <= (q - 1) * b
      BY <1>1, <3>1, ProductLess
    <3>3. k * b <= q * b - b
      BY <2>1, <3>2
    <3>4. k * b < s
      <4> DEFINE x == k * b
                 y == q * b
      <4>1. x \in Int /\ y \in Int /\ x <= y - b /\ y - b < s
        BY <1>3, <2>1, <3>3
      <4>2. y - b \in Int /\ s \in Int
        BY <1>1, <4>1
      <4> HIDE DEF x, y, b
      <4>3. x < s
        BY <4>1, <4>2
      <4> QED
        BY <4>3 DEF x, b
    <3> QED
      BY <2>2, <3>4
  <2>3. CASE ~(k < q)
    <3>1. q <= k /\ q \in Int
      BY <2>3, <1>2
    <3>2. q * b <= k * b
      BY <1>1, <3>1, ProductLess
    <3> QED
      BY <1>3, <2>1, <2>3, <3>2
  <2> QED
    BY <2>2, <2>3
<1>5. CeilDiv(s, BLOQUE_SIZE) = q
  BY DEF CeilDiv, q
<1> QED
  BY <1>2, <1>4, <1>5

\* s bytes fit in c blocks when they begin no more.
LEMMA CeilFits ==
  ASSUME NEW s \in Nat, NEW c \in Nat
  PROVE  s <= c * BLOQUE_SIZE <=> CeilDiv(s, BLOQUE_SIZE) <= c
<1>1. CeilDiv(s, BLOQUE_SIZE) \in Nat /\ c \in Int /\ c * BLOQUE_SIZE \in Int
  BY CeilIs, Geometry
<1>2. c < CeilDiv(s, BLOQUE_SIZE) <=> c * BLOQUE_SIZE < s
  BY <1>1, CeilIs
<1> QED
  BY <1>1, <1>2

LEMMA MultipleRest ==
  ASSUME NEW q \in Nat, NEW m \in Nat \ {0}
  PROVE  (q * m) % m = 0 /\ (q * m) \div m = q
<1> DEFINE a == q * m
           p == a \div m
           r == a % m
<1>1. a \in Nat
  OBVIOUS
<1>2. p \in Nat /\ r \in 0..(m - 1) /\ a = p * m + r
  BY <1>1, Division
<1> HIDE DEF p, r
<1>3. p * m + r = q * m + 0
  BY <1>2
<1>4. p \in Int /\ r \in Int /\ q \in Int /\ 0 \in Int /\ 0 <= r /\ r < m /\ 0 < m
  BY <1>2
<1>5. p = q /\ r = 0
  BY <1>3, <1>4, QuotientIs
<1> QED
  BY <1>5 DEF p, r

\* What a truncate adds in the last block brings the size to whole blocks.
LEMMA GrowthIs ==
  ASSUME NEW s \in Nat
  PROVE  /\ SpaceForGrowth(s) \in Nat \ {0} /\ SpaceForGrowth(s) <= BLOQUE_SIZE
         /\ Whole(s + SpaceForGrowth(s))
         /\ \A c \in Nat \ {0} : s <= c * BLOQUE_SIZE /\ (s = 0 \/ s % BLOQUE_SIZE # 0)
                                   => s + SpaceForGrowth(s) <= c * BLOQUE_SIZE
<1> DEFINE b == BLOQUE_SIZE
           q == s \div b
           r == s % b
           g == SpaceForGrowth(s)
<1>1. b \in Nat \ {0}
  BY Geometry
<1>2. q \in Nat /\ r \in 0..(b - 1) /\ s = q * b + r
  BY <1>1, Division
<1>3. g = b - r
  BY DEF SpaceForGrowth
<1> HIDE DEF q, r, g
<1>4. q * b \in Nat /\ (q + 1) * b = q * b + b /\ q + 1 \in Nat
  BY <1>1, <1>2
<1>5. g \in Nat \ {0} /\ g <= b /\ s + g = (q + 1) * b
  BY <1>1, <1>2, <1>3, <1>4
<1>6. Whole(s + g)
  BY <1>1, <1>4, <1>5, MultipleRest DEF Whole
<1>7. ASSUME NEW c \in Nat \ {0}, s <= c * b, s = 0 \/ r # 0
      PROVE  s + g <= c * b
  <2>1. q + 1 <= c
    <3>1. CASE s = 0
      <4>1. q * b = 0 * b
        BY <1>1, <1>2, <1>4, <3>1
      <4>2. q <= 0
        BY <1>1, <1>2, <4>1, ProductLess
      <4> QED
        BY <1>2, <4>2
    <3>2. CASE r # 0
      <4>1. q * b < c * b
        BY <1>1, <1>2, <1>4, <1>7, <3>2
      <4>2. q < c
        BY <1>1, <1>2, <4>1, ProductLess
      <4> QED
        BY <1>2, <4>2
    <3> QED
      BY <1>7, <3>1, <3>2
  <2>2. (q + 1) * b <= c * b
    BY <1>1, <1>2, <2>1, ProductLess
  <2> QED
    BY <1>5, <2>2
<1> QED
  BY <1>5, <1>6, <1>7 DEF g, r

\* What is left in the last block stays in the blocks of the file.
LEMMA SpaceIs ==
  ASSUME NEW s \in Nat
  PROVE  /\ SpaceInBlock(s) \in Nat
         /\ \A c \in Nat \ {0} : s <= c * BLOQUE_SIZE => s + SpaceInBlock(s) <= c * BLOQUE_SIZE
         /\ SpaceInBlock(s) = 0 => s # 0 /\ Whole(s)
<1> DEFINE b == BLOQUE_SIZE
           r == s % b
           g == SpaceForGrowth(s)
<1>1. b \in Nat \ {0} /\ r \in 0..(b - 1)
  BY Geometry, Division
<1>2. g = b - r /\ SpaceInBlock(s) = IF s = 0 THEN b ELSE g % b
  BY DEF SpaceForGrowth, SpaceInBlock
<1>3. g \in Nat \ {0} /\ g <= b /\ \A c \in Nat \ {0} : s <= c * b /\ (s = 0 \/ r # 0) => s + g <= c * b
  BY GrowthIs
<1> HIDE DEF b, r, g
<1>4. CASE s = 0
  <2>1. r = 0
    <3>1. 0 * b = 0
      BY <1>1
    <3> QED
      BY <1>1, <1>4, <3>1, MultipleRest DEF r, b
  <2>2. SpaceInBlock(s) = g
    BY <1>1, <1>2, <1>4, <2>1
  <2> QED
    BY <1>3, <1>4, <2>2 DEF b
<1>5. CASE s # 0 /\ r = 0
  <2>1. g % b = 0
    <3>1. g = 1 * b
      BY <1>1, <1>2, <1>5
    <3> QED
      BY <1>1, <3>1, MultipleRest
  <2>2. SpaceInBlock(s) = 0
    BY <1>2, <1>5, <2>1
  <2>3. \A c \in Nat : c * BLOQUE_SIZE \in Int
    BY Geometry
  <2> QED
    BY <1>5, <2>2, <2>3 DEF Whole, r, b
<1>6. CASE s # 0 /\ r # 0
  <2>1. g < b /\ g \in Nat
    BY <1>1, <1>2, <1>3, <1>6
  <2>2. g % b = g
    <3> DEFINE p == g \div b
               e == g % b
    <3>1. p \in Nat /\ e \in 0..(b - 1) /\ g = p * b + e
      BY <1>1, <2>1, Division
    <3> HIDE DEF p, e
    <3>2. p * b + e = 0 * b + g /\ p \in Int /\ e \in Int /\ 0 \in Int /\ g \in Int /\ 0 <= e /\ e < b /\ 0 <= g
      BY <1>1, <2>1, <3>1
    <3>3. e = g
      BY <1>1, <2>1, <3>2, QuotientIs
    <3> QED
      BY <3>3 DEF e
  <2>3. SpaceInBlock(s) = g
    BY <1>2, <1>6, <2>2
  <2> QED
    BY <1>3, <1>6, <2>3 DEF b
<1> QED
  BY <1>4, <1>5, <1>6

\* Where the last byte is.
LEMMA LastPosIs ==
  ASSUME NEW s \in Nat \ {0}
  PROVE  \E a \in Nat : \E c \in Cols :
           /\ LastPos(s) = <<a, c>>
           /\ Nth(a, c) * BLOQUE_SIZE < s /\ s <= Nth(a, c) * BLOQUE_SIZE + BLOQUE_SIZE
<1> DEFINE b == BLOQUE_SIZE
           p == PUNTEROS_A_BLOQUES_DATOS
           i == PointerPos(s)
           j == DataPos(s)
<1>1. b \in Nat \ {0} /\ p \in Nat \ {0} /\ PointerBlock \in Nat \ {0} /\ s \in Nat
  BY Geometry, NthIs, 0 \in Int
<1>2. /\ i \in Nat /\ j \in Cols /\ Nth(i, j) \in Nat
      /\ Nth(i, j) * b <= s /\ s < Nth(i, j) * b + b
  BY PositionOf
<1>3. i = s \div PointerBlock
  BY DEF PointerPos
<1> HIDE DEF i, j
<1>4. CASE s % PointerBlock = 0
  <2> DEFINE a == i - 1
             c == p - 1
  <2>0. LastPos(s) = <<a, c>>
    BY <1>4 DEF LastPos, i
  <2>1. s = i * PointerBlock
    <3>1. s = (s \div PointerBlock) * PointerBlock + (s % PointerBlock)
      BY <1>1, Division
    <3>2. i * PointerBlock \in Nat
      BY <1>1, <1>2
    <3> QED
      BY <1>3, <1>4, <3>1, <3>2
  <2>2. i # 0
    BY <1>1, <2>1
  <2>3. a \in Nat /\ c \in Cols /\ a \in Int /\ c \in Int
    BY <1>1, <1>2, <2>2 DEF Cols
  <2>4. Nth(a, c) * b = a * PointerBlock + c * b
    BY <2>3, NthIs
  <2>5. a * PointerBlock = i * PointerBlock - PointerBlock /\ c * b = PointerBlock - b
    <3>1. c * b = p * b - b
      BY <1>1
    <3>2. a * PointerBlock = i * PointerBlock - PointerBlock
      <4>1. ASSUME NEW x \in Int, NEW y \in Int PROVE (x - 1) * y = x * y - y
        OBVIOUS
      <4> QED
        BY <1>1, <1>2, <4>1
    <3> QED
      BY <3>1, <3>2 DEF PointerBlock
  <2>6. Nth(a, c) * b = s - b
    <3>1. i * PointerBlock \in Int /\ PointerBlock \in Int /\ b \in Int
      BY <1>1, <1>2
    <3> HIDE DEF a, c, b
    <3> QED
      BY <2>1, <2>4, <2>5, <3>1
  <2>7. Nth(a, c) * b < s /\ s <= Nth(a, c) * b + b
    BY <1>1, <2>6
  <2> HIDE DEF a, c
  <2> QED
    BY <2>0, <2>3, <2>7
<1>5. CASE s % PointerBlock # 0 /\ s % b = 0
  <2> DEFINE c == j - 1
  <2>0. LastPos(s) = <<i, c>>
    BY <1>5 DEF LastPos, i, j
  <2>1. s = Nth(i, j) * b
    BY <1>1, <1>5, WholeIs DEF Whole, i, j
  <2>2. j # 0
    <3>1. SUFFICES ASSUME j = 0 PROVE FALSE
      OBVIOUS
    <3>2. i \in Int /\ 0 \in Int
      BY <1>2
    <3>3. s = i * PointerBlock + 0 * b
      BY <2>1, <3>1, <3>2, NthIs
    <3>4. i * PointerBlock \in Nat /\ 0 * b = 0
      BY <1>1, <1>2
    <3>5. s = i * PointerBlock
      BY <3>3, <3>4
    <3> QED
      BY <1>1, <1>2, <1>5, <3>5, MultipleRest
  <2>3. c \in Cols /\ c \in Int /\ j \in Int /\ i \in Int
    BY <1>1, <1>2, <2>2 DEF Cols
  <2>4. Nth(i, c) * b = Nth(i, j) * b - b
    <3>1. Nth(i, c) * b = i * PointerBlock + c * b /\ Nth(i, j) * b = i * PointerBlock + j * b
      BY <2>3, NthIs
    <3>2. c * b = j * b - b /\ j * b \in Int /\ i * PointerBlock \in Int
      BY <1>1, <2>3
    <3> QED
      BY <1>1, <3>1, <3>2
  <2>5. Nth(i, c) * b < s /\ s <= Nth(i, c) * b + b
    BY <1>1, <2>1, <2>4
  <2> HIDE DEF c
  <2> QED
    BY <1>2, <2>0, <2>3, <2>5
<1>6. CASE s % PointerBlock # 0 /\ s % b # 0
  <2>0. LastPos(s) = <<i, j>>
    BY <1>6 DEF LastPos, setear_posicion, i, j
  <2>1. s # Nth(i, j) * b
    BY <1>1, <1>2, <1>6, MultipleRest
  <2>2. Nth(i, j) * b \in Int
    BY <1>1, <1>2
  <2> QED
    BY <1>1, <1>2, <2>0, <2>1, <2>2
<1> QED
  BY <1>4, <1>5, <1>6

LEMMA ZeroIs ==
  /\ PointerPos(0) = 0 /\ DataPos(0) = 0
  /\ LastPos(0) = <<-1, PUNTEROS_A_BLOQUES_DATOS - 1>>
<1>1. PointerBlock \in Nat \ {0} /\ BLOQUE_SIZE \in Nat \ {0} /\ 0 * PointerBlock = 0 /\ 0 * BLOQUE_SIZE = 0
  BY Geometry, NthIs, 0 \in Int
<1>2. 0 \div PointerBlock = 0 /\ 0 % PointerBlock = 0 /\ 0 \div BLOQUE_SIZE = 0
  BY <1>1, MultipleRest, 0 \in Nat
<1> QED
  BY <1>2 DEF PointerPos, DataPos, LastPos

(***************************************************************************)
(* While no two requests met, the handlers are at different nodes, except  *)
(* writers, which then have one mutex.                                     *)
(***************************************************************************)
FirstLabels == {"crear", "unlink", "rmdir", "rename", "truncar", "write"}

Exclusive ==
  \A g, h \in Handlers : g # h /\ local[g].node = local[h].node /\ local[h].node \in Nodes =>
    local[g].op = "write" /\ local[h].op = "write" /\ local[g].mutex = local[h].mutex

\* The node a label has, or has not yet, and what the requests ask for.
RequestOK(l, r) ==
  /\ l \in FirstLabels => r.node = -1
  /\ l \in {"poner", "tomar", "renombrar"} => r.node \in Nodes
  /\ l # "idle" /\ r.op = "write" => r.size \in Nat \ {0} /\ r.off \in Nat
  /\ l # "idle" /\ r.op = "truncate" => r.target \in Nat

Requests == \A h \in Handlers : RequestOK(pc[h], local[h])

OthersStay(h) == \A g \in Handlers \ {h} : pc'[g] = pc[g] /\ local'[g] = local[g]

\* A handler keeps its node, leaves it, or takes one that nobody has but writers with
\* its mutex.
LEMMA ExclusiveStep ==
  ASSUME NEW h \in Handlers, Exclusive, Requests, OthersStay(h), RequestOK(pc[h], local[h])',
         \/ local'[h].node \notin Nodes
         \/ local'[h].node = local[h].node /\ local'[h].op = local[h].op /\ local'[h].mutex = local[h].mutex
         \/ \A g \in Handlers \ {h} : local[g].node = local'[h].node =>
              local[g].op = "write" /\ local'[h].op = "write" /\ local[g].mutex = local'[h].mutex
  PROVE  Exclusive' /\ Requests'
<1>1. Requests'
  BY DEF Requests, OthersStay
<1>2. ASSUME NEW g \in Handlers \ {h}, local'[g].node = local'[h].node, local'[h].node \in Nodes
      PROVE  local'[g].op = "write" /\ local'[h].op = "write" /\ local'[g].mutex = local'[h].mutex
  BY <1>2 DEF Exclusive, OthersStay
<1>3. ASSUME NEW f \in Handlers \ {h}, NEW g \in Handlers \ {h}, f # g,
             local'[f].node = local'[g].node, local'[g].node \in Nodes
      PROVE  local'[f].op = "write" /\ local'[g].op = "write" /\ local'[f].mutex = local'[g].mutex
  BY <1>3 DEF Exclusive, OthersStay
<1>4. Exclusive'
  BY <1>2, <1>3 DEF Exclusive
<1> QED
  BY <1>1, <1>4

\* The label and the variables a handler goes on with.
LEMMA GoesTo ==
  ASSUME TypeInv, NEW h \in Handlers, NEW l, NEW r, Goto(h, l, r)
  PROVE  pc'[h] = l /\ local'[h] = r /\ OthersStay(h)
BY GotoIs DEF TypeInv, OthersStay

\* A handler that does nothing has no node.
LEMMA IdleRequest == RequestOK("idle", Idle) /\ Idle.node = -1 /\ -1 \notin Nodes
BY NodesAreNat DEF RequestOK, FirstLabels, Idle

LEMMA SharesNot ==
  ASSUME TypeInv, NEW h \in Handlers, NEW n \in Nodes \cup {-1}, ~Shares(h, n)
  PROVE  /\ n \in Nodes
         /\ \A g \in Handlers \ {h} : local[g].node = n =>
              /\ local[g].op = "write" /\ local[h].op = "write" /\ local[h].path \in DOMAIN diccionarioDeMutex
              /\ local[g].mutex = diccionarioDeMutex[local[h].path]
<1>1. n \in Nodes
  BY DEF Shares
<1>2. \A g \in Handlers : pc[g] = "idle" => local[g].node # n
  BY <1>1, NodesAreNat, IdleRequest DEF TypeInv, ControlInv, LocalOK
<1> QED
  BY <1>1, <1>2 DEF Shares

(***************************************************************************)
(* The accounts: to every file in use a number of blocks it has, and to    *)
(* every block in use the one place it is for.                             *)
(***************************************************************************)
WorkOps == {"truncate", "write", "unlink", "rmdir"}

\* Files, and the nodes handlers are at work on, but those without their blocks.
InUse(n) ==
  /\ tablaDeNodos[n].state = 1 \/ \E h \in Handlers : local[h].node = n /\ local[h].op \in WorkOps
  /\ ~Unfinished(n)

Data(n, i, j) == punteros[Indirect(n, i)][j]
RowOf(n, i) == <<"pointers", n, i, 0>>
PlaceOf(n, i, j) == <<"data", n, i, j>>
HandOf(h) == <<"hand", h, 0, 0>>

\* The first c places of a node have a block each, and so has every row of pointers up
\* to the one behind them that is set.
RowsSet(n, c) == \A i \in Rows : Nth(i, 0) < c => Indirect(n, i) # 0
RowsHeld(n, c, own) ==
  \A i \in Rows : Nth(i, 0) < c + PUNTEROS_A_BLOQUES_DATOS /\ Indirect(n, i) # 0 =>
    Indirect(n, i) \in bitmap /\ own[Indirect(n, i)] = RowOf(n, i)
DataHeld(n, c, own) ==
  \A i \in Rows, j \in Cols : Nth(i, j) < c => Data(n, i, j) \in bitmap /\ own[Data(n, i, j)] = PlaceOf(n, i, j)

Held(n, c, own) ==
  /\ c \in Nat \ {0} /\ c < BLKINDIRECT * PUNTEROS_A_BLOQUES_DATOS
  /\ RowsSet(n, c) /\ RowsHeld(n, c, own) /\ DataHeld(n, c, own)

\* While a truncate has freed blocks and not set the size, nothing is where they were.
Cut(n, c) ==
  /\ \E h \in Handlers : pc[h] = "tamano" /\ local[h].node = n
  /\ \A i \in Rows, j \in Cols :
       Nth(i, 0) < c /\ c <= Nth(i, j) /\ Nth(i, j) * BLOQUE_SIZE < tablaDeNodos[n].file_size => Data(n, i, j) = 0
  /\ \A i \in Rows :
       c <= Nth(i, 0) /\ Nth(i, 0) * BLOQUE_SIZE < tablaDeNodos[n].file_size => Indirect(n, i) = 0

Fits(n, c) ==
  /\ tablaDeNodos[n].file_size \in Nat
  /\ tablaDeNodos[n].file_size <= c * BLOQUE_SIZE \/ Cut(n, c)

\* The block a handler has taken and not yet put in its file.
Carries(h, own) ==
  pc[h] \in {"agregar", "punteros"} => local[h].blk \in bitmap /\ own[local[h].blk] = HandOf(h)

\* What a handler at label l with variables r knows of the size s of its file, and of
\* the c blocks that the file has.
KnowsOf(l, r, s, c) ==
  /\ l = "acortar" => r.target <= s
  /\ l = "espacio" => r.size = r.target - s /\ r.size > 0
  /\ l = "sumar" => /\ r.size = r.target - s /\ r.space = SpaceForGrowth(s)
                    /\ s = 0 \/ s % BLOQUE_SIZE # 0
  /\ l \in BlockLabels \cup {"crecer"} /\ r.op = "truncate" =>
       Whole(s) /\ s > 0 /\ r.space \in Nat /\ r.size = (r.target - s) + r.space
  /\ l = "tamano" => r.target <= c * BLOQUE_SIZE
  /\ l = "borrar" => r.size = s
  /\ WritingAt(l, r) => r.fsize = s
  /\ WritingAt(l, r) /\ l # "trozo" => Whole(s) /\ s > 0 /\ r.off >= s
  /\ l = "escribir" => s + BLOQUE_SIZE <= c * BLOQUE_SIZE
  /\ l \in BlockLabels /\ r.op = "mknod" => s = 0
  /\ l = "punteros" => DataPos(s) = 0 /\ ~FileFull(s)

Knows(h, c) ==
  /\ KnowsOf(pc[h], local[h], Size(h), c)
  /\ pc[h] = "crecer" => s_tablaDeNodos = h \/ Size(h) + BLOQUE_SIZE <= c * BLOQUE_SIZE

Accounted(cap, own) ==
  /\ \A n \in Nodes : InUse(n) => Held(n, cap[n], own) /\ Fits(n, cap[n])
  /\ \A h \in Handlers : Carries(h, own)
  /\ \A h \in Handlers : local[h].node \in Nodes => Knows(h, cap[local[h].node])

Books == Exclusive /\ Requests /\ \E cap, own : Accounted(cap, own)

BlocksInv == Trusted => Books

(***************************************************************************)
(* A step of one handler changes the accounts of one node at most.         *)
(***************************************************************************)
\* The places of the node n and the hand of the handler h.
Mine(h, n, t) == t = HandOf(h) \/ \E i, j : t = RowOf(n, i) \/ t = PlaceOf(n, i, j)

BlockStays(b, own, own2) == b \in bitmap' /\ own2[b] = own[b] /\ punteros'[b] = punteros[b]

NodeStays(m) ==
  /\ tablaDeNodos'[m].indirect = tablaDeNodos[m].indirect
  /\ tablaDeNodos'[m].file_size = tablaDeNodos[m].file_size
  /\ tablaDeNodos'[m].state \in {0, tablaDeNodos[m].state}

Elsewhere(h, n, own, own2) ==
  /\ \A m \in Nodes \ {n} : NodeStays(m)
  /\ \A b \in bitmap : BlockStays(b, own, own2) \/ Mine(h, n, own[b])

LEMMA HeldStays ==
  ASSUME NEW h, NEW n, NEW m \in Nodes, m # n, NEW c, NEW own, NEW own2, Elsewhere(h, n, own, own2), Held(m, c, own)
  PROVE  Held(m, c, own2)'
<1>1. tablaDeNodos'[m].indirect = tablaDeNodos[m].indirect
  BY DEF Elsewhere, NodeStays
<1>2. RowsSet(m, c)'
  BY <1>1 DEF Held, RowsSet, Indirect
<1>3. ASSUME NEW i \in Rows, Nth(i, 0) < c + PUNTEROS_A_BLOQUES_DATOS, Indirect(m, i) # 0
      PROVE  /\ Indirect(m, i) \in bitmap /\ own[Indirect(m, i)] = RowOf(m, i)
             /\ BlockStays(Indirect(m, i), own, own2)
  <2>1. Indirect(m, i) \in bitmap /\ own[Indirect(m, i)] = RowOf(m, i)
    BY <1>3 DEF Held, RowsHeld
  <2>2. ~Mine(h, n, RowOf(m, i))
    BY DEF Mine, RowOf, PlaceOf, HandOf
  <2> QED
    BY <2>1, <2>2 DEF Elsewhere
<1>4. RowsHeld(m, c, own2)'
  BY <1>1, <1>3 DEF RowsHeld, Indirect, BlockStays
<1>5. ASSUME NEW i \in Rows, NEW j \in Cols, Nth(i, j) < c
      PROVE  Data(m, i, j)' \in bitmap' /\ own2[Data(m, i, j)'] = PlaceOf(m, i, j)
  <2>1. Data(m, i, j) \in bitmap /\ own[Data(m, i, j)] = PlaceOf(m, i, j)
    BY <1>5 DEF Held, DataHeld
  <2>2. ~Mine(h, n, PlaceOf(m, i, j))
    BY DEF Mine, RowOf, PlaceOf, HandOf
  <2>3. BlockStays(Data(m, i, j), own, own2)
    BY <2>1, <2>2 DEF Elsewhere
  <2>4. Nth(i, 0) < c + PUNTEROS_A_BLOQUES_DATOS /\ Indirect(m, i) # 0
    <3>1. Nth(i, 0) <= Nth(i, j) /\ Nth(i, 0) \in Int /\ Nth(i, j) \in Int /\ PUNTEROS_A_BLOQUES_DATOS \in Nat
      BY Geometry, NthIs DEF Nth, Rows, Cols
    <3>2. c \in Nat
      BY DEF Held
    <3>3. Nth(i, 0) < c
      BY <1>5, <3>1, <3>2
    <3> QED
      BY <3>1, <3>2, <3>3 DEF Held, RowsSet
  <2>5. punteros'[Indirect(m, i)] = punteros[Indirect(m, i)]
    BY <1>3, <2>4 DEF BlockStays
  <2>6. Data(m, i, j)' = Data(m, i, j)
    BY <1>1, <2>5 DEF Data, Indirect
  <2> QED
    BY <2>1, <2>3, <2>6 DEF BlockStays
<1>6. DataHeld(m, c, own2)'
  BY <1>5 DEF DataHeld
<1> QED
  BY <1>2, <1>4, <1>6 DEF Held

LEMMA FitsStays ==
  ASSUME NEW h \in Handlers, NEW n, NEW m \in Nodes, m # n, NEW c, NEW own, NEW own2, Elsewhere(h, n, own, own2),
         Held(m, c, own), Fits(m, c), OthersStay(h), pc[h] = "tamano" => local[h].node = n
  PROVE  Fits(m, c)'
<1>1. /\ tablaDeNodos'[m].indirect = tablaDeNodos[m].indirect
      /\ tablaDeNodos'[m].file_size = tablaDeNodos[m].file_size
  BY DEF Elsewhere, NodeStays
<1>2. CASE tablaDeNodos[m].file_size <= c * BLOQUE_SIZE
  BY <1>1, <1>2 DEF Fits
<1>3. CASE Cut(m, c)
  <2>1. PICK g \in Handlers : pc[g] = "tamano" /\ local[g].node = m
    BY <1>3 DEF Cut
  <2>2. pc'[g] = "tamano" /\ local'[g].node = m
    BY <2>1 DEF OthersStay
  <2>3. ASSUME NEW i \in Rows, NEW j \in Cols, Nth(i, 0) < c,
               c <= Nth(i, j), Nth(i, j) * BLOQUE_SIZE < tablaDeNodos[m].file_size
        PROVE  Data(m, i, j)' = 0
    <3>1. Data(m, i, j) = 0
      BY <1>3, <2>3 DEF Cut
    <3>2. c \in Nat /\ Nth(i, 0) \in Int /\ PUNTEROS_A_BLOQUES_DATOS \in Nat \ {0}
      BY Geometry, NthIs DEF Held, Rows
    <3>3. Nth(i, 0) < c + PUNTEROS_A_BLOQUES_DATOS
      BY <2>3, <3>2
    <3>4. Indirect(m, i) \in bitmap /\ own[Indirect(m, i)] = RowOf(m, i)
      BY <2>3, <3>3 DEF Held, RowsSet, RowsHeld
    <3>5. ~Mine(h, n, RowOf(m, i))
      BY DEF Mine, RowOf, PlaceOf, HandOf
    <3>6. punteros'[Indirect(m, i)] = punteros[Indirect(m, i)]
      BY <3>4, <3>5 DEF Elsewhere, BlockStays
    <3> QED
      BY <1>1, <3>1, <3>6 DEF Data, Indirect
  <2>4. \A i \in Rows : c <= Nth(i, 0) /\ Nth(i, 0) * BLOQUE_SIZE < tablaDeNodos[m].file_size => Indirect(m, i)' = 0
    BY <1>1, <1>3 DEF Cut, Indirect
  <2>5. Cut(m, c)'
    BY <1>1, <2>2, <2>3, <2>4 DEF Cut
  <2> QED
    BY <1>1, <2>5 DEF Fits
<1> QED
  BY <1>2, <1>3 DEF Fits

\* The others keep what they carry and know.
LEMMA CarriesStays ==
  ASSUME NEW h, NEW n, NEW g \in Handlers \ {h}, NEW own, NEW own2, Elsewhere(h, n, own, own2),
         OthersStay(h), Carries(g, own)
  PROVE  Carries(g, own2)'
<1>1. ~Mine(h, n, HandOf(g))
  BY DEF Mine, RowOf, PlaceOf, HandOf
<1> QED
  BY <1>1 DEF Carries, OthersStay, Elsewhere, BlockStays

\* Handlers that wait for the mutex of a path rely on no size.
Waits(g) == pc[g] \in {"poner", "tomar"}

LEMMA WaitsKnows ==
  ASSUME NEW l \in {"poner", "tomar"}, NEW r, NEW s, NEW c
  PROVE  KnowsOf(l, r, s, c)
BY DEF KnowsOf, WritingAt, BlockLabels

LEMMA KnowsStays ==
  ASSUME NEW h, NEW g \in Handlers \ {h}, OthersStay(h), NEW c, NEW c2, Knows(g, c),
         s_tablaDeNodos = g => s_tablaDeNodos' = g,
         Waits(g) \/ (c2 = c /\ tablaDeNodos'[local[g].node].file_size = tablaDeNodos[local[g].node].file_size)
  PROVE  Knows(g, c2)'
<1>1. pc'[g] = pc[g] /\ local'[g] = local[g]
  BY DEF OthersStay
<1>2. CASE Waits(g)
  BY <1>1, <1>2, WaitsKnows DEF Knows, Waits
<1>3. CASE c2 = c /\ tablaDeNodos'[local[g].node].file_size = tablaDeNodos[local[g].node].file_size
  BY <1>1, <1>3 DEF Knows, Size
<1> QED
  BY <1>2, <1>3

\* What comes in use at another node was in use.
LEMMA InUseStays ==
  ASSUME NEW h \in Handlers, NEW m \in Nodes, OthersStay(h), NodeStays(m),
         local[h].node # m, local'[h].node # m, InUse(m)'
  PROVE  InUse(m)
<1>1. ~Unfinished(m)
  BY DEF InUse, Unfinished, OthersStay
<1>2. CASE tablaDeNodos'[m].state = 1
  BY <1>1, <1>2 DEF InUse, NodeStays
<1>3. CASE \E g \in Handlers : local'[g].node = m /\ local'[g].op \in WorkOps
  <2>1. PICK g \in Handlers \ {h} : local'[g].node = m /\ local'[g].op \in WorkOps
    BY <1>3
  <2> QED
    BY <1>1, <2>1 DEF InUse, OthersStay
<1> QED
  BY <1>2, <1>3 DEF InUse

\* The rule for a step of the handler h at the node n.
LEMMA StepKeepsAccounts ==
  ASSUME NEW h \in Handlers, NEW n, NEW cap, NEW own, NEW cap2, NEW own2, Accounted(cap, own), TypeInv,
         OthersStay(h), local[h].node \in {n, -1}, local'[h].node \in {n, -1},
         Elsewhere(h, n, own, own2), \A m \in Nodes \ {n} : cap2[m] = cap[m],
         \A g \in Handlers \ {h} : s_tablaDeNodos = g => s_tablaDeNodos' = g,
         n \in Nodes /\ InUse(n)' => Held(n, cap2[n], own2)' /\ Fits(n, cap2[n])',
         Carries(h, own2)', n \in Nodes /\ local'[h].node = n => Knows(h, cap2[n])',
         n \in Nodes => \A g \in Handlers \ {h} : local[g].node = n =>
           Waits(g) \/ (cap2[n] = cap[n] /\ tablaDeNodos'[n].file_size = tablaDeNodos[n].file_size)
  PROVE  Accounted(cap2, own2)'
<1>0. -1 \notin Nodes
  BY NodesAreNat
<1>1. pc[h] = "tamano" => local[h].node = n
  <2>1. pc[h] = "tamano" => local[h].node \in Nodes
    BY OfHandler DEF LocalOK, TruncateLabels
  <2> QED
    BY <1>0, <2>1
<1>2. ASSUME NEW m \in Nodes, InUse(m)'
      PROVE  Held(m, cap2[m], own2)' /\ Fits(m, cap2[m])'
  <2>1. CASE m = n
    BY <1>2, <2>1
  <2>2. CASE m # n
    <3>1. NodeStays(m)
      BY <2>2 DEF Elsewhere
    <3>2. local[h].node # m /\ local'[h].node # m
      BY <1>0, <2>2
    <3>3. InUse(m)
      BY <1>2, <3>1, <3>2, InUseStays
    <3>4. Held(m, cap[m], own) /\ Fits(m, cap[m]) /\ cap2[m] = cap[m]
      BY <2>2, <3>3 DEF Accounted
    <3>5. Held(m, cap[m], own2)'
      BY <2>2, <3>4, HeldStays
    <3>6. Fits(m, cap[m])'
      BY <1>1, <2>2, <3>4, FitsStays
    <3> QED
      BY <3>4, <3>5, <3>6
  <2> QED
    BY <2>1, <2>2
<1>3. ASSUME NEW g \in Handlers
      PROVE  Carries(g, own2)'
  <2>1. CASE g # h
    BY <2>1, CarriesStays DEF Accounted
  <2> QED
    BY <2>1
<1>4. ASSUME NEW g \in Handlers, local'[g].node \in Nodes
      PROVE  Knows(g, cap2[local[g].node])'
  <2>1. CASE g = h
    BY <1>0, <1>4, <2>1
  <2>2. CASE g # h
    <3>1. local'[g] = local[g]
      BY <2>2 DEF OthersStay
    <3>2. Knows(g, cap[local[g].node])
      BY <1>4, <3>1 DEF Accounted
    <3>3. Waits(g) \/ (/\ cap2[local[g].node] = cap[local[g].node]
                       /\ tablaDeNodos'[local[g].node].file_size = tablaDeNodos[local[g].node].file_size)
      BY <1>4, <2>2, <3>1 DEF Elsewhere, NodeStays
    <3>4. Knows(g, cap2[local[g].node])'
      BY <2>2, <3>1, <3>2, <3>3, KnowsStays
    <3> QED
      BY <3>4
  <2> QED
    BY <2>1, <2>2
<1> QED
  BY <1>2, <1>3, <1>4 DEF Accounted

(***************************************************************************)
(* The node a handler is at.                                               *)
(***************************************************************************)
LEMMA WorkerUses ==
  ASSUME TypeInv, Exclusive, NEW h \in Handlers, local[h].node \in Nodes, local[h].op \in WorkOps, pc[h] # "marcar"
  PROVE  InUse(local[h].node)
<1>1. ASSUME NEW g \in Handlers, local[g].node = local[h].node, local[g].op = "mknod" \/ pc[g] = "marcar"
      PROVE  FALSE
  <2>1. g # h
    BY <1>1 DEF WorkOps
  <2>2. local[g].op = "write"
    BY <1>1, <2>1 DEF Exclusive
  <2>3. pc[g] # "marcar"
    BY <2>2, OfHandler DEF LocalOK
  <2> QED
    BY <1>1, <2>2, <2>3
<1>2. ~Unfinished(local[h].node)
  BY <1>1 DEF Unfinished
<1> QED
  BY <1>2 DEF InUse

LEMMA AtTamano ==
  ASSUME TypeInv, NEW g \in Handlers, pc[g] = "tamano"
  PROVE  local[g].op = "truncate"
BY OfHandler DEF LocalOK, TruncateLabels

LEMMA FullSize ==
  ASSUME TypeInv, Exclusive, NEW h \in Handlers, local[h].node \in Nodes, pc[h] # "tamano",
         NEW c, Fits(local[h].node, c)
  PROVE  Size(h) \in Nat /\ Size(h) <= c * BLOQUE_SIZE
<1>1. ~Cut(local[h].node, c)
  <2> SUFFICES ASSUME NEW g \in Handlers, pc[g] = "tamano", local[g].node = local[h].node
               PROVE  FALSE
    BY DEF Cut
  <2> QED
    BY AtTamano DEF Exclusive
<1> QED
  BY <1>1 DEF Fits, Size

\* Others there wait for the mutex that the handler has, if it works on the file.
LEMMA OthersWait ==
  ASSUME TypeInv, LockInv, Exclusive, Requests, NEW h \in Handlers, local[h].node \in Nodes,
         local[h].op # "write" \/ WritingAt(pc[h], local[h]),
         NEW g \in Handlers \ {h}, local[g].node = local[h].node
  PROVE  Waits(g)
<1>1. /\ local[g].op = "write" /\ local[h].op = "write" /\ local[g].mutex = local[h].mutex
      /\ WritingAt(pc[h], local[h])
  BY DEF Exclusive
<1>2. ~WritingAt(pc[g], local[g])
  BY <1>1 DEF LockInv, PlacesOK, Place
<1>3. LocalOK(pc[g], local[g]) /\ pc[g] \in Labels /\ RequestOK(pc[g], local[g])
  BY OfHandler DEF Requests
<1>4. pc[g] # "idle"
  BY <1>3, IdleRequest DEF LocalOK
<1>5. pc[g] \notin FirstLabels
  BY <1>3, IdleRequest DEF RequestOK
<1> QED
  BY <1>1, <1>2, <1>3, <1>4, <1>5
     DEF LocalOK, Labels, WritingAt, BlockLabels, TruncateLabels, WriteLabels, FirstLabels, Waits

\* What comes in use at the node of the step was in use.
LEMMA InUseSame ==
  ASSUME NEW h \in Handlers, NEW n \in Nodes, OthersStay(h), NodeStays(n),
         local[h].node = n /\ (local[h].op = "mknod" \/ pc[h] = "marcar") =>
           local'[h].node = n /\ (local'[h].op = "mknod" \/ pc'[h] = "marcar"),
         local'[h].node = n /\ local'[h].op \in WorkOps =>
           tablaDeNodos[n].state = 1 \/ (local[h].node = n /\ local[h].op \in WorkOps),
         InUse(n)'
  PROVE  InUse(n)
<1>1. ASSUME NEW g \in Handlers, local[g].node = n, local[g].op = "mknod" \/ pc[g] = "marcar"
      PROVE  FALSE
  <2>1. local'[g].node = n /\ (local'[g].op = "mknod" \/ pc'[g] = "marcar")
    BY <1>1 DEF OthersStay
  <2> QED
    BY <2>1 DEF InUse, Unfinished
<1>2. ~Unfinished(n)
  BY <1>1 DEF Unfinished
<1>3. CASE tablaDeNodos'[n].state = 1
  BY <1>2, <1>3 DEF InUse, NodeStays
<1>4. CASE \E g \in Handlers : local'[g].node = n /\ local'[g].op \in WorkOps
  <2>1. PICK g \in Handlers : local'[g].node = n /\ local'[g].op \in WorkOps
    BY <1>4
  <2>2. CASE g = h
    BY <1>2, <2>1, <2>2 DEF InUse
  <2>3. CASE g # h
    BY <1>2, <2>1, <2>3 DEF InUse, OthersStay
  <2> QED
    BY <2>2, <2>3
<1> QED
  BY <1>3, <1>4 DEF InUse

(***************************************************************************)
(* A step that leaves the blocks and the sizes of the files.               *)
(***************************************************************************)
\* A handler keeps its node, leaves it, or comes to one where nobody is but writers with
\* its mutex.
Comes(h, r) ==
  \/ r.node \notin Nodes
  \/ r.node = local[h].node /\ r.op = local[h].op /\ r.mutex = local[h].mutex
  \/ \A g \in Handlers \ {h} : local[g].node = r.node =>
       local[g].op = "write" /\ r.op = "write" /\ local[g].mutex = r.mutex

LEMMA ComesExclusive ==
  ASSUME TypeInv, Exclusive, Requests, NEW h \in Handlers, NEW l, NEW r, Goto(h, l, r), RequestOK(l, r), Comes(h, r)
  PROVE  Exclusive' /\ Requests'
<1>1. pc'[h] = l /\ local'[h] = r /\ OthersStay(h)
  BY GoesTo
<1>2. RequestOK(pc[h], local[h])'
  BY <1>1
<1>3. \/ local'[h].node \notin Nodes
      \/ local'[h].node = local[h].node /\ local'[h].op = local[h].op /\ local'[h].mutex = local[h].mutex
      \/ \A g \in Handlers \ {h} : local[g].node = local'[h].node =>
           local[g].op = "write" /\ local'[h].op = "write" /\ local[g].mutex = local'[h].mutex
  BY <1>1 DEF Comes
<1> QED
  BY <1>1, <1>2, <1>3, ExclusiveStep

LeavesTable(h) == \A g \in Handlers \ {h} : s_tablaDeNodos = g => s_tablaDeNodos' = g

\* A file that has its blocks or not is so after the step, and what the handler comes to
\* work on is in use.
FindsInUse(h, n, l, r) ==
  /\ local[h].node = n /\ (local[h].op = "mknod" \/ pc[h] = "marcar") => r.node = n /\ (r.op = "mknod" \/ l = "marcar")
  /\ r.node = n /\ r.op \in WorkOps => tablaDeNodos[n].state = 1 \/ (local[h].node = n /\ local[h].op \in WorkOps)

KnowsAt(h, n, l, r, s, c) ==
  /\ KnowsOf(l, r, s, c)
  /\ l = "crecer" => s_tablaDeNodos' = h \/ s + BLOQUE_SIZE <= c * BLOQUE_SIZE

\* The files and what they have stay.
FilesStay(own, own2) ==
  /\ \A m \in Nodes : NodeStays(m)
  /\ \A b \in bitmap : BlockStays(b, own, own2)

LEMMA StepBesideFiles ==
  ASSUME TypeInv, Exclusive, Requests, NEW cap, NEW own, NEW own2, Accounted(cap, own),
         NEW h \in Handlers, NEW l, NEW r, Goto(h, l, r), FilesStay(own, own2), LeavesTable(h), pc[h] # "tamano",
         NEW n, local[h].node \in {n, -1}, r.node \in {n, -1}, RequestOK(l, r), Comes(h, r),
         n \in Nodes => FindsInUse(h, n, l, r),
         l \in {"agregar", "punteros"} => r.blk \in bitmap' /\ own2[r.blk] = HandOf(h),
         n \in Nodes /\ r.node = n => KnowsAt(h, n, l, r, tablaDeNodos[n].file_size, cap[n])
  PROVE  Books'
<1>0. -1 \notin Nodes
  BY NodesAreNat
<1>1. pc'[h] = l /\ local'[h] = r /\ OthersStay(h)
  BY GoesTo
<1>2. Exclusive' /\ Requests'
  BY ComesExclusive
<1>3. Elsewhere(h, n, own, own2) /\ Elsewhere(h, -1, own, own2)
  BY DEF FilesStay, Elsewhere
<1>4. ASSUME n \in Nodes, InUse(n)'
      PROVE  Held(n, cap[n], own2)' /\ Fits(n, cap[n])'
  <2>1. NodeStays(n) /\ n # -1
    BY <1>0, <1>4 DEF FilesStay
  <2>2. InUse(n)
    BY <1>1, <1>4, <2>1, InUseSame DEF FindsInUse
  <2>3. Held(n, cap[n], own) /\ Fits(n, cap[n])
    BY <1>4, <2>2 DEF Accounted
  <2>4. Held(n, cap[n], own2)'
    BY <1>3, <1>4, <2>1, <2>3, HeldStays
  <2>5. Fits(n, cap[n])'
    BY <1>1, <1>3, <1>4, <2>1, <2>3, FitsStays
  <2> QED
    BY <2>4, <2>5
<1>5. Carries(h, own2)'
  BY <1>1 DEF Carries
<1>6. ASSUME n \in Nodes, local'[h].node = n
      PROVE  Knows(h, cap[n])'
  <2>1. tablaDeNodos'[n].file_size = tablaDeNodos[n].file_size
    BY <1>6 DEF FilesStay, NodeStays
  <2> QED
    BY <1>1, <1>6, <2>1 DEF KnowsAt, Knows, Size
<1>7. n \in Nodes => \A g \in Handlers \ {h} : local[g].node = n =>
        Waits(g) \/ (cap[n] = cap[n] /\ tablaDeNodos'[n].file_size = tablaDeNodos[n].file_size)
  BY DEF FilesStay, NodeStays
<1>8. local'[h].node \in {n, -1}
  BY <1>1
<1>9. Accounted(cap, own2)'
  BY <1>1, <1>3, <1>4, <1>5, <1>6, <1>7, <1>8, StepKeepsAccounts DEF LeavesTable
<1> QED
  BY <1>2, <1>9 DEF Books

LEMMA SilentStep ==
  ASSUME TypeInv, Exclusive, Requests, NEW cap, NEW own, Accounted(cap, own),
         NEW h \in Handlers, NEW l, NEW r, Goto(h, l, r), UNCHANGED disk, LeavesTable(h), pc[h] # "tamano",
         NEW n, local[h].node \in {n, -1}, r.node \in {n, -1}, RequestOK(l, r), Comes(h, r),
         n \in Nodes => FindsInUse(h, n, l, r),
         l \in {"agregar", "punteros"} => r.blk \in bitmap /\ own[r.blk] = HandOf(h),
         n \in Nodes /\ r.node = n => KnowsAt(h, n, l, r, tablaDeNodos[n].file_size, cap[n])
  PROVE  Books'
<1>1. FilesStay(own, own) /\ bitmap' = bitmap
  BY DEF disk, FilesStay, NodeStays, BlockStays
<1> QED
  BY <1>1, StepBesideFiles

\* A handler that has its node no more, with nothing in its hand.
LEMMA LeaveStep ==
  ASSUME TypeInv, Exclusive, Requests, NEW cap, NEW own, Accounted(cap, own),
         NEW h \in Handlers, NEW l, NEW r, Goto(h, l, r), FilesStay(own, own), LeavesTable(h),
         pc[h] \notin {"tamano", "marcar"}, local[h].op # "mknod" \/ local[h].node = -1,
         r.node = -1, RequestOK(l, r), l \notin {"agregar", "punteros"}
  PROVE  Books'
<1>1. -1 \notin Nodes
  BY NodesAreNat
<1>2. Comes(h, r)
  BY <1>1 DEF Comes
<1> DEFINE n == local[h].node
<1>3. n \in Nodes => FindsInUse(h, n, l, r) /\ r.node # n
  BY <1>1 DEF FindsInUse
<1>4. local[h].node \in {n, -1} /\ r.node \in {n, -1}
  OBVIOUS
<1> HIDE DEF n
<1> QED
  BY <1>2, <1>3, <1>4, StepBesideFiles

LEMMA DiskStays ==
  ASSUME UNCHANGED disk, NEW own
  PROVE  FilesStay(own, own)
BY DEF disk, FilesStay, NodeStays, BlockStays

LEMMA AnswerStep ==
  ASSUME TypeInv, Exclusive, Requests, NEW cap, NEW own, Accounted(cap, own),
         NEW h \in Handlers, Answer(h), UNCHANGED disk, LeavesTable(h),
         pc[h] \notin {"tamano", "marcar"}, local[h].op # "mknod" \/ local[h].node = -1
  PROVE  Books'
<1>1. Goto(h, "idle", Idle)
  BY DEF Answer
<1> QED
  BY <1>1, IdleRequest, DiskStays, LeaveStep

(***************************************************************************)
(* A request is asked.                                                     *)
(***************************************************************************)
LEMMA AskedRequest ==
  ASSUME NEW l \in FirstLabels, NEW op, NEW path, NEW nuevo, NEW size, NEW off, NEW target,
         op = "write" => size \in Nat \ {0} /\ off \in Nat, op = "truncate" => target \in Nat
  PROVE  RequestOK(l, Asked(op, path, nuevo, size, off, target)) /\ Asked(op, path, nuevo, size, off, target).node = -1
<1> DEFINE r == Asked(op, path, nuevo, size, off, target)
<1>1. r.node = -1 /\ r.op = op /\ r.size = size /\ r.off = off /\ r.target = target
  BY DEF Asked, Idle
<1> HIDE DEF r
<1>2. RequestOK(l, r)
  BY <1>1 DEF RequestOK, FirstLabels
<1> QED
  BY <1>1, <1>2 DEF r

LEMMA AskBooks ==
  ASSUME TypeInv, Exclusive, Requests, NEW cap, NEW own, Accounted(cap, own), NEW h \in Handlers, Ask(h)
  PROVE  Books'
<1>1. PICK p \in Paths :
     \/ \E op \in {"mknod", "mkdir"} : Goto(h, "crear", Asked(op, p, <<>>, 0, 0, 0))
     \/ \E op \in {"unlink", "rmdir"} : Goto(h, op, Asked(op, p, <<>>, 0, 0, 0))
     \/ \E q \in Paths : Goto(h, "rename", Asked("rename", p, q, 0, 0, 0))
     \/ \E size \in TruncateSizes : Goto(h, "truncar", Asked("truncate", p, <<>>, 0, 0, size))
     \/ \E w \in Writes : Goto(h, "write", Asked("write", p, <<>>, w[1], w[2], 0))
  BY DEF Ask
<1>2. pc[h] = "idle" /\ UNCHANGED disk /\ LeavesTable(h)
  BY DEF Ask, locks, LeavesTable
<1>3. local[h].node = -1
  BY <1>2, OfHandler, IdleRequest DEF LocalOK
<1>4. ASSUME NEW l \in FirstLabels, NEW r, Goto(h, l, r), RequestOK(l, r), r.node = -1
      PROVE  Books'
  <2>1. l \notin {"agregar", "punteros"} /\ pc[h] \notin {"tamano", "marcar"}
    BY <1>2 DEF FirstLabels
  <2> QED
    BY <1>2, <1>3, <1>4, <2>1, DiskStays, LeaveStep
<1>5. CASE \E op \in {"mknod", "mkdir"} : Goto(h, "crear", Asked(op, p, <<>>, 0, 0, 0))
  <2>1. PICK op \in {"mknod", "mkdir"} : Goto(h, "crear", Asked(op, p, <<>>, 0, 0, 0))
    BY <1>5
  <2>2. "crear" \in FirstLabels /\ op # "write" /\ op # "truncate"
    BY DEF FirstLabels
  <2>3. RequestOK("crear", Asked(op, p, <<>>, 0, 0, 0)) /\ Asked(op, p, <<>>, 0, 0, 0).node = -1
    BY <2>2, AskedRequest
  <2> QED
    BY <1>4, <2>1, <2>2, <2>3
<1>6. CASE \E op \in {"unlink", "rmdir"} : Goto(h, op, Asked(op, p, <<>>, 0, 0, 0))
  <2>1. PICK op \in {"unlink", "rmdir"} : Goto(h, op, Asked(op, p, <<>>, 0, 0, 0))
    BY <1>6
  <2>2. op \in FirstLabels /\ op # "write" /\ op # "truncate"
    BY DEF FirstLabels
  <2>3. RequestOK(op, Asked(op, p, <<>>, 0, 0, 0)) /\ Asked(op, p, <<>>, 0, 0, 0).node = -1
    BY <2>2, AskedRequest
  <2> QED
    BY <1>4, <2>1, <2>2, <2>3
<1>7. CASE \E q \in Paths : Goto(h, "rename", Asked("rename", p, q, 0, 0, 0))
  <2>1. PICK q \in Paths : Goto(h, "rename", Asked("rename", p, q, 0, 0, 0))
    BY <1>7
  <2>2. "rename" \in FirstLabels
    BY DEF FirstLabels
  <2>3. RequestOK("rename", Asked("rename", p, q, 0, 0, 0)) /\ Asked("rename", p, q, 0, 0, 0).node = -1
    BY <2>2, AskedRequest
  <2> QED
    BY <1>4, <2>1, <2>2, <2>3
<1>8. CASE \E size \in TruncateSizes : Goto(h, "truncar", Asked("truncate", p, <<>>, 0, 0, size))
  <2>1. PICK size \in TruncateSizes : Goto(h, "truncar", Asked("truncate", p, <<>>, 0, 0, size))
    BY <1>8
  <2>2. "truncar" \in FirstLabels /\ size \in Nat
    BY SacAssumption DEF FirstLabels, SacAssumption
  <2>3. RequestOK("truncar", Asked("truncate", p, <<>>, 0, 0, size)) /\ Asked("truncate", p, <<>>, 0, 0, size).node = -1
    BY <2>2, AskedRequest
  <2> QED
    BY <1>4, <2>1, <2>2, <2>3
<1>9. CASE \E w \in Writes : Goto(h, "write", Asked("write", p, <<>>, w[1], w[2], 0))
  <2>1. PICK w \in Writes : Goto(h, "write", Asked("write", p, <<>>, w[1], w[2], 0))
    BY <1>9
  <2>2. "write" \in FirstLabels /\ w[1] \in Nat \ {0} /\ w[2] \in Nat
    BY SacAssumption DEF FirstLabels, SacAssumption
  <2>3. RequestOK("write", Asked("write", p, <<>>, w[1], w[2], 0)) /\ Asked("write", p, <<>>, w[1], w[2], 0).node = -1
    BY <2>2, AskedRequest
  <2> QED
    BY <1>4, <2>1, <2>2, <2>3
<1> QED
  BY <1>1, <1>5, <1>6, <1>7, <1>8, <1>9

(***************************************************************************)
(* mknod and mkdir.                                                        *)
(***************************************************************************)
LEMMA RefusedBooks ==
  ASSUME TypeInv, Exclusive, Requests, NEW cap, NEW own, Accounted(cap, own), NEW h \in Handlers,
         TablaLlena(h) \/ YaExiste(h)
  PROVE  Books'
<1>1. /\ pc[h] = "crear" /\ Answer(h) /\ UNCHANGED disk
      /\ s_tablaDeNodos = NONE
  BY DEF TablaLlena, YaExiste, At
<1>2. LeavesTable(h)
  BY <1>1, SacAssumption DEF LeavesTable, SacAssumption
<1>3. local[h].node = -1
  BY <1>1 DEF Requests, RequestOK, FirstLabels
<1> QED
  BY <1>1, <1>2, <1>3, AnswerStep

LEMMA CreateBooks ==
  ASSUME TypeInv, Exclusive, Requests, NEW cap, NEW own, Accounted(cap, own), NEW h \in Handlers,
         crear_nuevo_nodo(h), ~raced'
  PROVE  Books'
<1>0. PICK n : n = Min(Vacant)
  OBVIOUS
<1> DEFINE q == [local[h] EXCEPT !.node = n]
<1>1. /\ pc[h] = "crear" /\ Vacant # {} /\ ~Shares(h, n)
      /\ UNCHANGED <<punteros, bitmap, s_tablaDeNodos>>
      /\ IF local[h].op = "mknod" THEN Goto(h, "bloque", q) ELSE Answer(h)
      /\ tablaDeNodos' = [tablaDeNodos EXCEPT ![n] =
            [@ EXCEPT !.state = IF local[h].op = "mknod" THEN 1 ELSE 2, !.fname = Last(local[h].path), !.file_size = 0,
                      !.parent = IF Len(local[h].path) > 1 THEN determine_nodo(Front(local[h].path)) + FirstNodeBlock ELSE 0]]
  BY <1>0 DEF crear_nuevo_nodo, At, locks
<1>2. n \in Nodes
  BY <1>0, <1>1, VacantNode
<1>3. /\ local[h].node = -1 /\ local[h].op \in {"mknod", "mkdir"}
      /\ local[h] \in LocalType /\ TablaOK /\ ControlInv /\ -1 \notin Nodes
  BY <1>1, OfHandler, NodesAreNat DEF LocalOK, Requests, RequestOK, FirstLabels
<1>4. /\ tablaDeNodos'[n].state = (IF local[h].op = "mknod" THEN 1 ELSE 2)
      /\ tablaDeNodos'[n].file_size = 0
      /\ \A m \in Nodes \ {n} : tablaDeNodos'[m] = tablaDeNodos[m]
  <2>1. tablaDeNodos[n] \in NodeType
    BY <1>2, <1>3, NodeOf
  <2> QED
    BY <1>1, <1>2, <1>3, <2>1 DEF TablaOK, NodeType
<1>5. q.node = n /\ q.op = local[h].op /\ q.mutex = local[h].mutex
  BY <1>3 DEF LocalType
<1>6. \A g \in Handlers \ {h} : local[g].node # n
  <2>1. local[h].op # "write"
    BY <1>3
  <2> QED
    BY <1>1, <1>2, <2>1, SharesNot
<1> HIDE DEF q
<1>7. PICK l, r : /\ Goto(h, l, r) /\ r.node \in {n, -1} /\ RequestOK(l, r) /\ l \in {"idle", "bloque"}
                  /\ r.node = n => local[h].op = "mknod" /\ r.op = "mknod"
                  /\ r.node = -1 => local[h].op = "mkdir"
  <2>1. CASE local[h].op = "mknod"
    <3>1. RequestOK("bloque", q)
      BY <1>5, <2>1 DEF RequestOK, FirstLabels
    <3> QED
      BY <1>1, <1>2, <1>3, <1>5, <2>1, <3>1
  <2>2. CASE local[h].op = "mkdir"
    <3>1. Goto(h, "idle", Idle)
      BY <1>1, <2>2 DEF Answer
    <3> QED
      BY <1>2, <1>3, <2>2, <3>1, IdleRequest
  <2> QED
    BY <1>3, <2>1, <2>2
<1>8. Comes(h, r)
  BY <1>2, <1>3, <1>6, <1>7 DEF Comes
<1>9. Exclusive' /\ Requests'
  BY <1>7, <1>8, ComesExclusive
<1>10. pc'[h] = l /\ local'[h] = r /\ OthersStay(h)
  BY <1>7, GoesTo
<1>11. ~InUse(n)'
  <2>1. CASE r.node = n
    BY <1>7, <1>10, <2>1 DEF InUse, Unfinished
  <2>2. CASE r.node = -1
    <3>1. tablaDeNodos'[n].state = 2
      BY <1>4, <1>7, <2>2
    <3>2. \A g \in Handlers : local'[g].node # n
      BY <1>2, <1>3, <1>6, <1>10, <2>2 DEF OthersStay
    <3> QED
      BY <3>1, <3>2 DEF InUse
  <2> QED
    BY <1>7, <2>1, <2>2
<1>12. Elsewhere(h, n, own, own)
  BY <1>1, <1>4 DEF Elsewhere, NodeStays, BlockStays
<1>13. Carries(h, own)'
  BY <1>7, <1>10 DEF Carries
<1>14. local'[h].node = n => Knows(h, cap[n])'
  <2> SUFFICES ASSUME local'[h].node = n PROVE Knows(h, cap[n])'
    OBVIOUS
  <2>1. Size(h)' = 0
    BY <1>4 DEF Size
  <2>2. l # "crecer" /\ r.op = "mknod"
    BY <1>7, <1>10
  <2>3. KnowsOf(l, r, 0, cap[n])
    BY <1>7, <2>2 DEF KnowsOf, WritingAt, BlockLabels
  <2> QED
    BY <1>10, <2>1, <2>2, <2>3 DEF Knows
<1>15. Accounted(cap, own)'
  BY <1>1, <1>2, <1>3, <1>6, <1>7, <1>10, <1>11, <1>12, <1>13, <1>14, StepKeepsAccounts
<1> QED
  BY <1>9, <1>15 DEF Books

(***************************************************************************)
(* Blocks for mknod, truncate and write.                                   *)
(***************************************************************************)
\* A handler that goes on with its node.
LEMMA StayStep ==
  ASSUME TypeInv, Exclusive, Requests, NEW cap, NEW own, NEW own2, Accounted(cap, own),
         NEW h \in Handlers, NEW l, NEW r, Goto(h, l, r), FilesStay(own, own2), LeavesTable(h),
         pc[h] \notin {"tamano", "marcar"}, local[h].node \in Nodes,
         r.node = local[h].node, r.op = local[h].op, r.mutex = local[h].mutex, RequestOK(l, r),
         l \in {"agregar", "punteros"} => r.blk \in bitmap' /\ own2[r.blk] = HandOf(h),
         KnowsAt(h, local[h].node, l, r, Size(h), cap[local[h].node])
  PROVE  Books'
<1>1. Comes(h, r)
  BY DEF Comes
<1>2. FindsInUse(h, local[h].node, l, r)
  BY DEF FindsInUse
<1>3. PICK n : n = local[h].node
  OBVIOUS
<1> QED
  BY <1>1, <1>2, <1>3, StepBesideFiles DEF Size

LEMMA RequestGoesOn ==
  ASSUME Requests, NEW h \in Handlers, pc[h] # "idle", NEW l, l \notin FirstLabels, NEW r, r.node \in Nodes,
         r.op = local[h].op, r.op = "write" => r.size = local[h].size /\ r.off = local[h].off, r.target = local[h].target
  PROVE  RequestOK(l, r)
BY DEF Requests, RequestOK

LEMMA BlockWork ==
  ASSUME TypeInv, Exclusive, Requests, NEW cap, NEW own, Accounted(cap, own), NEW h \in Handlers, pc[h] \in BlockLabels
  PROVE  /\ local[h].node \in Nodes /\ local[h].op \in {"mknod", "truncate", "write"}
         /\ local[h].op # "write" \/ WritingAt(pc[h], local[h])
         /\ Size(h) \in Int
         /\ local[h].op = "mknod" => Size(h) = 0
         /\ local[h].op # "mknod" => /\ Held(local[h].node, cap[local[h].node], own)
                                     /\ Size(h) <= cap[local[h].node] * BLOQUE_SIZE
                                     /\ Whole(Size(h)) /\ Size(h) > 0
<1>1. local[h].node \in Nodes /\ local[h].op \in {"mknod", "truncate", "write"}
  BY OfHandler DEF LocalOK
<1>2. local[h].op # "write" \/ WritingAt(pc[h], local[h])
  BY DEF WritingAt
<1>3. Knows(h, cap[local[h].node])
  BY <1>1 DEF Accounted
<1>4. Size(h) \in Int
  BY <1>1, OfHandler, NodeOf DEF Size
<1>5. local[h].op = "mknod" => Size(h) = 0
  BY <1>3 DEF Knows, KnowsOf
<1>6. ASSUME local[h].op # "mknod"
      PROVE  /\ Held(local[h].node, cap[local[h].node], own)
             /\ Size(h) <= cap[local[h].node] * BLOQUE_SIZE
  <2>1. local[h].op \in WorkOps /\ pc[h] \notin {"marcar", "tamano"}
    BY <1>1, <1>6 DEF WorkOps, BlockLabels
  <2>2. InUse(local[h].node)
    BY <1>1, <2>1, WorkerUses
  <2>3. Held(local[h].node, cap[local[h].node], own) /\ Fits(local[h].node, cap[local[h].node])
    BY <1>1, <2>2 DEF Accounted
  <2> QED
    BY <1>1, <2>1, <2>3, FullSize
<1>7. local[h].op # "mknod" => Whole(Size(h)) /\ Size(h) > 0
  <2>1. local[h].op = "write" => WritingAt(pc[h], local[h]) /\ pc[h] # "trozo"
    BY <1>2 DEF BlockLabels
  <2> QED
    BY <1>1, <1>3, <2>1 DEF Knows, KnowsOf
<1> QED
  BY <1>1, <1>2, <1>4, <1>5, <1>6, <1>7

\* What a handler knows of its file does not depend on which of these labels it is at.
LEMMA BlockKnows ==
  ASSUME NEW l \in BlockLabels, NEW k \in {"bloque", "agregar"}, NEW r, NEW q, NEW s, NEW c, KnowsOf(l, r, s, c),
         q.op = r.op, q.target = r.target, q.size = r.size, q.space = r.space, q.fsize = r.fsize, q.off = r.off
  PROVE  KnowsOf(k, q, s, c)
BY DEF KnowsOf, WritingAt, BlockLabels

LEMMA TakeBooks ==
  ASSUME TypeInv, Exclusive, Requests, NEW cap, NEW own, Accounted(cap, own), NEW h \in Handlers,
         get_bloque_vacio(h)
  PROVE  Books'
<1>1. PICK b : b = Min(Free)
  OBVIOUS
<1> DEFINE q == [local[h] EXCEPT !.blk = b]
<1>2. /\ pc[h] = "bloque" /\ Free # {}
      /\ bitmap' = bitmap \cup {b} /\ Goto(h, "agregar", q)
      /\ UNCHANGED <<tablaDeNodos, punteros, s_tablaDeNodos>>
  BY <1>1 DEF get_bloque_vacio, At, locks
<1>3. b \in Blocks /\ b \notin bitmap
  BY <1>1, <1>2, FreeBlock
<1>4. local[h].node \in Nodes
  BY <1>2, BlockWork DEF BlockLabels
<1>5. PICK own2 : own2 = [x \in Blocks |-> IF x = b THEN HandOf(h) ELSE own[x]]
  OBVIOUS
<1>6. FilesStay(own, own2)
  <2>1. bitmap \subseteq Blocks
    BY DEF TypeInv, DiskOK
  <2> QED
    BY <1>2, <1>3, <1>5, <2>1 DEF FilesStay, NodeStays, BlockStays
<1>7. local[h] \in LocalType
  BY OfHandler
<1>8. /\ q.node = local[h].node /\ q.op = local[h].op /\ q.mutex = local[h].mutex /\ q.blk = b
      /\ q.target = local[h].target /\ q.size = local[h].size /\ q.space = local[h].space
      /\ q.fsize = local[h].fsize /\ q.off = local[h].off
  BY <1>7 DEF LocalType
<1> HIDE DEF q
<1>9. RequestOK("agregar", q)
  BY <1>2, <1>4, <1>8, RequestGoesOn DEF FirstLabels
<1>10. KnowsOf("agregar", q, Size(h), cap[local[h].node])
  <2>1. KnowsOf(pc[h], local[h], Size(h), cap[local[h].node])
    BY <1>4 DEF Accounted, Knows
  <2> QED
    BY <1>2, <1>8, <2>1, BlockKnows DEF BlockLabels
<1>11. q.blk \in bitmap' /\ own2[q.blk] = HandOf(h)
  BY <1>2, <1>3, <1>5, <1>8
<1>12. LeavesTable(h) /\ pc[h] \notin {"tamano", "marcar"}
  BY <1>2 DEF LeavesTable
<1>13. KnowsAt(h, local[h].node, "agregar", q, Size(h), cap[local[h].node])
  BY <1>10 DEF KnowsAt
<1> QED
  BY <1>2, <1>4, <1>6, <1>8, <1>9, <1>11, <1>12, <1>13, StayStep

LEMMA AfterAgregarIs ==
  ASSUME TypeInv, NEW h \in Handlers, NEW ok, AfterAgregar(h, ok), pc[h] \in BlockLabels
  PROVE  \/ local[h].op = "write" /\ ok /\ Goto(h, "escribir", local[h])
         \/ local[h].op = "truncate" /\ Goto(h, "crecer", local[h])
         \/ local[h].op = "mknod" /\ Answer(h)
         \/ local[h].op = "write" /\ ~ok /\ Answer(h)
<1>1. local[h].op \in {"mknod", "truncate", "write"}
  BY OfHandler DEF LocalOK
<1>2. CASE local[h].op = "write" /\ ok
  BY <1>2 DEF AfterAgregar
<1>3. CASE local[h].op = "write" /\ ~ok
  BY <1>3 DEF AfterAgregar
<1>4. CASE local[h].op = "truncate"
  BY <1>4 DEF AfterAgregar
<1>5. CASE local[h].op = "mknod"
  BY <1>5 DEF AfterAgregar
<1> QED
  BY <1>1, <1>2, <1>3, <1>4, <1>5

\* A file of s bytes is full when it has all the blocks that it can have.
LEMMA EmptyNotFull == ~FileFull(0)
BY Geometry, ZeroIs DEF FileFull

LEMMA BooksOfFull ==
  ASSUME TypeInv, Exclusive, Requests, NEW cap, NEW own, Accounted(cap, own), NEW h \in Handlers,
         ArchivoLleno(h)
  PROVE  Books'
<1>1. /\ pc[h] = "agregar" /\ s_tablaDeNodos = NONE /\ FileFull(Size(h))
      /\ s_tablaDeNodos' = h /\ AfterAgregar(h, FALSE) /\ UNCHANGED disk
  BY DEF ArchivoLleno, At, KeepTabla
<1>2. LeavesTable(h)
  BY <1>1, SacAssumption DEF LeavesTable, SacAssumption
<1>3. pc[h] \in BlockLabels
  BY <1>1 DEF BlockLabels
<1>4. local[h].op # "mknod"
  BY <1>1, <1>3, BlockWork, EmptyNotFull
<1>5. CASE Answer(h)
  BY <1>1, <1>2, <1>4, <1>5, AnswerStep
<1>6. CASE local[h].op = "truncate" /\ Goto(h, "crecer", local[h])
  <2>1. local[h].node \in Nodes /\ Whole(Size(h)) /\ Size(h) > 0
    BY <1>3, <1>4, BlockWork
  <2>2. RequestOK("crecer", local[h])
    BY <1>1, <2>1, RequestGoesOn DEF FirstLabels
  <2>3. KnowsOf(pc[h], local[h], Size(h), cap[local[h].node])
    BY <2>1 DEF Accounted, Knows
  <2>4. KnowsOf("crecer", local[h], Size(h), cap[local[h].node])
    BY <1>3, <1>6, <2>3 DEF KnowsOf, WritingAt, BlockLabels
  <2>5. KnowsAt(h, local[h].node, "crecer", local[h], Size(h), cap[local[h].node])
    BY <1>1, <2>4 DEF KnowsAt
  <2> QED
    BY <1>1, <1>2, <1>6, <2>1, <2>2, <2>5, DiskStays, StayStep
<1> QED
  BY <1>1, <1>3, <1>4, <1>5, <1>6, AfterAgregarIs

LEMMA BooksOfNewRow ==
  ASSUME TypeInv, Exclusive, Requests, NEW cap, NEW own, Accounted(cap, own), NEW h \in Handlers,
         AgregarPunteros(h)
  PROVE  Books'
<1>1. /\ pc[h] = "agregar" /\ s_tablaDeNodos = NONE /\ s_tablaDeNodos' = h
      /\ ~FileFull(Size(h)) /\ DataPos(Size(h)) = 0
      /\ Goto(h, "punteros", local[h]) /\ UNCHANGED disk
  BY DEF AgregarPunteros, At
<1>2. LeavesTable(h)
  BY <1>1, SacAssumption DEF LeavesTable, SacAssumption
<1>3. local[h].node \in Nodes
  BY <1>1, BlockWork DEF BlockLabels
<1>4. RequestOK("punteros", local[h])
  BY <1>1, <1>3, RequestGoesOn DEF FirstLabels
<1>5. KnowsOf(pc[h], local[h], Size(h), cap[local[h].node])
  BY <1>3 DEF Accounted, Knows
<1>6. KnowsAt(h, local[h].node, "punteros", local[h], Size(h), cap[local[h].node])
  BY <1>1, <1>5 DEF KnowsAt, KnowsOf, WritingAt, BlockLabels
<1>7. local[h].blk \in bitmap' /\ own[local[h].blk] = HandOf(h)
  BY <1>1 DEF Accounted, Carries, disk
<1> QED
  BY <1>1, <1>2, <1>3, <1>4, <1>6, <1>7, DiskStays, StayStep

LEMMA BooksOfNoBlock ==
  ASSUME TypeInv, Exclusive, Requests, NEW cap, NEW own, Accounted(cap, own), NEW h \in Handlers,
         SinBloques(h) \/ SinBloqueDePunteros(h), ~hollow'
  PROVE  Books'
<1>1. /\ pc[h] \in BlockLabels /\ UNCHANGED <<disk, s_tablaDeNodos>> /\ local[h].op = "write"
      /\ Answer(h) \/ AfterAgregar(h, FALSE)
  BY DEF SinBloques, SinBloqueDePunteros, At, BlockLabels
<1>2. Answer(h)
  BY <1>1, AfterAgregarIs
<1>3. LeavesTable(h) /\ pc[h] \notin {"tamano", "marcar"}
  BY <1>1 DEF LeavesTable, BlockLabels
<1> QED
  BY <1>1, <1>2, <1>3, AnswerStep

\* The file of the handler has one more block than its bytes need, and the handler has
\* nothing in its hand.
LEMMA AddedBooks ==
  ASSUME TypeInv, LockInv, Exclusive, Requests, NEW cap, NEW own, NEW own2, Accounted(cap, own),
         NEW h \in Handlers, pc[h] \in BlockLabels, AfterAgregar(h, TRUE), LeavesTable(h),
         NEW n \in Nodes, n = local[h].node, NEW c \in Nat \ {0},
         Elsewhere(h, n, own, own2), Held(n, c, own2)', tablaDeNodos'[n].file_size = tablaDeNodos[n].file_size,
         Size(h) + BLOQUE_SIZE <= c * BLOQUE_SIZE
  PROVE  Books'
<1>0. -1 \notin Nodes /\ BLOQUE_SIZE \in Nat \ {0}
  BY NodesAreNat, Geometry
<1>1. PICK cap2 : cap2 = [m \in Nodes |-> IF m = n THEN c ELSE cap[m]]
  OBVIOUS
<1>2. cap2[n] = c /\ \A m \in Nodes \ {n} : cap2[m] = cap[m]
  BY <1>1
<1>3. /\ local[h].op \in {"mknod", "truncate", "write"} /\ Size(h) \in Nat
      /\ local[h].op # "mknod" => Whole(Size(h)) /\ Size(h) > 0
      /\ local[h].op # "write" \/ WritingAt(pc[h], local[h])
  BY BlockWork DEF Whole
<1>4. KnowsOf(pc[h], local[h], Size(h), cap[n])
  BY DEF Accounted, Knows
<1>5. PICK l, r : /\ Goto(h, l, r) /\ l \in {"escribir", "crecer", "idle"}
                  /\ r.node \in {n, -1} /\ (r.node = -1 \/ r = local[h])
                  /\ RequestOK(l, r) /\ (r.node = n => KnowsOf(l, r, Size(h), c))
  <2>1. CASE local[h].op = "write" /\ Goto(h, "escribir", local[h])
    <3>1. RequestOK("escribir", local[h])
      BY RequestGoesOn DEF FirstLabels, BlockLabels
    <3>2. KnowsOf("escribir", local[h], Size(h), c)
      BY <1>4, <2>1 DEF KnowsOf, WritingAt, BlockLabels
    <3> QED
      BY <2>1, <3>1, <3>2
  <2>2. CASE local[h].op = "truncate" /\ Goto(h, "crecer", local[h])
    <3>1. RequestOK("crecer", local[h])
      BY RequestGoesOn DEF FirstLabels, BlockLabels
    <3>2. KnowsOf("crecer", local[h], Size(h), c)
      BY <1>4, <2>2 DEF KnowsOf, WritingAt, BlockLabels
    <3> QED
      BY <2>2, <3>1, <3>2
  <2>3. CASE Answer(h)
    <3>1. Goto(h, "idle", Idle) /\ RequestOK("idle", Idle) /\ Idle.node = -1
      BY <2>3, IdleRequest DEF Answer
    <3> QED
      BY <1>0, <3>1
  <2> QED
    BY <2>1, <2>2, <2>3, AfterAgregarIs
<1>6. pc'[h] = l /\ local'[h] = r /\ OthersStay(h)
  BY <1>5, GoesTo
<1>7. Comes(h, r)
  BY <1>0, <1>5 DEF Comes
<1>8. Exclusive' /\ Requests'
  BY <1>5, <1>7, ComesExclusive
<1>9. Fits(n, c)'
  <2>1. tablaDeNodos'[n].file_size = Size(h)
    BY DEF Size
  <2>2. tablaDeNodos'[n].file_size \in Nat /\ tablaDeNodos'[n].file_size <= c * BLOQUE_SIZE
    BY <1>0, <1>3, <2>1
  <2> QED
    BY <2>2 DEF Fits
<1>10. Carries(h, own2)'
  BY <1>5, <1>6 DEF Carries
<1>11. local'[h].node = n => Knows(h, cap2[n])'
  <2> SUFFICES ASSUME local'[h].node = n PROVE Knows(h, c)'
    BY <1>2
  <2>1. Size(h)' = Size(h)
    BY DEF Size
  <2>2. KnowsOf(l, r, Size(h), c)
    BY <1>5, <1>6
  <2> QED
    BY <1>6, <2>1, <2>2 DEF Knows
<1>12. \A g \in Handlers \ {h} : local[g].node = n => Waits(g)
  BY <1>3, OthersWait
<1>13. local'[h].node \in {n, -1} /\ local[h].node \in {n, -1}
  BY <1>5, <1>6
<1>14. Accounted(cap2, own2)'
  BY <1>2, <1>6, <1>9, <1>10, <1>11, <1>12, <1>13, StepKeepsAccounts DEF LeavesTable
<1> QED
  BY <1>8, <1>14 DEF Books

LEMMA NthOrder ==
  ASSUME NEW i \in Int, NEW j \in Cols
  PROVE  /\ Nth(i, j) \in Int /\ Nth(i, 0) \in Int /\ Nth(i, 0) <= Nth(i, j)
         /\ Nth(i, j) < Nth(i, 0) + PUNTEROS_A_BLOQUES_DATOS
         /\ Nth(i + 1, 0) = Nth(i, 0) + PUNTEROS_A_BLOQUES_DATOS /\ 0 \in Cols
         /\ \A k \in Int : (Nth(k, 0) < Nth(i, 0) <=> k < i) /\ (Nth(k, 0) <= Nth(i, 0) <=> k <= i)
<1>1. PUNTEROS_A_BLOQUES_DATOS \in Nat \ {0} /\ j \in 0..(PUNTEROS_A_BLOQUES_DATOS - 1)
  BY Geometry DEF Cols
<1>2. Nth(i, j) \in Int /\ Nth(i, 0) \in Int /\ Nth(i, j) = Nth(i, 0) + j
  BY <1>1, NthIs, 0 \in Int DEF Nth
<1>3. Nth(i + 1, 0) = Nth(i, 0) + PUNTEROS_A_BLOQUES_DATOS
  <2>1. (i + 1) * PUNTEROS_A_BLOQUES_DATOS = i * PUNTEROS_A_BLOQUES_DATOS + PUNTEROS_A_BLOQUES_DATOS
    BY <1>1
  <2>2. i + 1 \in Int
    OBVIOUS
  <2> QED
    BY <1>1, <2>1, <2>2, NthIs
<1>4. ASSUME NEW k \in Int
      PROVE  (Nth(k, 0) < Nth(i, 0) <=> k < i) /\ (Nth(k, 0) <= Nth(i, 0) <=> k <= i)
  <2>1. Nth(k, 0) = k * PUNTEROS_A_BLOQUES_DATOS /\ Nth(i, 0) = i * PUNTEROS_A_BLOQUES_DATOS
    BY NthIs
  <2> QED
    BY <1>1, <2>1, ProductLess
<1> QED
  BY <1>1, <1>2, <1>3, <1>4 DEF Cols

LEMMA BooksOfAdded ==
  ASSUME TypeInv, LockInv, Exclusive, Requests, NEW cap, NEW own, Accounted(cap, own), NEW h \in Handlers,
         agregar_nodo(h)
  PROVE  Books'
<1>1. PICK n, s, i, j, b, blk, c :
        /\ n = local[h].node /\ s = Size(h) /\ i = PointerPos(s) /\ j = DataPos(s)
        /\ b = Indirect(n, i) /\ blk = local[h].blk /\ c = cap[n]
  OBVIOUS
<1>2. /\ pc[h] = "agregar" /\ s_tablaDeNodos = NONE /\ ~FileFull(s) /\ j # 0
      /\ punteros' = [punteros EXCEPT ![b][j] = blk]
      /\ AfterAgregar(h, TRUE) /\ UNCHANGED <<tablaDeNodos, bitmap, s_tablaDeNodos>>
  BY <1>1 DEF agregar_nodo, At, Size
<1>3. pc[h] \in BlockLabels /\ LeavesTable(h)
  BY <1>2 DEF BlockLabels, LeavesTable
<1>4. local[h].op # "mknod"
  BY <1>1, <1>2, <1>3, BlockWork, ZeroIs
<1>5. n \in Nodes /\ Held(n, c, own) /\ s <= c * BLOQUE_SIZE /\ Whole(s) /\ s > 0 /\ s \in Nat
  BY <1>1, <1>3, <1>4, BlockWork DEF Whole
<1>6. c \in Nat \ {0} /\ c < BLKINDIRECT * PUNTEROS_A_BLOQUES_DATOS
  BY <1>5 DEF Held
<1>7. PICK m \in Nat : m = Nth(i, j)
  BY <1>1, <1>5, PositionOf
<1>8. s = m * BLOQUE_SIZE /\ i \in Nat /\ j \in Cols /\ m <= c
  <2>1. s = m * BLOQUE_SIZE /\ i \in Nat /\ j \in Cols
    BY <1>1, <1>5, <1>7, WholeIs, PositionOf
  <2> QED
    BY <1>5, <1>6, <2>1, Geometry, ProductLess
<1>9. Nth(i, 0) < m /\ Nth(i, 0) \in Int /\ m < Nth(i, 0) + PUNTEROS_A_BLOQUES_DATOS
  BY <1>2, <1>7, <1>8, Geometry, NthIs, NthOrder DEF Nth, Cols
<1>10. i \in Rows /\ Nth(i, 0) < c
  BY <1>6, <1>8, <1>9, Geometry, NthOrder, NthInRows, 0 \in Int
<1>11. b # 0 /\ b \in bitmap /\ own[b] = RowOf(n, i)
  <2>1. b # 0
    BY <1>1, <1>5, <1>10 DEF Held, RowsSet
  <2>2. Nth(i, 0) < c + PUNTEROS_A_BLOQUES_DATOS
    BY <1>6, <1>9, <1>10, Geometry
  <2> QED
    BY <1>1, <1>5, <1>10, <2>1, <2>2 DEF Held, RowsHeld
<1>12. blk \in bitmap /\ own[blk] = HandOf(h)
  BY <1>1, <1>2 DEF Accounted, Carries
<1>13. bitmap \subseteq Blocks /\ punteros \in [Blocks -> [Cols -> Blocks \cup {-1, 0}]]
  BY DEF TypeInv, DiskOK, Cols
<1>14. PICK own2 : own2 = [x \in Blocks |-> IF x = blk THEN PlaceOf(n, i, j) ELSE own[x]]
  OBVIOUS
<1>15. own2[blk] = PlaceOf(n, i, j) /\ \A x \in bitmap \ {blk} : own2[x] = own[x]
  BY <1>12, <1>13, <1>14
<1>16. /\ \A x \in Blocks \ {b} : punteros'[x] = punteros[x]
       /\ punteros'[b][j] = blk /\ \A k \in Cols \ {j} : punteros'[b][k] = punteros[b][k]
  BY <1>2, <1>8, <1>11, <1>13
<1>17. Elsewhere(h, n, own, own2)
  <2>1. ASSUME NEW x \in bitmap, ~Mine(h, n, own[x])
        PROVE  BlockStays(x, own, own2)
    <3>1. x # b /\ x # blk
      BY <1>11, <1>12, <2>1 DEF Mine
    <3> QED
      BY <1>2, <1>13, <1>15, <1>16, <3>1 DEF BlockStays
  <2> QED
    BY <1>2, <2>1 DEF Elsewhere, NodeStays
<1>18. m + 1 < BLKINDIRECT * PUNTEROS_A_BLOQUES_DATOS
  <2>1. i # BLKINDIRECT - 1 \/ j # PUNTEROS_A_BLOQUES_DATOS - 1
    BY <1>1, <1>2 DEF FileFull
  <2> DEFINE k == BLKINDIRECT
             p == PUNTEROS_A_BLOQUES_DATOS
  <2>2. k \in Nat \ {0} /\ p \in Nat \ {0} /\ i \in Nat /\ i <= k - 1 /\ j \in 0..(p - 1) /\ m = i * p + j
    BY <1>7, <1>8, <1>10, Geometry DEF Rows, Cols, Nth
  <2>3. i # k - 1 \/ j # p - 1
    BY <2>1
  <2> HIDE DEF k, p
  <2>4. k * p = (k - 1) * p + p /\ k - 1 \in Int /\ i * p \in Int /\ (k - 1) * p \in Int
    BY <2>2
  <2>5. ASSUME i = k - 1
        PROVE  m + 1 < k * p
    BY <2>2, <2>3, <2>4, <2>5
  <2>6. ASSUME i < k - 1
        PROVE  m + 1 < k * p
    <3>1. (i + 1) * p <= (k - 1) * p /\ (i + 1) * p = i * p + p
      BY <2>2, <2>4, <2>6, ProductLess, i + 1 \in Int, i + 1 <= k - 1
    <3> QED
      BY <2>2, <2>4, <3>1
  <2>7. m + 1 < k * p
    BY <2>2, <2>5, <2>6
  <2> QED
    BY <2>7 DEF k, p
<1>19. Held(n, m + 1, own2)'
  <2>1. RowsSet(n, m + 1)'
    <3> SUFFICES ASSUME NEW k \in Rows, Nth(k, 0) < m + 1 PROVE Indirect(n, k) # 0
      BY <1>2 DEF RowsSet, Indirect
    <3>1. Nth(k, 0) \in Int /\ k \in Int
      BY NthIs DEF Rows
    <3>2. Nth(k, 0) # m
      BY <1>2, <1>7, <1>8, <3>1, NthUnique, NthOrder, i \in Int
    <3>3. Nth(k, 0) < c
      BY <1>6, <1>8, <3>1, <3>2
    <3> QED
      BY <1>5, <3>3 DEF Held, RowsSet
  <2>2. RowsHeld(n, m + 1, own2)'
    <3> SUFFICES ASSUME NEW k \in Rows, Nth(k, 0) < m + 1 + PUNTEROS_A_BLOQUES_DATOS, Indirect(n, k) # 0
                 PROVE  Indirect(n, k) \in bitmap /\ own2[Indirect(n, k)] = RowOf(n, k)
      BY <1>2 DEF RowsHeld, Indirect
    <3>1. k \in Int /\ k - 1 \in Int /\ i \in Int /\ 0 \in Cols /\ Nth(k, 0) \in Int /\ Nth(k - 1, 0) \in Int
          /\ Nth(k, 0) = Nth(k - 1, 0) + PUNTEROS_A_BLOQUES_DATOS
      <4>1. k \in Int /\ k - 1 \in Int /\ (k - 1) + 1 = k /\ 0 \in Cols
        BY Geometry DEF Rows, Cols
      <4> QED
        BY <1>8, <4>1, NthOrder
    <3>2. Nth(k - 1, 0) # m
      BY <1>2, <1>7, <1>8, <3>1, NthUnique
    <3>3. Nth(k, 0) < c + PUNTEROS_A_BLOQUES_DATOS
      BY <1>6, <1>8, <3>1, <3>2, Geometry
    <3>4. Indirect(n, k) \in bitmap /\ own[Indirect(n, k)] = RowOf(n, k)
      BY <1>5, <3>3 DEF Held, RowsHeld
    <3>5. Indirect(n, k) # blk
      BY <1>12, <3>4 DEF HandOf, RowOf
    <3> QED
      BY <1>15, <3>4, <3>5
  <2>3. DataHeld(n, m + 1, own2)'
    <3> SUFFICES ASSUME NEW k \in Rows, NEW e \in Cols, Nth(k, e) < m + 1
                 PROVE  Data(n, k, e)' \in bitmap /\ own2[Data(n, k, e)'] = PlaceOf(n, k, e)
      BY <1>2 DEF DataHeld
    <3>1. k \in Int /\ e \in Int /\ Nth(k, e) \in Int /\ Indirect(n, k)' = Indirect(n, k)
      BY <1>2, NthIs DEF Rows, Cols, Indirect
    <3>2. CASE Nth(k, e) = m
      <4>1. k = i /\ e = j
        BY <1>7, <1>8, <3>1, <3>2, NthUnique
      <4> QED
        BY <1>1, <1>12, <1>15, <1>16, <3>1, <4>1 DEF Data
    <3>3. CASE Nth(k, e) # m
      <4>1. Nth(k, e) < c
        BY <1>6, <1>8, <3>1, <3>3
      <4>2. Data(n, k, e) \in bitmap /\ own[Data(n, k, e)] = PlaceOf(n, k, e)
        BY <1>5, <4>1 DEF Held, DataHeld
      <4>3. Data(n, k, e) # blk
        BY <1>12, <4>2 DEF HandOf, PlaceOf
      <4>4. Nth(k, 0) < c
        BY <1>6, <3>1, <4>1, NthOrder
      <4>5. Indirect(n, k) # 0 /\ Indirect(n, k) \in bitmap /\ own[Indirect(n, k)] = RowOf(n, k)
        <5>1. Indirect(n, k) # 0
          BY <1>5, <4>4 DEF Held, RowsSet
        <5>2. Nth(k, 0) < c + PUNTEROS_A_BLOQUES_DATOS
          BY <1>6, <3>1, <4>4, NthOrder, Geometry
        <5> QED
          BY <1>5, <5>1, <5>2 DEF Held, RowsHeld
      <4>6. Data(n, k, e)' = Data(n, k, e)
        <5>1. CASE Indirect(n, k) = b
          <6>1. k = i
            BY <1>11, <4>5, <5>1 DEF RowOf
          <6>2. e # j
            BY <1>7, <3>3, <6>1
          <6> QED
            BY <1>16, <3>1, <5>1, <6>2 DEF Data
        <5>2. CASE Indirect(n, k) # b
          BY <1>13, <1>16, <3>1, <4>5, <5>2 DEF Data
        <5> QED
          BY <5>1, <5>2
      <4> QED
        BY <1>15, <4>2, <4>3, <4>6
    <3> QED
      BY <3>2, <3>3
  <2> QED
    BY <1>18, <2>1, <2>2, <2>3 DEF Held
<1>20. m + 1 \in Nat \ {0} /\ s + BLOQUE_SIZE <= (m + 1) * BLOQUE_SIZE
  BY <1>8, Geometry
<1>21. tablaDeNodos'[n].file_size = tablaDeNodos[n].file_size
  BY <1>2
<1> QED
  BY <1>1, <1>2, <1>3, <1>5, <1>17, <1>19, <1>20, <1>21, AddedBooks

LEMMA LinkedArray ==
  ASSUME TablaOK, NEW n \in Nodes, NEW i \in Int, NEW b, tablaDeNodos' = Linked(n, i, b)
  PROVE  /\ tablaDeNodos'[n].file_size = tablaDeNodos[n].file_size
         /\ \A k \in Rows : tablaDeNodos'[n].indirect[k] = IF k = i THEN b ELSE IF k = i + 1 THEN 0 ELSE tablaDeNodos[n].indirect[k]
         /\ \A m \in Nodes \ {n} : NodeStays(m)
<1> DEFINE array == [k \in DOMAIN tablaDeNodos[n].indirect |->
                       IF k = i THEN b ELSE IF k = i + 1 THEN 0 ELSE tablaDeNodos[n].indirect[k]]
           linked == [tablaDeNodos EXCEPT ![n].indirect = array]
<1>1. tablaDeNodos' = IF LastPointer(n, i)
                        THEN [linked EXCEPT ![n + 1].state = 0, ![n + 1].fname = NONE] ELSE linked
  BY DEF Linked
<1>2. DOMAIN tablaDeNodos = Nodes /\ tablaDeNodos[n] \in NodeType
  BY NodeOf DEF TablaOK
<1>3. \A k \in Rows : array[k] = IF k = i THEN b ELSE IF k = i + 1 THEN 0 ELSE tablaDeNodos[n].indirect[k]
  BY <1>2 DEF NodeType, Rows
<1> HIDE DEF array
<1>4. /\ DOMAIN linked = Nodes
      /\ linked[n].indirect = array /\ linked[n].file_size = tablaDeNodos[n].file_size
      /\ \A m \in Nodes \ {n} : linked[m] = tablaDeNodos[m]
  BY <1>2 DEF NodeType
<1>5. \A m \in Nodes : DOMAIN linked[m] = DOMAIN tablaDeNodos[m]
  BY <1>2
<1> HIDE DEF linked
<1>6. CASE LastPointer(n, i)
  <2>1. n + 1 \in Nodes /\ n + 1 # n
    BY <1>6, NodesAreNat DEF LastPointer
  <2>2. tablaDeNodos[n + 1] \in NodeType
    BY <2>1, NodeOf
  <2>3. /\ tablaDeNodos'[n + 1].indirect = tablaDeNodos[n + 1].indirect
        /\ tablaDeNodos'[n + 1].file_size = tablaDeNodos[n + 1].file_size
        /\ tablaDeNodos'[n + 1].state = 0
    BY <1>1, <1>4, <1>6, <2>1, <2>2 DEF NodeType
  <2>4. \A m \in Nodes \ {n + 1} : tablaDeNodos'[m] = linked[m]
    BY <1>1, <1>4, <1>6, <2>1
  <2>5. tablaDeNodos'[n] = linked[n]
    BY <2>1, <2>4
  <2>6. \A m \in Nodes \ {n} : NodeStays(m)
    BY <1>4, <2>3, <2>4 DEF NodeStays
  <2> QED
    BY <1>3, <1>4, <2>5, <2>6
<1>7. CASE ~LastPointer(n, i)
  BY <1>1, <1>3, <1>4, <1>7 DEF NodeStays
<1> QED
  BY <1>6, <1>7

LEMMA BooksOfRow ==
  ASSUME TypeInv, LockInv, Exclusive, Requests, NEW cap, NEW own, Accounted(cap, own), NEW h \in Handlers,
         BloqueDePunteros(h)
  PROVE  Books'
<1>1. PICK n, s, i, b, blk, c :
        /\ n = local[h].node /\ s = Size(h) /\ i = PointerPos(s)
        /\ b = Min(Free) /\ blk = local[h].blk /\ c = cap[n]
  OBVIOUS
<1>2. /\ pc[h] = "punteros" /\ Free # {} /\ bitmap' = bitmap \cup {b}
      /\ punteros' = [punteros EXCEPT ![b] = [j \in DOMAIN @ |-> IF j = 0 THEN blk ELSE 0]]
      /\ tablaDeNodos' = Linked(n, i, b) /\ s_tablaDeNodos' = NONE
      /\ AfterAgregar(h, TRUE)
  BY <1>1 DEF BloqueDePunteros, At, Size
<1>3. pc[h] \in BlockLabels
  BY <1>2 DEF BlockLabels
<1>4. LeavesTable(h)
  <2>1. s_tablaDeNodos = h
    BY <1>2 DEF LockInv, PlacesOK, Place
  <2> QED
    BY <2>1 DEF LeavesTable
<1>5. /\ n \in Nodes /\ s \in Nat /\ DataPos(s) = 0 /\ ~FileFull(s)
      /\ \/ local[h].op = "mknod" /\ s = 0
         \/ /\ Held(n, c, own) /\ s <= c * BLOQUE_SIZE /\ Whole(s) /\ s > 0
            /\ local[h].op # "mknod"
  <2>1. n \in Nodes
    BY <1>1, <1>3, BlockWork
  <2>2. Knows(h, c)
    BY <1>1, <2>1 DEF Accounted
  <2>3. DataPos(s) = 0 /\ ~FileFull(s)
    BY <1>1, <1>2, <2>2 DEF Knows, KnowsOf
  <2> QED
    BY <1>1, <1>3, <2>1, <2>3, BlockWork DEF Whole
<1>6. b \in Blocks /\ b \notin bitmap /\ b # 0
  BY <1>1, <1>2, FreeBlock, SacAssumption DEF SacAssumption
<1>7. blk \in bitmap /\ own[blk] = HandOf(h)
  BY <1>1, <1>2 DEF Accounted, Carries
<1>8. bitmap \subseteq Blocks /\ punteros \in [Blocks -> [Cols -> Blocks \cup {-1, 0}]] /\ TablaOK
  BY DEF TypeInv, DiskOK, Cols
<1>9. /\ i \in Nat /\ Nth(i, 0) \in Nat /\ s = Nth(i, 0) * BLOQUE_SIZE /\ 0 \in Cols
      /\ Nth(i, 0) = 0 \/ (Nth(i, 0) <= c /\ c \in Nat /\ c < BLKINDIRECT * PUNTEROS_A_BLOQUES_DATOS /\ Held(n, c, own))
  <2>1. i \in Nat /\ 0 \in Cols /\ Nth(i, 0) \in Nat
    BY <1>1, <1>5, PositionOf
  <2>2. CASE local[h].op = "mknod" /\ s = 0
    <3>1. i = 0 /\ Nth(i, 0) = 0 * PUNTEROS_A_BLOQUES_DATOS
      BY <1>1, <2>2, ZeroIs, NthIs, 0 \in Int
    <3> QED
      BY <2>1, <2>2, <3>1, Geometry
  <2>3. CASE Held(n, c, own) /\ s <= c * BLOQUE_SIZE /\ Whole(s) /\ s > 0
    <3>1. s = Nth(i, 0) * BLOQUE_SIZE
      BY <1>1, <1>5, <2>3, WholeIs
    <3>2. c \in Nat /\ c < BLKINDIRECT * PUNTEROS_A_BLOQUES_DATOS
      BY <2>3 DEF Held
    <3>3. Nth(i, 0) <= c
      BY <2>1, <2>3, <3>1, <3>2, Geometry, ProductLess
    <3> QED
      BY <2>1, <2>3, <3>1, <3>2, <3>3
  <2> QED
    BY <1>5, <2>2, <2>3
<1>10. PICK m \in Nat : m = Nth(i, 0)
  BY <1>9
<1>11. m + 1 < BLKINDIRECT * PUNTEROS_A_BLOQUES_DATOS /\ i \in Rows
  <2> DEFINE k == BLKINDIRECT
             p == PUNTEROS_A_BLOQUES_DATOS
  <2>1. k \in Nat \ {0} /\ p \in Nat \ {0} /\ k * p > 1 /\ m = i * p /\ i \in Nat
    BY <1>9, <1>10, Geometry, NthIs
  <2>2. i # k - 1 \/ p # 1
    BY <1>1, <1>5 DEF FileFull
  <2>3. m = 0 \/ m < k * p
    <3>1. k * p \in Int
      BY Geometry
    <3>2. m = 0 \/ (m <= c /\ c \in Nat /\ c < k * p)
      BY <1>9, <1>10
    <3> HIDE DEF k, p
    <3> QED
      BY <3>1, <3>2
  <2> HIDE DEF k, p
  <2>4. k * p = (k - 1) * p + p /\ k - 1 \in Int /\ i * p \in Int /\ (k - 1) * p \in Int /\ k * p \in Int
    BY <2>1
  <2>5. i <= k - 1
    <3>1. CASE m < k * p
      BY <2>1, <2>4, <3>1, ProductLess
    <3>2. CASE m = 0
      <4>1. i = 0
        BY <2>1, <3>2
      <4> QED
        BY <2>1, <4>1
    <3> QED
      BY <2>3, <3>1, <3>2
  <2>6. ASSUME i = k - 1
        PROVE  m + 1 < k * p
    <3>1. p > 1
      BY <2>1, <2>2, <2>6
    <3> QED
      BY <2>1, <2>4, <2>6, <3>1
  <2>7. ASSUME i < k - 1
        PROVE  m + 1 < k * p
    <3>1. (i + 1) * p <= (k - 1) * p /\ (i + 1) * p = i * p + p
      BY <2>1, <2>4, <2>7, ProductLess, i + 1 \in Int, i + 1 <= k - 1
    <3> QED
      BY <2>1, <2>4, <3>1
  <2>8. m + 1 < k * p /\ i \in 0..(k - 1)
    BY <2>1, <2>5, <2>6, <2>7
  <2> QED
    BY <2>8 DEF k, p, Rows
<1>12. PICK own2 : own2 = [x \in Blocks |-> IF x = blk THEN PlaceOf(n, i, 0) ELSE IF x = b THEN RowOf(n, i) ELSE own[x]]
  OBVIOUS
<1>13. /\ own2[blk] = PlaceOf(n, i, 0) /\ own2[b] = RowOf(n, i) /\ blk # b
       /\ \A x \in bitmap \ {blk} : own2[x] = own[x]
  BY <1>6, <1>7, <1>8, <1>12
<1>14. /\ \A x \in bitmap : punteros'[x] = punteros[x]
       /\ punteros'[b][0] = blk
  BY <1>2, <1>6, <1>8, <1>9
<1>15. /\ tablaDeNodos'[n].file_size = tablaDeNodos[n].file_size
       /\ \A k \in Rows : Indirect(n, k)' = IF k = i THEN b ELSE IF k = i + 1 THEN 0 ELSE Indirect(n, k)
       /\ \A x \in Nodes \ {n} : NodeStays(x)
  BY <1>2, <1>5, <1>8, <1>9, LinkedArray DEF Indirect
<1>16. Elsewhere(h, n, own, own2)
  <2>1. ASSUME NEW x \in bitmap, ~Mine(h, n, own[x])
        PROVE  BlockStays(x, own, own2)
    <3>1. x # blk
      BY <1>7, <2>1 DEF Mine
    <3> QED
      BY <1>2, <1>13, <1>14, <3>1 DEF BlockStays
  <2> QED
    BY <1>15, <2>1 DEF Elsewhere
\* The places below the new one are those of a file that has its blocks.
<1>17. ASSUME NEW k \in Rows, k < i
       PROVE  /\ Held(n, c, own) /\ Nth(k, 0) < c /\ Indirect(n, k) # 0 /\ Indirect(n, k) \in bitmap
              /\ own[Indirect(n, k)] = RowOf(n, k) /\ Indirect(n, k)' = Indirect(n, k)
              /\ \A e \in Cols : Nth(k, e) < c
  <2>1. k \in Int /\ i \in Int /\ Nth(k, 0) \in Int /\ Nth(k, 0) < m /\ m # 0
    <3>1. k \in Nat /\ i \in Int /\ Nth(k, 0) = k * PUNTEROS_A_BLOQUES_DATOS
      BY <1>9, NthIs DEF Rows
    <3>2. Nth(k, 0) \in Nat
      BY <3>1, Geometry
    <3>3. Nth(k, 0) < Nth(i, 0)
      BY <1>9, <1>17, <3>1, NthOrder
    <3> QED
      BY <1>10, <3>1, <3>2, <3>3
  <2>2. m <= c /\ c \in Nat /\ Held(n, c, own)
    BY <1>9, <1>10, <2>1
  <2>3. Nth(k, 0) < c
    BY <2>1, <2>2
  <2>4. Indirect(n, k) # 0
    BY <2>2, <2>3 DEF Held, RowsSet
  <2>5. Indirect(n, k) \in bitmap /\ own[Indirect(n, k)] = RowOf(n, k)
    <3>1. Nth(k, 0) < c + PUNTEROS_A_BLOQUES_DATOS
      BY <2>1, <2>2, <2>3, Geometry
    <3> QED
      BY <2>2, <2>4, <3>1 DEF Held, RowsHeld
  <2>6. ASSUME NEW e \in Cols
        PROVE  Nth(k, e) < c
    <3>1. Nth(k, e) < Nth(k + 1, 0) /\ Nth(k, e) \in Int
      BY <2>1, NthOrder
    <3>2. k + 1 \in Int /\ Nth(k + 1, 0) <= Nth(i, 0) /\ Nth(k + 1, 0) \in Int
      BY <1>9, <1>17, <2>1, NthOrder, NthIs, 0 \in Int, k + 1 \in Int, k + 1 <= i
    <3> QED
      BY <1>10, <2>2, <3>1, <3>2
  <2>7. Indirect(n, k)' = Indirect(n, k)
    BY <1>15, <1>17, <2>1
  <2> QED
    BY <2>2, <2>3, <2>4, <2>5, <2>6, <2>7
<1>18. ASSUME NEW k \in Rows, NEW e \in Cols, Nth(k, e) < m + 1
       PROVE  k < i \/ (k = i /\ e = 0)
  <2>1. k \in Int /\ i \in Int /\ Nth(k, e) \in Int /\ Nth(k, 0) \in Int /\ Nth(k, 0) <= Nth(k, e)
    BY <1>9, NthOrder DEF Rows
  <2>2. Nth(k, 0) <= Nth(i, 0)
    BY <1>10, <1>18, <2>1
  <2>3. k <= i
    BY <1>9, <2>1, <2>2, NthOrder
  <2>4. ASSUME k = i
        PROVE  e = 0
    <3>1. Nth(i, e) = Nth(i, 0) + e /\ e \in 0..(PUNTEROS_A_BLOQUES_DATOS - 1)
      BY <2>1, Geometry DEF Nth, Cols
    <3> QED
      BY <1>10, <1>18, <2>1, <2>4, <3>1, Geometry
  <2> QED
    BY <2>1, <2>3, <2>4
<1>19. Held(n, m + 1, own2)'
  <2>1. RowsSet(n, m + 1)'
    <3> SUFFICES ASSUME NEW k \in Rows, Nth(k, 0) < m + 1 PROVE Indirect(n, k)' # 0
      BY DEF RowsSet
    <3>1. k < i \/ k = i
      BY <1>9, <1>18
    <3> QED
      BY <1>6, <1>15, <1>17, <3>1
  <2>2. RowsHeld(n, m + 1, own2)'
    <3> SUFFICES ASSUME NEW k \in Rows, Nth(k, 0) < m + 1 + PUNTEROS_A_BLOQUES_DATOS, Indirect(n, k)' # 0
                 PROVE  Indirect(n, k)' \in bitmap' /\ own2[Indirect(n, k)'] = RowOf(n, k)
      BY DEF RowsHeld
    <3>1. k \in Int /\ i \in Int /\ i + 2 \in Int /\ Nth(k, 0) \in Int
      BY <1>9, NthIs DEF Rows
    <3>2. Nth(i + 2, 0) = m + PUNTEROS_A_BLOQUES_DATOS + PUNTEROS_A_BLOQUES_DATOS
      <4>1. Nth(i + 1, 0) = m + PUNTEROS_A_BLOQUES_DATOS
        BY <1>9, <1>10, <3>1, NthOrder
      <4>2. i + 1 \in Int /\ (i + 1) + 1 = i + 2
        BY <3>1
      <4> QED
        BY <1>9, <4>1, <4>2, NthOrder
    <3>3. Nth(k, 0) < Nth(i + 2, 0)
      BY <3>1, <3>2, Geometry
    <3>4. k < i + 2
      BY <1>9, <3>1, <3>3, NthOrder
    <3>5. k # i + 1
      BY <1>15, <3>1
    <3>6. CASE k = i
      BY <1>2, <1>13, <1>15, <3>6
    <3>7. CASE k < i
      <4>1. Indirect(n, k) # blk
        BY <1>7, <1>17, <3>7 DEF HandOf, RowOf
      <4> QED
        BY <1>2, <1>13, <1>17, <3>7, <4>1
    <3> QED
      BY <3>1, <3>4, <3>5, <3>6, <3>7
  <2>3. DataHeld(n, m + 1, own2)'
    <3> SUFFICES ASSUME NEW k \in Rows, NEW e \in Cols, Nth(k, e) < m + 1
                 PROVE  Data(n, k, e)' \in bitmap' /\ own2[Data(n, k, e)'] = PlaceOf(n, k, e)
      BY DEF DataHeld
    <3>1. CASE k = i /\ e = 0
      BY <1>2, <1>7, <1>13, <1>14, <1>15, <3>1 DEF Data
    <3>2. CASE k < i
      <4>1. Data(n, k, e)' = Data(n, k, e)
        BY <1>14, <1>17, <3>2 DEF Data
      <4>2. Data(n, k, e) \in bitmap /\ own[Data(n, k, e)] = PlaceOf(n, k, e)
        BY <1>17, <3>2 DEF Held, DataHeld
      <4>3. Data(n, k, e) # blk
        BY <1>7, <4>2 DEF HandOf, PlaceOf
      <4> QED
        BY <1>2, <1>13, <4>1, <4>2, <4>3
    <3> QED
      BY <1>18, <3>1, <3>2
  <2> QED
    BY <1>11, <2>1, <2>2, <2>3 DEF Held
<1>20. m + 1 \in Nat \ {0} /\ s + BLOQUE_SIZE <= (m + 1) * BLOQUE_SIZE
  <2>1. s = m * BLOQUE_SIZE
    BY <1>9, <1>10
  <2> QED
    BY <2>1, Geometry
<1> QED
  BY <1>1, <1>2, <1>3, <1>4, <1>5, <1>15, <1>16, <1>19, <1>20, AddedBooks

(***************************************************************************)
(* unlink and rmdir.                                                       *)
(***************************************************************************)
LEMMA DeletedStays ==
  ASSUME TablaOK, NEW n \in Nodes, tablaDeNodos' = Deleted(n)
  PROVE  tablaDeNodos'[n].state = 0 /\ \A m \in Nodes \ {n} : NodeStays(m)
BY DEF TablaOK, NodeType, Deleted, NodeStays

\* The handler leaves a node that is out of use from there on.
LEMMA OutOfUse ==
  ASSUME TypeInv, LockInv, Exclusive, Requests, NEW cap, NEW own, Accounted(cap, own),
         NEW h \in Handlers, NEW l, NEW r, Goto(h, l, r), LeavesTable(h), NEW n \in Nodes,
         local[h].node \in {n, -1}, r.node = -1, RequestOK(l, r), l \notin {"agregar", "punteros"},
         \A g \in Handlers \ {h} : local[g].node # n,
         tablaDeNodos' = Deleted(n), UNCHANGED <<punteros, bitmap>>
  PROVE  Books'
<1>0. -1 \notin Nodes /\ TablaOK
  BY NodesAreNat DEF TypeInv
<1>1. pc'[h] = l /\ local'[h] = r /\ OthersStay(h)
  BY GoesTo
<1>2. Comes(h, r)
  BY <1>0 DEF Comes
<1>3. Exclusive' /\ Requests'
  BY <1>2, ComesExclusive
<1>4. tablaDeNodos'[n].state = 0 /\ \A m \in Nodes \ {n} : NodeStays(m)
  BY <1>0, DeletedStays
<1>5. ~InUse(n)'
  BY <1>0, <1>1, <1>4 DEF InUse, OthersStay
<1>6. Elsewhere(h, n, own, own)
  BY <1>4 DEF Elsewhere, BlockStays
<1>7. Carries(h, own)'
  BY <1>1 DEF Carries
<1>8. local'[h].node = -1
  BY <1>1
<1>9. Accounted(cap, own)'
  BY <1>0, <1>1, <1>5, <1>6, <1>7, <1>8, StepKeepsAccounts DEF LeavesTable
<1> QED
  BY <1>3, <1>9 DEF Books

LEMMA ContinueGoes ==
  ASSUME TypeInv, NEW h \in Handlers, NEW w, Continue(h, w), local[h].op \in {"unlink", "rmdir"}
  PROVE  \E l, r : Goto(h, l, r) /\ r.node = -1 /\ RequestOK(l, r) /\ l \notin {"agregar", "punteros"}
<1> DEFINE q == [local[h] EXCEPT !.node = -1, !.walk = w]
<1>1. local[h] \in LocalType
  BY OfHandler
<1>2. q.node = -1 /\ q.op = local[h].op
  BY <1>1 DEF LocalType
<1> HIDE DEF q
<1>3. RequestOK("recorrer", q)
  BY <1>2 DEF RequestOK, FirstLabels
<1>4. CASE Answer(h)
  <2>1. Goto(h, "idle", Idle)
    BY <1>4 DEF Answer
  <2> QED
    BY <2>1, IdleRequest
<1>5. CASE Goto(h, "recorrer", q)
  BY <1>2, <1>3, <1>5
<1> QED
  BY <1>4, <1>5 DEF Continue, q

LEMMA BorrarBooks ==
  ASSUME TypeInv, LockInv, Exclusive, Requests, NEW cap, NEW own, Accounted(cap, own), NEW h \in Handlers,
         NEW n \in Nodes \cup {-1}, NEW w, Borrar(h, n, w), ~Shares(h, n), n \in Nodes => tablaDeNodos[n].state # 0,
         UNCHANGED <<punteros, bitmap, s_tablaDeNodos>>,
         local[h].node = -1, local[h].op \in {"unlink", "rmdir"}, pc[h] \notin {"tamano", "marcar"}
  PROVE  Books'
<1>0. n \in Nodes /\ n # -1 /\ -1 \notin Nodes
  BY SharesNot, NodesAreNat
<1>1. \A g \in Handlers \ {h} : local[g].node # n
  BY <1>0, SharesNot
<1>2. LeavesTable(h)
  BY DEF LeavesTable
<1>3. CASE tablaDeNodos[n].state = 2
  <2>1. Continue(h, w) /\ tablaDeNodos' = Deleted(n)
    BY <1>0, <1>3 DEF Borrar
  <2>2. PICK l, r : Goto(h, l, r) /\ r.node = -1 /\ RequestOK(l, r) /\ l \notin {"agregar", "punteros"}
    BY <2>1, ContinueGoes
  <2> QED
    BY <1>0, <1>1, <1>2, <2>1, <2>2, OutOfUse
<1>4. CASE tablaDeNodos[n].state # 2
  <2> DEFINE q == [local[h] EXCEPT !.node = n, !.size = tablaDeNodos[n].file_size, !.walk = w]
  <2>1. PICK l \in {"borrar", "marcar"} : Goto(h, l, q)
    BY <1>0, <1>4 DEF Borrar
  <2>2. UNCHANGED disk
    BY <1>0, <1>4 DEF Borrar, disk
  <2>3. q.node = n /\ q.op = local[h].op /\ q.size = tablaDeNodos[n].file_size
    BY OfHandler DEF LocalType
  <2> HIDE DEF q
  <2>4. tablaDeNodos[n].state = 1
    BY <1>0, <1>4, NodeOf DEF TypeInv
  <2>5. RequestOK(l, q)
    BY <2>3 DEF RequestOK, FirstLabels
  <2>6. Comes(h, q)
    BY <1>1, <2>3 DEF Comes
  <2>7. FindsInUse(h, n, l, q)
    BY <1>0, <2>4 DEF FindsInUse
  <2>8. KnowsAt(h, n, l, q, tablaDeNodos[n].file_size, cap[n])
    BY <2>3 DEF KnowsAt, KnowsOf, WritingAt, BlockLabels
  <2> QED
    BY <1>0, <1>2, <2>1, <2>2, <2>3, <2>5, <2>6, <2>7, <2>8, SilentStep
<1> QED
  BY <1>3, <1>4

LEMMA UnlinkBooks ==
  ASSUME TypeInv, LockInv, Exclusive, Requests, NEW cap, NEW own, Accounted(cap, own), NEW h \in Handlers,
         sac_server_unlink(h) \/ sac_server_rmdir(h), ~raced'
  PROVE  Books'
<1> DEFINE n == determine_nodo(local[h].path)
<1>1. PICK w : /\ pc[h] \in {"unlink", "rmdir"} /\ Borrar(h, n, w) /\ ~Shares(h, n)
               /\ UNCHANGED <<punteros, bitmap, s_tablaDeNodos>>
  BY DEF sac_server_unlink, sac_server_rmdir, At, Meets, locks
<1>2. /\ local[h].path \in Paths /\ local[h].op \in {"unlink", "rmdir"} /\ local[h].node = -1
  BY <1>1, OfHandler DEF LocalOK, Requests, RequestOK, FirstLabels
<1>3. n \in Nodes \cup {-1}
  BY <1>2, DeterminedInt
<1>4. n \in Nodes => tablaDeNodos[n].state # 0
  <2>1. determine_nodo(local[h].path) = -1 \/ Live(determine_nodo(local[h].path))
    BY <1>2, PathsAre, Determined
  <2> QED
    BY <2>1, NodesAreNat DEF Live
<1> HIDE DEF n
<1>5. pc[h] \notin {"tamano", "marcar"}
  BY <1>1
<1> QED
  BY <1>1, <1>2, <1>3, <1>4, <1>5, BorrarBooks

LEMMA WalkBooks ==
  ASSUME TypeInv, LockInv, Exclusive, Requests, NEW cap, NEW own, Accounted(cap, own), NEW h \in Handlers,
         borrar_directorio(h), ~raced'
  PROVE  Books'
<1> DEFINE w == local[h].walk
           top == Last(w)
           n == Min(Inside(top))
<1>1. /\ pc[h] = "recorrer" /\ UNCHANGED <<punteros, bitmap, s_tablaDeNodos>>
      /\ IF Inside(top) = {} THEN Continue(h, Front(w)) /\ UNCHANGED tablaDeNodos
         ELSE ~Shares(h, n) /\ \E x : Borrar(h, n, x)
  BY DEF borrar_directorio, At, locks
<1>2. local[h].op = "rmdir" /\ local[h].node = -1
  BY <1>1, OfHandler DEF LocalOK
<1>3. CASE Inside(top) = {}
  <2>1. PICK l, r : Goto(h, l, r) /\ r.node = -1 /\ RequestOK(l, r) /\ l \notin {"agregar", "punteros"}
    BY <1>1, <1>2, <1>3, ContinueGoes
  <2>2. FilesStay(own, own) /\ LeavesTable(h)
    BY <1>1, <1>3, DiskStays DEF disk, LeavesTable
  <2> QED
    BY <1>1, <1>2, <2>1, <2>2, LeaveStep
<1>4. CASE Inside(top) # {}
  <2>1. n \in Nodes /\ n \in Inside(top)
    BY <1>4, InsideMin
  <2>2. tablaDeNodos[n].state # 0
    BY <2>1 DEF Inside, sac_server_readdir
  <2>3. PICK x : Borrar(h, n, x) /\ ~Shares(h, n)
    BY <1>1, <1>4
  <2> HIDE DEF n
  <2> QED
    BY <1>1, <1>2, <2>1, <2>2, <2>3, BorrarBooks
<1> QED
  BY <1>3, <1>4

LEMMA DeleteWork ==
  ASSUME TypeInv, Exclusive, NEW h \in Handlers, pc[h] \in {"borrar", "marcar"}
  PROVE  /\ local[h].node \in Nodes /\ local[h].op \in {"unlink", "rmdir"}
         /\ \A g \in Handlers \ {h} : local[g].node # local[h].node
<1>1. local[h].node \in Nodes /\ local[h].op \in {"unlink", "rmdir"}
  BY OfHandler DEF LocalOK
<1> QED
  BY <1>1 DEF Exclusive

LEMMA FileBooks ==
  ASSUME TypeInv, LockInv, Exclusive, Requests, NEW cap, NEW own, Accounted(cap, own), NEW h \in Handlers,
         borrar_archivo(h)
  PROVE  Books'
<1>1. PICK n : n = local[h].node
  OBVIOUS
<1>2. /\ pc[h] = "marcar" /\ tablaDeNodos' = Deleted(n) /\ Continue(h, local[h].walk)
      /\ UNCHANGED <<punteros, bitmap, s_tablaDeNodos>>
  BY <1>1 DEF borrar_archivo, At, locks
<1>3. /\ n \in Nodes /\ local[h].op \in {"unlink", "rmdir"}
      /\ \A g \in Handlers \ {h} : local[g].node # n
  BY <1>1, <1>2, DeleteWork
<1>4. PICK l, r : Goto(h, l, r) /\ r.node = -1 /\ RequestOK(l, r) /\ l \notin {"agregar", "punteros"}
  BY <1>2, <1>3, ContinueGoes
<1>5. LeavesTable(h)
  BY <1>2 DEF LeavesTable
<1> QED
  BY <1>1, <1>2, <1>3, <1>4, <1>5, OutOfUse

\* What borrar_contenido frees are places of the file.
LEMMA FreedMine ==
  ASSUME TypeInv, NEW h, NEW n \in Nodes, NEW c, NEW own, Held(n, c, own), NEW s \in Nat, s <= c * BLOQUE_SIZE,
         NEW b \in bitmap, b \in BlocksFreed(n, s)
  PROVE  Mine(h, n, own[b])
<1>1. c \in Nat \ {0} /\ c < BLKINDIRECT * PUNTEROS_A_BLOQUES_DATOS
  BY DEF Held
<1>2. b # 0
  BY SacAssumption DEF TypeInv, DiskOK, SacAssumption
<1>3. CASE \E x \in DataOf(s) : b = punteros[Indirect(n, x[1])][x[2]]
  <2>1. PICK k \in 0..(CeilDiv(s, BLOQUE_SIZE) - 1) :
          b = punteros[Indirect(n, k \div PUNTEROS_A_BLOQUES_DATOS)][k % PUNTEROS_A_BLOQUES_DATOS]
    BY <1>3 DEF DataOf
  <2>2. PICK i, j : i = k \div PUNTEROS_A_BLOQUES_DATOS /\ j = k % PUNTEROS_A_BLOQUES_DATOS
    OBVIOUS
  <2>3. k \in Nat /\ CeilDiv(s, BLOQUE_SIZE) \in Nat /\ CeilDiv(s, BLOQUE_SIZE) <= c
    BY <1>1, CeilIs, CeilFits
  <2>4. k < c
    BY <1>1, <2>3
  <2>5. i \in Nat /\ j \in Cols /\ k = Nth(i, j)
    BY <2>2, <2>3, Division, Geometry DEF Cols, Nth
  <2>6. i \in Rows
    <3>1. c <= BLKINDIRECT * PUNTEROS_A_BLOQUES_DATOS /\ Nth(i, j) < c /\ c \in Nat
      BY <1>1, <2>4, <2>5, Geometry
    <3> QED
      BY <2>5, <3>1, NthInRows
  <2>7. own[b] = PlaceOf(n, i, j)
    BY <2>1, <2>2, <2>4, <2>5, <2>6 DEF Held, DataHeld, Data
  <2> QED
    BY <2>7 DEF Mine
<1>4. CASE \E i \in PointersOf(s) : i < BLKINDIRECT /\ b = Indirect(n, i)
  <2>1. PICK i \in 0..PointerPos(s) : i < BLKINDIRECT /\ b = Indirect(n, i)
    BY <1>4 DEF PointersOf
  <2>2. PICK p, d : p = PointerPos(s) /\ d = DataPos(s)
    OBVIOUS
  <2>3. p \in Nat /\ d \in Cols /\ Nth(p, d) \in Nat /\ Nth(p, d) * BLOQUE_SIZE <= s
    BY <2>2, PositionOf
  <2>4. i \in Nat /\ i <= p
    BY <2>1, <2>2, <2>3
  <2>5. Nth(i, 0) <= Nth(p, 0) /\ Nth(p, 0) <= Nth(p, d) /\ Nth(i, 0) \in Int /\ Nth(p, 0) \in Int /\ Nth(p, d) \in Int
    BY <2>3, <2>4, NthOrder, NthIs, 0 \in Int
  <2>6. Nth(p, d) <= c
    <3>1. Nth(p, d) * BLOQUE_SIZE <= c * BLOQUE_SIZE
      <4>1. c * BLOQUE_SIZE \in Int /\ Nth(p, d) * BLOQUE_SIZE \in Int
        BY <1>1, <2>3, Geometry
      <4> QED
        BY <2>3, <4>1
    <3> QED
      BY <1>1, <2>3, <3>1, Geometry, ProductLess
  <2>7. Nth(i, 0) < c + PUNTEROS_A_BLOQUES_DATOS
    BY <1>1, <2>5, <2>6, Geometry
  <2>8. i \in Rows
    BY <2>1, <2>4, Geometry DEF Rows
  <2>9. own[b] = RowOf(n, i)
    BY <1>2, <2>1, <2>7, <2>8 DEF Held, RowsHeld
  <2> QED
    BY <2>9 DEF Mine
<1> QED
  BY <1>3, <1>4 DEF BlocksFreed

LEMMA ContentsBooks ==
  ASSUME TypeInv, LockInv, Exclusive, Requests, NEW cap, NEW own, Accounted(cap, own), NEW h \in Handlers,
         borrar_contenido(h)
  PROVE  Books'
<1>1. PICK n, s : n = local[h].node /\ s = local[h].size
  OBVIOUS
<1>2. /\ pc[h] = "borrar" /\ bitmap' = bitmap \ BlocksFreed(n, s) /\ Goto(h, "marcar", local[h])
      /\ UNCHANGED <<tablaDeNodos, punteros, s_tablaDeNodos>>
  BY <1>1 DEF borrar_contenido, At, locks
<1>3. /\ n \in Nodes /\ local[h].op \in {"unlink", "rmdir"}
      /\ \A g \in Handlers \ {h} : local[g].node # n
  BY <1>1, <1>2, DeleteWork
<1>4. Held(n, cap[n], own) /\ Fits(n, cap[n])
  <2>1. local[h].op \in WorkOps
    BY <1>3 DEF WorkOps
  <2>2. InUse(n)
    BY <1>1, <1>2, <1>3, <2>1, WorkerUses
  <2> QED
    BY <1>3, <2>2 DEF Accounted
<1>5. s = Size(h) /\ s \in Nat /\ s <= cap[n] * BLOQUE_SIZE
  <2>1. s = Size(h)
    BY <1>1, <1>2, <1>3 DEF Accounted, Knows, KnowsOf
  <2> QED
    BY <1>1, <1>2, <1>3, <1>4, <2>1, FullSize
<1>6. pc'[h] = "marcar" /\ local'[h] = local[h] /\ OthersStay(h)
  BY <1>2, GoesTo
<1>7. RequestOK("marcar", local[h])
  BY <1>1, <1>3 DEF RequestOK, FirstLabels
<1>8. Exclusive' /\ Requests'
  BY <1>2, <1>7, ComesExclusive DEF Comes
<1>9. ~InUse(n)'
  BY <1>1, <1>6 DEF InUse, Unfinished
<1>10. Elsewhere(h, n, own, own)
  <2>1. ASSUME NEW b \in bitmap, ~Mine(h, n, own[b])
        PROVE  BlockStays(b, own, own)
    <3>1. b \notin BlocksFreed(n, s)
      BY <1>3, <1>4, <1>5, <2>1, FreedMine
    <3> QED
      BY <1>2, <3>1 DEF BlockStays
  <2> QED
    BY <1>2, <2>1 DEF Elsewhere, NodeStays
<1>11. Carries(h, own)'
  BY <1>6 DEF Carries
<1>12. Knows(h, cap[n])'
  BY <1>3, <1>6 DEF Knows, KnowsOf, WritingAt, BlockLabels
<1>13. local[h].node \in {n, -1} /\ local'[h].node \in {n, -1}
  BY <1>1, <1>6
<1>14. Accounted(cap, own)'
  BY <1>2, <1>3, <1>6, <1>9, <1>10, <1>11, <1>12, <1>13, StepKeepsAccounts
<1> QED
  BY <1>8, <1>14 DEF Books

(***************************************************************************)
(* rename.                                                                 *)
(***************************************************************************)
LEMMA RenameBooks ==
  ASSUME TypeInv, Exclusive, Requests, NEW cap, NEW own, Accounted(cap, own), NEW h \in Handlers,
         sac_server_rename(h), ~raced'
  PROVE  Books'
<1> DEFINE n == determine_nodo(local[h].path)
           q == [local[h] EXCEPT !.node = n, !.parent = determine_nodo(Front(local[h].nuevo))]
<1>1. /\ pc[h] = "rename" /\ ~Shares(h, n) /\ UNCHANGED <<disk, s_tablaDeNodos>>
      /\ Answer(h) \/ Goto(h, "renombrar", q)
  BY DEF sac_server_rename, At, locks
<1>2. local[h].path \in Paths /\ local[h].op = "rename" /\ local[h].node = -1
  BY <1>1, OfHandler DEF LocalOK, Requests, RequestOK, FirstLabels
<1>3. n \in Nodes \cup {-1}
  BY <1>2, DeterminedInt
<1>4. LeavesTable(h) /\ UNCHANGED disk
  BY <1>1 DEF LeavesTable
<1>5. CASE Answer(h)
  BY <1>1, <1>2, <1>4, <1>5, AnswerStep
<1>6. CASE Goto(h, "renombrar", q)
  <2>1. q.node = n /\ q.op = "rename" /\ q.mutex = local[h].mutex
    BY <1>2, OfHandler DEF LocalType
  <2> HIDE DEF q, n
  <2>2. n \in Nodes /\ \A g \in Handlers \ {h} : local[g].node # n
    BY <1>1, <1>2, <1>3, SharesNot
  <2>3. RequestOK("renombrar", q)
    BY <2>1, <2>2 DEF RequestOK, FirstLabels
  <2>4. Comes(h, q)
    BY <2>1, <2>2 DEF Comes
  <2>5. FindsInUse(h, n, "renombrar", q)
    BY <1>2, <2>1, <2>2, NodesAreNat DEF FindsInUse, WorkOps
  <2>6. KnowsAt(h, n, "renombrar", q, tablaDeNodos[n].file_size, cap[n])
    BY DEF KnowsAt, KnowsOf, WritingAt, BlockLabels
  <2> QED
    BY <1>1, <1>2, <1>4, <1>6, <2>1, <2>2, <2>3, <2>4, <2>5, <2>6, SilentStep
<1> QED
  BY <1>1, <1>5, <1>6

LEMMA RenamedBooks ==
  ASSUME TypeInv, Exclusive, Requests, NEW cap, NEW own, Accounted(cap, own), NEW h \in Handlers,
         renombrar_archivo(h)
  PROVE  Books'
<1>1. PICK n, name, parent :
        /\ n = local[h].node
        /\ pc[h] = "renombrar" /\ s_tablaDeNodos' = s_tablaDeNodos /\ UNCHANGED <<punteros, bitmap>>
        /\ tablaDeNodos' = [tablaDeNodos EXCEPT ![n].fname = name, ![n].parent = parent]
        /\ Answer(h)
  BY DEF renombrar_archivo, At, locks
<1>2. n \in Nodes /\ local[h].op = "rename"
  BY <1>1, OfHandler DEF LocalOK, Requests, RequestOK
<1>3. \A m \in Nodes : NodeStays(m)
  BY <1>1, <1>2 DEF TypeInv, TablaOK, NodeType, NodeStays
<1>4. FilesStay(own, own) /\ LeavesTable(h)
  BY <1>1, <1>3 DEF FilesStay, BlockStays, LeavesTable
<1>5. Goto(h, "idle", Idle)
  BY <1>1 DEF Answer
<1> QED
  BY <1>1, <1>2, <1>4, <1>5, IdleRequest, LeaveStep

(***************************************************************************)
(* truncate.                                                               *)
(***************************************************************************)
LEMMA ArrivesAlone ==
  ASSUME TypeInv, Requests, NEW h \in Handlers, NEW n, n = determine_nodo(local[h].path), local[h].path \in Paths,
         local[h].op \in {"truncate", "write"}, ~Shares(h, n), ~Moved(h, n)
  PROVE  /\ n \in Nodes /\ tablaDeNodos[n].state = 1
         /\ \A g \in Handlers \ {h} : local[g].node = n =>
              /\ local[g].op = "write" /\ local[h].op = "write" /\ local[h].path \in DOMAIN diccionarioDeMutex
              /\ local[g].mutex = diccionarioDeMutex[local[h].path]
<1>1. IsFile(local[h].path)
  BY DEF Moved, Still
<1>2. n \in Nodes /\ tablaDeNodos[n].state = 1
  BY <1>1, FileIs
<1> QED
  BY <1>2, SharesNot

LEMMA TruncateBooks ==
  ASSUME TypeInv, Exclusive, Requests, NEW cap, NEW own, Accounted(cap, own), NEW h \in Handlers,
         sac_server_truncate(h), ~raced'
  PROVE  Books'
<1>1. PICK n, s : n = determine_nodo(local[h].path) /\ s = tablaDeNodos[n].file_size
  OBVIOUS
<1> DEFINE p == [local[h] EXCEPT !.node = n]
           q == [p EXCEPT !.size = p.target - s]
<1>2. /\ pc[h] = "truncar" /\ ~Shares(h, n) /\ ~Moved(h, n) /\ UNCHANGED <<disk, s_tablaDeNodos>>
      /\ n # -1 => IF local[h].target > s THEN Goto(h, "espacio", q) ELSE Goto(h, "acortar", p)
  BY <1>1 DEF sac_server_truncate, Meets, At, locks
<1>3. /\ local[h].path \in Paths /\ local[h].op = "truncate" /\ local[h].node = -1
      /\ local[h] \in LocalType /\ local[h].target \in Nat
  BY <1>2, OfHandler DEF LocalOK, Requests, RequestOK, FirstLabels, TruncateLabels
<1>4. /\ n \in Nodes /\ n # -1 /\ tablaDeNodos[n].state = 1 /\ s \in Int
      /\ \A g \in Handlers \ {h} : local[g].node # n
  <2>1. n \in Nodes /\ tablaDeNodos[n].state = 1 /\ \A g \in Handlers \ {h} : local[g].node # n
    BY <1>1, <1>2, <1>3, ArrivesAlone
  <2> QED
    BY <1>1, <2>1, NodesAreNat, NodeOf DEF TypeInv
<1>5. /\ p.node = n /\ p.op = "truncate" /\ p.mutex = local[h].mutex /\ p.target = local[h].target
      /\ q.node = n /\ q.op = "truncate" /\ q.mutex = local[h].mutex /\ q.target = local[h].target
      /\ q.size = local[h].target - s
  BY <1>3 DEF LocalType
<1> HIDE DEF p, q
<1>6. PICK l, r : /\ Goto(h, l, r) /\ r.node = n /\ r.op = "truncate" /\ r.target = local[h].target
                  /\ KnowsOf(l, r, s, cap[n]) /\ l \in {"espacio", "acortar"}
  <2>1. CASE local[h].target > s
    <3>1. KnowsOf("espacio", q, s, cap[n])
      BY <1>3, <1>4, <1>5, <2>1 DEF KnowsOf, WritingAt, BlockLabels
    <3> QED
      BY <1>2, <1>4, <1>5, <2>1, <3>1
  <2>2. CASE ~(local[h].target > s)
    <3>1. KnowsOf("acortar", p, s, cap[n])
      BY <1>3, <1>4, <1>5, <2>2 DEF KnowsOf, WritingAt, BlockLabels
    <3> QED
      BY <1>2, <1>4, <1>5, <2>2, <3>1
  <2> QED
    BY <2>1, <2>2
<1>7. RequestOK(l, r)
  BY <1>3, <1>6 DEF RequestOK, FirstLabels
<1>8. Comes(h, r)
  BY <1>4, <1>6 DEF Comes
<1>9. FindsInUse(h, n, l, r)
  BY <1>3, <1>4 DEF FindsInUse
<1>10. KnowsAt(h, n, l, r, tablaDeNodos[n].file_size, cap[n])
  BY <1>1, <1>6 DEF KnowsAt
<1>11. LeavesTable(h) /\ UNCHANGED disk
  BY <1>2 DEF LeavesTable
<1> QED
  BY <1>2, <1>3, <1>6, <1>7, <1>8, <1>9, <1>10, <1>11, SilentStep

LEMMA TruncateWork ==
  ASSUME TypeInv, Exclusive, Requests, NEW cap, NEW own, Accounted(cap, own), NEW h \in Handlers,
         pc[h] \in TruncateLabels \ {"truncar"}
  PROVE  /\ local[h].node \in Nodes /\ local[h].op = "truncate" /\ local[h].target \in Nat
         /\ Held(local[h].node, cap[local[h].node], own) /\ Knows(h, cap[local[h].node])
         /\ Size(h) \in Nat
         /\ pc[h] # "tamano" => Size(h) <= cap[local[h].node] * BLOQUE_SIZE
<1>1. local[h].node \in Nodes /\ local[h].op = "truncate" /\ local[h].target \in Nat
  BY OfHandler DEF LocalOK, Requests, RequestOK, TruncateLabels
<1>2. local[h].op \in WorkOps /\ pc[h] # "marcar"
  BY <1>1 DEF WorkOps, TruncateLabels
<1>3. InUse(local[h].node)
  BY <1>1, <1>2, WorkerUses
<1>4. Held(local[h].node, cap[local[h].node], own) /\ Fits(local[h].node, cap[local[h].node])
  BY <1>1, <1>3 DEF Accounted
<1>5. Knows(h, cap[local[h].node])
  BY <1>1 DEF Accounted
<1>6. Size(h) \in Nat
  BY <1>4 DEF Fits, Size
<1>7. pc[h] # "tamano" => Size(h) <= cap[local[h].node] * BLOQUE_SIZE
  BY <1>1, <1>4, FullSize
<1> QED
  BY <1>1, <1>4, <1>5, <1>6, <1>7

LEMMA MaxIs ==
  ASSUME NEW a \in Int, NEW b \in Int
  PROVE  Max({a, b}) = IF a >= b THEN a ELSE b
BY DEF Max

LEMMA SpaceBooks ==
  ASSUME TypeInv, Exclusive, Requests, NEW cap, NEW own, Accounted(cap, own), NEW h \in Handlers,
         get_new_space(h), ~hollow'
  PROVE  Books'
<1>1. PICK n, s, c, space, target, size : /\ n = local[h].node /\ s = Size(h) /\ c = cap[n] /\ space = SpaceForGrowth(s)
                                          /\ target = local[h].target /\ size = local[h].size
  OBVIOUS
<1> DEFINE q == [local[h] EXCEPT !.space = space]
           l == IF EspacioInsuficiente(h) \/ space >= size THEN "tamano" ELSE "sumar"
<1>2. /\ pc[h] = "espacio" /\ Goto(h, l, q) /\ ~Hollows(h) /\ UNCHANGED <<disk, s_tablaDeNodos>>
  BY <1>1 DEF get_new_space, At, locks
<1>3. /\ n \in Nodes /\ local[h].op = "truncate" /\ target \in Nat /\ Held(n, c, own) /\ Knows(h, c)
      /\ s \in Nat /\ s <= c * BLOQUE_SIZE
  <2>1. pc[h] \in TruncateLabels \ {"truncar"} /\ pc[h] # "tamano"
    BY <1>2 DEF TruncateLabels
  <2> QED
    BY <1>1, <2>1, TruncateWork
<1>4. c \in Nat \ {0} /\ size = target - s /\ size > 0
  BY <1>1, <1>2, <1>3 DEF Held, Knows, KnowsOf
<1>5. /\ q.node = n /\ q.op = "truncate" /\ q.mutex = local[h].mutex /\ q.target = target
      /\ q.space = space /\ q.size = size
  BY <1>1, <1>3, OfHandler DEF LocalType
<1> HIDE DEF q
<1>6. l \in {"tamano", "sumar"} /\ (l = "tamano" => EspacioInsuficiente(h) \/ space >= size)
      /\ (l = "sumar" => ~EspacioInsuficiente(h))
  OBVIOUS
<1> HIDE DEF l
<1>7. RequestOK(l, q)
  BY <1>3, <1>5, <1>6 DEF RequestOK, FirstLabels
<1>8. ASSUME l = "tamano"
      PROVE  target <= c * BLOQUE_SIZE
  <2>1. CASE EspacioInsuficiente(h)
    <3>1. CeilDiv(target, BLOQUE_SIZE) <= Max({1, CeilDiv(s, BLOQUE_SIZE)})
      <4>1. ~(CeilDiv(target, BLOQUE_SIZE) > Max({1, CeilDiv(s, BLOQUE_SIZE)}))
        BY <1>1, <1>2, <2>1 DEF Hollows
      <4>2. CeilDiv(target, BLOQUE_SIZE) \in Int /\ CeilDiv(s, BLOQUE_SIZE) \in Int
        BY <1>3, CeilIs
      <4>3. Max({1, CeilDiv(s, BLOQUE_SIZE)}) \in Int
        BY <4>2, MaxOfTwo, 1 \in Int
      <4> QED
        BY <4>1, <4>2, <4>3
    <3>2. CeilDiv(s, BLOQUE_SIZE) <= c /\ CeilDiv(s, BLOQUE_SIZE) \in Nat /\ CeilDiv(target, BLOQUE_SIZE) \in Nat
      BY <1>3, <1>4, CeilIs, CeilFits
    <3>3. Max({1, CeilDiv(s, BLOQUE_SIZE)}) <= c
      BY <1>4, <3>2, MaxIs, 1 \in Int
    <3>4. CeilDiv(target, BLOQUE_SIZE) <= c
      <4>1. Max({1, CeilDiv(s, BLOQUE_SIZE)}) \in Int
        BY <3>2, MaxOfTwo, 1 \in Int
      <4> QED
        BY <1>4, <3>1, <3>2, <3>3, <4>1
    <3> QED
      BY <1>3, <1>4, <3>4, CeilFits
  <2>2. CASE ~EspacioInsuficiente(h) /\ space >= size
    <3>1. s = 0 \/ s % BLOQUE_SIZE # 0
      BY <1>1, <1>2, <2>2 DEF Hollows
    <3>2. ~(size < space)
      BY <1>1, <2>2 DEF EspacioInsuficiente
    <3>3. space \in Nat \ {0} /\ s + space <= c * BLOQUE_SIZE
      BY <1>1, <1>3, <1>4, <3>1, GrowthIs
    <3>4. target = s + space
      BY <1>3, <1>4, <2>2, <3>2, <3>3
    <3> QED
      BY <3>3, <3>4
  <2> QED
    BY <1>6, <1>8, <2>1, <2>2
<1>9. KnowsOf(l, q, s, c)
  <2>1. CASE l = "tamano"
    BY <1>5, <1>8, <2>1 DEF KnowsOf, WritingAt, BlockLabels
  <2>2. CASE l = "sumar"
    <3>1. s = 0 \/ s % BLOQUE_SIZE # 0
      BY <1>1, <1>2, <1>6, <2>2 DEF Hollows
    <3> QED
      BY <1>1, <1>4, <1>5, <2>2, <3>1 DEF KnowsOf, WritingAt, BlockLabels
  <2> QED
    BY <1>6, <2>1, <2>2
<1>10. KnowsAt(h, n, l, q, s, c)
  BY <1>6, <1>9 DEF KnowsAt
<1>11. LeavesTable(h) /\ FilesStay(own, own)
  BY <1>2, DiskStays DEF LeavesTable
<1>12. l \notin {"agregar", "punteros"} /\ pc[h] \notin {"tamano", "marcar"}
  BY <1>2, <1>6
<1> QED
  BY <1>1, <1>2, <1>3, <1>5, <1>7, <1>10, <1>11, <1>12, StayStep

\* The size of a file changes and stays within its blocks.
LEMMA SizeStep ==
  ASSUME TypeInv, LockInv, Exclusive, Requests, NEW cap, NEW own, Accounted(cap, own),
         NEW h \in Handlers, NEW l, NEW r, Goto(h, l, r), LeavesTable(h), UNCHANGED <<punteros, bitmap>>,
         NEW n \in Nodes, n = local[h].node, Held(n, cap[n], own),
         NEW s \in Nat, tablaDeNodos' = [tablaDeNodos EXCEPT ![n].file_size = s], s <= cap[n] * BLOQUE_SIZE,
         local[h].op # "write" \/ WritingAt(pc[h], local[h]),
         r.node = -1 \/ (r.node = n /\ r.op = local[h].op /\ r.mutex = local[h].mutex),
         RequestOK(l, r), l \notin {"agregar", "punteros"},
         r.node = n => KnowsAt(h, n, l, r, s, cap[n])
  PROVE  Books'
<1>0. -1 \notin Nodes
  BY NodesAreNat
<1>1. pc'[h] = l /\ local'[h] = r /\ OthersStay(h)
  BY GoesTo
<1>2. Comes(h, r)
  BY <1>0 DEF Comes
<1>3. Exclusive' /\ Requests'
  BY <1>2, ComesExclusive
<1>4. /\ tablaDeNodos'[n].file_size = s /\ tablaDeNodos'[n].indirect = tablaDeNodos[n].indirect
      /\ \A m \in Nodes \ {n} : NodeStays(m)
  BY DEF TypeInv, TablaOK, NodeType, NodeStays
<1>5. Elsewhere(h, n, own, own)
  BY <1>4 DEF Elsewhere, BlockStays
<1>6. Held(n, cap[n], own)'
  <2>1. PICK c : c = cap[n]
    OBVIOUS
  <2>2. Held(n, c, own)
    BY <2>1
  <2>3. /\ \A i : Indirect(n, i)' = Indirect(n, i)
        /\ \A i, j : Data(n, i, j)' = Data(n, i, j)
    BY <1>4 DEF Data, Indirect
  <2>4. RowsSet(n, c)'
    BY <2>2, <2>3 DEF Held, RowsSet
  <2>5. RowsHeld(n, c, own)'
    BY <2>2, <2>3 DEF Held, RowsHeld
  <2>6. DataHeld(n, c, own)'
    BY <2>2, <2>3 DEF Held, DataHeld
  <2>7. Held(n, c, own)'
    BY <2>2, <2>4, <2>5, <2>6 DEF Held
  <2> QED
    BY <2>1, <2>7
<1>7. Fits(n, cap[n])'
  BY <1>4 DEF Fits
<1>8. Carries(h, own)'
  BY <1>1 DEF Carries
<1>9. local'[h].node = n => Knows(h, cap[n])'
  BY <1>1, <1>4 DEF KnowsAt, Knows, Size
<1>10. \A g \in Handlers \ {h} : local[g].node = n => Waits(g)
  BY OthersWait
<1>11. local[h].node \in {n, -1} /\ local'[h].node \in {n, -1}
  BY <1>1
<1>12. Accounted(cap, own)'
  BY <1>1, <1>5, <1>6, <1>7, <1>8, <1>9, <1>10, <1>11, StepKeepsAccounts DEF LeavesTable
<1> QED
  BY <1>3, <1>12 DEF Books

LEMMA WholeBlocks ==
  ASSUME NEW s, Whole(s)
  PROVE  Whole(s + BLOQUE_SIZE)
<1>1. s \in Nat /\ BLOQUE_SIZE \in Nat \ {0} /\ s % BLOQUE_SIZE = 0
  BY Geometry DEF Whole
<1>2. PICK q \in Nat : s = q * BLOQUE_SIZE
  <2>1. s \div BLOQUE_SIZE \in Nat /\ s = (s \div BLOQUE_SIZE) * BLOQUE_SIZE + (s % BLOQUE_SIZE)
    BY <1>1, Division
  <2>2. PICK q \in Nat : q = s \div BLOQUE_SIZE
    BY <2>1
  <2>3. s = q * BLOQUE_SIZE + 0
    BY <1>1, <2>1, <2>2
  <2>4. q * BLOQUE_SIZE \in Int
    BY <1>1, <2>2
  <2> QED
    BY <2>3, <2>4
<1>3. s + BLOQUE_SIZE = (q + 1) * BLOQUE_SIZE /\ q + 1 \in Nat /\ s + BLOQUE_SIZE \in Nat
  BY <1>1, <1>2
<1> QED
  BY <1>1, <1>3, MultipleRest DEF Whole

LEMMA RestBooks ==
  ASSUME TypeInv, LockInv, Exclusive, Requests, NEW cap, NEW own, Accounted(cap, own), NEW h \in Handlers,
         SumarEspacio(h)
  PROVE  Books'
<1>1. PICK n, s, c, r : n = local[h].node /\ s = Size(h) /\ c = cap[n] /\ r = local[h]
  OBVIOUS
<1>2. /\ pc[h] = "sumar" /\ Goto(h, "bloque", r) /\ UNCHANGED <<punteros, bitmap, s_tablaDeNodos>>
      /\ tablaDeNodos' = [tablaDeNodos EXCEPT ![n].file_size = @ + r.space]
  BY <1>1 DEF SumarEspacio, Grow, At, locks
<1>3. /\ n \in Nodes /\ r.op = "truncate" /\ r.target \in Nat /\ Held(n, c, own) /\ Knows(h, c)
      /\ s \in Nat /\ s <= c * BLOQUE_SIZE
  <2>1. pc[h] \in TruncateLabels \ {"truncar"} /\ pc[h] # "tamano"
    BY <1>2 DEF TruncateLabels
  <2> QED
    BY <1>1, <2>1, TruncateWork
<1>4. r.space = SpaceForGrowth(s) /\ r.size = r.target - s /\ (s = 0 \/ s % BLOQUE_SIZE # 0)
  BY <1>1, <1>2, <1>3 DEF Knows, KnowsOf
<1>5. c \in Nat \ {0}
  BY <1>3 DEF Held
<1>6. PICK t \in Nat : t = s + r.space
  BY <1>3, <1>4, GrowthIs
<1>7. Whole(t) /\ t > 0 /\ t <= c * BLOQUE_SIZE /\ r.space \in Nat /\ r.size = (r.target - t) + r.space
  <2>1. r.space \in Nat \ {0} /\ Whole(t) /\ t <= c * BLOQUE_SIZE
    BY <1>3, <1>4, <1>5, <1>6, GrowthIs
  <2>2. t > 0 /\ r.size = (r.target - t) + r.space
    BY <1>3, <1>4, <1>6, <2>1
  <2> QED
    BY <2>1, <2>2
<1>8. tablaDeNodos' = [tablaDeNodos EXCEPT ![n].file_size = t]
  BY <1>1, <1>2, <1>6 DEF Size
<1>9. RequestOK("bloque", r)
  BY <1>1, <1>3 DEF RequestOK, FirstLabels
<1>10. KnowsAt(h, n, "bloque", r, t, c)
  BY <1>3, <1>7 DEF KnowsAt, KnowsOf, WritingAt, BlockLabels
<1>11. LeavesTable(h)
  BY <1>2 DEF LeavesTable
<1> QED
  BY <1>1, <1>2, <1>3, <1>7, <1>8, <1>9, <1>10, <1>11, SizeStep

LEMMA GrowBooks ==
  ASSUME TypeInv, LockInv, Exclusive, Requests, NEW cap, NEW own, Accounted(cap, own), NEW h \in Handlers,
         SumarBloque(h)
  PROVE  Books'
<1>1. PICK n, s, c, r, left : n = local[h].node /\ s = Size(h) /\ c = cap[n] /\ r = local[h] /\ left = r.size - BLOQUE_SIZE
  OBVIOUS
<1> DEFINE q == [local[h] EXCEPT !.size = left]
<1>2. PICK l : /\ pc[h] = "crecer" /\ s_tablaDeNodos = NONE /\ Goto(h, l, q)
               /\ UNCHANGED <<punteros, bitmap, s_tablaDeNodos>>
               /\ tablaDeNodos' = [tablaDeNodos EXCEPT ![n].file_size = @ + BLOQUE_SIZE]
               /\ l = "bloque" \/ (l = "tamano" /\ ~(left >= r.space) /\ ~(left < 0))
  BY <1>1 DEF SumarBloque, Grow, At, locks
<1>3. /\ n \in Nodes /\ r.op = "truncate" /\ r.target \in Nat /\ Held(n, c, own) /\ Knows(h, c)
      /\ s \in Nat
  <2>1. pc[h] \in TruncateLabels \ {"truncar"}
    BY <1>2 DEF TruncateLabels
  <2> QED
    BY <1>1, <2>1, TruncateWork
<1>4. Whole(s) /\ s > 0 /\ r.space \in Nat /\ r.size = (r.target - s) + r.space
  BY <1>1, <1>2, <1>3 DEF Knows, KnowsOf
<1>5. s + BLOQUE_SIZE <= c * BLOQUE_SIZE
  BY <1>1, <1>2, <1>3, SacAssumption DEF Knows, SacAssumption
<1>6. PICK t \in Nat : t = s + BLOQUE_SIZE
  BY <1>3, Geometry
<1>7. Whole(t) /\ t > 0 /\ t <= c * BLOQUE_SIZE /\ left = (r.target - t) + r.space /\ left \in Int
  <2>1. t > 0 /\ left = (r.target - t) + r.space /\ left \in Int
    BY <1>1, <1>3, <1>4, <1>6, Geometry
  <2>2. Whole(t)
    BY <1>4, <1>6, WholeBlocks
  <2> QED
    BY <1>5, <1>6, <2>1, <2>2
<1>8. tablaDeNodos' = [tablaDeNodos EXCEPT ![n].file_size = t]
  BY <1>1, <1>2, <1>6 DEF Size
<1>9. q.node = n /\ q.op = "truncate" /\ q.mutex = r.mutex /\ q.target = r.target /\ q.size = left /\ q.space = r.space
  BY <1>1, <1>3, OfHandler DEF LocalType
<1> HIDE DEF q
<1>10. RequestOK(l, q)
  BY <1>2, <1>3, <1>9 DEF RequestOK, FirstLabels
<1>11. l = "tamano" => r.target <= c * BLOQUE_SIZE
  <2> SUFFICES ASSUME l = "tamano" PROVE r.target <= c * BLOQUE_SIZE
    OBVIOUS
  <2>1. ~(left >= r.space)
    BY <1>2
  <2>2. r.target < t
    BY <1>3, <1>4, <1>6, <1>7, <2>1
  <2>3. c * BLOQUE_SIZE \in Int
    <3>1. c \in Nat
      BY <1>3 DEF Held
    <3> QED
      BY <3>1, Geometry
  <2> QED
    BY <1>3, <1>6, <1>7, <2>2, <2>3
<1>12. KnowsOf(l, q, t, c)
  <2>1. CASE l = "bloque"
    BY <1>4, <1>7, <1>9, <2>1 DEF KnowsOf, WritingAt, BlockLabels
  <2>2. CASE l = "tamano"
    BY <1>9, <1>11, <2>2 DEF KnowsOf, WritingAt, BlockLabels
  <2> QED
    BY <1>2, <2>1, <2>2
<1>13. KnowsAt(h, n, l, q, t, c)
  BY <1>2, <1>12 DEF KnowsAt
<1>14. LeavesTable(h)
  BY <1>2 DEF LeavesTable
<1> QED
  BY <1>1, <1>2, <1>3, <1>7, <1>8, <1>9, <1>10, <1>13, <1>14, SizeStep

LEMMA SetSizeBooks ==
  ASSUME TypeInv, LockInv, Exclusive, Requests, NEW cap, NEW own, Accounted(cap, own), NEW h \in Handlers,
         truncar_archivo(h)
  PROVE  Books'
<1>1. PICK n, t, c : n = local[h].node /\ t = local[h].target /\ c = cap[n]
  OBVIOUS
<1>2. /\ pc[h] = "tamano" /\ Answer(h) /\ UNCHANGED <<punteros, bitmap, s_tablaDeNodos>>
      /\ tablaDeNodos' = [tablaDeNodos EXCEPT ![n].file_size = t]
  BY <1>1 DEF truncar_archivo, At, locks
<1>3. n \in Nodes /\ local[h].op = "truncate" /\ t \in Nat /\ Held(n, c, own) /\ Knows(h, c)
  <2>1. pc[h] \in TruncateLabels \ {"truncar"}
    BY <1>2 DEF TruncateLabels
  <2> QED
    BY <1>1, <2>1, TruncateWork
<1>4. t <= c * BLOQUE_SIZE
  BY <1>1, <1>2, <1>3 DEF Knows, KnowsOf
<1>5. Goto(h, "idle", Idle)
  BY <1>2 DEF Answer
<1>6. LeavesTable(h) /\ Idle.node # n
  BY <1>2, <1>3, IdleRequest DEF LeavesTable
<1> QED
  BY <1>1, <1>2, <1>3, <1>4, <1>5, <1>6, IdleRequest, SizeStep

(***************************************************************************)
(* write.                                                                  *)
(***************************************************************************)
LEMMA WriteBooks ==
  ASSUME TypeInv, Exclusive, Requests, NEW cap, NEW own, Accounted(cap, own), NEW h \in Handlers,
         escribir_archivo(h), ~raced'
  PROVE  Books'
<1>1. PICK n, m, p : /\ n = determine_nodo(local[h].path) /\ p = local[h].path
                     /\ m = IF p \in DOMAIN diccionarioDeMutex THEN diccionarioDeMutex[p] ELSE <<p, h>>
  OBVIOUS
<1> DEFINE q == [local[h] EXCEPT !.node = n, !.mutex = m]
<1>2. PICK l \in {"tomar", "poner"} :
        pc[h] = "write" /\ ~Shares(h, n) /\ ~Moved(h, n) /\ UNCHANGED <<disk, s_tablaDeNodos>> /\ Goto(h, l, q)
  BY <1>1 DEF escribir_archivo, Meets, At, locks
<1>3. /\ p \in Paths /\ local[h].op = "write" /\ local[h].node = -1 /\ local[h] \in LocalType
      /\ local[h].size \in Nat \ {0} /\ local[h].off \in Nat
  BY <1>1, <1>2, OfHandler DEF LocalOK, Requests, RequestOK, FirstLabels, WriteLabels
<1>4. /\ n \in Nodes /\ tablaDeNodos[n].state = 1
      /\ \A g \in Handlers \ {h} : local[g].node = n => local[g].op = "write" /\ local[g].mutex = m
  BY <1>1, <1>2, <1>3, ArrivesAlone
<1>5. q.node = n /\ q.op = "write" /\ q.mutex = m /\ q.size = local[h].size /\ q.off = local[h].off
  BY <1>3 DEF LocalType
<1> HIDE DEF q
<1>6. RequestOK(l, q)
  BY <1>3, <1>4, <1>5 DEF RequestOK, FirstLabels
<1>7. Comes(h, q)
  BY <1>4, <1>5 DEF Comes
<1>8. FindsInUse(h, n, l, q)
  BY <1>3, <1>4, NodesAreNat DEF FindsInUse
<1>9. KnowsAt(h, n, l, q, tablaDeNodos[n].file_size, cap[n])
  BY WaitsKnows DEF KnowsAt
<1>10. LeavesTable(h) /\ UNCHANGED disk
  BY <1>2 DEF LeavesTable
<1> QED
  BY <1>2, <1>3, <1>4, <1>5, <1>6, <1>7, <1>8, <1>9, <1>10, SilentStep

LEMMA MutexBooks ==
  ASSUME TypeInv, Exclusive, Requests, NEW cap, NEW own, Accounted(cap, own), NEW h \in Handlers,
         PonerMutex(h) \/ TomarMutex(h)
  PROVE  Books'
<1> DEFINE q == [local[h] EXCEPT !.fsize = Size(h)]
<1>1. /\ pc[h] \in {"poner", "tomar"} /\ UNCHANGED <<disk, s_tablaDeNodos>>
      /\ Goto(h, "tomar", local[h]) \/ Goto(h, "trozo", q)
  BY DEF PonerMutex, TomarMutex, At
<1>2. local[h].node \in Nodes /\ local[h].op = "write" /\ local[h] \in LocalType
  BY <1>1, OfHandler DEF LocalOK, WriteLabels, Requests, RequestOK
<1>3. LeavesTable(h) /\ FilesStay(own, own) /\ pc[h] \notin {"tamano", "marcar"}
  BY <1>1, DiskStays DEF LeavesTable
<1>4. CASE Goto(h, "tomar", local[h])
  <2>1. RequestOK("tomar", local[h])
    BY <1>1, <1>2, RequestGoesOn DEF FirstLabels
  <2>2. KnowsAt(h, local[h].node, "tomar", local[h], Size(h), cap[local[h].node])
    BY WaitsKnows DEF KnowsAt
  <2> QED
    BY <1>2, <1>3, <1>4, <2>1, <2>2, StayStep
<1>5. CASE Goto(h, "trozo", q)
  <2>1. /\ q.node = local[h].node /\ q.op = local[h].op /\ q.mutex = local[h].mutex /\ q.fsize = Size(h)
        /\ q.size = local[h].size /\ q.off = local[h].off /\ q.target = local[h].target
    BY <1>2 DEF LocalType
  <2> HIDE DEF q
  <2>2. RequestOK("trozo", q)
    BY <1>1, <1>2, <2>1, RequestGoesOn DEF FirstLabels
  <2>3. KnowsAt(h, local[h].node, "trozo", q, Size(h), cap[local[h].node])
    BY <2>1 DEF KnowsAt, KnowsOf, WritingAt, BlockLabels
  <2> QED
    BY <1>2, <1>3, <1>5, <2>1, <2>2, <2>3, StayStep
<1> QED
  BY <1>1, <1>4, <1>5

LEMMA StoppedBooks ==
  ASSUME TypeInv, Exclusive, Requests, NEW cap, NEW own, Accounted(cap, own), NEW h \in Handlers,
         ArchivoMuyLargo(h) \/ DiscoLleno(h)
  PROVE  Books'
<1>1. pc[h] \in {"tomar", "trozo"} /\ UNCHANGED <<disk, s_tablaDeNodos>> /\ Answer(h)
  BY DEF ArchivoMuyLargo, DiscoLleno, At, locks
<1>2. local[h].op = "write"
  BY <1>1, OfHandler DEF LocalOK, WriteLabels
<1>3. LeavesTable(h) /\ UNCHANGED disk
  BY <1>1 DEF LeavesTable
<1> QED
  BY <1>1, <1>2, <1>3, AnswerStep

\* A handler that writes knows the size of the file, which has a block for every byte.
LEMMA WriteWork ==
  ASSUME TypeInv, Exclusive, Requests, NEW cap, NEW own, Accounted(cap, own), NEW h \in Handlers,
         pc[h] \in {"trozo", "escribir"}
  PROVE  /\ local[h].node \in Nodes /\ local[h].op = "write" /\ local[h].fsize = Size(h)
         /\ WritingAt(pc[h], local[h])
         /\ local[h].size \in Nat \ {0} /\ local[h].off \in Nat
         /\ Held(local[h].node, cap[local[h].node], own) /\ Knows(h, cap[local[h].node])
         /\ Size(h) \in Nat /\ Size(h) <= cap[local[h].node] * BLOQUE_SIZE
<1>1. /\ local[h].node \in Nodes /\ local[h].op = "write" /\ local[h].size \in Nat \ {0} /\ local[h].off \in Nat
      /\ WritingAt(pc[h], local[h])
  BY OfHandler DEF LocalOK, Requests, RequestOK, WriteLabels, WritingAt
<1>2. local[h].op \in WorkOps /\ pc[h] \notin {"marcar", "tamano"}
  BY <1>1 DEF WorkOps
<1>3. InUse(local[h].node)
  BY <1>1, <1>2, WorkerUses
<1>4. Held(local[h].node, cap[local[h].node], own) /\ Fits(local[h].node, cap[local[h].node])
  BY <1>1, <1>3 DEF Accounted
<1>5. Knows(h, cap[local[h].node])
  BY <1>1 DEF Accounted
<1>6. local[h].fsize = Size(h)
  BY <1>1, <1>5 DEF Knows, KnowsOf
<1>7. Size(h) \in Nat /\ Size(h) <= cap[local[h].node] * BLOQUE_SIZE
  BY <1>1, <1>2, <1>4, FullSize
<1> QED
  BY <1>1, <1>4, <1>5, <1>6, <1>7

LEMMA NeedBooks ==
  ASSUME TypeInv, Exclusive, Requests, NEW cap, NEW own, Accounted(cap, own), NEW h \in Handlers,
         PedirBloque(h), ~hollow'
  PROVE  Books'
<1>1. PICK n, s, r : n = local[h].node /\ s = Size(h) /\ r = local[h]
  OBVIOUS
<1>2. /\ pc[h] = "trozo" /\ NeedsBlock(r) /\ SpaceInBlock(r.fsize) = 0 /\ Goto(h, "bloque", r)
      /\ UNCHANGED <<disk, s_tablaDeNodos>>
  BY <1>1 DEF PedirBloque, At, locks
<1>3. n \in Nodes /\ r.op = "write" /\ r.fsize = s /\ s \in Nat /\ r.off \in Nat
  BY <1>1, <1>2, WriteWork
<1>4. Whole(s) /\ s # 0
  BY <1>2, <1>3, SpaceIs
<1>5. s > 0 /\ r.off >= s
  BY <1>2, <1>3, <1>4 DEF NeedsBlock
<1>6. RequestOK("bloque", r)
  BY <1>1, <1>2, <1>3, RequestGoesOn DEF FirstLabels
<1>7. KnowsAt(h, n, "bloque", r, s, cap[n])
  BY <1>3, <1>4, <1>5 DEF KnowsAt, KnowsOf, WritingAt, BlockLabels
<1>8. LeavesTable(h) /\ FilesStay(own, own)
  BY <1>2, DiskStays DEF LeavesTable
<1> QED
  BY <1>1, <1>2, <1>3, <1>6, <1>7, <1>8, StayStep

\* What EscribirTrozo makes of the sizes: the file is not longer than its blocks, and
\* the handler knows its size again.
ChunkOK(k, c) ==
  /\ k.size \in Nat /\ k.size <= c * BLOQUE_SIZE /\ k.fsize = k.size
  /\ k.left \in Nat /\ k.off \in Nat

LEMMA ChunkFits ==
  ASSUME NEW r, r.size \in Nat \ {0}, r.off \in Nat, NEW s \in Nat, r.fsize = s, NEW c \in Nat \ {0},
         s <= c * BLOQUE_SIZE, NEW space \in Nat, s + space <= c * BLOQUE_SIZE,
         r.off < s + space \/ r.off >= s,
         r.size >= BLOQUE_SIZE /\ s <= r.off => s + BLOQUE_SIZE <= c * BLOQUE_SIZE
  PROVE  ChunkOK(Chunk(r, s, space), c)
<1>1. BLOQUE_SIZE \in Nat \ {0} /\ c * BLOQUE_SIZE \in Int
  BY Geometry
<1>2. PICK b, t : b = BLOQUE_SIZE /\ t = c * BLOQUE_SIZE
  OBVIOUS
<1>3. PICK z, o : z = r.size /\ o = r.off
  OBVIOUS
<1>4. b \in Nat \ {0} /\ t \in Int /\ z \in Nat \ {0} /\ o \in Nat /\ s <= t /\ s + space <= t
  BY <1>1, <1>2, <1>3
<1>5. CASE z >= b
  <2>1. PICK longer : longer = IF s <= o THEN s + b ELSE s
    OBVIOUS
  <2>2. Chunk(r, s, space) = [size |-> longer, fsize |-> IF s <= o THEN longer ELSE r.fsize, left |-> z - b, off |-> o + b]
    BY <1>2, <1>3, <1>4, <1>5, <2>1 DEF Chunk
  <2>3. longer \in Nat /\ longer <= t /\ (~(s <= o) => longer = s)
    BY <1>2, <1>3, <1>4, <1>5, <2>1
  <2>4. z - b \in Nat /\ o + b \in Nat
    BY <1>4, <1>5
  <2> QED
    BY <1>2, <2>2, <2>3, <2>4 DEF ChunkOK
<1>6. CASE z < b /\ z <= space
  <2>1. PICK longer : longer = IF s <= o THEN s + z ELSE Max({s, o + z})
    OBVIOUS
  <2>2. Chunk(r, s, space) = [size |-> longer, fsize |-> longer, left |-> 0, off |-> o]
    BY <1>2, <1>3, <1>4, <1>6, <2>1 DEF Chunk
  <2>3. longer \in Nat /\ longer <= t
    <3>1. CASE s <= o
      BY <1>4, <1>6, <2>1, <3>1
    <3>2. CASE ~(s <= o)
      <4>1. longer = IF s >= o + z THEN s ELSE o + z
        BY <1>4, <2>1, <3>2, MaxIs
      <4> QED
        BY <1>4, <1>6, <3>2, <4>1
    <3> QED
      BY <3>1, <3>2
  <2> QED
    BY <1>2, <1>4, <2>2, <2>3 DEF ChunkOK
<1>7. CASE z < b /\ ~(z <= space)
  <2>1. Chunk(r, s, space) = [size |-> s + space, fsize |-> s + space, left |-> z - space, off |-> o + space]
    BY <1>2, <1>3, <1>4, <1>7 DEF Chunk
  <2>2. s + space \in Nat /\ z - space \in Nat /\ o + space \in Nat
    BY <1>4, <1>7
  <2> QED
    BY <1>2, <1>4, <2>1, <2>2 DEF ChunkOK
<1> QED
  BY <1>4, <1>5, <1>6, <1>7

LEMMA ChunkBooks ==
  ASSUME TypeInv, LockInv, Exclusive, Requests, NEW cap, NEW own, Accounted(cap, own), NEW h \in Handlers,
         EscribirTrozo(h), ~hollow'
  PROVE  Books'
<1>1. PICK n, s, c, r, space, k : /\ n = local[h].node /\ s = Size(h) /\ c = cap[n] /\ r = local[h]
                                  /\ space = IF pc[h] = "escribir" THEN BLOQUE_SIZE ELSE SpaceInBlock(r.fsize)
                                  /\ k = Chunk(r, s, space)
  OBVIOUS
<1> DEFINE q == [local[h] EXCEPT !.fsize = k.fsize, !.size = k.left, !.off = k.off]
<1>2. /\ pc[h] = "escribir" \/ (pc[h] = "trozo" /\ ~NeedsBlock(r))
      /\ tablaDeNodos' = [tablaDeNodos EXCEPT ![n].file_size = k.size]
      /\ IF k.left = 0 THEN Answer(h) ELSE Goto(h, "trozo", q)
      /\ pc[h] = "escribir" \/ ~Overhangs(r, s)
      /\ UNCHANGED <<punteros, bitmap, s_tablaDeNodos>>
  BY <1>1 DEF EscribirTrozo, At
<1>3. /\ n \in Nodes /\ r.op = "write" /\ r.fsize = s /\ WritingAt(pc[h], r) /\ r.size \in Nat \ {0} /\ r.off \in Nat
      /\ Held(n, c, own) /\ Knows(h, c) /\ s \in Nat /\ s <= c * BLOQUE_SIZE
  BY <1>1, <1>2, WriteWork
<1>4. c \in Nat \ {0} /\ BLOQUE_SIZE \in Nat \ {0} /\ c * BLOQUE_SIZE \in Int
  <2>1. c \in Nat \ {0}
    BY <1>3 DEF Held
  <2> QED
    BY <2>1, Geometry
<1>5. ChunkOK(k, c)
  <2>1. CASE pc[h] = "escribir"
    <3>1. s + BLOQUE_SIZE <= c * BLOQUE_SIZE /\ r.off >= s /\ space = BLOQUE_SIZE
      BY <1>1, <1>3, <2>1 DEF Knows, KnowsOf
    <3> QED
      BY <1>1, <1>3, <1>4, <3>1, ChunkFits
  <2>2. CASE pc[h] = "trozo" /\ ~NeedsBlock(r) /\ ~Overhangs(r, s)
    <3>1. space = SpaceInBlock(s)
      BY <1>1, <1>3, <2>2
    <3>2. space \in Nat /\ s + space <= c * BLOQUE_SIZE
      BY <1>3, <1>4, <3>1, SpaceIs
    <3>3. r.off < s + space \/ r.off >= s
      BY <1>3, <3>2
    <3>4. r.size >= BLOQUE_SIZE /\ s <= r.off => s = 0
      BY <1>3, <2>2 DEF Overhangs
    <3>5. s = 0 => s + BLOQUE_SIZE <= c * BLOQUE_SIZE
      BY <1>4, <3>1, <3>2 DEF SpaceInBlock
    <3> QED
      BY <1>1, <1>3, <1>4, <3>2, <3>3, <3>4, <3>5, ChunkFits
  <2> QED
    BY <1>2, <2>1, <2>2
<1>6. /\ q.node = n /\ q.op = "write" /\ q.mutex = r.mutex /\ q.fsize = k.fsize /\ q.size = k.left /\ q.off = k.off
  BY <1>1, <1>3, OfHandler DEF LocalType
<1> HIDE DEF q
<1>7. PICK t : t = k.size
  OBVIOUS
<1>8. t \in Nat /\ t <= c * BLOQUE_SIZE /\ k.fsize = t /\ k.left \in Nat /\ k.off \in Nat
  BY <1>5, <1>7 DEF ChunkOK
<1>9. LeavesTable(h) /\ WritingAt(pc[h], local[h])
  BY <1>1, <1>2, <1>3 DEF LeavesTable
<1>10. tablaDeNodos' = [tablaDeNodos EXCEPT ![n].file_size = t]
  BY <1>2, <1>7
<1>11. CASE k.left = 0
  <2>1. Goto(h, "idle", Idle)
    BY <1>2, <1>11 DEF Answer
  <2>2. Idle.node # n
    BY <1>3, IdleRequest
  <2> QED
    BY <1>1, <1>2, <1>3, <1>8, <1>9, <1>10, <2>1, <2>2, IdleRequest, SizeStep
<1>12. CASE k.left # 0
  <2>1. Goto(h, "trozo", q)
    BY <1>2, <1>12
  <2>2. RequestOK("trozo", q)
    BY <1>6, <1>8, <1>12 DEF RequestOK, FirstLabels
  <2>3. KnowsAt(h, n, "trozo", q, t, c)
    BY <1>6, <1>8 DEF KnowsAt, KnowsOf, WritingAt, BlockLabels
  <2> QED
    BY <1>1, <1>2, <1>3, <1>6, <1>8, <1>9, <1>10, <2>1, <2>2, <2>3, SizeStep
<1> QED
  BY <1>11, <1>12

(***************************************************************************)
(* truncate to a smaller size: the file keeps its first m blocks, the      *)
(* columns lo..e of row a and the rows of R are freed.                     *)
(***************************************************************************)
CutPlaces(c, m, a, e, lo, R) ==
  /\ m \in Nat \ {0} /\ m <= c /\ Nth(a, e) < c
  /\ \A j \in lo..e : m <= Nth(a, j)
  /\ \A i \in R : m <= Nth(i, 0) /\ Nth(i, 0) < c
  /\ \A i \in Rows, j \in Cols :
       Nth(i, 0) < m /\ m <= Nth(i, j) /\ Nth(i, j) <= Nth(a, e) => i = a /\ j \in lo..e /\ a \notin R
  /\ \A i \in Rows : m <= Nth(i, 0) /\ Nth(i, 0) <= Nth(a, e) => i \in R

CutFreed(n, a, e, lo, R) == {punteros[Indirect(n, a)][j] : j \in lo..e} \cup {Indirect(n, i) : i \in R}

\* What the step does to the node n and the blocks of it.
CutStep(n, a, e, lo, R) ==
  /\ bitmap' = bitmap \ CutFreed(n, a, e, lo, R)
  /\ \A b \in bitmap : b # Indirect(n, a) => punteros'[b] = punteros[b]
  /\ \A j \in Cols : punteros'[Indirect(n, a)][j] = IF j \in lo..e THEN 0 ELSE punteros[Indirect(n, a)][j]
  /\ \A i \in Rows : Indirect(n, i)' = IF i \in R THEN 0 ELSE Indirect(n, i)

LEMMA OwnedRow ==
  ASSUME NEW n, NEW c, NEW own, Held(n, c, own), NEW i \in Rows, Nth(i, 0) < c
  PROVE  Indirect(n, i) # 0 /\ Indirect(n, i) \in bitmap /\ own[Indirect(n, i)] = RowOf(n, i)
<1>1. c \in Nat \ {0} /\ Nth(i, 0) \in Int /\ PUNTEROS_A_BLOQUES_DATOS \in Nat \ {0}
  BY Geometry, NthIs, 0 \in Int DEF Held, Rows
<1>2. Nth(i, 0) < c + PUNTEROS_A_BLOQUES_DATOS
  BY <1>1
<1> QED
  BY <1>2 DEF Held, RowsSet, RowsHeld

\* The blocks that are freed are the ones of these places.
LEMMA FreedPlaces ==
  ASSUME NEW n, NEW c, NEW own, Held(n, c, own), NEW m, NEW a \in Rows, NEW e \in Cols, NEW lo \in Nat,
         NEW R \in SUBSET Rows, CutPlaces(c, m, a, e, lo, R), NEW b \in CutFreed(n, a, e, lo, R)
  PROVE  (\E j \in lo..e : own[b] = PlaceOf(n, a, j)) \/ (\E i \in R : own[b] = RowOf(n, i))
<1>1. CASE \E j \in lo..e : b = punteros[Indirect(n, a)][j]
  <2>1. PICK j \in lo..e : b = Data(n, a, j)
    BY <1>1 DEF Data
  <2>2. j \in Cols /\ j \in Int /\ e \in Int /\ j <= e
    BY Geometry DEF Cols
  <2>3. Nth(a, j) <= Nth(a, e) /\ Nth(a, j) \in Int /\ Nth(a, e) \in Int /\ c \in Nat
    BY <2>2, Geometry, NthIs DEF Nth, Rows, Held
  <2>4. Nth(a, j) < c
    BY <2>3 DEF CutPlaces
  <2>5. own[b] = PlaceOf(n, a, j)
    BY <2>1, <2>2, <2>4 DEF Held, DataHeld
  <2> QED
    BY <2>5
<1>2. CASE \E i \in R : b = Indirect(n, i)
  <2>1. PICK i \in R : b = Indirect(n, i)
    BY <1>2
  <2>2. own[b] = RowOf(n, i)
    BY <2>1, OwnedRow DEF CutPlaces
  <2> QED
    BY <2>2
<1> QED
  BY <1>1, <1>2 DEF CutFreed

LEMMA CutKeepsHeld ==
  ASSUME NEW n, NEW c, NEW own, Held(n, c, own), NEW m, NEW a \in Rows, NEW e \in Cols, NEW lo \in Nat,
         NEW R \in SUBSET Rows, CutPlaces(c, m, a, e, lo, R), CutStep(n, a, e, lo, R)
  PROVE  Held(n, m, own)'
<1>1. m \in Nat \ {0} /\ c \in Nat \ {0} /\ m <= c /\ c < BLKINDIRECT * PUNTEROS_A_BLOQUES_DATOS
  BY DEF CutPlaces, Held
<1>2. BLKINDIRECT * PUNTEROS_A_BLOQUES_DATOS \in Int /\ PUNTEROS_A_BLOQUES_DATOS \in Nat \ {0}
  BY Geometry
<1>3. m < BLKINDIRECT * PUNTEROS_A_BLOQUES_DATOS
  BY <1>1, <1>2
<1>4. \A i \in Rows : Nth(i, 0) \in Int
  BY NthIs, 0 \in Int DEF Rows
<1>5. ASSUME NEW i \in Rows, Nth(i, 0) < m
      PROVE  i \notin R /\ Indirect(n, i)' = Indirect(n, i) /\ Nth(i, 0) < c
  <2>1. i \notin R
    BY <1>1, <1>4, <1>5 DEF CutPlaces
  <2>2. Nth(i, 0) < c
    BY <1>1, <1>4, <1>5
  <2> QED
    BY <2>1, <2>2 DEF CutStep
<1>6. RowsSet(n, m)'
  BY <1>5 DEF Held, RowsSet
<1>7. ASSUME NEW i \in Rows, Nth(i, 0) < m + PUNTEROS_A_BLOQUES_DATOS, Indirect(n, i)' # 0
      PROVE  Indirect(n, i)' \in bitmap' /\ own[Indirect(n, i)'] = RowOf(n, i)
  <2>1. i \notin R /\ Indirect(n, i)' = Indirect(n, i)
    BY <1>7 DEF CutStep
  <2>2. Nth(i, 0) < c + PUNTEROS_A_BLOQUES_DATOS
    BY <1>1, <1>2, <1>4, <1>7
  <2>3. Indirect(n, i) \in bitmap /\ own[Indirect(n, i)] = RowOf(n, i)
    BY <1>7, <2>1, <2>2 DEF Held, RowsHeld
  <2>4. Indirect(n, i) \notin CutFreed(n, a, e, lo, R)
    <3>1. \A k \in R : RowOf(n, k) # RowOf(n, i)
      BY <2>1 DEF RowOf
    <3>2. \A j : PlaceOf(n, a, j) # RowOf(n, i)
      BY DEF RowOf, PlaceOf
    <3> QED
      BY <2>3, <3>1, <3>2, FreedPlaces
  <2> QED
    BY <2>1, <2>3, <2>4 DEF CutStep
<1>8. RowsHeld(n, m, own)'
  BY <1>7 DEF RowsHeld
<1>9. ASSUME NEW i \in Rows, NEW j \in Cols, Nth(i, j) < m
      PROVE  Data(n, i, j)' \in bitmap' /\ own[Data(n, i, j)'] = PlaceOf(n, i, j)
  <2>1. Nth(i, 0) <= Nth(i, j) /\ Nth(i, j) \in Int /\ Nth(i, 0) \in Int
    BY NthOrder DEF Rows
  <2>2. Nth(i, j) < c /\ Nth(i, 0) < m
    BY <1>1, <1>9, <2>1
  <2>3. Data(n, i, j) \in bitmap /\ own[Data(n, i, j)] = PlaceOf(n, i, j)
    BY <2>2 DEF Held, DataHeld
  <2>4. ~(i = a /\ j \in lo..e)
    BY <1>1, <1>9, <2>1 DEF CutPlaces
  <2>5. Data(n, i, j) \notin CutFreed(n, a, e, lo, R)
    <3>1. \A k \in lo..e : PlaceOf(n, a, k) # PlaceOf(n, i, j)
      BY <2>4 DEF PlaceOf
    <3>2. \A k : RowOf(n, k) # PlaceOf(n, i, j)
      BY DEF RowOf, PlaceOf
    <3> QED
      BY <2>3, <3>1, <3>2, FreedPlaces
  <2>6. Data(n, i, j)' = Data(n, i, j)
    <3>1. Indirect(n, i)' = Indirect(n, i)
      BY <1>5, <2>2
    <3>2. CASE i = a
      BY <2>4, <3>1, <3>2 DEF CutStep, Data
    <3>3. CASE i # a
      <4>1. Indirect(n, i) \in bitmap /\ own[Indirect(n, i)] = RowOf(n, i)
        BY <1>5, <2>2, OwnedRow
      <4>2. Nth(a, 0) < c
        <5>1. Nth(a, 0) <= Nth(a, e) /\ Nth(a, e) \in Int /\ Nth(a, 0) \in Int
          BY NthOrder DEF Rows
        <5> QED
          BY <1>1, <5>1 DEF CutPlaces
      <4>3. own[Indirect(n, a)] = RowOf(n, a)
        BY <4>2, OwnedRow
      <4>4. Indirect(n, i) # Indirect(n, a)
        BY <3>3, <4>1, <4>3 DEF RowOf
      <4> QED
        BY <3>1, <4>1, <4>4 DEF CutStep, Data
    <3> QED
      BY <3>2, <3>3
  <2> QED
    BY <2>3, <2>5, <2>6 DEF CutStep
<1>10. DataHeld(n, m, own)'
  BY <1>9 DEF DataHeld
<1> QED
  BY <1>1, <1>3, <1>6, <1>8, <1>10 DEF Held

LEMMA CutIsCut ==
  ASSUME NEW n, NEW c, NEW m, NEW a \in Rows, NEW e \in Cols, NEW lo \in Nat,
         NEW R \in SUBSET Rows, CutPlaces(c, m, a, e, lo, R), CutStep(n, a, e, lo, R),
         NEW s \in Nat, tablaDeNodos'[n].file_size = s, s <= Nth(a, e) * BLOQUE_SIZE + BLOQUE_SIZE,
         NEW h \in Handlers, pc'[h] = "tamano", local'[h].node = n
  PROVE  Cut(n, m)'
<1>1. \A k \in Int : k * BLOQUE_SIZE < s => k <= Nth(a, e)
  <2> SUFFICES ASSUME NEW k \in Int, k * BLOQUE_SIZE < s PROVE k <= Nth(a, e)
    OBVIOUS
  <2>1. PICK t : t = Nth(a, e)
    OBVIOUS
  <2>2. t \in Int /\ BLOQUE_SIZE \in Nat \ {0}
    BY <2>1, NthIs, Geometry DEF Rows, Cols
  <2>3. k * BLOQUE_SIZE \in Int /\ t * BLOQUE_SIZE \in Int /\ (t + 1) * BLOQUE_SIZE = t * BLOQUE_SIZE + BLOQUE_SIZE
    BY <2>2
  <2>4. k * BLOQUE_SIZE < (t + 1) * BLOQUE_SIZE
    BY <2>1, <2>2, <2>3
  <2>5. k < t + 1
    BY <2>2, <2>4, ProductLess
  <2> QED
    BY <2>1, <2>2, <2>5
<1>2. \A i \in Rows, j \in Cols : Nth(i, j) \in Int /\ Nth(i, 0) \in Int
  BY NthOrder DEF Rows
<1>3. ASSUME NEW i \in Rows, NEW j \in Cols, Nth(i, 0) < m, m <= Nth(i, j), Nth(i, j) * BLOQUE_SIZE < s
      PROVE  Data(n, i, j)' = 0
  <2>1. i = a /\ j \in lo..e /\ a \notin R
    BY <1>1, <1>2, <1>3 DEF CutPlaces
  <2> QED
    BY <2>1 DEF CutStep, Data
<1>4. ASSUME NEW i \in Rows, m <= Nth(i, 0), Nth(i, 0) * BLOQUE_SIZE < s
      PROVE  Indirect(n, i)' = 0
  <2>1. Nth(i, 0) \in Int
    BY NthIs, 0 \in Int DEF Rows
  <2>2. i \in R
    BY <1>1, <1>4, <2>1 DEF CutPlaces
  <2> QED
    BY <2>2 DEF CutStep
<1> QED
  BY <1>3, <1>4 DEF Cut

LEMMA CutInRow ==
  ASSUME NEW a \in Rows, NEW e \in Cols, NEW v \in Cols, v <= e, NEW c \in Nat, Nth(a, e) < c
  PROVE  CutPlaces(c, Nth(a, v) + 1, a, e, 1 + v, {})
<1>1. /\ PUNTEROS_A_BLOQUES_DATOS \in Nat \ {0} /\ a \in Nat /\ e \in Nat /\ v \in Nat
      /\ e < PUNTEROS_A_BLOQUES_DATOS /\ v < PUNTEROS_A_BLOQUES_DATOS
  BY Geometry DEF Rows, Cols
<1>2. PICK z, p : z = Nth(a, 0) /\ p = PUNTEROS_A_BLOQUES_DATOS
  OBVIOUS
<1>3. z \in Nat /\ \A j \in Int : Nth(a, j) = z + j
  <2>1. z = a * PUNTEROS_A_BLOQUES_DATOS /\ z \in Nat
    BY <1>1, <1>2, NthIs, 0 \in Int
  <2> QED
    BY <2>1 DEF Nth
<1>4. \A i \in Rows : i \in Int /\ Nth(i, 0) \in Int /\ (Nth(i, 0) <= z <=> i <= a) /\ (i > a => Nth(i, 0) >= z + p)
  <2> SUFFICES ASSUME NEW i \in Rows
               PROVE  i \in Int /\ Nth(i, 0) \in Int /\ (Nth(i, 0) <= z <=> i <= a) /\ (i > a => Nth(i, 0) >= z + p)
    OBVIOUS
  <2>1. i \in Int /\ a \in Int /\ a + 1 \in Int /\ 0 \in Cols
    BY <1>1 DEF Rows, Cols
  <2>2. Nth(i, 0) \in Int /\ (Nth(i, 0) <= z <=> i <= a) /\ Nth(a + 1, 0) = z + p
    BY <1>2, <2>1, NthOrder
  <2>3. Nth(a + 1, 0) <= Nth(i, 0) <=> a + 1 <= i
    BY <2>1, NthOrder
  <2> QED
    BY <2>1, <2>2, <2>3
<1>5. \A i \in Rows, j \in Cols : Nth(i, j) \in Int /\ Nth(i, j) < Nth(i, 0) + p /\ Nth(i, 0) <= Nth(i, j)
  BY <1>2, NthOrder DEF Rows
<1>6. Nth(a, v) = z + v /\ Nth(a, e) = z + e
  BY <1>1, <1>3
<1>7. \A j \in (1 + v)..e : Nth(a, v) + 1 <= Nth(a, j)
  BY <1>1, <1>3, <1>6
<1>8. ASSUME NEW i \in Rows, Nth(i, 0) < Nth(a, v) + 1
      PROVE  i <= a
  BY <1>1, <1>2, <1>3, <1>4, <1>6, <1>8
<1>9. ASSUME NEW i \in Rows, NEW j \in Cols, Nth(i, 0) < Nth(a, v) + 1, Nth(a, v) + 1 <= Nth(i, j), Nth(i, j) <= Nth(a, e)
      PROVE  i = a /\ j \in (1 + v)..e
  <2>1. i <= a
    BY <1>8, <1>9
  <2>2. ~(i < a)
    <3> SUFFICES ASSUME i < a PROVE FALSE
      OBVIOUS
    <3>1. i + 1 \in Int /\ i + 1 <= a /\ a \in Int /\ i \in Int
      BY <1>1, <1>4
    <3>2. Nth(i + 1, 0) = Nth(i, 0) + p /\ Nth(i + 1, 0) <= z
      BY <1>2, <3>1, NthOrder DEF Cols
    <3>3. Nth(i, j) < Nth(i, 0) + p /\ Nth(i, j) \in Int /\ Nth(i, 0) \in Int /\ p \in Nat
      BY <1>1, <1>2, <1>4, <1>5
    <3>4. z + v + 1 <= Nth(i, j)
      BY <1>1, <1>3, <1>6, <1>9
    <3> QED
      BY <1>1, <1>3, <3>2, <3>3, <3>4
  <2>3. i = a
    BY <1>1, <1>4, <2>1, <2>2
  <2>4. j \in Int /\ Nth(i, j) = z + j
    BY <1>3, <2>3 DEF Cols
  <2> QED
    BY <1>1, <1>3, <1>6, <1>9, <2>3, <2>4
<1>10. ASSUME NEW i \in Rows, Nth(a, v) + 1 <= Nth(i, 0), Nth(i, 0) <= Nth(a, e)
       PROVE  FALSE
  <2>1. ~(Nth(i, 0) <= z)
    BY <1>1, <1>3, <1>4, <1>6, <1>10
  <2>2. Nth(i, 0) >= z + p
    BY <1>1, <1>4, <2>1
  <2> QED
    BY <1>1, <1>2, <1>3, <1>4, <1>6, <1>10, <2>2
<1>11. Nth(a, v) + 1 \in Nat \ {0} /\ Nth(a, v) + 1 <= c
  BY <1>1, <1>3, <1>6
<1> QED
  BY <1>7, <1>9, <1>10, <1>11 DEF CutPlaces

LEMMA CutRows ==
  ASSUME NEW a \in Rows, NEW e \in Cols, NEW u \in Nat, u < a, NEW c \in Nat, Nth(a, e) < c
  PROVE  CutPlaces(c, Nth(u + 1, 0), a, e, 1, (u + 1)..a)
<1>1. a \in Nat /\ a \in Int /\ u \in Int /\ u + 1 \in Int /\ PUNTEROS_A_BLOQUES_DATOS \in Nat \ {0} /\ 0 \in Cols
  BY Geometry DEF Rows, Cols
<1>2. PICK m : m = Nth(u + 1, 0)
  OBVIOUS
<1>3. m \in Nat \ {0}
  <2>1. m = Nth(u, 0) + PUNTEROS_A_BLOQUES_DATOS /\ Nth(u, 0) \in Int /\ (Nth(0, 0) <= Nth(u, 0) <=> 0 <= u)
    <3>1. /\ Nth(u + 1, 0) = Nth(u, 0) + PUNTEROS_A_BLOQUES_DATOS /\ Nth(u, 0) \in Int
          /\ \A k \in Int : Nth(k, 0) <= Nth(u, 0) <=> k <= u
      BY <1>1, NthOrder
    <3> QED
      BY <1>2, <3>1, 0 \in Int
  <2>2. Nth(0, 0) = 0
    BY <1>1 DEF Nth
  <2> QED
    BY <1>1, <2>1, <2>2
<1>4. \A i \in Int : Nth(i, 0) \in Int /\ (m <= Nth(i, 0) <=> u + 1 <= i) /\ (Nth(i, 0) <= Nth(a, 0) <=> i <= a)
  <2> SUFFICES ASSUME NEW i \in Int
               PROVE  Nth(i, 0) \in Int /\ (m <= Nth(i, 0) <=> u + 1 <= i) /\ (Nth(i, 0) <= Nth(a, 0) <=> i <= a)
    OBVIOUS
  <2>1. Nth(i, 0) \in Int /\ (m <= Nth(i, 0) <=> u + 1 <= i)
    <3>1. Nth(i, 0) \in Int /\ \A k \in Int : Nth(k, 0) <= Nth(i, 0) <=> k <= i
      BY <1>1, NthOrder
    <3>2. PICK k \in Int : k = u + 1
      BY <1>1
    <3> QED
      BY <1>2, <3>1, <3>2
  <2>2. Nth(i, 0) <= Nth(a, 0) <=> i <= a
    BY <1>1, NthOrder
  <2> QED
    BY <2>1, <2>2
<1>5. \A i \in Int : \A j \in Cols : Nth(i, j) \in Int /\ Nth(i, 0) <= Nth(i, j) /\ Nth(i, j) < Nth(i + 1, 0)
  <2> SUFFICES ASSUME NEW i \in Int, NEW j \in Cols
               PROVE  Nth(i, j) \in Int /\ Nth(i, 0) <= Nth(i, j) /\ Nth(i, j) < Nth(i + 1, 0)
    OBVIOUS
  <2> QED
    BY NthOrder
<1>6. m <= Nth(a, 0) /\ Nth(a, 0) <= Nth(a, e) /\ Nth(a, 0) \in Int /\ Nth(a, e) \in Int
  BY <1>1, <1>4, <1>5
<1>7. m <= c
  BY <1>3, <1>6
<1>8. ASSUME NEW j \in 1..e
      PROVE  m <= Nth(a, j)
  <2>1. j \in Cols
    BY <1>1 DEF Cols
  <2>2. Nth(a, 0) <= Nth(a, j) /\ Nth(a, j) \in Int
    BY <1>1, <1>5, <2>1
  <2> QED
    BY <1>3, <1>6, <2>2
<1>9. ASSUME NEW i \in (u + 1)..a
      PROVE  m <= Nth(i, 0) /\ Nth(i, 0) < c
  <2>1. i \in Int /\ u + 1 <= i /\ i <= a
    BY <1>1
  <2>2. m <= Nth(i, 0) /\ Nth(i, 0) <= Nth(a, 0) /\ Nth(i, 0) \in Int
    BY <1>4, <2>1
  <2> QED
    BY <1>6, <2>2
<1>10. ASSUME NEW i \in Rows, NEW j \in Cols, Nth(i, 0) < m, m <= Nth(i, j)
       PROVE  FALSE
  <2>1. i \in Int /\ i + 1 \in Int
    BY DEF Rows
  <2>2. ~(u + 1 <= i)
    BY <1>3, <1>4, <1>10, <2>1
  <2>3. i + 1 <= u + 1
    BY <1>1, <2>1, <2>2
  <2>4. Nth(i + 1, 0) <= m /\ Nth(i + 1, 0) \in Int
    BY <1>1, <1>2, <2>1, <2>3, NthOrder
  <2>5. Nth(i, j) < Nth(i + 1, 0) /\ Nth(i, j) \in Int
    BY <1>5, <2>1
  <2> QED
    BY <1>3, <1>10, <2>4, <2>5
<1>11. ASSUME NEW i \in Rows, m <= Nth(i, 0), Nth(i, 0) <= Nth(a, e)
       PROVE  i \in (u + 1)..a
  <2>1. i \in Int /\ a + 1 \in Int
    BY <1>1 DEF Rows
  <2>2. Nth(a, e) < Nth(a + 1, 0) /\ Nth(a + 1, 0) \in Int /\ Nth(i, 0) \in Int
    BY <1>1, <1>4, <1>5, <2>1
  <2>3. Nth(i, 0) < Nth(a + 1, 0)
    BY <1>6, <1>11, <2>2
  <2>4. i < a + 1
    BY <1>1, <2>1, <2>3, NthOrder
  <2>5. u + 1 <= i
    BY <1>4, <1>11, <2>1
  <2> QED
    BY <1>1, <2>1, <2>4, <2>5
<1> QED
  BY <1>2, <1>3, <1>6, <1>7, <1>8, <1>9, <1>10, <1>11 DEF CutPlaces

LEMMA CutKeepsBooks ==
  ASSUME TypeInv, LockInv, Exclusive, Requests, NEW cap, NEW own, Accounted(cap, own), NEW h \in Handlers,
         pc[h] = "acortar", Goto(h, "tamano", local[h]), LeavesTable(h),
         NEW n \in Nodes, n = local[h].node, NEW s \in Nat, s = Size(h),
         NEW m, NEW a \in Rows, NEW e \in Cols, NEW lo \in Nat, NEW R \in SUBSET Rows,
         CutPlaces(cap[n], m, a, e, lo, R), CutStep(n, a, e, lo, R), s <= Nth(a, e) * BLOQUE_SIZE + BLOQUE_SIZE,
         local[h].target <= m * BLOQUE_SIZE,
         tablaDeNodos'[n].file_size = s, \A k \in Nodes \ {n} : NodeStays(k)
  PROVE  Books'
<1>1. PICK c : c = cap[n]
  OBVIOUS
<1>2. local[h].op = "truncate" /\ local[h].target \in Nat /\ Held(n, c, own)
  <2>1. pc[h] \in TruncateLabels \ {"truncar"}
    BY DEF TruncateLabels
  <2> QED
    BY <1>1, <2>1, TruncateWork
<1>3. \A g \in Handlers \ {h} : local[g].node # n
  BY <1>2 DEF Exclusive
<1>4. pc'[h] = "tamano" /\ local'[h] = local[h] /\ OthersStay(h)
  BY GoesTo
<1>5. RequestOK("tamano", local[h])
  BY <1>2 DEF RequestOK, FirstLabels
<1>6. Exclusive' /\ Requests'
  BY <1>5, ComesExclusive DEF Comes
<1>7. Held(n, m, own)'
  BY <1>1, <1>2, CutKeepsHeld
<1>8. Fits(n, m)'
  <2>1. Cut(n, m)'
    BY <1>1, <1>4, CutIsCut
  <2> QED
    BY <2>1 DEF Fits
<1>9. Elsewhere(h, n, own, own)
  <2>1. ASSUME NEW b \in bitmap, ~Mine(h, n, own[b])
        PROVE  BlockStays(b, own, own)
    <3>1. b \notin CutFreed(n, a, e, lo, R)
      <4> SUFFICES ASSUME b \in CutFreed(n, a, e, lo, R) PROVE FALSE
        OBVIOUS
      <4>1. CutPlaces(c, m, a, e, lo, R)
        BY <1>1
      <4>2. (\E j \in lo..e : own[b] = PlaceOf(n, a, j)) \/ (\E i \in R : own[b] = RowOf(n, i))
        BY <1>2, <4>1, FreedPlaces
      <4> QED
        BY <2>1, <4>2 DEF Mine
    <3>2. b # Indirect(n, a)
      <4>1. Nth(a, 0) < c
        <5>1. Nth(a, 0) <= Nth(a, e) /\ Nth(a, e) \in Int /\ Nth(a, 0) \in Int /\ c \in Nat
          BY <1>2, NthOrder DEF Rows, Held
        <5> QED
          BY <1>1, <5>1 DEF CutPlaces
      <4>2. own[Indirect(n, a)] = RowOf(n, a)
        BY <1>2, <4>1, OwnedRow
      <4> QED
        BY <2>1, <4>2 DEF Mine
    <3> QED
      BY <3>1, <3>2 DEF CutStep, BlockStays
  <2> QED
    BY <2>1 DEF Elsewhere
<1>10. Carries(h, own)'
  BY <1>4 DEF Carries
<1>11. Knows(h, m)'
  BY <1>4 DEF Knows, KnowsOf, WritingAt, BlockLabels
<1>12. PICK cap2 : cap2 = [k \in Nodes |-> IF k = n THEN m ELSE cap[k]]
  OBVIOUS
<1>13. cap2[n] = m /\ \A k \in Nodes \ {n} : cap2[k] = cap[k]
  BY <1>12
<1>14. Held(n, cap2[n], own)' /\ Fits(n, cap2[n])' /\ Knows(h, cap2[n])'
  BY <1>7, <1>8, <1>11, <1>13
<1>15. local[h].node \in {n, -1} /\ local'[h].node \in {n, -1}
  BY <1>4
<1>16. Accounted(cap2, own)'
  BY <1>3, <1>4, <1>9, <1>10, <1>13, <1>14, <1>15, StepKeepsAccounts DEF LeavesTable
<1> QED
  BY <1>6, <1>16 DEF Books

LEMMA CutBooks ==
  ASSUME TypeInv, LockInv, Exclusive, Requests, NEW cap, NEW own, Accounted(cap, own), NEW h \in Handlers,
         delete_nodes_upto(h), ~hollow'
  PROVE  Books'
<1>1. PICK n, s, c, t, last, upto :
        /\ n = local[h].node /\ s = Size(h) /\ c = cap[n] /\ t = local[h].target
        /\ last = LastPos(s) /\ upto = setear_posicion(t)
  OBVIOUS
<1> DEFINE data == IF last[1] < 0 THEN {} ELSE DataCut(last, upto)
           pointers == PointersCut(last, upto)
           b == Indirect(n, last[1])
<1>2. /\ pc[h] = "acortar" /\ ~CutGoesWild(n, last, upto) /\ s_tablaDeNodos' = s_tablaDeNodos
      /\ bitmap' = bitmap \ ({punteros[b][x[2]] : x \in data} \cup {Indirect(n, i) : i \in pointers})
      /\ punteros' = IF data = {} THEN punteros
                     ELSE [punteros EXCEPT ![b] = [j \in DOMAIN @ |-> IF <<last[1], j>> \in data THEN 0 ELSE @[j]]]
      /\ tablaDeNodos' = [tablaDeNodos EXCEPT ![n].indirect =
                           [i \in DOMAIN @ |-> IF i \in pointers THEN 0 ELSE @[i]]]
      /\ ~(last[1] >= 0 /\ last[1] < upto[1])
      /\ Goto(h, "tamano", local[h])
  BY <1>1 DEF delete_nodes_upto, At, Wild, Size, locks
<1>3. n \in Nodes /\ t \in Nat /\ Held(n, c, own) /\ s \in Nat /\ s <= c * BLOQUE_SIZE /\ t <= s
  <2>1. pc[h] \in TruncateLabels \ {"truncar"} /\ pc[h] # "tamano"
    BY <1>2 DEF TruncateLabels
  <2>2. n \in Nodes /\ t \in Nat /\ Held(n, c, own) /\ s \in Nat /\ s <= c * BLOQUE_SIZE /\ Knows(h, c)
    BY <1>1, <2>1, TruncateWork
  <2> QED
    BY <1>1, <1>2, <2>2 DEF Knows, KnowsOf
<1>4. c \in Nat \ {0} /\ c <= BLKINDIRECT * PUNTEROS_A_BLOQUES_DATOS /\ BLOQUE_SIZE \in Nat \ {0}
  BY <1>3, Geometry DEF Held
<1>5. LeavesTable(h)
  BY <1>2 DEF LeavesTable
<1>6. \A k \in Nodes \ {n} : NodeStays(k)
  BY <1>2 DEF TypeInv, TablaOK, NodeStays
<1>7. /\ tablaDeNodos'[n].file_size = tablaDeNodos[n].file_size
      /\ tablaDeNodos'[n].state = tablaDeNodos[n].state
      /\ tablaDeNodos'[n].indirect = [i \in Rows |-> IF i \in pointers THEN 0 ELSE tablaDeNodos[n].indirect[i]]
  <2>1. tablaDeNodos \in [Nodes -> NodeType]
    BY DEF TypeInv, TablaOK
  <2>2. tablaDeNodos[n] \in NodeType /\ DOMAIN tablaDeNodos[n].indirect = Rows
    BY <1>3, NodeOf DEF TypeInv, Rows
  <2> HIDE DEF pointers
  <2> QED
    BY <1>2, <1>3, <2>1, <2>2 DEF NodeType
<1>8. CASE s = 0
  <2>1. last = <<-1, PUNTEROS_A_BLOQUES_DATOS - 1>> /\ t = 0
    BY <1>1, <1>3, <1>8, ZeroIs
  <2>2. upto = <<0, 0>>
    BY <1>1, <2>1, ZeroIs DEF setear_posicion
  <2>3. data = {} /\ pointers = {}
    BY <2>1, <2>2 DEF PointersCut
  <2>4. tablaDeNodos'[n].indirect = tablaDeNodos[n].indirect
    <3>1. tablaDeNodos[n].indirect \in [Rows -> Blocks \cup {0}]
      BY <1>3, NodeOf DEF TypeInv, Rows
    <3> QED
      BY <1>7, <2>3, <3>1
  <2>5. bitmap' = bitmap /\ punteros' = punteros
    BY <1>2, <2>3
  <2>6. FilesStay(own, own)
    BY <1>6, <1>7, <2>4, <2>5 DEF FilesStay, NodeStays, BlockStays
  <2>7. RequestOK("tamano", local[h])
    <3>1. local[h].op = "truncate"
      BY <1>2, TruncateWork DEF TruncateLabels
    <3> QED
      BY <1>1, <1>3, <3>1 DEF RequestOK, FirstLabels
  <2>8. KnowsAt(h, n, "tamano", local[h], s, c)
    <3>1. t <= c * BLOQUE_SIZE
      BY <1>3, <1>4, <2>1
    <3> QED
      BY <1>1, <3>1 DEF KnowsAt, KnowsOf, WritingAt, BlockLabels
  <2> QED
    BY <1>1, <1>2, <1>3, <1>5, <2>6, <2>7, <2>8, StayStep
<1>9. CASE s # 0
  <2>1. PICK a \in Nat, e \in Cols : /\ last = <<a, e>>
                                     /\ Nth(a, e) * BLOQUE_SIZE < s /\ s <= Nth(a, e) * BLOQUE_SIZE + BLOQUE_SIZE
    BY <1>1, <1>3, <1>9, LastPosIs
  <2>2. PICK u, v : /\ upto = <<u, v>> /\ u \in Nat /\ v \in Cols /\ Nth(u, v) \in Nat
                    /\ Nth(u, v) * BLOQUE_SIZE <= t /\ t < Nth(u, v) * BLOQUE_SIZE + BLOQUE_SIZE
    BY <1>1, <1>3, PositionOf DEF setear_posicion
  <2>3. a \in Rows /\ Nth(a, e) < c /\ Nth(a, e) \in Int
    <3>1. Nth(a, e) \in Int
      BY NthIs DEF Cols
    <3>2. Nth(a, e) * BLOQUE_SIZE < c * BLOQUE_SIZE
      <4>1. Nth(a, e) * BLOQUE_SIZE \in Int /\ c * BLOQUE_SIZE \in Int
        BY <1>4, <3>1
      <4> QED
        BY <1>3, <2>1, <4>1
    <3>3. Nth(a, e) < c
      BY <1>4, <3>1, <3>2, ProductLess
    <3> QED
      BY <1>4, <3>1, <3>3, NthInRows
  <2>4. a >= u
    BY <1>2, <2>1, <2>2
  <2>5. PICK lo : lo = 1 + (IF a = u THEN v ELSE 0)
    OBVIOUS
  <2>6. PICK R : R = (u + 1)..a
    OBVIOUS
  <2>7. lo \in Nat /\ R \in SUBSET Rows
    <3>1. v \in Nat
      BY <2>2, Geometry DEF Cols
    <3>2. BLKINDIRECT \in Nat /\ a \in 0..(BLKINDIRECT - 1)
      BY <2>3, Geometry DEF Rows
    <3>3. lo \in Nat
      BY <2>5, <3>1
    <3>4. R \subseteq 0..(BLKINDIRECT - 1)
      BY <2>2, <2>6, <3>2
    <3> QED
      BY <3>3, <3>4 DEF Rows
  <2>8. data = {<<a, j>> : j \in lo..e}
    BY <2>1, <2>2, <2>5 DEF DataCut
  <2>9. pointers = R
    BY <2>1, <2>2, <2>4, <2>6 DEF PointersCut
  <2>10. b = Indirect(n, a)
    BY <2>1
  <2>11. CutStep(n, a, e, lo, R)
    <3>1. {punteros[b][x[2]] : x \in data} = {punteros[Indirect(n, a)][j] : j \in lo..e}
      <4>1. PICK D, x : D = data /\ x = Indirect(n, a) /\ b = x /\ D = {<<a, j>> : j \in lo..e}
        BY <2>8, <2>10
      <4>2. \A y \in D : \E j \in lo..e : y = <<a, j>> /\ y[2] = j
        BY <4>1
      <4>3. \A j \in lo..e : <<a, j>> \in D /\ <<a, j>>[2] = j
        BY <4>1
      <4>4. {punteros[x][y[2]] : y \in D} = {punteros[x][j] : j \in lo..e}
        BY <4>2, <4>3
      <4> HIDE DEF data, b
      <4> QED
        BY <4>1, <4>4
    <3>2. bitmap' = bitmap \ CutFreed(n, a, e, lo, R)
      BY <1>2, <2>9, <3>1 DEF CutFreed
    <3>3. \A i \in Rows : Indirect(n, i)' = IF i \in R THEN 0 ELSE Indirect(n, i)
      BY <1>7, <2>9 DEF Indirect
    <3>4. \A j : <<last[1], j>> \in data <=> j \in lo..e
      BY <2>1, <2>8
    <3>5. PICK x : x = Indirect(n, a)
      OBVIOUS
    <3>6. x \in Blocks
      <4>1. Nth(a, 0) < c
        <5>1. Nth(a, 0) <= Nth(a, e) /\ Nth(a, e) \in Int /\ Nth(a, 0) \in Int
          BY NthOrder
        <5> QED
          BY <1>4, <2>3, <5>1
      <4> QED
        BY <1>3, <2>3, <3>5, <4>1, OwnedRow DEF TypeInv, DiskOK
    <3>7. punteros \in [Blocks -> [Cols -> Blocks \cup {-1, 0}]]
      BY DEF TypeInv, DiskOK, Cols
    <3>8. /\ \A y \in bitmap : y # x => punteros'[y] = punteros[y]
          /\ \A j \in Cols : punteros'[x][j] = IF j \in lo..e THEN 0 ELSE punteros[x][j]
      <4>1. CASE data = {}
        <5>1. punteros' = punteros /\ \A j : j \notin lo..e
          BY <1>2, <3>4, <4>1
        <5> QED
          BY <5>1
      <4>2. CASE data # {}
        <5>1. PICK D : D = data
          OBVIOUS
        <5>2. punteros' = [punteros EXCEPT ![x] = [j \in DOMAIN @ |-> IF <<last[1], j>> \in D THEN 0 ELSE @[j]]]
          BY <1>2, <2>10, <3>5, <4>2, <5>1
        <5>3. \A j : <<last[1], j>> \in D <=> j \in lo..e
          BY <3>4, <5>1
        <5> HIDE DEF data
        <5> QED
          BY <3>6, <3>7, <5>2, <5>3
      <4> QED
        BY <4>1, <4>2
    <3> QED
      BY <3>2, <3>3, <3>5, <3>8 DEF CutStep
  <2>12. PICK m : m = IF a = u THEN Nth(u, v) + 1 ELSE Nth(u + 1, 0)
    OBVIOUS
  <2>13. CutPlaces(c, m, a, e, lo, R) /\ t <= m * BLOQUE_SIZE
    <3>1. CASE a = u
      <4>1. v <= e
        BY <1>2, <2>1, <2>2, <3>1, Geometry DEF CutGoesWild, Cols
      <4>2. CutPlaces(c, Nth(a, v) + 1, a, e, 1 + v, {})
        BY <1>4, <2>2, <2>3, <4>1, CutInRow
      <4>3. R = {} /\ lo = 1 + v /\ m = Nth(a, v) + 1
        BY <2>3, <2>5, <2>6, <2>12, <3>1
      <4>4. PICK k \in Nat : k = Nth(u, v)
        BY <2>2
      <4>5. t <= (k + 1) * BLOQUE_SIZE
        <5>1. (k + 1) * BLOQUE_SIZE = k * BLOQUE_SIZE + BLOQUE_SIZE /\ k * BLOQUE_SIZE \in Int
          BY <1>4
        <5> QED
          BY <1>3, <1>4, <2>2, <4>4, <5>1
      <4> QED
        BY <3>1, <4>2, <4>3, <4>4, <4>5
    <3>2. CASE a # u
      <4>1. u < a
        BY <2>2, <2>4, <3>2
      <4>2. v = 0
        BY <1>2, <2>1, <2>2, <4>1 DEF CutGoesWild
      <4>3. CutPlaces(c, Nth(u + 1, 0), a, e, 1, (u + 1)..a)
        BY <1>4, <2>2, <2>3, <4>1, CutRows
      <4>4. lo = 1 /\ m = Nth(u + 1, 0)
        BY <2>5, <2>12, <3>2
      <4>5. m = Nth(u, 0) + PUNTEROS_A_BLOQUES_DATOS
        BY <2>2, <4>4, NthOrder
      <4>6. PICK k \in Nat, p \in Nat \ {0} : k = Nth(u, v) /\ p = PUNTEROS_A_BLOQUES_DATOS
        BY <2>2, Geometry
      <4>7. m = k + p
        BY <4>2, <4>5, <4>6
      <4>8. t <= (k + p) * BLOQUE_SIZE
        <5>1. (k + 1) * BLOQUE_SIZE = k * BLOQUE_SIZE + BLOQUE_SIZE /\ k * BLOQUE_SIZE \in Int
          BY <1>4
        <5>2. (k + 1) * BLOQUE_SIZE <= (k + p) * BLOQUE_SIZE /\ (k + p) * BLOQUE_SIZE \in Int
          BY <1>4, ProductLess
        <5> QED
          BY <1>3, <1>4, <2>2, <4>6, <5>1, <5>2
      <4> QED
        BY <2>6, <4>3, <4>4, <4>7, <4>8
    <3> QED
      BY <3>1, <3>2
  <2> HIDE DEF data, pointers, b
  <2>14. tablaDeNodos'[n].file_size = s
    BY <1>1, <1>7 DEF Size
  <2> QED
    BY <1>1, <1>2, <1>3, <1>5, <1>6, <2>1, <2>3, <2>7, <2>11, <2>13, <2>14, CutKeepsBooks
<1> QED
  BY <1>8, <1>9

(***************************************************************************)
(* The accounts are right at the start and every step keeps them.          *)
(***************************************************************************)
\* No handler goes on after one left the tables, and no step but that one sets wild or
\* takes back what the history tells.
Flagged == ~wild /\ wild' = wild /\ (raced => raced') /\ (hollow => hollow')

LEMMA AskFlags ==
  ASSUME NEW h, Ask(h)
  PROVE  Flagged
BY DEF Ask, history, Flagged

LEMMA FlagsKept ==
  ASSUME ~wild, UNCHANGED <<wild, history>>
  PROVE  Flagged
BY DEF history, Flagged

LEMMA CreateFlags ==
  ASSUME NEW h, create(h)
  PROVE  Flagged
<1>1. CASE TablaLlena(h)
  BY <1>1 DEF At, TablaLlena, Flagged
<1>2. CASE YaExiste(h)
  BY <1>2 DEF At, YaExiste, Flagged
<1>3. CASE crear_nuevo_nodo(h)
  BY <1>3 DEF At, crear_nuevo_nodo, Flagged
<1> QED
  BY <1>1, <1>2, <1>3 DEF create

LEMMA BlocksFlags ==
  ASSUME NEW h, blocks(h)
  PROVE  Flagged
<1>1. CASE get_bloque_vacio(h)
  BY <1>1, FlagsKept DEF At, get_bloque_vacio
<1>2. CASE SinBloques(h)
  BY <1>2 DEF At, SinBloques, Flagged
<1>3. CASE agregar_nodo(h)
  BY <1>3, FlagsKept DEF At, agregar_nodo
<1>4. CASE ArchivoLleno(h)
  BY <1>4 DEF At, ArchivoLleno, Flagged
<1>5. CASE AgregarPunteros(h)
  BY <1>5, FlagsKept DEF At, AgregarPunteros
<1>6. CASE BloqueDePunteros(h)
  BY <1>6 DEF At, BloqueDePunteros, Flagged
<1>7. CASE SinBloqueDePunteros(h)
  BY <1>7 DEF At, SinBloqueDePunteros, Flagged
<1> QED
  BY <1>1, <1>2, <1>3, <1>4, <1>5, <1>6, <1>7 DEF blocks

LEMMA DeleteFlags ==
  ASSUME NEW h, delete(h)
  PROVE  Flagged
<1>1. CASE sac_server_unlink(h)
  BY <1>1 DEF At, sac_server_unlink, Meets, Flagged
<1>2. CASE sac_server_rmdir(h)
  BY <1>2 DEF At, sac_server_rmdir, Flagged
<1>3. CASE borrar_contenido(h)
  BY <1>3, FlagsKept DEF At, borrar_contenido
<1>4. CASE borrar_archivo(h)
  BY <1>4, FlagsKept DEF At, borrar_archivo
<1>5. CASE borrar_directorio(h)
  BY <1>5 DEF At, borrar_directorio, Flagged
<1> QED
  BY <1>1, <1>2, <1>3, <1>4, <1>5 DEF delete

LEMMA RenameFlags ==
  ASSUME NEW h, rename(h)
  PROVE  Flagged
<1>1. CASE sac_server_rename(h)
  BY <1>1 DEF At, sac_server_rename, Flagged
<1>2. CASE renombrar_archivo(h)
  BY <1>2, FlagsKept DEF At, renombrar_archivo
<1> QED
  BY <1>1, <1>2 DEF rename

LEMMA TruncateFlags ==
  ASSUME NEW h, truncate(h)
  PROVE  Flagged
<1>1. CASE sac_server_truncate(h)
  BY <1>1 DEF At, sac_server_truncate, Meets, Flagged
<1>2. CASE delete_nodes_upto(h)
  BY <1>2 DEF At, delete_nodes_upto, Flagged
<1>3. CASE get_new_space(h)
  BY <1>3 DEF At, get_new_space, Flagged
<1>4. CASE SumarEspacio(h)
  BY <1>4, FlagsKept DEF At, SumarEspacio
<1>5. CASE SumarBloque(h)
  BY <1>5, FlagsKept DEF At, SumarBloque
<1>6. CASE truncar_archivo(h)
  BY <1>6, FlagsKept DEF At, truncar_archivo
<1> QED
  BY <1>1, <1>2, <1>3, <1>4, <1>5, <1>6 DEF truncate

LEMMA WriteFlags ==
  ASSUME NEW h, write(h)
  PROVE  Flagged
<1>1. CASE escribir_archivo(h)
  BY <1>1 DEF At, escribir_archivo, Meets, Flagged
<1>2. CASE PonerMutex(h)
  BY <1>2, FlagsKept DEF At, PonerMutex
<1>3. CASE TomarMutex(h)
  BY <1>3, FlagsKept DEF At, TomarMutex
<1>4. CASE ArchivoMuyLargo(h)
  BY <1>4 DEF At, ArchivoMuyLargo, Flagged
<1>5. CASE DiscoLleno(h)
  BY <1>5 DEF At, DiscoLleno, Flagged
<1>6. CASE PedirBloque(h)
  BY <1>6 DEF At, PedirBloque, Flagged
<1>7. CASE EscribirTrozo(h)
  BY <1>7 DEF At, EscribirTrozo, Flagged
<1> QED
  BY <1>1, <1>2, <1>3, <1>4, <1>5, <1>6, <1>7 DEF write

LEMMA BlocksInit == Init => BlocksInv
<1> SUFFICES ASSUME Init PROVE Books
  BY DEF BlocksInv
<1>0. -1 \notin Nodes
  BY NodesAreNat
<1>1. \A h \in Handlers : pc[h] = "idle" /\ local[h] = Idle
  BY DEF Init
<1>2. \A h \in Handlers : local[h].node = -1 /\ local[h].op = NONE
  BY <1>1 DEF Idle
<1>3. \A n \in Nodes : tablaDeNodos[n].state = 0
  BY DEF Init, configurar_server, EmptyNode
<1>4. Exclusive /\ Requests
  BY <1>0, <1>1, <1>2, IdleRequest DEF Exclusive, Requests
<1>5. \A n \in Nodes : ~InUse(n)
  BY <1>0, <1>2, <1>3 DEF InUse
<1>6. PICK cap, own : TRUE
  OBVIOUS
<1>7. \A h \in Handlers : Carries(h, own)
  BY <1>1 DEF Carries
<1>8. Accounted(cap, own)
  BY <1>0, <1>2, <1>5, <1>7 DEF Accounted
<1> QED
  BY <1>4, <1>8 DEF Books

LEMMA BooksUnchanged ==
  ASSUME Books, UNCHANGED vars
  PROVE  Books'
<1>1. PICK cap, own : Accounted(cap, own)
  BY DEF Books
<1>2. UNCHANGED <<disk, locks, pc, local>>
  BY DEF vars
<1>3. UNCHANGED <<tablaDeNodos, punteros, bitmap, s_tablaDeNodos, pc, local>>
  BY <1>2 DEF disk, locks
<1>4. Exclusive' /\ Requests'
  BY <1>3 DEF Books, Exclusive, Requests
<1>5. \A n \in Nodes : InUse(n)' <=> InUse(n)
  BY <1>3 DEF InUse, Unfinished
<1>6. \A n, c : Held(n, c, own) => Held(n, c, own)'
  BY <1>3 DEF Held, RowsSet, RowsHeld, DataHeld, Data, Indirect
<1>7. \A n, c : Fits(n, c) => Fits(n, c)'
  BY <1>3 DEF Fits, Cut, Data, Indirect
<1>8. \A h \in Handlers : Carries(h, own)'
  BY <1>1, <1>3 DEF Accounted, Carries
<1>9. \A h, c : Knows(h, c) => Knows(h, c)'
  BY <1>3 DEF Knows, Size
<1>10. Accounted(cap, own)'
  BY <1>1, <1>3, <1>5, <1>6, <1>7, <1>8, <1>9 DEF Accounted
<1> QED
  BY <1>4, <1>10 DEF Books

LEMMA BlocksNext ==
  ASSUME TypeInv, LockInv, BlocksInv, [Next]_vars
  PROVE  BlocksInv'
<1> SUFFICES ASSUME ~raced', ~hollow', ~wild' PROVE Books'
  BY DEF BlocksInv, Trusted
<1>1. CASE UNCHANGED vars
  <2>1. ~raced /\ ~hollow /\ ~wild
    BY <1>1 DEF vars, history
  <2> QED
    BY <1>1, <2>1, BooksUnchanged DEF BlocksInv, Trusted
<1>2. CASE Next
  <2>1. PICK h \in Handlers : Ask(h) \/ fuse_invoke_function(h)
    BY <1>2 DEF Next
  <2>2. ~GoWild(h)
    BY DEF GoWild
  <2>3. Ask(h) \/ create(h) \/ blocks(h) \/ delete(h) \/ rename(h) \/ truncate(h) \/ write(h)
    BY <2>1, <2>2 DEF fuse_invoke_function
  <2>4. Flagged
    BY <2>3, AskFlags, CreateFlags, BlocksFlags, DeleteFlags, RenameFlags, TruncateFlags, WriteFlags
  <2>5. Books
    BY <2>4 DEF Flagged, BlocksInv, Trusted
  <2>6. Exclusive /\ Requests
    BY <2>5 DEF Books
  <2>7. PICK cap, own : Accounted(cap, own)
    BY <2>5 DEF Books
  <2>8. CASE Ask(h)
    BY <2>6, <2>7, <2>8, AskBooks
  <2>9. CASE create(h)
    BY <2>6, <2>7, <2>9, RefusedBooks, CreateBooks DEF create
  <2>10. CASE blocks(h)
    BY <2>6, <2>7, <2>10, TakeBooks, BooksOfNoBlock, BooksOfAdded, BooksOfFull, BooksOfNewRow, BooksOfRow DEF blocks
  <2>11. CASE delete(h)
    BY <2>6, <2>7, <2>11, UnlinkBooks, ContentsBooks, FileBooks, WalkBooks DEF delete
  <2>12. CASE rename(h)
    BY <2>6, <2>7, <2>12, RenameBooks, RenamedBooks DEF rename
  <2>13. CASE truncate(h)
    BY <2>6, <2>7, <2>13, TruncateBooks, CutBooks, SpaceBooks, RestBooks, GrowBooks, SetSizeBooks DEF truncate
  <2>14. CASE write(h)
    BY <2>6, <2>7, <2>14, WriteBooks, MutexBooks, StoppedBooks, NeedBooks, ChunkBooks DEF write
  <2> QED
    BY <2>3, <2>8, <2>9, <2>10, <2>11, <2>12, <2>13, <2>14
<1> QED
  BY <1>1, <1>2

\* The accounts of the blocks hold in every state: each file has a number of blocks that
\* covers its size, each block in use is for one place of one file or in the hand of one
\* handler, and each handler knows the size it works with (BlocksInv).
THEOREM BlocksInvariant == Spec => []BlocksInv
<1>1. TypeInv /\ LockInv /\ BlocksInv /\ [Next]_vars => BlocksInv'
  BY BlocksNext
<1> QED
  BY <1>1, BlocksInit, TypesInvariant, LockInvariance, PTL DEF Spec

(***************************************************************************)
(* What the accounts say of the blocks of a file.                          *)
(***************************************************************************)
LEMMA BlockOfHeld ==
  ASSUME NEW n, NEW c, NEW own, Held(n, c, own), NEW o \in Nat, o < c * BLOQUE_SIZE
  PROVE  BlockOf(n, o) \in bitmap
<1>1. c \in Nat /\ c <= BLKINDIRECT * PUNTEROS_A_BLOQUES_DATOS
  BY Geometry DEF Held
<1>2. PICK i, j : i = PointerPos(o) /\ j = DataPos(o)
  OBVIOUS
<1>3. i \in Rows /\ j \in Cols /\ Nth(i, j) < c /\ Nth(i, 0) < c
  BY <1>1, <1>2, ByteBelow
<1>4. ~Unset(n, i)
  BY <1>3, OwnedRow DEF Unset, Rows
<1>5. Data(n, i, j) \in bitmap
  BY <1>3 DEF Held, DataHeld
<1> QED
  BY <1>2, <1>4, <1>5 DEF BlockOf, Data

\* A place that the size of a file covers behind its blocks is one a truncate has cut.
LEMMA Behind ==
  ASSUME NEW n, NEW c \in Nat \ {0}, Fits(n, c), NEW k \in Nat, c <= k,
         k * BLOQUE_SIZE < Max({1, tablaDeNodos[n].file_size})
  PROVE  Cut(n, c) /\ k * BLOQUE_SIZE < tablaDeNodos[n].file_size
<1>1. PICK s, b : s = tablaDeNodos[n].file_size /\ b = BLOQUE_SIZE
  OBVIOUS
<1>2. s \in Nat /\ b \in Nat \ {0}
  BY <1>1, Geometry DEF Fits
<1>3. Max({1, s}) = IF 1 >= s THEN 1 ELSE s
  BY <1>2, MaxIs
<1>4. c * b <= k * b /\ 1 * b <= c * b /\ c * b \in Int /\ k * b \in Int
  BY <1>2, ProductLess
<1>5. k * b < s /\ c * b < s
  BY <1>1, <1>2, <1>3, <1>4
<1>6. ~(s <= c * b)
  BY <1>2, <1>4, <1>5
<1> QED
  BY <1>1, <1>5, <1>6 DEF Fits

\* The block at a position, if there is one, is in use for this position.
LEMMA RowOwned ==
  ASSUME TypeInv, NEW n \in Nodes, NEW c, NEW own, Held(n, c, own), Fits(n, c),
         NEW i \in 0..Min({BLKINDIRECT - 1, PointerPos(Max({1, tablaDeNodos[n].file_size}) - 1)}),
         Indirect(n, i) \in Blocks
  PROVE  i \in Rows /\ Indirect(n, i) \in bitmap /\ own[Indirect(n, i)] = RowOf(n, i)
<1>1. PICK s : s = Max({1, tablaDeNodos[n].file_size})
  OBVIOUS
<1>2. s - 1 \in Nat /\ s \in Nat
  <2>1. tablaDeNodos[n].file_size \in Nat
    BY DEF Fits
  <2> QED
    BY <1>1, <2>1, MaxIs
<1>3. PICK p, d : p = PointerPos(s - 1) /\ d = DataPos(s - 1)
  OBVIOUS
<1>4. p \in Nat /\ d \in Cols /\ Nth(p, d) * BLOQUE_SIZE <= s - 1 /\ Nth(p, d) \in Nat
  BY <1>2, <1>3, PositionOf
<1>5. i \in Rows /\ i \in Nat /\ i <= p
  <2>1. BLKINDIRECT - 1 \in Int /\ p \in Int
    BY <1>4, Geometry
  <2>2. PICK a \in Int : a = BLKINDIRECT - 1
    BY <2>1
  <2>3. Min({a, p}) = IF a <= p THEN a ELSE p
    BY <2>1, <2>2 DEF Min
  <2>4. i \in 0..Min({a, p})
    BY <1>1, <1>3, <2>2
  <2> QED
    BY <2>1, <2>2, <2>3, <2>4 DEF Rows
<1>6. Nth(i, 0) \in Nat /\ Nth(i, 0) <= Nth(p, d)
  <2>1. Nth(i, 0) <= Nth(p, 0) /\ Nth(p, 0) <= Nth(p, d) /\ Nth(i, 0) \in Int /\ Nth(p, 0) \in Int
    BY <1>4, <1>5, NthOrder
  <2>2. Nth(i, 0) = i * PUNTEROS_A_BLOQUES_DATOS /\ PUNTEROS_A_BLOQUES_DATOS \in Nat
    BY <1>5, NthIs, Geometry, 0 \in Int
  <2>3. Nth(i, 0) \in Nat
    BY <1>5, <2>2
  <2> QED
    BY <1>4, <2>1, <2>3
<1>7. Nth(i, 0) * BLOQUE_SIZE < s
  <2>1. PICK x, y, b : x = Nth(i, 0) /\ y = Nth(p, d) /\ b = BLOQUE_SIZE
    OBVIOUS
  <2>2. x \in Nat /\ y \in Nat /\ b \in Nat \ {0} /\ x <= y
    BY <1>4, <1>6, <2>1, Geometry
  <2>3. x * b <= y * b /\ x * b \in Int /\ y * b \in Int
    BY <2>2, ProductLess
  <2> QED
    BY <1>2, <1>4, <2>1, <2>3
<1>8. c \in Nat \ {0} /\ Indirect(n, i) # 0
  BY SacAssumption DEF Held, SacAssumption
<1>9. ~(c <= Nth(i, 0))
  <2> SUFFICES ASSUME c <= Nth(i, 0) PROVE FALSE
    OBVIOUS
  <2>1. Cut(n, c) /\ Nth(i, 0) * BLOQUE_SIZE < tablaDeNodos[n].file_size
    BY <1>1, <1>6, <1>7, <1>8, Behind
  <2> QED
    BY <1>5, <1>8, <2>1 DEF Cut
<1>10. Nth(i, 0) < c
  BY <1>6, <1>8, <1>9
<1> QED
  BY <1>5, <1>10, OwnedRow

LEMMA DataOwned ==
  ASSUME TypeInv, NEW n \in Nodes, NEW c, NEW own, Held(n, c, own), Fits(n, c),
         NEW x \in DataOf(Max({1, tablaDeNodos[n].file_size})),
         NEW b, b = BlockOf(n, x[1] * PointerBlock + x[2] * BLOQUE_SIZE), b \in Blocks
  PROVE  b \in bitmap /\ own[b] = PlaceOf(n, x[1], x[2])
<1>1. PICK s : s = Max({1, tablaDeNodos[n].file_size})
  OBVIOUS
<1>2. s \in Nat
  <2>1. tablaDeNodos[n].file_size \in Nat
    BY DEF Fits
  <2> QED
    BY <1>1, <2>1, MaxIs
<1>3. PICK k \in 0..(CeilDiv(s, BLOQUE_SIZE) - 1) :
        x = <<k \div PUNTEROS_A_BLOQUES_DATOS, k % PUNTEROS_A_BLOQUES_DATOS>>
  BY <1>1 DEF DataOf
<1>4. PICK i, j : i = k \div PUNTEROS_A_BLOQUES_DATOS /\ j = k % PUNTEROS_A_BLOQUES_DATOS /\ x = <<i, j>>
  BY <1>3
<1>5. k \in Nat /\ k * BLOQUE_SIZE < s
  BY <1>2, CeilIs
<1>6. i \in Nat /\ j \in Cols /\ k = Nth(i, j)
  BY <1>4, <1>5, Division, Geometry DEF Cols, Nth
<1>7. PICK o \in Nat : o = k * BLOQUE_SIZE
  BY <1>5, Geometry
<1>8. o = i * PointerBlock + j * BLOQUE_SIZE
  <2>1. i \in Int /\ j \in Int
    BY <1>6 DEF Cols
  <2> QED
    BY <1>6, <1>7, <2>1, NthIs
<1>9. PointerPos(o) = i /\ DataPos(o) = j
  <2>1. Nth(i, j) * BLOQUE_SIZE <= o /\ o < Nth(i, j) * BLOQUE_SIZE + BLOQUE_SIZE
    BY <1>6, <1>7, Geometry
  <2> QED
    BY <1>6, <2>1, ByteIn
<1>10. b # -1 /\ b # 0 /\ b = BlockOf(n, o)
  BY <1>4, <1>8, SacAssumption DEF SacAssumption
<1>11. i \in Rows /\ Indirect(n, i) # 0 /\ b = Data(n, i, j)
  BY <1>9, <1>10 DEF BlockOf, Unset, Data, Rows
<1>12. c \in Nat \ {0} /\ Nth(i, 0) \in Int /\ Nth(i, 0) <= k
  BY <1>6, <1>11, NthOrder DEF Held, Rows
<1>13. ~(c <= k)
  <2> SUFFICES ASSUME c <= k PROVE FALSE
    OBVIOUS
  <2>1. Cut(n, c) /\ k * BLOQUE_SIZE < tablaDeNodos[n].file_size
    BY <1>1, <1>5, <1>12, Behind
  <2>2. CASE Nth(i, 0) < c
    BY <1>6, <1>10, <1>11, <2>1, <2>2 DEF Cut
  <2>3. CASE ~(Nth(i, 0) < c)
    <3>1. PICK z, q : z = Nth(i, 0) /\ q = BLOQUE_SIZE
      OBVIOUS
    <3>2. z * q <= k * q /\ z * q \in Int /\ k * q \in Int
      BY <1>5, <1>12, <3>1, Geometry, ProductLess
    <3>3. c <= Nth(i, 0) /\ Nth(i, 0) * BLOQUE_SIZE < tablaDeNodos[n].file_size
      <4>1. tablaDeNodos[n].file_size \in Int
        BY DEF Fits
      <4> QED
        BY <1>12, <2>1, <2>3, <3>1, <3>2, <4>1
    <3> QED
      BY <1>11, <2>1, <3>3 DEF Cut
  <2> QED
    BY <2>2, <2>3
<1>14. Nth(i, j) < c
  BY <1>5, <1>6, <1>12, <1>13
<1> QED
  BY <1>4, <1>6, <1>11, <1>14 DEF Held, DataHeld

LEMMA BlockAtIs ==
  ASSUME TypeInv, NEW n \in Nodes, NEW c, NEW own, Held(n, c, own), Fits(n, c), NEW x \in Positions(n),
         BlockAt(n, x) \notin {-1, 0}
  PROVE  /\ BlockAt(n, x) \in bitmap /\ own[BlockAt(n, x)] = <<x[1], n, x[2], x[3]>>
         /\ x = <<x[1], x[2], x[3]>>
<1>1. PICK s : s = Max({1, tablaDeNodos[n].file_size})
  OBVIOUS
<1>2. CASE \E i \in 0..Min({BLKINDIRECT - 1, PointerPos(s - 1)}) : x = <<"pointers", i, 0>>
  <2>1. PICK i \in 0..Min({BLKINDIRECT - 1, PointerPos(s - 1)}) : x = <<"pointers", i, 0>>
    BY <1>2
  <2>2. BlockAt(n, x) = Indirect(n, i)
    BY <2>1 DEF BlockAt
  <2>3. i \in Rows
    <3>1. s - 1 \in Nat
      <4>1. tablaDeNodos[n].file_size \in Nat
        BY DEF Fits
      <4> QED
        BY <1>1, <4>1, MaxIs
    <3>2. PICK a, p : a = BLKINDIRECT - 1 /\ p = PointerPos(s - 1)
      OBVIOUS
    <3>3. a \in Int /\ p \in Int
      BY <3>1, <3>2, PositionOf, Geometry
    <3>4. Min({a, p}) = IF a <= p THEN a ELSE p
      BY <3>3 DEF Min
    <3> QED
      BY <3>2, <3>3, <3>4 DEF Rows
  <2>4. Indirect(n, i) \in Blocks
    <3>1. tablaDeNodos[n].indirect \in [Rows -> Blocks \cup {0}]
      BY NodeOf DEF TypeInv, Rows
    <3> QED
      BY <2>2, <2>3, <3>1 DEF Indirect
  <2>5. Indirect(n, i) \in bitmap /\ own[Indirect(n, i)] = RowOf(n, i)
    BY <1>1, <2>1, <2>4, RowOwned
  <2> QED
    BY <2>1, <2>2, <2>5 DEF RowOf
<1>3. CASE \E y \in DataOf(s) : x = <<"data", y[1], y[2]>>
  <2>1. PICK y \in DataOf(s) : x = <<"data", y[1], y[2]>>
    BY <1>3
  <2>2. PICK b : b = BlockAt(n, x)
    OBVIOUS
  <2>3. b = BlockOf(n, y[1] * PointerBlock + y[2] * BLOQUE_SIZE)
    BY <2>1, <2>2 DEF BlockAt
  <2>4. b \in Blocks
    <3>1. PICK o : o = y[1] * PointerBlock + y[2] * BLOQUE_SIZE
      OBVIOUS
    <3>2. o \in Nat
      <4>1. PICK i, j : y = <<i, j>> /\ i \in Nat /\ j \in Nat
        <5>1. PICK k \in 0..(CeilDiv(s, BLOQUE_SIZE) - 1) :
                y = <<k \div PUNTEROS_A_BLOQUES_DATOS, k % PUNTEROS_A_BLOQUES_DATOS>>
          BY DEF DataOf
        <5>2. k \in Nat
          <6>1. s \in Nat
            <7>1. tablaDeNodos[n].file_size \in Nat
              BY DEF Fits
            <7> QED
              BY <1>1, <7>1, MaxIs
          <6> QED
            BY <6>1, CeilIs
        <5>3. PICK p \in Nat \ {0} : p = PUNTEROS_A_BLOQUES_DATOS
          BY Geometry
        <5>4. k \div p \in Nat /\ k % p \in 0..(p - 1)
          BY <5>2, Division
        <5>5. PICK i, j : i = k \div p /\ j = k % p /\ y = <<i, j>>
          BY <5>1, <5>3
        <5>6. i \in Nat /\ j \in Nat
          BY <5>3, <5>4, <5>5
        <5> QED
          BY <5>5, <5>6
      <4>2. PointerBlock \in Nat /\ BLOQUE_SIZE \in Nat
        BY NthIs, Geometry, 0 \in Int
      <4> QED
        BY <3>1, <4>1, <4>2
    <3>3. ~Unset(n, PointerPos(o)) /\ b = punteros[Indirect(n, PointerPos(o))][DataPos(o)]
      BY <2>2, <2>3, <3>1 DEF BlockOf
    <3>4. PICK i, j : i = PointerPos(o) /\ j = DataPos(o)
      OBVIOUS
    <3>5. i \in Rows /\ Indirect(n, i) # 0 /\ j \in Cols
      BY <3>2, <3>3, <3>4, PositionOf DEF Unset, Rows
    <3>6. Indirect(n, i) \in Blocks
      <4>1. tablaDeNodos[n].indirect \in [Rows -> Blocks \cup {0}]
        BY NodeOf DEF TypeInv, Rows
      <4> QED
        BY <3>5, <4>1 DEF Indirect
    <3>7. punteros \in [Blocks -> [Cols -> Blocks \cup {-1, 0}]]
      BY DEF TypeInv, DiskOK, Cols
    <3> QED
      BY <2>2, <3>3, <3>4, <3>5, <3>6, <3>7
  <2>5. b \in bitmap /\ own[b] = PlaceOf(n, y[1], y[2])
    BY <1>1, <2>3, <2>4, DataOwned
  <2> QED
    BY <2>1, <2>2, <2>5 DEF PlaceOf
<1> QED
  BY <1>1, <1>2, <1>3 DEF Positions

(***************************************************************************)
(* The properties.                                                         *)
(***************************************************************************)
LEMMA OwnedIs ==
  ASSUME NEW n
  PROVE  n \in DOMAIN Owned <=> n \in Nodes /\ tablaDeNodos[n].state = 1 /\ ~Unfinished(n)
BY DEF Owned, Files

LEMMA OwnedHas ==
  ASSUME NEW n \in DOMAIN Owned, NEW cap, NEW own, Accounted(cap, own)
  PROVE  n \in Nodes /\ Held(n, cap[n], own) /\ Fits(n, cap[n]) /\ Owned[n] = Uses(n)
<1>1. n \in Nodes /\ InUse(n)
  BY OwnedIs DEF InUse
<1>2. Owned[n] = Uses(n)
  BY DEF Owned
<1> QED
  BY <1>1, <1>2 DEF Accounted

LEMMA BooksOwnOnce ==
  ASSUME TypeInv, BlocksInv
  PROVE  BlocksOwnedOnce
<1> SUFFICES ASSUME Trusted
             PROVE  /\ \A n, m \in DOMAIN Owned : n # m => Owned[n] \cap Owned[m] = {}
                    /\ \A n \in DOMAIN Owned : \A x, y \in Positions(n) :
                         x # y /\ BlockAt(n, x) \in Blocks => BlockAt(n, x) # BlockAt(n, y)
  BY DEF BlocksOwnedOnce
<1>1. PICK cap, own : Accounted(cap, own)
  BY DEF BlocksInv, Books
<1>2. ASSUME NEW n \in DOMAIN Owned, NEW m \in DOMAIN Owned, n # m, NEW b \in Owned[n] \cap Owned[m]
      PROVE  FALSE
  <2>1. b \in Uses(n) /\ b \in Uses(m)
    BY <1>1, <1>2, OwnedHas
  <2>2. PICK x \in Positions(n) : b = BlockAt(n, x) /\ b \notin {-1, 0}
    BY <2>1 DEF Uses
  <2>3. PICK y \in Positions(m) : b = BlockAt(m, y)
    BY <2>1 DEF Uses
  <2>4. own[b] = <<x[1], n, x[2], x[3]>>
    BY <1>1, <1>2, <2>2, OwnedHas, BlockAtIs
  <2>5. own[b] = <<y[1], m, y[2], y[3]>>
    BY <1>1, <1>2, <2>2, <2>3, OwnedHas, BlockAtIs
  <2> QED
    BY <1>2, <2>4, <2>5
<1>3. ASSUME NEW n \in DOMAIN Owned, NEW x \in Positions(n), NEW y \in Positions(n),
             x # y, BlockAt(n, x) \in Blocks, BlockAt(n, x) = BlockAt(n, y)
      PROVE  FALSE
  <2>1. BlockAt(n, x) \notin {-1, 0}
    BY <1>3, SacAssumption DEF SacAssumption
  <2>2. own[BlockAt(n, x)] = <<x[1], n, x[2], x[3]>> /\ x = <<x[1], x[2], x[3]>>
    BY <1>1, <2>1, OwnedHas, BlockAtIs
  <2>3. own[BlockAt(n, y)] = <<y[1], n, y[2], y[3]>> /\ y = <<y[1], y[2], y[3]>>
    BY <1>1, <1>3, <2>1, OwnedHas, BlockAtIs
  <2>4. x[1] = y[1] /\ x[2] = y[2] /\ x[3] = y[3]
    BY <1>3, <2>2, <2>3
  <2> QED
    BY <1>3, <2>2, <2>3, <2>4
<1> QED
  BY <1>2, <1>3

\* As long as no two requests met on a file and none was made longer than its blocks, no
\* block is in two files and none is twice in one, for any number of clients and files
\* and any geometry of the disk: BlocksOwnedOnce.
THEOREM BlocksOwnedOnceHolds == Spec => []BlocksOwnedOnce
<1>1. TypeInv /\ BlocksInv => BlocksOwnedOnce
  BY BooksOwnOnce
<1> QED
  BY <1>1, TypesInvariant, BlocksInvariant, PTL

LEMMA BooksMark ==
  ASSUME TypeInv, BlocksInv
  PROVE  BlocksMarked
<1> SUFFICES ASSUME Trusted, NEW n \in DOMAIN Owned, NEW b \in Owned[n]
             PROVE  b \in bitmap
  BY DEF BlocksMarked
<1>1. PICK cap, own : Accounted(cap, own)
  BY DEF BlocksInv, Books
<1>2. PICK x \in Positions(n) : b = BlockAt(n, x) /\ b \notin {-1, 0}
  BY <1>1, OwnedHas DEF Uses
<1> QED
  BY <1>1, <1>2, OwnedHas, BlockAtIs

\* Then every block of a file is marked in the bitmap, so that get_bloque_vacio gives it
\* to nobody else: BlocksMarked.
THEOREM BlocksMarkedHolds == Spec => []BlocksMarked
<1>1. TypeInv /\ BlocksInv => BlocksMarked
  BY BooksMark
<1> QED
  BY <1>1, TypesInvariant, BlocksInvariant, PTL

LEMMA BooksCover ==
  ASSUME TypeInv, BlocksInv
  PROVE  ReadsGoThroughBlocks
<1> SUFFICES ASSUME Trusted, NEW n \in DOMAIN Owned, ~(\E h \in Handlers : local[h].op = "truncate" /\ local[h].node = n),
                    NEW b \in leer_archivo(n)
             PROVE  b \in bitmap
  BY DEF ReadsGoThroughBlocks
<1>1. PICK cap, own : Accounted(cap, own)
  BY DEF BlocksInv, Books
<1>2. PICK c, s : c = cap[n] /\ s = tablaDeNodos[n].file_size
  OBVIOUS
<1>3. Held(n, c, own) /\ Fits(n, c)
  BY <1>1, <1>2, OwnedHas
<1>4. ~Cut(n, c)
  BY AtTamano DEF Cut
<1>5. s \in Nat /\ s <= c * BLOQUE_SIZE /\ c \in Nat
  BY <1>2, <1>3, <1>4 DEF Fits, Held
<1>6. PICK k \in 0..(CeilDiv(s, BLOQUE_SIZE) - 1) : b = BlockOf(n, k * BLOQUE_SIZE)
  BY <1>2 DEF leer_archivo
<1>7. k \in Nat /\ k * BLOQUE_SIZE < s
  BY <1>5, CeilIs
<1>8. k * BLOQUE_SIZE \in Nat /\ k * BLOQUE_SIZE < c * BLOQUE_SIZE
  <2>1. k * BLOQUE_SIZE \in Nat /\ c * BLOQUE_SIZE \in Nat
    BY <1>5, <1>7, Geometry
  <2> QED
    BY <1>5, <1>7, <2>1
<1> QED
  BY <1>3, <1>6, <1>8, BlockOfHeld

\* Then a read goes through blocks that are set and in use, for every byte of the size
\* that the node tells, but while a truncate works on the file: ReadsGoThroughBlocks.
THEOREM ReadsThroughBlocksHolds == Spec => []ReadsGoThroughBlocks
<1>1. TypeInv /\ BlocksInv => ReadsGoThroughBlocks
  BY BooksCover
<1> QED
  BY <1>1, TypesInvariant, BlocksInvariant, PTL

(***************************************************************************)
(* The server stays in its tables.                                         *)
(***************************************************************************)
LEMMA DeleteStaysInside ==
  ASSUME TypeInv, Exclusive, Requests, NEW cap, NEW own, Accounted(cap, own), NEW h \in Handlers, pc[h] = "borrar",
         NEW x \in DataOf(local[h].size)
  PROVE  ~Unset(local[h].node, x[1])
<1>1. PICK n, s, c : n = local[h].node /\ s = local[h].size /\ c = cap[n]
  OBVIOUS
<1>2. n \in Nodes /\ local[h].op \in {"unlink", "rmdir"}
  BY <1>1, DeleteWork
<1>3. InUse(n)
  <2>1. local[h].op \in WorkOps
    BY <1>2 DEF WorkOps
  <2> QED
    BY <1>1, <1>2, <2>1, WorkerUses
<1>4. Held(n, c, own) /\ Fits(n, c)
  BY <1>1, <1>2, <1>3 DEF Accounted
<1>5. s = Size(h) /\ s \in Nat /\ s <= c * BLOQUE_SIZE
  <2>1. s = Size(h)
    BY <1>1, <1>2 DEF Accounted, Knows, KnowsOf
  <2> QED
    BY <1>1, <1>2, <1>4, <2>1, FullSize
<1>6. c \in Nat /\ c <= BLKINDIRECT * PUNTEROS_A_BLOQUES_DATOS
  BY <1>4, Geometry DEF Held
<1>7. PICK k \in 0..(CeilDiv(s, BLOQUE_SIZE) - 1) :
        x = <<k \div PUNTEROS_A_BLOQUES_DATOS, k % PUNTEROS_A_BLOQUES_DATOS>>
  BY <1>1 DEF DataOf
<1>8. PICK i, j : i = k \div PUNTEROS_A_BLOQUES_DATOS /\ j = k % PUNTEROS_A_BLOQUES_DATOS /\ x = <<i, j>>
  BY <1>7
<1>9. k \in Nat /\ k < c
  <2>1. CeilDiv(s, BLOQUE_SIZE) \in Nat /\ CeilDiv(s, BLOQUE_SIZE) <= c
    BY <1>5, <1>6, CeilIs, CeilFits
  <2> QED
    BY <1>6, <2>1
<1>10. i \in Nat /\ j \in Cols /\ k = Nth(i, j)
  BY <1>8, <1>9, Division, Geometry DEF Cols, Nth
<1>11. i \in Rows /\ Nth(i, 0) < c
  BY <1>6, <1>9, <1>10, NthInRows
<1>12. Indirect(n, i) # 0
  BY <1>4, <1>11, OwnedRow
<1> QED
  BY <1>1, <1>8, <1>11, <1>12 DEF Unset, Rows

LEMMA AddStaysInside ==
  ASSUME TypeInv, Exclusive, Requests, NEW cap, NEW own, Accounted(cap, own), NEW h \in Handlers, pc[h] = "agregar"
  PROVE  /\ ~(PointerPos(Size(h)) >= BLKINDIRECT)
         /\ ~(DataPos(Size(h)) # 0 /\ Unset(local[h].node, PointerPos(Size(h))))
<1>1. PICK n, s, c, p, d : /\ n = local[h].node /\ s = Size(h) /\ c = cap[n]
                           /\ p = PointerPos(s) /\ d = DataPos(s)
  OBVIOUS
<1>2. pc[h] \in BlockLabels
  BY DEF BlockLabels
<1>3. CASE local[h].op = "mknod"
  <2>1. s = 0
    BY <1>1, <1>2, <1>3, BlockWork
  <2> QED
    BY <1>1, <2>1, ZeroIs, Geometry
<1>4. CASE local[h].op # "mknod"
  <2>1. Held(n, c, own) /\ s <= c * BLOQUE_SIZE /\ Whole(s) /\ s \in Nat
    BY <1>1, <1>2, <1>4, BlockWork DEF Whole
  <2>2. c \in Nat /\ c < BLKINDIRECT * PUNTEROS_A_BLOQUES_DATOS /\ BLOQUE_SIZE \in Nat \ {0}
        /\ BLKINDIRECT * PUNTEROS_A_BLOQUES_DATOS \in Int
    BY <2>1, Geometry DEF Held
  <2>3. PICK m \in Nat : m = Nth(p, d)
    BY <1>1, <2>1, PositionOf
  <2>4. p \in Nat /\ d \in Cols /\ m * BLOQUE_SIZE = s
    BY <1>1, <2>1, <2>3, PositionOf, WholeIs
  <2>5. m <= c
    BY <2>1, <2>2, <2>4, ProductLess
  <2>6. p \in Rows
    <3>1. c + 1 \in Nat /\ c + 1 <= BLKINDIRECT * PUNTEROS_A_BLOQUES_DATOS /\ Nth(p, d) < c + 1
      BY <2>2, <2>3, <2>5
    <3> QED
      BY <2>4, <3>1, NthInRows
  <2>7. d # 0 => ~Unset(n, p)
    <3> SUFFICES ASSUME d # 0 PROVE ~Unset(n, p)
      OBVIOUS
    <3>1. p * PUNTEROS_A_BLOQUES_DATOS \in Int /\ d \in Nat /\ Nth(p, 0) = p * PUNTEROS_A_BLOQUES_DATOS
      BY <2>4, Geometry, NthIs, 0 \in Int DEF Cols
    <3>2. Nth(p, 0) < c
      BY <2>2, <2>3, <2>5, <3>1 DEF Nth
    <3> QED
      BY <2>1, <2>6, <3>2, OwnedRow DEF Unset, Rows
  <2>8. BLKINDIRECT \in Nat /\ ~(p >= BLKINDIRECT)
    BY <2>6, Geometry DEF Rows
  <2> QED
    BY <1>1, <2>7, <2>8
<1> QED
  BY <1>3, <1>4

LEMMA WriteStaysInside ==
  ASSUME TypeInv, Exclusive, Requests, NEW cap, NEW own, Accounted(cap, own), NEW h \in Handlers, pc[h] = "trozo",
         ~NeedsBlock(local[h]), ~(local[h].fsize = 0 /\ local[h].off >= BLOQUE_SIZE)
  PROVE  BlockOf(local[h].node, local[h].off) \in Blocks
<1>1. PICK n, s, c, o : n = local[h].node /\ s = Size(h) /\ c = cap[n] /\ o = local[h].off
  OBVIOUS
<1>2. local[h].fsize = s /\ o \in Nat /\ Held(n, c, own) /\ s \in Nat /\ s <= c * BLOQUE_SIZE
  BY <1>1, WriteWork
<1>3. c \in Nat \ {0} /\ BLOQUE_SIZE \in Nat \ {0} /\ c * BLOQUE_SIZE \in Int
  <2>1. c \in Nat \ {0}
    BY <1>2 DEF Held
  <2> QED
    BY <2>1, Geometry
<1>4. o < c * BLOQUE_SIZE
  <2>1. CASE s = 0
    <3>1. o < BLOQUE_SIZE
      BY <1>1, <1>2, <1>3, <2>1
    <3>2. 1 * BLOQUE_SIZE <= c * BLOQUE_SIZE
      BY <1>3, ProductLess
    <3> QED
      BY <1>2, <1>3, <3>1, <3>2
  <2>2. CASE s # 0
    <3>1. ~(o >= s + SpaceInBlock(s))
      BY <1>1, <1>2, <2>2 DEF NeedsBlock
    <3>2. SpaceInBlock(s) \in Nat /\ s + SpaceInBlock(s) <= c * BLOQUE_SIZE
      BY <1>2, <1>3, SpaceIs
    <3> QED
      BY <1>2, <1>3, <3>1, <3>2
  <2> QED
    BY <2>1, <2>2
<1>5. BlockOf(n, o) \in bitmap
  BY <1>2, <1>4, BlockOfHeld
<1> QED
  BY <1>1, <1>5 DEF TypeInv, DiskOK

\* A handler about to leave the tables is at one of the steps that may.
LEMMA WildIs ==
  ASSUME TypeInv, BlocksInv, Trusted, NEW h \in Handlers, Wild(h)
  PROVE  pc[h] = "acortar" \/ (local[h].fsize = 0 /\ local[h].off >= BLOQUE_SIZE)
<1>1. Exclusive /\ Requests
  BY DEF BlocksInv, Books
<1>2. PICK cap, own : Accounted(cap, own)
  BY DEF BlocksInv, Books
<1>3. CASE pc[h] \in {"renombrar", "tomar"}
  <2>1. local[h].node = -1
    BY <1>3 DEF Wild
  <2>2. local[h].node \in Nodes
    BY <1>1, <1>3 DEF Requests, RequestOK
  <2> QED
    BY <2>1, <2>2, NodesAreNat
<1>4. CASE pc[h] = "borrar"
  <2>1. \E x \in DataOf(local[h].size) : Unset(local[h].node, x[1])
    BY <1>4 DEF Wild
  <2> QED
    BY <1>1, <1>2, <1>4, <2>1, DeleteStaysInside
<1>5. CASE pc[h] = "agregar"
  <2>1. PointerPos(Size(h)) >= BLKINDIRECT \/ (DataPos(Size(h)) # 0 /\ Unset(local[h].node, PointerPos(Size(h))))
    BY <1>5 DEF Wild, Size
  <2> QED
    BY <1>1, <1>2, <1>5, <2>1, AddStaysInside
<1>6. CASE pc[h] = "trozo"
  <2>1. ~NeedsBlock(local[h]) /\ BlockOf(local[h].node, local[h].off) \notin Blocks
    BY <1>6 DEF Wild
  <2> QED
    BY <1>1, <1>2, <1>6, <2>1, WriteStaysInside
<1>7. CASE pc[h] \notin {"renombrar", "tomar", "acortar", "borrar", "agregar", "trozo"}
  BY <1>7 DEF Wild
<1> QED
  BY <1>3, <1>4, <1>5, <1>6, <1>7

LEMMA WildNext ==
  ASSUME TypeInv, LockInv, BlocksInv, WildOnlyAfter, [Next]_vars
  PROVE  WildOnlyAfter'
<1>1. CASE UNCHANGED vars
  BY <1>1 DEF WildOnlyAfter, vars, history
<1>2. CASE Next
  <2>1. PICK h \in Handlers : Ask(h) \/ fuse_invoke_function(h)
    BY <1>2 DEF Next
  <2>2. CASE GoWild(h)
    <3>1. ~wild /\ Wild(h) /\ UNCHANGED <<pc, local, raced, hollow>>
      BY <2>2 DEF GoWild, history
    <3>2. CASE raced \/ hollow
      BY <3>1, <3>2 DEF WildOnlyAfter
    <3>3. CASE ~(raced \/ hollow)
      <4>1. pc[h] = "acortar" \/ (local[h].fsize = 0 /\ local[h].off >= BLOQUE_SIZE)
        BY <3>1, <3>3, WildIs DEF Trusted
      <4> QED
        BY <3>1, <4>1 DEF WildOnlyAfter
    <3> QED
      BY <3>2, <3>3
  <2>3. CASE ~GoWild(h)
    <3>1. Flagged
      BY <2>1, <2>3, AskFlags, CreateFlags, BlocksFlags, DeleteFlags, RenameFlags, TruncateFlags, WriteFlags
         DEF fuse_invoke_function
    <3> QED
      BY <3>1 DEF Flagged, WildOnlyAfter
  <2> QED
    BY <2>2, <2>3
<1> QED
  BY <1>1, <1>2

\* The server leaves its tables only after requests met on a file, in a file longer than
\* its blocks, in a truncate that does not make the file longer, or in a write to an empty
\* file behind its one block: WildOnlyAfter.
THEOREM WildOnlyAfterHolds == Spec => []WildOnlyAfter
<1>1. Init => WildOnlyAfter
  BY DEF Init, WildOnlyAfter
<1>2. TypeInv /\ LockInv /\ BlocksInv /\ WildOnlyAfter /\ [Next]_vars => WildOnlyAfter'
  BY WildNext
<1> QED
  BY <1>1, <1>2, TypesInvariant, LockInvariance, BlocksInvariant, PTL DEF Spec
=============================================================================
