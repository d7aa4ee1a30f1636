-------------------------- MODULE MusePagingProofs --------------------------
(***************************************************************************)
(* The paging of MUSE, for any programs, files, frames, slots and bounds.  *)
(* The inductive invariant MemoryInv says of the whole memory of the       *)
(* server what is in each frame and each slot, which pages exist, and      *)
(* which segment each of them is in; every request preserves it.           *)
(*                                                                         *)
(* A request is a fold of loads, and the clock goes over a flattened list: *)
(* the first lemmas unfold both, and the next say what taking a frame      *)
(* (Took) and giving it to a page (Placed) change.                         *)
(***************************************************************************)
EXTENDS MusePaging, SequenceTheorems, FiniteSetTheorems, WellFoundedInduction, TLAPS

(***************************************************************************)
(* Least elements, induction over a set of numbers.                        *)
(***************************************************************************)
LEMMA MinOf ==
  ASSUME NEW S \in SUBSET Nat, S # {}
  PROVE  Min(S) \in S /\ \A y \in S : Min(S) <= y
<1> DEFINE R == OpToRel(<, Nat)
<1>1. PICK x \in S : \A y \in S : <<y, x>> \notin R
  BY NatLessThanWellFounded, WFMin
<1>2. \A y, z \in Nat : y < z => <<y, z>> \in R
  BY DEF OpToRel
<1> HIDE DEF R
<1>3. \A y \in S : x <= y
  <2> TAKE y \in S
  <2>1. ~(y < x)
    BY <1>1, <1>2
  <2> QED
    BY <2>1
<1> QED
  BY <1>3 DEF Min

LEMMA UpTo ==
  ASSUME NEW n \in Nat, NEW S, 0 \in S, \A k \in 1..n : k - 1 \in S => k \in S
  PROVE  n \in S
<1> SUFFICES ASSUME n \notin S
             PROVE  FALSE
  OBVIOUS
<1> DEFINE Bad == {k \in 0..n : k \notin S}
<1>1. Bad \in SUBSET Nat /\ Bad # {}
  OBVIOUS
<1>2. PICK k \in Bad : \A j \in Bad : k <= j
  BY <1>1, MinOf
<1>3. k \in 1..n /\ k - 1 \in 0..n
  BY <1>2
<1>4. k - 1 \notin Bad
  BY <1>2, <1>3
<1> QED
  BY <1>3, <1>4

LEMMA MaxUpTo ==
  ASSUME NEW k \in Nat \ {0}
  PROVE  Max(1..k) = k /\ (1..k) \ {k} = 1..(k - 1) /\ 1..k # {}
BY DEF Max

LEMMA MaxOf ==
  ASSUME NEW k \in Nat, NEW S \in SUBSET (1..k), S # {}
  PROVE  Max(S) \in S /\ \A y \in S : Max(S) >= y
<1> DEFINE T == {k - x : x \in S}
<1>1. T \in SUBSET Nat /\ T # {}
  <2>1. \A x \in S : x \in Int /\ k - x \in Nat
    OBVIOUS
  <2> QED
    BY <2>1
<1>2. Min(T) \in T /\ \A y \in T : Min(T) <= y
  BY <1>1, MinOf
<1>3. PICK x \in S : k - x = Min(T)
  BY <1>2
<1>4. \A y \in S : k - x <= k - y
  BY <1>2, <1>3
<1>5. \A y \in S : x >= y
  BY <1>4
<1> QED
  BY <1>5 DEF Max

(***************************************************************************)
(* Flattened lists.                                                        *)
(***************************************************************************)
IsFlat(g, seqs, n) == g = [i \in 1..n |-> IF i = 1 THEN seqs[i] ELSE g[i - 1] \o seqs[i]]

LEMMA FlatExists ==
  ASSUME NEW seqs, NEW n \in Nat
  PROVE  \E g : IsFlat(g, seqs, n)
<1> DEFINE S == {k \in Nat : \E g : IsFlat(g, seqs, k)}
<1>1. 0 \in S
  <2>1. IsFlat([i \in 1..0 |-> <<>>], seqs, 0)
    BY DEF IsFlat
  <2> QED
    BY <2>1
<1>2. ASSUME NEW k \in 1..n, k - 1 \in S
      PROVE  k \in S
  <2>1. PICK f : IsFlat(f, seqs, k - 1)
    BY <1>2
  <2> DEFINE g == [i \in 1..k |-> IF i = 1 THEN seqs[i] ELSE f[i - 1] \o seqs[i]]
  <2>2. \A i \in 1..(k - 1) : g[i] = f[i]
    <3>1. \A i \in 1..(k - 1) : f[i] = IF i = 1 THEN seqs[i] ELSE f[i - 1] \o seqs[i]
      BY <2>1 DEF IsFlat
    <3>2. \A i \in 1..(k - 1) : i \in 1..k
      OBVIOUS
    <3> QED
      BY <3>1, <3>2
  <2>3. \A i \in 1..k : i # 1 => i - 1 \in 1..(k - 1)
    OBVIOUS
  <2>4. \A i \in 1..k : i # 1 => g[i - 1] = f[i - 1]
    BY <2>2, <2>3
  <2> DEFINE d == [i \in 1..k |-> IF i = 1 THEN seqs[i] ELSE g[i - 1] \o seqs[i]]
  <2>5. \A i \in 1..k : g[i] = d[i]
    BY <2>4
  <2>6. g = d
    BY <2>5
  <2>7. IsFlat(g, seqs, k)
    BY <2>6 DEF IsFlat
  <2> QED
    BY <2>7
<1> HIDE DEF S
<1>3. n \in S
  BY <1>1, <1>2, UpTo
<1> QED
  BY <1>3 DEF S

\* FlattenSeq appends the lists one after the other.
LEMMA FlattenSteps ==
  ASSUME NEW A, NEW seqs \in Seq(A)
  PROVE  \E g : /\ FlattenSeq(seqs) = IF Len(seqs) = 0 THEN <<>> ELSE g[Len(seqs)]
                /\ \A i \in 1..Len(seqs) : g[i] = IF i = 1 THEN seqs[i] ELSE g[i - 1] \o seqs[i]
<1> DEFINE n == Len(seqs)
           fold == CHOOSE g : IsFlat(g, seqs, n)
<1>1. n \in Nat
  OBVIOUS
<1>2. IsFlat(fold, seqs, n)
  BY <1>1, FlatExists
<1>3. n = 0 => seqs = <<>>
  OBVIOUS
<1>4. FlattenSeq(seqs) = IF n = 0 THEN seqs ELSE fold[n]
  BY DEF FlattenSeq, IsFlat
<1>5. \A i \in 1..n : fold[i] = IF i = 1 THEN seqs[i] ELSE fold[i - 1] \o seqs[i]
  BY <1>2 DEF IsFlat
<1> QED
  BY <1>3, <1>4, <1>5

\* What is in a flattened list is in one of its lists, and the other way round.
LEMMA FlattenIs ==
  ASSUME NEW A, NEW seqs \in Seq(Seq(A))
  PROVE  LET F == FlattenSeq(seqs) IN
         /\ F \in Seq(A)
         /\ \A i \in 1..Len(F) : \E j \in 1..Len(seqs) : \E k \in 1..Len(seqs[j]) : F[i] = seqs[j][k]
         /\ \A j \in 1..Len(seqs) : /\ Len(seqs[j]) <= Len(F)
                                    /\ \A k \in 1..Len(seqs[j]) : \E i \in 1..Len(F) : F[i] = seqs[j][k]
<1>1. PICK g : /\ FlattenSeq(seqs) = IF Len(seqs) = 0 THEN <<>> ELSE g[Len(seqs)]
               /\ \A i \in 1..Len(seqs) : g[i] = IF i = 1 THEN seqs[i] ELSE g[i - 1] \o seqs[i]
  BY FlattenSteps
<1> DEFINE P(F, n) ==
         /\ F \in Seq(A)
         /\ \A i \in 1..Len(F) : \E j \in 1..n : \E k \in 1..Len(seqs[j]) : F[i] = seqs[j][k]
         /\ \A j \in 1..n : /\ Len(seqs[j]) <= Len(F)
                            /\ \A k \in 1..Len(seqs[j]) : \E i \in 1..Len(F) : F[i] = seqs[j][k]
           S == {n \in Nat : n = 0 \/ P(g[n], n)}
<1>2. 0 \in S
  OBVIOUS
<1>3. ASSUME NEW n \in 1..Len(seqs), n - 1 \in S
      PROVE  n \in S
  <2>1. n \in Nat /\ seqs[n] \in Seq(A)
    OBVIOUS
  <2>2. CASE n = 1
    <3>1. g[n] = seqs[n]
      BY <1>1, <2>2
    <3>2. P(seqs[n], n)
      BY <2>1, <2>2
    <3>3. P(g[n], n)
      BY <3>1, <3>2
    <3> HIDE DEF P
    <3> QED
      BY <2>1, <3>3
  <2>3. CASE n # 1
    <3> DEFINE a == g[n - 1]
               b == seqs[n]
               F == a \o b
    <3>0. n - 1 \in Nat /\ n - 1 # 0
      BY <2>3
    <3>a. g[n] = F
      BY <1>1, <2>3
    <3>1. n - 1 \in Nat /\ n - 1 # 0 /\ g[n] = F
      BY <3>0, <3>a
    <3>2. P(a, n - 1)
      BY <1>3, <3>1
    <3>3. a \in Seq(A) /\ b \in Seq(A)
      BY <2>1, <3>2
    <3>4. /\ F \in Seq(A) /\ Len(F) = Len(a) + Len(b)
          /\ \A i \in 1..(Len(a) + Len(b)) : F[i] = IF i <= Len(a) THEN a[i] ELSE b[i - Len(a)]
      BY <3>3, ConcatProperties
    <3>5. Len(a) \in Nat /\ Len(b) \in Nat
      BY <3>3
    <3> HIDE DEF F, a
    <3>6. \A i \in 1..Len(F) : \E j \in 1..n : \E k \in 1..Len(seqs[j]) : F[i] = seqs[j][k]
      <4> TAKE i \in 1..Len(F)
      <4>1. CASE i <= Len(a)
        <5>1. i \in 1..Len(a) /\ F[i] = a[i]
          BY <3>4, <3>5, <4>1
        <5>2. PICK j \in 1..(n - 1) : \E k \in 1..Len(seqs[j]) : a[i] = seqs[j][k]
          BY <3>2, <5>1
        <5>3. j \in 1..n
          BY <2>1
        <5> QED
          BY <5>1, <5>2, <5>3
      <4>2. CASE ~(i <= Len(a))
        <5>1. i - Len(a) \in 1..Len(b) /\ F[i] = b[i - Len(a)]
          BY <3>4, <3>5, <4>2
        <5> QED
          BY <2>1, <5>1
      <4> QED
        BY <4>1, <4>2
    <3>7. ASSUME NEW j \in 1..n
          PROVE  /\ Len(seqs[j]) <= Len(F)
                 /\ \A k \in 1..Len(seqs[j]) : \E i \in 1..Len(F) : F[i] = seqs[j][k]
      <4>1. CASE j = n
        <5>1. Len(b) <= Len(F)
          BY <3>4, <3>5
        <5>2. \A k \in 1..Len(b) : k + Len(a) \in 1..Len(F) /\ F[k + Len(a)] = b[k]
          <6> TAKE k \in 1..Len(b)
          <6>1. k + Len(a) \in 1..(Len(a) + Len(b)) /\ ~(k + Len(a) <= Len(a)) /\ k + Len(a) - Len(a) = k
            BY <3>5
          <6> QED
            BY <3>4, <6>1
        <5> QED
          BY <4>1, <5>1, <5>2
      <4>2. CASE j # n
        <5>1. j \in 1..(n - 1) /\ seqs[j] \in Seq(A) /\ Len(seqs[j]) \in Nat
          BY <4>2
        <5>2. Len(seqs[j]) <= Len(a)
          BY <3>2, <5>1
        <5>3. \A i \in 1..Len(a) : i \in 1..Len(F) /\ F[i] = a[i]
          BY <3>4, <3>5
        <5>4. \A k \in 1..Len(seqs[j]) : \E i \in 1..Len(a) : a[i] = seqs[j][k]
          BY <3>2, <5>1
        <5>5. \A k \in 1..Len(seqs[j]) : \E i \in 1..Len(F) : F[i] = seqs[j][k]
          BY <5>3, <5>4
        <5>6. Len(seqs[j]) <= Len(F)
          BY <3>4, <3>5, <5>1, <5>2
        <5> QED
          BY <5>5, <5>6
      <4> QED
        BY <4>1, <4>2
    <3>8. P(F, n)
      BY <3>4, <3>6, <3>7
    <3> QED
      BY <2>1, <3>1, <3>8
  <2> QED
    BY <2>2, <2>3
<1>4. Len(seqs) \in S
  <2> HIDE DEF S
  <2>1. Len(seqs) \in Nat
    OBVIOUS
  <2> QED
    BY <1>2, <1>3, <2>1, UpTo
<1>5. CASE Len(seqs) = 0
  <2>1. FlattenSeq(seqs) = <<>>
    BY <1>1, <1>5
  <2> QED
    BY <1>5, <2>1
<1>6. CASE Len(seqs) # 0
  <2>1. FlattenSeq(seqs) = g[Len(seqs)] /\ P(g[Len(seqs)], Len(seqs))
    BY <1>1, <1>4, <1>6
  <2> QED
    BY <2>1
<1> QED
  BY <1>5, <1>6

\* Longer lists make a longer list.
LEMMA FlattenLonger ==
  ASSUME NEW A, NEW a \in Seq(Seq(A)), NEW b \in Seq(Seq(A)), Len(a) = Len(b),
         \A i \in 1..Len(a) : Len(a[i]) <= Len(b[i])
  PROVE  Len(FlattenSeq(a)) <= Len(FlattenSeq(b))
<1>1. PICK g : /\ FlattenSeq(a) = IF Len(a) = 0 THEN <<>> ELSE g[Len(a)]
               /\ \A i \in 1..Len(a) : g[i] = IF i = 1 THEN a[i] ELSE g[i - 1] \o a[i]
  BY FlattenSteps
<1>2. PICK h : /\ FlattenSeq(b) = IF Len(b) = 0 THEN <<>> ELSE h[Len(b)]
               /\ \A i \in 1..Len(b) : h[i] = IF i = 1 THEN b[i] ELSE h[i - 1] \o b[i]
  BY FlattenSteps
<1> DEFINE P(n) == g[n] \in Seq(A) /\ h[n] \in Seq(A) /\ Len(g[n]) <= Len(h[n])
           S == {n \in Nat : n = 0 \/ P(n)}
<1>3. 0 \in S
  OBVIOUS
<1>4. ASSUME NEW n \in 1..Len(a), n - 1 \in S
      PROVE  n \in S
  <2>1. n \in Nat /\ a[n] \in Seq(A) /\ b[n] \in Seq(A) /\ Len(a[n]) <= Len(b[n])
    OBVIOUS
  <2>2. CASE n = 1
    BY <1>1, <1>2, <2>1, <2>2
  <2>3. CASE n # 1
    <3>0. n - 1 \in Nat /\ n - 1 # 0 /\ n \in 1..Len(b)
      BY <2>3
    <3>a. P(n - 1)
      BY <1>4, <3>0
    <3>1. g[n] = g[n - 1] \o a[n] /\ h[n] = h[n - 1] \o b[n] /\ P(n - 1)
      BY <1>1, <1>2, <2>3, <3>0, <3>a
    <3>2. g[n] \in Seq(A) /\ Len(g[n]) = Len(g[n - 1]) + Len(a[n])
      BY <2>1, <3>1, ConcatProperties
    <3>3. h[n] \in Seq(A) /\ Len(h[n]) = Len(h[n - 1]) + Len(b[n])
      BY <2>1, <3>1, ConcatProperties
    <3>4. Len(g[n - 1]) \in Nat /\ Len(a[n]) \in Nat /\ Len(h[n - 1]) \in Nat /\ Len(b[n]) \in Nat
      BY <2>1, <3>1
    <3>5. Len(g[n]) <= Len(h[n])
      <4>1. \A w, x, y, z \in Nat : w <= y /\ x <= z => w + x <= y + z
        OBVIOUS
      <4>2. Len(g[n - 1]) <= Len(h[n - 1])
        BY <3>1
      <4> QED
        BY <2>1, <3>2, <3>3, <3>4, <4>1, <4>2
    <3> QED
      BY <2>1, <3>2, <3>3, <3>5
  <2> QED
    BY <2>2, <2>3
<1>5. Len(a) \in S
  <2> HIDE DEF S
  <2>1. Len(a) \in Nat
    OBVIOUS
  <2> QED
    BY <1>3, <1>4, <2>1, UpTo
<1> QED
  BY <1>1, <1>2, <1>5

(***************************************************************************)
(* Folds.                                                                  *)
(***************************************************************************)
SolvesFold(g, M, F, base, seq, n) ==
  /\ g \in [SUBSET (1..n) -> M]
  /\ \A s \in SUBSET (1..n) : g[s] = IF s = {} THEN base ELSE F[<<g[s \ {Max(s)}], seq[Max(s)]>>]

\* A fold with a function that stays within M can be unfolded, and stays within M.
LEMMA FoldExists ==
  ASSUME NEW M, NEW X, NEW F \in [M \X X -> M], NEW base \in M, NEW n \in Nat, NEW seq \in [1..n -> X]
  PROVE  \E g : SolvesFold(g, M, F, base, seq, n)
<1> DEFINE Folds(g, k) ==
             \A s \in SUBSET (1..k) : g[s] = IF s = {} THEN base ELSE F[<<g[s \ {Max(s)}], seq[Max(s)]>>]
           S == {k \in Nat : \E g \in [SUBSET (1..k) -> M] : Folds(g, k)}
<1>1. 0 \in S
  <2> DEFINE g == [s \in SUBSET (1..0) |-> base]
  <2>1. 1..0 = {}
    OBVIOUS
  <2>2. \A s \in SUBSET (1..0) : s = {} /\ g[s] = base
    BY <2>1
  <2>3. Folds(g, 0)
    BY <2>2
  <2>4. g \in [SUBSET (1..0) -> M]
    OBVIOUS
  <2> HIDE DEF g, Folds
  <2> QED
    BY <2>3, <2>4
<1>2. ASSUME NEW k \in 1..n, k - 1 \in S
      PROVE  k \in S
  <2>0. k \in Nat
    OBVIOUS
  <2>1. PICK f \in [SUBSET (1..(k - 1)) -> M] : Folds(f, k - 1)
    BY <1>2
  <2>2. ASSUME NEW s \in SUBSET (1..k), s # {}
        PROVE  /\ s \ {Max(s)} \in SUBSET (1..(k - 1))
               /\ Max(s) \in 1..n
    <3>1. Max(s) \in s /\ \A y \in s : Max(s) >= y
      BY <2>0, <2>2, MaxOf
    <3>2. \A y \in s \ {Max(s)} : y \in 1..(k - 1)
      <4> TAKE y \in s \ {Max(s)}
      <4>1. y \in 1..k /\ Max(s) \in 1..k /\ Max(s) >= y /\ Max(s) # y
        BY <2>2, <3>1
      <4> QED
        BY <2>0, <4>1
    <3>3. Max(s) \in 1..k /\ \A y \in 1..k : y \in 1..n
      <4>1. Max(s) \in 1..k
        BY <3>1
      <4>2. \A y \in 1..k : y \in 1..n
        OBVIOUS
      <4> QED
        BY <4>1, <4>2
    <3>4. s \ {Max(s)} \subseteq 1..(k - 1)
      BY <3>2
    <3> HIDE DEF Folds, S
    <3> QED
      BY <3>3, <3>4
  <2> DEFINE E(s) == IF s = {} THEN base ELSE F[<<f[s \ {Max(s)}], seq[Max(s)]>>]
             g == [s \in SUBSET (1..k) |-> E(s)]
  <2>3. \A s \in SUBSET (1..k) : E(s) \in M
    <3> TAKE s \in SUBSET (1..k)
    <3>1. CASE s # {}
      <4>1. f[s \ {Max(s)}] \in M /\ seq[Max(s)] \in X
        BY <2>2, <3>1
      <4> QED
        BY <3>1, <4>1
    <3> QED
      BY <3>1
  <2>4. g \in [SUBSET (1..k) -> M]
    BY <2>3
  <2>5. \A s \in SUBSET (1..(k - 1)) : g[s] = f[s]
    <3> TAKE s \in SUBSET (1..(k - 1))
    <3>1. s \in SUBSET (1..k)
      OBVIOUS
    <3>2. f[s] = E(s)
      BY <2>1
    <3> QED
      BY <3>1, <3>2
  <2>6. Folds(g, k)
    <3> SUFFICES ASSUME NEW s \in SUBSET (1..k)
                 PROVE  g[s] = IF s = {} THEN base ELSE F[<<g[s \ {Max(s)}], seq[Max(s)]>>]
      OBVIOUS
    <3>1. g[s] = E(s)
      OBVIOUS
    <3>2. s # {} => g[s \ {Max(s)}] = f[s \ {Max(s)}]
      BY <2>2, <2>5
    <3> HIDE DEF g
    <3> QED
      BY <3>1, <3>2
  <2> HIDE DEF g, Folds
  <2> QED
    BY <2>0, <2>4, <2>6
<1>3. n \in S
  <2> HIDE DEF S
  <2> QED
    BY <1>1, <1>2, UpTo
<1>4. PICK g \in [SUBSET (1..n) -> M] : Folds(g, n)
  BY <1>3
<1>5. SolvesFold(g, M, F, base, seq, n)
  BY <1>4 DEF SolvesFold
<1> QED
  BY <1>5

\* A fold that solves its recursion stays where its steps stay.
LEMMA FoldStays ==
  ASSUME NEW M, NEW n \in Nat, NEW g, g[{}] \in M,
         \A k \in 1..n : g[1..(k - 1)] \in M => g[1..k] \in M
  PROVE  g[1..n] \in M
<1> DEFINE S == {k \in Nat : g[1..k] \in M}
<1>1. 0 \in S
  <2>1. 1..0 = {}
    OBVIOUS
  <2> QED
    BY <2>1
<1>2. \A k \in 1..n : k - 1 \in S => k \in S
  OBVIOUS
<1> HIDE DEF S
<1>3. n \in S
  BY <1>1, <1>2, UpTo
<1> QED
  BY <1>3 DEF S

IsLoadFold(g, m, segment, ns, D) ==
  g = [s \in SUBSET D |-> IF s = {} THEN m ELSE obtener_data(g[s \ {Max(s)}], segment, ns[Max(s)])]

\* h[k] is the memory after the first k loads.
LoadRun(h, M, m, segment, ns, n) ==
  /\ h[0] = m /\ LoadAll(m, segment, ns) = h[n]
  /\ \A k \in 1..n : h[k] = obtener_data(h[k - 1], segment, ns[k])
  /\ \A k \in 0..n : h[k] \in M

\* The loads of a request are one load after the other, and stay where every load stays.
LEMMA LoadAllUnfolds ==
  ASSUME NEW M, NEW X, NEW segment, NEW m \in M, NEW n \in Nat, NEW ns \in [1..n -> X],
         \A s \in M, k \in X : obtener_data(s, segment, k) \in M
  PROVE  \E h : LoadRun(h, M, m, segment, ns, n)
<1> DEFINE D == 1..n
           F == [x \in M \X X |-> obtener_data(x[1], segment, x[2])]
           fold == CHOOSE g : IsLoadFold(g, m, segment, ns, D)
<1>0. \A s \in M, k \in X : F[<<s, k>>] = obtener_data(s, segment, k)
  OBVIOUS
<1>1. F \in [M \X X -> M]
  OBVIOUS
<1> HIDE DEF F
<1>2. PICK g \in [SUBSET D -> M] :
        \A s \in SUBSET D : g[s] = IF s = {} THEN m ELSE F[<<g[s \ {Max(s)}], ns[Max(s)]>>]
  <2>1. \E g : SolvesFold(g, M, F, m, ns, n)
    BY <1>1, FoldExists
  <2> QED
    BY <2>1 DEF SolvesFold
<1>3. \A s \in SUBSET D : g[s] = IF s = {} THEN m ELSE obtener_data(g[s \ {Max(s)}], segment, ns[Max(s)])
  <2> TAKE s \in SUBSET D
  <2>1. CASE s # {}
    <3>1. Max(s) \in D
      BY <2>1, MaxOf
    <3>2. g[s \ {Max(s)}] \in M /\ ns[Max(s)] \in X
      BY <3>1
    <3> QED
      BY <1>0, <1>2, <2>1, <3>2
  <2> QED
    BY <1>2, <2>1
<1>4. IsLoadFold(g, m, segment, ns, D)
  <2> DEFINE d == [s \in SUBSET D |-> IF s = {} THEN m ELSE obtener_data(g[s \ {Max(s)}], segment, ns[Max(s)])]
  <2>1. \A s \in SUBSET D : g[s] = d[s]
    BY <1>3
  <2>2. g = d
    BY <2>1
  <2> QED
    BY <2>2 DEF IsLoadFold
<1>5. IsLoadFold(fold, m, segment, ns, D)
  BY <1>4
<1>6. LoadAll(m, segment, ns) = fold[D]
  <2>1. DOMAIN ns = D
    OBVIOUS
  <2> QED
    BY <2>1 DEF LoadAll, FoldLeft, MapThenFoldSet, IsLoadFold
<1> HIDE DEF fold
<1> DEFINE h == [k \in 0..n |-> fold[1..k]]
<1>7. h[0] = m
  <2>1. 1..0 = {} /\ {} \in SUBSET D
    OBVIOUS
  <2>2. fold[{}] = m
    BY <1>5, <2>1 DEF IsLoadFold
  <2> QED
    BY <2>1, <2>2
<1>8. ASSUME NEW k \in 1..n
      PROVE  h[k] = obtener_data(h[k - 1], segment, ns[k])
  <2>1. k \in Nat \ {0} /\ 1..k \in SUBSET D /\ k \in 0..n /\ k - 1 \in 0..n
    OBVIOUS
  <2>2. fold[1..k] = IF 1..k = {} THEN m ELSE obtener_data(fold[(1..k) \ {Max(1..k)}], segment, ns[Max(1..k)])
    BY <1>5, <2>1 DEF IsLoadFold
  <2>3. fold[1..k] = obtener_data(fold[1..(k - 1)], segment, ns[k])
    BY <2>1, <2>2, MaxUpTo
  <2> QED
    BY <2>1, <2>3
<1>9. LoadAll(m, segment, ns) = h[n]
  BY <1>6
<1> HIDE DEF h
<1> DEFINE S == {k \in Nat : k \in 0..n => h[k] \in M}
<1>10. 0 \in S
  BY <1>7
<1>11. ASSUME NEW k \in 1..n, k - 1 \in S
       PROVE  k \in S
  <2>1. k \in Nat /\ k - 1 \in 0..n /\ ns[k] \in X
    OBVIOUS
  <2> DEFINE before == h[k - 1]
  <2>2. before \in M
    BY <1>11, <2>1
  <2> HIDE DEF before
  <2>3. obtener_data(before, segment, ns[k]) \in M
    BY <2>1, <2>2
  <2>4. h[k] \in M
    BY <1>8, <2>3 DEF before
  <2> QED
    BY <2>1, <2>4
<1>12. \A k \in 0..n : h[k] \in M
  <2> TAKE k \in 0..n
  <2>1. k \in Nat /\ \A j \in 1..k : j \in 1..n
    OBVIOUS
  <2> HIDE DEF S
  <2>2. k \in S
    BY <1>10, <1>11, <2>1, UpTo
  <2> QED
    BY <2>2 DEF S
<1>13. LoadRun(h, M, m, segment, ns, n)
  BY <1>7, <1>8, <1>9, <1>12 DEF LoadRun
<1> QED
  BY <1>13

IsPageFold(g, m, p, D) ==
  g = [s \in SUBSET D |-> IF s = {} THEN m ELSE AddPage(g[s \ {Max(s)}], p)]

\* Whatever a new page preserves, a malloc that adds pages preserves.
LEMMA AddPagesStay ==
  ASSUME NEW M, NEW p, NEW m \in M, NEW n \in Nat, n > 0 => \A s \in M : AddPage(s, p) \in M
  PROVE  AddPages(m, p, n) \in M
<1> DEFINE D == 1..n
           seq == [i \in 1..n |-> i]
           F == [x \in M \X D |-> AddPage(x[1], p)]
           fold == CHOOSE g : IsPageFold(g, m, p, D)
<1>0. \A s \in M, k \in D : F[<<s, k>>] = AddPage(s, p)
  OBVIOUS
<1>1. F \in [M \X D -> M] /\ seq \in [D -> D]
  OBVIOUS
<1> HIDE DEF F
<1>2. PICK g \in [SUBSET D -> M] :
        \A s \in SUBSET D : g[s] = IF s = {} THEN m ELSE F[<<g[s \ {Max(s)}], seq[Max(s)]>>]
  <2> HIDE DEF seq, fold
  <2>1. \E g : SolvesFold(g, M, F, m, seq, n)
    BY <1>1, FoldExists
  <2> QED
    BY <2>1 DEF SolvesFold
<1>3. \A s \in SUBSET D : g[s] = IF s = {} THEN m ELSE AddPage(g[s \ {Max(s)}], p)
  <2> TAKE s \in SUBSET D
  <2>1. CASE s # {}
    <3>1. Max(s) \in D
      BY <2>1, MaxOf
    <3>2. g[s \ {Max(s)}] \in M /\ seq[Max(s)] \in D
      BY <3>1
    <3> HIDE DEF seq
    <3> QED
      BY <1>0, <1>2, <2>1, <3>2
  <2> QED
    BY <1>2, <2>1
<1>4. IsPageFold(g, m, p, D)
  <2> DEFINE d == [s \in SUBSET D |-> IF s = {} THEN m ELSE AddPage(g[s \ {Max(s)}], p)]
  <2>1. \A s \in SUBSET D : g[s] = d[s]
    BY <1>3
  <2>2. g = d
    BY <2>1
  <2> QED
    BY <2>2 DEF IsPageFold
<1>5. IsPageFold(fold, m, p, D)
  BY <1>4
<1>6. AddPages(m, p, n) = fold[D]
  <2>1. DOMAIN seq = D
    OBVIOUS
  <2>2. AddPages(m, p, n) = FoldLeft(LAMBDA s, i : AddPage(s, p), m, seq)
    BY DEF AddPages
  <2> HIDE DEF seq
  <2>3. FoldLeft(LAMBDA s, i : AddPage(s, p), m, seq) = fold[D]
    BY <2>1 DEF FoldLeft, MapThenFoldSet, IsPageFold
  <2> QED
    BY <2>2, <2>3
<1> HIDE DEF fold
<1>7. fold[{}] \in M
  BY <1>5 DEF IsPageFold
<1>8. ASSUME NEW k \in 1..n, fold[1..(k - 1)] \in M
      PROVE  fold[1..k] \in M
  <2>1. k \in Nat \ {0} /\ 1..k \in SUBSET D /\ n > 0
    OBVIOUS
  <2>2. fold[1..k] = AddPage(fold[1..(k - 1)], p)
    BY <1>5, <2>1, MaxUpTo DEF IsPageFold
  <2> QED
    BY <1>8, <2>1, <2>2
<1>9. fold[1..n] \in M
  BY <1>7, <1>8, FoldStays
<1> QED
  BY <1>6, <1>9

(***************************************************************************)
(* The types.                                                              *)
(***************************************************************************)
Maps(S, T) == UNION {[D -> T] : D \in SUBSET S}

Ids == (Programs \cup Files) \X Nat
Bytes == Values \cup {Zeros} \cup (Files \X Nat)
PageType == [is_present : BOOLEAN, is_used : BOOLEAN, is_modify : BOOLEAN, fr : Frames \cup Slots]
SegmentType == [is_heap : BOOLEAN, base : Nat, limit : Nat, pages : Seq(Ids), file : Files \cup {NoFile, Destroyed}]
Faults == {"none", "crash", "clock", "hang", "lost"}
Memory == [segment_table : [Programs -> Seq(SegmentType)], BITMAP : SUBSET Frames, BITMAP_SWAP : SUBSET Slots,
           page : Maps(Ids, PageType), frame : [Frames -> Bytes], slot : [Slots -> Bytes],
           segmentoClock : Nat, paginaClock : Nat, mapped : SUBSET Files, programas : [Files -> Seq(Programs)],
           archivo : [Files -> Maps(Nat, Bytes)], fault : Faults, want : Maps(Ids, Bytes), overflow : BOOLEAN,
           stale : SUBSET Ids, unsaved : SUBSET Ids, leaked : SUBSET Slots, unmapped : BOOLEAN]

\* The tables whose keys are in S and whose values are in T.
LEMMA MapsAre ==
  ASSUME NEW S, NEW T, NEW g
  PROVE  g \in Maps(S, T) <=> /\ g = [x \in DOMAIN g |-> g[x]] /\ DOMAIN g \subseteq S
                              /\ \A x \in DOMAIN g : g[x] \in T
<1>1. ASSUME g \in Maps(S, T)
      PROVE  g = [x \in DOMAIN g |-> g[x]] /\ DOMAIN g \subseteq S /\ \A x \in DOMAIN g : g[x] \in T
  <2>1. PICK D \in SUBSET S : g \in [D -> T]
    BY <1>1 DEF Maps
  <2> QED
    BY <2>1
<1>2. ASSUME g = [x \in DOMAIN g |-> g[x]], DOMAIN g \subseteq S, \A x \in DOMAIN g : g[x] \in T
      PROVE  g \in Maps(S, T)
  <2>1. g \in [DOMAIN g -> T] /\ DOMAIN g \in SUBSET S
    BY <1>2
  <2> QED
    BY <2>1 DEF Maps
<1> QED
  BY <1>1, <1>2

LEMMA ProgramsAre == Cardinality(Programs) \in Nat /\ Programs = 1..Cardinality(Programs)
BY PagingAssumption, FS_CardinalityType DEF PagingAssumption

\* The list of the segments of all programs has those of each, and no other.
LEMMA ListIs ==
  ASSUME NEW m \in Memory
  PROVE  LET L == lista_de_segmentos(m) IN
         /\ L \in Seq(SegmentType)
         /\ \A i \in 1..Len(L) : \E p \in Programs : \E k \in DOMAIN m.segment_table[p] : L[i] = m.segment_table[p][k]
         /\ \A p \in Programs : /\ Len(m.segment_table[p]) <= Len(L)
                                /\ \A k \in DOMAIN m.segment_table[p] : \E i \in 1..Len(L) : L[i] = m.segment_table[p][k]
<1> DEFINE T == m.segment_table
           L == lista_de_segmentos(m)
<1>1. T \in [Programs -> Seq(SegmentType)]
  BY DEF Memory
<1>2. T \in Seq(Seq(SegmentType)) /\ Programs = 1..Len(T) /\ Len(T) = Cardinality(Programs)
  BY <1>1, ProgramsAre
<1>3. \A p \in Programs : DOMAIN T[p] = 1..Len(T[p])
  BY <1>1
<1> HIDE DEF T
<1>4. /\ FlattenSeq(T) \in Seq(SegmentType)
      /\ \A i \in 1..Len(FlattenSeq(T)) : \E j \in 1..Len(T) : \E k \in 1..Len(T[j]) : FlattenSeq(T)[i] = T[j][k]
      /\ \A j \in 1..Len(T) : /\ Len(T[j]) <= Len(FlattenSeq(T))
                              /\ \A k \in 1..Len(T[j]) : \E i \in 1..Len(FlattenSeq(T)) : FlattenSeq(T)[i] = T[j][k]
  BY <1>2, FlattenIs
<1>5. L = FlattenSeq(T)
  BY DEF T, lista_de_segmentos
<1> HIDE DEF L
<1>6. /\ L \in Seq(SegmentType)
      /\ \A i \in 1..Len(L) : \E p \in Programs : \E k \in DOMAIN T[p] : L[i] = T[p][k]
      /\ \A p \in Programs : /\ Len(T[p]) <= Len(L)
                             /\ \A k \in DOMAIN T[p] : \E i \in 1..Len(L) : L[i] = T[p][k]
  <2>1. L \in Seq(SegmentType)
    BY <1>4, <1>5
  <2>2. \A i \in 1..Len(L) : \E p \in Programs : \E k \in DOMAIN T[p] : L[i] = T[p][k]
    BY <1>2, <1>3, <1>4, <1>5
  <2>3. \A p \in Programs : Len(T[p]) <= Len(L)
    BY <1>2, <1>4, <1>5
  <2>4. \A p \in Programs : \A k \in DOMAIN T[p] : \E i \in 1..Len(L) : L[i] = T[p][k]
    BY <1>2, <1>3, <1>4, <1>5
  <2> QED
    BY <2>1, <2>2, <2>3, <2>4
<1> QED
  BY <1>6 DEF L, T

\* The hand goes over the pages of every segment, and over nothing else.
EntryType == [seg : Nat, pag : Nat, id : Ids]

\* The clock meets exactly the pages of the segments.
LEMMA EntriesAre ==
  ASSUME NEW m \in Memory
  PROVE  LET L == lista_de_segmentos(m)
             E == Entries(m) IN
         /\ E \in Seq(EntryType)
         /\ \A i \in DOMAIN E : E[i].seg \in 1..Len(L) /\ E[i].id \in Range(L[E[i].seg].pages)
         /\ \A i \in 1..Len(L) : \A x \in Range(L[i].pages) : \E k \in DOMAIN E : E[k].id = x
<1> DEFINE L == lista_de_segmentos(m)
           One(i) == [k \in DOMAIN L[i].pages |-> [seg |-> i, pag |-> k, id |-> L[i].pages[k]]]
           Q == [i \in DOMAIN L |-> One(i)]
           E == FlattenSeq(Q)
<1>1. L \in Seq(SegmentType) /\ DOMAIN L = 1..Len(L) /\ Len(L) \in Nat
  BY ListIs
<1> HIDE DEF L
<1>2. ASSUME NEW i \in 1..Len(L)
      PROVE  One(i) \in Seq(EntryType) /\ Len(One(i)) = Len(L[i].pages) /\ DOMAIN L[i].pages = 1..Len(L[i].pages)
  <2>0. L[i] \in SegmentType
    BY <1>1
  <2>1. L[i].pages \in Seq(Ids)
    BY <2>0 DEF SegmentType
  <2>2. DOMAIN L[i].pages = 1..Len(L[i].pages) /\ Len(L[i].pages) \in Nat /\ i \in Nat
    BY <2>1
  <2>3. \A k \in 1..Len(L[i].pages) : [seg |-> i, pag |-> k, id |-> L[i].pages[k]] \in EntryType
    BY <2>1, <2>2 DEF EntryType
  <2> QED
    BY <2>2, <2>3
<1>3. Q \in Seq(Seq(EntryType)) /\ Len(Q) = Len(L)
  <2>1. \A i \in 1..Len(L) : One(i) \in Seq(EntryType)
    BY <1>2
  <2> HIDE DEF One
  <2> QED
    BY <1>1, <2>1
<1>4. /\ E \in Seq(EntryType)
      /\ \A i \in 1..Len(E) : \E j \in 1..Len(Q) : \E k \in 1..Len(Q[j]) : E[i] = Q[j][k]
      /\ \A j \in 1..Len(Q) : \A k \in 1..Len(Q[j]) : \E i \in 1..Len(E) : E[i] = Q[j][k]
  <2> HIDE DEF Q
  <2> QED
    BY <1>3, FlattenIs
<1>5. Entries(m) = E
  BY DEF Entries, L
<1> HIDE DEF E
<1>6. DOMAIN E = 1..Len(E)
  BY <1>4
<1>7. \A j \in 1..Len(L) : \A k \in 1..Len(L[j].pages) :
        /\ Q[j][k] = [seg |-> j, pag |-> k, id |-> L[j].pages[k]]
        /\ Len(Q[j]) = Len(L[j].pages)
  BY <1>1, <1>2
<1> HIDE DEF Q, One
<1>8. ASSUME NEW i \in DOMAIN E
      PROVE  E[i].seg \in 1..Len(L) /\ E[i].id \in Range(L[E[i].seg].pages)
  <2>0. PICK j \in 1..Len(L) : \E k \in 1..Len(Q[j]) : E[i] = Q[j][k]
    BY <1>3, <1>4, <1>6
  <2>1. PICK k \in 1..Len(Q[j]) : E[i] = Q[j][k]
    BY <2>0
  <2>2. Len(Q[j]) = Len(L[j].pages)
    BY <1>2, <1>1 DEF Q, One
  <2>3. E[i] = [seg |-> j, pag |-> k, id |-> L[j].pages[k]] /\ k \in DOMAIN L[j].pages
    BY <1>2, <1>7, <2>1, <2>2
  <2> QED
    BY <2>1, <2>3 DEF Range
<1>9. ASSUME NEW i \in 1..Len(L), NEW x \in Range(L[i].pages)
      PROVE  \E k \in DOMAIN E : E[k].id = x
  <2>1. PICK k \in DOMAIN L[i].pages : x = L[i].pages[k]
    BY DEF Range
  <2>2. k \in 1..Len(L[i].pages) /\ k \in 1..Len(Q[i]) /\ Q[i][k] = [seg |-> i, pag |-> k, id |-> x]
    BY <1>2, <1>7, <2>1
  <2>3. PICK n \in 1..Len(E) : E[n] = Q[i][k]
    BY <1>3, <1>4, <2>2
  <2> QED
    BY <1>6, <2>2, <2>3
<1>10. /\ E \in Seq(EntryType)
       /\ \A i \in DOMAIN E : E[i].seg \in 1..Len(L) /\ E[i].id \in Range(L[E[i].seg].pages)
       /\ \A i \in 1..Len(L) : \A x \in Range(L[i].pages) : \E k \in DOMAIN E : E[k].id = x
  BY <1>4, <1>8, <1>9
<1> QED
  BY <1>5, <1>10 DEF L

(***************************************************************************)
(* A frame for a page.                                                     *)
(***************************************************************************)
\* What the segments and the files are, which no load changes.
SameTables(m, t) ==
  /\ t.segment_table = m.segment_table /\ t.mapped = m.mapped /\ t.programas = m.programas
  /\ t.archivo = m.archivo /\ t.unmapped = m.unmapped

SamePlace(m, t, x) ==
  t.page[x].is_present = m.page[x].is_present /\ t.page[x].fr = m.page[x].fr

SameFree(m, t) ==
  /\ t.BITMAP_SWAP = m.BITMAP_SWAP /\ t.slot = m.slot /\ t.leaked = m.leaked
  /\ \A x \in DOMAIN m.page : SamePlace(m, t, x)

SameRest(m, t) ==
  /\ t \in Memory /\ SameTables(m, t) /\ DOMAIN t.page = DOMAIN m.page
  /\ t.frame = m.frame /\ t.want = m.want /\ t.stale = m.stale

\* The page v is moved from frame f to slot s.
Moved(m, t, v, f, s) ==
  /\ s \in m.BITMAP_SWAP /\ m.page[v].is_present /\ f = m.page[v].fr
  /\ ~t.page[v].is_present /\ t.page[v].fr = s
  /\ \A x \in DOMAIN m.page \ {v} : SamePlace(m, t, x)
  /\ t.BITMAP_SWAP = m.BITMAP_SWAP \ {s} /\ t.slot = [m.slot EXCEPT ![s] = m.frame[f]]
  /\ t.leaked = IF v[1] \in Programs THEN m.leaked ELSE m.leaked \cup {s}

TookFree(m, t, f) ==
  /\ f \in m.BITMAP /\ t.BITMAP = m.BITMAP \ {f} /\ SameFree(m, t)
  /\ t.fault = m.fault /\ t.overflow = m.overflow /\ t.segmentoClock = m.segmentoClock

TookNone(m, t, f) ==
  /\ m.BITMAP = {} /\ t.BITMAP = {} /\ SameFree(m, t)
  /\ t.fault \in {"clock", "hang"} /\ t.overflow = m.overflow /\ t.segmentoClock = m.segmentoClock
  /\ ClockBreaks(m) \/ ClockHangs(m, Entries(m))

TookShared(m, t, f) ==
  /\ m.BITMAP = {} /\ t.BITMAP = {} /\ m.BITMAP_SWAP = {} /\ SameFree(m, t)
  /\ t.fault = m.fault /\ t.overflow /\ t.segmentoClock <= Len(lista_de_segmentos(m))

TookVictims(m, t, f) ==
  /\ m.BITMAP = {} /\ t.BITMAP = {}
  /\ t.fault = m.fault /\ t.overflow = m.overflow /\ t.segmentoClock <= Len(lista_de_segmentos(m))
  /\ \E v \in DOMAIN m.page, s \in m.BITMAP_SWAP : Moved(m, t, v, f, s)

Took(m, t, f) ==
  /\ f \in Frames /\ SameRest(m, t)
  /\ TookFree(m, t, f) \/ TookNone(m, t, f) \/ TookShared(m, t, f) \/ TookVictims(m, t, f)

\* The pages of the segments are there, and those in memory are in a frame.
PagesInside(m) ==
  /\ \A p \in Programs : \A i \in DOMAIN m.segment_table[p] : Range(m.segment_table[p][i].pages) \subseteq DOMAIN m.page
  /\ \A x \in DOMAIN m.page :
       m.page[x].fr \in IF m.page[x].is_present THEN Frames ELSE IF x[1] \in Programs THEN Slots ELSE Frames \cup Slots

\* The victim is a page in memory of some segment.
LEMMA VictimIs ==
  ASSUME NEW m \in Memory, PagesInside(m), ~ClockHangs(m, Entries(m))
  PROVE  LET E == Entries(m)
             v == E[Choice(m, E).victim] IN
         /\ v \in EntryType /\ v.seg <= Len(lista_de_segmentos(m))
         /\ v.id \in DOMAIN m.page /\ m.page[v.id].is_present
<1> DEFINE L == lista_de_segmentos(m)
           E == Entries(m)
           c == Choice(m, E)
           v == E[c.victim]
<1>1. E \in Seq(EntryType) /\ \A i \in DOMAIN E : E[i].seg \in 1..Len(L) /\ E[i].id \in Range(L[E[i].seg].pages)
  BY EntriesAre
<1>2. /\ L \in Seq(SegmentType)
      /\ \A i \in 1..Len(L) : \E p \in Programs : \E k \in DOMAIN m.segment_table[p] : L[i] = m.segment_table[p][k]
  BY ListIs
<1> HIDE DEF E, L
<1>3. \A i \in DOMAIN E : E[i].id \in DOMAIN m.page
  BY <1>1, <1>2 DEF PagesInside
<1>4. c.victim \in {i \in DOMAIN E : m.page[E[i].id].is_present}
  <2> DEFINE present == {i \in DOMAIN E : m.page[E[i].id].is_present}
             used(i) == m.page[E[i].id].is_used
             modified(i) == m.page[E[i].id].is_modify
             passed(i) == \E j \in present : j < i /\ E[j].id = E[i].id
             ahead(i) == \/ E[i].seg > m.segmentoClock
                         \/ E[i].seg = m.segmentoClock /\ E[i].pag > m.paginaClock
             first == {i \in present : ahead(i) /\ ~used(i) /\ ~modified(i)}
             second == {i \in present : (~used(i) \/ passed(i)) /\ modified(i)}
             third == {i \in present : ~modified(i)}
  <2>1. present \in SUBSET Nat /\ present # {}
    <3>1. DOMAIN E \subseteq Nat
      BY <1>1
    <3> QED
      BY <3>1 DEF ClockHangs, E
  <2>2. first \subseteq present /\ second \subseteq present /\ third \subseteq present
    OBVIOUS
  <2>3. c = CASE first # {}                -> [victim |-> Min(first), cleared |-> {}]
              [] first = {} /\ second # {} -> [victim |-> Min(second), cleared |-> {i \in present : i < Min(second)}]
              [] OTHER -> [victim |-> Min(IF third # {} THEN third ELSE present), cleared |-> present]
    BY DEF Choice
  <2> HIDE DEF present, first, second, third, c
  <2>4. \A S \in SUBSET present : S # {} => Min(S) \in present
    BY <2>1, MinOf
  <2>5. c.victim = IF first # {} THEN Min(first) ELSE IF second # {} THEN Min(second)
                   ELSE Min(IF third # {} THEN third ELSE present)
    <3>1. CASE first # {}
      BY <2>3, <3>1
    <3>2. CASE first = {} /\ second # {}
      BY <2>3, <3>2
    <3>3. CASE first = {} /\ second = {}
      BY <2>3, <3>3
    <3> QED
      BY <3>1, <3>2, <3>3
  <2>6. c.victim \in present
    BY <2>1, <2>2, <2>4, <2>5
  <2> QED
    BY <2>6 DEF present
<1> HIDE DEF c
<1>5. v \in EntryType /\ v.seg \in 1..Len(L) /\ v.id \in DOMAIN m.page /\ m.page[v.id].is_present
  BY <1>1, <1>3, <1>4
<1>6. v.seg <= Len(L)
  BY <1>2, <1>5
<1> QED
  BY <1>5, <1>6 DEF E, c, L

\* The hand of the clock moves no page.
LEMMA PassedIs ==
  ASSUME NEW m \in Memory, NEW v \in EntryType, NEW cleared
  PROVE  LET t == Passed(m, v, cleared) IN
         /\ SameRest(m, t) /\ SameFree(m, t) /\ t.BITMAP = m.BITMAP
         /\ t.fault = m.fault /\ t.overflow = m.overflow /\ t.segmentoClock = v.seg
<1> DEFINE P == [x \in DOMAIN m.page |-> [m.page[x] EXCEPT !.is_used = @ /\ x \notin cleared]]
           t == [m EXCEPT !.page = P, !.segmentoClock = v.seg, !.paginaClock = v.pag]
<1>1. \A x \in DOMAIN m.page : m.page[x] \in PageType /\ DOMAIN m.page \subseteq Ids
  BY MapsAre DEF Memory
<1>2. \A x \in DOMAIN m.page : /\ P[x] \in PageType
                               /\ P[x].is_present = m.page[x].is_present /\ P[x].fr = m.page[x].fr
  BY <1>1 DEF PageType
<1>3. P \in Maps(Ids, PageType) /\ DOMAIN P = DOMAIN m.page
  <2>1. DOMAIN P = DOMAIN m.page /\ P = [x \in DOMAIN P |-> P[x]]
    OBVIOUS
  <2>2. DOMAIN P \subseteq Ids
    BY <1>1, <2>1, MapsAre DEF Memory
  <2>3. \A x \in DOMAIN P : P[x] \in PageType
    BY <1>2, <2>1
  <2> HIDE DEF P
  <2> QED
    BY <2>1, <2>2, <2>3, MapsAre
<1>4. Passed(m, v, cleared) = t
  BY DEF Passed, HandAt
<1> HIDE DEF P
<1>5. v.seg \in Nat /\ v.pag \in Nat
  BY DEF EntryType
<1>6. t \in Memory
  BY <1>3, <1>5 DEF Memory
<1>7. /\ t.page = P /\ SameTables(m, t) /\ t.BITMAP_SWAP = m.BITMAP_SWAP /\ t.slot = m.slot /\ t.leaked = m.leaked
      /\ t.frame = m.frame /\ t.want = m.want /\ t.stale = m.stale /\ t.BITMAP = m.BITMAP
      /\ t.fault = m.fault /\ t.overflow = m.overflow /\ t.segmentoClock = v.seg
  BY DEF Memory, SameTables
<1> HIDE DEF t
<1> QED
  BY <1>2, <1>3, <1>4, <1>6, <1>7 DEF SameRest, SameFree, SamePlace

\* The victim goes to a free slot, or stays and the overflow is noted.
LEMMA EvictIs ==
  ASSUME NEW m \in Memory, NEW v \in DOMAIN m.page, m.page[v].is_present, m.page[v].fr \in Frames
  PROVE  LET t == se_hace_la_vistima(m, v) IN
         /\ SameRest(m, t)
         /\ t.BITMAP = m.BITMAP /\ t.fault = m.fault /\ t.segmentoClock = m.segmentoClock
         /\ \/ m.BITMAP_SWAP = {} /\ SameFree(m, t) /\ t.overflow
            \/ t.overflow = m.overflow /\ \E s \in m.BITMAP_SWAP : Moved(m, t, v, m.page[v].fr, s)
<1>1. CASE m.BITMAP_SWAP = {}
  <2> DEFINE t == [m EXCEPT !.overflow = TRUE]
  <2>1. se_hace_la_vistima(m, v) = t
    BY <1>1 DEF se_hace_la_vistima, frame_swap_libre
  <2>2. t \in Memory
    BY DEF Memory
  <2>3. /\ SameTables(m, t) /\ DOMAIN t.page = DOMAIN m.page /\ t.frame = m.frame /\ t.want = m.want
        /\ t.stale = m.stale /\ t.BITMAP = m.BITMAP /\ t.fault = m.fault
        /\ t.segmentoClock = m.segmentoClock /\ SameFree(m, t) /\ t.overflow
    BY DEF Memory, SameTables, SameFree, SamePlace
  <2> HIDE DEF t
  <2> QED
    BY <1>1, <2>1, <2>2, <2>3 DEF SameRest
<1>2. CASE m.BITMAP_SWAP # {}
  <2> DEFINE s == Min(m.BITMAP_SWAP)
             f == m.page[v].fr
             here == [[m.page[v] EXCEPT !.fr = s] EXCEPT !.is_present = FALSE]
             P == [m.page EXCEPT ![v] = here]
             S == [m.slot EXCEPT ![s] = m.frame[f]]
             K == IF v[1] \in Programs THEN m.leaked ELSE m.leaked \cup {s}
             t == [m EXCEPT !.BITMAP_SWAP = @ \ {s}, !.slot = S, !.page = P, !.leaked = K]
  <2>1. s \in m.BITMAP_SWAP /\ s \in Slots
    <3>1. m.BITMAP_SWAP \in SUBSET Slots /\ Slots \in SUBSET Nat
      BY PagingAssumption DEF Memory, PagingAssumption
    <3>2. m.BITMAP_SWAP \in SUBSET Nat
      BY <3>1
    <3>3. s \in m.BITMAP_SWAP
      BY <1>2, <3>2, MinOf
    <3> QED
      BY <3>1, <3>3
  <2> HIDE DEF s
  <2>2. m.page \in Maps(Ids, PageType) /\ m.page[v] \in PageType
    BY MapsAre DEF Memory
  <2>3. here \in PageType /\ here.fr = s /\ here.is_present = FALSE
    BY <2>1, <2>2 DEF PageType
  <2> HIDE DEF here
  <2>4. /\ P \in Maps(Ids, PageType) /\ DOMAIN P = DOMAIN m.page
        /\ P[v] = here /\ \A x \in DOMAIN m.page \ {v} : P[x] = m.page[x]
    <3>1. m.page = [x \in DOMAIN m.page |-> m.page[x]] /\ DOMAIN m.page \subseteq Ids
          /\ \A x \in DOMAIN m.page : m.page[x] \in PageType
      BY <2>2, MapsAre
    <3>2. DOMAIN P = DOMAIN m.page /\ P = [x \in DOMAIN P |-> P[x]]
          /\ P[v] = here /\ \A x \in DOMAIN m.page \ {v} : P[x] = m.page[x]
      BY <3>1
    <3>3. \A x \in DOMAIN P : P[x] \in PageType
      BY <2>3, <3>1, <3>2
    <3> HIDE DEF P
    <3> QED
      BY <3>1, <3>2, <3>3, MapsAre
  <2>5. S \in [Slots -> Bytes]
    <3>1. m.slot \in [Slots -> Bytes] /\ m.frame \in [Frames -> Bytes]
      BY DEF Memory
    <3> QED
      BY <3>1
  <2>6. K \in SUBSET Slots /\ m.BITMAP_SWAP \ {s} \in SUBSET Slots
    BY <2>1 DEF Memory
  <2>7. se_hace_la_vistima(m, v) = t
    BY <1>2 DEF se_hace_la_vistima, frame_swap_libre, s, here
  <2> HIDE DEF P, S, K
  <2>8. t \in Memory
    BY <2>4, <2>5, <2>6 DEF Memory
  <2>9. /\ SameTables(m, t) /\ t.frame = m.frame /\ t.want = m.want
        /\ t.stale = m.stale /\ t.BITMAP = m.BITMAP /\ t.fault = m.fault
        /\ t.segmentoClock = m.segmentoClock /\ t.overflow = m.overflow
        /\ t.page = P /\ t.slot = S /\ t.leaked = K /\ t.BITMAP_SWAP = m.BITMAP_SWAP \ {s}
    BY DEF Memory, SameTables
  <2> HIDE DEF t
  <2>10. Moved(m, t, v, f, s)
    BY <2>1, <2>3, <2>4, <2>9 DEF Moved, SamePlace, S, K
  <2> QED
    BY <2>1, <2>4, <2>7, <2>8, <2>9, <2>10 DEF SameRest
<1> QED
  BY <1>1, <1>2

\* A frame is found in one of the four ways of Took.
LEMMA TakeFrameIs ==
  ASSUME NEW m \in Memory, PagesInside(m)
  PROVE  Took(m, TakeFrame(m).m, TakeFrame(m).frame)
<1> DEFINE E == Entries(m)
           r == TakeFrame(m)
<1>0. /\ m.BITMAP \in SUBSET Frames /\ Frames \in SUBSET Nat /\ Frames # {}
      /\ \A x \in DOMAIN m.page : SamePlace(m, m, x)
  BY PagingAssumption DEF Memory, PagingAssumption, SamePlace
<1>1. CASE m.BITMAP # {}
  <2> DEFINE f == Min(m.BITMAP)
             t == [m EXCEPT !.BITMAP = @ \ {f}]
  <2>1. f \in m.BITMAP
    BY <1>0, <1>1, MinOf
  <2> HIDE DEF f
  <2>2. r = [m |-> t, frame |-> f]
    BY <1>1 DEF TakeFrame, FrameOrVictim, f
  <2>3. t \in Memory
    BY DEF Memory
  <2>4. /\ SameTables(m, t) /\ t.page = m.page /\ t.frame = m.frame /\ t.want = m.want
        /\ t.stale = m.stale /\ t.BITMAP = m.BITMAP \ {f} /\ t.fault = m.fault /\ t.overflow = m.overflow
        /\ t.BITMAP_SWAP = m.BITMAP_SWAP /\ t.slot = m.slot /\ t.leaked = m.leaked
        /\ t.segmentoClock = m.segmentoClock
    BY DEF Memory, SameTables
  <2> HIDE DEF t
  <2>5. TookFree(m, t, f) /\ SameRest(m, t) /\ f \in Frames
    BY <1>0, <2>1, <2>3, <2>4 DEF TookFree, SameRest, SameFree, SamePlace
  <2> QED
    BY <2>2, <2>5 DEF Took
<1>2. ASSUME m.BITMAP = {}, NEW x \in {"clock", "hang"}, ClockBreaks(m) \/ ClockHangs(m, E),
             r = [m |-> [m EXCEPT !.fault = x], frame |-> Min(Frames)]
      PROVE  Took(m, r.m, r.frame)
  <2> DEFINE t == [m EXCEPT !.fault = x]
  <2>1. Min(Frames) \in Frames
    BY <1>0, MinOf
  <2>2. t \in Memory
    BY DEF Memory, Faults
  <2>3. /\ SameTables(m, t) /\ t.page = m.page /\ t.frame = m.frame /\ t.want = m.want
        /\ t.stale = m.stale /\ t.BITMAP = m.BITMAP /\ t.fault = x /\ t.overflow = m.overflow
        /\ t.BITMAP_SWAP = m.BITMAP_SWAP /\ t.slot = m.slot /\ t.leaked = m.leaked
        /\ t.segmentoClock = m.segmentoClock
    BY DEF Memory, SameTables
  <2> HIDE DEF t
  <2>4. TookNone(m, t, Min(Frames)) /\ SameRest(m, t)
    BY <1>2, <2>2, <2>3 DEF TookNone, SameRest, SameFree, SamePlace
  <2>5. r.m = t /\ r.frame = Min(Frames)
    BY <1>2 DEF t
  <2> HIDE DEF r
  <2> QED
    BY <2>1, <2>4, <2>5 DEF Took
<1>3. CASE m.BITMAP = {} /\ ClockBreaks(m)
  <2>1. r = [m |-> [m EXCEPT !.fault = "clock"], frame |-> Min(Frames)]
    BY <1>3 DEF TakeFrame, FrameOrVictim
  <2> QED
    BY <1>2, <1>3, <2>1
<1>4. CASE m.BITMAP = {} /\ ~ClockBreaks(m) /\ ClockHangs(m, E)
  <2>1. r = [m |-> [m EXCEPT !.fault = "hang"], frame |-> Min(Frames)]
    BY <1>4 DEF TakeFrame, FrameOrVictim
  <2> QED
    BY <1>2, <1>4, <2>1
<1>5. CASE m.BITMAP = {} /\ ~ClockBreaks(m) /\ ~ClockHangs(m, E)
  <2> DEFINE c == Choice(m, E)
             v == E[c.victim]
             u == Passed(m, v, {E[i].id : i \in c.cleared})
             t == se_hace_la_vistima(u, v.id)
             f == m.page[v.id].fr
  <2>1. r = [m |-> t, frame |-> f]
    BY <1>5 DEF TakeFrame, FrameOrVictim, dame_nro_frame_reemplazado, Replace
  <2>2. /\ v \in EntryType /\ v.seg <= Len(lista_de_segmentos(m))
        /\ v.id \in DOMAIN m.page /\ m.page[v.id].is_present
    BY <1>5, VictimIs
  <2> HIDE DEF v, c
  <2>3. SameRest(m, u) /\ SameFree(m, u) /\ u.BITMAP = m.BITMAP
        /\ u.fault = m.fault /\ u.overflow = m.overflow /\ u.segmentoClock = v.seg
    BY <2>2, PassedIs
  <2> HIDE DEF u
  <2> DEFINE w == v.id
  <2>4. f \in Frames /\ u \in Memory /\ w \in DOMAIN u.page /\ u.page[w].is_present /\ u.page[w].fr = f
    BY <2>2, <2>3 DEF PagesInside, SameRest, SameFree, SamePlace
  <2>5. /\ SameRest(u, t)
        /\ t.BITMAP = u.BITMAP /\ t.fault = u.fault /\ t.segmentoClock = u.segmentoClock
        /\ \/ u.BITMAP_SWAP = {} /\ SameFree(u, t) /\ t.overflow
           \/ t.overflow = u.overflow /\ \E s \in u.BITMAP_SWAP : Moved(u, t, w, f, s)
    BY <2>4, EvictIs
  <2> HIDE DEF t, w
  <2>6. SameRest(m, t)
    BY <2>3, <2>5 DEF SameRest, SameTables
  <2>7. ASSUME u.BITMAP_SWAP = {}, SameFree(u, t), t.overflow
        PROVE  TookShared(m, t, f)
    BY <1>5, <2>2, <2>3, <2>5, <2>7 DEF TookShared, SameFree, SamePlace, SameRest
  <2>8. ASSUME NEW s \in u.BITMAP_SWAP, t.overflow = u.overflow, Moved(u, t, w, f, s)
        PROVE  TookVictims(m, t, f)
    <3>1. Moved(m, t, w, f, s) /\ s \in m.BITMAP_SWAP
      BY <2>2, <2>3, <2>4, <2>8 DEF Moved, SameRest, SameFree, SamePlace, w
    <3> QED
      BY <1>5, <2>2, <2>3, <2>5, <2>8, <3>1 DEF TookVictims, w
  <2>9. TookShared(m, t, f) \/ TookVictims(m, t, f)
    BY <2>5, <2>7, <2>8
  <2> QED
    BY <2>1, <2>4, <2>6, <2>9 DEF Took
<1> QED
  BY <1>1, <1>3, <1>4, <1>5

(***************************************************************************)
(* The load of a page.                                                     *)
(***************************************************************************)
Placed(m, r, x, f, contents, frees) ==
  /\ r \in Memory /\ SameTables(m, r) /\ DOMAIN r.page = DOMAIN m.page
  /\ r.want = m.want /\ r.stale = m.stale /\ r.BITMAP = m.BITMAP /\ r.slot = m.slot /\ r.leaked = m.leaked
  /\ r.fault = m.fault /\ r.overflow = m.overflow /\ r.segmentoClock = m.segmentoClock
  /\ r.page[x].is_present /\ r.page[x].fr = f
  /\ \A y \in DOMAIN m.page \ {x} : SamePlace(m, r, y)
  /\ r.frame = [m.frame EXCEPT ![f] = contents]
  /\ r.BITMAP_SWAP = m.BITMAP_SWAP \cup frees

\* The frame found is given to the page x.
LEMMA PlaceIs ==
  ASSUME NEW t, t.m \in Memory, t.frame \in Frames, NEW x \in DOMAIN t.m.page,
         NEW contents \in Bytes, NEW frees \in SUBSET Slots
  PROVE  Placed(t.m, Place(t, x, contents, frees), x, t.frame, contents, frees)
<1> DEFINE m == t.m
           f == t.frame
           here == [[[m.page[x] EXCEPT !.is_present = TRUE] EXCEPT !.is_used = TRUE] EXCEPT !.fr = f]
           P == [m.page EXCEPT ![x] = here]
           C == [m.frame EXCEPT ![f] = contents]
           r == [m EXCEPT !.page = P, !.frame = C, !.BITMAP_SWAP = @ \cup frees]
<1>1. Place(t, x, contents, frees) = r
  BY DEF Place
<1> HIDE DEF m, f
<1>2. m \in Memory /\ f \in Frames /\ x \in DOMAIN m.page
  BY DEF m, f
<1>3. m.page = [y \in DOMAIN m.page |-> m.page[y]] /\ DOMAIN m.page \subseteq Ids
      /\ \A y \in DOMAIN m.page : m.page[y] \in PageType
  BY <1>2, MapsAre DEF Memory
<1>4. here \in PageType /\ here.fr = f /\ here.is_present = TRUE
  BY <1>2, <1>3 DEF PageType
<1> HIDE DEF here
<1>5. /\ P \in Maps(Ids, PageType) /\ DOMAIN P = DOMAIN m.page
      /\ P[x] = here /\ \A y \in DOMAIN m.page \ {x} : P[y] = m.page[y]
  <2>1. DOMAIN P = DOMAIN m.page /\ P = [y \in DOMAIN P |-> P[y]]
        /\ P[x] = here /\ \A y \in DOMAIN m.page \ {x} : P[y] = m.page[y]
    BY <1>2, <1>3
  <2>2. \A y \in DOMAIN P : P[y] \in PageType
    BY <1>3, <1>4, <2>1
  <2> HIDE DEF P
  <2> QED
    BY <1>3, <2>1, <2>2, MapsAre
<1>6. C \in [Frames -> Bytes]
  <2>1. m.frame \in [Frames -> Bytes]
    BY <1>2 DEF Memory
  <2> QED
    BY <2>1
<1> HIDE DEF P, C
<1>7. r \in Memory
  BY <1>2, <1>5, <1>6 DEF Memory
<1>8. /\ SameTables(m, r) /\ r.want = m.want /\ r.stale = m.stale /\ r.BITMAP = m.BITMAP /\ r.slot = m.slot
      /\ r.leaked = m.leaked /\ r.fault = m.fault /\ r.overflow = m.overflow
      /\ r.segmentoClock = m.segmentoClock
      /\ r.page = P /\ r.frame = C /\ r.BITMAP_SWAP = m.BITMAP_SWAP \cup frees
  BY <1>2 DEF Memory, SameTables
<1> HIDE DEF r
<1>9. Placed(m, r, x, f, contents, frees)
  BY <1>4, <1>5, <1>7, <1>8 DEF Placed, SamePlace, C
<1> QED
  BY <1>1, <1>9 DEF m, f

(***************************************************************************)
(* Who owns the frames and the slots, and what is in them.                 *)
(***************************************************************************)
SoundIn(m) == m.fault = "none" /\ ~m.overflow

InFrame(m, x) == x \in DOMAIN m.page /\ m.page[x].is_present
InSlot(m, x) == x \in DOMAIN m.page /\ x[1] \in Programs /\ ~m.page[x].is_present

\* Every frame is free, in the hand of the request or that of one page.
FramesOwned(m, hand) ==
  /\ \A x, y : InFrame(m, x) /\ InFrame(m, y) /\ m.page[x].fr = m.page[y].fr => x = y
  /\ \A x : InFrame(m, x) => m.page[x].fr \notin m.BITMAP \cup hand
  /\ hand \cap m.BITMAP = {}
  /\ \A f \in Frames \ (m.BITMAP \cup hand) : \E x : InFrame(m, x) /\ m.page[x].fr = f

\* Every slot is free, lost, or that of one heap page.
SlotsOwned(m) ==
  /\ \A x, y : InSlot(m, x) /\ InSlot(m, y) /\ m.page[x].fr = m.page[y].fr => x = y
  /\ \A x : InSlot(m, x) => m.page[x].fr \notin m.BITMAP_SWAP \cup m.leaked
  /\ m.leaked \cap m.BITMAP_SWAP = {}
  /\ \A s \in Slots \ (m.BITMAP_SWAP \cup m.leaked) : \E x : InSlot(m, x) /\ m.page[x].fr = s

ContentsKept(m) ==
  /\ \A x : InFrame(m, x) /\ (x[1] \in Programs \/ x \notin m.stale) => m.frame[m.page[x].fr] = m.want[x]
  /\ \A x : InSlot(m, x) => m.slot[m.page[x].fr] = m.want[x]

Owned(m, hand) == SoundIn(m) => FramesOwned(m, hand) /\ SlotsOwned(m) /\ ContentsKept(m)

\* The frame found is in the hand of the request, and owned by no page.
LEMMA TookOwned ==
  ASSUME NEW m \in Memory, PagesInside(m), Owned(m, {}), NEW t, NEW f, Took(m, t, f)
  PROVE  Owned(t, {f}) /\ PagesInside(t)
<1>1. SameRest(m, t) /\ f \in Frames
  BY DEF Took
<1>2. CASE TookNone(m, t, f) \/ TookShared(m, t, f)
  <2>1. ~SoundIn(t) /\ SameFree(m, t)
    BY <1>2 DEF TookNone, TookShared, SoundIn
  <2>2. PagesInside(t)
    BY <1>1, <2>1 DEF PagesInside, SameRest, SameTables, SameFree, SamePlace
  <2> QED
    BY <2>1, <2>2 DEF Owned
<1>3. CASE TookFree(m, t, f)
  <2>1. SameFree(m, t) /\ (SoundIn(t) => SoundIn(m)) /\ t.BITMAP = m.BITMAP \ {f} /\ f \in m.BITMAP
    BY <1>3 DEF TookFree, SoundIn
  <2>2. PagesInside(t)
    BY <1>1, <2>1 DEF PagesInside, SameRest, SameTables, SameFree, SamePlace
  <2>3. ASSUME SoundIn(t)
        PROVE  FramesOwned(t, {f}) /\ SlotsOwned(t) /\ ContentsKept(t)
    <3>1. FramesOwned(m, {}) /\ SlotsOwned(m) /\ ContentsKept(m)
      BY <2>1, <2>3 DEF Owned
    <3>2. \A x : /\ InFrame(t, x) <=> InFrame(m, x)
                 /\ InSlot(t, x) <=> InSlot(m, x)
                 /\ x \in DOMAIN m.page => t.page[x].fr = m.page[x].fr
      BY <1>1, <2>1 DEF SameRest, SameFree, SamePlace, InFrame, InSlot
    <3>3. FramesOwned(t, {f})
      BY <2>1, <3>1, <3>2 DEF FramesOwned, InFrame
    <3>4. SlotsOwned(t)
      BY <2>1, <3>1, <3>2 DEF SlotsOwned, SameFree, InSlot
    <3>5. ContentsKept(t)
      BY <1>1, <2>1, <3>1, <3>2 DEF ContentsKept, SameFree, SameRest, InFrame, InSlot
    <3> QED
      BY <3>3, <3>4, <3>5
  <2> QED
    BY <2>2, <2>3 DEF Owned
<1>4. CASE TookVictims(m, t, f)
  <2>1. PICK v \in DOMAIN m.page, s \in m.BITMAP_SWAP : Moved(m, t, v, f, s)
    BY <1>4 DEF TookVictims
  <2>2. /\ m.BITMAP = {} /\ t.BITMAP = {} /\ (SoundIn(t) => SoundIn(m))
        /\ s \in Slots
    BY <1>4 DEF TookVictims, SoundIn, Memory
  <2>3. PagesInside(t)
    BY <1>1, <2>1, <2>2 DEF PagesInside, SameRest, SameTables, Moved, SamePlace
  <2>4. ASSUME SoundIn(t)
        PROVE  FramesOwned(t, {f}) /\ SlotsOwned(t) /\ ContentsKept(t)
    <3>1. FramesOwned(m, {}) /\ SlotsOwned(m) /\ ContentsKept(m)
      BY <2>2, <2>4 DEF Owned
    <3>2. \A x : /\ InFrame(t, x) <=> InFrame(m, x) /\ x # v
                 /\ InSlot(t, x) <=> InSlot(m, x) \/ (x = v /\ v[1] \in Programs)
                 /\ x \in DOMAIN m.page /\ x # v => t.page[x].fr = m.page[x].fr
      BY <1>1, <2>1 DEF SameRest, Moved, SamePlace, InFrame, InSlot
    <3>3. InFrame(m, v) /\ m.page[v].fr = f /\ t.page[v].fr = s /\ ~InSlot(m, v)
      BY <2>1 DEF Moved, InFrame, InSlot
    <3>4. FramesOwned(t, {f})
      BY <2>2, <3>1, <3>2, <3>3 DEF FramesOwned, InFrame
    <3>5. /\ t.BITMAP_SWAP = m.BITMAP_SWAP \ {s} /\ t.slot = [m.slot EXCEPT ![s] = m.frame[f]]
          /\ t.leaked = IF v[1] \in Programs THEN m.leaked ELSE m.leaked \cup {s}
          /\ m.slot \in [Slots -> Bytes]
      BY <2>1 DEF Moved, Memory
    <3>6. SlotsOwned(t)
      <4>1. \A x : InSlot(m, x) => x # v /\ m.page[x].fr # s /\ t.page[x].fr = m.page[x].fr
        BY <3>1, <3>2, <3>3 DEF SlotsOwned, InSlot
      <4>2. \A x, y : InSlot(t, x) /\ InSlot(t, y) /\ t.page[x].fr = t.page[y].fr => x = y
        BY <3>1, <3>2, <3>3, <4>1 DEF SlotsOwned
      <4>3. \A x : InSlot(t, x) => t.page[x].fr \notin t.BITMAP_SWAP \cup t.leaked
        BY <3>1, <3>2, <3>3, <3>5, <4>1 DEF SlotsOwned
      <4>4. t.leaked \cap t.BITMAP_SWAP = {}
        BY <3>1, <3>5 DEF SlotsOwned
      <4>5. \A z \in Slots \ (t.BITMAP_SWAP \cup t.leaked) : \E x : InSlot(t, x) /\ t.page[x].fr = z
        <5> TAKE z \in Slots \ (t.BITMAP_SWAP \cup t.leaked)
        <5>1. CASE z = s
          <6>1. v[1] \in Programs
            BY <3>5, <5>1
          <6> QED
            BY <3>2, <3>3, <5>1, <6>1
        <5>2. CASE z # s
          <6>1. z \in Slots \ (m.BITMAP_SWAP \cup m.leaked)
            BY <3>5, <5>2
          <6>2. PICK x : InSlot(m, x) /\ m.page[x].fr = z
            BY <3>1, <6>1 DEF SlotsOwned
          <6> QED
            BY <3>2, <4>1, <6>2
        <5> QED
          BY <5>1, <5>2
      <4> QED
        BY <4>2, <4>3, <4>4, <4>5 DEF SlotsOwned
    <3>7. ContentsKept(t)
      <4>1. t.frame = m.frame /\ t.want = m.want /\ t.stale = m.stale
        BY <1>1 DEF SameRest
      <4>2. \A x : InSlot(m, x) => x # v /\ m.page[x].fr # s /\ t.page[x].fr = m.page[x].fr /\ m.page[x].fr \in Slots
        BY <3>1, <3>2, <3>3 DEF SlotsOwned, InSlot, PagesInside
      <4>3. t.slot[s] = m.frame[f] /\ \A z \in Slots : z # s => t.slot[z] = m.slot[z]
        BY <2>2, <3>5
      <4>4. \A x : InFrame(t, x) => t.page[x].fr = m.page[x].fr /\ InFrame(m, x)
        BY <3>2 DEF InFrame
      <4>5. \A x : InFrame(t, x) /\ (x[1] \in Programs \/ x \notin t.stale) => t.frame[t.page[x].fr] = t.want[x]
        BY <3>1, <4>1, <4>4 DEF ContentsKept
      <4>6. \A x : InSlot(t, x) => t.slot[t.page[x].fr] = t.want[x]
        BY <3>1, <3>2, <3>3, <4>1, <4>2, <4>3 DEF ContentsKept
      <4> QED
        BY <4>5, <4>6 DEF ContentsKept
    <3> QED
      BY <3>4, <3>6, <3>7
  <2> QED
    BY <2>3, <2>4 DEF Owned
<1> QED
  BY <1>2, <1>3, <1>4 DEF Took

\* The page x comes in from its slot, which is freed.
LEMMA HeapPlaced ==
  ASSUME NEW m \in Memory, PagesInside(m), Owned(m, {}),
         NEW x \in DOMAIN m.page, x[1] \in Programs, ~m.page[x].is_present,
         NEW t, NEW f, Took(m, t, f), NEW r, NEW s, s = m.page[x].fr,
         Placed(t, r, x, f, m.slot[s], {s})
  PROVE  PagesInside(r) /\ Owned(r, {})
<1>1. Owned(t, {f}) /\ PagesInside(t) /\ SameRest(m, t) /\ f \in Frames
  BY TookOwned DEF Took
<1>2. SamePlace(m, t, x)
  BY DEF Took, TookFree, TookNone, TookShared, TookVictims, SameFree, Moved
<1>3. /\ DOMAIN t.page = DOMAIN m.page /\ DOMAIN r.page = DOMAIN m.page
      /\ ~t.page[x].is_present /\ t.page[x].fr = s /\ r.page[x].is_present /\ r.page[x].fr = f
  BY <1>1, <1>2 DEF SameRest, SamePlace, Placed
<1>4. \A y \in DOMAIN m.page \ {x} : r.page[y].is_present = t.page[y].is_present /\ r.page[y].fr = t.page[y].fr
  BY <1>3 DEF Placed, SamePlace
<1>5. PagesInside(r)
  BY <1>1, <1>3, <1>4 DEF PagesInside, Placed, SameTables
<1>6. ASSUME SoundIn(r)
      PROVE  FramesOwned(r, {}) /\ SlotsOwned(r) /\ ContentsKept(r)
  <2>1. SoundIn(t)
    BY <1>6 DEF SoundIn, Placed
  <2>2. FramesOwned(t, {f}) /\ SlotsOwned(t) /\ ContentsKept(t)
    BY <1>1, <2>1 DEF Owned
  <2>3. \A y : /\ InFrame(r, y) <=> InFrame(t, y) \/ y = x
               /\ InSlot(r, y) <=> InSlot(t, y) /\ y # x
               /\ y \in DOMAIN m.page /\ y # x => r.page[y].fr = t.page[y].fr
    BY <1>3, <1>4 DEF InFrame, InSlot
  <2>4. InSlot(t, x) /\ ~InFrame(t, x) /\ t.page[x].fr = s /\ r.page[x].fr = f /\ InFrame(r, x)
    BY <1>3, <2>3 DEF InSlot, InFrame
  <2>5. FramesOwned(r, {})
    <3>1. r.BITMAP = t.BITMAP
      BY DEF Placed
    <3>2. \A y : InFrame(r, y) /\ y # x => InFrame(t, y) /\ r.page[y].fr = t.page[y].fr
                                         /\ t.page[y].fr # f /\ t.page[y].fr \notin t.BITMAP
      BY <1>3, <2>2, <2>3 DEF FramesOwned, InFrame
    <3>3. f \notin t.BITMAP
      BY <2>2 DEF FramesOwned
    <3>4. \A g \in Frames \ r.BITMAP : \E y : InFrame(r, y) /\ r.page[y].fr = g
      BY <1>3, <2>2, <2>3, <2>4, <3>1 DEF FramesOwned, InFrame
    <3>5. \A y, z : InFrame(r, y) /\ InFrame(r, z) /\ r.page[y].fr = r.page[z].fr => y = z
      BY <2>2, <2>4, <3>2 DEF FramesOwned
    <3> QED
      BY <2>4, <3>1, <3>2, <3>3, <3>4, <3>5 DEF FramesOwned
  <2>6. SlotsOwned(r)
    <3>1. r.BITMAP_SWAP = t.BITMAP_SWAP \cup {s} /\ r.leaked = t.leaked
      BY DEF Placed
    <3>2. \A y : InSlot(r, y) => InSlot(t, y) /\ r.page[y].fr = t.page[y].fr /\ t.page[y].fr # s
      BY <1>3, <2>2, <2>3, <2>4 DEF SlotsOwned, InSlot
    <3>3. s \notin t.leaked
      BY <2>2, <2>4 DEF SlotsOwned
    <3>4. \A z \in Slots \ (r.BITMAP_SWAP \cup r.leaked) : \E y : InSlot(r, y) /\ r.page[y].fr = z
      <4> TAKE z \in Slots \ (r.BITMAP_SWAP \cup r.leaked)
      <4>1. PICK y : InSlot(t, y) /\ t.page[y].fr = z
        BY <2>2, <3>1 DEF SlotsOwned
      <4>2. y # x /\ y \in DOMAIN m.page
        BY <1>3, <2>4, <3>1, <4>1 DEF InSlot
      <4> QED
        BY <2>3, <4>1, <4>2
    <3> QED
      BY <2>2, <3>1, <3>2, <3>3, <3>4 DEF SlotsOwned
  <2>7. ContentsKept(r)
    <3>1. /\ r.want = t.want /\ r.stale = t.stale /\ r.slot = t.slot
          /\ r.frame = [t.frame EXCEPT ![f] = m.slot[s]] /\ t.frame \in [Frames -> Bytes]
      BY <1>1 DEF Placed, SameRest, Memory
    <3>2. m.slot[s] = m.want[x] /\ t.want = m.want
      <4>1. SoundIn(m)
        BY <2>1 DEF Took, TookFree, TookNone, TookShared, TookVictims, SoundIn
      <4>2. ContentsKept(m) /\ InSlot(m, x)
        BY <4>1 DEF Owned, InSlot
      <4> QED
        BY <1>1, <4>2 DEF ContentsKept, SameRest
    <3>3. \A y : InFrame(r, y) /\ y # x => InFrame(t, y) /\ r.page[y].fr = t.page[y].fr
                                         /\ t.page[y].fr # f /\ t.page[y].fr \in Frames
      BY <1>1, <1>3, <2>2, <2>3 DEF FramesOwned, InFrame, PagesInside
    <3>4. \A y : InSlot(r, y) => InSlot(t, y) /\ r.page[y].fr = t.page[y].fr
      BY <1>3, <2>3 DEF InSlot
    <3>5. r.frame[f] = m.slot[s] /\ \A g \in Frames : g # f => r.frame[g] = t.frame[g]
      BY <1>1, <3>1
    <3>6. \A y : InFrame(r, y) /\ (y[1] \in Programs \/ y \notin r.stale) => r.frame[r.page[y].fr] = r.want[y]
      BY <2>2, <2>4, <3>1, <3>2, <3>3, <3>5 DEF ContentsKept
    <3>7. \A y : InSlot(r, y) => r.slot[r.page[y].fr] = r.want[y]
      BY <2>2, <3>1, <3>4 DEF ContentsKept
    <3> QED
      BY <3>6, <3>7 DEF ContentsKept
  <2> QED
    BY <2>5, <2>6, <2>7
<1> QED
  BY <1>5, <1>6 DEF Owned

\* A page of a file is read again; it is what the file has, or zeroes.
LEMMA FilePlaced ==
  ASSUME NEW m \in Memory, PagesInside(m), Owned(m, {}), DOMAIN m.want = DOMAIN m.page,
         NEW x \in DOMAIN m.page, x[1] \notin Programs, ~m.page[x].is_present,
         NEW t, NEW f, Took(m, t, f), NEW contents, NEW bytes, NEW q, Placed(t, q, x, f, contents, {}),
         NEW r, SameTables(q, r), r.page = q.page, r.BITMAP = q.BITMAP, r.BITMAP_SWAP = q.BITMAP_SWAP,
         r.frame = q.frame, r.slot = q.slot, r.leaked = q.leaked, r.fault = q.fault, r.overflow = q.overflow,
         r.want = q.want,
         r.stale = IF contents = Zeros \/ bytes # m.want[x] THEN q.stale \cup {x} ELSE q.stale \ {x},
         contents \in {Zeros, bytes}
  PROVE  PagesInside(r) /\ Owned(r, {})
<1>1. Owned(t, {f}) /\ PagesInside(t) /\ SameRest(m, t) /\ f \in Frames
  BY TookOwned DEF Took
<1>2. SamePlace(m, t, x)
  BY DEF Took, TookFree, TookNone, TookShared, TookVictims, SameFree, Moved
<1>3. /\ DOMAIN t.page = DOMAIN m.page /\ DOMAIN r.page = DOMAIN m.page
      /\ ~t.page[x].is_present /\ r.page[x].is_present /\ r.page[x].fr = f
  BY <1>1, <1>2 DEF SameRest, SamePlace, Placed
<1>4. \A y \in DOMAIN m.page \ {x} : r.page[y].is_present = t.page[y].is_present /\ r.page[y].fr = t.page[y].fr
  BY <1>3 DEF Placed, SamePlace
<1>5. PagesInside(r)
  BY <1>1, <1>3, <1>4 DEF PagesInside, Placed, SameTables
<1>6. ASSUME SoundIn(r)
      PROVE  FramesOwned(r, {}) /\ SlotsOwned(r) /\ ContentsKept(r)
  <2>1. SoundIn(t)
    BY <1>6 DEF SoundIn, Placed
  <2>2. FramesOwned(t, {f}) /\ SlotsOwned(t) /\ ContentsKept(t)
    BY <1>1, <2>1 DEF Owned
  <2>3. \A y : /\ InFrame(r, y) <=> InFrame(t, y) \/ y = x
               /\ InSlot(r, y) <=> InSlot(t, y)
               /\ y \in DOMAIN m.page /\ y # x => r.page[y].fr = t.page[y].fr
    BY <1>3, <1>4 DEF InFrame, InSlot
  <2>4. ~InSlot(t, x) /\ ~InFrame(t, x) /\ r.page[x].fr = f /\ InFrame(r, x)
    BY <1>3, <2>3 DEF InSlot, InFrame
  <2>5. FramesOwned(r, {})
    <3>1. r.BITMAP = t.BITMAP
      BY DEF Placed
    <3>2. \A y : InFrame(r, y) /\ y # x => InFrame(t, y) /\ r.page[y].fr = t.page[y].fr
                                         /\ t.page[y].fr # f /\ t.page[y].fr \notin t.BITMAP
      BY <1>3, <2>2, <2>3 DEF FramesOwned, InFrame
    <3>3. f \notin t.BITMAP
      BY <2>2 DEF FramesOwned
    <3>4. \A g \in Frames \ r.BITMAP : \E y : InFrame(r, y) /\ r.page[y].fr = g
      BY <1>3, <2>2, <2>3, <2>4, <3>1 DEF FramesOwned, InFrame
    <3>5. \A y, z : InFrame(r, y) /\ InFrame(r, z) /\ r.page[y].fr = r.page[z].fr => y = z
      BY <2>2, <2>4, <3>2 DEF FramesOwned
    <3> QED
      BY <2>4, <3>1, <3>2, <3>3, <3>4, <3>5 DEF FramesOwned
  <2>6. SlotsOwned(r)
    <3>1. r.BITMAP_SWAP = t.BITMAP_SWAP /\ r.leaked = t.leaked
      BY DEF Placed
    <3>2. \A y : /\ InSlot(r, y) <=> InSlot(t, y)
                 /\ InSlot(t, y) => r.page[y].fr = t.page[y].fr
      BY <1>3, <2>3, <2>4 DEF InSlot
    <3>3. \A y, z : InSlot(r, y) /\ InSlot(r, z) /\ r.page[y].fr = r.page[z].fr => y = z
      BY <2>2, <3>2 DEF SlotsOwned
    <3>4. \A y : InSlot(r, y) => r.page[y].fr \notin r.BITMAP_SWAP \cup r.leaked
      BY <2>2, <3>1, <3>2 DEF SlotsOwned
    <3>5. \A s \in Slots \ (r.BITMAP_SWAP \cup r.leaked) : \E y : InSlot(r, y) /\ r.page[y].fr = s
      BY <2>2, <3>1, <3>2 DEF SlotsOwned
    <3>6. r.leaked \cap r.BITMAP_SWAP = {}
      BY <2>2, <3>1 DEF SlotsOwned
    <3> QED
      BY <3>3, <3>4, <3>5, <3>6 DEF SlotsOwned
  <2>7. ContentsKept(r)
    <3>1. /\ r.want = t.want /\ r.slot = t.slot
          /\ r.frame = [t.frame EXCEPT ![f] = contents] /\ t.frame \in [Frames -> Bytes]
      BY <1>1 DEF Placed, SameRest, Memory
    <3>2. r.want[x] = m.want[x]
      BY <1>1, <3>1 DEF SameRest
    <3>3. \A y : InFrame(r, y) /\ y # x => InFrame(t, y) /\ r.page[y].fr = t.page[y].fr /\ y \in DOMAIN m.page
                                         /\ t.page[y].fr # f /\ t.page[y].fr \in Frames
      BY <1>1, <1>3, <2>2, <2>3 DEF FramesOwned, InFrame, PagesInside
    <3>4. \A y : InSlot(r, y) => InSlot(t, y) /\ r.page[y].fr = t.page[y].fr /\ y # x /\ y \in DOMAIN m.page
      BY <1>3, <2>3, <2>4 DEF InSlot
    <3>5. r.frame[f] = contents /\ \A g \in Frames : g # f => r.frame[g] = t.frame[g]
      BY <1>1, <3>1
    <3>6. (x \notin r.stale => contents = m.want[x]) /\ \A y : y # x => (y \in r.stale <=> y \in t.stale)
      BY DEF Placed
    <3>7. \A y : InFrame(r, y) /\ (y[1] \in Programs \/ y \notin r.stale) => r.frame[r.page[y].fr] = r.want[y]
      BY <2>2, <2>4, <3>1, <3>2, <3>3, <3>5, <3>6 DEF ContentsKept
    <3>8. \A y : InSlot(r, y) => r.slot[r.page[y].fr] = r.want[y]
      BY <2>2, <3>1, <3>4 DEF ContentsKept
    <3> QED
      BY <3>7, <3>8 DEF ContentsKept
  <2> QED
    BY <2>5, <2>6, <2>7
<1> QED
  BY <1>5, <1>6 DEF Owned

(***************************************************************************)
(* What a load cannot do to the clock and to a full swap.                  *)
(***************************************************************************)
PagesOf(m, a) == {x \in DOMAIN m.page : x[1] = a}

PagesNamed(m) ==
  /\ DOMAIN m.want = DOMAIN m.page
  /\ \A p \in Programs : \E n \in Nat : PagesOf(m, p) = {p} \X (1..n)
  /\ \A f \in Files : PagesOf(m, f) = IF f \in m.mapped THEN {f} \X (1..FilePages[f]) ELSE {}

Listed(m, x) == \E p \in Programs : \E i \in DOMAIN m.segment_table[p] : x \in Range(m.segment_table[p][i].pages)

\* Until a segment is unmapped every page is in a segment, whose page table is there, and
\* the hand of the clock is on one.
Clocked(m) ==
  /\ m.fault \in {"clock", "hang"} => m.unmapped \/ m.overflow
  /\ ~m.unmapped =>
       /\ \A p \in Programs : \A i \in DOMAIN m.segment_table[p] : m.segment_table[p][i].file # Destroyed
       /\ \A x \in DOMAIN m.page : Listed(m, x)
       /\ m.segmentoClock = 1 \/ m.segmentoClock <= Len(lista_de_segmentos(m))

Filled(m) ==
  m.overflow => \/ m.unmapped
                \/ Cardinality(DOMAIN m.page) + Cardinality(m.leaked) >= Cardinality(Frames) + Cardinality(Slots)

\* The pages are finitely many, as each program and each file has finitely many.
LEMMA PagesFinite ==
  ASSUME NEW m \in Memory, PagesNamed(m)
  PROVE  IsFiniteSet(DOMAIN m.page)
<1> DEFINE A == Programs \cup Files
           U == {PagesOf(m, a) : a \in A}
<1>1. IsFiniteSet(A)
  BY PagingAssumption, FS_Union DEF PagingAssumption
<1>2. IsFiniteSet(U)
  <2> DEFINE g == [a \in A |-> PagesOf(m, a)]
  <2>1. g \in [A -> U] /\ \A u \in U : \E a \in A : g[a] = u
    OBVIOUS
  <2> HIDE DEF g, U, A
  <2>2. g \in Surjection(A, U)
    BY <2>1 DEF Surjection
  <2> QED
    BY <1>1, <2>2, FS_Surjection
<1>3. \A a : IsFiniteSet({a})
  BY FS_Singleton
<1>4. \A n \in Nat : IsFiniteSet(1..n)
  <2> TAKE n \in Nat
  <2> QED
    BY 0 \in Int, 1 \in Int, n \in Int, FS_Interval
<1>5. \A a : \A n \in Nat : IsFiniteSet({a} \X (1..n))
  BY <1>3, <1>4, FS_Product
<1>6. \A a \in A : IsFiniteSet(PagesOf(m, a))
  <2>1. \A p \in Programs : IsFiniteSet(PagesOf(m, p))
    <3> TAKE p \in Programs
    <3>1. PICK n \in Nat : PagesOf(m, p) = {p} \X (1..n)
      BY DEF PagesNamed
    <3>2. IsFiniteSet({p} \X (1..n))
      BY <1>5
    <3> QED
      BY <3>1, <3>2, Zenon
  <2>2. \A f \in Files : IsFiniteSet(PagesOf(m, f))
    <3> TAKE f \in Files
    <3>1. FilePages[f] \in Nat
      BY PagingAssumption DEF PagingAssumption
    <3>2. IsFiniteSet({f} \X (1..FilePages[f])) /\ IsFiniteSet({})
      BY <1>5, <3>1, FS_EmptySet
    <3>3. PagesOf(m, f) = {f} \X (1..FilePages[f]) \/ PagesOf(m, f) = {}
      BY DEF PagesNamed
    <3> QED
      BY <3>2, <3>3, Zenon
  <2> QED
    BY <2>1, <2>2
<1>7. IsFiniteSet(UNION U)
  BY <1>2, <1>6, FS_UNION
<1>8. DOMAIN m.page \subseteq UNION U
  <2>1. DOMAIN m.page \subseteq Ids
    BY MapsAre DEF Memory
  <2>2. \A x \in DOMAIN m.page : x[1] \in A /\ x \in PagesOf(m, x[1])
    BY <2>1 DEF Ids, PagesOf
  <2> QED
    BY <2>2
<1> QED
  BY <1>7, <1>8, FS_Subset

\* Two finite sets, one the image of the other without a repetition.
LEMMA SameSize ==
  ASSUME NEW S, NEW T, IsFiniteSet(T), NEW g \in [S -> T],
         \A x, y \in S : g[x] = g[y] => x = y, \A z \in T : \E x \in S : g[x] = z
  PROVE  IsFiniteSet(S) /\ Cardinality(S) = Cardinality(T)
<1>1. g \in Injection(S, T) /\ g \in Surjection(S, T)
  BY DEF Injection, Surjection, IsInjective
<1> QED
  BY <1>1, FS_Injection

\* When no frame and no slot is free, the pages and the lost slots are as many as both.
LEMMA AllTaken ==
  ASSUME NEW m \in Memory, PagesInside(m), PagesNamed(m), FramesOwned(m, {}), SlotsOwned(m),
         m.BITMAP = {}, m.BITMAP_SWAP = {}
  PROVE  Cardinality(DOMAIN m.page) + Cardinality(m.leaked) >= Cardinality(Frames) + Cardinality(Slots)
<1> DEFINE A == {x \in DOMAIN m.page : InFrame(m, x)}
           B == {x \in DOMAIN m.page : InSlot(m, x)}
           D == DOMAIN m.page
           free == Slots \ m.leaked
<1>1. IsFiniteSet(Frames) /\ IsFiniteSet(Slots) /\ m.leaked \subseteq Slots
  BY PagingAssumption DEF PagingAssumption, Memory
<1>2. IsFiniteSet(A) /\ Cardinality(A) = Cardinality(Frames)
  <2> DEFINE g == [x \in A |-> m.page[x].fr]
  <2>1. g \in [A -> Frames]
    BY DEF PagesInside, InFrame
  <2>2. \A x, y \in A : g[x] = g[y] => x = y
    BY DEF FramesOwned
  <2>3. \A z \in Frames : \E x \in A : g[x] = z
    BY DEF FramesOwned, InFrame
  <2> HIDE DEF g, A
  <2> QED
    BY <1>1, <2>1, <2>2, <2>3, SameSize
<1>3. IsFiniteSet(B) /\ Cardinality(B) = Cardinality(free)
  <2> DEFINE g == [x \in B |-> m.page[x].fr]
  <2>1. g \in [B -> free]
    BY DEF PagesInside, InSlot, SlotsOwned
  <2>2. \A x, y \in B : g[x] = g[y] => x = y
    BY DEF SlotsOwned
  <2>3. \A z \in free : \E x \in B : g[x] = z
    BY DEF SlotsOwned, InSlot
  <2>4. IsFiniteSet(free)
    BY <1>1, FS_Difference
  <2> HIDE DEF g, B, free
  <2> QED
    BY <2>1, <2>2, <2>3, <2>4, SameSize
<1>4. Cardinality(free) = Cardinality(Slots) - Cardinality(m.leaked) /\ Cardinality(m.leaked) \in Nat
      /\ Cardinality(Slots) \in Nat /\ Cardinality(Frames) \in Nat
  <2>1. Slots \cap m.leaked = m.leaked
    BY <1>1
  <2>2. IsFiniteSet(m.leaked)
    BY <1>1, FS_Subset
  <2>3. Cardinality(free) = Cardinality(Slots) - Cardinality(Slots \cap m.leaked)
    BY <1>1, FS_Difference
  <2>4. Cardinality(m.leaked) \in Nat /\ Cardinality(Slots) \in Nat /\ Cardinality(Frames) \in Nat
    BY <1>1, <2>2, FS_CardinalityType
  <2> QED
    BY <2>1, <2>3, <2>4
<1>5. IsFiniteSet(D) /\ IsFiniteSet(A \cup B) /\ Cardinality(A \cup B) <= Cardinality(D)
  <2>1. A \cup B \subseteq D
    OBVIOUS
  <2>2. IsFiniteSet(D)
    BY PagesFinite
  <2> HIDE DEF A, B, D
  <2> QED
    BY <2>1, <2>2, FS_Subset
<1>6. Cardinality(A \cup B) = Cardinality(A) + Cardinality(B)
  <2>1. A \cap B = {}
    BY DEF InFrame, InSlot
  <2>2. Cardinality(A \cap B) = 0
    BY <2>1, FS_EmptySet
  <2>3. Cardinality(A) \in Nat /\ Cardinality(B) \in Nat
    BY <1>2, <1>3, FS_CardinalityType
  <2> HIDE DEF A, B
  <2>4. Cardinality(A \cup B) = Cardinality(A) + Cardinality(B) - Cardinality(A \cap B)
    BY <1>2, <1>3, FS_Union
  <2> QED
    BY <2>2, <2>3, <2>4
<1>7. Cardinality(D) \in Nat
  BY <1>5, FS_CardinalityType
<1> HIDE DEF A, B, D, free
<1>8. Cardinality(D) + Cardinality(m.leaked) >= Cardinality(Frames) + Cardinality(Slots)
  BY <1>2, <1>3, <1>4, <1>5, <1>6, <1>7
<1> QED
  BY <1>8 DEF D

\* With a page in memory in a segment, the clock finds its hand and a victim.
LEMMA ClockGoes ==
  ASSUME NEW m \in Memory, FramesOwned(m, {}), m.BITMAP = {}, Clocked(m), ~m.unmapped
  PROVE  ~ClockBreaks(m) /\ ~ClockHangs(m, Entries(m))
<1> DEFINE L == lista_de_segmentos(m)
           E == Entries(m)
<1>1. PICK x : InFrame(m, x)
  <2>1. PICK f : f \in Frames
    BY PagingAssumption DEF PagingAssumption
  <2> QED
    BY <2>1 DEF FramesOwned
<1>2. PICK p \in Programs : \E i \in DOMAIN m.segment_table[p] : x \in Range(m.segment_table[p][i].pages)
  BY <1>1 DEF Clocked, Listed, InFrame
<1>3. PICK i \in DOMAIN m.segment_table[p] : x \in Range(m.segment_table[p][i].pages)
  BY <1>2
<1>4. /\ L \in Seq(SegmentType)
      /\ \A j \in 1..Len(L) : \E q \in Programs : \E k \in DOMAIN m.segment_table[q] : L[j] = m.segment_table[q][k]
      /\ \A q \in Programs : \A k \in DOMAIN m.segment_table[q] : \E j \in 1..Len(L) : L[j] = m.segment_table[q][k]
  BY ListIs
<1>5. \A j \in 1..Len(L) : \A y \in Range(L[j].pages) : \E k \in DOMAIN E : E[k].id = y
  BY EntriesAre
<1> HIDE DEF L, E
<1>6. PICK j \in 1..Len(L) : L[j] = m.segment_table[p][i]
  BY <1>4
<1>7. PICK k \in DOMAIN E : E[k].id = x
  BY <1>3, <1>5, <1>6
<1>8. ~ClockHangs(m, E)
  BY <1>1, <1>7 DEF ClockHangs, InFrame
<1>9. ~(m.segmentoClock > Len(L))
  <2>1. Len(L) \in Nat /\ Len(L) >= 1 /\ m.segmentoClock \in Nat
    BY <1>4, <1>6 DEF Memory
  <2>2. m.segmentoClock = 1 \/ m.segmentoClock <= Len(L)
    BY DEF Clocked, L
  <2> QED
    BY <2>1, <2>2
<1>10. \A n \in DOMAIN L : L[n].file # Destroyed
  <2>1. DOMAIN L = 1..Len(L)
    BY <1>4
  <2> QED
    BY <1>4, <2>1 DEF Clocked
<1> QED
  BY <1>8, <1>9, <1>10 DEF ClockBreaks, L, E

\* A victim is noted as an overflow only when memory and swap are full.
LEMMA TookClocked ==
  ASSUME NEW m \in Memory, PagesInside(m), PagesNamed(m), Owned(m, {}), Clocked(m), Filled(m), m.fault = "none",
         NEW t, NEW f, Took(m, t, f)
  PROVE  Clocked(t) /\ Filled(t) /\ PagesNamed(t)
<1>1. /\ t.segment_table = m.segment_table /\ t.unmapped = m.unmapped /\ t.mapped = m.mapped
      /\ DOMAIN t.page = DOMAIN m.page /\ t.want = m.want /\ t \in Memory
  BY DEF Took, SameRest, SameTables
<1>2. lista_de_segmentos(t) = lista_de_segmentos(m)
  BY <1>1 DEF lista_de_segmentos
<1>3. PagesNamed(t)
  BY <1>1 DEF PagesNamed, PagesOf
<1>4. m.overflow => t.overflow
  BY DEF Took, TookFree, TookNone, TookShared, TookVictims
<1>5. t.segmentoClock = m.segmentoClock \/ t.segmentoClock <= Len(lista_de_segmentos(m))
  BY DEF Took, TookFree, TookNone, TookShared, TookVictims
<1>6. t.fault \in {"clock", "hang"} => t.unmapped \/ t.overflow
  <2> SUFFICES ASSUME t.fault \in {"clock", "hang"}, ~m.unmapped, ~m.overflow
               PROVE  FALSE
    BY <1>1, <1>4
  <2>1. TookNone(m, t, f)
    BY DEF Took, TookFree, TookShared, TookVictims
  <2>2. FramesOwned(m, {}) /\ m.BITMAP = {}
    BY <2>1 DEF Owned, SoundIn, TookNone
  <2>3. ~ClockBreaks(m) /\ ~ClockHangs(m, Entries(m))
    BY <2>2, ClockGoes
  <2> QED
    BY <2>1, <2>3 DEF TookNone
<1>7. Clocked(t)
  BY <1>1, <1>2, <1>5, <1>6 DEF Clocked, Listed
<1>8. Filled(t)
  <2> SUFFICES ASSUME t.overflow, ~t.unmapped
               PROVE  Cardinality(DOMAIN t.page) + Cardinality(t.leaked) >= Cardinality(Frames) + Cardinality(Slots)
    BY DEF Filled
  <2>1. CASE m.overflow
    <3>1. Cardinality(DOMAIN m.page) + Cardinality(m.leaked) >= Cardinality(Frames) + Cardinality(Slots)
      BY <1>1, <2>1 DEF Filled
    <3>2. m.leaked \subseteq t.leaked /\ t.leaked \subseteq Slots /\ IsFiniteSet(Slots)
      BY <1>1, PagingAssumption DEF Took, TookFree, TookNone, TookShared, TookVictims, SameFree, Moved, Memory, PagingAssumption
    <3>3. IsFiniteSet(t.leaked) /\ IsFiniteSet(m.leaked)
      BY <3>2, FS_Subset
    <3>4. Cardinality(m.leaked) <= Cardinality(t.leaked)
      BY <3>2, <3>3, FS_Subset
    <3>5. IsFiniteSet(DOMAIN m.page) /\ IsFiniteSet(Frames)
      BY PagesFinite, PagingAssumption DEF PagingAssumption
    <3>6. /\ Cardinality(m.leaked) \in Nat /\ Cardinality(t.leaked) \in Nat /\ Cardinality(DOMAIN m.page) \in Nat
          /\ Cardinality(Frames) \in Nat /\ Cardinality(Slots) \in Nat
      BY <3>2, <3>3, <3>5, FS_CardinalityType
    <3> QED
      BY <1>1, <3>1, <3>4, <3>6
  <2>2. CASE ~m.overflow
    <3>1. TookShared(m, t, f)
      BY <2>2 DEF Took, TookFree, TookNone, TookVictims
    <3>2. FramesOwned(m, {}) /\ SlotsOwned(m)
      BY <2>2 DEF Owned, SoundIn
    <3>3. m.BITMAP = {} /\ m.BITMAP_SWAP = {} /\ t.leaked = m.leaked
      BY <3>1 DEF TookShared, SameFree
    <3> QED
      BY <1>1, <3>2, <3>3, AllTaken
  <2> QED
    BY <2>1, <2>2
<1> QED
  BY <1>3, <1>7, <1>8

(***************************************************************************)
(* The inductive invariant.                                                *)
(***************************************************************************)
\* The addresses of the pages of a segment are within its limits; a heap segment has
\* pages of programs, a mapped one those of its file.
SegmentOK(m, s) ==
  /\ s.base <= s.limit
  /\ \A k \in DOMAIN s.pages : s.base + (k - 1) * PAGE_SIZE <= s.limit
  /\ s.is_heap => s.file = NoFile /\ \A k \in DOMAIN s.pages : s.pages[k][1] \in Programs
  /\ ~s.is_heap => \/ s.file \in m.mapped /\ s.pages = [n \in 1..FilePages[s.file] |-> <<s.file, n>>]
                   \/ s.file = Destroyed /\ s.pages = <<>>

SegmentsOK(m) == \A p \in Programs : \A i \in DOMAIN m.segment_table[p] : SegmentOK(m, m.segment_table[p][i])

FilesOK(m) == \A f \in Files : DOMAIN m.archivo[f] = 1..FilePages[f]

MemoryInv(m) ==
  /\ m \in Memory /\ PagesInside(m) /\ PagesNamed(m) /\ SegmentsOK(m) /\ FilesOK(m)
  /\ Owned(m, {}) /\ Clocked(m) /\ Filled(m)

\* What only moves no page preserves it.
LEMMA MovesNothing ==
  ASSUME NEW m, MemoryInv(m), NEW t, SameRest(m, t), SameFree(m, t), t.BITMAP = m.BITMAP,
         t.fault = m.fault, t.overflow = m.overflow, t.segmentoClock = m.segmentoClock
  PROVE  MemoryInv(t)
<1>1. /\ m \in Memory /\ PagesInside(m) /\ PagesNamed(m) /\ SegmentsOK(m) /\ FilesOK(m)
      /\ Owned(m, {}) /\ Clocked(m) /\ Filled(m)
  BY DEF MemoryInv
<1>2. /\ t \in Memory /\ t.segment_table = m.segment_table /\ t.mapped = m.mapped /\ t.archivo = m.archivo
      /\ t.unmapped = m.unmapped /\ DOMAIN t.page = DOMAIN m.page /\ t.frame = m.frame /\ t.want = m.want
      /\ t.stale = m.stale /\ t.BITMAP_SWAP = m.BITMAP_SWAP /\ t.slot = m.slot /\ t.leaked = m.leaked
  BY DEF SameRest, SameTables, SameFree
<1>3. \A x \in DOMAIN m.page : t.page[x].is_present = m.page[x].is_present /\ t.page[x].fr = m.page[x].fr
  BY DEF SameFree, SamePlace
<1>4. PagesInside(t)
  BY <1>1, <1>2, <1>3 DEF PagesInside
<1>5. PagesNamed(t)
  BY <1>1, <1>2 DEF PagesNamed, PagesOf
<1>6. SegmentsOK(t) /\ FilesOK(t)
  BY <1>1, <1>2 DEF SegmentsOK, SegmentOK, FilesOK
<1>7. Owned(t, {})
  <2> SUFFICES ASSUME SoundIn(t)
               PROVE  FramesOwned(t, {}) /\ SlotsOwned(t) /\ ContentsKept(t)
    BY DEF Owned
  <2>1. FramesOwned(m, {}) /\ SlotsOwned(m) /\ ContentsKept(m)
    BY <1>1 DEF Owned, SoundIn
  <2>2. \A x : /\ InFrame(t, x) <=> InFrame(m, x)
               /\ InSlot(t, x) <=> InSlot(m, x)
               /\ InFrame(m, x) \/ InSlot(m, x) => t.page[x].fr = m.page[x].fr
    BY <1>2, <1>3 DEF InFrame, InSlot
  <2>3. FramesOwned(t, {})
    BY <2>1, <2>2 DEF FramesOwned
  <2>4. SlotsOwned(t)
    BY <1>2, <2>1, <2>2 DEF SlotsOwned
  <2>5. ContentsKept(t)
    BY <1>2, <2>1, <2>2 DEF ContentsKept
  <2> QED
    BY <2>3, <2>4, <2>5
<1>8. Clocked(t) /\ Filled(t)
  BY <1>1, <1>2 DEF Clocked, Listed, Filled, lista_de_segmentos
<1> QED
  BY <1>2, <1>4, <1>5, <1>6, <1>7, <1>8 DEF MemoryInv

\* The page was in memory once: it is in a frame or in a slot.
Loaded(m, x) == m.page[x].is_present \/ m.page[x].fr \in Slots

\* What the load of a page x does.
LoadedIn(m, t, x) ==
  /\ MemoryInv(t) /\ SameTables(m, t) /\ DOMAIN t.page = DOMAIN m.page
  /\ t.fault = "none" => m.fault = "none" /\ t.page[x].is_present
  /\ \A y \in DOMAIN m.page : Loaded(m, y) => Loaded(t, y)

\* A page that was in memory once stays in a frame or in a slot.
LEMMA TookLoaded ==
  ASSUME NEW m \in Memory, NEW t, NEW f, Took(m, t, f)
  PROVE  \A y \in DOMAIN m.page : Loaded(m, y) => Loaded(t, y)
<1> TAKE y \in DOMAIN m.page
<1>1. CASE SameFree(m, t)
  BY <1>1 DEF SameFree, SamePlace, Loaded
<1>2. CASE TookVictims(m, t, f)
  <2>1. PICK v \in DOMAIN m.page, s \in m.BITMAP_SWAP : Moved(m, t, v, f, s)
    BY <1>2 DEF TookVictims
  <2>2. s \in Slots
    BY DEF Memory
  <2> QED
    BY <2>1, <2>2 DEF Moved, SamePlace, Loaded
<1> QED
  BY <1>1, <1>2 DEF Took, TookFree, TookNone, TookShared

\* The load of a heap page.
LEMMA HeapLoad ==
  ASSUME NEW m, MemoryInv(m), NEW x \in DOMAIN m.page, x[1] \in Programs
  PROVE  LoadedIn(m, obtener_data_marco_heap(m, x), x)
<1>0. m \in Memory /\ PagesInside(m) /\ PagesNamed(m) /\ SegmentsOK(m) /\ FilesOK(m)
      /\ Owned(m, {}) /\ Clocked(m) /\ Filled(m)
  BY DEF MemoryInv
<1>1. CASE m.fault # "none" \/ m.page[x].is_present
  <2>1. obtener_data_marco_heap(m, x) = m
    BY <1>1 DEF obtener_data_marco_heap
  <2>2. SameTables(m, m)
    BY DEF SameTables
  <2> QED
    BY <1>1, <2>1, <2>2 DEF LoadedIn
<1>2. CASE ~(m.fault # "none" \/ m.page[x].is_present)
  <2> DEFINE s == m.page[x].fr
             c == m.slot[s]
             k == TakeFrame(m)
             t == k.m
             f == k.frame
             r == Place(k, x, c, {s})
  <2>1. obtener_data_marco_heap(m, x) = r
    BY <1>2 DEF obtener_data_marco_heap, Load
  <2>2. s \in Slots /\ c \in Bytes
    BY <1>0, <1>2 DEF PagesInside, Memory
  <2>3. Took(m, t, f)
    BY <1>0, TakeFrameIs
  <2> HIDE DEF k
  <2>4. t \in Memory /\ f \in Frames /\ x \in DOMAIN t.page /\ SameTables(m, t) /\ DOMAIN t.page = DOMAIN m.page
    BY <2>3 DEF Took, SameRest
  <2>5. Placed(t, r, x, f, c, {s})
    BY <2>2, <2>4, PlaceIs
  <2> HIDE DEF r, t, f
  <2>6. PagesInside(r) /\ Owned(r, {})
    BY <1>0, <1>2, <2>3, <2>5, HeapPlaced
  <2>7. Clocked(t) /\ Filled(t) /\ PagesNamed(t)
    BY <1>0, <1>2, <2>3, TookClocked
  <2>8. /\ r \in Memory /\ SameTables(t, r) /\ DOMAIN r.page = DOMAIN t.page /\ r.want = t.want /\ r.leaked = t.leaked
        /\ r.fault = t.fault /\ r.overflow = t.overflow /\ r.segmentoClock = t.segmentoClock
    BY <2>5 DEF Placed
  <2>9. Clocked(r) /\ Filled(r)
    BY <2>7, <2>8 DEF Clocked, Filled, SameTables, Listed, lista_de_segmentos
  <2>10. PagesNamed(r)
    BY <2>7, <2>8 DEF PagesNamed, PagesOf, SameTables
  <2>11. SameTables(m, r) /\ DOMAIN r.page = DOMAIN m.page
    BY <2>4, <2>8 DEF SameTables
  <2>12. SegmentsOK(r) /\ FilesOK(r)
    BY <1>0, <2>11 DEF SegmentsOK, SegmentOK, FilesOK, SameTables
  <2>13. MemoryInv(r)
    BY <2>6, <2>8, <2>9, <2>10, <2>12 DEF MemoryInv
  <2>14. \A y \in DOMAIN m.page : Loaded(m, y) => Loaded(t, y)
    BY <1>0, <2>3, TookLoaded
  <2>15. \A y \in DOMAIN m.page : Loaded(m, y) => Loaded(r, y)
    BY <2>4, <2>5, <2>14 DEF Placed, SamePlace, Loaded
  <2>16. r.page[x].is_present
    BY <2>5 DEF Placed
  <2> QED
    BY <1>2, <2>1, <2>11, <2>13, <2>15, <2>16 DEF LoadedIn
<1> QED
  BY <1>1, <1>2

\* The load of a page of a file.
LEMMA FileLoad ==
  ASSUME NEW m, MemoryInv(m), NEW s, ~s.is_heap, SegmentOK(m, s), NEW n \in DOMAIN s.pages,
         s.pages[n] \in DOMAIN m.page
  PROVE  LoadedIn(m, obtener_data_marco_mmap(m, s, n), s.pages[n])
<1> DEFINE x == s.pages[n]
           p == s.file
<1>0. m \in Memory /\ PagesInside(m) /\ PagesNamed(m) /\ SegmentsOK(m) /\ FilesOK(m)
      /\ Owned(m, {}) /\ Clocked(m) /\ Filled(m)
  BY DEF MemoryInv
<1>a. p \in m.mapped /\ p \in Files /\ n \in 1..FilePages[p] /\ x = <<p, n>> /\ x[1] \notin Programs
  <2>1. p \in m.mapped /\ s.pages = [k \in 1..FilePages[p] |-> <<p, k>>]
    BY DEF SegmentOK
  <2>2. m.mapped \subseteq Files
    BY <1>0 DEF Memory
  <2> QED
    BY <2>1, <2>2, PagingAssumption DEF PagingAssumption
<1>b. x[1] = p /\ x[2] = n /\ x \in DOMAIN m.page
  BY <1>a
<1>1. CASE m.fault # "none" \/ m.page[x].is_present
  <2>1. obtener_data_marco_mmap(m, s, n) = m
    BY <1>1 DEF obtener_data_marco_mmap
  <2>2. SameTables(m, m)
    BY DEF SameTables
  <2> QED
    BY <1>1, <2>1, <2>2 DEF LoadedIn
<1>2. CASE ~(m.fault # "none" \/ m.page[x].is_present)
  <2> DEFINE bytes == m.archivo[p][n]
             c == IF m.BITMAP = {} /\ n * PAGE_SIZE = s.limit THEN Zeros ELSE bytes
             k == TakeFrame(m)
             t == k.m
             f == k.frame
             q == Place(k, x, c, {})
             Z == IF c = Zeros \/ bytes # m.want[x] THEN q.stale \cup {x} ELSE q.stale \ {x}
             r == [q EXCEPT !.stale = Z]
  <2>1. obtener_data_marco_mmap(m, s, n) = r
    BY <1>2, <1>b DEF obtener_data_marco_mmap, FromFile, Load
  <2>2. bytes \in Bytes /\ c \in Bytes /\ c \in {Zeros, bytes}
    <3>1. m.archivo[p] \in Maps(Nat, Bytes) /\ DOMAIN m.archivo[p] = 1..FilePages[p]
      BY <1>0, <1>a DEF Memory, FilesOK
    <3>2. bytes \in Bytes
      <4> DEFINE a == m.archivo[p]
      <4>1. a \in Maps(Nat, Bytes) /\ n \in DOMAIN a
        BY <1>a, <3>1
      <4> HIDE DEF a
      <4>2. a[n] \in Bytes
        BY <4>1, MapsAre
      <4> QED
        BY <4>2 DEF a
    <3> HIDE DEF bytes
    <3> QED
      BY <3>2 DEF Bytes
  <2> HIDE DEF c, bytes
  <2>3. Took(m, t, f)
    BY <1>0, TakeFrameIs
  <2> HIDE DEF k
  <2>4. t \in Memory /\ f \in Frames /\ x \in DOMAIN t.page /\ SameTables(m, t) /\ DOMAIN t.page = DOMAIN m.page
        /\ t.want = m.want
    BY <1>b, <2>3 DEF Took, SameRest
  <2>5. Placed(t, q, x, f, c, {})
    BY <2>2, <2>4, PlaceIs
  <2> HIDE DEF q, t, f, x
  <2>6. q \in Memory /\ q.want = m.want /\ x \in Ids
    BY <1>0, <1>b, <2>4, <2>5, MapsAre DEF Placed, Memory
  <2>8. Z \in SUBSET Ids
    BY <2>6 DEF Memory
  <2> HIDE DEF Z
  <2>9. r \in Memory
    BY <2>6, <2>8 DEF Memory
  <2>10. /\ SameTables(q, r) /\ r.page = q.page /\ r.BITMAP = q.BITMAP /\ r.BITMAP_SWAP = q.BITMAP_SWAP
         /\ r.frame = q.frame /\ r.slot = q.slot /\ r.leaked = q.leaked /\ r.fault = q.fault
         /\ r.overflow = q.overflow /\ r.segmentoClock = q.segmentoClock /\ r.want = q.want /\ r.stale = Z
    BY <2>6 DEF Memory, SameTables
  <2> HIDE DEF r
  <2>11. r.stale = IF c = Zeros \/ bytes # m.want[x] THEN q.stale \cup {x} ELSE q.stale \ {x}
    BY <2>10 DEF Z
  <2>12. DOMAIN m.want = DOMAIN m.page
    BY <1>0 DEF PagesNamed
  <2>13. x \in DOMAIN m.page /\ x[1] \notin Programs /\ ~m.page[x].is_present
    BY <1>2, <1>a, <1>b DEF x
  <2>14. PagesInside(r) /\ Owned(r, {})
    BY <1>0, <2>2, <2>3, <2>5, <2>10, <2>11, <2>12, <2>13, FilePlaced
  <2>15. Clocked(t) /\ Filled(t) /\ PagesNamed(t)
    BY <1>0, <1>2, <2>3, TookClocked
  <2>16. /\ SameTables(t, r) /\ DOMAIN r.page = DOMAIN t.page /\ DOMAIN r.want = DOMAIN m.page /\ r.leaked = t.leaked
         /\ r.fault = t.fault /\ r.overflow = t.overflow /\ r.segmentoClock = t.segmentoClock
    BY <2>5, <2>6, <2>10, <2>12 DEF Placed, SameTables
  <2>17. Clocked(r) /\ Filled(r)
    BY <2>15, <2>16 DEF Clocked, Filled, SameTables, Listed, lista_de_segmentos
  <2>18. PagesNamed(r)
    BY <2>4, <2>15, <2>16 DEF PagesNamed, PagesOf, SameTables
  <2>19. SameTables(m, r) /\ DOMAIN r.page = DOMAIN m.page
    BY <2>4, <2>16 DEF SameTables
  <2>20. SegmentsOK(r) /\ FilesOK(r)
    BY <1>0, <2>19 DEF SegmentsOK, SegmentOK, FilesOK, SameTables
  <2>21. MemoryInv(r)
    BY <2>9, <2>14, <2>17, <2>18, <2>20 DEF MemoryInv
  <2>22. \A y \in DOMAIN m.page : Loaded(m, y) => Loaded(t, y)
    BY <1>0, <2>3, TookLoaded
  <2>23. \A y \in DOMAIN m.page : Loaded(m, y) => Loaded(r, y)
    BY <2>4, <2>5, <2>10, <2>22 DEF Placed, SamePlace, Loaded
  <2>24. r.page[x].is_present
    BY <2>5, <2>10 DEF Placed
  <2>25. LoadedIn(m, r, x)
    BY <1>2, <2>19, <2>21, <2>23, <2>24 DEF LoadedIn
  <2> QED
    BY <2>1, <2>25 DEF x
<1> QED
  BY <1>1, <1>2

\* A segment of the tables, and its pages.
SegmentIn(m, s) ==
  /\ s \in SegmentType /\ SegmentOK(m, s) /\ Range(s.pages) \subseteq DOMAIN m.page

\* The load of a page of a segment of either kind.
LEMMA PageLoad ==
  ASSUME NEW m, MemoryInv(m), NEW s, SegmentIn(m, s), NEW n \in DOMAIN s.pages
  PROVE  LoadedIn(m, obtener_data(m, s, n), s.pages[n])
<1>1. s.pages[n] \in DOMAIN m.page /\ SegmentOK(m, s)
  BY DEF SegmentIn, Range
<1>2. CASE s.is_heap
  <2>1. s.pages[n][1] \in Programs
    BY <1>1, <1>2 DEF SegmentOK
  <2>2. obtener_data(m, s, n) = obtener_data_marco_heap(m, s.pages[n])
    BY <1>2 DEF obtener_data
  <2> DEFINE x == s.pages[n]
  <2>3. x \in DOMAIN m.page /\ x[1] \in Programs
    BY <1>1, <2>1
  <2> HIDE DEF x
  <2>4. LoadedIn(m, obtener_data_marco_heap(m, x), x)
    BY <2>3, HeapLoad
  <2> QED
    BY <2>2, <2>4 DEF x
<1>3. CASE ~s.is_heap
  <2>1. obtener_data(m, s, n) = obtener_data_marco_mmap(m, s, n)
    BY <1>3 DEF obtener_data
  <2>2. LoadedIn(m, obtener_data_marco_mmap(m, s, n), s.pages[n])
    BY <1>1, <1>3, FileLoad
  <2> QED
    BY <2>1, <2>2
<1> QED
  BY <1>2, <1>3

LEMMA SegmentStays ==
  ASSUME NEW m, NEW t, NEW s, SegmentIn(m, s), SameTables(m, t), DOMAIN t.page = DOMAIN m.page
  PROVE  SegmentIn(t, s)
BY DEF SegmentIn, SegmentOK, SameTables

\* What the loads of a request do: a page that was loaded has been in memory.
LEMMA LoadAllIs ==
  ASSUME NEW m, MemoryInv(m), NEW s, SegmentIn(m, s), NEW k \in Nat, NEW ns \in [1..k -> DOMAIN s.pages]
  PROVE  LET t == LoadAll(m, s, ns) IN
         /\ MemoryInv(t) /\ SameTables(m, t) /\ DOMAIN t.page = DOMAIN m.page
         /\ t.fault = "none" => m.fault = "none" /\ \A i \in 1..k : Loaded(t, s.pages[ns[i]])
<1> DEFINE X == DOMAIN s.pages
           M == {t \in Memory : MemoryInv(t) /\ SameTables(m, t) /\ DOMAIN t.page = DOMAIN m.page}
<1>1. m \in M
  BY DEF MemoryInv, SameTables
<1>2. ASSUME NEW t \in M, NEW n \in X
      PROVE  obtener_data(t, s, n) \in M /\ LoadedIn(t, obtener_data(t, s, n), s.pages[n])
  <2>1. SegmentIn(t, s) /\ MemoryInv(t)
    BY <1>2, SegmentStays
  <2>2. LoadedIn(t, obtener_data(t, s, n), s.pages[n])
    BY <2>1, PageLoad
  <2> DEFINE r == obtener_data(t, s, n)
  <2> HIDE DEF r
  <2>3. r \in M
    BY <1>2, <2>2 DEF LoadedIn, SameTables, MemoryInv, r
  <2> QED
    BY <2>2, <2>3 DEF r
<1>3. m \in M /\ ns \in [1..k -> X] /\ \A t \in M, n \in X : obtener_data(t, s, n) \in M
  BY <1>1, <1>2
<1> HIDE DEF M
<1>4. PICK h : /\ h[0] = m /\ LoadAll(m, s, ns) = h[k]
               /\ \A i \in 1..k : h[i] = obtener_data(h[i - 1], s, ns[i])
               /\ \A i \in 0..k : h[i] \in M
  <2> HIDE DEF X
  <2>1. m \in M /\ ns \in [1..k -> X] /\ k \in Nat
    BY <1>3
  <2>2. \A t \in M, n \in X : obtener_data(t, s, n) \in M
    BY <1>3
  <2>3. \E h : LoadRun(h, M, m, s, ns, k)
    BY <2>1, <2>2, LoadAllUnfolds
  <2> QED
    BY <2>3 DEF LoadRun
<1> DEFINE Done(i) == h[i].fault = "none" => m.fault = "none" /\ \A j \in 1..i : Loaded(h[i], s.pages[ns[j]])
           S == {i \in Nat : i \in 0..k => Done(i)}
<1>5. 0 \in S
  <2>1. \A j \in 1..0 : FALSE
    OBVIOUS
  <2>2. Done(0)
    BY <1>4, <2>1
  <2> QED
    BY <2>2
<1>6. ASSUME NEW i \in 1..k, i - 1 \in S
      PROVE  i \in S
  <2>1. i \in Nat /\ i - 1 \in 0..k /\ i \in 0..k /\ ns[i] \in X /\ \A j \in 1..i : j \in 1..k /\ (j = i \/ j \in 1..(i - 1))
    OBVIOUS
  <2> DEFINE a == h[i - 1]
             b == h[i]
  <2>2. Done(i - 1)
    BY <1>6, <2>1
  <2>3. a \in M /\ b = obtener_data(a, s, ns[i])
    BY <1>4, <2>1
  <2>4. LoadedIn(a, b, s.pages[ns[i]])
    BY <1>2, <2>1, <2>3
  <2>5. \A j \in 1..k : s.pages[ns[j]] \in DOMAIN a.page
    <3>1. \A j \in 1..k : s.pages[ns[j]] \in DOMAIN m.page
      BY DEF SegmentIn, Range
    <3>2. DOMAIN a.page = DOMAIN m.page
      BY <2>3 DEF M
    <3> QED
      BY <3>1, <3>2
  <2>6. a.fault = "none" => m.fault = "none" /\ \A j \in 1..(i - 1) : Loaded(a, s.pages[ns[j]])
    BY <2>2
  <2> HIDE DEF a, b
  <2>7. b.fault = "none" => m.fault = "none" /\ \A j \in 1..i : Loaded(b, s.pages[ns[j]])
    BY <2>1, <2>4, <2>5, <2>6 DEF LoadedIn, Loaded
  <2> QED
    BY <2>1, <2>7 DEF b
<1>7. k \in S
  <2> HIDE DEF S
  <2> QED
    BY <1>5, <1>6, UpTo
<1>8. Done(k) /\ h[k] \in M
  <2>1. k \in 0..k
    OBVIOUS
  <2> QED
    BY <1>4, <1>7, <2>1
<1> QED
  BY <1>4, <1>8 DEF M

(***************************************************************************)
(* Writes.                                                                 *)
(***************************************************************************)
Keeps(m, t) == MemoryInv(t) /\ SameTables(m, t) /\ DOMAIN t.page = DOMAIN m.page

\* A write to a page that is in memory.
LEMMA StoreIs ==
  ASSUME NEW m, MemoryInv(m), NEW x \in DOMAIN m.page, m.fault = "none" => m.page[x].is_present, NEW v \in Bytes
  PROVE  Keeps(m, Store(m, x, v))
<1>0. m \in Memory /\ PagesInside(m) /\ PagesNamed(m) /\ SegmentsOK(m) /\ FilesOK(m)
      /\ Owned(m, {}) /\ Clocked(m) /\ Filled(m)
  BY DEF MemoryInv
<1>1. CASE m.fault # "none"
  <2>1. Store(m, x, v) = m
    BY <1>1 DEF Store
  <2> QED
    BY <2>1 DEF Keeps, SameTables
<1>2. CASE m.fault = "none"
  <2> DEFINE f == m.page[x].fr
             C == [m.frame EXCEPT ![f] = v]
             W == [m.want EXCEPT ![x] = v]
             Z == m.stale \ {x}
             U == m.unsaved \cup {x}
             t == [m EXCEPT !.frame = C, !.want = W, !.stale = Z, !.unsaved = U]
  <2>1. Store(m, x, v) = t
    BY <1>2 DEF Store
  <2>2. f \in Frames /\ m.page[x].is_present
    BY <1>0, <1>2 DEF PagesInside
  <2> HIDE DEF f
  <2>3. C \in [Frames -> Bytes] /\ C[f] = v /\ \A g \in Frames : g # f => C[g] = m.frame[g]
    <3>1. m.frame \in [Frames -> Bytes]
      BY <1>0 DEF Memory
    <3> QED
      BY <2>2, <3>1
  <2>4. /\ W \in Maps(Ids, Bytes) /\ DOMAIN W = DOMAIN m.page /\ W[x] = v
        /\ \A y \in DOMAIN m.page : y # x => W[y] = m.want[y]
    <3>1. m.want \in Maps(Ids, Bytes) /\ DOMAIN m.want = DOMAIN m.page
      BY <1>0 DEF Memory, PagesNamed
    <3>2. /\ m.want = [y \in DOMAIN m.want |-> m.want[y]] /\ DOMAIN m.want \subseteq Ids
          /\ \A y \in DOMAIN m.want : m.want[y] \in Bytes
      BY <3>1, MapsAre
    <3>3. /\ W = [y \in DOMAIN W |-> W[y]] /\ DOMAIN W = DOMAIN m.want
          /\ W[x] = v /\ \A y \in DOMAIN m.page : y # x => W[y] = m.want[y]
      BY <3>1, <3>2
    <3>4. \A y \in DOMAIN W : W[y] \in Bytes
      BY <3>1, <3>2, <3>3
    <3> HIDE DEF W
    <3> QED
      BY <3>1, <3>2, <3>3, <3>4, MapsAre
  <2>5. Z \in SUBSET Ids /\ U \in SUBSET Ids
    <3>1. m.want \in Maps(Ids, Bytes) /\ DOMAIN m.want = DOMAIN m.page
      BY <1>0 DEF Memory, PagesNamed
    <3>2. x \in Ids
      BY <3>1, MapsAre
    <3> QED
      BY <1>0, <3>2 DEF Memory
  <2> HIDE DEF C, W
  <2>6. t \in Memory
    BY <1>0, <2>3, <2>4, <2>5 DEF Memory
  <2>7. /\ SameTables(m, t) /\ t.page = m.page /\ t.BITMAP = m.BITMAP /\ t.BITMAP_SWAP = m.BITMAP_SWAP
        /\ t.slot = m.slot /\ t.leaked = m.leaked /\ t.fault = m.fault /\ t.overflow = m.overflow
        /\ t.segmentoClock = m.segmentoClock /\ t.frame = C /\ t.want = W /\ t.stale = Z
    BY <1>0 DEF Memory, SameTables
  <2> HIDE DEF t, Z
  <2>8. PagesInside(t) /\ PagesNamed(t)
    BY <1>0, <2>4, <2>7 DEF PagesInside, PagesNamed, PagesOf, SameTables
  <2>9. SegmentsOK(t) /\ FilesOK(t)
    BY <1>0, <2>7 DEF SegmentsOK, SegmentOK, FilesOK, SameTables
  <2>10. Clocked(t) /\ Filled(t)
    BY <1>0, <2>7 DEF Clocked, Filled, Listed, SameTables, lista_de_segmentos
  <2>11. ASSUME SoundIn(t)
         PROVE  FramesOwned(t, {}) /\ SlotsOwned(t) /\ ContentsKept(t)
    <3>1. FramesOwned(m, {}) /\ SlotsOwned(m) /\ ContentsKept(m)
      BY <1>0, <2>7, <2>11 DEF Owned, SoundIn
    <3>2. \A y : (InFrame(t, y) <=> InFrame(m, y)) /\ (InSlot(t, y) <=> InSlot(m, y))
      BY <2>7 DEF InFrame, InSlot
    <3>3. FramesOwned(t, {}) /\ SlotsOwned(t)
      BY <2>7, <3>1, <3>2 DEF FramesOwned, SlotsOwned
    <3>4. InFrame(m, x) /\ ~InSlot(m, x) /\ m.page[x].fr = f
      BY <2>2 DEF InFrame, InSlot, f
    <3>5. \A y : InFrame(m, y) /\ y # x => y \in DOMAIN m.page /\ m.page[y].fr \in Frames /\ m.page[y].fr # f
      BY <1>0, <3>1, <3>4 DEF FramesOwned, InFrame, PagesInside
    <3>6. \A y : y # x => (y \in t.stale <=> y \in m.stale)
      BY <2>7 DEF Z
    <3>7. \A y : InFrame(t, y) /\ (y[1] \in Programs \/ y \notin t.stale) => t.frame[t.page[y].fr] = t.want[y]
      BY <2>3, <2>4, <2>7, <3>1, <3>2, <3>4, <3>5, <3>6 DEF ContentsKept
    <3>8. \A y : InSlot(t, y) => t.slot[t.page[y].fr] = t.want[y]
      BY <2>4, <2>7, <3>1, <3>2, <3>4 DEF ContentsKept, InSlot
    <3> QED
      BY <3>3, <3>7, <3>8 DEF ContentsKept
  <2>12. MemoryInv(t)
    BY <2>6, <2>8, <2>9, <2>10, <2>11 DEF MemoryInv, Owned
  <2> QED
    BY <2>1, <2>7, <2>12 DEF Keeps
<1> QED
  BY <1>1, <1>2

\* The modified bit is not told apart by the invariant.
LEMMA ModifiedIs ==
  ASSUME NEW m, MemoryInv(m), NEW x \in DOMAIN m.page
  PROVE  Keeps(m, [m EXCEPT !.page[x].is_modify = TRUE])
<1> DEFINE here == [m.page[x] EXCEPT !.is_modify = TRUE]
           P == [m.page EXCEPT ![x] = here]
           t == [m EXCEPT !.page = P]
<1>0. m \in Memory
  BY DEF MemoryInv
<1>1. m.page = [y \in DOMAIN m.page |-> m.page[y]] /\ DOMAIN m.page \subseteq Ids
      /\ \A y \in DOMAIN m.page : m.page[y] \in PageType
  BY <1>0, MapsAre DEF Memory
<1>2. here \in PageType /\ here.fr = m.page[x].fr /\ here.is_present = m.page[x].is_present
  BY <1>1 DEF PageType
<1>3. t = [m EXCEPT !.page[x].is_modify = TRUE]
  OBVIOUS
<1> HIDE DEF here
<1>4. /\ P \in Maps(Ids, PageType) /\ DOMAIN P = DOMAIN m.page
      /\ P[x] = here /\ \A y \in DOMAIN m.page \ {x} : P[y] = m.page[y]
  <2>1. DOMAIN P = DOMAIN m.page /\ P = [y \in DOMAIN P |-> P[y]]
        /\ P[x] = here /\ \A y \in DOMAIN m.page \ {x} : P[y] = m.page[y]
    BY <1>1
  <2>2. \A y \in DOMAIN P : P[y] \in PageType
    BY <1>1, <1>2, <2>1
  <2> HIDE DEF P
  <2> QED
    BY <1>1, <2>1, <2>2, MapsAre
<1> HIDE DEF P
<1>5. t \in Memory
  BY <1>0, <1>4 DEF Memory
<1>6. /\ SameTables(m, t) /\ t.page = P /\ t.BITMAP = m.BITMAP /\ t.BITMAP_SWAP = m.BITMAP_SWAP
      /\ t.slot = m.slot /\ t.leaked = m.leaked /\ t.fault = m.fault /\ t.overflow = m.overflow
      /\ t.segmentoClock = m.segmentoClock /\ t.frame = m.frame /\ t.want = m.want /\ t.stale = m.stale
  BY <1>0 DEF Memory, SameTables
<1> HIDE DEF t
<1>7. SameRest(m, t) /\ SameFree(m, t)
  BY <1>2, <1>4, <1>5, <1>6 DEF SameRest, SameFree, SamePlace
<1>8. MemoryInv(t)
  BY <1>6, <1>7, MovesNothing
<1>9. Keeps(m, t)
  BY <1>4, <1>6, <1>8 DEF Keeps
<1> QED
  BY <1>3, <1>9

\* A page is loaded again and written.
LEMMA WriteIs ==
  ASSUME NEW m, MemoryInv(m), NEW s, SegmentIn(m, s), NEW n \in DOMAIN s.pages, NEW v \in Bytes
  PROVE  Keeps(m, Write(m, s, n, v))
<1> DEFINE x == s.pages[n]
           u == [m EXCEPT !.page[x].is_modify = TRUE]
           t == obtener_data(u, s, n)
           r == Store(t, x, v)
<1>1. x \in DOMAIN m.page
  BY DEF SegmentIn, Range
<1>2. Write(m, s, n, v) = r
  BY DEF Write
<1>3. Keeps(m, u)
  BY <1>1, ModifiedIs
<1> HIDE DEF u
<1>4. SegmentIn(u, s)
  BY <1>3, SegmentStays DEF Keeps
<1>5. LoadedIn(u, t, x)
  BY <1>3, <1>4, PageLoad DEF Keeps
<1> HIDE DEF x, t
<1>6. MemoryInv(t) /\ x \in DOMAIN t.page /\ (t.fault = "none" => t.page[x].is_present)
  BY <1>1, <1>3, <1>5 DEF LoadedIn, Keeps
<1>7. Keeps(t, r)
  BY <1>6, StoreIs
<1> HIDE DEF r
<1>8. Keeps(m, r)
  BY <1>3, <1>5, <1>7 DEF Keeps, LoadedIn, SameTables
<1> QED
  BY <1>2, <1>8

\* The page of the header is written back before that of the data.
LEMMA CopiedIs ==
  ASSUME NEW m, MemoryInv(m), NEW s, SegmentIn(m, s), NEW n \in DOMAIN s.pages, NEW v \in Values,
         NEW before \in BOOLEAN, NEW fits \in BOOLEAN, before => s.is_heap /\ n > 1
  PROVE  Keeps(m, Copied(m, s, n, v, before, fits))
<1> DEFINE u == IF before THEN Write(m, s, n - 1, Contents(m, s.pages[n - 1])) ELSE m
<1>0. v \in Bytes
  BY DEF Bytes
<1>1. Keeps(m, m)
  BY DEF Keeps, SameTables
<1>2. CASE ~fits \/ m.fault # "none"
  BY <1>1, <1>2 DEF Copied
<1>3. CASE ~(~fits \/ m.fault # "none")
  <2>1. Keeps(m, u)
    <3>1. CASE before
      <4> DEFINE x == s.pages[n - 1]
                 c == Contents(m, x)
      <4>1. n - 1 \in DOMAIN s.pages
        <5>1. s.pages \in Seq(Ids)
          BY DEF SegmentIn, SegmentType
        <5>2. DOMAIN s.pages = 1..Len(s.pages) /\ Len(s.pages) \in Nat
          BY <5>1
        <5> QED
          BY <3>1, <5>2
      <4>2. x \in DOMAIN m.page /\ x[1] \in Programs
        BY <3>1, <4>1 DEF SegmentIn, SegmentOK, Range
      <4> HIDE DEF x
      <4>3. m \in Memory /\ PagesInside(m)
        BY DEF MemoryInv
      <4>4. c \in Bytes
        BY <4>2, <4>3 DEF Contents, Memory, PagesInside
      <4> HIDE DEF c
      <4>5. Keeps(m, Write(m, s, n - 1, c))
        BY <4>1, <4>4, WriteIs
      <4> QED
        BY <3>1, <4>5 DEF c, x
    <3>2. CASE ~before
      BY <1>1, <3>2
    <3> QED
      BY <3>1, <3>2
  <2>2. Copied(m, s, n, v, before, fits) = Write(u, s, n, v)
    BY <1>3 DEF Copied
  <2> HIDE DEF u
  <2>3. SegmentIn(u, s) /\ MemoryInv(u)
    BY <2>1, SegmentStays DEF Keeps
  <2> DEFINE r == Write(u, s, n, v)
  <2>4. Keeps(u, r)
    BY <1>0, <2>3, WriteIs
  <2> HIDE DEF r
  <2>5. Keeps(m, r)
    BY <2>1, <2>4 DEF Keeps, SameTables
  <2> QED
    BY <2>2, <2>5 DEF r
<1> QED
  BY <1>2, <1>3

(***************************************************************************)
(* The tables.                                                             *)
(***************************************************************************)
LEMMA SegmentOf ==
  ASSUME NEW m, MemoryInv(m), NEW p \in Programs, NEW i \in DOMAIN m.segment_table[p]
  PROVE  SegmentIn(m, m.segment_table[p][i])
<1>1. m \in Memory /\ PagesInside(m) /\ SegmentsOK(m)
  BY DEF MemoryInv
<1>2. m.segment_table[p] \in Seq(SegmentType)
  BY <1>1 DEF Memory
<1>3. m.segment_table[p][i] \in SegmentType
  BY <1>2
<1> QED
  BY <1>1, <1>3 DEF SegmentIn, PagesInside, SegmentsOK

\* With longer tables the list of all segments is no shorter.
LEMMA ListLonger ==
  ASSUME NEW m \in Memory, NEW t \in Memory,
         \A p \in Programs : Len(m.segment_table[p]) <= Len(t.segment_table[p])
  PROVE  Len(lista_de_segmentos(m)) <= Len(lista_de_segmentos(t))
<1> DEFINE A == m.segment_table
           B == t.segment_table
<1>1. A \in [Programs -> Seq(SegmentType)] /\ B \in [Programs -> Seq(SegmentType)]
  BY DEF Memory
<1>2. \A p \in Programs : Len(A[p]) <= Len(B[p])
  OBVIOUS
<1>3. lista_de_segmentos(m) = FlattenSeq(A) /\ lista_de_segmentos(t) = FlattenSeq(B)
  BY DEF lista_de_segmentos
<1> HIDE DEF A, B
<1>4. /\ A \in Seq(Seq(SegmentType)) /\ Len(A) = Cardinality(Programs)
      /\ B \in Seq(Seq(SegmentType)) /\ Len(B) = Cardinality(Programs)
      /\ Programs = 1..Len(A)
  BY <1>1, ProgramsAre
<1>5. Len(FlattenSeq(A)) <= Len(FlattenSeq(B))
  BY <1>2, <1>4, FlattenLonger
<1> QED
  BY <1>3, <1>5

\* A walk over the headers of a heap segment is a sequence of loads.
LEMMA WalkIs ==
  ASSUME NEW m, MemoryInv(m), NEW p \in Programs, NEW t \in Walk(m, p)
  PROVE  Keeps(m, t)
<1>1. PICK s \in Range(m.segment_table[p]) : s.is_heap /\ \E ns \in HeaderPages(s) : t = LoadAll(m, s, ns)
  BY DEF Walk
<1>2. PICK ns \in HeaderPages(s) : t = LoadAll(m, s, ns)
  BY <1>1
<1>3. PICK k \in DOMAIN s.pages : ns \in [1..k -> DOMAIN s.pages]
  BY <1>2 DEF HeaderPages
<1>4. PICK i \in DOMAIN m.segment_table[p] : s = m.segment_table[p][i]
  BY <1>1 DEF Range
<1>5. SegmentIn(m, s)
  BY <1>4, SegmentOf
<1>6. k \in Nat
  <2>1. s.pages \in Seq(Ids)
    BY <1>5 DEF SegmentIn, SegmentType
  <2>2. DOMAIN s.pages = 1..Len(s.pages) /\ Len(s.pages) \in Nat
    BY <2>1
  <2> QED
    BY <1>3, <2>2
<1> QED
  BY <1>2, <1>3, <1>5, <1>6, LoadAllIs DEF Keeps

(***************************************************************************)
(* New pages.                                                              *)
(***************************************************************************)
IsExtended(g, S, T, a, b) ==
  /\ g \in Maps(S, T) /\ DOMAIN g = DOMAIN a \cup DOMAIN b
  /\ \A x \in DOMAIN b : g[x] = b[x]
  /\ \A x \in DOMAIN a : x \notin DOMAIN b => g[x] = a[x]

LEMMA ExtendedIs ==
  ASSUME NEW S, NEW T, NEW a \in Maps(S, T), NEW b \in Maps(S, T)
  PROVE  IsExtended(Extended(a, b), S, T, a, b)
<1> DEFINE g == Extended(a, b)
<1>1. g = [x \in (DOMAIN a) \cup (DOMAIN b) |-> IF x \in DOMAIN b THEN b[x] ELSE a[x]]
  BY DEF Extended
<1> HIDE DEF g
<1>2. /\ DOMAIN a \subseteq S /\ \A x \in DOMAIN a : a[x] \in T
      /\ DOMAIN b \subseteq S /\ \A x \in DOMAIN b : b[x] \in T
  BY MapsAre
<1>3. /\ g = [x \in DOMAIN g |-> g[x]] /\ DOMAIN g = (DOMAIN a) \cup (DOMAIN b)
      /\ \A x \in DOMAIN b : g[x] = b[x]
      /\ \A x \in DOMAIN a : x \notin DOMAIN b => g[x] = a[x]
  BY <1>1
<1>4. DOMAIN g \subseteq S /\ \A x \in DOMAIN g : g[x] \in T
  BY <1>2, <1>3
<1>5. g \in Maps(S, T)
  BY <1>3, <1>4, MapsAre
<1> QED
  BY <1>3, <1>5 DEF g, IsExtended

LEMMA ConstantIs ==
  ASSUME NEW S, NEW T, NEW D \in SUBSET S, NEW b \in T
  PROVE  [y \in D |-> b] \in Maps(S, T)
BY DEF Maps

\* The n pages of a are n.
LEMMA HowMany ==
  ASSUME NEW a, NEW n \in Nat
  PROVE  Cardinality({a} \X (1..n)) = n
<1> DEFINE S == {a} \X (1..n)
           g == [x \in S |-> x[2]]
<1>1. IsFiniteSet(1..n) /\ Cardinality(1..n) = n
  <2>1. 1 \in Int /\ n \in Int
    OBVIOUS
  <2>2. IsFiniteSet(1..n) /\ Cardinality(1..n) = IF 1 > n THEN 0 ELSE n - 1 + 1
    BY <2>1, FS_Interval
  <2> QED
    BY <2>2
<1>2. g \in [S -> 1..n] /\ \A x, y \in S : g[x] = g[y] => x = y
  OBVIOUS
<1>3. \A k \in 1..n : \E x \in S : g[x] = k
  <2> TAKE k \in 1..n
  <2>1. <<a, k>> \in S /\ g[<<a, k>>] = k
    OBVIOUS
  <2> QED
    BY <2>1
<1> HIDE DEF S, g
<1>4. Cardinality(S) = Cardinality(1..n)
  BY <1>1, <1>2, <1>3, SameSize
<1> QED
  BY <1>1, <1>4 DEF S

\* A page x is added to the last segment of p, in the frame f that the request holds.
Longer(s, x) == [s EXCEPT !.pages = Append(@, x), !.limit = @ + PAGE_SIZE]
LastLonger(table, x) == [table EXCEPT ![Len(table)] = Longer(table[Len(table)], x)]

Added(t, r, p, x, f) ==
  /\ r \in Memory /\ x \notin DOMAIN t.page /\ DOMAIN r.page = DOMAIN t.page \cup {x}
  /\ r.page[x].is_present /\ r.page[x].fr = f /\ \A y \in DOMAIN t.page : r.page[y] = t.page[y]
  /\ DOMAIN r.want = DOMAIN t.want \cup {x} /\ r.want[x] = t.frame[f] /\ \A y \in DOMAIN t.want : r.want[y] = t.want[y]
  /\ r.segment_table = [t.segment_table EXCEPT ![p] = LastLonger(t.segment_table[p], x)]
  /\ r.BITMAP = t.BITMAP /\ r.BITMAP_SWAP = t.BITMAP_SWAP /\ r.frame = t.frame /\ r.slot = t.slot
  /\ r.segmentoClock = t.segmentoClock /\ r.mapped = t.mapped /\ r.programas = t.programas
  /\ r.archivo = t.archivo /\ r.fault = t.fault /\ r.overflow = t.overflow /\ r.stale = t.stale
  /\ r.leaked = t.leaked /\ r.unmapped = t.unmapped

Growing(m, p) == m.segment_table[p] # <<>> /\ Last(m.segment_table[p]).is_heap

\* A new page has the next number, and the frame found.
LEMMA NewPageIs ==
  ASSUME NEW t, t.m \in Memory, t.frame \in Frames, t.m.fault = "none", NEW p \in Programs, Growing(t.m, p),
         PagesNamed(t.m), NEW kept, kept = t.m.frame, NEW n \in Nat, PagesOf(t.m, p) = {p} \X (1..n)
  PROVE  Added(t.m, NewPage(t, p, kept), p, <<p, 1 + n>>, t.frame)
<1> DEFINE m == t.m
           f == t.frame
           x == <<p, 1 + n>>
           new == [is_present |-> TRUE, is_used |-> TRUE, is_modify |-> FALSE, fr |-> f]
           table == m.segment_table[p]
           longer == Longer(table[Len(table)], x)
           P == Extended(m.page, [y \in {x} |-> new])
           W == Extended(m.want, [y \in {x} |-> m.frame[f]])
           U == [table EXCEPT ![Len(table)] = longer]
           T == [m.segment_table EXCEPT ![p] = U]
           r == [m EXCEPT !.page = P, !.want = W, !.segment_table = T]
<1>1. Cardinality({y \in DOMAIN m.page : y[1] = p}) = n
  BY HowMany DEF PagesOf
<1>2. NewPage(t, p, kept) = r
  BY <1>1 DEF NewPage, ReplaceAt, Last, Longer
<1>3. m \in Memory /\ f \in Frames /\ PagesNamed(m) /\ table # <<>> /\ table[Len(table)].is_heap
      /\ PagesOf(m, p) = {p} \X (1..n)
  BY DEF Growing, Last
<1> HIDE DEF m, f
<1>4. x \in Ids /\ x[1] = p /\ x[2] = 1 + n /\ x \notin DOMAIN m.page
  BY <1>3 DEF Ids, PagesOf
<1>5. new \in PageType /\ new.is_present /\ new.fr = f
  BY <1>3 DEF PageType
<1>6. m.page \in Maps(Ids, PageType) /\ m.want \in Maps(Ids, Bytes) /\ m.frame[f] \in Bytes /\ DOMAIN m.want = DOMAIN m.page
  BY <1>3 DEF Memory, PagesNamed
<1> HIDE DEF new, x
<1>8. /\ P \in Maps(Ids, PageType) /\ DOMAIN P = DOMAIN m.page \cup {x} /\ P[x] = new
      /\ \A y \in DOMAIN m.page : P[y] = m.page[y]
  <2> DEFINE b == [y \in {x} |-> new]
  <2>1. b \in Maps(Ids, PageType)
    BY <1>4, <1>5, ConstantIs
  <2>2. DOMAIN b = {x} /\ b[x] = new /\ P = Extended(m.page, b)
    OBVIOUS
  <2> HIDE DEF b, P
  <2>3. IsExtended(P, Ids, PageType, m.page, b)
    BY <1>6, <2>1, <2>2, ExtendedIs
  <2> QED
    BY <1>4, <2>2, <2>3 DEF IsExtended
<1>9. /\ W \in Maps(Ids, Bytes) /\ DOMAIN W = DOMAIN m.want \cup {x} /\ W[x] = m.frame[f]
      /\ \A y \in DOMAIN m.want : W[y] = m.want[y]
  <2> DEFINE b == [y \in {x} |-> m.frame[f]]
  <2>1. b \in Maps(Ids, Bytes)
    BY <1>4, <1>6, ConstantIs
  <2>2. DOMAIN b = {x} /\ b[x] = m.frame[f] /\ W = Extended(m.want, b)
    OBVIOUS
  <2> HIDE DEF b, W
  <2>3. IsExtended(W, Ids, Bytes, m.want, b)
    BY <1>6, <2>1, <2>2, ExtendedIs
  <2> QED
    BY <1>4, <1>6, <2>2, <2>3 DEF IsExtended
<1>10. T \in [Programs -> Seq(SegmentType)]
  <2>1. m.segment_table \in [Programs -> Seq(SegmentType)] /\ table \in Seq(SegmentType)
    BY <1>3 DEF Memory
  <2> HIDE DEF table
  <2>2. Len(table) \in 1..Len(table) /\ table[Len(table)] \in SegmentType
    BY <1>3, <2>1
  <2>3. longer \in SegmentType
    <3> DEFINE s == table[Len(table)]
    <3>1. s \in SegmentType
      BY <2>2
    <3> HIDE DEF s
    <3>2. Append(s.pages, x) \in Seq(Ids) /\ s.limit + PAGE_SIZE \in Nat
      BY <1>4, <3>1, PagingAssumption DEF SegmentType, PagingAssumption
    <3>3. Longer(s, x) \in SegmentType
      BY <3>1, <3>2 DEF SegmentType, Longer
    <3> QED
      BY <3>3 DEF s
  <2> HIDE DEF longer
  <2>4. U \in Seq(SegmentType)
    BY <2>1, <2>2, <2>3
  <2> HIDE DEF U
  <2> QED
    BY <2>1, <2>4
<1>11. T = [m.segment_table EXCEPT ![p] = LastLonger(m.segment_table[p], x)]
  BY DEF T, U, LastLonger
<1> HIDE DEF P, W, T
<1>12. r \in Memory
  BY <1>3, <1>8, <1>9, <1>10 DEF Memory
<1>13. /\ r.page = P /\ r.want = W /\ r.segment_table = T
       /\ r.BITMAP = m.BITMAP /\ r.BITMAP_SWAP = m.BITMAP_SWAP /\ r.frame = m.frame /\ r.slot = m.slot
       /\ r.segmentoClock = m.segmentoClock /\ r.mapped = m.mapped /\ r.programas = m.programas
       /\ r.archivo = m.archivo /\ r.fault = m.fault /\ r.overflow = m.overflow /\ r.stale = m.stale
       /\ r.leaked = m.leaked /\ r.unmapped = m.unmapped
  BY <1>3 DEF Memory
<1> HIDE DEF r
<1>14. Added(m, r, p, x, f)
  BY <1>4, <1>5, <1>8, <1>9, <1>11, <1>12, <1>13 DEF Added
<1> QED
  BY <1>2, <1>14 DEF m, f, x

LongerOK(r, s, l, x) ==
  l \in SegmentType /\ SegmentOK(r, l) /\ l.is_heap /\ l.file = NoFile /\ Range(l.pages) = Range(s.pages) \cup {x}

\* The last segment with one page more is a heap segment still.
LEMMA LongerIs ==
  ASSUME NEW m, NEW r, NEW s \in SegmentType, s.is_heap, SegmentOK(m, s), NEW x \in Ids, x[1] \in Programs
  PROVE  LongerOK(r, s, Longer(s, x), x)
<1> DEFINE l == Longer(s, x)
           n == Len(s.pages)
           P == Append(s.pages, x)
<1>1. s.pages \in Seq(Ids) /\ n \in Nat /\ DOMAIN s.pages = 1..n /\ s.base \in Nat /\ s.limit \in Nat
  BY DEF SegmentType
<1>2. P \in Seq(Ids) /\ DOMAIN P = 1..(n + 1) /\ P[n + 1] = x /\ \A k \in 1..n : P[k] = s.pages[k]
  BY <1>1
<1> HIDE DEF P
<1>3. /\ l.pages = P /\ l.limit = s.limit + PAGE_SIZE /\ l.base = s.base /\ l.is_heap = s.is_heap /\ l.file = s.file
      /\ l \in SegmentType
  <2>1. s.limit + PAGE_SIZE \in Nat
    BY <1>1, PagingAssumption DEF PagingAssumption
  <2> QED
    BY <1>2, <2>1 DEF Longer, SegmentType, P
<1> HIDE DEF l
<1>4. Range(P) = Range(s.pages) \cup {x}
  <2>1. \A k \in 1..(n + 1) : k \in 1..n \/ k = n + 1
    BY <1>1
  <2>2. n + 1 \in 1..(n + 1) /\ \A k \in 1..n : k \in 1..(n + 1)
    BY <1>1
  <2> HIDE DEF n
  <2> QED
    BY <1>1, <1>2, <2>1, <2>2 DEF Range
<1>5. s.file = NoFile /\ \A k \in 1..n : s.pages[k][1] \in Programs
  BY <1>1 DEF SegmentOK
<1>6. \A k \in 1..(n + 1) : P[k][1] \in Programs
  <2>1. \A k \in 1..(n + 1) : k \in 1..n \/ k = n + 1
    BY <1>1
  <2> QED
    BY <1>2, <1>5, <2>1
<1>7. PAGE_SIZE \in Nat /\ s.base <= s.limit + PAGE_SIZE
  BY <1>1, PagingAssumption DEF PagingAssumption, SegmentOK
<1>8. \A k \in 1..(n + 1) : s.base + (k - 1) * PAGE_SIZE <= s.limit + PAGE_SIZE
  <2> TAKE k \in 1..(n + 1)
  <2>0. \A a \in Nat : a * PAGE_SIZE \in Nat /\ (a + 1) * PAGE_SIZE = a * PAGE_SIZE + PAGE_SIZE
    BY <1>7
  <2>1. CASE k \in 1..n
    <3>1. s.base + (k - 1) * PAGE_SIZE <= s.limit
      BY <1>1, <2>1 DEF SegmentOK
    <3>0. k - 1 \in Nat
      BY <1>1, <2>1
    <3>2. (k - 1) * PAGE_SIZE \in Nat
      BY <2>0, <3>0
    <3> DEFINE z == (k - 1) * PAGE_SIZE
    <3>3. z \in Nat /\ s.base + z <= s.limit
      BY <3>1, <3>2
    <3> HIDE DEF z
    <3>4. s.base + z <= s.limit + PAGE_SIZE
      BY <1>1, <1>7, <3>3
    <3> QED
      BY <3>4 DEF z
  <2>2. CASE k = n + 1 /\ n # 0
    <3>1. n \in 1..n /\ n - 1 \in Nat /\ k - 1 = (n - 1) + 1
      BY <1>1, <2>2
    <3>2. s.base + (n - 1) * PAGE_SIZE <= s.limit
      BY <1>1, <3>1 DEF SegmentOK
    <3> DEFINE z == (n - 1) * PAGE_SIZE
    <3>3. (k - 1) * PAGE_SIZE = z + PAGE_SIZE /\ z \in Nat /\ s.base + z <= s.limit
      BY <2>0, <3>1, <3>2
    <3> HIDE DEF z
    <3>4. s.base + (z + PAGE_SIZE) <= s.limit + PAGE_SIZE
      BY <1>1, <1>7, <3>3
    <3> QED
      BY <3>3, <3>4
  <2>3. CASE k = 1
    <3>1. (k - 1) * PAGE_SIZE = 0
      BY <1>7, <2>3
    <3> QED
      BY <1>1, <1>7, <3>1
  <2>4. k \in 1..n \/ (k = n + 1 /\ n # 0) \/ k = 1
    BY <1>1
  <2> QED
    BY <2>1, <2>2, <2>3, <2>4
<1>9. SegmentOK(r, l)
  BY <1>2, <1>3, <1>5, <1>6, <1>7, <1>8 DEF SegmentOK
<1> QED
  BY <1>3, <1>4, <1>5, <1>9 DEF l, LongerOK

LEMMA CardinalityGrows ==
  ASSUME NEW S, NEW T, IsFiniteSet(T), S \subseteq T
  PROVE  Cardinality(S) \in Nat /\ Cardinality(T) \in Nat /\ Cardinality(S) <= Cardinality(T)
<1>1. IsFiniteSet(S) /\ Cardinality(S) <= Cardinality(T)
  BY FS_Subset
<1> QED
  BY <1>1, FS_CardinalityType

\* More pages leave memory and swap full.
LEMMA FilledGrows ==
  ASSUME NEW m \in Memory, NEW t \in Memory, PagesNamed(t), Filled(m), t.overflow => m.overflow,
         m.unmapped => t.unmapped, DOMAIN m.page \subseteq DOMAIN t.page, t.leaked = m.leaked
  PROVE  Filled(t)
<1> SUFFICES ASSUME t.overflow, ~t.unmapped
             PROVE  Cardinality(DOMAIN t.page) + Cardinality(t.leaked) >= Cardinality(Frames) + Cardinality(Slots)
  BY DEF Filled
<1>1. Cardinality(DOMAIN m.page) + Cardinality(t.leaked) >= Cardinality(Frames) + Cardinality(Slots)
  BY DEF Filled
<1>2. IsFiniteSet(DOMAIN t.page)
  BY PagesFinite
<1>3. /\ Cardinality(DOMAIN m.page) \in Nat /\ Cardinality(DOMAIN t.page) \in Nat
      /\ Cardinality(DOMAIN m.page) <= Cardinality(DOMAIN t.page)
  BY <1>2, CardinalityGrows
<1>4. t.leaked \subseteq Slots /\ IsFiniteSet(Slots) /\ IsFiniteSet(Frames)
  BY PagingAssumption DEF Memory, PagingAssumption
<1>5. Cardinality(t.leaked) \in Nat /\ Cardinality(Slots) \in Nat /\ Cardinality(Frames) \in Nat
  BY <1>4, CardinalityGrows
<1> QED
  BY <1>1, <1>3, <1>5

\* The frame in the hand goes to the new page, which ends the last segment of p.
LEMMA AddedInv ==
  ASSUME NEW t \in Memory, PagesInside(t), PagesNamed(t), SegmentsOK(t), FilesOK(t), Clocked(t), Filled(t),
         NEW f \in Frames, Owned(t, {f}), t.fault = "none", NEW p \in Programs, Growing(t, p),
         NEW n \in Nat, PagesOf(t, p) = {p} \X (1..n), NEW x, x = <<p, 1 + n>>,
         NEW r, Added(t, r, p, x, f)
  PROVE  MemoryInv(r) /\ Growing(r, p)
<1> DEFINE A == t.segment_table[p]
           B == r.segment_table[p]
           k == Len(A)
<1>1. /\ r \in Memory /\ x \notin DOMAIN t.page /\ DOMAIN r.page = DOMAIN t.page \cup {x}
      /\ r.page[x].is_present /\ r.page[x].fr = f /\ \A y \in DOMAIN t.page : r.page[y] = t.page[y]
      /\ DOMAIN r.want = DOMAIN t.want \cup {x} /\ r.want[x] = t.frame[f] /\ \A y \in DOMAIN t.want : r.want[y] = t.want[y]
      /\ r.segment_table = [t.segment_table EXCEPT ![p] = LastLonger(A, x)]
      /\ r.BITMAP = t.BITMAP /\ r.BITMAP_SWAP = t.BITMAP_SWAP /\ r.frame = t.frame /\ r.slot = t.slot
      /\ r.segmentoClock = t.segmentoClock /\ r.mapped = t.mapped /\ r.programas = t.programas
      /\ r.archivo = t.archivo /\ r.fault = t.fault /\ r.overflow = t.overflow /\ r.stale = t.stale
      /\ r.leaked = t.leaked /\ r.unmapped = t.unmapped
  BY DEF Added
<1>2. A \in Seq(SegmentType) /\ A # <<>> /\ A[k].is_heap /\ t.segment_table \in [Programs -> Seq(SegmentType)]
  BY DEF Growing, Last, Memory
<1>3. k \in 1..k /\ k \in Nat /\ DOMAIN A = 1..k /\ A[k] \in SegmentType
  BY <1>2
<1>4. x \in Ids /\ x[1] = p
  BY DEF Ids
<1>5. B = LastLonger(A, x) /\ \A q \in Programs : q # p => r.segment_table[q] = t.segment_table[q]
  BY <1>1, <1>2
<1>6. DOMAIN B = 1..k /\ B[k] = Longer(A[k], x) /\ \A i \in 1..k : i # k => B[i] = A[i]
  BY <1>3, <1>5 DEF LastLonger
<1>7. Len(B) = k
  <2>1. B \in Seq(SegmentType)
    BY <1>1 DEF Memory
  <2>2. DOMAIN B = 1..Len(B) /\ Len(B) \in Nat
    BY <2>1
  <2>3. 1..Len(B) = 1..k
    BY <1>6, <2>2
  <2> HIDE DEF B, k
  <2> QED
    BY <1>3, <2>2, <2>3
<1>8. SegmentOK(t, A[k])
  BY <1>3 DEF SegmentsOK
<1> HIDE DEF A, B, k
<1>9. /\ SegmentOK(r, B[k]) /\ B[k].is_heap /\ B[k].file = NoFile /\ Range(B[k].pages) = Range(A[k].pages) \cup {x}
  <2> DEFINE s == A[k]
  <2>1. s \in SegmentType /\ s.is_heap /\ SegmentOK(t, s) /\ x[1] \in Programs
    BY <1>2, <1>3, <1>4, <1>8
  <2> HIDE DEF s
  <2>2. LongerOK(r, s, Longer(s, x), x)
    BY <1>4, <2>1, LongerIs
  <2> QED
    BY <1>6, <2>2 DEF s, LongerOK
<1>10. Growing(r, p)
  <2>1. B # <<>>
    BY <1>3, <1>6
  <2> QED
    BY <1>7, <1>9, <2>1 DEF Growing, Last, B
<1>11. \A q \in Programs : \A i \in DOMAIN r.segment_table[q] :
         \/ q = p /\ i = k
         \/ i \in DOMAIN t.segment_table[q] /\ r.segment_table[q][i] = t.segment_table[q][i]
  BY <1>3, <1>5, <1>6 DEF A, B
<1>12. PagesInside(r)
  <2>1. ASSUME NEW q \in Programs, NEW i \in DOMAIN r.segment_table[q]
        PROVE  Range(r.segment_table[q][i].pages) \subseteq DOMAIN r.page
    <3>1. CASE q = p /\ i = k
      <4>1. Range(A[k].pages) \subseteq DOMAIN t.page
        BY <1>3 DEF PagesInside, A
      <4> QED
        BY <1>1, <1>9, <3>1, <4>1 DEF B
    <3>2. CASE i \in DOMAIN t.segment_table[q] /\ r.segment_table[q][i] = t.segment_table[q][i]
      BY <1>1, <3>2 DEF PagesInside
    <3> QED
      BY <1>11, <3>1, <3>2
  <2>2. \A y \in DOMAIN r.page :
          r.page[y].fr \in IF r.page[y].is_present THEN Frames ELSE IF y[1] \in Programs THEN Slots ELSE Frames \cup Slots
    BY <1>1 DEF PagesInside
  <2> QED
    BY <2>1, <2>2 DEF PagesInside
<1>13. PagesNamed(r)
  <2>1. DOMAIN r.want = DOMAIN r.page
    BY <1>1 DEF PagesNamed
  <2>2. \A a : a # p => PagesOf(r, a) = PagesOf(t, a)
    BY <1>1, <1>4 DEF PagesOf
  <2>3. PagesOf(r, p) = {p} \X (1..(n + 1))
    <3>1. PagesOf(r, p) = PagesOf(t, p) \cup {x}
      BY <1>1, <1>4 DEF PagesOf
    <3>2. 1..(n + 1) = (1..n) \cup {1 + n}
      OBVIOUS
    <3> QED
      BY <3>1, <3>2
  <2>4. \A f1 \in Files : f1 # p
    BY PagingAssumption DEF PagingAssumption
  <2>5. \A q \in Programs : \E j \in Nat : PagesOf(r, q) = {q} \X (1..j)
    <3> TAKE q \in Programs
    <3>1. CASE q = p
      <4>1. n + 1 \in Nat
        OBVIOUS
      <4> QED
        BY <2>3, <3>1, <4>1
    <3>2. CASE q # p
      BY <2>2, <3>2 DEF PagesNamed
    <3> QED
      BY <3>1, <3>2
  <2>6. \A g \in Files : PagesOf(r, g) = IF g \in r.mapped THEN {g} \X (1..FilePages[g]) ELSE {}
    BY <1>1, <2>2, <2>4 DEF PagesNamed
  <2> QED
    BY <2>1, <2>5, <2>6 DEF PagesNamed
<1>14. SegmentsOK(r)
  <2> SUFFICES ASSUME NEW q \in Programs, NEW i \in DOMAIN r.segment_table[q]
               PROVE  SegmentOK(r, r.segment_table[q][i])
    BY DEF SegmentsOK
  <2>1. CASE q = p /\ i = k
    BY <1>9, <2>1 DEF B
  <2>2. CASE i \in DOMAIN t.segment_table[q] /\ r.segment_table[q][i] = t.segment_table[q][i]
    <3>1. SegmentOK(t, r.segment_table[q][i])
      BY <2>2 DEF SegmentsOK
    <3> QED
      BY <1>1, <3>1 DEF SegmentOK
  <2> QED
    BY <1>11, <2>1, <2>2
<1>15. FilesOK(r)
  BY <1>1 DEF FilesOK
<1>16. Filled(r)
  BY <1>1, <1>13, FilledGrows
<1>17. Clocked(r)
  <2>1. r.fault \in {"clock", "hang"} => r.unmapped \/ r.overflow
    BY <1>1
  <2> SUFFICES ASSUME ~r.unmapped
               PROVE  /\ \A q \in Programs : \A i \in DOMAIN r.segment_table[q] : r.segment_table[q][i].file # Destroyed
                      /\ \A y \in DOMAIN r.page : Listed(r, y)
                      /\ r.segmentoClock = 1 \/ r.segmentoClock <= Len(lista_de_segmentos(r))
    BY <2>1 DEF Clocked
  <2>2. /\ \A q \in Programs : \A i \in DOMAIN t.segment_table[q] : t.segment_table[q][i].file # Destroyed
        /\ \A y \in DOMAIN t.page : Listed(t, y)
        /\ t.segmentoClock = 1 \/ t.segmentoClock <= Len(lista_de_segmentos(t))
    BY <1>1 DEF Clocked
  <2>3. \A q \in Programs : \A i \in DOMAIN r.segment_table[q] : r.segment_table[q][i].file # Destroyed
    <3>1. NoFile # Destroyed
      BY DEF NoFile, Destroyed
    <3> QED
      BY <1>9, <1>11, <2>2, <3>1 DEF B
  <2>4. \A y \in DOMAIN r.page : Listed(r, y)
    <3> TAKE y \in DOMAIN r.page
    <3>1. k \in DOMAIN r.segment_table[p]
      BY <1>3, <1>6 DEF B
    <3>2. CASE y = x
      BY <1>9, <3>1, <3>2 DEF Listed, B
    <3>3. CASE y # x
      <4>1. PICK q \in Programs : \E i \in DOMAIN t.segment_table[q] : y \in Range(t.segment_table[q][i].pages)
        BY <1>1, <2>2, <3>3 DEF Listed
      <4>2. PICK i \in DOMAIN t.segment_table[q] : y \in Range(t.segment_table[q][i].pages)
        BY <4>1
      <4>3. CASE q = p /\ i = k
        BY <1>9, <3>1, <4>2, <4>3 DEF Listed, A, B
      <4>4. CASE ~(q = p /\ i = k)
        <5>1. i \in DOMAIN r.segment_table[q] /\ r.segment_table[q][i] = t.segment_table[q][i]
          BY <1>3, <1>5, <1>6, <4>4 DEF A, B
        <5> QED
          BY <4>2, <5>1 DEF Listed
      <4> QED
        BY <4>3, <4>4
    <3> QED
      BY <3>2, <3>3
  <2>5. Len(lista_de_segmentos(t)) <= Len(lista_de_segmentos(r))
    <3>1. \A q \in Programs : Len(t.segment_table[q]) <= Len(r.segment_table[q])
      <4> TAKE q \in Programs
      <4>1. CASE q = p
        BY <1>3, <1>7, <4>1 DEF A, B, k
      <4>2. CASE q # p
        <5>1. t.segment_table[q] \in Seq(SegmentType)
          BY <1>2
        <5>2. Len(t.segment_table[q]) \in Nat
          BY <5>1
        <5> QED
          BY <1>5, <4>2, <5>2
      <4> QED
        BY <4>1, <4>2
    <3> QED
      BY <1>1, <3>1, ListLonger
  <2>6. r.segmentoClock = 1 \/ r.segmentoClock <= Len(lista_de_segmentos(r))
    <3>1. r.segmentoClock \in Nat
      BY <1>1 DEF Memory
    <3>2. lista_de_segmentos(t) \in Seq(SegmentType) /\ lista_de_segmentos(r) \in Seq(SegmentType)
      BY <1>1, ListIs
    <3>3. Len(lista_de_segmentos(t)) \in Nat /\ Len(lista_de_segmentos(r)) \in Nat
      BY <3>2
    <3> QED
      BY <1>1, <2>2, <2>5, <3>1, <3>3
  <2> QED
    BY <2>3, <2>4, <2>6
<1>18. Owned(r, {})
  <2> SUFFICES ASSUME SoundIn(r)
               PROVE  FramesOwned(r, {}) /\ SlotsOwned(r) /\ ContentsKept(r)
    BY DEF Owned
  <2>1. FramesOwned(t, {f}) /\ SlotsOwned(t) /\ ContentsKept(t)
    BY <1>1 DEF Owned, SoundIn
  <2>2. \A y : /\ InFrame(r, y) <=> InFrame(t, y) \/ y = x
               /\ InSlot(r, y) <=> InSlot(t, y)
               /\ y \in DOMAIN t.page => r.page[y].fr = t.page[y].fr /\ y # x
    BY <1>1 DEF InFrame, InSlot
  <2>3. ~InFrame(t, x) /\ ~InSlot(t, x) /\ r.page[x].fr = f
    BY <1>1 DEF InFrame, InSlot
  <2>4. FramesOwned(r, {})
    <3>1. \A y : InFrame(r, y) /\ y # x => InFrame(t, y) /\ r.page[y].fr = t.page[y].fr
                                         /\ t.page[y].fr # f /\ t.page[y].fr \notin t.BITMAP
      BY <2>1, <2>2 DEF FramesOwned, InFrame
    <3>2. f \notin t.BITMAP
      BY <2>1 DEF FramesOwned
    <3>3. \A g \in Frames \ r.BITMAP : \E y : InFrame(r, y) /\ r.page[y].fr = g
      BY <1>1, <2>1, <2>2, <2>3 DEF FramesOwned, InFrame
    <3>4. \A y, z : InFrame(r, y) /\ InFrame(r, z) /\ r.page[y].fr = r.page[z].fr => y = z
      BY <2>1, <2>3, <3>1 DEF FramesOwned
    <3> QED
      BY <1>1, <2>3, <3>1, <3>2, <3>3, <3>4 DEF FramesOwned
  <2>5. SlotsOwned(r)
    <3>1. \A y : InSlot(t, y) => r.page[y].fr = t.page[y].fr
      BY <2>2 DEF InSlot
    <3>2. \A y, z : InSlot(r, y) /\ InSlot(r, z) /\ r.page[y].fr = r.page[z].fr => y = z
      BY <2>1, <2>2, <3>1 DEF SlotsOwned
    <3>3. \A y : InSlot(r, y) => r.page[y].fr \notin r.BITMAP_SWAP \cup r.leaked
      BY <1>1, <2>1, <2>2, <3>1 DEF SlotsOwned
    <3>4. \A s \in Slots \ (r.BITMAP_SWAP \cup r.leaked) : \E y : InSlot(r, y) /\ r.page[y].fr = s
      BY <1>1, <2>1, <2>2, <3>1 DEF SlotsOwned
    <3>5. r.leaked \cap r.BITMAP_SWAP = {}
      BY <1>1, <2>1 DEF SlotsOwned
    <3> QED
      BY <3>2, <3>3, <3>4, <3>5 DEF SlotsOwned
  <2>6. ContentsKept(r)
    <3>1. DOMAIN t.want = DOMAIN t.page
      BY DEF PagesNamed
    <3>2. \A y : InFrame(t, y) \/ InSlot(t, y) => y \in DOMAIN t.page /\ r.want[y] = t.want[y] /\ r.page[y].fr = t.page[y].fr
      BY <1>1, <3>1 DEF InFrame, InSlot
    <3>3. \A y : InFrame(r, y) /\ (y[1] \in Programs \/ y \notin r.stale) => r.frame[r.page[y].fr] = r.want[y]
      BY <1>1, <2>1, <2>2, <2>3, <3>2 DEF ContentsKept
    <3>4. \A y : InSlot(r, y) => r.slot[r.page[y].fr] = r.want[y]
      BY <1>1, <2>1, <2>2, <3>2 DEF ContentsKept
    <3> QED
      BY <3>3, <3>4 DEF ContentsKept
  <2> QED
    BY <2>4, <2>5, <2>6
<1> QED
  BY <1>1, <1>10, <1>12, <1>13, <1>14, <1>15, <1>16, <1>17, <1>18 DEF MemoryInv

\* A page is added, or no frame is found for it.
LEMMA AddPageIs ==
  ASSUME NEW m, MemoryInv(m), NEW p \in Programs, Growing(m, p)
  PROVE  MemoryInv(AddPage(m, p)) /\ Growing(AddPage(m, p), p)
<1>0. m \in Memory /\ PagesInside(m) /\ PagesNamed(m) /\ SegmentsOK(m) /\ FilesOK(m)
      /\ Owned(m, {}) /\ Clocked(m) /\ Filled(m)
  BY DEF MemoryInv
<1>1. CASE m.fault # "none"
  BY <1>1 DEF AddPage
<1>2. CASE m.fault = "none"
  <2> DEFINE k == TakeFrame(m)
             t == k.m
             f == k.frame
             r == NewPage(k, p, m.frame)
  <2>1. AddPage(m, p) = r
    BY <1>2 DEF AddPage
  <2>2. Took(m, t, f)
    BY <1>0, TakeFrameIs
  <2> HIDE DEF k
  <2>3. t \in Memory /\ f \in Frames /\ SameTables(m, t) /\ DOMAIN t.page = DOMAIN m.page /\ t.frame = m.frame
    BY <2>2 DEF Took, SameRest
  <2>4. Owned(t, {f}) /\ PagesInside(t)
    BY <1>0, <2>2, TookOwned
  <2>5. Clocked(t) /\ Filled(t) /\ PagesNamed(t)
    BY <1>0, <1>2, <2>2, TookClocked
  <2>6. SegmentsOK(t) /\ FilesOK(t) /\ Growing(t, p)
    BY <1>0, <2>3 DEF SegmentsOK, SegmentOK, FilesOK, SameTables, Growing
  <2>7. CASE t.fault # "none"
    <3>1. r = t
      BY <2>7 DEF NewPage
    <3>2. Owned(t, {})
      BY <2>7 DEF Owned, SoundIn
    <3> QED
      BY <2>1, <2>3, <2>4, <2>5, <2>6, <3>1, <3>2 DEF MemoryInv
  <2>8. CASE t.fault = "none"
    <3>1. PICK n \in Nat : PagesOf(t, p) = {p} \X (1..n)
      BY <2>5 DEF PagesNamed
    <3> DEFINE x == <<p, 1 + n>>
    <3>2. Added(t, r, p, x, f)
      BY <2>3, <2>5, <2>6, <2>8, <3>1, NewPageIs
    <3> HIDE DEF r, t, f, x
    <3>3. x = <<p, 1 + n>>
      BY DEF x
    <3>4. MemoryInv(r) /\ Growing(r, p)
      BY <2>3, <2>4, <2>5, <2>6, <2>8, <3>1, <3>2, <3>3, AddedInv
    <3> QED
      BY <2>1, <3>4
  <2> QED
    BY <2>7, <2>8
<1> QED
  BY <1>1, <1>2

\* The clock once the segment s, with the pages that are in no other, is there too.
ClockedWith(m, s) ==
  /\ m.fault \in {"clock", "hang"} => m.unmapped \/ m.overflow
  /\ ~m.unmapped =>
       /\ \A p \in Programs : \A i \in DOMAIN m.segment_table[p] : m.segment_table[p][i].file # Destroyed
       /\ \A x \in DOMAIN m.page : Listed(m, x) \/ x \in Range(s.pages)
       /\ m.segmentoClock = 1 \/ m.segmentoClock <= Len(lista_de_segmentos(m))

Appended(m, t, p, s) ==
  /\ t \in Memory /\ t.segment_table = [m.segment_table EXCEPT ![p] = Append(m.segment_table[p], s)]
  /\ t.page = m.page /\ t.want = m.want
  /\ t.BITMAP = m.BITMAP /\ t.BITMAP_SWAP = m.BITMAP_SWAP /\ t.frame = m.frame /\ t.slot = m.slot
  /\ t.segmentoClock = m.segmentoClock /\ t.mapped = m.mapped
  /\ t.archivo = m.archivo /\ t.fault = m.fault /\ t.overflow = m.overflow /\ t.stale = m.stale
  /\ t.leaked = m.leaked /\ t.unmapped = m.unmapped

\* A segment is put at the end of the table of p.
LEMMA AppendedInv ==
  ASSUME NEW m \in Memory, PagesInside(m), PagesNamed(m), SegmentsOK(m), FilesOK(m), Owned(m, {}), Filled(m),
         NEW p \in Programs, NEW s, SegmentIn(m, s), s.file # Destroyed, ClockedWith(m, s),
         NEW t, Appended(m, t, p, s)
  PROVE  /\ MemoryInv(t) /\ t.segment_table[p] # <<>> /\ Last(t.segment_table[p]) = s
<1> DEFINE A == m.segment_table[p]
           B == Append(A, s)
           T == t.segment_table
           k == Len(A)
<1>1. s \in SegmentType /\ SegmentOK(m, s) /\ Range(s.pages) \subseteq DOMAIN m.page
  BY DEF SegmentIn
<1>2. m.segment_table \in [Programs -> Seq(SegmentType)] /\ A \in Seq(SegmentType)
  BY DEF Memory
<1>a. T = [m.segment_table EXCEPT ![p] = B]
  BY DEF Appended
<1> HIDE DEF A, T
<1>3. /\ B \in Seq(SegmentType) /\ Len(B) = k + 1 /\ DOMAIN B = 1..(k + 1) /\ DOMAIN A = 1..k /\ k \in Nat
      /\ B[k + 1] = s /\ \A i \in 1..k : B[i] = A[i]
  BY <1>1, <1>2
<1> HIDE DEF B
<1>4. T \in [Programs -> Seq(SegmentType)] /\ T[p] = B /\ \A q \in Programs : q # p => T[q] = m.segment_table[q]
  BY <1>2, <1>3, <1>a
<1>6. t \in Memory
  BY DEF Appended
<1>7. /\ t.segment_table = T /\ t.page = m.page /\ t.want = m.want
      /\ t.BITMAP = m.BITMAP /\ t.BITMAP_SWAP = m.BITMAP_SWAP /\ t.frame = m.frame /\ t.slot = m.slot
      /\ t.segmentoClock = m.segmentoClock /\ t.mapped = m.mapped
      /\ t.archivo = m.archivo /\ t.fault = m.fault /\ t.overflow = m.overflow /\ t.stale = m.stale
      /\ t.leaked = m.leaked /\ t.unmapped = m.unmapped
  BY DEF Appended, T
<1>9. \A q \in Programs : \A i \in DOMAIN T[q] :
        \/ q = p /\ i = k + 1 /\ T[q][i] = s
        \/ i \in DOMAIN m.segment_table[q] /\ T[q][i] = m.segment_table[q][i]
  <2> TAKE q \in Programs
  <2> TAKE i \in DOMAIN T[q]
  <2>1. CASE q = p
    <3>1. i \in 1..(k + 1)
      BY <1>3, <1>4, <2>1
    <3>2. i = k + 1 \/ i \in 1..k
      BY <1>3, <3>1
    <3> QED
      BY <1>3, <1>4, <2>1, <3>2 DEF A
  <2>2. CASE q # p
    BY <1>4, <2>2
  <2> QED
    BY <2>1, <2>2
<1>10. \A q \in Programs : \A i \in DOMAIN m.segment_table[q] : i \in DOMAIN T[q] /\ T[q][i] = m.segment_table[q][i]
  <2> TAKE q \in Programs
  <2> TAKE i \in DOMAIN m.segment_table[q]
  <2>1. CASE q = p
    <3>1. i \in 1..k /\ i \in 1..(k + 1)
      BY <1>3, <2>1 DEF A
    <3> QED
      BY <1>3, <1>4, <2>1, <3>1 DEF A
  <2>2. CASE q # p
    BY <1>4, <2>2
  <2> QED
    BY <2>1, <2>2
<1>b. k + 1 \in DOMAIN T[p] /\ T[p][k + 1] = s
  BY <1>3, <1>4
<1>11. t.segment_table[p] # <<>> /\ Last(t.segment_table[p]) = s
  <2>1. B # <<>>
    BY <1>3
  <2> QED
    BY <1>3, <1>4, <1>7, <2>1 DEF Last
<1>12. PagesInside(t) /\ PagesNamed(t) /\ FilesOK(t)
  <2>1. PagesInside(t)
    <3>1. \A q \in Programs : \A i \in DOMAIN t.segment_table[q] : Range(t.segment_table[q][i].pages) \subseteq DOMAIN t.page
      BY <1>1, <1>7, <1>9 DEF PagesInside
    <3> QED
      BY <1>7, <3>1 DEF PagesInside
  <2> QED
    BY <1>7, <2>1 DEF PagesNamed, PagesOf, FilesOK
<1>13. SegmentsOK(t)
  <2> SUFFICES ASSUME NEW q \in Programs, NEW i \in DOMAIN T[q]
               PROVE  SegmentOK(t, T[q][i])
    BY <1>7 DEF SegmentsOK
  <2>1. CASE T[q][i] = s
    BY <1>1, <1>7, <2>1 DEF SegmentOK
  <2>2. CASE i \in DOMAIN m.segment_table[q] /\ T[q][i] = m.segment_table[q][i]
    <3>1. SegmentOK(m, T[q][i])
      BY <2>2 DEF SegmentsOK
    <3> QED
      BY <1>7, <3>1 DEF SegmentOK
  <2> QED
    BY <1>9, <2>1, <2>2
<1>14. Owned(t, {})
  BY <1>7 DEF Owned, SoundIn, FramesOwned, SlotsOwned, ContentsKept, InFrame, InSlot
<1>15. Filled(t)
  BY <1>7 DEF Filled
<1>16. Clocked(t)
  <2>2. ~t.unmapped => \A q \in Programs : \A i \in DOMAIN t.segment_table[q] : t.segment_table[q][i].file # Destroyed
    BY <1>7, <1>9 DEF ClockedWith
  <2>3. ~t.unmapped => \A y \in DOMAIN t.page : Listed(t, y)
    BY <1>7, <1>10, <1>b DEF Listed, ClockedWith
  <2>4. Len(lista_de_segmentos(m)) <= Len(lista_de_segmentos(t))
    <3>1. \A q \in Programs : Len(m.segment_table[q]) <= Len(t.segment_table[q])
      <4> TAKE q \in Programs
      <4>1. CASE q = p
        BY <1>3, <1>4, <1>7, <4>1 DEF A
      <4>2. CASE q # p
        <5>1. m.segment_table[q] \in Seq(SegmentType)
          BY <1>2
        <5>2. Len(m.segment_table[q]) \in Nat
          BY <5>1
        <5> QED
          BY <1>4, <1>7, <4>2, <5>2
      <4> QED
        BY <4>1, <4>2
    <3> QED
      BY <1>6, <3>1, ListLonger
  <2>5. ~t.unmapped => t.segmentoClock = 1 \/ t.segmentoClock <= Len(lista_de_segmentos(t))
    <3>1. t.segmentoClock \in Nat
      BY <1>6 DEF Memory
    <3>2. lista_de_segmentos(m) \in Seq(SegmentType) /\ lista_de_segmentos(t) \in Seq(SegmentType)
      BY <1>6, ListIs
    <3>3. Len(lista_de_segmentos(m)) \in Nat /\ Len(lista_de_segmentos(t)) \in Nat
      BY <3>2
    <3> QED
      BY <1>7, <2>4, <3>1, <3>3 DEF ClockedWith
  <2> QED
    BY <1>7, <2>2, <2>3, <2>5 DEF Clocked, ClockedWith
<1>17. MemoryInv(t)
  BY <1>6, <1>12, <1>13, <1>14, <1>15, <1>16 DEF MemoryInv
<1> QED
  BY <1>11, <1>17

\* A heap segment with no pages yet, at the end of the table.
LEMMA HeapSegmentInv ==
  ASSUME NEW m, MemoryInv(m), NEW p \in Programs
  PROVE  LET t == [m EXCEPT !.segment_table[p] = Append(@, NewHeapSegment)] IN
         MemoryInv(t) /\ Growing(t, p)
<1> DEFINE s == NewHeapSegment
           T == [m.segment_table EXCEPT ![p] = Append(m.segment_table[p], s)]
           t == [m EXCEPT !.segment_table = T]
<1>0. m \in Memory /\ PagesInside(m) /\ PagesNamed(m) /\ SegmentsOK(m) /\ FilesOK(m)
      /\ Owned(m, {}) /\ Clocked(m) /\ Filled(m)
  BY DEF MemoryInv
<1>1. /\ s \in SegmentType /\ s.pages = <<>> /\ s.is_heap /\ s.file = NoFile /\ s.base = 0 /\ s.limit = 0
  BY DEF NewHeapSegment, SegmentType, NoFile
<1>2. t = [m EXCEPT !.segment_table[p] = Append(@, NewHeapSegment)]
  OBVIOUS
<1> HIDE DEF s
<1>3. T \in [Programs -> Seq(SegmentType)]
  <2>1. m.segment_table \in [Programs -> Seq(SegmentType)] /\ m.segment_table[p] \in Seq(SegmentType)
    BY <1>0 DEF Memory
  <2>2. Append(m.segment_table[p], s) \in Seq(SegmentType)
    BY <1>1, <2>1
  <2> QED
    BY <2>1, <2>2
<1>4. SegmentIn(m, s)
  <2>1. DOMAIN s.pages = {}
    BY <1>1
  <2> QED
    BY <1>1, <2>1 DEF SegmentIn, SegmentOK, Range
<1>5. s.file # Destroyed /\ ClockedWith(m, s)
  BY <1>0, <1>1 DEF NoFile, Destroyed, Clocked, ClockedWith
<1>6. Appended(m, t, p, s)
  <2> HIDE DEF T
  <2>1. t \in Memory
    BY <1>0, <1>3 DEF Memory
  <2>2. t.segment_table = T
    BY <1>0 DEF Memory
  <2>3. /\ t.page = m.page /\ t.want = m.want
        /\ t.BITMAP = m.BITMAP /\ t.BITMAP_SWAP = m.BITMAP_SWAP /\ t.frame = m.frame /\ t.slot = m.slot
        /\ t.segmentoClock = m.segmentoClock /\ t.mapped = m.mapped
        /\ t.archivo = m.archivo /\ t.fault = m.fault /\ t.overflow = m.overflow /\ t.stale = m.stale
        /\ t.leaked = m.leaked /\ t.unmapped = m.unmapped
    BY <1>0 DEF Memory
  <2> HIDE DEF t
  <2> QED
    BY <2>1, <2>2, <2>3 DEF Appended, T
<1> HIDE DEF t
<1>7. MemoryInv(t) /\ t.segment_table[p] # <<>> /\ Last(t.segment_table[p]) = s
  BY <1>0, <1>4, <1>5, <1>6, AppendedInv
<1> QED
  BY <1>1, <1>2, <1>7 DEF Growing

LEMMA MallocIs ==
  ASSUME MemoryInv(muse), NEW p \in Programs, memory_malloc(p)
  PROVE  MemoryInv(muse')
<1> DEFINE table == muse.segment_table[p]
           fresh == table = <<>> \/ ~Last(table).is_heap
           start == IF fresh THEN [muse EXCEPT !.segment_table[p] = Append(@, NewHeapSegment)] ELSE muse
<1>1. PICK n \in 0..(MaxPages - Cardinality(HeapIds)) :
        muse' \in Walk(AddPages(IF n = 0 THEN muse ELSE start, p, n), p)
  BY DEF memory_malloc
<1>2. MemoryInv(start) /\ Growing(start, p)
  <2>1. CASE fresh
    BY <2>1, HeapSegmentInv
  <2>2. CASE ~fresh
    BY <2>2 DEF Growing
  <2> QED
    BY <2>1, <2>2
<1> HIDE DEF start
<1> DEFINE first == IF n = 0 THEN muse ELSE start
           M == {m \in Memory : MemoryInv(m) /\ (n > 0 => Growing(m, p))}
           grown == AddPages(first, p, n)
<1>3. n \in Nat
  OBVIOUS
<1>4. first \in M
  BY <1>2, <1>3 DEF MemoryInv
<1>5. n > 0 => \A m \in M : AddPage(m, p) \in M
  <2> SUFFICES ASSUME n > 0, NEW m \in M
               PROVE  AddPage(m, p) \in M
    OBVIOUS
  <2> DEFINE r == AddPage(m, p)
  <2>1. MemoryInv(r) /\ Growing(r, p)
    BY AddPageIs
  <2> HIDE DEF r
  <2>2. r \in M
    BY <2>1 DEF MemoryInv
  <2> QED
    BY <2>2 DEF r
<1>6. grown \in M
  <2> HIDE DEF M, first
  <2> QED
    BY <1>3, <1>4, <1>5, AddPagesStay
<1>7. muse' \in Walk(grown, p)
  BY <1>1
<1> HIDE DEF grown
<1>8. MemoryInv(grown)
  BY <1>6
<1> QED
  BY <1>7, <1>8, WalkIs DEF Keeps

(***************************************************************************)
(* The requests.                                                           *)
(***************************************************************************)
LEMMA FaultIs ==
  ASSUME NEW m, MemoryInv(m), NEW x \in {"crash", "lost"}
  PROVE  MemoryInv([m EXCEPT !.fault = x])
<1> DEFINE t == [m EXCEPT !.fault = x]
<1>0. m \in Memory /\ PagesInside(m) /\ PagesNamed(m) /\ SegmentsOK(m) /\ FilesOK(m)
      /\ Owned(m, {}) /\ Clocked(m) /\ Filled(m)
  BY DEF MemoryInv
<1>1. t \in Memory
  BY <1>0 DEF Memory, Faults
<1>2. /\ t.fault = x /\ t.segment_table = m.segment_table /\ t.page = m.page /\ t.want = m.want
      /\ t.segmentoClock = m.segmentoClock /\ t.mapped = m.mapped
      /\ t.archivo = m.archivo /\ t.overflow = m.overflow /\ t.leaked = m.leaked /\ t.unmapped = m.unmapped
  BY <1>0 DEF Memory
<1> HIDE DEF t
<1>3. PagesInside(t) /\ PagesNamed(t) /\ SegmentsOK(t) /\ FilesOK(t) /\ Filled(t)
  BY <1>0, <1>2 DEF PagesInside, PagesNamed, PagesOf, SegmentsOK, SegmentOK, FilesOK, Filled
<1>4. Owned(t, {})
  BY <1>2 DEF Owned, SoundIn
<1>5. Clocked(t)
  BY <1>0, <1>2 DEF Clocked, Listed, lista_de_segmentos
<1>6. MemoryInv(t)
  BY <1>1, <1>3, <1>4, <1>5 DEF MemoryInv
<1> QED
  BY <1>6 DEF t

\* An address of a segment is found, in that segment or in an earlier one.
LEMMA BuscaIs ==
  ASSUME NEW m, MemoryInv(m), NEW p \in Programs, NEW s \in Range(m.segment_table[p]), NEW address,
         s.base <= address, address <= s.limit
  PROVE  busca_segmento(m, p, address) \in DOMAIN m.segment_table[p]
<1> DEFINE found == {i \in DOMAIN m.segment_table[p] :
             m.segment_table[p][i].base <= address /\ address <= m.segment_table[p][i].limit}
<1>1. found # {}
  BY DEF Range
<1>2. found \in SUBSET Nat
  <2>1. m.segment_table[p] \in Seq(SegmentType)
    BY DEF MemoryInv, Memory
  <2> QED
    BY <2>1
<1>3. busca_segmento(m, p, address) = Min(found)
  BY <1>1 DEF busca_segmento
<1> HIDE DEF found
<1>4. Min(found) \in found
  BY <1>1, <1>2, MinOf
<1> QED
  BY <1>3, <1>4 DEF found

\* The addresses a client knows are found.
LEMMA AddressIs ==
  ASSUME MemoryInv(muse), NEW p \in Programs, NEW address \in Addresses(p)
  PROVE  busca_segmento(muse, p, address) \in DOMAIN muse.segment_table[p]
<1>1. PICK s \in Range(muse.segment_table[p]) : \E k \in DOMAIN s.pages : address = s.base + (k - 1) * PAGE_SIZE
  BY DEF Addresses
<1>2. PICK k \in DOMAIN s.pages : address = s.base + (k - 1) * PAGE_SIZE
  BY <1>1
<1>3. PICK i \in DOMAIN muse.segment_table[p] : s = muse.segment_table[p][i]
  BY DEF Range
<1>4. SegmentIn(muse, s)
  BY <1>3, SegmentOf
<1>5. s.base \in Nat /\ k - 1 \in Nat /\ PAGE_SIZE \in Nat
  <2>1. s.base \in Nat /\ s.pages \in Seq(Ids)
    BY <1>4 DEF SegmentIn, SegmentType
  <2>2. DOMAIN s.pages = 1..Len(s.pages)
    BY <2>1
  <2> QED
    BY <1>2, <2>1, <2>2, PagingAssumption DEF PagingAssumption
<1>6. (k - 1) * PAGE_SIZE \in Nat
  <2>1. \A a, b \in Nat : a * b \in Nat
    OBVIOUS
  <2> QED
    BY <1>5, <2>1
<1>7. s.base <= address
  <2> DEFINE z == (k - 1) * PAGE_SIZE
  <2>1. z \in Nat /\ address = s.base + z
    BY <1>2, <1>6
  <2> HIDE DEF z
  <2> QED
    BY <1>5, <2>1
<1>8. address <= s.limit
  BY <1>2, <1>4 DEF SegmentIn, SegmentOK
<1> QED
  BY <1>7, <1>8, BuscaIs

LEMMA FreeIs ==
  ASSUME MemoryInv(muse), NEW p \in Programs, memory_free(p)
  PROVE  MemoryInv(muse')
<1>1. CASE muse' = [muse EXCEPT !.fault = "lost"]
  BY <1>1, FaultIs
<1>2. CASE muse' \in Walk(muse, p)
  BY <1>2, WalkIs DEF Keeps
<1> QED
  BY <1>1, <1>2 DEF memory_free

LEMMA GetIs ==
  ASSUME MemoryInv(muse), NEW p \in Programs, memory_get(p)
  PROVE  MemoryInv(muse')
<1>1. PICK address \in Addresses(p) :
        LET s == muse.segment_table[p][busca_segmento(muse, p, address)]
            n == PageOf(s, address)
        IN muse' = IF n \in DOMAIN s.pages THEN LoadAll(muse, s, <<n>>) ELSE [muse EXCEPT !.fault = "crash"]
  BY DEF memory_get
<1> DEFINE i == busca_segmento(muse, p, address)
           s == muse.segment_table[p][i]
           n == PageOf(s, address)
<1>2. i \in DOMAIN muse.segment_table[p]
  BY AddressIs
<1>3. muse' = IF n \in DOMAIN s.pages THEN LoadAll(muse, s, <<n>>) ELSE [muse EXCEPT !.fault = "crash"]
  BY <1>1
<1> HIDE DEF i
<1>4. SegmentIn(muse, s)
  BY <1>2, SegmentOf
<1> HIDE DEF s, n
<1>5. CASE n \in DOMAIN s.pages
  <2>1. <<n>> \in [1..1 -> DOMAIN s.pages] /\ 1 \in Nat
    BY <1>5
  <2>2. muse' = LoadAll(muse, s, <<n>>)
    BY <1>3, <1>5
  <2> DEFINE ns == <<n>>
  <2>3. ns \in [1..1 -> DOMAIN s.pages] /\ muse' = LoadAll(muse, s, ns)
    BY <2>1, <2>2
  <2> HIDE DEF ns
  <2> QED
    BY <1>4, <2>1, <2>3, LoadAllIs
<1>6. CASE n \notin DOMAIN s.pages
  BY <1>3, <1>6, FaultIs
<1> QED
  BY <1>5, <1>6

LEMMA CpyIs ==
  ASSUME MemoryInv(muse), NEW p \in Programs, memory_cpy(p)
  PROVE  MemoryInv(muse')
<1>1. PICK address \in Addresses(p), v \in Values, before \in BOOLEAN, fits \in BOOLEAN :
        LET s == muse.segment_table[p][busca_segmento(muse, p, address)]
            n == PageOf(s, address)
        IN /\ (before \/ ~fits) => s.is_heap
           /\ before => n > 1
           /\ muse' = IF n \in DOMAIN s.pages
                      THEN Copied(LoadAll(muse, s, IF before THEN <<n - 1, n>> ELSE <<n>>), s, n, v, before, fits)
                      ELSE [muse EXCEPT !.fault = "crash"]
  BY DEF memory_cpy
<1> DEFINE i == busca_segmento(muse, p, address)
           s == muse.segment_table[p][i]
           n == PageOf(s, address)
           ns == IF before THEN <<n - 1, n>> ELSE <<n>>
           t == LoadAll(muse, s, ns)
<1>2. i \in DOMAIN muse.segment_table[p]
  BY AddressIs
<1>3. /\ (before \/ ~fits) => s.is_heap
      /\ before => n > 1
      /\ muse' = IF n \in DOMAIN s.pages THEN Copied(t, s, n, v, before, fits) ELSE [muse EXCEPT !.fault = "crash"]
  BY <1>1
<1> HIDE DEF i
<1>4. SegmentIn(muse, s)
  BY <1>2, SegmentOf
<1> HIDE DEF s, n
<1>5. CASE n \notin DOMAIN s.pages
  BY <1>3, <1>5, FaultIs
<1>6. CASE n \in DOMAIN s.pages
  <2>1. \E k \in Nat : ns \in [1..k -> DOMAIN s.pages]
    <3>1. DOMAIN s.pages = 1..Len(s.pages) /\ Len(s.pages) \in Nat
      <4>1. s.pages \in Seq(Ids)
        BY <1>4 DEF SegmentIn, SegmentType
      <4> QED
        BY <4>1
    <3>2. CASE before
      <4>1. n - 1 \in DOMAIN s.pages
        BY <1>3, <1>6, <3>1, <3>2
      <4>2. ns \in [1..2 -> DOMAIN s.pages] /\ 2 \in Nat
        BY <1>6, <3>2, <4>1
      <4> QED
        BY <4>2
    <3>3. CASE ~before
      <4>1. ns \in [1..1 -> DOMAIN s.pages] /\ 1 \in Nat
        BY <1>6, <3>3
      <4> QED
        BY <4>1
    <3> QED
      BY <3>2, <3>3
  <2>2. muse' = Copied(t, s, n, v, before, fits)
    BY <1>3, <1>6
  <2> HIDE DEF ns
  <2>3. MemoryInv(t) /\ SameTables(muse, t) /\ DOMAIN t.page = DOMAIN muse.page
    BY <1>4, <2>1, LoadAllIs
  <2> HIDE DEF t
  <2>4. SegmentIn(t, s)
    BY <1>4, <2>3, SegmentStays
  <2>5. Keeps(t, Copied(t, s, n, v, before, fits))
    BY <1>3, <1>6, <2>3, <2>4, CopiedIs
  <2> QED
    BY <2>2, <2>5 DEF Keeps
<1> QED
  BY <1>5, <1>6

LEMMA SyncIs ==
  ASSUME MemoryInv(muse), NEW p \in Programs, memory_sync(p)
  PROVE  MemoryInv(muse')
<1>1. PICK address \in Addresses(p), h \in Files : \E length \in 1..FilePages[h] :
        LET s == lista_de_segmentos(muse)[busca_segmento(muse, p, address)]
            n == PageOf(s, address)
            ns == [k \in 1..length |-> n + k - 1]
        IN /\ ~s.is_heap
           /\ p \in Users(muse, s)
           /\ muse' = IF ~(Range(ns) \subseteq DOMAIN s.pages) THEN [muse EXCEPT !.fault = "crash"]
                      ELSE Synced(LoadAll(muse, s, ns), s, n, length)
  BY DEF memory_sync
<1> DEFINE i == busca_segmento(muse, p, address)
           s == lista_de_segmentos(muse)[i]
           n == PageOf(s, address)
<1>2. PICK length \in 1..FilePages[h] :
        /\ ~s.is_heap
        /\ p \in Users(muse, s)
        /\ muse' = IF ~(Range([k \in 1..length |-> n + k - 1]) \subseteq DOMAIN s.pages) THEN [muse EXCEPT !.fault = "crash"]
                   ELSE Synced(LoadAll(muse, s, [k \in 1..length |-> n + k - 1]), s, n, length)
  BY <1>1
<1> DEFINE ns == [k \in 1..length |-> n + k - 1]
           t == LoadAll(muse, s, ns)
           f == s.file
<1>3. /\ ~s.is_heap /\ p \in Users(muse, s)
      /\ muse' = IF ~(Range(ns) \subseteq DOMAIN s.pages) THEN [muse EXCEPT !.fault = "crash"] ELSE Synced(t, s, n, length)
  BY <1>2
<1>4. i \in DOMAIN muse.segment_table[p]
  BY AddressIs
<1> DEFINE L == lista_de_segmentos(muse)
<1>5. SegmentIn(muse, s)
  <2>1. muse.segment_table[p] \in Seq(SegmentType) /\ muse \in Memory
    BY DEF MemoryInv, Memory
  <2>2. i \in 1..Len(muse.segment_table[p]) /\ Len(muse.segment_table[p]) \in Nat
    BY <1>4, <2>1
  <2>3. /\ L \in Seq(SegmentType)
        /\ \A j \in 1..Len(L) : \E q \in Programs : \E k \in DOMAIN muse.segment_table[q] : L[j] = muse.segment_table[q][k]
        /\ Len(muse.segment_table[p]) <= Len(L)
    BY <2>1, ListIs
  <2> HIDE DEF L, i
  <2>4. Len(L) \in Nat
    BY <2>3
  <2>5. i \in 1..Len(L)
    BY <2>2, <2>3, <2>4
  <2>6. PICK q \in Programs : \E k \in DOMAIN muse.segment_table[q] : L[i] = muse.segment_table[q][k]
    BY <2>3, <2>5
  <2>7. PICK k \in DOMAIN muse.segment_table[q] : L[i] = muse.segment_table[q][k]
    BY <2>6
  <2>8. SegmentIn(muse, L[i])
    BY <2>7, SegmentOf
  <2> QED
    BY <2>8 DEF L
<1>6. n \in Int
  <2>1. s.base \in Int
    BY <1>5 DEF SegmentIn, SegmentType
  <2>2. address \in Int
    <3>1. PICK w \in Range(muse.segment_table[p]) : \E k \in DOMAIN w.pages : address = w.base + (k - 1) * PAGE_SIZE
      BY DEF Addresses
    <3>2. PICK k \in DOMAIN w.pages : address = w.base + (k - 1) * PAGE_SIZE
      BY <3>1
    <3>3. PICK j \in DOMAIN muse.segment_table[p] : w = muse.segment_table[p][j]
      BY DEF Range
    <3>4. w \in SegmentType
      BY <3>3, SegmentOf DEF SegmentIn
    <3>5. w.base \in Int /\ k \in Int /\ PAGE_SIZE \in Int
      <4>1. w.base \in Int /\ w.pages \in Seq(Ids)
        BY <3>4 DEF SegmentType
      <4>2. DOMAIN w.pages = 1..Len(w.pages)
        BY <4>1
      <4> QED
        BY <3>2, <4>1, <4>2, PagingAssumption DEF PagingAssumption
    <3>6. (k - 1) * PAGE_SIZE \in Int
      BY <3>5
    <3> DEFINE z == (k - 1) * PAGE_SIZE
    <3>7. z \in Int /\ address = w.base + z
      BY <3>2, <3>6
    <3> HIDE DEF z
    <3> QED
      BY <3>5, <3>7
  <2>3. PAGE_SIZE \in Nat \ {0}
    BY PagingAssumption DEF PagingAssumption
  <2> HIDE DEF s
  <2> QED
    BY <2>1, <2>2, <2>3 DEF PageOf
<1>7. f \in muse.mapped /\ f \in Files /\ s.pages = [j \in 1..FilePages[f] |-> <<f, j>>] /\ FilePages[f] \in Nat
  <2>1. f # Destroyed
    BY <1>3 DEF Users
  <2>2. muse.mapped \subseteq Files
    BY DEF MemoryInv, Memory
  <2> QED
    BY <1>3, <1>5, <2>1, <2>2, PagingAssumption DEF SegmentIn, SegmentOK, PagingAssumption
<1> HIDE DEF i, s, n
<1>8. CASE ~(Range(ns) \subseteq DOMAIN s.pages)
  BY <1>3, <1>8, FaultIs
<1>9. CASE Range(ns) \subseteq DOMAIN s.pages
  <2>1. length \in Nat /\ ns \in [1..length -> DOMAIN s.pages] /\ \A k \in 1..length : ns[k] = n + k - 1
    <3>1. \A k \in 1..length : ns[k] \in Range(ns)
      BY DEF Range
    <3>2. ns \in [1..length -> DOMAIN s.pages]
      BY <1>9, <3>1
    <3>3. \A k \in 1..length : ns[k] = n + k - 1
      OBVIOUS
    <3>4. length \in Nat
      BY <1>7, PagingAssumption DEF PagingAssumption
    <3> HIDE DEF ns
    <3> QED
      BY <3>2, <3>3, <3>4
  <2> HIDE DEF ns
  <2>2. /\ MemoryInv(t) /\ SameTables(muse, t) /\ DOMAIN t.page = DOMAIN muse.page
        /\ t.fault = "none" => \A k \in 1..length : Loaded(t, s.pages[ns[k]])
    BY <1>5, <2>1, LoadAllIs
  <2> HIDE DEF t
  <2>3. muse' = Synced(t, s, n, length)
    BY <1>3, <1>9
  <2>4. CASE t.fault # "none"
    BY <2>2, <2>3, <2>4 DEF Synced
  <2>5. CASE t.fault = "none"
    <3> DEFINE w == [k \in 1..FilePages[f] |->
                      IF k < n THEN t.archivo[f][k]
                      ELSE IF k < n + length THEN Contents(t, s.pages[k]) ELSE Zeros]
               A == [t.archivo EXCEPT ![f] = w]
               synced == {s.pages[k] : k \in n..(n + length - 1)}
               cleared == {s.pages[k] : k \in (n + length)..Len(s.pages)}
               U == (t.unsaved \ synced) \cup (synced \cap t.stale) \cup cleared
               r == [t EXCEPT !.archivo = A, !.unsaved = U]
    <3>1. muse' = r
      BY <2>3, <2>5 DEF Synced
    <3>2. t \in Memory /\ PagesInside(t) /\ FilesOK(t)
      BY <2>2 DEF MemoryInv
    <3>3. t.archivo \in [Files -> Maps(Nat, Bytes)] /\ DOMAIN t.archivo[f] = 1..FilePages[f]
      BY <1>7, <3>2 DEF Memory, FilesOK
    <3>4. ASSUME NEW k \in 1..FilePages[f]
          PROVE  w[k] \in Bytes
      <4>1. CASE k < n
        <5> DEFINE g == t.archivo[f]
        <5>1. g \in Maps(Nat, Bytes) /\ k \in DOMAIN g
          BY <1>7, <3>3
        <5> HIDE DEF g
        <5>2. g[k] \in Bytes
          BY <5>1, MapsAre
        <5> QED
          BY <4>1, <5>2 DEF g
      <4>2. CASE ~(k < n) /\ k < n + length
        <5>1. k - n + 1 \in 1..length /\ n + (k - n + 1) - 1 = k
          BY <1>6, <2>1, <4>2
        <5>2. ns[k - n + 1] = k
          BY <2>1, <5>1
        <5> DEFINE x == s.pages[k]
        <5>3. Loaded(t, x)
          BY <2>2, <2>5, <5>1, <5>2
        <5>4. x \in DOMAIN t.page
          <6>1. k \in DOMAIN s.pages
            BY <1>7
          <6> QED
            BY <1>5, <2>2, <6>1 DEF SegmentIn, Range
        <5> HIDE DEF x
        <5>5. Contents(t, x) \in Bytes
          BY <3>2, <5>3, <5>4 DEF Contents, Loaded, PagesInside, Memory
        <5> QED
          BY <4>2, <5>5 DEF x
      <4>3. CASE ~(k < n) /\ ~(k < n + length)
        BY <4>3 DEF Bytes
      <4> QED
        BY <4>1, <4>2, <4>3
    <3>5. w \in Maps(Nat, Bytes) /\ DOMAIN w = 1..FilePages[f]
      <4>1. w = [k \in DOMAIN w |-> w[k]] /\ DOMAIN w = 1..FilePages[f] /\ 1..FilePages[f] \subseteq Nat
        OBVIOUS
      <4>2. \A k \in DOMAIN w : w[k] \in Bytes
        BY <3>4
      <4> HIDE DEF w
      <4> QED
        BY <4>1, <4>2, MapsAre
    <3> HIDE DEF w
    <3>6. A \in [Files -> Maps(Nat, Bytes)] /\ \A g \in Files : DOMAIN A[g] = 1..FilePages[g]
      BY <1>7, <3>2, <3>3, <3>5 DEF FilesOK
    <3>e. U \in SUBSET Ids
      <4>1. s.pages \in Seq(Ids)
        BY <1>5 DEF SegmentIn, SegmentType
      <4>2. n \in DOMAIN s.pages /\ length \in Nat /\ length # 0
        <5>1. 1 \in 1..length /\ n + 1 - 1 = n
          BY <1>6, <2>1
        <5> QED
          BY <2>1, <5>1
      <4>3. \A k \in (n + length)..Len(s.pages) : k \in DOMAIN s.pages
        BY <4>1, <4>2
      <4>4. cleared \subseteq Ids
        BY <4>1, <4>3
      <4>5. t.unsaved \subseteq Ids /\ t.stale \subseteq Ids
        BY <3>2 DEF Memory
      <4> HIDE DEF synced, cleared
      <4> QED
        BY <4>4, <4>5
    <3> HIDE DEF A, U
    <3>7. r \in Memory
      BY <3>2, <3>6, <3>e DEF Memory
    <3>8. /\ r.archivo = A /\ r.segment_table = t.segment_table /\ r.page = t.page /\ r.want = t.want
          /\ r.BITMAP = t.BITMAP /\ r.BITMAP_SWAP = t.BITMAP_SWAP /\ r.frame = t.frame /\ r.slot = t.slot
          /\ r.segmentoClock = t.segmentoClock /\ r.mapped = t.mapped
          /\ r.fault = t.fault /\ r.overflow = t.overflow /\ r.stale = t.stale
          /\ r.leaked = t.leaked /\ r.unmapped = t.unmapped
      BY <3>2 DEF Memory
    <3> HIDE DEF r
    <3>a. PagesNamed(t) /\ SegmentsOK(t) /\ Owned(t, {}) /\ Clocked(t) /\ Filled(t)
      BY <2>2 DEF MemoryInv
    <3>b. PagesInside(r)
      BY <3>2, <3>8 DEF PagesInside
    <3>c. PagesNamed(r)
      BY <3>a, <3>8 DEF PagesNamed, PagesOf
    <3>d. SegmentsOK(r) /\ FilesOK(r)
      BY <3>a, <3>6, <3>8 DEF SegmentsOK, SegmentOK, FilesOK
    <3>9. PagesInside(r) /\ PagesNamed(r) /\ SegmentsOK(r) /\ FilesOK(r) /\ Filled(r)
      BY <3>a, <3>b, <3>c, <3>d, <3>8 DEF Filled
    <3>10. Owned(r, {})
      BY <3>a, <3>8 DEF Owned, SoundIn, FramesOwned, SlotsOwned, ContentsKept, InFrame, InSlot
    <3>11. Clocked(r)
      BY <3>a, <3>8 DEF Clocked, Listed, lista_de_segmentos
    <3> QED
      BY <3>1, <3>7, <3>9, <3>10, <3>11 DEF MemoryInv
  <2> QED
    BY <2>4, <2>5
<1> QED
  BY <1>8, <1>9

\* The pages of a file, none of them in memory yet, are there too.
Opened(m, o, f) ==
  /\ o \in Memory /\ o.segment_table = m.segment_table /\ o.mapped = m.mapped \cup {f} /\ o.archivo = m.archivo
  /\ o.BITMAP = m.BITMAP /\ o.BITMAP_SWAP = m.BITMAP_SWAP /\ o.frame = m.frame /\ o.slot = m.slot
  /\ o.segmentoClock = m.segmentoClock /\ o.fault = m.fault /\ o.overflow = m.overflow /\ o.stale = m.stale
  /\ o.leaked = m.leaked /\ o.unmapped = m.unmapped
  /\ DOMAIN o.page = DOMAIN m.page \cup ({f} \X (1..FilePages[f])) /\ DOMAIN o.want = DOMAIN o.page
  /\ \A x \in DOMAIN m.page : o.page[x] = m.page[x] /\ o.want[x] = m.want[x]
  /\ \A x \in DOMAIN o.page \ DOMAIN m.page : ~o.page[x].is_present /\ o.page[x].fr \in Frames

\* The first mapping of a file makes its pages.
LEMMA OpenedIs ==
  ASSUME NEW m, MemoryInv(m), NEW f \in Files, f \notin m.mapped,
         NEW P, P = [x \in {f} \X (1..FilePages[f]) |->
                       [is_present |-> FALSE, is_used |-> FALSE, is_modify |-> FALSE, fr |-> Min(Frames)]],
         NEW W, W = [x \in DOMAIN W |-> W[x]], DOMAIN W = {f} \X (1..FilePages[f]),
         \A x \in DOMAIN W : W[x] = m.archivo[f][x[2]]
  PROVE  Opened(m, [m EXCEPT !.mapped = @ \cup {f}, !.page = Extended(@, P), !.want = Extended(@, W)], f)
<1> DEFINE X == {f} \X (1..FilePages[f])
           absent == [is_present |-> FALSE, is_used |-> FALSE, is_modify |-> FALSE, fr |-> Min(Frames)]
           A == Extended(m.page, P)
           B == Extended(m.want, W)
           o == [m EXCEPT !.mapped = @ \cup {f}, !.page = A, !.want = B]
<1>0. m \in Memory /\ PagesNamed(m) /\ FilesOK(m)
  BY DEF MemoryInv
<1>1. X \in SUBSET Ids /\ DOMAIN P = X /\ DOMAIN W = X
  <2>1. \A x \in X : x \in Ids
    BY PagingAssumption DEF Ids, PagingAssumption
  <2> QED
    BY <2>1
<1>2. X \cap DOMAIN m.page = {}
  <2>1. PagesOf(m, f) = {}
    BY <1>0 DEF PagesNamed
  <2> QED
    BY <2>1 DEF PagesOf
<1>3. Min(Frames) \in Frames
  BY PagingAssumption, MinOf DEF PagingAssumption
<1>4. absent \in PageType /\ ~absent.is_present /\ absent.fr \in Frames
  BY <1>3 DEF PageType
<1> HIDE DEF absent
<1>5. P \in Maps(Ids, PageType) /\ \A x \in X : P[x] = absent
  BY <1>1, <1>4, ConstantIs DEF absent
<1>6. W \in Maps(Ids, Bytes)
  <2>1. \A x \in X : W[x] \in Bytes
    <3> TAKE x \in X
    <3> DEFINE g == m.archivo[f]
    <3>1. g \in Maps(Nat, Bytes) /\ x[2] \in DOMAIN g
      BY <1>0 DEF Memory, FilesOK
    <3> HIDE DEF g
    <3>2. g[x[2]] \in Bytes
      BY <3>1, MapsAre
    <3> QED
      BY <3>2 DEF g
  <2>2. DOMAIN W \subseteq Ids /\ \A x \in DOMAIN W : W[x] \in Bytes
    BY <1>1, <2>1
  <2> QED
    BY <2>2, MapsAre
<1>7. m.page \in Maps(Ids, PageType) /\ m.want \in Maps(Ids, Bytes) /\ DOMAIN m.want = DOMAIN m.page
  BY <1>0 DEF Memory, PagesNamed
<1>8. IsExtended(A, Ids, PageType, m.page, P)
  BY <1>5, <1>7, ExtendedIs
<1>9. IsExtended(B, Ids, Bytes, m.want, W)
  BY <1>6, <1>7, ExtendedIs
<1> HIDE DEF A, B, X
<1>10. /\ A \in Maps(Ids, PageType) /\ DOMAIN A = DOMAIN m.page \cup X
       /\ \A x \in DOMAIN m.page : A[x] = m.page[x]
       /\ \A x \in X : A[x] = absent
  BY <1>1, <1>2, <1>5, <1>8 DEF IsExtended
<1>11. /\ B \in Maps(Ids, Bytes) /\ DOMAIN B = DOMAIN m.page \cup X
       /\ \A x \in DOMAIN m.page : B[x] = m.want[x]
  BY <1>1, <1>2, <1>7, <1>9 DEF IsExtended
<1>12. o \in Memory
  BY <1>0, <1>10, <1>11 DEF Memory
<1>13. /\ o.segment_table = m.segment_table /\ o.mapped = m.mapped \cup {f} /\ o.archivo = m.archivo
       /\ o.BITMAP = m.BITMAP /\ o.BITMAP_SWAP = m.BITMAP_SWAP /\ o.frame = m.frame /\ o.slot = m.slot
       /\ o.segmentoClock = m.segmentoClock /\ o.fault = m.fault /\ o.overflow = m.overflow /\ o.stale = m.stale
       /\ o.leaked = m.leaked /\ o.unmapped = m.unmapped /\ o.page = A /\ o.want = B
  BY <1>0 DEF Memory
<1>14. o = [m EXCEPT !.mapped = @ \cup {f}, !.page = Extended(@, P), !.want = Extended(@, W)]
  BY DEF A, B
<1> HIDE DEF o
<1>15. DOMAIN o.page = DOMAIN m.page \cup ({f} \X (1..FilePages[f]))
  BY <1>10, <1>13 DEF X
<1>16. DOMAIN o.want = DOMAIN o.page
  BY <1>10, <1>11, <1>13
<1>17. \A x \in DOMAIN m.page : o.page[x] = m.page[x] /\ o.want[x] = m.want[x]
  BY <1>10, <1>11, <1>13
<1>18. \A x \in DOMAIN o.page \ DOMAIN m.page : ~o.page[x].is_present /\ o.page[x].fr \in Frames
  BY <1>4, <1>10, <1>13
<1>19. Opened(m, o, f)
  BY <1>12, <1>13, <1>15, <1>16, <1>17, <1>18 DEF Opened
<1> QED
  BY <1>14, <1>19

LEMMA OpenedInv ==
  ASSUME NEW m, MemoryInv(m), NEW f \in Files, f \notin m.mapped, NEW o, Opened(m, o, f)
  PROVE  /\ PagesInside(o) /\ PagesNamed(o) /\ SegmentsOK(o) /\ FilesOK(o) /\ Owned(o, {}) /\ Filled(o)
         /\ \A s : Range(s.pages) = {f} \X (1..FilePages[f]) => ClockedWith(o, s)
<1>0. m \in Memory /\ PagesInside(m) /\ PagesNamed(m) /\ SegmentsOK(m) /\ FilesOK(m)
      /\ Owned(m, {}) /\ Clocked(m) /\ Filled(m)
  BY DEF MemoryInv
<1> DEFINE X == {f} \X (1..FilePages[f])
<1>1. /\ o \in Memory /\ o.segment_table = m.segment_table /\ o.mapped = m.mapped \cup {f} /\ o.archivo = m.archivo
      /\ o.BITMAP = m.BITMAP /\ o.BITMAP_SWAP = m.BITMAP_SWAP /\ o.frame = m.frame /\ o.slot = m.slot
      /\ o.segmentoClock = m.segmentoClock /\ o.fault = m.fault /\ o.overflow = m.overflow /\ o.stale = m.stale
      /\ o.leaked = m.leaked /\ o.unmapped = m.unmapped
      /\ DOMAIN o.page = DOMAIN m.page \cup X /\ DOMAIN o.want = DOMAIN o.page
  BY DEF Opened
<1>2. /\ \A x \in DOMAIN m.page : o.page[x] = m.page[x] /\ o.want[x] = m.want[x]
      /\ \A x \in DOMAIN o.page \ DOMAIN m.page : ~o.page[x].is_present /\ o.page[x].fr \in Frames
  BY DEF Opened
<1>3. f \notin Programs /\ \A x \in X : x[1] = f
  BY PagingAssumption DEF PagingAssumption
<1>4. PagesInside(o)
  <2>1. \A q \in Programs : \A i \in DOMAIN o.segment_table[q] : Range(o.segment_table[q][i].pages) \subseteq DOMAIN o.page
    BY <1>0, <1>1 DEF PagesInside
  <2>2. \A x \in DOMAIN o.page :
          o.page[x].fr \in IF o.page[x].is_present THEN Frames ELSE IF x[1] \in Programs THEN Slots ELSE Frames \cup Slots
    <3> TAKE x \in DOMAIN o.page
    <3>1. CASE x \in DOMAIN m.page
      BY <1>0, <1>2, <3>1 DEF PagesInside
    <3>2. CASE x \notin DOMAIN m.page
      BY <1>1, <1>2, <1>3, <3>2
    <3> QED
      BY <3>1, <3>2
  <2> QED
    BY <2>1, <2>2 DEF PagesInside
<1>5. PagesNamed(o)
  <2>1. \A a : a # f => PagesOf(o, a) = PagesOf(m, a)
    BY <1>1, <1>3 DEF PagesOf
  <2>2. PagesOf(o, f) = X
    <3>1. PagesOf(m, f) = {}
      BY <1>0 DEF PagesNamed
    <3> QED
      BY <1>1, <1>3, <3>1 DEF PagesOf
  <2>3. \A p \in Programs : \E n \in Nat : PagesOf(o, p) = {p} \X (1..n)
    BY <1>0, <1>3, <2>1 DEF PagesNamed
  <2>4. \A g \in Files : PagesOf(o, g) = IF g \in o.mapped THEN {g} \X (1..FilePages[g]) ELSE {}
    <3> TAKE g \in Files
    <3>1. CASE g = f
      BY <1>1, <2>2, <3>1
    <3>2. CASE g # f
      BY <1>0, <1>1, <2>1, <3>2 DEF PagesNamed
    <3> QED
      BY <3>1, <3>2
  <2> QED
    BY <1>1, <2>3, <2>4 DEF PagesNamed
<1>6. SegmentsOK(o)
  <2> SUFFICES ASSUME NEW p \in Programs, NEW i \in DOMAIN m.segment_table[p]
               PROVE  SegmentOK(o, m.segment_table[p][i])
    BY <1>1 DEF SegmentsOK
  <2>1. SegmentOK(m, m.segment_table[p][i])
    BY <1>0 DEF SegmentsOK
  <2> QED
    BY <1>1, <2>1 DEF SegmentOK
<1>7. FilesOK(o)
  BY <1>0, <1>1 DEF FilesOK
<1>8. Owned(o, {})
  <2> SUFFICES ASSUME SoundIn(o)
               PROVE  FramesOwned(o, {}) /\ SlotsOwned(o) /\ ContentsKept(o)
    BY DEF Owned
  <2>1. FramesOwned(m, {}) /\ SlotsOwned(m) /\ ContentsKept(m)
    BY <1>0, <1>1 DEF Owned, SoundIn
  <2>2. \A x : /\ InFrame(o, x) <=> InFrame(m, x)
               /\ InSlot(o, x) <=> InSlot(m, x)
               /\ InFrame(m, x) \/ InSlot(m, x) => o.page[x].fr = m.page[x].fr /\ o.want[x] = m.want[x]
    BY <1>1, <1>2, <1>3 DEF InFrame, InSlot
  <2>3. FramesOwned(o, {})
    BY <1>1, <2>1, <2>2 DEF FramesOwned
  <2>4. SlotsOwned(o)
    BY <1>1, <2>1, <2>2 DEF SlotsOwned
  <2>5. ContentsKept(o)
    BY <1>1, <2>1, <2>2 DEF ContentsKept
  <2> QED
    BY <2>3, <2>4, <2>5
<1>9. Filled(o)
  BY <1>0, <1>1, <1>5, FilledGrows
<1>10. \A s : Range(s.pages) = X => ClockedWith(o, s)
  <2> TAKE s
  <2> HAVE Range(s.pages) = X
  <2>1. \A y : Listed(m, y) => Listed(o, y)
    BY <1>1 DEF Listed
  <2>2. ~o.unmapped => \A y \in DOMAIN o.page : Listed(o, y) \/ y \in Range(s.pages)
    BY <1>0, <1>1, <2>1 DEF Clocked
  <2> HIDE DEF X
  <2> QED
    BY <1>0, <1>1, <2>2 DEF Clocked, ClockedWith, lista_de_segmentos
<1> QED
  BY <1>4, <1>5, <1>6, <1>7, <1>8, <1>9, <1>10

\* A segment over the pages of a file.
LEMMA FileSegmentIs ==
  ASSUME NEW m, NEW f \in Files, f \in m.mapped, {f} \X (1..FilePages[f]) \subseteq DOMAIN m.page, NEW base \in Nat,
         NEW s, s = [is_heap |-> FALSE, base |-> base, limit |-> base + FilePages[f] * PAGE_SIZE,
                     pages |-> [n \in 1..FilePages[f] |-> <<f, n>>], file |-> f]
  PROVE  SegmentIn(m, s) /\ s.file # Destroyed /\ Range(s.pages) = {f} \X (1..FilePages[f])
<1> DEFINE N == FilePages[f]
           P == [n \in 1..N |-> <<f, n>>]
           z == N * PAGE_SIZE
<1>1. N \in Nat /\ PAGE_SIZE \in Nat /\ f # Destroyed
  BY PagingAssumption DEF PagingAssumption, Destroyed
<1> HIDE DEF N
<1>2. P \in Seq(Ids) /\ DOMAIN P = 1..N /\ Range(P) = {f} \X (1..N)
  <2>1. \A n \in 1..N : <<f, n>> \in Ids
    BY DEF Ids
  <2>2. Range(P) = {f} \X (1..N)
    BY DEF Range
  <2>3. P \in [1..N -> Ids]
    BY <2>1
  <2>4. DOMAIN P = 1..N
    OBVIOUS
  <2> HIDE DEF P
  <2>5. P \in Seq(Ids)
    BY <1>1, <2>3
  <2> QED
    BY <2>2, <2>4, <2>5
<1>3. \A a, b \in Nat : a * b \in Nat
  OBVIOUS
<1>4. z \in Nat
  BY <1>1, <1>3
<1>5. \A k \in 1..N : base + (k - 1) * PAGE_SIZE <= base + z
  <2> TAKE k \in 1..N
  <2>1. k - 1 \in Nat /\ N - (k - 1) \in Nat /\ N = (k - 1) + (N - (k - 1))
    BY <1>1
  <2>2. \A a, b, c \in Nat : (a + b) * c = a * c + b * c
    OBVIOUS
  <2> DEFINE u == (k - 1) * PAGE_SIZE
             v == (N - (k - 1)) * PAGE_SIZE
  <2>3. u \in Nat /\ v \in Nat
    BY <1>1, <1>3, <2>1
  <2>4. z = u + v
    <3> DEFINE a == k - 1
               b == N - (k - 1)
    <3>1. a \in Nat /\ b \in Nat /\ N = a + b
      BY <2>1
    <3> HIDE DEF a, b
    <3>2. (a + b) * PAGE_SIZE = a * PAGE_SIZE + b * PAGE_SIZE
      BY <1>1, <2>2, <3>1
    <3> QED
      BY <3>1, <3>2 DEF a, b
  <2> HIDE DEF u, v, z
  <2>5. base + u <= base + z
    BY <2>3, <2>4
  <2> QED
    BY <2>5 DEF u
<1>6. /\ s = [is_heap |-> FALSE, base |-> base, limit |-> base + z, pages |-> P, file |-> f]
      /\ s.is_heap = FALSE /\ s.base = base /\ s.limit = base + z /\ s.pages = P /\ s.file = f
  <2>1. s = [is_heap |-> FALSE, base |-> base, limit |-> base + z, pages |-> P, file |-> f]
    BY DEF N
  <2>2. \A a, b : s = [is_heap |-> FALSE, base |-> base, limit |-> a, pages |-> b, file |-> f]
                 => s.is_heap = FALSE /\ s.base = base /\ s.limit = a /\ s.pages = b /\ s.file = f
    OBVIOUS
  <2> HIDE DEF z, P
  <2> QED
    BY <2>1, <2>2
<1>7. s.pages = [n \in 1..FilePages[s.file] |-> <<s.file, n>>] /\ ~s.is_heap /\ s.file \in m.mapped
  BY <1>6 DEF N
<1>8. Range(s.pages) = {f} \X (1..FilePages[f]) /\ DOMAIN s.pages = 1..N
  BY <1>2, <1>6 DEF N
<1> HIDE DEF z, P
<1>9. s \in SegmentType
  <2>1. base + z \in Nat /\ f \in Files \cup {NoFile, Destroyed} /\ P \in Seq(Ids)
    BY <1>2, <1>4
  <2> QED
    BY <1>6, <2>1 DEF SegmentType
<1>10. s.base <= s.limit
  BY <1>4, <1>6
<1>11. \A k \in DOMAIN s.pages : s.base + (k - 1) * PAGE_SIZE <= s.limit
  BY <1>5, <1>6, <1>8
<1>12. SegmentOK(m, s)
  BY <1>7, <1>10, <1>11 DEF SegmentOK
<1> QED
  BY <1>1, <1>6, <1>8, <1>9, <1>12 DEF SegmentIn

\* The pages of a file are there.
Ready(o, f) ==
  /\ o \in Memory /\ PagesInside(o) /\ PagesNamed(o) /\ SegmentsOK(o) /\ FilesOK(o) /\ Owned(o, {}) /\ Filled(o)
  /\ f \in o.mapped /\ {f} \X (1..FilePages[f]) \subseteq DOMAIN o.page
  /\ \A s : Range(s.pages) = {f} \X (1..FilePages[f]) => ClockedWith(o, s)

LEMMA MappedReady ==
  ASSUME NEW m, MemoryInv(m), NEW f \in Files, f \in m.mapped
  PROVE  Ready(m, f)
<1>1. /\ m \in Memory /\ PagesInside(m) /\ PagesNamed(m) /\ SegmentsOK(m) /\ FilesOK(m)
      /\ Owned(m, {}) /\ Clocked(m) /\ Filled(m)
  BY DEF MemoryInv
<1>2. {f} \X (1..FilePages[f]) \subseteq DOMAIN m.page
  <2>1. PagesOf(m, f) = {f} \X (1..FilePages[f]) /\ PagesOf(m, f) \subseteq DOMAIN m.page
    BY <1>1 DEF PagesNamed, PagesOf
  <2> QED
    BY <2>1
<1>3. \A s : ClockedWith(m, s)
  BY <1>1 DEF Clocked, ClockedWith
<1> QED
  BY <1>1, <1>2, <1>3 DEF Ready

LEMMA OpenedReady ==
  ASSUME NEW m, MemoryInv(m), NEW f \in Files, f \notin m.mapped, NEW o, Opened(m, o, f)
  PROVE  Ready(o, f)
<1>1. /\ PagesInside(o) /\ PagesNamed(o) /\ SegmentsOK(o) /\ FilesOK(o) /\ Owned(o, {}) /\ Filled(o)
      /\ \A s : Range(s.pages) = {f} \X (1..FilePages[f]) => ClockedWith(o, s)
  BY OpenedInv
<1>2. o \in Memory /\ f \in o.mapped /\ {f} \X (1..FilePages[f]) \subseteq DOMAIN o.page
  BY DEF Opened
<1> QED
  BY <1>1, <1>2 DEF Ready

\* A segment over the pages of f is put at the end of the table of p.
LEMMA ReadyInv ==
  ASSUME NEW f \in Files, NEW o, Ready(o, f), NEW p \in Programs, NEW base \in Nat, NEW shared \in BOOLEAN,
         NEW s, s = [is_heap |-> FALSE, base |-> base, limit |-> base + FilePages[f] * PAGE_SIZE,
                     pages |-> [n \in 1..FilePages[f] |-> <<f, n>>], file |-> f]
  PROVE  MemoryInv([o EXCEPT !.segment_table[p] = Append(@, s),
                             !.programas[f] = IF shared \/ @ = <<>> THEN Append(@, p) ELSE @])
<1> DEFINE T == [o.segment_table EXCEPT ![p] = Append(o.segment_table[p], s)]
           u == IF shared \/ o.programas[f] = <<>> THEN Append(o.programas[f], p) ELSE o.programas[f]
           U == [o.programas EXCEPT ![f] = u]
           t == [o EXCEPT !.segment_table = T, !.programas = U]
<1>1. /\ o \in Memory /\ PagesInside(o) /\ PagesNamed(o) /\ SegmentsOK(o) /\ FilesOK(o) /\ Owned(o, {}) /\ Filled(o)
      /\ f \in o.mapped /\ {f} \X (1..FilePages[f]) \subseteq DOMAIN o.page
      /\ \A w : Range(w.pages) = {f} \X (1..FilePages[f]) => ClockedWith(o, w)
  BY DEF Ready
<1>2. SegmentIn(o, s) /\ s.file # Destroyed /\ Range(s.pages) = {f} \X (1..FilePages[f])
  BY <1>1, FileSegmentIs
<1>3. ClockedWith(o, s)
  BY <1>1, <1>2
<1>4. t = [o EXCEPT !.segment_table[p] = Append(@, s),
                    !.programas[f] = IF shared \/ @ = <<>> THEN Append(@, p) ELSE @]
  OBVIOUS
<1>5. T \in [Programs -> Seq(SegmentType)]
  <2>1. o.segment_table \in [Programs -> Seq(SegmentType)] /\ o.segment_table[p] \in Seq(SegmentType)
    BY <1>1 DEF Memory
  <2>2. Append(o.segment_table[p], s) \in Seq(SegmentType)
    BY <1>2, <2>1 DEF SegmentIn
  <2> QED
    BY <2>1, <2>2
<1>6. U \in [Files -> Seq(Programs)]
  <2>1. o.programas \in [Files -> Seq(Programs)] /\ o.programas[f] \in Seq(Programs)
    BY <1>1 DEF Memory
  <2>2. Append(o.programas[f], p) \in Seq(Programs)
    BY <2>1
  <2>3. u \in Seq(Programs)
    BY <2>1, <2>2
  <2> HIDE DEF u
  <2> QED
    BY <2>1, <2>3
<1>7. Appended(o, t, p, s)
  <2> HIDE DEF T, U
  <2>1. t \in Memory
    BY <1>1, <1>5, <1>6 DEF Memory
  <2>2. t.segment_table = T
    BY <1>1 DEF Memory
  <2>3. /\ t.page = o.page /\ t.want = o.want
        /\ t.BITMAP = o.BITMAP /\ t.BITMAP_SWAP = o.BITMAP_SWAP /\ t.frame = o.frame /\ t.slot = o.slot
        /\ t.segmentoClock = o.segmentoClock /\ t.mapped = o.mapped
        /\ t.archivo = o.archivo /\ t.fault = o.fault /\ t.overflow = o.overflow /\ t.stale = o.stale
        /\ t.leaked = o.leaked /\ t.unmapped = o.unmapped
    BY <1>1 DEF Memory
  <2> HIDE DEF t
  <2> QED
    BY <2>1, <2>2, <2>3 DEF Appended, T
<1> HIDE DEF t
<1>8. MemoryInv(t)
  BY <1>1, <1>2, <1>3, <1>7, AppendedInv
<1> QED
  BY <1>4, <1>8

LEMMA MapIs ==
  ASSUME MemoryInv(muse), NEW p \in Programs, memory_map(p)
  PROVE  MemoryInv(muse')
<1>1. PICK f \in Files, shared \in BOOLEAN :
        LET pages == [n \in 1..FilePages[f] |-> <<f, n>>]
            base == NextBase(muse, p)
            s == [is_heap |-> FALSE, base |-> base, limit |-> base + FilePages[f] * PAGE_SIZE,
                  pages |-> pages, file |-> f]
            absent == [is_present |-> FALSE, is_used |-> FALSE, is_modify |-> FALSE, fr |-> Min(Frames)]
            opened == IF f \in muse.mapped THEN muse
                      ELSE [muse EXCEPT !.mapped = @ \cup {f},
                                        !.page = Extended(@, [id \in Range(pages) |-> absent]),
                                        !.want = Extended(@, [id \in Range(pages) |-> muse.archivo[f][id[2]]])]
        IN muse' = IF busca_segmento(muse, p, base) # 0 THEN [muse EXCEPT !.fault = "lost"]
                   ELSE [opened EXCEPT !.segment_table[p] = Append(@, s),
                                       !.programas[f] = IF shared \/ @ = <<>> THEN Append(@, p) ELSE @]
  BY DEF memory_map
<1> DEFINE pages == [n \in 1..FilePages[f] |-> <<f, n>>]
           base == NextBase(muse, p)
           s == [is_heap |-> FALSE, base |-> base, limit |-> base + FilePages[f] * PAGE_SIZE,
                 pages |-> pages, file |-> f]
           absent == [is_present |-> FALSE, is_used |-> FALSE, is_modify |-> FALSE, fr |-> Min(Frames)]
           P == [id \in Range(pages) |-> absent]
           W == [id \in Range(pages) |-> muse.archivo[f][id[2]]]
           open == [muse EXCEPT !.mapped = @ \cup {f}, !.page = Extended(@, P), !.want = Extended(@, W)]
           opened == IF f \in muse.mapped THEN muse ELSE open
<1>2. muse' = IF busca_segmento(muse, p, base) # 0 THEN [muse EXCEPT !.fault = "lost"]
              ELSE [opened EXCEPT !.segment_table[p] = Append(@, s),
                                  !.programas[f] = IF shared \/ @ = <<>> THEN Append(@, p) ELSE @]
  BY <1>1
<1>3. base \in Nat
  <2> DEFINE T == muse.segment_table[p]
  <2>1. T \in Seq(SegmentType)
    BY DEF MemoryInv, Memory
  <2> HIDE DEF T
  <2>2. T # <<>> => Last(T) \in SegmentType
    BY <2>1 DEF Last
  <2>3. T # <<>> => Last(T).limit \in Nat
    BY <2>2 DEF SegmentType
  <2> QED
    BY <2>3 DEF NextBase, T
<1>4. Ready(opened, f)
  <2>1. CASE f \in muse.mapped
    BY <2>1, MappedReady
  <2>2. CASE f \notin muse.mapped
    <3>1. Range(pages) = {f} \X (1..FilePages[f])
      <4> DEFINE N == FilePages[f]
                 F == [n \in 1..N |-> <<f, n>>]
      <4> HIDE DEF N
      <4>1. Range(F) = {f} \X (1..N)
        BY DEF Range
      <4>2. pages = F
        BY DEF N
      <4> HIDE DEF F, pages
      <4> QED
        BY <4>1, <4>2 DEF N
    <3>2. P = [x \in {f} \X (1..FilePages[f]) |-> absent]
      BY <3>1
    <3>3. /\ W = [x \in DOMAIN W |-> W[x]] /\ DOMAIN W = {f} \X (1..FilePages[f])
          /\ \A x \in DOMAIN W : W[x] = muse.archivo[f][x[2]]
      BY <3>1
    <3> HIDE DEF P, W
    <3>4. Opened(muse, open, f)
      BY <2>2, <3>2, <3>3, OpenedIs
    <3> HIDE DEF open
    <3>5. Ready(open, f)
      BY <2>2, <3>4, OpenedReady
    <3> QED
      BY <2>2, <3>5
  <2> QED
    BY <2>1, <2>2
<1> HIDE DEF opened, base
<1>5. MemoryInv([opened EXCEPT !.segment_table[p] = Append(@, s),
                               !.programas[f] = IF shared \/ @ = <<>> THEN Append(@, p) ELSE @])
  BY <1>3, <1>4, ReadyInv
<1>6. MemoryInv([muse EXCEPT !.fault = "lost"])
  BY FaultIs
<1> QED
  BY <1>2, <1>5, <1>6

(***************************************************************************)
(* Unmapping.                                                              *)
(***************************************************************************)
\* What is left of a sequence without its element j is of the sequence.
LEMMA RemovedIs ==
  ASSUME NEW S, NEW a \in Seq(S), NEW j \in DOMAIN a
  PROVE  /\ RemoveAt(a, j) \in Seq(S)
         /\ \A i \in DOMAIN RemoveAt(a, j) : \E k \in DOMAIN a : RemoveAt(a, j)[i] = a[k]
<1> DEFINE l == SubSeq(a, 1, j - 1)
           r == SubSeq(a, j + 1, Len(a))
           b == l \o r
           n == Len(a)
<1>1. n \in Nat /\ DOMAIN a = 1..n /\ j \in 1..n /\ \A i \in 1..n : a[i] \in S
  OBVIOUS
<1>2. RemoveAt(a, j) = b
  BY DEF RemoveAt
<1>3. /\ l \in Seq(S) /\ Len(l) = j - 1 /\ \A i \in 1..(j - 1) : l[i] = a[i]
  <2>1. /\ l \in Seq(S) /\ Len(l) = IF 1 <= j - 1 THEN (j - 1) - 1 + 1 ELSE 0
        /\ \A i \in 1..((j - 1) - 1 + 1) : l[i] = a[1 + i - 1]
    <3>1. 1 \in Int /\ j - 1 \in Int /\ \A i \in 1..(j - 1) : a[i] \in S
      BY <1>1
    <3> QED
      BY <3>1, SubSeqProperties
  <2> HIDE DEF l
  <2> QED
    BY <1>1, <2>1
<1>4. /\ r \in Seq(S) /\ Len(r) = n - j /\ \A i \in 1..(n - j) : r[i] = a[j + i]
  <2>1. /\ r \in Seq(S) /\ Len(r) = IF j + 1 <= n THEN n - (j + 1) + 1 ELSE 0
        /\ \A i \in 1..(n - (j + 1) + 1) : r[i] = a[(j + 1) + i - 1]
    <3>1. j + 1 \in Int /\ n \in Int /\ \A i \in (j + 1)..n : a[i] \in S
      BY <1>1
    <3> QED
      BY <3>1, SubSeqProperties
  <2> HIDE DEF r, n
  <2>2. n - (j + 1) + 1 = n - j /\ (j + 1 <= n \/ n - j = 0)
    BY <1>1
  <2>3. Len(r) = n - j
    BY <1>1, <2>1, <2>2
  <2>4. \A i \in 1..(n - j) : (j + 1) + i - 1 = j + i
    BY <1>1
  <2> QED
    BY <2>1, <2>2, <2>3, <2>4
<1> HIDE DEF l, r, n
<1>5. /\ b \in Seq(S) /\ Len(b) = n - 1
      /\ \A i \in 1..(n - 1) : b[i] = IF i <= j - 1 THEN l[i] ELSE r[i - (j - 1)]
  <2>1. /\ b \in Seq(S) /\ Len(b) = Len(l) + Len(r)
        /\ \A i \in 1..(Len(l) + Len(r)) : b[i] = IF i <= Len(l) THEN l[i] ELSE r[i - Len(l)]
    BY <1>3, <1>4, ConcatProperties
  <2>2. Len(l) + Len(r) = n - 1
    BY <1>1, <1>3, <1>4
  <2> QED
    BY <1>3, <2>1, <2>2
<1> HIDE DEF b
<1>6. DOMAIN b = 1..(n - 1)
  BY <1>5
<1>7. ASSUME NEW i \in 1..(n - 1)
      PROVE  \E k \in DOMAIN a : b[i] = a[k]
  <2>1. CASE i <= j - 1
    <3>1. i \in 1..(j - 1) /\ i \in DOMAIN a
      BY <1>1, <2>1
    <3> QED
      BY <1>3, <1>5, <2>1, <3>1
  <2>2. CASE ~(i <= j - 1)
    <3>1. i - (j - 1) \in 1..(n - j) /\ j + (i - (j - 1)) = i + 1 /\ i + 1 \in DOMAIN a
      BY <1>1, <2>2
    <3>2. b[i] = r[i - (j - 1)] /\ r[i - (j - 1)] = a[i + 1]
      BY <1>4, <1>5, <2>2, <3>1
    <3> QED
      BY <3>1, <3>2
  <2> QED
    BY <2>1, <2>2
<1> QED
  BY <1>2, <1>5, <1>6, <1>7

\* A segment has left the tables.
Unmapped(m, t) ==
  /\ t \in Memory /\ t.unmapped
  /\ t.page = m.page /\ t.want = m.want
  /\ t.BITMAP = m.BITMAP /\ t.BITMAP_SWAP = m.BITMAP_SWAP /\ t.frame = m.frame /\ t.slot = m.slot
  /\ t.mapped = m.mapped /\ t.archivo = m.archivo /\ t.fault = m.fault /\ t.overflow = m.overflow
  /\ t.stale = m.stale /\ t.leaked = m.leaked
  /\ \A q \in Programs : \A i \in DOMAIN t.segment_table[q] :
       \E k \in DOMAIN m.segment_table[q] : t.segment_table[q][i] = m.segment_table[q][k]

\* With a segment less the pages stay sound; only the clock may lose its hand.
LEMMA UnmappedInv ==
  ASSUME NEW m, MemoryInv(m), NEW t, Unmapped(m, t)
  PROVE  MemoryInv(t)
<1>0. /\ m \in Memory /\ PagesInside(m) /\ PagesNamed(m) /\ SegmentsOK(m) /\ FilesOK(m)
      /\ Owned(m, {}) /\ Clocked(m) /\ Filled(m)
  BY DEF MemoryInv
<1>1. /\ t \in Memory /\ t.unmapped
      /\ t.page = m.page /\ t.want = m.want
      /\ t.BITMAP = m.BITMAP /\ t.BITMAP_SWAP = m.BITMAP_SWAP /\ t.frame = m.frame /\ t.slot = m.slot
      /\ t.mapped = m.mapped /\ t.archivo = m.archivo /\ t.fault = m.fault /\ t.overflow = m.overflow
      /\ t.stale = m.stale /\ t.leaked = m.leaked
  BY DEF Unmapped
<1>2. \A q \in Programs : \A i \in DOMAIN t.segment_table[q] :
        \E k \in DOMAIN m.segment_table[q] : t.segment_table[q][i] = m.segment_table[q][k]
  BY DEF Unmapped
<1>3. PagesInside(t)
  <2>1. \A q \in Programs : \A i \in DOMAIN t.segment_table[q] : Range(t.segment_table[q][i].pages) \subseteq DOMAIN t.page
    <3> TAKE q \in Programs
    <3> TAKE i \in DOMAIN t.segment_table[q]
    <3>1. PICK k \in DOMAIN m.segment_table[q] : t.segment_table[q][i] = m.segment_table[q][k]
      BY <1>2
    <3> QED
      BY <1>0, <1>1, <3>1 DEF PagesInside
  <2> QED
    BY <1>0, <1>1, <2>1 DEF PagesInside
<1>4. PagesNamed(t) /\ FilesOK(t)
  BY <1>0, <1>1 DEF PagesNamed, PagesOf, FilesOK
<1>5. SegmentsOK(t)
  <2> SUFFICES ASSUME NEW q \in Programs, NEW i \in DOMAIN t.segment_table[q]
               PROVE  SegmentOK(t, t.segment_table[q][i])
    BY DEF SegmentsOK
  <2>1. PICK k \in DOMAIN m.segment_table[q] : t.segment_table[q][i] = m.segment_table[q][k]
    BY <1>2
  <2>2. SegmentOK(m, t.segment_table[q][i])
    BY <1>0, <2>1 DEF SegmentsOK
  <2> QED
    BY <1>1, <2>2 DEF SegmentOK
<1>6. Owned(t, {})
  BY <1>0, <1>1 DEF Owned, SoundIn, FramesOwned, SlotsOwned, ContentsKept, InFrame, InSlot
<1>7. Clocked(t) /\ Filled(t)
  BY <1>1 DEF Clocked, Filled
<1> QED
  BY <1>1, <1>3, <1>4, <1>5, <1>6, <1>7 DEF MemoryInv

\* The pages of f have left memory, and the segments over them their page table.
Removed(m, t, f) ==
  /\ t \in Memory /\ t.unmapped = m.unmapped
  /\ DOMAIN t.page = {x \in DOMAIN m.page : x[1] # f} /\ DOMAIN t.want = DOMAIN t.page
  /\ \A x \in DOMAIN t.page : t.page[x] = m.page[x] /\ t.want[x] = m.want[x]
  /\ t.BITMAP = m.BITMAP \cup {m.page[x].fr : x \in {y \in DOMAIN m.page : y[1] = f /\ m.page[y].is_present}}
  /\ t.BITMAP_SWAP = m.BITMAP_SWAP /\ t.frame = m.frame /\ t.slot = m.slot
  /\ t.mapped = m.mapped \ {f} /\ t.archivo = m.archivo /\ t.overflow = m.overflow
  /\ t.stale = m.stale \ {x \in DOMAIN m.page : x[1] = f} /\ t.leaked = m.leaked
  /\ \A q \in Programs : DOMAIN t.segment_table[q] = DOMAIN m.segment_table[q]
  /\ \A q \in Programs : \A i \in DOMAIN m.segment_table[q] :
       t.segment_table[q][i] = IF m.segment_table[q][i].file = f
                               THEN [m.segment_table[q][i] EXCEPT !.file = Destroyed, !.pages = <<>>]
                               ELSE m.segment_table[q][i]

\* The frames of the pages that go are free, and no segment has those pages.
LEMMA RemovedInv ==
  ASSUME NEW m, MemoryInv(m), m.unmapped, m.fault = "none", NEW f \in Files, NEW t, Removed(m, t, f)
  PROVE  MemoryInv(t)
<1>0. /\ m \in Memory /\ PagesInside(m) /\ PagesNamed(m) /\ SegmentsOK(m) /\ FilesOK(m)
      /\ Owned(m, {}) /\ Clocked(m) /\ Filled(m)
  BY DEF MemoryInv
<1>1. /\ t \in Memory /\ t.unmapped
      /\ DOMAIN t.page = {x \in DOMAIN m.page : x[1] # f} /\ DOMAIN t.want = DOMAIN t.page
      /\ \A x \in DOMAIN t.page : t.page[x] = m.page[x] /\ t.want[x] = m.want[x]
      /\ t.BITMAP_SWAP = m.BITMAP_SWAP /\ t.frame = m.frame /\ t.slot = m.slot
      /\ t.mapped = m.mapped \ {f} /\ t.archivo = m.archivo /\ t.overflow = m.overflow
      /\ t.leaked = m.leaked
  BY DEF Removed
<1>2. t.BITMAP = m.BITMAP \cup {m.page[x].fr : x \in {y \in DOMAIN m.page : y[1] = f /\ m.page[y].is_present}}
  BY DEF Removed
<1>3. t.stale = m.stale \ {x \in DOMAIN m.page : x[1] = f}
  BY DEF Removed
<1>4. /\ \A q \in Programs : DOMAIN t.segment_table[q] = DOMAIN m.segment_table[q]
      /\ \A q \in Programs : \A i \in DOMAIN m.segment_table[q] :
           t.segment_table[q][i] = IF m.segment_table[q][i].file = f
                                   THEN [m.segment_table[q][i] EXCEPT !.file = Destroyed, !.pages = <<>>]
                                   ELSE m.segment_table[q][i]
  BY DEF Removed
<1>5. f \notin Programs /\ f # NoFile /\ f # Destroyed
  BY PagingAssumption DEF PagingAssumption
<1>6. ASSUME NEW q \in Programs, NEW i \in DOMAIN t.segment_table[q]
      PROVE  SegmentOK(t, t.segment_table[q][i]) /\ Range(t.segment_table[q][i].pages) \subseteq DOMAIN t.page
  <2> DEFINE s == m.segment_table[q][i]
             r == t.segment_table[q][i]
  <2>1. SegmentIn(m, s)
    BY <1>4, SegmentOf
  <2>2. s \in SegmentType /\ SegmentOK(m, s) /\ Range(s.pages) \subseteq DOMAIN m.page
    BY <2>1 DEF SegmentIn
  <2>3. r = IF s.file = f THEN [s EXCEPT !.file = Destroyed, !.pages = <<>>] ELSE s
    BY <1>4
  <2> HIDE DEF s, r
  <2>4. CASE s.file = f
    <3>1. ~s.is_heap
      BY <1>5, <2>2, <2>4 DEF SegmentOK
    <3>2. r.base = s.base /\ r.limit = s.limit /\ ~r.is_heap /\ r.file = Destroyed /\ r.pages = <<>>
      BY <2>2, <2>3, <2>4, <3>1 DEF SegmentType
    <3>3. DOMAIN r.pages = {} /\ Range(r.pages) = {}
      BY <3>2 DEF Range
    <3> QED
      BY <2>2, <3>2, <3>3 DEF SegmentOK, r
  <2>5. CASE s.file # f
    <3>1. r = s
      BY <2>3, <2>5
    <3>2. SegmentOK(t, s)
      BY <1>1, <2>2, <2>5 DEF SegmentOK
    <3>3. \A k \in DOMAIN s.pages : s.pages[k][1] # f
      <4>1. CASE s.is_heap
        BY <1>5, <2>2, <4>1 DEF SegmentOK
      <4>2. CASE ~s.is_heap
        <5>1. CASE s.pages = [n \in 1..FilePages[s.file] |-> <<s.file, n>>]
          BY <2>5, <5>1
        <5>2. CASE s.pages = <<>>
          BY <5>2
        <5> QED
          BY <2>2, <4>2, <5>1, <5>2 DEF SegmentOK
      <4> QED
        BY <4>1, <4>2
    <3>4. Range(s.pages) \subseteq DOMAIN t.page
      BY <1>1, <2>2, <3>3 DEF Range
    <3> QED
      BY <3>1, <3>2, <3>4 DEF r
  <2> QED
    BY <2>4, <2>5
<1>7. SegmentsOK(t)
  BY <1>6 DEF SegmentsOK
<1>8. PagesInside(t)
  <2>1. \A x \in DOMAIN t.page :
          t.page[x].fr \in IF t.page[x].is_present THEN Frames ELSE IF x[1] \in Programs THEN Slots ELSE Frames \cup Slots
    BY <1>0, <1>1 DEF PagesInside
  <2>2. \A q \in Programs : \A i \in DOMAIN t.segment_table[q] : Range(t.segment_table[q][i].pages) \subseteq DOMAIN t.page
    BY <1>6
  <2> QED
    BY <2>1, <2>2 DEF PagesInside
<1>9. PagesNamed(t)
  <2>1. \A a : a # f => PagesOf(t, a) = PagesOf(m, a)
    BY <1>1 DEF PagesOf
  <2>2. PagesOf(t, f) = {}
    BY <1>1 DEF PagesOf
  <2>3. \A q \in Programs : \E n \in Nat : PagesOf(t, q) = {q} \X (1..n)
    BY <1>0, <1>5, <2>1 DEF PagesNamed
  <2>4. \A g \in Files : PagesOf(t, g) = IF g \in t.mapped THEN {g} \X (1..FilePages[g]) ELSE {}
    <3> TAKE g \in Files
    <3>1. CASE g = f
      BY <1>1, <2>2, <3>1
    <3>2. CASE g # f
      BY <1>0, <1>1, <2>1, <3>2 DEF PagesNamed
    <3> QED
      BY <3>1, <3>2
  <2> QED
    BY <1>1, <2>3, <2>4 DEF PagesNamed
<1>10. FilesOK(t)
  BY <1>0, <1>1 DEF FilesOK
<1>11. Owned(t, {})
  <2> SUFFICES ASSUME SoundIn(t)
               PROVE  FramesOwned(t, {}) /\ SlotsOwned(t) /\ ContentsKept(t)
    BY DEF Owned
  <2>1. FramesOwned(m, {}) /\ SlotsOwned(m) /\ ContentsKept(m)
    BY <1>0, <1>1 DEF Owned, SoundIn
  <2>2. \A x : /\ InFrame(t, x) <=> InFrame(m, x) /\ x[1] # f
               /\ InSlot(t, x) <=> InSlot(m, x)
               /\ InFrame(t, x) \/ InSlot(t, x) => t.page[x].fr = m.page[x].fr /\ t.want[x] = m.want[x]
    BY <1>1, <1>5 DEF InFrame, InSlot
  <2>3. FramesOwned(t, {})
    <3>1. \A x, y : InFrame(t, x) /\ InFrame(t, y) /\ t.page[x].fr = t.page[y].fr => x = y
      BY <2>1, <2>2 DEF FramesOwned
    <3>2. \A x : InFrame(t, x) => t.page[x].fr \notin t.BITMAP
      <4> SUFFICES ASSUME NEW x, InFrame(t, x), t.page[x].fr \in t.BITMAP
                   PROVE  FALSE
        OBVIOUS
      <4>1. InFrame(m, x) /\ x[1] # f /\ t.page[x].fr = m.page[x].fr
        BY <2>2
      <4>2. m.page[x].fr \notin m.BITMAP
        BY <2>1, <4>1 DEF FramesOwned
      <4>3. PICK y \in DOMAIN m.page : y[1] = f /\ m.page[y].is_present /\ m.page[x].fr = m.page[y].fr
        BY <1>2, <4>1, <4>2
      <4>4. x = y
        BY <2>1, <4>1, <4>3 DEF FramesOwned, InFrame
      <4> QED
        BY <4>1, <4>3, <4>4
    <3>3. \A fr \in Frames \ t.BITMAP : \E x : InFrame(t, x) /\ t.page[x].fr = fr
      <4> TAKE fr \in Frames \ t.BITMAP
      <4>1. PICK x : InFrame(m, x) /\ m.page[x].fr = fr
        BY <1>2, <2>1 DEF FramesOwned
      <4>2. x[1] # f
        BY <1>2, <4>1 DEF InFrame
      <4> QED
        BY <2>2, <4>1, <4>2
    <3> QED
      BY <3>1, <3>2, <3>3 DEF FramesOwned
  <2>4. SlotsOwned(t)
    BY <1>1, <2>1, <2>2 DEF SlotsOwned
  <2>5. ContentsKept(t)
    <3>1. \A x : InFrame(t, x) /\ (x[1] \in Programs \/ x \notin t.stale) => t.frame[t.page[x].fr] = t.want[x]
      BY <1>1, <1>3, <2>1, <2>2 DEF ContentsKept
    <3>2. \A x : InSlot(t, x) => t.slot[t.page[x].fr] = t.want[x]
      BY <1>1, <2>1, <2>2 DEF ContentsKept
    <3> QED
      BY <3>1, <3>2 DEF ContentsKept
  <2> QED
    BY <2>3, <2>4, <2>5
<1>12. Clocked(t) /\ Filled(t)
  BY <1>1 DEF Clocked, Filled
<1> QED
  BY <1>1, <1>7, <1>8, <1>9, <1>10, <1>11, <1>12 DEF MemoryInv

LEMMA RestrictIs ==
  ASSUME NEW S, NEW T, NEW g \in Maps(S, T), NEW D, D \subseteq DOMAIN g
  PROVE  /\ Restrict(g, D) \in Maps(S, T) /\ DOMAIN Restrict(g, D) = D
         /\ \A x \in D : Restrict(g, D)[x] = g[x]
<1> DEFINE h == Restrict(g, D)
<1>1. h = [x \in DOMAIN h |-> h[x]] /\ DOMAIN h = D /\ \A x \in D : h[x] = g[x]
  BY DEF Restrict
<1> HIDE DEF h
<1>2. DOMAIN g \subseteq S /\ \A x \in DOMAIN g : g[x] \in T
  BY MapsAre
<1>3. DOMAIN h \subseteq S /\ \A x \in DOMAIN h : h[x] \in T
  BY <1>1, <1>2
<1>4. h \in Maps(S, T)
  BY <1>1, <1>3, MapsAre
<1> QED
  BY <1>1, <1>4 DEF h

\* What eliminar_archivo_mmap changes.
LEMMA EliminarIs ==
  ASSUME NEW m, m \in Memory, PagesInside(m), DOMAIN m.want = DOMAIN m.page, NEW f \in Files,
         NEW y \in {"none", "crash"}
  PROVE  Removed(m, [eliminar_archivo_mmap(m, f) EXCEPT !.fault = y], f)
<1> DEFINE gone == {x \in DOMAIN m.page : x[1] = f}
           dead(s) == IF s.file = f THEN [s EXCEPT !.file = Destroyed, !.pages = <<>>] ELSE s
           D == (DOMAIN m.page) \ gone
           freed == m.BITMAP \cup {m.page[x].fr : x \in {z \in gone : m.page[z].is_present}}
           P == Restrict(m.page, D)
           W == Restrict(m.want, D)
           T == [q \in Programs |-> [i \in DOMAIN m.segment_table[q] |-> dead(m.segment_table[q][i])]]
           t == [m EXCEPT !.BITMAP = freed, !.mapped = m.mapped \ {f}, !.page = P, !.want = W,
                          !.stale = m.stale \ gone, !.unsaved = m.unsaved \ gone,
                          !.segment_table = T, !.fault = y]
<1>1. t = [eliminar_archivo_mmap(m, f) EXCEPT !.fault = y]
  BY DEF eliminar_archivo_mmap
<1>2. m.page \in Maps(Ids, PageType) /\ m.want \in Maps(Ids, Bytes)
  BY DEF Memory
<1>3. D = {x \in DOMAIN m.page : x[1] # f}
  OBVIOUS
<1>4. P \in Maps(Ids, PageType) /\ DOMAIN P = D /\ \A x \in D : P[x] = m.page[x]
  <2> HIDE DEF D
  <2> QED
    BY <1>2, <1>3, RestrictIs
<1>5. W \in Maps(Ids, Bytes) /\ DOMAIN W = D /\ \A x \in D : W[x] = m.want[x]
  <2> HIDE DEF D
  <2> QED
    BY <1>2, <1>3, RestrictIs
<1>6. T \in [Programs -> Seq(SegmentType)]
  <2>1. m.segment_table \in [Programs -> Seq(SegmentType)]
    BY DEF Memory
  <2>2. ASSUME NEW q \in Programs
        PROVE  T[q] \in Seq(SegmentType)
    <3> DEFINE a == m.segment_table[q]
               b == [i \in DOMAIN a |-> dead(a[i])]
    <3>1. a \in Seq(SegmentType)
      BY <2>1
    <3>2. T[q] = b
      OBVIOUS
    <3> HIDE DEF a
    <3>3. \A s \in SegmentType : dead(s) \in SegmentType
      <4> TAKE s \in SegmentType
      <4>1. <<>> \in Seq(Ids) /\ Destroyed \in Files \cup {NoFile, Destroyed}
        OBVIOUS
      <4> QED
        BY <4>1 DEF SegmentType
    <3> HIDE DEF dead
    <3>4. DOMAIN a = 1..Len(a) /\ Len(a) \in Nat /\ \A i \in DOMAIN a : a[i] \in SegmentType
      BY <3>1
    <3>5. b \in [1..Len(a) -> SegmentType]
      BY <3>3, <3>4
    <3> HIDE DEF b
    <3>6. b \in Seq(SegmentType)
      BY <3>4, <3>5
    <3> HIDE DEF T
    <3> QED
      BY <3>2, <3>6
  <2>3. T = [q \in Programs |-> T[q]]
    OBVIOUS
  <2> HIDE DEF T
  <2> QED
    BY <2>2, <2>3
<1>7. freed \in SUBSET Frames
  BY DEF PagesInside, Memory
<1>8. /\ m.stale \ gone \in SUBSET Ids /\ m.unsaved \ gone \in SUBSET Ids
      /\ m.mapped \ {f} \in SUBSET Files /\ y \in Faults
  BY DEF Memory, Faults
<1>9. \A q \in Programs : DOMAIN T[q] = DOMAIN m.segment_table[q]
  OBVIOUS
<1>10. \A q \in Programs : \A i \in DOMAIN m.segment_table[q] :
         T[q][i] = IF m.segment_table[q][i].file = f
                   THEN [m.segment_table[q][i] EXCEPT !.file = Destroyed, !.pages = <<>>]
                   ELSE m.segment_table[q][i]
  OBVIOUS
<1>11. freed = m.BITMAP \cup {m.page[x].fr : x \in {z \in DOMAIN m.page : z[1] = f /\ m.page[z].is_present}}
  OBVIOUS
<1> HIDE DEF T, P, W, freed
<1>12. t \in Memory
  BY <1>4, <1>5, <1>6, <1>7, <1>8 DEF Memory
<1>13. /\ t.unmapped = m.unmapped /\ t.page = P /\ t.want = W /\ t.BITMAP = freed
       /\ t.BITMAP_SWAP = m.BITMAP_SWAP /\ t.frame = m.frame /\ t.slot = m.slot
       /\ t.mapped = m.mapped \ {f} /\ t.archivo = m.archivo /\ t.overflow = m.overflow
       /\ t.stale = m.stale \ gone /\ t.leaked = m.leaked /\ t.segment_table = T
  BY DEF Memory
<1> HIDE DEF t
<1>14. /\ DOMAIN t.page = {x \in DOMAIN m.page : x[1] # f} /\ DOMAIN t.want = DOMAIN t.page
       /\ \A x \in DOMAIN t.page : t.page[x] = m.page[x] /\ t.want[x] = m.want[x]
  BY <1>3, <1>4, <1>5, <1>13
<1>15. Removed(m, t, f)
  BY <1>9, <1>10, <1>11, <1>12, <1>13, <1>14 DEF Removed
<1> QED
  BY <1>1, <1>15

LEMMA UnmapIs ==
  ASSUME MemoryInv(muse), NEW p \in Programs, memory_unmap(p)
  PROVE  MemoryInv(muse')
<1>1. PICK i \in DOMAIN muse.segment_table[p] :
        LET j == busca_segmento(muse, p, muse.segment_table[p][i].base)
            s == muse.segment_table[p][j]
            users == muse.programas[s.file]
            left == [muse EXCEPT !.programas[s.file] = RemoveAt(@, Min({k \in DOMAIN users : users[k] = p})),
                                 !.segment_table[p] = RemoveAt(@, j), !.unmapped = TRUE]
            last == left.programas[s.file] = <<>>
        IN /\ Served
           /\ ~s.is_heap
           /\ \/ s.file = Destroyed /\ muse' = [muse EXCEPT !.fault = "crash"]
              \/ s.file # Destroyed /\ p \in Users(muse, s)
                 /\ muse' \in IF last THEN {[eliminar_archivo_mmap(left, s.file) EXCEPT !.fault = x] : x \in {"none", "crash"}}
                              ELSE {left}
  BY DEF memory_unmap
<1> DEFINE w == muse.segment_table[p][i]
           j == busca_segmento(muse, p, w.base)
           s == muse.segment_table[p][j]
           users == muse.programas[s.file]
           mine == {k \in DOMAIN users : users[k] = p}
           U == [muse.programas EXCEPT ![s.file] = RemoveAt(users, Min(mine))]
           T == [muse.segment_table EXCEPT ![p] = RemoveAt(muse.segment_table[p], j)]
           left == [muse EXCEPT !.programas = U, !.segment_table = T, !.unmapped = TRUE]
           last == left.programas[s.file] = <<>>
<1>2. /\ Served /\ ~s.is_heap
      /\ \/ s.file = Destroyed /\ muse' = [muse EXCEPT !.fault = "crash"]
         \/ s.file # Destroyed /\ p \in Users(muse, s)
            /\ muse' \in IF last THEN {[eliminar_archivo_mmap(left, s.file) EXCEPT !.fault = x] : x \in {"none", "crash"}}
                         ELSE {left}
  BY <1>1
<1>3. muse \in Memory
  BY DEF MemoryInv
<1>4. muse.segment_table \in [Programs -> Seq(SegmentType)] /\ muse.programas \in [Files -> Seq(Programs)]
  BY <1>3 DEF Memory
<1>5. j \in DOMAIN muse.segment_table[p]
  <2>1. SegmentIn(muse, w)
    BY SegmentOf
  <2>2. w \in Range(muse.segment_table[p])
    BY DEF Range
  <2>3. w.base <= w.base /\ w.base <= w.limit
    BY <2>1 DEF SegmentIn, SegmentOK, SegmentType
  <2> HIDE DEF w
  <2> QED
    BY <2>2, <2>3, BuscaIs
<1> HIDE DEF w, j
<1>6. SegmentIn(muse, s)
  BY <1>5, SegmentOf
<1>7. CASE s.file = Destroyed
  <2>1. MemoryInv([muse EXCEPT !.fault = "crash"])
    BY FaultIs
  <2> QED
    BY <1>2, <1>7, <2>1
<1>8. CASE s.file # Destroyed
  <2> DEFINE f == s.file
  <2>1. f \in Files
    BY <1>2, <1>3, <1>6, <1>8 DEF SegmentIn, SegmentOK, Memory
  <2>2. p \in Range(users)
    BY <1>2, <1>8 DEF Users
  <2>3. users \in Seq(Programs)
    BY <1>4, <2>1
  <2>4. RemoveAt(users, Min(mine)) \in Seq(Programs)
    <3> HIDE DEF users
    <3>1. mine \in SUBSET Nat /\ mine # {}
      BY <2>2, <2>3 DEF Range
    <3>2. Min(mine) \in mine
      BY <3>1, MinOf
    <3>3. Min(mine) \in DOMAIN users
      BY <3>2
    <3> HIDE DEF mine
    <3> QED
      BY <2>3, <3>3, RemovedIs
  <2> HIDE DEF users, mine
  <2>5. U \in [Files -> Seq(Programs)]
    BY <1>4, <2>1, <2>4
  <2>6. /\ RemoveAt(muse.segment_table[p], j) \in Seq(SegmentType)
        /\ \A l \in DOMAIN RemoveAt(muse.segment_table[p], j) :
             \E k \in DOMAIN muse.segment_table[p] : RemoveAt(muse.segment_table[p], j)[l] = muse.segment_table[p][k]
    <3> DEFINE a == muse.segment_table[p]
    <3>1. a \in Seq(SegmentType) /\ j \in DOMAIN a
      BY <1>4, <1>5
    <3> HIDE DEF a
    <3>2. /\ RemoveAt(a, j) \in Seq(SegmentType)
          /\ \A l \in DOMAIN RemoveAt(a, j) : \E k \in DOMAIN a : RemoveAt(a, j)[l] = a[k]
      BY <3>1, RemovedIs
    <3> QED
      BY <3>2 DEF a
  <2>7. /\ T \in [Programs -> Seq(SegmentType)]
        /\ \A q \in Programs : \A l \in DOMAIN T[q] :
             \E k \in DOMAIN muse.segment_table[q] : T[q][l] = muse.segment_table[q][k]
    <3>1. T \in [Programs -> Seq(SegmentType)]
      BY <1>4, <2>6
    <3>2. ASSUME NEW q \in Programs, NEW l \in DOMAIN T[q]
          PROVE  \E k \in DOMAIN muse.segment_table[q] : T[q][l] = muse.segment_table[q][k]
      <4>1. CASE q = p
        <5>1. T[p] = RemoveAt(muse.segment_table[p], j)
          BY <1>4
        <5> QED
          BY <2>6, <3>2, <4>1, <5>1
      <4>2. CASE q # p
        <5>1. T[q] = muse.segment_table[q]
          BY <1>4, <4>2
        <5> QED
          BY <3>2, <5>1
      <4> QED
        BY <4>1, <4>2
    <3> QED
      BY <3>1, <3>2
  <2> HIDE DEF U, T
  <2>8. left \in Memory
    BY <1>3, <2>5, <2>7 DEF Memory
  <2>9. /\ left.unmapped /\ left.page = muse.page /\ left.want = muse.want
        /\ left.BITMAP = muse.BITMAP /\ left.BITMAP_SWAP = muse.BITMAP_SWAP /\ left.frame = muse.frame
        /\ left.slot = muse.slot /\ left.mapped = muse.mapped /\ left.archivo = muse.archivo
        /\ left.fault = muse.fault /\ left.overflow = muse.overflow
        /\ left.stale = muse.stale /\ left.leaked = muse.leaked /\ left.segment_table = T
    BY <1>3 DEF Memory
  <2> HIDE DEF left
  <2>10. Unmapped(muse, left)
    BY <2>7, <2>8, <2>9 DEF Unmapped
  <2>11. MemoryInv(left)
    BY <2>10, UnmappedInv
  <2>12. ASSUME NEW x \in {"none", "crash"}
         PROVE  MemoryInv([eliminar_archivo_mmap(left, f) EXCEPT !.fault = x])
    <3> DEFINE t == [eliminar_archivo_mmap(left, f) EXCEPT !.fault = x]
    <3>1. PagesInside(left) /\ DOMAIN left.want = DOMAIN left.page
      BY <2>11 DEF MemoryInv, PagesNamed
    <3> HIDE DEF f
    <3>2. Removed(left, t, f)
      BY <2>1, <2>8, <3>1, EliminarIs
    <3> HIDE DEF t
    <3>3. left.unmapped /\ left.fault = "none"
      BY <1>2, <2>9 DEF Served
    <3>4. MemoryInv(t)
      BY <2>1, <2>11, <3>2, <3>3, RemovedInv
    <3> QED
      BY <3>4 DEF t
  <2>13. muse' = left \/ \E x \in {"none", "crash"} : muse' = [eliminar_archivo_mmap(left, f) EXCEPT !.fault = x]
    BY <1>2, <1>8
  <2> QED
    BY <2>11, <2>12, <2>13
<1> QED
  BY <1>7, <1>8

(***************************************************************************)
(* The theorems.                                                           *)
(***************************************************************************)
LEMMA InitIs == MemoryInv(muse_main_memory_init)
<1> DEFINE m == muse_main_memory_init
           pages == [f \in Files |-> [n \in 1..FilePages[f] |-> <<f, n>>]]
<1>1. /\ m.segment_table = [p \in Programs |-> <<>>] /\ m.BITMAP = Frames /\ m.BITMAP_SWAP = Slots
      /\ m.page = <<>> /\ m.frame = [f \in Frames |-> Zeros] /\ m.slot = [s \in Slots |-> Zeros]
      /\ m.segmentoClock = 1 /\ m.paginaClock = 1 /\ m.mapped = {} /\ m.programas = [f \in Files |-> <<>>]
      /\ m.archivo = pages /\ m.fault = "none" /\ m.want = <<>> /\ m.overflow = FALSE
      /\ m.stale = {} /\ m.leaked = {} /\ m.unmapped = FALSE
  BY DEF muse_main_memory_init
<1>2. pages \in [Files -> Maps(Nat, Bytes)] /\ \A f \in Files : DOMAIN pages[f] = 1..FilePages[f]
  <2>1. ASSUME NEW f \in Files
        PROVE  pages[f] \in Maps(Nat, Bytes) /\ DOMAIN pages[f] = 1..FilePages[f]
    <3> DEFINE N == FilePages[f]
               g == [n \in 1..N |-> <<f, n>>]
    <3>1. g = pages[f]
      OBVIOUS
    <3> HIDE DEF N
    <3>2. g = [n \in DOMAIN g |-> g[n]] /\ DOMAIN g = 1..N /\ \A n \in DOMAIN g : n \in Nat /\ g[n] \in Bytes
      BY DEF Bytes
    <3> HIDE DEF g
    <3>3. g \in Maps(Nat, Bytes)
      BY <3>2, MapsAre
    <3> HIDE DEF pages
    <3> QED
      BY <3>1, <3>2, <3>3 DEF N
  <2>2. pages = [f \in Files |-> pages[f]]
    OBVIOUS
  <2> HIDE DEF pages
  <2> QED
    BY <2>1, <2>2
<1> HIDE DEF pages
<1>3. <<>> \in Maps(Ids, PageType) /\ <<>> \in Maps(Ids, Bytes) /\ DOMAIN <<>> = {}
  <2>1. DOMAIN <<>> = {} /\ <<>> = [x \in DOMAIN <<>> |-> <<>>[x]]
    OBVIOUS
  <2> DEFINE e == <<>>
  <2>2. DOMAIN e = {} /\ e = [x \in DOMAIN e |-> e[x]]
    BY <2>1
  <2> HIDE DEF e
  <2>3. e \in Maps(Ids, PageType) /\ e \in Maps(Ids, Bytes)
    BY <2>2, MapsAre
  <2> QED
    BY <2>1, <2>3 DEF e
<1>4. m \in Memory
  <2>1. [p \in Programs |-> <<>>] \in [Programs -> Seq(SegmentType)] /\ [f \in Files |-> <<>>] \in [Files -> Seq(Programs)]
    OBVIOUS
  <2>2. [f \in Frames |-> Zeros] \in [Frames -> Bytes] /\ [s \in Slots |-> Zeros] \in [Slots -> Bytes]
    BY DEF Bytes
  <2>3. "none" \in Faults
    BY DEF Faults
  <2> QED
    BY <1>2, <1>3, <2>1, <2>2, <2>3 DEF Memory, muse_main_memory_init, pages
<1> HIDE DEF m
<1>5. \A p \in Programs : DOMAIN m.segment_table[p] = {}
  BY <1>1
<1>6. PagesInside(m) /\ SegmentsOK(m) /\ FilesOK(m)
  BY <1>1, <1>2, <1>3, <1>5 DEF PagesInside, SegmentsOK, FilesOK
<1>7. PagesNamed(m)
  <2>1. \A a : PagesOf(m, a) = {}
    BY <1>1, <1>3 DEF PagesOf
  <2>2. \A p \in Programs : PagesOf(m, p) = {p} \X (1..0)
    BY <2>1
  <2>3. 0 \in Nat /\ \A p \in Programs : \E n \in Nat : PagesOf(m, p) = {p} \X (1..n)
    BY <2>2
  <2> QED
    BY <1>1, <2>1, <2>3 DEF PagesNamed
<1>8. Owned(m, {})
  <2>1. \A x : ~InFrame(m, x) /\ ~InSlot(m, x)
    BY <1>1, <1>3 DEF InFrame, InSlot
  <2> QED
    BY <1>1, <2>1 DEF Owned, FramesOwned, SlotsOwned, ContentsKept
<1>9. Clocked(m) /\ Filled(m)
  BY <1>1, <1>3, <1>5 DEF Clocked, Filled
<1> QED
  BY <1>4, <1>6, <1>7, <1>8, <1>9 DEF MemoryInv, m

LEMMA InductiveStep ==
  ASSUME MemoryInv(muse), [Next]_vars
  PROVE  MemoryInv(muse')
<1>1. CASE Next
  <2>1. PICK p \in Programs :
          \/ memory_malloc(p) \/ memory_free(p) \/ memory_cpy(p) \/ memory_get(p)
          \/ memory_map(p) \/ memory_sync(p) \/ memory_unmap(p)
    BY <1>1 DEF Next
  <2>2. CASE memory_malloc(p)
    BY <2>2, MallocIs
  <2>3. CASE memory_free(p)
    BY <2>3, FreeIs
  <2>4. CASE memory_cpy(p)
    BY <2>4, CpyIs
  <2>5. CASE memory_get(p)
    BY <2>5, GetIs
  <2>6. CASE memory_map(p)
    BY <2>6, MapIs
  <2>7. CASE memory_sync(p)
    BY <2>7, SyncIs
  <2>8. CASE memory_unmap(p)
    BY <2>8, UnmapIs
  <2> QED
    BY <2>1, <2>2, <2>3, <2>4, <2>5, <2>6, <2>7, <2>8
<1>2. CASE UNCHANGED vars
  BY <1>2 DEF vars
<1> QED
  BY <1>1, <1>2

\* The inductive invariant: whatever the programs ask for, in any order, the memory of
\* the server satisfies MemoryInv.
THEOREM MemoryKept == Spec => []MemoryInv(muse)
<1>1. Init => MemoryInv(muse)
  BY InitIs DEF Init
<1>2. MemoryInv(muse) /\ [Next]_vars => MemoryInv(muse)'
  BY InductiveStep
<1> QED
  BY <1>1, <1>2, PTL DEF Spec

\* Frames, slots and page tables keep their types, and every page of a segment exists.
THEOREM TypeKept == Spec => []TypeOK
<1>1. MemoryInv(muse) => TypeOK
  <2> SUFFICES ASSUME MemoryInv(muse)
               PROVE  TypeOK
    OBVIOUS
  <2>1. muse \in Memory /\ PagesInside(muse)
    BY DEF MemoryInv
  <2>2. /\ muse.BITMAP \subseteq Frames /\ muse.BITMAP_SWAP \subseteq Slots
        /\ muse.segmentoClock \in Nat /\ muse.paginaClock \in Nat
        /\ muse.fault \in {"none", "crash", "clock", "hang", "lost"}
    BY <2>1 DEF Memory, Faults
  <2>3. \A id \in DOMAIN muse.page : muse.page[id].fr \in IF id \in Present THEN Frames ELSE Slots \cup Frames
    BY <2>1 DEF PagesInside, Present
  <2>4. \A p \in Programs : \A s \in Range(muse.segment_table[p]) : Range(s.pages) \subseteq DOMAIN muse.page
    <3> TAKE p \in Programs
    <3> TAKE s \in Range(muse.segment_table[p])
    <3>1. PICK i \in DOMAIN muse.segment_table[p] : s = muse.segment_table[p][i]
      BY DEF Range
    <3> QED
      BY <2>1, <3>1 DEF PagesInside
  <2> QED
    BY <2>2, <2>3, <2>4 DEF TypeOK
<1> QED
  BY <1>1, MemoryKept, PTL

\* While no eviction met a full swap, no two pages share a frame and no frame is lost:
\* the frames that BITMAP does not have are those of the pages in memory, one each.
THEOREM FramesKept == Spec => []FramesOwnedOnce
<1>1. MemoryInv(muse) => FramesOwnedOnce
  <2> SUFFICES ASSUME MemoryInv(muse), Sound
               PROVE  /\ Fr(Present) = Frames \ muse.BITMAP
                      /\ Cardinality(Fr(Present)) = Cardinality(Present)
    BY DEF FramesOwnedOnce
  <2>1. PagesInside(muse) /\ FramesOwned(muse, {})
    BY DEF MemoryInv, Owned, SoundIn, Sound
  <2>2. \A x : x \in Present <=> InFrame(muse, x)
    BY DEF Present, InFrame
  <2>3. \A x \in Present : muse.page[x].fr \in Frames
    BY <2>1 DEF PagesInside, Present
  <2>4. Fr(Present) = Frames \ muse.BITMAP
    BY <2>1, <2>2, <2>3 DEF FramesOwned, Fr
  <2>5. Cardinality(Fr(Present)) = Cardinality(Present)
    <3> DEFINE g == [x \in Present |-> muse.page[x].fr]
    <3>1. IsFiniteSet(Fr(Present))
      BY <2>4, PagingAssumption, FS_Subset DEF PagingAssumption
    <3>2. g \in [Present -> Fr(Present)] /\ \A z \in Fr(Present) : \E x \in Present : g[x] = z
      BY DEF Fr
    <3>3. \A x, y \in Present : g[x] = g[y] => x = y
      BY <2>1, <2>2 DEF FramesOwned
    <3> HIDE DEF g
    <3> QED
      BY <3>1, <3>2, <3>3, SameSize
  <2> QED
    BY <2>4, <2>5
<1> QED
  BY <1>1, MemoryKept, PTL

\* While no eviction met a full swap, no two heap pages share a slot of the swap file,
\* and the slots in use that no heap page has are those of evicted pages of files.
THEOREM SlotsKept == Spec => []SlotsOwnedOnce
<1>1. MemoryInv(muse) => SlotsOwnedOnce
  <2> SUFFICES ASSUME MemoryInv(muse), Sound
               PROVE  /\ Fr(SwappedOut) \cup muse.leaked = Slots \ muse.BITMAP_SWAP
                      /\ Cardinality(Fr(SwappedOut)) = Cardinality(SwappedOut)
                      /\ Fr(SwappedOut) \cap muse.leaked = {}
    BY DEF SlotsOwnedOnce
  <2>1. PagesInside(muse) /\ SlotsOwned(muse) /\ muse.leaked \subseteq Slots
    BY DEF MemoryInv, Owned, SoundIn, Sound, Memory
  <2>2. \A x : x \in SwappedOut <=> InSlot(muse, x)
    BY DEF SwappedOut, HeapIds, Present, InSlot
  <2>3. \A x \in SwappedOut : muse.page[x].fr \in Slots
    BY <2>1 DEF PagesInside, SwappedOut, HeapIds, Present
  <2>4. Fr(SwappedOut) \cup muse.leaked = Slots \ muse.BITMAP_SWAP
    BY <2>1, <2>2, <2>3 DEF SlotsOwned, Fr
  <2>5. Fr(SwappedOut) \cap muse.leaked = {}
    BY <2>1, <2>2 DEF SlotsOwned, Fr
  <2>6. Cardinality(Fr(SwappedOut)) = Cardinality(SwappedOut)
    <3> DEFINE g == [x \in SwappedOut |-> muse.page[x].fr]
    <3>1. IsFiniteSet(Fr(SwappedOut))
      <4>1. Fr(SwappedOut) \subseteq Slots
        BY <2>3 DEF Fr
      <4> QED
        BY <4>1, PagingAssumption, FS_Subset DEF PagingAssumption
    <3>2. g \in [SwappedOut -> Fr(SwappedOut)] /\ \A z \in Fr(SwappedOut) : \E x \in SwappedOut : g[x] = z
      BY DEF Fr
    <3>3. \A x, y \in SwappedOut : g[x] = g[y] => x = y
      BY <2>1, <2>2 DEF SlotsOwned
    <3> HIDE DEF g
    <3> QED
      BY <3>1, <3>2, <3>3, SameSize
  <2> QED
    BY <2>4, <2>5, <2>6
<1> QED
  BY <1>1, MemoryKept, PTL

\* Whatever was evicted and loaded in between, a heap page holds the last write to it.
THEOREM HeapKept == Spec => []HeapKeepsWrites
<1>1. MemoryInv(muse) => HeapKeepsWrites
  <2> SUFFICES ASSUME MemoryInv(muse), Sound, NEW id \in HeapIds
               PROVE  Contents(muse, id) = muse.want[id]
    BY DEF HeapKeepsWrites
  <2>1. ContentsKept(muse)
    BY DEF MemoryInv, Owned, SoundIn, Sound
  <2>2. id[1] \in Programs /\ (InFrame(muse, id) \/ InSlot(muse, id))
    BY DEF HeapIds, InFrame, InSlot
  <2> QED
    BY <2>1, <2>2 DEF ContentsKept, Contents, InFrame, InSlot
<1> QED
  BY <1>1, MemoryKept, PTL

\* A page of a file that is in memory shows the last write of any program to it, unless
\* it was evicted and loaded without that write: the file did not have it, or no byte of
\* the file was read.
THEOREM MappedKept == Spec => []MappedShowsWrites
<1>1. MemoryInv(muse) => MappedShowsWrites
  <2> SUFFICES ASSUME MemoryInv(muse), Sound, NEW id \in Present \ HeapIds, id \notin muse.stale
               PROVE  muse.frame[muse.page[id].fr] = muse.want[id]
    BY DEF MappedShowsWrites
  <2>1. ContentsKept(muse)
    BY DEF MemoryInv, Owned, SoundIn, Sound
  <2>2. InFrame(muse, id)
    BY DEF Present, InFrame
  <2> QED
    BY <2>1, <2>2 DEF ContentsKept
<1> QED
  BY <1>1, MemoryKept, PTL

\* The clock loses its hand, or finds no victim, only after a segment was unmapped or an
\* eviction met a full swap.
THEOREM ClockKept == Spec => []ClockNeedsUnmap
<1>1. MemoryInv(muse) => ClockNeedsUnmap
  BY DEF MemoryInv, Clocked, ClockNeedsUnmap
<1> QED
  BY <1>1, MemoryKept, PTL

\* A page is given away with its frame only when pages and lost slots fill memory and swap.
THEOREM OverflowKept == Spec => []OverflowOnlyWhenFull
<1>1. MemoryInv(muse) => OverflowOnlyWhenFull
  BY DEF MemoryInv, Filled, OverflowOnlyWhenFull
<1> QED
  BY <1>1, MemoryKept, PTL
=============================================================================
