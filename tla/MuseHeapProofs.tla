--------------------------- MODULE MuseHeapProofs ---------------------------
(***************************************************************************)
(* The heap of MUSE, for any programs, sizes, page size and frames.  The   *)
(* walk from header to header of a segment meets exactly the headers that  *)
(* tile it; splitting, merging and growing keep the tiling, and compaction *)
(* merges all neighbours that are free.  The inductive invariant HeapInv   *)
(* relates the headers in use to the blocks the client holds.              *)
(***************************************************************************)
EXTENDS MuseHeap, SequenceTheorems, FiniteSetTheorems, WellFoundedInduction, TLAPS

(***************************************************************************)
(* Least and greatest elements, induction over a set of numbers.           *)
(***************************************************************************)
LEMMA MinOf ==
  ASSUME NEW S \in SUBSET Nat, S # {}
  PROVE  Min(S) \in S /\ \A y \in S : Min(S) <= y
<1> DEFINE R == OpToRel(<, Nat)
<1>1. PICK x \in S : \A y \in S : <<y, x>> \notin R
  BY NatLessThanWellFounded, WFMin
<1>2. \A y, z \in Nat : y < z => <<y, z>> \in R
  BY DEF OpToRel
<1> HIDE DEF R
<1>3. \A y \in S : x <= y
  <2> TAKE y \in S
  <2>1. ~(y < x)
    BY <1>1, <1>2
  <2> QED
    BY <2>1
<1> QED
  BY <1>3 DEF Min

LEMMA MaxOf ==
  ASSUME NEW k \in Nat, NEW S \in SUBSET (0..k), S # {}
  PROVE  Max(S) \in S /\ \A y \in S : Max(S) >= y
<1> DEFINE T == {k - x : x \in S}
<1>1. T \in SUBSET Nat /\ T # {}
  <2>1. \A x \in S : x \in Int /\ k - x \in Nat
    OBVIOUS
  <2> QED
    BY <2>1
<1>2. Min(T) \in T /\ \A y \in T : Min(T) <= y
  BY <1>1, MinOf
<1>3. PICK x \in S : k - x = Min(T)
  BY <1>2
<1>4. \A y \in S : k - x <= k - y
  BY <1>2, <1>3
<1>5. \A y \in S : x >= y
  BY <1>4
<1> QED
  BY <1>5 DEF Max

LEMMA UpTo ==
  ASSUME NEW n \in Nat, NEW S, 0 \in S, \A k \in 1..n : k - 1 \in S => k \in S
  PROVE  n \in S
<1> SUFFICES ASSUME n \notin S
             PROVE  FALSE
  OBVIOUS
<1> DEFINE Bad == {k \in 0..n : k \notin S}
<1>1. Bad \in SUBSET Nat /\ Bad # {}
  OBVIOUS
<1>2. PICK k \in Bad : \A j \in Bad : k <= j
  BY <1>1, MinOf
<1>3. k \in 1..n /\ k - 1 \in 0..n
  BY <1>2
<1>4. k - 1 \notin Bad
  BY <1>2, <1>3
<1> QED
  BY <1>3, <1>4

(***************************************************************************)
(* Segments and the headers that tile them.                                *)
(***************************************************************************)
Maps == UNION {[D -> Metadata] : D \in SUBSET Nat}
Segments == [is_heap : BOOLEAN, base : Nat, limit : Nat, hdr : Maps]

\* Every header ever written is at an address of the segment.
InSegment(s) == s \in Segments /\ s.base <= s.limit /\ DOMAIN s.hdr \subseteq s.base..s.limit

\* The headers C follow one another from the base to the limit.
Tiling(s, C) ==
  /\ s.base \in C /\ C \subseteq DOMAIN s.hdr
  /\ \A d \in C : \/ NextMetadata(s, d) = s.limit
                  \/ NextMetadata(s, d) < s.limit /\ NextMetadata(s, d) \in C
  /\ \A d, e \in C : d < e => NextMetadata(s, d) <= e

Tiled(s) == InSegment(s) /\ Tiling(s, Chain(s))

LEMMA MapsAre ==
  ASSUME NEW g
  PROVE  g \in Maps <=> /\ g = [x \in DOMAIN g |-> g[x]] /\ DOMAIN g \subseteq Nat
                        /\ \A x \in DOMAIN g : g[x] \in Metadata
<1>1. ASSUME g \in Maps
      PROVE  g = [x \in DOMAIN g |-> g[x]] /\ DOMAIN g \subseteq Nat /\ \A x \in DOMAIN g : g[x] \in Metadata
  <2>1. PICK D \in SUBSET Nat : g \in [D -> Metadata]
    BY <1>1 DEF Maps
  <2> QED
    BY <2>1
<1>2. ASSUME g = [x \in DOMAIN g |-> g[x]], DOMAIN g \subseteq Nat, \A x \in DOMAIN g : g[x] \in Metadata
      PROVE  g \in Maps
  <2>1. g \in [DOMAIN g -> Metadata] /\ DOMAIN g \in SUBSET Nat
    BY <1>2
  <2> QED
    BY <2>1 DEF Maps
<1> QED
  BY <1>1, <1>2

\* Where the header after the one at d is.
LEMMA NextIs ==
  ASSUME NEW s, InSegment(s), NEW d \in DOMAIN s.hdr
  PROVE  /\ d \in Nat /\ d \in s.base..s.limit /\ s.base \in Nat /\ s.limit \in Nat
         /\ s.hdr[d].size \in Nat /\ s.hdr[d].is_free \in BOOLEAN
         /\ NextMetadata(s, d) \in Nat /\ d + 5 <= NextMetadata(s, d)
         /\ NextMetadata(s, d) = d + 5 + s.hdr[d].size
<1>1. s.hdr \in Maps /\ s.base \in Nat /\ s.limit \in Nat
  BY DEF InSegment, Segments
<1>2. s.hdr[d] \in Metadata /\ d \in Nat
  BY <1>1, MapsAre
<1>3. s.hdr[d].size \in Nat /\ s.hdr[d].is_free \in BOOLEAN
  BY <1>2 DEF Metadata
<1> QED
  BY <1>1, <1>2, <1>3 DEF NextMetadata, METADATA_SIZE, InSegment

IsWalk(g, s, m) ==
  g = [d \in m..s.limit |->
        IF d \notin DOMAIN s.hdr \/ NextMetadata(s, d) > s.limit THEN {OffChain}
        ELSE {d} \cup (IF NextMetadata(s, d) = s.limit THEN {} ELSE g[NextMetadata(s, d)])]

LEMMA WalkExists ==
  ASSUME NEW s, InSegment(s)
  PROVE  \E g : IsWalk(g, s, s.base)
<1>0. s.base \in Nat /\ s.limit \in Nat /\ s.base <= s.limit
  BY DEF InSegment, Segments
<1> DEFINE L == s.limit
           n == L - s.base
           T == {k \in 0..(n + 1) : \E g : IsWalk(g, s, L + 1 - k)}
<1>1. 0 \in T
  <2> DEFINE g == [d \in (L + 1)..L |-> {}]
  <2>1. (L + 1)..L = {} /\ L + 1 - 0 = L + 1
    BY <1>0
  <2>2. IsWalk(g, s, L + 1)
    BY <2>1 DEF IsWalk
  <2> QED
    BY <1>0, <2>1, <2>2
<1>2. ASSUME NEW k \in 1..(n + 1), k - 1 \in T
      PROVE  k \in T
  <2> DEFINE m == L + 1 - k
  <2>0. m \in Nat /\ m <= L /\ L + 1 - (k - 1) = m + 1
    BY <1>0
  <2>1. PICK f : IsWalk(f, s, m + 1)
    BY <1>2, <2>0
  <2> DEFINE body(h, d) ==
        IF d \notin DOMAIN s.hdr \/ NextMetadata(s, d) > s.limit THEN {OffChain}
        ELSE {d} \cup (IF NextMetadata(s, d) = s.limit THEN {} ELSE h[NextMetadata(s, d)])
             g == [d \in m..L |-> body(f, d)]
  <2>2. \A d \in (m + 1)..L : f[d] = body(f, d)
    BY <2>1 DEF IsWalk
  <2> HIDE DEF m
  <2>3. \A d \in (m + 1)..L : d \in m..L /\ g[d] = f[d]
    <3>1. \A d \in (m + 1)..L : d \in m..L
      BY <2>0
    <3> HIDE DEF body
    <3> QED
      BY <2>2, <3>1
  <2>4. \A d \in m..L : body(g, d) = body(f, d)
    <3> SUFFICES ASSUME NEW d \in m..L, d \in DOMAIN s.hdr, NextMetadata(s, d) <= L, NextMetadata(s, d) # L
                 PROVE  g[NextMetadata(s, d)] = f[NextMetadata(s, d)]
      <4>1. \A d \in m..L : d \in DOMAIN s.hdr => NextMetadata(s, d) \in Nat
        BY NextIs
      <4> HIDE DEF g
      <4> QED
        BY <1>0, <4>1
    <3>1. d + 5 <= NextMetadata(s, d) /\ NextMetadata(s, d) \in Nat
      BY NextIs
    <3>2. NextMetadata(s, d) \in (m + 1)..L
      BY <1>0, <2>0, <3>1
    <3> QED
      BY <2>3, <3>2
  <2>5. g = [d \in m..L |-> body(g, d)]
    <3> DEFINE h == [d \in m..L |-> body(g, d)]
    <3>1. \A d \in m..L : g[d] = h[d]
      <4>1. \A d \in m..L : h[d] = body(g, d) /\ g[d] = body(f, d)
        <5> HIDE DEF body
        <5> QED
          OBVIOUS
      <4> QED
        BY <2>4, <4>1
    <3> HIDE DEF body
    <3> QED
      BY <3>1
  <2>6. IsWalk(g, s, m)
    <3> HIDE DEF g
    <3> QED
      BY <2>5 DEF IsWalk
  <2> HIDE DEF g
  <2> QED
    BY <2>6 DEF m
<1> HIDE DEF T
<1>3. n + 1 \in T
  BY <1>0, <1>1, <1>2, UpTo
<1>4. L + 1 - (n + 1) = s.base
  BY <1>0
<1> QED
  BY <1>3, <1>4 DEF T

\* The walk meets the headers that tile the segment.
LEMMA ChainIs ==
  ASSUME NEW s, InSegment(s), NEW C, Tiling(s, C)
  PROVE  Chain(s) = C
<1> DEFINE walk == CHOOSE g : IsWalk(g, s, s.base)
<1>1. IsWalk(walk, s, s.base)
  BY WalkExists
<1>2. Chain(s) = walk[s.base]
  BY DEF Chain, IsWalk
<1> HIDE DEF walk
<1>3. C \subseteq DOMAIN s.hdr /\ DOMAIN s.hdr \subseteq s.base..s.limit /\ s.base \in C
      /\ s.base \in Nat /\ s.limit \in Nat
  BY DEF Tiling, InSegment, Segments
<1>4. ASSUME NEW d \in C
      PROVE  /\ walk[d] = {d} \cup (IF NextMetadata(s, d) = s.limit THEN {} ELSE walk[NextMetadata(s, d)])
             /\ d \in Nat /\ NextMetadata(s, d) \in Nat /\ d + 5 <= NextMetadata(s, d)
             /\ NextMetadata(s, d) <= s.limit
             /\ NextMetadata(s, d) = s.limit \/ NextMetadata(s, d) \in C
             /\ \A e \in C : d < e => NextMetadata(s, d) <= e
  <2>1. d \in s.base..s.limit /\ d \in DOMAIN s.hdr
    BY <1>3
  <2>2. d \in Nat /\ NextMetadata(s, d) \in Nat /\ d + 5 <= NextMetadata(s, d)
    BY <2>1, NextIs
  <2>3. NextMetadata(s, d) <= s.limit /\ (NextMetadata(s, d) = s.limit \/ NextMetadata(s, d) \in C)
    BY <1>3, <2>2 DEF Tiling
  <2>4. walk[d] = IF d \notin DOMAIN s.hdr \/ NextMetadata(s, d) > s.limit THEN {OffChain}
                  ELSE {d} \cup (IF NextMetadata(s, d) = s.limit THEN {} ELSE walk[NextMetadata(s, d)])
    BY <1>1, <2>1 DEF IsWalk
  <2>5. \A e \in C : d < e => NextMetadata(s, d) <= e
    BY DEF Tiling
  <2>6. ~(NextMetadata(s, d) > s.limit)
    BY <1>3, <2>2, <2>3
  <2> QED
    BY <2>1, <2>2, <2>3, <2>4, <2>5, <2>6
<1> DEFINE From(d) == {e \in C : e >= d}
           Bad == {d \in C : walk[d] # From(d)}
<1>5. Bad = {}
  <2> SUFFICES ASSUME Bad # {}
               PROVE  FALSE
    OBVIOUS
  <2>1. Bad \in SUBSET (0..s.limit)
    BY <1>3
  <2>2. PICK d \in Bad : \A y \in Bad : d >= y
    BY <1>3, <2>1, MaxOf
  <2>3. d \in C /\ walk[d] # From(d)
    OBVIOUS
  <2>4. CASE NextMetadata(s, d) = s.limit
    <3>1. \A e \in C : ~(e > d)
      <4> SUFFICES ASSUME NEW e \in C, e > d
                   PROVE  FALSE
        OBVIOUS
      <4>1. e \in Nat /\ d \in Nat /\ s.limit <= e
        BY <1>4, <2>3, <2>4
      <4>2. e + 5 <= NextMetadata(s, e) /\ NextMetadata(s, e) <= s.limit /\ NextMetadata(s, e) \in Nat
        BY <1>4
      <4> QED
        BY <1>3, <4>1, <4>2
    <3>2. From(d) = {d}
      <4>1. \A e \in C : e \in Nat
        BY <1>4
      <4> QED
        BY <2>3, <3>1, <4>1
    <3>3. walk[d] = {d}
      BY <1>4, <2>3, <2>4
    <3> QED
      BY <2>3, <3>2, <3>3
  <2>5. CASE NextMetadata(s, d) # s.limit
    <3> DEFINE e == NextMetadata(s, d)
    <3>1. e \in C /\ d \in Nat /\ e \in Nat /\ d < e
      BY <1>4, <2>3, <2>5
    <3>2. walk[e] = From(e)
      <4>1. e \notin Bad
        BY <2>2, <3>1
      <4> QED
        BY <3>1, <4>1
    <3>3. walk[d] = {d} \cup From(e)
      BY <1>4, <2>3, <2>5, <3>2
    <3>4. \A x \in C : x \in Nat /\ (d < x => e <= x)
      BY <1>4, <2>3
    <3> HIDE DEF e
    <3>5. {d} \cup From(e) = From(d)
      <4>1. \A x \in C : x >= d <=> (x = d \/ x >= e)
        BY <3>1, <3>4
      <4>2. d \in C /\ d >= d
        BY <2>3, <3>1
      <4> QED
        BY <4>1, <4>2
    <3> QED
      BY <2>3, <3>3, <3>5
  <2> QED
    BY <2>4, <2>5
<1>6. From(s.base) = C
  <2>1. \A e \in C : e >= s.base
    BY <1>3
  <2> QED
    BY <2>1
<1> QED
  BY <1>2, <1>3, <1>5, <1>6

LEMMA HeaderIs ==
  ASSUME NEW s, Tiled(s), NEW d \in Chain(s)
  PROVE  /\ d \in Nat /\ d \in DOMAIN s.hdr /\ s.base \in Nat /\ s.limit \in Nat
         /\ s.base <= d /\ d < s.limit
         /\ s.hdr[d].size \in Nat /\ s.hdr[d].is_free \in BOOLEAN
         /\ NextMetadata(s, d) \in Nat /\ NextMetadata(s, d) = d + 5 + s.hdr[d].size
         /\ d < NextMetadata(s, d) /\ d + 5 <= NextMetadata(s, d) /\ NextMetadata(s, d) <= s.limit
         /\ NextMetadata(s, d) # s.limit => NextMetadata(s, d) \in Chain(s)
         /\ \A e \in Chain(s) : d < e => NextMetadata(s, d) <= e
<1>1. d \in DOMAIN s.hdr
  BY DEF Tiled, Tiling
<1>2. InSegment(s)
  BY DEF Tiled
<1>3. /\ d \in Nat /\ d \in s.base..s.limit /\ s.base \in Nat /\ s.limit \in Nat
      /\ s.hdr[d].size \in Nat /\ s.hdr[d].is_free \in BOOLEAN
      /\ NextMetadata(s, d) \in Nat /\ d + 5 <= NextMetadata(s, d)
      /\ NextMetadata(s, d) = d + 5 + s.hdr[d].size
  BY <1>1, <1>2, NextIs
<1>4. /\ \/ NextMetadata(s, d) = s.limit
         \/ NextMetadata(s, d) < s.limit /\ NextMetadata(s, d) \in Chain(s)
      /\ \A e \in Chain(s) : d < e => NextMetadata(s, d) <= e
  BY DEF Tiled, Tiling
<1> QED
  BY <1>1, <1>3, <1>4

\* The last header of the chain is the one whose block ends at the limit.
LEMMA LastIs ==
  ASSUME NEW s, Tiled(s)
  PROVE  /\ ultima_metadata_segmento(s) \in Chain(s) /\ s.base \in Chain(s)
         /\ \A d \in Chain(s) : /\ d <= ultima_metadata_segmento(s)
                                /\ NextMetadata(s, d) = s.limit <=> d = ultima_metadata_segmento(s)
<1>1. s.base \in Chain(s)
  BY DEF Tiled, Tiling
<1>2. \A d \in Chain(s) : d \in Nat /\ d \in 0..s.limit /\ s.limit \in Nat
  BY HeaderIs
<1> DEFINE last == Max(Chain(s))
<1>3. last \in Chain(s) /\ \A d \in Chain(s) : last >= d
  <2>1. Chain(s) \in SUBSET (0..s.limit) /\ s.limit \in Nat
    BY <1>1, <1>2
  <2> QED
    BY <1>1, <2>1, MaxOf
<1> HIDE DEF last
<1>4. ASSUME NEW d \in Chain(s)
      PROVE  d <= last /\ (NextMetadata(s, d) = s.limit <=> d = last)
  <2>1. d \in Nat /\ last \in Nat /\ d <= last
    BY <1>2, <1>3
  <2>2. ASSUME NextMetadata(s, d) = s.limit, d # last
        PROVE  FALSE
    <3>1. d < last
      BY <2>1, <2>2
    <3>2. s.limit <= last /\ last < s.limit /\ s.limit \in Nat
      BY <1>3, <2>2, <3>1, HeaderIs
    <3> QED
      BY <2>1, <3>2
  <2>3. ASSUME NextMetadata(s, last) # s.limit
        PROVE  FALSE
    <3>1. NextMetadata(s, last) \in Chain(s) /\ last < NextMetadata(s, last) /\ NextMetadata(s, last) \in Nat
      BY <1>3, <2>3, HeaderIs
    <3>2. last >= NextMetadata(s, last)
      BY <1>3, <3>1
    <3> QED
      BY <2>1, <3>1, <3>2
  <2> QED
    BY <2>1, <2>2, <2>3
<1> QED
  BY <1>1, <1>3, <1>4 DEF last, ultima_metadata_segmento

LEMMA OnlyIs ==
  ASSUME NEW s, Tiled(s)
  PROVE  /\ Only(s) <=> Chain(s) = {ultima_metadata_segmento(s)}
         /\ Only(s) <=> s.base = ultima_metadata_segmento(s)
<1> DEFINE last == ultima_metadata_segmento(s)
<1>1. last \in Chain(s) /\ s.base \in Chain(s)
      /\ \A d \in Chain(s) : d <= last /\ d \in Nat /\ s.base <= d /\ s.base \in Nat /\ d \in 0..s.limit
  BY LastIs, HeaderIs
<1> HIDE DEF last
<1>2. Cardinality(Chain(s)) = 1 <=> Chain(s) = {last}
  <2>1. ASSUME Chain(s) = {last}
        PROVE  Cardinality(Chain(s)) = 1
    BY <2>1, FS_Singleton
  <2>2. ASSUME Cardinality(Chain(s)) = 1
        PROVE  Chain(s) = {last}
    <3>1. IsFiniteSet(Chain(s))
      <4>1. IsFiniteSet(0..s.limit) /\ Chain(s) \subseteq 0..s.limit
        <5>1. s.limit \in Nat /\ 0 \in Int /\ s.limit \in Int
          BY <1>1, HeaderIs
        <5> QED
          BY <1>1, <5>1, FS_Interval
      <4> QED
        BY <4>1, FS_Subset
    <3>2. PICK x : Chain(s) = {x}
      BY <2>2, <3>1, FS_Singleton
    <3> QED
      BY <1>1, <3>2
  <2> QED
    BY <2>1, <2>2
<1>3. Chain(s) = {last} <=> s.base = last
  <2>1. ASSUME s.base = last
        PROVE  \A d \in Chain(s) : d = last
    BY <1>1, <2>1
  <2> QED
    BY <1>1, <2>1
<1> QED
  BY <1>2, <1>3 DEF Only, last

\* The last header but one is the one whose block ends at the last.
LEMMA PenultimateIs ==
  ASSUME NEW s, Tiled(s), s.base # ultima_metadata_segmento(s)
  PROVE  /\ Penultimate(s) \in Chain(s) /\ Penultimate(s) # ultima_metadata_segmento(s)
         /\ NextMetadata(s, Penultimate(s)) = ultima_metadata_segmento(s)
         /\ \A d \in Chain(s) : /\ NextMetadata(s, d) = ultima_metadata_segmento(s) <=> d = Penultimate(s)
                                /\ d # ultima_metadata_segmento(s) => d <= Penultimate(s)
<1> DEFINE last == ultima_metadata_segmento(s)
           C == Chain(s) \ {last}
           pen == Max(C)
<1>1. last \in Chain(s) /\ s.base \in C
      /\ \A d \in Chain(s) : d <= last /\ d \in Nat /\ d \in 0..s.limit /\ s.limit \in Nat
                             /\ (NextMetadata(s, d) = s.limit <=> d = last)
  BY LastIs, HeaderIs
<1>2. pen \in C /\ \A d \in C : pen >= d
  <2>1. C \in SUBSET (0..s.limit) /\ s.limit \in Nat
    BY <1>1
  <2> HIDE DEF C
  <2> QED
    BY <1>1, <2>1, MaxOf
<1>3. Penultimate(s) = pen
  BY DEF Penultimate
<1> HIDE DEF last, pen
<1>4. ASSUME NEW d \in C
      PROVE  /\ d < last /\ d <= pen /\ NextMetadata(s, d) \in Chain(s) /\ NextMetadata(s, d) <= last
             /\ d < NextMetadata(s, d) /\ NextMetadata(s, d) \in Nat /\ d \in Nat
             /\ \A e \in Chain(s) : d < e => NextMetadata(s, d) <= e
  <2>1. d \in Chain(s) /\ d # last
    OBVIOUS
  <2>2. NextMetadata(s, d) # s.limit
    BY <1>1, <2>1
  <2>3. NextMetadata(s, d) \in Chain(s) /\ d < NextMetadata(s, d) /\ NextMetadata(s, d) \in Nat
        /\ \A e \in Chain(s) : d < e => NextMetadata(s, d) <= e
    BY <2>1, <2>2, HeaderIs
  <2>4. d < last /\ d \in Nat /\ last \in Nat /\ NextMetadata(s, d) <= last
    BY <1>1, <2>1, <2>3
  <2>5. d <= pen
    BY <1>1, <1>2, <2>1
  <2> QED
    BY <2>3, <2>4, <2>5
<1>5. NextMetadata(s, pen) = last
  <2>1. NextMetadata(s, pen) \in Chain(s) /\ pen < NextMetadata(s, pen)
    BY <1>2, <1>4
  <2>2. NextMetadata(s, pen) \notin C
    <3>1. pen \in Nat /\ NextMetadata(s, pen) \in Nat
      BY <1>2, <1>4
    <3> QED
      BY <1>2, <2>1, <3>1
  <2> QED
    BY <2>1, <2>2
<1>6. ASSUME NEW d \in Chain(s), NextMetadata(s, d) = last
      PROVE  d = pen
  <2>1. d \in C
    BY <1>1, <1>6, HeaderIs
  <2>2. ~(d < pen)
    <3>1. pen \in Chain(s) /\ pen < last /\ pen \in Nat /\ last \in Nat
      BY <1>1, <1>2, <1>4
    <3> QED
      BY <1>4, <1>6, <2>1, <3>1
  <2>3. d <= pen /\ d \in Nat /\ pen \in Nat
    BY <1>2, <1>4, <2>1
  <2> QED
    BY <2>2, <2>3
<1>7. \A d \in Chain(s) : d # last => d <= pen
  BY <1>4
<1> QED
  BY <1>2, <1>3, <1>5, <1>6, <1>7 DEF last

(***************************************************************************)
(* The two searches.                                                       *)
(***************************************************************************)
\* A block that was found is long enough, and in use only when it is the only one;
\* the last block is never overlooked.
FoundOf(s, size, d) ==
  /\ d # -1 => /\ d \in Chain(s) /\ s.hdr[d].size >= size
               /\ s.hdr[d].is_free \/ (d = s.base /\ d = ultima_metadata_segmento(s))
  /\ d = -1 /\ s.hdr[ultima_metadata_segmento(s)].is_free =>
       s.hdr[ultima_metadata_segmento(s)].size < size

LEMMA FoundIs ==
  ASSUME NEW s, Tiled(s), NEW size \in Int
  PROVE  FoundOf(s, size, proxima_metadata_libre_con_size(s, size))
<1> DEFINE last == ultima_metadata_segmento(s)
           found == IF Only(s) THEN {d \in {last} : s.hdr[d].size >= size}
                    ELSE {d \in Chain(s) \ {Penultimate(s)} : s.hdr[d].is_free /\ s.hdr[d].size >= size}
           d == proxima_metadata_libre_con_size(s, size)
<1>1. last \in Chain(s) /\ \A e \in Chain(s) : e \in Nat /\ s.hdr[e].size \in Nat
  BY LastIs, HeaderIs
<1>2. d = IF found = {} THEN -1 ELSE Min(found)
  BY DEF proxima_metadata_libre_con_size
<1>3. Only(s) => last = s.base
  BY OnlyIs
<1>4. ~Only(s) => Penultimate(s) # last
  BY OnlyIs, PenultimateIs
<1>5. \A e \in found : e \in Chain(s) /\ s.hdr[e].size >= size /\ (s.hdr[e].is_free \/ (e = s.base /\ e = last))
  BY <1>1, <1>3
<1>6. s.hdr[last].is_free /\ s.hdr[last].size >= size => last \in found
  BY <1>1, <1>4
<1> HIDE DEF found, d, last
<1>7. found # {} => Min(found) \in found
  <2>1. found \in SUBSET Nat
    BY <1>1, <1>5
  <2> QED
    BY <2>1, MinOf
<1>8. d # -1 => d \in found
  BY <1>2, <1>7
<1>9. d = -1 => found = {}
  <2>1. found # {} => Min(found) \in Nat
    BY <1>1, <1>5, <1>7
  <2> QED
    BY <1>2, <2>1
<1>10. d = -1 /\ s.hdr[last].is_free => s.hdr[last].size < size
  <2>1. s.hdr[last].size \in Nat
    BY <1>1
  <2> QED
    BY <1>6, <1>9, <2>1
<1>11. d # -1 => /\ d \in Chain(s) /\ s.hdr[d].size >= size
                 /\ s.hdr[d].is_free \/ (d = s.base /\ d = last)
  BY <1>5, <1>8
<1> QED
  BY <1>10, <1>11 DEF d, last, FoundOf

\* What the search for a free block from d on may find at r, when d is not the last.
LibreOf(s, d, r) ==
  \/ /\ r = -1
     /\ \A e \in Chain(s) : e >= d /\ s.hdr[e].is_free =>
          /\ e # ultima_metadata_segmento(s) /\ NextMetadata(s, e) = ultima_metadata_segmento(s)
  \/ /\ r \in Chain(s) /\ r >= d /\ r # ultima_metadata_segmento(s)
     /\ NextMetadata(s, r) \in Chain(s)
     /\ ~s.hdr[r].is_free => NextMetadata(s, r) = ultima_metadata_segmento(s)
     /\ NextMetadata(s, r) = ultima_metadata_segmento(s) => s.hdr[ultima_metadata_segmento(s)].is_free
     /\ \A e \in Chain(s) : e >= d /\ e < r => ~s.hdr[e].is_free

LEMMA LibreIs ==
  ASSUME NEW s, Tiled(s), NEW d \in Chain(s), d # ultima_metadata_segmento(s)
  PROVE  LibreOf(s, d, proxima_metadata_libre(s, d))
<1> DEFINE last == ultima_metadata_segmento(s)
           pen == Penultimate(s)
           found == {e \in Chain(s) : e >= d /\ e # last
                       /\ IF e = pen THEN s.hdr[last].is_free ELSE s.hdr[e].is_free}
           r == proxima_metadata_libre(s, d)
<1>1. last \in Chain(s)
      /\ \A e \in Chain(s) : /\ e \in Nat /\ s.hdr[e].is_free \in BOOLEAN /\ e <= last
                             /\ (NextMetadata(s, e) = s.limit <=> e = last)
                             /\ NextMetadata(s, e) # s.limit => NextMetadata(s, e) \in Chain(s)
  BY LastIs, HeaderIs
<1>2. r = IF found = {} THEN -1 ELSE Min(found)
  BY DEF proxima_metadata_libre
<1>3. s.base # last
  <2>1. s.base \in Nat /\ s.base <= d /\ d <= last /\ d \in Nat /\ last \in Nat /\ d # last
    BY <1>1, HeaderIs
  <2> QED
    BY <2>1
<1>4. /\ pen \in Chain(s) /\ pen # last
      /\ \A e \in Chain(s) : (NextMetadata(s, e) = last <=> e = pen) /\ (e # last => e <= pen)
  BY <1>3, PenultimateIs
<1>5. found # {} => Min(found) \in found /\ \A y \in found : Min(found) <= y
  <2>1. found \in SUBSET Nat
    BY <1>1
  <2> HIDE DEF found
  <2> QED
    BY <2>1, MinOf
<1>6. CASE found = {}
  <2>1. \A e \in Chain(s) : e >= d /\ e # last => ~(IF e = pen THEN s.hdr[last].is_free ELSE s.hdr[e].is_free)
    BY <1>6
  <2>2. pen >= d
    BY <1>4
  <2>3. ~s.hdr[last].is_free
    BY <1>4, <2>1, <2>2
  <2>4. \A e \in Chain(s) : e >= d /\ s.hdr[e].is_free => e # last /\ NextMetadata(s, e) = last
    BY <1>4, <2>1, <2>3
  <2> HIDE DEF found
  <2>5. r = -1
    BY <1>2, <1>6
  <2> QED
    BY <2>4, <2>5 DEF LibreOf, r, last
<1>7. CASE found # {}
  <2>1. r \in found /\ \A y \in found : r <= y
    <3> HIDE DEF found
    <3> QED
      BY <1>2, <1>5, <1>7
  <2>2. r \in Chain(s) /\ r >= d /\ r # last /\ IF r = pen THEN s.hdr[last].is_free ELSE s.hdr[r].is_free
    BY <2>1
  <2>3. \A e \in Chain(s) : e >= d /\ e < r => ~s.hdr[e].is_free
    <3> SUFFICES ASSUME NEW e \in Chain(s), e >= d, e < r, s.hdr[e].is_free
                 PROVE  FALSE
      OBVIOUS
    <3>1. e \in Nat /\ r \in Nat /\ pen \in Nat /\ last \in Nat /\ r <= pen /\ r <= last /\ pen <= last
      BY <1>1, <1>4, <2>2
    <3>2. e # pen /\ e # last
      BY <3>1
    <3>3. e \in found
      BY <3>2
    <3>4. r <= e
      BY <2>1, <3>3
    <3> QED
      BY <3>1, <3>4
  <2> HIDE DEF found, r
  <2>4. NextMetadata(s, r) \in Chain(s)
    BY <1>1, <2>2
  <2>5. ~s.hdr[r].is_free => NextMetadata(s, r) = last
    BY <1>4, <2>2
  <2>6. NextMetadata(s, r) = last => s.hdr[last].is_free
    BY <1>4, <2>2
  <2> QED
    BY <2>2, <2>3, <2>4, <2>5, <2>6 DEF LibreOf, r, last
<1> QED
  BY <1>6, <1>7

(***************************************************************************)
(* What the operations do to the chain of a segment.                       *)
(***************************************************************************)
\* A change of the headers alone.
Rewritten(s, t) ==
  /\ t \in Segments /\ t.is_heap = s.is_heap /\ t.base = s.base /\ t.limit = s.limit

LEMMA RewrittenIs ==
  ASSUME NEW s \in Segments, NEW H \in Maps
  PROVE  Rewritten(s, [s EXCEPT !.hdr = H]) /\ [s EXCEPT !.hdr = H].hdr = H
<1>1. s = [is_heap |-> s.is_heap, base |-> s.base, limit |-> s.limit, hdr |-> s.hdr]
      /\ s.is_heap \in BOOLEAN /\ s.base \in Nat /\ s.limit \in Nat
  BY DEF Segments
<1>2. [s EXCEPT !.hdr = H] = [is_heap |-> s.is_heap, base |-> s.base, limit |-> s.limit, hdr |-> H]
  BY <1>1
<1> QED
  BY <1>1, <1>2 DEF Rewritten, Segments

LEMMA AbsorbIs ==
  ASSUME NEW s, Tiled(s), NEW d \in Chain(s), NEW e \in Chain(s), e = NextMetadata(s, d),
         NEW t, t = Absorb(s, d, e)
  PROVE  /\ Rewritten(s, t) /\ Tiled(t) /\ DOMAIN t.hdr = DOMAIN s.hdr
         /\ Chain(t) = Chain(s) \ {e} /\ d # e
         /\ NextMetadata(t, d) = NextMetadata(s, e)
         /\ t.hdr[d].is_free = s.hdr[d].is_free /\ t.hdr[d].size >= s.hdr[d].size
         /\ \A x \in Chain(t) \ {d} : t.hdr[x] = s.hdr[x] /\ NextMetadata(t, x) = NextMetadata(s, x)
<1> DEFINE H == s.hdr
           D == [size |-> H[d].size + H[e].size + METADATA_SIZE, is_free |-> H[d].is_free]
           E == [size |-> H[e].size, is_free |-> TRUE]
           G == [x \in DOMAIN H |-> IF x = e THEN E ELSE IF x = d THEN D ELSE H[x]]
<1>1. /\ d \in Nat /\ e \in Nat /\ d < e /\ d \in DOMAIN H /\ e \in DOMAIN H /\ d # e
      /\ H[d].size \in Nat /\ H[e].size \in Nat /\ H[d].is_free \in BOOLEAN
      /\ NextMetadata(s, d) = d + 5 + H[d].size /\ NextMetadata(s, e) = e + 5 + H[e].size
      /\ s.base <= d /\ s.base \in Nat
  BY HeaderIs
<1>2. /\ InSegment(s) /\ s \in Segments /\ H \in Maps /\ H = [x \in DOMAIN H |-> H[x]]
      /\ \A x \in DOMAIN H : H[x] \in Metadata
  BY MapsAre DEF Tiled, InSegment, Segments
<1>3. H[d] \in Metadata /\ H[e] \in Metadata
  BY <1>1, <1>2
<1>4. D \in Metadata /\ E \in Metadata
  BY <1>1 DEF Metadata, METADATA_SIZE
<1>5. t = [s EXCEPT !.hdr = G]
  <2> HIDE DEF H
  <2>1. [[H EXCEPT ![d] = [H[d] EXCEPT !.size = H[d].size + H[e].size + METADATA_SIZE]]
           EXCEPT ![e] = [H[e] EXCEPT !.is_free = TRUE]] = G
    <3>1. [H[d] EXCEPT !.size = H[d].size + H[e].size + METADATA_SIZE] = D
      <4>1. \A h \in Metadata : \A n : [h EXCEPT !.size = n] = [size |-> n, is_free |-> h.is_free]
        BY DEF Metadata
      <4> QED
        BY <1>3, <4>1
    <3>2. [H[e] EXCEPT !.is_free = TRUE] = E
      <4>1. \A h \in Metadata : \A v : [h EXCEPT !.is_free = v] = [size |-> h.size, is_free |-> v]
        BY DEF Metadata
      <4>2. [H[e] EXCEPT !.is_free = TRUE] = [size |-> H[e].size, is_free |-> TRUE]
        BY <1>3, <4>1
      <4> QED
        BY <4>2
    <3> HIDE DEF D, E
    <3>3. [[H EXCEPT ![d] = D] EXCEPT ![e] = E] = G
      BY <1>1, <1>2
    <3> QED
      BY <3>1, <3>2, <3>3
  <2>2. s = [is_heap |-> s.is_heap, base |-> s.base, limit |-> s.limit, hdr |-> H]
    BY <1>2 DEF Segments, H
  <2> DEFINE K == [H EXCEPT ![d] = [H[d] EXCEPT !.size = H[d].size + H[e].size + METADATA_SIZE]]
  <2>3. K[e] = H[e]
    BY <1>1, <1>2
  <2>4. t = [[s EXCEPT !.hdr = K] EXCEPT !.hdr = [K EXCEPT ![e] = [K[e] EXCEPT !.is_free = TRUE]]]
    BY <1>2 DEF Absorb, H, Segments
  <2>5. [K EXCEPT ![e] = [K[e] EXCEPT !.is_free = TRUE]] = G
    BY <2>1, <2>3
  <2> HIDE DEF K, G
  <2> QED
    BY <2>2, <2>4, <2>5
<1>6. /\ DOMAIN G = DOMAIN H /\ G[d] = D /\ G[e] = E
      /\ \A x \in DOMAIN H : x # d /\ x # e => G[x] = H[x]
  <2> HIDE DEF D, E, H
  <2> QED
    BY <1>1
<1>7. G \in Maps
  <2>1. \A x \in DOMAIN G : G[x] \in Metadata
    <3> HIDE DEF D, E, H, G
    <3> QED
      BY <1>2, <1>4, <1>6
  <2>2. DOMAIN G \subseteq Nat /\ G = [x \in DOMAIN G |-> G[x]]
    <3>1. DOMAIN H \subseteq Nat
      BY <1>2, MapsAre
    <3> HIDE DEF D, E, H
    <3> QED
      BY <3>1, <1>6
  <2> HIDE DEF G
  <2> QED
    BY <2>1, <2>2, MapsAre
<1>8. Rewritten(s, t) /\ t.hdr = G
  <2> HIDE DEF G
  <2> QED
    BY <1>2, <1>5, <1>7, RewrittenIs
<1>9. D.size = H[d].size + H[e].size + 5 /\ D.is_free = H[d].is_free
  <2>1. \A a, b : [size |-> a, is_free |-> b].size = a /\ [size |-> a, is_free |-> b].is_free = b
    OBVIOUS
  <2> QED
    BY <2>1 DEF METADATA_SIZE
<1> HIDE DEF G, D, E
<1>10. InSegment(t)
  BY <1>2, <1>6, <1>8 DEF InSegment, Rewritten
<1>11. \A x \in Chain(s) : x # d /\ x # e => t.hdr[x] = s.hdr[x] /\ NextMetadata(t, x) = NextMetadata(s, x)
  <2>1. \A x \in Chain(s) : x \in DOMAIN H
    BY HeaderIs
  <2>2. \A x \in Chain(s) : x # d /\ x # e => t.hdr[x] = s.hdr[x]
    BY <1>6, <1>8, <2>1
  <2> QED
    BY <2>2 DEF NextMetadata
<1>12. NextMetadata(t, d) = NextMetadata(s, e)
  <2>1. t.hdr[d].size = H[d].size + H[e].size + 5
    BY <1>6, <1>8, <1>9
  <2>2. NextMetadata(t, d) = d + METADATA_SIZE + t.hdr[d].size
    BY DEF NextMetadata
  <2> HIDE DEF H
  <2> QED
    BY <1>1, <2>1, <2>2 DEF METADATA_SIZE
<1>13. Tiling(t, Chain(s) \ {e})
  <2> DEFINE C == Chain(s) \ {e}
  <2>0. t.base = s.base /\ t.limit = s.limit
    BY <1>8 DEF Rewritten
  <2>1. t.base \in C /\ C \subseteq DOMAIN t.hdr
    <3>1. s.base # e
      BY <1>1
    <3>2. s.base \in Chain(s) /\ Chain(s) \subseteq DOMAIN H
      BY DEF Tiled, Tiling
    <3> QED
      BY <1>6, <1>8, <2>0, <3>1, <3>2
  <2>2. ASSUME NEW x \in C
        PROVE  \/ NextMetadata(t, x) = s.limit
               \/ NextMetadata(t, x) < s.limit /\ NextMetadata(t, x) \in C
    <3>1. CASE x = d
      <4>1. NextMetadata(t, x) = NextMetadata(s, e)
        BY <1>12, <3>1
      <4>2. NextMetadata(s, e) # e
        BY <1>1
      <4>3. NextMetadata(s, e) = s.limit \/ (NextMetadata(s, e) < s.limit /\ NextMetadata(s, e) \in Chain(s))
        BY DEF Tiled, Tiling
      <4> QED
        BY <4>1, <4>2, <4>3
    <3>2. CASE x # d
      <4>1. NextMetadata(t, x) = NextMetadata(s, x)
        BY <1>11, <3>2
      <4>2. NextMetadata(s, x) = s.limit \/ (NextMetadata(s, x) < s.limit /\ NextMetadata(s, x) \in Chain(s))
        BY DEF Tiled, Tiling
      <4>3. NextMetadata(s, x) # e
        <5> SUFFICES ASSUME NextMetadata(s, x) = e
                     PROVE  FALSE
          OBVIOUS
        <5>1. x \in Nat /\ x < e /\ (d < x => e <= x)
          BY HeaderIs
        <5>2. x < d => e <= d
          BY HeaderIs
        <5> QED
          BY <1>1, <3>2, <5>1, <5>2
      <4> QED
        BY <4>1, <4>2, <4>3
    <3> QED
      BY <3>1, <3>2
  <2>3. ASSUME NEW x \in C, NEW y \in C, x < y
        PROVE  NextMetadata(t, x) <= y
    <3>1. CASE x = d
      <4>1. e <= y /\ y \in Nat /\ y # e
        BY <2>3, <3>1, HeaderIs
      <4>2. e < y
        BY <1>1, <4>1
      <4> QED
        BY <1>12, <3>1, <4>2, HeaderIs
    <3>2. CASE x # d
      BY <1>11, <2>3, <3>2, HeaderIs
    <3> QED
      BY <3>1, <3>2
  <2> HIDE DEF C
  <2>4. Tiling(t, C)
    BY <2>0, <2>1, <2>2, <2>3 DEF Tiling
  <2> QED
    BY <2>4 DEF C
<1>14. Chain(t) = Chain(s) \ {e}
  BY <1>10, <1>13, ChainIs
<1>15. t.hdr[d].is_free = s.hdr[d].is_free /\ t.hdr[d].size >= s.hdr[d].size
  BY <1>1, <1>6, <1>8, <1>9
<1> QED
  BY <1>1, <1>6, <1>8, <1>10, <1>11, <1>12, <1>13, <1>14, <1>15 DEF Tiled

(***************************************************************************)
(* Compaction.                                                             *)
(***************************************************************************)
Used(s) == {d \in Chain(s) : ~s.hdr[d].is_free}
HasFree(s) == \E d \in Chain(s) : s.hdr[d].is_free
EarlyFree(s) == \E d \in Chain(s) : s.hdr[d].is_free /\ NextMetadata(s, d) # s.limit

\* No two neighbours are free, among the headers before d or among all.
MergedBefore(s, d) ==
  \A x \in Chain(s) : x < d /\ s.hdr[x].is_free => ~s.hdr[NextMetadata(s, x)].is_free
Merged(s) ==
  \A x \in Chain(s) : s.hdr[x].is_free /\ NextMetadata(s, x) < s.limit =>
    ~s.hdr[NextMetadata(s, x)].is_free

\* The blocks in use stay in use and do not get shorter.
KeepsUsed(s, t) ==
  /\ Rewritten(s, t) /\ Tiled(t) /\ DOMAIN t.hdr = DOMAIN s.hdr
  /\ Used(t) = Used(s) /\ \A d \in Used(s) : t.hdr[d].size >= s.hdr[d].size

\* The arguments of a call: the blocks before d are merged, e follows d, and d is in
\* use only when e is the last.
Arguments(t, d, e) ==
  /\ d \in Chain(t) /\ e \in Chain(t) /\ e = NextMetadata(t, d)
  /\ MergedBefore(t, d)
  /\ ~t.hdr[d].is_free => NextMetadata(t, e) = t.limit

FreeUpTo(t, d) == \E f \in Chain(t) : t.hdr[f].is_free /\ f <= d

\* What holds of the segment and the arguments between two calls.
Compacting(s, c) ==
  /\ c = [seg |-> c.seg, inicial |-> c.inicial, siguiente |-> c.siguiente]
  /\ KeepsUsed(s, c.seg)
  /\ c.siguiente = Done => Merged(c.seg) /\ (EarlyFree(s) => HasFree(c.seg))
  /\ c.siguiente # Done => /\ Arguments(c.seg, c.inicial, c.siguiente)
                           /\ EarlyFree(s) => FreeUpTo(c.seg, c.inicial)

LEMMA KeepsUsedOn ==
  ASSUME NEW s, Tiled(s), NEW t, KeepsUsed(s, t), NEW u, KeepsUsed(t, u)
  PROVE  KeepsUsed(s, u)
<1>1. \A d \in Used(s) : /\ s.hdr[d].size \in Nat /\ t.hdr[d].size \in Nat /\ u.hdr[d].size \in Nat
  <2> TAKE d \in Used(s)
  <2>1. d \in Used(t) /\ d \in Used(u) /\ Tiled(t) /\ Tiled(u)
    BY DEF KeepsUsed
  <2> QED
    BY <2>1, HeaderIs DEF Used
<1>2. \A d \in Used(s) : u.hdr[d].size >= t.hdr[d].size /\ t.hdr[d].size >= s.hdr[d].size
  BY DEF KeepsUsed
<1>3. \A d \in Used(s) : u.hdr[d].size >= s.hdr[d].size
  BY <1>1, <1>2
<1> QED
  BY <1>3 DEF KeepsUsed, Rewritten

\* The next header is free, and is swallowed.
LEMMA SwallowIs ==
  ASSUME NEW t, Tiled(t), NEW d, NEW e, Arguments(t, d, e), t.hdr[e].is_free,
         NEW a, a = Absorb(t, d, e)
  PROVE  /\ KeepsUsed(t, a)
         /\ NextMetadata(t, e) = t.limit => Merged(a)
         /\ NextMetadata(t, e) # t.limit => Arguments(a, d, NextMetadata(t, e))
         /\ FreeUpTo(t, d) => FreeUpTo(a, d)
<1>1. /\ d \in Chain(t) /\ e \in Chain(t) /\ e = NextMetadata(t, d)
      /\ MergedBefore(t, d)
      /\ ~t.hdr[d].is_free => NextMetadata(t, e) = t.limit
  BY DEF Arguments
<1>2. /\ Rewritten(t, a) /\ Tiled(a) /\ DOMAIN a.hdr = DOMAIN t.hdr
      /\ Chain(a) = Chain(t) \ {e} /\ d # e
      /\ NextMetadata(a, d) = NextMetadata(t, e)
      /\ a.hdr[d].is_free = t.hdr[d].is_free /\ a.hdr[d].size >= t.hdr[d].size
      /\ \A x \in Chain(a) \ {d} : a.hdr[x] = t.hdr[x] /\ NextMetadata(a, x) = NextMetadata(t, x)
  BY <1>1, AbsorbIs
<1>3. /\ d \in Nat /\ e \in Nat /\ d < e /\ t.limit \in Nat /\ d \in Chain(a) /\ a.limit = t.limit
      /\ \A x \in Chain(t) : x \in Nat /\ (d < x => e <= x) /\ t.hdr[x].size \in Nat
  BY <1>1, <1>2, HeaderIs DEF Rewritten
<1>4. \A x \in Chain(a) : a.hdr[x].is_free = t.hdr[x].is_free /\ a.hdr[x].size >= t.hdr[x].size
  <2> TAKE x \in Chain(a)
  <2>1. CASE x = d
    BY <1>2, <2>1
  <2>2. CASE x # d
    <3>1. a.hdr[x] = t.hdr[x] /\ t.hdr[x].size \in Nat
      BY <1>2, <1>3, <2>2
    <3> QED
      BY <3>1
  <2> QED
    BY <2>1, <2>2
<1>5. KeepsUsed(t, a)
  <2>1. Used(a) = Used(t)
    BY <1>2, <1>4 DEF Used
  <2>2. \A x \in Used(t) : a.hdr[x].size >= t.hdr[x].size
    BY <1>4, <2>1 DEF Used
  <2> QED
    BY <1>2, <2>1, <2>2 DEF KeepsUsed
<1>6. ASSUME NEW x \in Chain(a), x < d, a.hdr[x].is_free
      PROVE  ~a.hdr[NextMetadata(a, x)].is_free
  <2>0. x \in Chain(t) /\ x \in Nat
    BY <1>2, <1>3
  <2>00. x # d
    BY <1>3, <1>6, <2>0
  <2>1. x # d /\ x \in Chain(t) /\ NextMetadata(a, x) = NextMetadata(t, x) /\ t.hdr[x].is_free
    BY <1>2, <1>4, <1>6, <2>0, <2>00
  <2>2. NextMetadata(t, x) <= d /\ NextMetadata(t, x) \in Nat
    BY <1>1, <1>6, <2>1, HeaderIs
  <2>3. ~t.hdr[NextMetadata(t, x)].is_free
    BY <1>1, <1>6, <2>1 DEF MergedBefore
  <2>4. NextMetadata(t, x) \in Chain(a)
    <3>1. NextMetadata(t, x) # t.limit
      <4>1. d < t.limit
        BY <1>1, HeaderIs
      <4> QED
        BY <1>3, <2>2, <4>1
    <3>2. NextMetadata(t, x) \in Chain(t)
      BY <2>1, <3>1, HeaderIs
    <3>3. NextMetadata(t, x) # e
      BY <1>3, <2>2
    <3> QED
      BY <1>2, <3>2, <3>3
  <2> QED
    BY <1>4, <2>1, <2>3, <2>4
<1>7. ASSUME NextMetadata(t, e) = t.limit
      PROVE  Merged(a)
  <2> SUFFICES ASSUME NEW x \in Chain(a), a.hdr[x].is_free, NextMetadata(a, x) < a.limit
               PROVE  ~a.hdr[NextMetadata(a, x)].is_free
    BY DEF Merged
  <2>1. x # d
    BY <1>2, <1>3, <1>7
  <2>2. ~(x > d)
    <3> SUFFICES ASSUME x > d
                 PROVE  FALSE
      OBVIOUS
    <3>1. x \in Chain(t) /\ x # e /\ x \in Nat
      BY <1>2, <1>3
    <3>2. e < x
      BY <1>3, <3>1
    <3>3. t.limit <= x /\ x < t.limit
      BY <1>1, <1>7, <3>1, <3>2, HeaderIs
    <3> QED
      BY <1>3, <3>1, <3>3
  <2>3. x < d
    <3>1. x \in Nat
      BY <1>2, <1>3
    <3> QED
      BY <1>3, <2>1, <2>2, <3>1
  <2> QED
    BY <1>6, <2>3
<1>8. ASSUME NextMetadata(t, e) # t.limit
      PROVE  Arguments(a, d, NextMetadata(t, e))
  <2>1. NextMetadata(t, e) \in Chain(t) /\ NextMetadata(t, e) # e
    BY <1>1, <1>3, <1>8, HeaderIs
  <2>2. NextMetadata(t, e) \in Chain(a)
    BY <1>2, <2>1
  <2>3. a.hdr[d].is_free
    BY <1>1, <1>2, <1>8
  <2>4. MergedBefore(a, d)
    BY <1>6 DEF MergedBefore
  <2> QED
    BY <1>2, <1>3, <2>2, <2>3, <2>4 DEF Arguments
<1>9. ASSUME FreeUpTo(t, d)
      PROVE  FreeUpTo(a, d)
  <2>1. PICK f \in Chain(t) : t.hdr[f].is_free /\ f <= d
    BY <1>9 DEF FreeUpTo
  <2>2. f # e
    BY <1>3, <2>1
  <2>3. f \in Chain(a)
    BY <1>2, <2>2
  <2> QED
    BY <1>4, <2>1, <2>3 DEF FreeUpTo
<1> QED
  BY <1>5, <1>7, <1>8, <1>9

\* The next header is in use, and is the last or the search goes on from it.
LEMMA SkipIs ==
  ASSUME NEW t, Tiled(t), NEW d, NEW e, Arguments(t, d, e), ~t.hdr[e].is_free,
         NEW r, NextMetadata(t, e) # t.limit => LibreOf(t, e, r)
  PROVE  /\ NextMetadata(t, e) = t.limit \/ r = -1 => Merged(t)
         /\ NextMetadata(t, e) # t.limit /\ r # -1 =>
              /\ Arguments(t, r, NextMetadata(t, r)) /\ r # ultima_metadata_segmento(t)
              /\ d <= r /\ e < NextMetadata(t, r)
<1>1. /\ d \in Chain(t) /\ e \in Chain(t) /\ e = NextMetadata(t, d)
      /\ MergedBefore(t, d)
  BY DEF Arguments
<1> DEFINE last == ultima_metadata_segmento(t)
<1>2. /\ last \in Chain(t) /\ last \in Nat /\ t.limit \in Nat
      /\ \A x \in Chain(t) : /\ x \in Nat /\ x <= last /\ (NextMetadata(t, x) = t.limit <=> x = last)
                             /\ x < NextMetadata(t, x) /\ NextMetadata(t, x) \in Nat
  BY LastIs, HeaderIs
<1> HIDE DEF last
<1>3. d \in Nat /\ e \in Nat /\ d < e /\ \A x \in Chain(t) : d < x => e <= x
  BY <1>1, <1>2, HeaderIs
<1>4. ASSUME NEW x \in Chain(t), x < e, t.hdr[x].is_free
      PROVE  ~t.hdr[NextMetadata(t, x)].is_free
  <2>0. x \in Nat /\ ~(d < x /\ ~(e <= x))
    BY <1>2, <1>3
  <2>1. x \in Nat /\ (x < d \/ x = d)
    BY <1>3, <1>4, <2>0
  <2> QED
    BY <1>1, <1>4, <2>1 DEF MergedBefore
<1>5. ASSUME NextMetadata(t, e) = t.limit
      PROVE  Merged(t)
  <2> SUFFICES ASSUME NEW x \in Chain(t), t.hdr[x].is_free, NextMetadata(t, x) < t.limit
               PROVE  ~t.hdr[NextMetadata(t, x)].is_free
    BY DEF Merged
  <2>1. e = last /\ x # last /\ x <= last /\ x \in Nat
    BY <1>1, <1>2, <1>5
  <2>2. x < e
    BY <1>3, <2>1
  <2> QED
    BY <1>4, <2>2
<1>6. ASSUME NextMetadata(t, e) # t.limit, r = -1
      PROVE  Merged(t)
  <2> SUFFICES ASSUME NEW x \in Chain(t), t.hdr[x].is_free, NextMetadata(t, x) < t.limit
               PROVE  ~t.hdr[NextMetadata(t, x)].is_free
    BY DEF Merged
  <2>1. \A y \in Chain(t) : y >= e /\ t.hdr[y].is_free => y # last /\ NextMetadata(t, y) = last
    <3>1. -1 \notin Chain(t)
      BY <1>2
    <3> QED
      BY <1>6, <3>1 DEF LibreOf, last
  <2>2. CASE x < e
    BY <1>4, <2>2
  <2>3. CASE ~(x < e)
    <3>0. x \in Nat /\ e \in Nat /\ e <= last /\ last \in Nat
      BY <1>1, <1>2
    <3>1. x >= e /\ last >= e
      BY <2>3, <3>0
    <3>2. NextMetadata(t, x) = last /\ ~t.hdr[last].is_free
      BY <1>2, <2>1, <3>1
    <3> QED
      BY <3>2
  <2> QED
    BY <2>2, <2>3
<1>7. ASSUME NextMetadata(t, e) # t.limit, r # -1
      PROVE  /\ Arguments(t, r, NextMetadata(t, r)) /\ r # last
             /\ d <= r /\ e < NextMetadata(t, r)
  <2>1. /\ r \in Chain(t) /\ r >= e /\ r # last /\ NextMetadata(t, r) \in Chain(t)
        /\ ~t.hdr[r].is_free => NextMetadata(t, r) = last
        /\ \A x \in Chain(t) : x >= e /\ x < r => ~t.hdr[x].is_free
    BY <1>7 DEF LibreOf, last
  <2>2. r \in Nat /\ d <= r /\ e < NextMetadata(t, r)
    <3>1. r \in Nat /\ r < NextMetadata(t, r) /\ NextMetadata(t, r) \in Nat
      BY <1>2, <2>1
    <3> QED
      BY <1>3, <2>1, <3>1
  <2>3. MergedBefore(t, r)
    <3> SUFFICES ASSUME NEW x \in Chain(t), x < r, t.hdr[x].is_free
                 PROVE  ~t.hdr[NextMetadata(t, x)].is_free
      BY DEF MergedBefore
    <3>0. x \in Nat /\ ~(x >= e)
      BY <1>2, <2>1
    <3>1. x < e
      BY <1>3, <3>0
    <3> QED
      BY <1>4, <3>1
  <2>4. ~t.hdr[r].is_free => NextMetadata(t, NextMetadata(t, r)) = t.limit
    BY <1>2, <2>1
  <2> QED
    BY <2>1, <2>2, <2>3, <2>4 DEF Arguments
<1> QED
  BY <1>5, <1>6, <1>7 DEF last

LEMMA KeepsItself ==
  ASSUME NEW s, Tiled(s)
  PROVE  KeepsUsed(s, s)
<1>1. \A d \in Used(s) : s.hdr[d].size >= s.hdr[d].size
  <2>1. \A d \in Used(s) : s.hdr[d].size \in Nat
    BY HeaderIs DEF Used
  <2> QED
    BY <2>1
<1> QED
  BY <1>1 DEF KeepsUsed, Rewritten, Tiled, InSegment

\* Where compaction starts, if it has anything to do.
LEMMA StartIs ==
  ASSUME NEW s, Tiled(s), CompactsSafely(s), NEW d, d = proxima_metadata_libre(s, s.base)
  PROVE  /\ d \in {-1, ultima_metadata_segmento(s)} => Merged(s)
         /\ d \notin {-1, ultima_metadata_segmento(s)} =>
              Arguments(s, d, NextMetadata(s, d)) /\ (EarlyFree(s) => FreeUpTo(s, d))
<1> DEFINE last == ultima_metadata_segmento(s)
<1>1. /\ last \in Chain(s) /\ s.base \in Chain(s) /\ last \in Nat /\ s.limit \in Nat
      /\ \A x \in Chain(s) : /\ x \in Nat /\ x <= last /\ (NextMetadata(s, x) = s.limit <=> x = last)
                             /\ x < NextMetadata(s, x) /\ NextMetadata(s, x) \in Nat
                             /\ s.base <= x
  BY LastIs, HeaderIs
<1>2. ASSUME NEW x \in Chain(s), NextMetadata(s, x) < s.limit
      PROVE  x # last
  BY <1>1, <1>2
<1> HIDE DEF last
<1>3. CASE s.base = last
  <2>1. d = last
    <3>1. d # OffChain
      BY DEF CompactsSafely
    <3> QED
      BY <1>3, <3>1 DEF proxima_metadata_libre, last
  <2>2. \A x \in Chain(s) : x = last
    BY <1>1, <1>3
  <2>3. Merged(s)
    BY <1>2, <2>2 DEF Merged
  <2> QED
    BY <2>1, <2>3 DEF last
<1>4. CASE s.base # last
  <2>1. LibreOf(s, s.base, d)
    BY <1>1, <1>4, LibreIs DEF last
  <2>2. ASSUME d = -1
        PROVE  Merged(s)
    <3>1. \A y \in Chain(s) : s.hdr[y].is_free => y # last /\ NextMetadata(s, y) = last
      <4>1. -1 \notin Chain(s)
        BY <1>1
      <4>2. \A y \in Chain(s) : y >= s.base
        BY <1>1
      <4> QED
        BY <2>1, <2>2, <4>1, <4>2 DEF LibreOf, last
    <3>2. \A x \in Chain(s) : s.hdr[x].is_free => ~s.hdr[NextMetadata(s, x)].is_free
      BY <1>1, <3>1
    <3> QED
      BY <3>2 DEF Merged
  <2>3. ASSUME d # -1
        PROVE  /\ Arguments(s, d, NextMetadata(s, d)) /\ d # last
               /\ EarlyFree(s) => FreeUpTo(s, d)
    <3>1. /\ d \in Chain(s) /\ d # last /\ NextMetadata(s, d) \in Chain(s)
          /\ ~s.hdr[d].is_free => NextMetadata(s, d) = last
          /\ \A x \in Chain(s) : x >= s.base /\ x < d => ~s.hdr[x].is_free
      BY <2>1, <2>3 DEF LibreOf, last
    <3>2. \A x \in Chain(s) : x < d => ~s.hdr[x].is_free
      BY <1>1, <3>1
    <3>3. Arguments(s, d, NextMetadata(s, d))
      BY <1>1, <3>1, <3>2 DEF Arguments, MergedBefore
    <3>4. ASSUME EarlyFree(s)
          PROVE  FreeUpTo(s, d)
      <4>1. PICK f \in Chain(s) : s.hdr[f].is_free /\ f # last
        BY <1>1, <3>4 DEF EarlyFree
      <4>2. f \in Nat /\ d \in Nat /\ f >= d /\ f <= last
        <5>1. f \in Nat /\ d \in Nat /\ f <= last
          BY <1>1, <3>1
        <5>2. ~(f < d)
          BY <3>2, <4>1
        <5> QED
          BY <5>1, <5>2
      <4>3. CASE f = d
        BY <4>1, <4>2, <4>3 DEF FreeUpTo
      <4>4. CASE f # d
        <5>1. d < f
          BY <4>2, <4>4
        <5>2. NextMetadata(s, d) <= f
          BY <3>1, <5>1, HeaderIs
        <5>3. s.hdr[d].is_free
          <6> SUFFICES ASSUME ~s.hdr[d].is_free
                       PROVE  FALSE
            OBVIOUS
          <6>1. last <= f
            BY <3>1, <5>2
          <6> QED
            BY <1>1, <4>1, <4>2, <6>1
        <5> QED
          BY <3>1, <4>2, <5>3 DEF FreeUpTo
      <4> QED
        BY <4>3, <4>4
    <3> QED
      BY <3>1, <3>3, <3>4
  <2> QED
    BY <1>1, <2>2, <2>3 DEF last
<1> QED
  BY <1>3, <1>4

\* A call keeps what holds between the calls, and goes forward or is the last.
LEMMA CallIs ==
  ASSUME NEW s, Tiled(s), NEW c, Compacting(s, c)
  PROVE  /\ Compacting(s, compactar_en_segmento(c))
         /\ compactar_en_segmento(c).siguiente # Done =>
              c.siguiente # Done /\ c.siguiente < compactar_en_segmento(c).siguiente
<1> DEFINE t == c.seg
           d == c.inicial
           e == c.siguiente
           n == compactar_en_segmento(c)
           a == Absorb(t, d, e)
           r == proxima_metadata_libre(t, e)
           last == ultima_metadata_segmento(t)
<1>1. c = [seg |-> t, inicial |-> d, siguiente |-> e] /\ KeepsUsed(s, t) /\ Tiled(t)
  BY DEF Compacting, KeepsUsed
<1>2. CASE e = Done
  <2>1. n = c
    BY <1>2 DEF compactar_en_segmento
  <2> HIDE DEF n
  <2> QED
    BY <1>2, <2>1 DEF n
<1>3. CASE e # Done
  <2>1. Arguments(t, d, e) /\ (EarlyFree(s) => FreeUpTo(t, d))
    BY <1>3 DEF Compacting
  <2>2. d \in Chain(t) /\ e \in Chain(t) /\ e \in Nat /\ t.hdr[e].is_free \in BOOLEAN
        /\ (NextMetadata(t, e) = t.limit <=> e = last)
        /\ e < NextMetadata(t, e)
    BY <1>1, <2>1, HeaderIs, LastIs DEF Arguments
  <2>3. e # last => LibreOf(t, e, r)
    BY <1>1, <2>2, LibreIs
  <2>4. \A x, y, z : Call(x, y, z).seg = x /\ Call(x, y, z).inicial = y /\ Call(x, y, z).siguiente = z
    BY DEF Call
  <2>6. n = IF e = Done THEN c
            ELSE IF t.hdr[e].is_free THEN Call(a, d, IF e = last THEN Done ELSE NextMetadata(t, e))
            ELSE IF e = last \/ r \in {-1, last} THEN Call(t, d, Done)
            ELSE Call(t, r, NextMetadata(t, r))
    BY DEF compactar_en_segmento
  <2> HIDE DEF t, d, e, n, a, r, last
  <2>7. \A x, y, z : Compacting(s, Call(x, y, z)) <=>
          /\ KeepsUsed(s, x)
          /\ z = Done => Merged(x) /\ (EarlyFree(s) => HasFree(x))
          /\ z # Done => Arguments(x, y, z) /\ (EarlyFree(s) => FreeUpTo(x, y))
    <3>1. \A x, y, z : Call(x, y, z) = [seg |-> x, inicial |-> y, siguiente |-> z]
      BY DEF Call
    <3> QED
      BY <2>4, <3>1 DEF Compacting
  <2>8. \A x, y : FreeUpTo(x, y) => HasFree(x)
    BY DEF FreeUpTo, HasFree
  <2>9. CASE t.hdr[e].is_free
    <3>1. /\ KeepsUsed(t, a)
          /\ NextMetadata(t, e) = t.limit => Merged(a)
          /\ NextMetadata(t, e) # t.limit => Arguments(a, d, NextMetadata(t, e))
          /\ FreeUpTo(t, d) => FreeUpTo(a, d)
      BY <1>1, <2>1, <2>9, SwallowIs DEF a
    <3>2. KeepsUsed(s, a)
      BY <1>1, <3>1, KeepsUsedOn
    <3>3. CASE e = last
      <4>1. n = Call(a, d, Done)
        BY <1>3, <2>6, <2>9, <3>3
      <4>2. Compacting(s, n)
        BY <2>1, <2>2, <2>7, <2>8, <3>1, <3>2, <3>3, <4>1
      <4> QED
        BY <2>4, <4>1, <4>2 DEF n
    <3>4. CASE e # last
      <4>1. n = Call(a, d, NextMetadata(t, e))
        BY <1>3, <2>6, <2>9, <3>4
      <4>2. NextMetadata(t, e) # Done
        BY <1>1, <2>2, HeaderIs DEF Done
      <4>3. Compacting(s, n)
        BY <2>1, <2>2, <2>7, <3>1, <3>2, <3>4, <4>1, <4>2
      <4> QED
        BY <1>3, <2>2, <2>4, <4>1, <4>3 DEF n, e
    <3> QED
      BY <3>3, <3>4
  <2>10. CASE ~t.hdr[e].is_free
    <3>1. /\ NextMetadata(t, e) = t.limit \/ r = -1 => Merged(t)
          /\ NextMetadata(t, e) # t.limit /\ r # -1 =>
               /\ Arguments(t, r, NextMetadata(t, r)) /\ r # last
               /\ d <= r /\ e < NextMetadata(t, r)
      BY <1>1, <2>1, <2>2, <2>3, <2>10, SkipIs DEF last
    <3>2. CASE e = last \/ r = -1
      <4>1. n = Call(t, d, Done)
        BY <1>3, <2>6, <2>10, <3>2
      <4>2. Compacting(s, n)
        BY <1>1, <2>1, <2>2, <2>7, <2>8, <3>1, <3>2, <4>1
      <4> QED
        BY <2>4, <4>1, <4>2 DEF n
    <3>3. CASE e # last /\ r # -1
      <4>1. n = Call(t, r, NextMetadata(t, r))
        BY <1>3, <2>2, <2>6, <2>10, <3>1, <3>3
      <4>2. NextMetadata(t, r) # Done /\ r \in Nat /\ d \in Nat
        <5>1. Arguments(t, r, NextMetadata(t, r))
          BY <2>2, <3>1, <3>3
        <5>2. r \in Chain(t)
          BY <5>1 DEF Arguments
        <5>3. NextMetadata(t, r) \in Nat /\ r \in Nat /\ d \in Nat
          BY <1>1, <2>2, <5>2, HeaderIs
        <5> QED
          BY <5>3 DEF Done
      <4>3. FreeUpTo(t, d) => FreeUpTo(t, r)
        <5>1. \A x \in Chain(t) : x \in Nat
          BY <1>1, HeaderIs
        <5>2. \A x \in Nat : x <= d => x <= r
          BY <2>2, <3>1, <3>3, <4>2
        <5> QED
          BY <5>1, <5>2 DEF FreeUpTo
      <4>4. Compacting(s, n)
        BY <1>1, <2>1, <2>2, <2>7, <3>1, <3>3, <4>1, <4>2, <4>3
      <4> QED
        BY <1>3, <2>2, <2>4, <3>1, <3>3, <4>1, <4>4 DEF n, e
    <3> QED
      BY <3>2, <3>3
  <2> QED
    BY <2>9, <2>10
<1> QED
  BY <1>2, <1>3

IsCalls(g, c, n) == g = [k \in 0..n |-> IF k = 0 THEN c ELSE compactar_en_segmento(g[k - 1])]

LEMMA CallsExist ==
  ASSUME NEW c, NEW n \in Nat
  PROVE  \E g : IsCalls(g, c, n)
<1> DEFINE S == {k \in Nat : \E g : IsCalls(g, c, k)}
<1>1. 0 \in S
  <2> DEFINE g == [k \in 0..0 |-> c]
  <2>1. \A k \in 0..0 : k = 0
    OBVIOUS
  <2>2. g = [k \in 0..0 |-> IF k = 0 THEN c ELSE compactar_en_segmento(g[k - 1])]
    BY <2>1
  <2>3. IsCalls(g, c, 0)
    BY <2>2 DEF IsCalls
  <2> QED
    BY <2>3
<1>2. ASSUME NEW k \in 1..n, k - 1 \in S
      PROVE  k \in S
  <2>1. PICK f : IsCalls(f, c, k - 1)
    BY <1>2
  <2> DEFINE next(h, i) == IF i = 0 THEN c ELSE compactar_en_segmento(h[i - 1])
             g == [i \in 0..k |-> next(f, i)]
  <2>2. \A i \in 0..(k - 1) : f[i] = next(f, i)
    BY <2>1 DEF IsCalls
  <2>3. \A i \in 0..(k - 1) : i \in 0..k /\ g[i] = f[i]
    <3>1. \A i \in 0..(k - 1) : i \in 0..k
      OBVIOUS
    <3> HIDE DEF next
    <3> QED
      BY <2>2, <3>1
  <2>4. \A i \in 0..k : next(g, i) = next(f, i)
    <3>1. \A i \in 0..k : i # 0 => i - 1 \in 0..(k - 1)
      OBVIOUS
    <3> HIDE DEF g
    <3> QED
      BY <2>3, <3>1
  <2>5. g = [i \in 0..k |-> next(g, i)]
    <3> DEFINE h == [i \in 0..k |-> next(g, i)]
    <3>1. \A i \in 0..k : h[i] = next(g, i) /\ g[i] = next(f, i)
      <4> HIDE DEF next
      <4> QED
        OBVIOUS
    <3> HIDE DEF next
    <3>2. \A i \in 0..k : g[i] = h[i]
      BY <2>4, <3>1
    <3> QED
      BY <3>2
  <2>6. IsCalls(g, c, k)
    <3> HIDE DEF g
    <3> QED
      BY <2>5 DEF IsCalls
  <2> HIDE DEF g
  <2> QED
    BY <2>6
<1> HIDE DEF S
<1>3. n \in S
  BY <1>1, <1>2, UpTo
<1> QED
  BY <1>3 DEF S

\* Compaction merges all neighbours that are free, and keeps the blocks in use.
LEMMA CompactedIs ==
  ASSUME NEW s, Tiled(s), CompactsSafely(s), NEW t, t = compactar_espacios_libres(s)
  PROVE  KeepsUsed(s, t) /\ Merged(t) /\ (EarlyFree(s) => HasFree(t))
<1> DEFINE d == proxima_metadata_libre(s, s.base)
           last == ultima_metadata_segmento(s)
           n == s.limit - s.base
           c == Call(s, d, NextMetadata(s, d))
           calls == CHOOSE g : IsCalls(g, c, n)
<1>1. n \in Nat /\ s.base \in Nat /\ s.limit \in Nat
  BY DEF Tiled, InSegment, Segments
<1>2. IsCalls(calls, c, n)
  BY <1>1, CallsExist
<1>3. t = IF d \in {-1, last} THEN s ELSE calls[n].seg
  BY DEF compactar_espacios_libres, IsCalls
<1>4. calls[0] = c /\ \A k \in 1..n : calls[k] = compactar_en_segmento(calls[k - 1])
  <2> HIDE DEF calls, c
  <2>1. \A k \in 0..n : calls[k] = IF k = 0 THEN c ELSE compactar_en_segmento(calls[k - 1])
    BY <1>2 DEF IsCalls
  <2>2. 0 \in 0..n /\ \A k \in 1..n : k \in 0..n /\ k # 0
    BY <1>1
  <2> QED
    BY <2>1, <2>2
<1>5. /\ d \in {-1, last} => Merged(s)
      /\ d \notin {-1, last} =>
           Arguments(s, d, NextMetadata(s, d)) /\ (EarlyFree(s) => FreeUpTo(s, d))
  BY StartIs
<1>6. CASE d \in {-1, last}
  <2>1. t = s /\ Merged(s)
    BY <1>3, <1>5, <1>6
  <2> QED
    BY <2>1, KeepsItself DEF EarlyFree, HasFree
<1>7. CASE d \notin {-1, last}
  <2>1. /\ c = [seg |-> c.seg, inicial |-> c.inicial, siguiente |-> c.siguiente]
        /\ c.seg = s /\ c.inicial = d /\ c.siguiente = NextMetadata(s, d)
    <3> HIDE DEF d
    <3> QED
      BY DEF Call
  <2>2. Arguments(s, d, NextMetadata(s, d)) /\ (EarlyFree(s) => FreeUpTo(s, d))
    BY <1>5, <1>7
  <2>3. d \in Chain(s) /\ NextMetadata(s, d) \in Chain(s)
    BY <2>2 DEF Arguments
  <2>4. d \in Nat /\ s.base <= d /\ NextMetadata(s, d) \in Nat /\ d < NextMetadata(s, d)
    BY <2>3, HeaderIs
  <2> HIDE DEF d, c, calls, last
  <2>5. Compacting(s, c) /\ (c.siguiente # Done => s.base <= c.siguiente)
    <3>1. c.siguiente # Done
      BY <2>1, <2>4 DEF Done
    <3>2. s.base <= c.siguiente
      BY <1>1, <2>1, <2>4
    <3> QED
      BY <2>1, <2>2, <3>1, <3>2, KeepsItself DEF Compacting
  <2> DEFINE S == {k \in 0..n : /\ Compacting(s, calls[k])
                                /\ calls[k].siguiente # Done => s.base + k <= calls[k].siguiente}
  <2>6. 0 \in S
    <3>1. s.base + 0 = s.base
      BY <1>1
    <3> QED
      BY <1>1, <1>4, <2>5, <3>1
  <2>7. ASSUME NEW k \in 1..n, k - 1 \in S
        PROVE  k \in S
    <3>1. /\ Compacting(s, calls[k - 1]) /\ calls[k] = compactar_en_segmento(calls[k - 1])
          /\ calls[k - 1].siguiente # Done => s.base + (k - 1) <= calls[k - 1].siguiente
      BY <1>4, <2>7
    <3>2. /\ Compacting(s, calls[k])
          /\ calls[k].siguiente # Done =>
               calls[k - 1].siguiente # Done /\ calls[k - 1].siguiente < calls[k].siguiente
      BY <3>1, CallIs
    <3>3. ASSUME calls[k].siguiente # Done
          PROVE  s.base + k <= calls[k].siguiente
      <4>1. calls[k - 1].siguiente \in Chain(calls[k - 1].seg) /\ Tiled(calls[k - 1].seg)
            /\ calls[k].siguiente \in Chain(calls[k].seg) /\ Tiled(calls[k].seg)
        BY <3>1, <3>2, <3>3 DEF Compacting, Arguments, KeepsUsed
      <4>2. calls[k - 1].siguiente \in Nat /\ calls[k].siguiente \in Nat
        BY <4>1, HeaderIs
      <4>3. s.base + (k - 1) <= calls[k - 1].siguiente /\ calls[k - 1].siguiente < calls[k].siguiente
        BY <3>1, <3>2, <3>3
      <4>4. \A x, y \in Nat : s.base + (k - 1) <= x /\ x < y => s.base + k <= y
        BY <1>1
      <4> QED
        BY <4>2, <4>3, <4>4
    <3>4. k \in 0..n
      BY <1>1
    <3> QED
      BY <3>2, <3>3, <3>4
  <2>8. n \in S
    <3> HIDE DEF S, n
    <3> QED
      BY <1>1, <2>6, <2>7, UpTo
  <2> DEFINE r == calls[n]
  <2>9. Compacting(s, r) /\ (r.siguiente # Done => s.base + n <= r.siguiente)
    BY <2>8
  <2> HIDE DEF r, S
  <2>10. r.siguiente = Done
    <3> SUFFICES ASSUME r.siguiente # Done
                 PROVE  FALSE
      OBVIOUS
    <3>1. r.siguiente \in Chain(r.seg) /\ Tiled(r.seg) /\ r.seg.limit = s.limit
      BY <2>9 DEF Compacting, Arguments, KeepsUsed, Rewritten
    <3>2. r.siguiente \in Nat /\ r.siguiente < s.limit
      BY <3>1, HeaderIs
    <3>3. s.base + n = s.limit
      BY <1>1
    <3>4. s.limit <= r.siguiente
      BY <2>9, <3>3
    <3> QED
      BY <1>1, <3>2, <3>4
  <2>11. t = r.seg
    BY <1>3, <1>7 DEF r
  <2> QED
    BY <2>9, <2>10, <2>11 DEF Compacting
<1> QED
  BY <1>6, <1>7

(***************************************************************************)
(* Marking, splitting, growing.                                            *)
(***************************************************************************)
\* The header at d becomes free.
Mark(s, d) == [s EXCEPT !.hdr[d].is_free = TRUE]

LEMMA MarkIs ==
  ASSUME NEW s, InSegment(s), NEW d \in DOMAIN s.hdr, NEW t, t = Mark(s, d)
  PROVE  /\ Rewritten(s, t) /\ InSegment(t) /\ DOMAIN t.hdr = DOMAIN s.hdr
         /\ t.hdr[d].is_free /\ t.hdr[d].size = s.hdr[d].size
         /\ \A x \in DOMAIN s.hdr : x # d => t.hdr[x] = s.hdr[x]
         /\ \A x \in DOMAIN s.hdr : NextMetadata(t, x) = NextMetadata(s, x)
<1> DEFINE H == s.hdr
           E == [size |-> H[d].size, is_free |-> TRUE]
           G == [x \in DOMAIN H |-> IF x = d THEN E ELSE H[x]]
<1>1. /\ s \in Segments /\ H \in Maps /\ H = [x \in DOMAIN H |-> H[x]] /\ DOMAIN H \subseteq Nat
      /\ \A x \in DOMAIN H : H[x] \in Metadata
  BY MapsAre DEF InSegment, Segments
<1>2. H[d] \in Metadata /\ E \in Metadata
  <2>1. H[d] \in Metadata
    BY <1>1
  <2>2. H[d].size \in Nat
    BY <2>1 DEF Metadata
  <2> QED
    BY <2>1, <2>2 DEF Metadata
<1>3. t = [s EXCEPT !.hdr = G]
  <2>1. [H[d] EXCEPT !.is_free = TRUE] = E
    <3>1. \A h \in Metadata : \A v : [h EXCEPT !.is_free = v] = [size |-> h.size, is_free |-> v]
      BY DEF Metadata
    <3>2. [H[d] EXCEPT !.is_free = TRUE] = [size |-> H[d].size, is_free |-> TRUE]
      BY <1>2, <3>1
    <3> QED
      BY <3>2
  <2>2. t = [s EXCEPT !.hdr = [H EXCEPT ![d] = [H[d] EXCEPT !.is_free = TRUE]]]
    BY <1>1 DEF Segments, Mark
  <2> HIDE DEF E, H
  <2>3. [H EXCEPT ![d] = E] = G
    BY <1>1
  <2> QED
    BY <2>1, <2>2, <2>3 DEF H
<1>4. DOMAIN G = DOMAIN H /\ G[d] = E /\ \A x \in DOMAIN H : x # d => G[x] = H[x]
  <2> HIDE DEF E, H
  <2>1. d \in DOMAIN H
    BY DEF H
  <2> QED
    BY <2>1
<1>5. G \in Maps
  <2> HIDE DEF E, H
  <2>1. \A x \in DOMAIN G : G[x] \in Metadata
    BY <1>1, <1>2, <1>4
  <2>2. DOMAIN G \subseteq Nat /\ G = [x \in DOMAIN G |-> G[x]]
    BY <1>1, <1>4
  <2> HIDE DEF G
  <2> QED
    BY <2>1, <2>2, MapsAre
<1>6. Rewritten(s, t) /\ t.hdr = G
  <2> DEFINE u == [s EXCEPT !.hdr = G]
  <2> HIDE DEF G
  <2>1. Rewritten(s, u) /\ u.hdr = G
    BY <1>1, <1>5, RewrittenIs
  <2>2. t = u
    BY <1>3
  <2> HIDE DEF u
  <2> QED
    BY <2>1, <2>2
<1>7. E.size = H[d].size /\ E.is_free
  <2>1. \A a, b : [size |-> a, is_free |-> b].size = a /\ [size |-> a, is_free |-> b].is_free = b
    OBVIOUS
  <2> QED
    BY <2>1
<1> HIDE DEF G, E
<1>8. InSegment(t)
  BY <1>4, <1>6 DEF InSegment, Rewritten
<1>9. \A x \in DOMAIN H : t.hdr[x].size = H[x].size
  BY <1>4, <1>6, <1>7
<1>10. \A x \in DOMAIN H : NextMetadata(t, x) = NextMetadata(s, x)
  BY <1>9 DEF NextMetadata
<1> QED
  BY <1>4, <1>6, <1>7, <1>8, <1>9, <1>10

LEMMA MarkedTiled ==
  ASSUME NEW s, Tiled(s), NEW d \in DOMAIN s.hdr, NEW t, t = Mark(s, d)
  PROVE  Tiled(t) /\ Chain(t) = Chain(s)
<1>1. /\ Rewritten(s, t) /\ InSegment(t) /\ DOMAIN t.hdr = DOMAIN s.hdr
      /\ \A x \in DOMAIN s.hdr : NextMetadata(t, x) = NextMetadata(s, x)
  BY MarkIs DEF Tiled
<1>2. \A x \in Chain(s) : NextMetadata(t, x) = NextMetadata(s, x)
  BY <1>1 DEF Tiled, Tiling
<1>3. Tiling(t, Chain(s))
  <2>1. t.base = s.base /\ t.limit = s.limit
    BY <1>1 DEF Rewritten
  <2> QED
    BY <1>1, <1>2, <2>1 DEF Tiled, Tiling
<1> QED
  BY <1>1, <1>3, ChainIs DEF Tiled

\* A block that is split is in use and is followed by a free one.
LEMMA SplitIs ==
  ASSUME NEW s, Tiled(s), NEW d \in Chain(s), NEW size \in Nat, s.hdr[d].size >= size + METADATA_SIZE,
         NEW t, t = Split(s, d, size), NEW rest, rest = d + size + METADATA_SIZE
  PROVE  /\ Rewritten(s, t) /\ Tiled(t) /\ rest \notin Chain(s) /\ Chain(t) = Chain(s) \cup {rest}
         /\ t.hdr[d].size = size /\ ~t.hdr[d].is_free /\ t.hdr[rest].is_free
         /\ NextMetadata(t, d) = rest /\ NextMetadata(t, rest) = NextMetadata(s, d)
         /\ \A x \in Chain(s) : x # d => t.hdr[x] = s.hdr[x] /\ NextMetadata(t, x) = NextMetadata(s, x)
<1> DEFINE H == s.hdr
           R == [size |-> H[d].size - size - METADATA_SIZE, is_free |-> TRUE]
           D == [size |-> size, is_free |-> FALSE]
           G == [x \in DOMAIN H \cup {rest} |-> IF x = rest THEN R ELSE IF x = d THEN D ELSE H[x]]
<1>1. /\ d \in Nat /\ d \in DOMAIN H /\ H[d].size \in Nat /\ NextMetadata(s, d) = d + 5 + H[d].size
      /\ NextMetadata(s, d) \in Nat /\ NextMetadata(s, d) <= s.limit /\ s.limit \in Nat
      /\ s.base <= d /\ s.base \in Nat
      /\ \A e \in Chain(s) : e \in Nat /\ (d < e => NextMetadata(s, d) <= e)
  BY HeaderIs
<1>2. /\ rest \in Nat /\ d < rest /\ rest + 5 <= NextMetadata(s, d) /\ rest <= s.limit
      /\ H[d].size - size - METADATA_SIZE \in Nat
      /\ NextMetadata(s, d) = rest + 5 + (H[d].size - size - METADATA_SIZE)
  <2>1. \A h \in Nat : h >= size + 5 => /\ h - size - 5 \in Nat
                                        /\ d + 5 + h = (d + size + 5) + 5 + (h - size - 5)
                                        /\ (d + size + 5) + 5 <= d + 5 + h
    BY <1>1
  <2>2. rest \in Nat /\ d < rest
    BY <1>1 DEF METADATA_SIZE
  <2> HIDE DEF H
  <2> QED
    BY <1>1, <2>1, <2>2 DEF METADATA_SIZE, H
<1>3. rest \notin Chain(s)
  <2> SUFFICES ASSUME rest \in Chain(s)
               PROVE  FALSE
    OBVIOUS
  <2>1. NextMetadata(s, d) <= rest
    BY <1>1, <1>2
  <2> QED
    BY <1>1, <1>2, <2>1
<1>4. /\ InSegment(s) /\ s \in Segments /\ H \in Maps /\ H = [x \in DOMAIN H |-> H[x]]
      /\ DOMAIN H \subseteq Nat /\ DOMAIN H \subseteq s.base..s.limit
      /\ \A x \in DOMAIN H : H[x] \in Metadata
  BY MapsAre DEF Tiled, InSegment, Segments
<1>5. D \in Metadata /\ R \in Metadata
  BY <1>2 DEF Metadata
<1>6. t = [s EXCEPT !.hdr = G]
  <2> DEFINE hdr(x) == CASE x = rest -> R
                         [] x = d    -> D
                         [] OTHER    -> H[x]
             F == [x \in DOMAIN H \cup {rest} |-> hdr(x)]
  <2>1. t = [s EXCEPT !.hdr = F]
    BY DEF Split
  <2>2. \A x : hdr(x) = IF x = rest THEN R ELSE IF x = d THEN D ELSE H[x]
    <3>1. rest # d
      BY <1>1, <1>2
    <3> HIDE DEF R, D, H
    <3> QED
      BY <3>1
  <2>3. F = G
    <3> HIDE DEF hdr, R, D, H
    <3> QED
      BY <2>2
  <2> HIDE DEF F, G
  <2> QED
    BY <2>1, <2>3
<1>7. DOMAIN G = DOMAIN H \cup {rest} /\ G[rest] = R /\ G[d] = D
      /\ \A x \in DOMAIN H : x # d /\ x # rest => G[x] = H[x]
  <2>1. d \in DOMAIN H /\ d # rest
    BY <1>1, <1>2
  <2> HIDE DEF D, R, H
  <2> QED
    BY <2>1
<1>8. G \in Maps
  <2>1. \A x \in DOMAIN G : G[x] \in Metadata
    <3> HIDE DEF D, R, H, G
    <3> QED
      BY <1>4, <1>5, <1>7
  <2>2. DOMAIN G \subseteq Nat /\ G = [x \in DOMAIN G |-> G[x]]
    <3> HIDE DEF D, R, H
    <3> QED
      BY <1>2, <1>4, <1>7
  <2> HIDE DEF G
  <2> QED
    BY <2>1, <2>2, MapsAre
<1>9. Rewritten(s, t) /\ t.hdr = G
  <2> HIDE DEF G
  <2> QED
    BY <1>4, <1>6, <1>8, RewrittenIs
<1>10. /\ D.size = size /\ ~D.is_free /\ R.is_free /\ R.size = H[d].size - size - METADATA_SIZE
  <2>1. \A a, b : [size |-> a, is_free |-> b].size = a /\ [size |-> a, is_free |-> b].is_free = b
    OBVIOUS
  <2> QED
    BY <2>1
<1> HIDE DEF G, D, R
<1>11. InSegment(t)
  <2>1. rest \in s.base..s.limit
    BY <1>1, <1>2
  <2> QED
    BY <1>4, <1>7, <1>9, <2>1 DEF InSegment, Rewritten
<1>12. NextMetadata(t, d) = rest /\ NextMetadata(t, rest) = NextMetadata(s, d)
  <2>1. NextMetadata(t, d) = d + METADATA_SIZE + size
    BY <1>7, <1>9, <1>10 DEF NextMetadata
  <2>2. NextMetadata(t, rest) = rest + METADATA_SIZE + (H[d].size - size - METADATA_SIZE)
    BY <1>7, <1>9, <1>10 DEF NextMetadata
  <2>3. d + METADATA_SIZE + size = rest
    BY <1>1 DEF METADATA_SIZE
  <2>4. METADATA_SIZE = 5
    BY DEF METADATA_SIZE
  <2> QED
    BY <1>2, <2>1, <2>2, <2>3, <2>4
<1>13. \A x \in Chain(s) : x # d => t.hdr[x] = s.hdr[x] /\ NextMetadata(t, x) = NextMetadata(s, x)
  <2>1. \A x \in Chain(s) : x \in DOMAIN H /\ x # rest
    BY <1>3, HeaderIs
  <2>2. \A x \in Chain(s) : x # d => t.hdr[x] = s.hdr[x]
    BY <1>7, <1>9, <2>1
  <2> QED
    BY <2>2 DEF NextMetadata
<1>14. Tiling(t, Chain(s) \cup {rest})
  <2> DEFINE C == Chain(s) \cup {rest}
  <2>0. t.base = s.base /\ t.limit = s.limit
    BY <1>9 DEF Rewritten
  <2>1. t.base \in C /\ C \subseteq DOMAIN t.hdr
    BY <1>7, <1>9, <2>0 DEF Tiled, Tiling
  <2>2. ASSUME NEW x \in C
        PROVE  \/ NextMetadata(t, x) = s.limit
               \/ NextMetadata(t, x) < s.limit /\ NextMetadata(t, x) \in C
    <3>1. \A y \in Chain(s) : NextMetadata(s, y) = s.limit
                              \/ (NextMetadata(s, y) < s.limit /\ NextMetadata(s, y) \in Chain(s))
      BY DEF Tiled, Tiling
    <3>2. CASE x = rest
      BY <1>12, <3>1, <3>2
    <3>3. CASE x = d
      <4>1. rest < s.limit
        BY <1>1, <1>2
      <4> QED
        BY <1>12, <3>3, <4>1
    <3>4. CASE x # rest /\ x # d
      BY <1>13, <3>1, <3>4
    <3> QED
      BY <3>2, <3>3, <3>4
  <2>3. ASSUME NEW x \in C, NEW y \in C, x < y
        PROVE  NextMetadata(t, x) <= y
    <3>1. \A u, v \in Chain(s) : u < v => NextMetadata(s, u) <= v
      BY DEF Tiled, Tiling
    <3>2. CASE x = rest
      <4>1. y \in Chain(s) /\ y \in Nat
        BY <1>1, <1>2, <2>3, <3>2
      <4>2. d < y
        BY <1>1, <1>2, <2>3, <3>2, <4>1
      <4> QED
        BY <1>1, <1>12, <3>2, <4>1, <4>2
    <3>3. CASE x = d
      <4>1. CASE y = rest
        BY <1>2, <1>12, <3>3, <4>1
      <4>2. CASE y # rest
        <5>1. y \in Chain(s) /\ y \in Nat /\ NextMetadata(s, d) <= y
          BY <1>1, <2>3, <3>3, <4>2
        <5> QED
          BY <1>1, <1>2, <1>12, <3>3, <5>1
      <4> QED
        BY <4>1, <4>2
    <3>4. CASE x # rest /\ x # d
      <4>1. x \in Chain(s) /\ x \in Nat /\ NextMetadata(t, x) = NextMetadata(s, x)
        BY <1>1, <1>13, <3>4
      <4>2. CASE y = rest
        <5>1. ~(d < x)
          <6> SUFFICES ASSUME d < x
                       PROVE  FALSE
            OBVIOUS
          <6>1. NextMetadata(s, d) <= x
            BY <1>1, <4>1
          <6> QED
            BY <1>1, <1>2, <2>3, <4>1, <4>2, <6>1
        <5>2. x < d
          BY <1>1, <3>4, <4>1, <5>1
        <5>3. NextMetadata(s, x) <= d /\ NextMetadata(s, x) \in Nat
          BY <4>1, <5>2, HeaderIs
        <5> QED
          BY <1>1, <1>2, <4>1, <4>2, <5>3
      <4>3. CASE y # rest
        BY <2>3, <3>1, <4>1, <4>3
      <4> QED
        BY <4>2, <4>3
    <3> QED
      BY <3>2, <3>3, <3>4
  <2> HIDE DEF C
  <2>4. Tiling(t, C)
    BY <2>0, <2>1, <2>2, <2>3 DEF Tiling
  <2> QED
    BY <2>4 DEF C
<1>15. Chain(t) = Chain(s) \cup {rest}
  BY <1>11, <1>14, ChainIs
<1>16. t.hdr[d].size = size /\ ~t.hdr[d].is_free /\ t.hdr[rest].is_free
  BY <1>7, <1>9, <1>10
<1> QED
  BY <1>3, <1>9, <1>11, <1>12, <1>13, <1>14, <1>15, <1>16 DEF Tiled

\* The header at d becomes free with size z, and the segment m longer.
Grown(s, d, z, m) == [s EXCEPT !.hdr[d] = [size |-> z, is_free |-> TRUE], !.limit = @ + m]

LEMMA GrownIs ==
  ASSUME NEW s, InSegment(s), NEW d \in DOMAIN s.hdr, NEW z \in Nat, NEW m \in Nat,
         NEW t, t = Grown(s, d, z, m)
  PROVE  /\ InSegment(t) /\ t.is_heap = s.is_heap /\ t.base = s.base /\ t.limit = s.limit + m
         /\ DOMAIN t.hdr = DOMAIN s.hdr /\ t.hdr[d].size = z /\ t.hdr[d].is_free
         /\ \A x \in DOMAIN s.hdr : x # d => t.hdr[x] = s.hdr[x] /\ NextMetadata(t, x) = NextMetadata(s, x)
<1> DEFINE H == s.hdr
           E == [size |-> z, is_free |-> TRUE]
           G == [H EXCEPT ![d] = E]
           u == [is_heap |-> s.is_heap, base |-> s.base, limit |-> s.limit + m, hdr |-> G]
<1>1. /\ s \in Segments /\ H \in Maps /\ H = [x \in DOMAIN H |-> H[x]] /\ DOMAIN H \subseteq Nat
      /\ \A x \in DOMAIN H : H[x] \in Metadata
      /\ s.is_heap \in BOOLEAN /\ s.base \in Nat /\ s.limit \in Nat
      /\ s.base <= s.limit /\ DOMAIN H \subseteq s.base..s.limit
  BY MapsAre DEF InSegment, Segments
<1>2. E \in Metadata /\ E.size = z /\ E.is_free
  BY DEF Metadata
<1>3. t = u
  <2>1. s = [is_heap |-> s.is_heap, base |-> s.base, limit |-> s.limit, hdr |-> H]
    BY <1>1 DEF Segments
  <2> HIDE DEF G
  <2>2. t = [[s EXCEPT !.hdr = G] EXCEPT !.limit = s.limit + m]
    BY <1>1 DEF Grown, G, E, Segments
  <2> HIDE DEF H
  <2>3. [[s EXCEPT !.hdr = G] EXCEPT !.limit = s.limit + m] = u
    <3> DEFINE a == [[s EXCEPT !.hdr = G] EXCEPT !.limit = s.limit + m]
               F == {"is_heap", "base", "limit", "hdr"}
    <3>1. a = [f \in F |-> a[f]]
      BY <2>1
    <3>2. u = [f \in F |-> u[f]]
      OBVIOUS
    <3>3. /\ a["is_heap"] = u["is_heap"] /\ a["base"] = u["base"]
          /\ a["limit"] = u["limit"] /\ a["hdr"] = u["hdr"]
      BY <2>1
    <3> HIDE DEF a, u
    <3>4. \A f \in F : a[f] = u[f]
      BY <3>3
    <3>5. a = u
      BY <3>1, <3>2, <3>4
    <3> QED
      BY <3>5 DEF a
  <2> QED
    BY <2>2, <2>3
<1>4. DOMAIN G = DOMAIN H /\ G[d] = E /\ \A x \in DOMAIN H : x # d => G[x] = H[x]
  <2> HIDE DEF E, H
  <2>1. d \in DOMAIN H
    BY DEF H
  <2> QED
    BY <1>1, <2>1
<1>5. G \in Maps
  <2> HIDE DEF E, H
  <2>1. \A x \in DOMAIN G : G[x] \in Metadata
    BY <1>1, <1>2, <1>4
  <2>2. DOMAIN G \subseteq Nat /\ G = [x \in DOMAIN G |-> G[x]]
    BY <1>1, <1>4
  <2> HIDE DEF G
  <2> QED
    BY <2>1, <2>2, MapsAre
<1>6. t.is_heap = s.is_heap /\ t.base = s.base /\ t.limit = s.limit + m /\ t.hdr = G
  <2> HIDE DEF G
  <2> QED
    BY <1>3
<1>7. u \in Segments
  <2> HIDE DEF G
  <2> QED
    BY <1>1, <1>5 DEF Segments
<1> HIDE DEF G, E, u
<1>8. InSegment(t)
  <2>1. t \in Segments
    BY <1>3, <1>7
  <2>2. t.base <= t.limit /\ \A x \in DOMAIN H : x \in t.base..t.limit
    <3>1. \A x \in DOMAIN H : x \in Nat /\ x \in s.base..s.limit
      BY <1>1
    <3>2. t.base = s.base /\ t.limit = s.limit + m
      BY <1>6
    <3> HIDE DEF H
    <3> QED
      BY <1>1, <3>1, <3>2
  <2> QED
    BY <1>4, <1>6, <2>1, <2>2 DEF InSegment
<1>9. \A x \in DOMAIN H : x # d => t.hdr[x] = H[x] /\ NextMetadata(t, x) = NextMetadata(s, x)
  BY <1>4, <1>6 DEF NextMetadata
<1> QED
  BY <1>2, <1>4, <1>6, <1>8, <1>9

\* When the last block gets as much longer as its segment, the blocks still tile it.
LEMMA GrownTiled ==
  ASSUME NEW s, Tiled(s), NEW d, d = ultima_metadata_segmento(s), NEW z \in Nat, NEW m \in Nat,
         z = s.hdr[d].size + m, NEW t, t = Grown(s, d, z, m)
  PROVE  Tiled(t) /\ Chain(t) = Chain(s) /\ NextMetadata(t, d) = t.limit
<1>1. /\ d \in Chain(s) /\ NextMetadata(s, d) = s.limit
      /\ \A x \in Chain(s) : x <= d /\ (NextMetadata(s, x) = s.limit <=> x = d)
  BY LastIs
<1>2. d \in Nat /\ s.hdr[d].size \in Nat /\ d \in DOMAIN s.hdr /\ s.limit \in Nat
      /\ s.limit = d + 5 + s.hdr[d].size /\ d < s.limit
  BY <1>1, HeaderIs
<1>3. /\ InSegment(t) /\ t.base = s.base /\ t.limit = s.limit + m
      /\ DOMAIN t.hdr = DOMAIN s.hdr /\ t.hdr[d].size = z
      /\ \A x \in DOMAIN s.hdr : x # d => NextMetadata(t, x) = NextMetadata(s, x)
  <2>1. InSegment(s)
    BY DEF Tiled
  <2>2. d \in DOMAIN s.hdr
    BY <1>2
  <2>3. /\ InSegment(t) /\ t.base = s.base /\ t.limit = s.limit + m
        /\ DOMAIN t.hdr = DOMAIN s.hdr /\ t.hdr[d].size = z
        /\ \A x \in DOMAIN s.hdr : x # d => t.hdr[x] = s.hdr[x] /\ NextMetadata(t, x) = NextMetadata(s, x)
    BY <2>1, <2>2, GrownIs
  <2> QED
    BY <2>3
<1>4. NextMetadata(t, d) = t.limit
  <2>1. NextMetadata(t, d) = d + 5 + z
    BY <1>3 DEF NextMetadata, METADATA_SIZE
  <2> QED
    BY <1>2, <1>3, <2>1
<1>5. ASSUME NEW x \in Chain(s), x # d
      PROVE  /\ NextMetadata(t, x) = NextMetadata(s, x) /\ NextMetadata(s, x) \in Chain(s)
             /\ NextMetadata(t, x) < t.limit
  <2>1. x \in DOMAIN s.hdr /\ NextMetadata(s, x) # s.limit /\ NextMetadata(s, x) <= s.limit
        /\ NextMetadata(s, x) \in Nat /\ NextMetadata(s, x) \in Chain(s)
    BY <1>1, <1>5, HeaderIs
  <2>2. NextMetadata(s, x) < t.limit
    BY <1>2, <1>3, <2>1
  <2> QED
    BY <1>3, <1>5, <2>1, <2>2
<1>6. ASSUME NEW x \in Chain(s), NEW y \in Chain(s), x < y
      PROVE  NextMetadata(t, x) <= y
  <2>1. x # d
    <3>1. y <= d /\ x \in Nat /\ y \in Nat
      BY <1>1, HeaderIs
    <3> QED
      BY <1>6, <3>1
  <2> QED
    BY <1>5, <1>6, <2>1, HeaderIs
<1>7. Tiling(t, Chain(s))
  <2>1. s.base \in Chain(s) /\ Chain(s) \subseteq DOMAIN s.hdr
    BY DEF Tiled, Tiling
  <2> QED
    BY <1>3, <1>4, <1>5, <1>6, <2>1 DEF Tiling
<1> QED
  BY <1>3, <1>4, <1>7, ChainIs DEF Tiled

LEMMA SegmentIs ==
  ASSUME NEW a \in BOOLEAN, NEW b \in Nat, NEW c \in Nat, NEW h \in Maps
  PROVE  [is_heap |-> a, base |-> b, limit |-> c, hdr |-> h] \in Segments
BY DEF Segments

\* A new segment is one free block.
LEMMA NewIs ==
  ASSUME NEW n \in Nat, 5 <= n, NEW s,
         s = [is_heap |-> TRUE, base |-> 0, limit |-> n,
              hdr |-> [d \in {0} |-> [size |-> n - METADATA_SIZE, is_free |-> TRUE]]]
  PROVE  /\ Tiled(s) /\ s.is_heap /\ s.base = 0 /\ s.limit = n /\ Chain(s) = {0}
         /\ s.hdr[0].is_free /\ NextMetadata(s, 0) = n
<1> DEFINE E == [size |-> n - METADATA_SIZE, is_free |-> TRUE]
           H == [d \in {0} |-> E]
<1>1. E \in Metadata /\ E.size = n - 5 /\ E.is_free
  BY DEF Metadata, METADATA_SIZE
<1> HIDE DEF E
<1>2. DOMAIN H = {0} /\ H[0] = E /\ H \in Maps
  <2>1. H \in [{0} -> Metadata] /\ {0} \in SUBSET Nat
    BY <1>1
  <2> QED
    BY <2>1 DEF Maps
<1>3. s = [is_heap |-> TRUE, base |-> 0, limit |-> n, hdr |-> H]
  BY DEF E
<1> HIDE DEF H
<1>4. s \in Segments /\ s.is_heap /\ s.base = 0 /\ s.limit = n /\ s.hdr = H
  <2>1. \A a, b, c, h : LET r == [is_heap |-> a, base |-> b, limit |-> c, hdr |-> h] IN
          r.is_heap = a /\ r.base = b /\ r.limit = c /\ r.hdr = h
    OBVIOUS
  <2>2. s.is_heap = TRUE /\ s.base = 0 /\ s.limit = n /\ s.hdr = H
    BY <1>3, <2>1
  <2>3. s \in Segments
    <3> DEFINE u == [is_heap |-> TRUE, base |-> 0, limit |-> n, hdr |-> H]
    <3>1. u \in Segments
      <4>1. TRUE \in BOOLEAN /\ 0 \in Nat /\ H \in Maps
        BY <1>2
      <4> QED
        BY <4>1, SegmentIs
    <3>2. s = u
      BY <1>3
    <3> HIDE DEF u
    <3> QED
      BY <3>1, <3>2
  <2> QED
    BY <2>2, <2>3
<1>5. InSegment(s)
  BY <1>2, <1>4 DEF InSegment
<1>6. NextMetadata(s, 0) = n
  <2>1. NextMetadata(s, 0) = 0 + 5 + (n - 5)
    BY <1>1, <1>2, <1>4 DEF NextMetadata, METADATA_SIZE
  <2> QED
    BY <2>1
<1>7. Tiling(s, {0})
  BY <1>2, <1>4, <1>6 DEF Tiling
<1>8. Chain(s) = {0}
  BY <1>5, <1>7, ChainIs
<1> QED
  BY <1>1, <1>2, <1>4, <1>5, <1>6, <1>7, <1>8 DEF Tiled

(***************************************************************************)
(* The blocks a client holds.                                              *)
(***************************************************************************)
Block == [addr : Nat, size : Nat]

\* A sequence without its element j.
LEMMA RemovedIs ==
  ASSUME NEW S, NEW a \in Seq(S), NEW j \in DOMAIN a
  PROVE  /\ RemoveAt(a, j) \in Seq(S) /\ Len(RemoveAt(a, j)) = Len(a) - 1
         /\ \A i \in 1..(Len(a) - 1) : RemoveAt(a, j)[i] = a[IF i < j THEN i ELSE i + 1]
<1> DEFINE l == SubSeq(a, 1, j - 1)
           r == SubSeq(a, j + 1, Len(a))
           b == l \o r
           n == Len(a)
<1>1. n \in Nat /\ DOMAIN a = 1..n /\ j \in 1..n /\ \A i \in 1..n : a[i] \in S
  OBVIOUS
<1>2. RemoveAt(a, j) = b
  BY DEF RemoveAt
<1>3. /\ l \in Seq(S) /\ Len(l) = j - 1 /\ \A i \in 1..(j - 1) : l[i] = a[i]
  <2>1. /\ l \in Seq(S) /\ Len(l) = IF 1 <= j - 1 THEN (j - 1) - 1 + 1 ELSE 0
        /\ \A i \in 1..((j - 1) - 1 + 1) : l[i] = a[1 + i - 1]
    <3>1. 1 \in Int /\ j - 1 \in Int /\ \A i \in 1..(j - 1) : a[i] \in S
      BY <1>1
    <3> QED
      BY <3>1, SubSeqProperties
  <2> HIDE DEF l
  <2> QED
    BY <1>1, <2>1
<1>4. /\ r \in Seq(S) /\ Len(r) = n - j /\ \A i \in 1..(n - j) : r[i] = a[j + i]
  <2>1. /\ r \in Seq(S) /\ Len(r) = IF j + 1 <= n THEN n - (j + 1) + 1 ELSE 0
        /\ \A i \in 1..(n - (j + 1) + 1) : r[i] = a[(j + 1) + i - 1]
    <3>1. j + 1 \in Int /\ n \in Int /\ \A i \in (j + 1)..n : a[i] \in S
      BY <1>1
    <3> QED
      BY <3>1, SubSeqProperties
  <2> HIDE DEF r, n
  <2>2. n - (j + 1) + 1 = n - j /\ (j + 1 <= n \/ n - j = 0)
    BY <1>1
  <2>3. Len(r) = n - j
    BY <1>1, <2>1, <2>2
  <2>4. \A i \in 1..(n - j) : (j + 1) + i - 1 = j + i
    BY <1>1
  <2> QED
    BY <2>1, <2>2, <2>3, <2>4
<1> HIDE DEF l, r, n
<1>5. /\ b \in Seq(S) /\ Len(b) = n - 1
      /\ \A i \in 1..(n - 1) : b[i] = IF i <= j - 1 THEN l[i] ELSE r[i - (j - 1)]
  <2>1. /\ b \in Seq(S) /\ Len(b) = Len(l) + Len(r)
        /\ \A i \in 1..(Len(l) + Len(r)) : b[i] = IF i <= Len(l) THEN l[i] ELSE r[i - Len(l)]
    BY <1>3, <1>4, ConcatProperties
  <2>2. Len(l) + Len(r) = n - 1
    BY <1>1, <1>3, <1>4
  <2> QED
    BY <1>3, <2>1, <2>2
<1> HIDE DEF b
<1>7. ASSUME NEW i \in 1..(n - 1)
      PROVE  b[i] = a[IF i < j THEN i ELSE i + 1]
  <2>1. CASE i <= j - 1
    <3>1. i \in 1..(j - 1) /\ i \in DOMAIN a
      BY <1>1, <2>1
    <3> QED
      BY <1>1, <1>3, <1>5, <2>1, <3>1
  <2>2. CASE ~(i <= j - 1)
    <3>1. i - (j - 1) \in 1..(n - j) /\ j + (i - (j - 1)) = i + 1 /\ i + 1 \in DOMAIN a
      BY <1>1, <2>2
    <3>2. b[i] = r[i - (j - 1)] /\ r[i - (j - 1)] = a[i + 1]
      BY <1>4, <1>5, <2>2, <3>1
    <3>3. ~(i < j)
      BY <1>1, <2>2
    <3> QED
      BY <3>2, <3>3
  <2> QED
    BY <2>1, <2>2
<1> QED
  BY <1>2, <1>5, <1>7 DEF n

SumOf(g, l) ==
  /\ g[0] = 0
  /\ \A k \in 1..Len(l) : g[k] = g[k - 1] + l[k].size
  /\ \A k \in 0..Len(l) : g[k] \in Nat

\* The bytes of the blocks add up from the first to the last.
LEMMA HeldIs ==
  ASSUME NEW l \in Seq(Block)
  PROVE  \E g : SumOf(g, l) /\ Held(l) = g[Len(l)]
<1> DEFINE n == Len(l)
           IsSum(g, k) == g = [i \in 0..k |-> IF i = 0 THEN 0 ELSE g[i - 1] + l[i].size]
           S == {k \in Nat : \E g : IsSum(g, k)}
<1>0. n \in Nat /\ \A i \in 1..n : l[i] \in Block /\ l[i].size \in Nat
  <2>1. n \in Nat /\ \A i \in 1..n : l[i] \in Block
    OBVIOUS
  <2> QED
    BY <2>1 DEF Block
<1>1. 0 \in S
  <2> DEFINE g == [k \in 0..0 |-> 0]
  <2>1. \A k \in 0..0 : k = 0
    OBVIOUS
  <2>2. IsSum(g, 0)
    BY <2>1
  <2> QED
    BY <2>2
<1>2. ASSUME NEW k \in 1..n, k - 1 \in S
      PROVE  k \in S
  <2>1. PICK f : IsSum(f, k - 1)
    BY <1>2
  <2> DEFINE next(h, i) == IF i = 0 THEN 0 ELSE h[i - 1] + l[i].size
             g == [i \in 0..k |-> next(f, i)]
  <2>2. \A i \in 0..(k - 1) : f[i] = next(f, i)
    BY <2>1
  <2>3. \A i \in 0..(k - 1) : g[i] = f[i]
    <3>1. \A i \in 0..(k - 1) : i \in 0..k
      OBVIOUS
    <3> HIDE DEF next
    <3> QED
      BY <2>2, <3>1
  <2>4. \A i \in 0..k : next(g, i) = next(f, i)
    <3>1. \A i \in 0..k : i # 0 => i - 1 \in 0..(k - 1)
      OBVIOUS
    <3> HIDE DEF g
    <3> QED
      BY <2>3, <3>1
  <2>5. g = [i \in 0..k |-> next(g, i)]
    <3> DEFINE h == [i \in 0..k |-> next(g, i)]
    <3>1. \A i \in 0..k : h[i] = next(g, i) /\ g[i] = next(f, i)
      <4> HIDE DEF next
      <4> QED
        OBVIOUS
    <3> HIDE DEF next
    <3>2. \A i \in 0..k : g[i] = h[i]
      BY <2>4, <3>1
    <3> QED
      BY <3>2
  <2> HIDE DEF g
  <2>6. IsSum(g, k)
    BY <2>5
  <2> QED
    BY <1>0, <2>6
<1>3. n \in S
  <2> HIDE DEF S, n
  <2> QED
    BY <1>0, <1>1, <1>2, UpTo
<1> DEFINE sum == CHOOSE g : IsSum(g, n)
<1>4. IsSum(sum, n)
  BY <1>3
<1>5. Held(l) = sum[n]
  BY DEF Held
<1> HIDE DEF sum
<1>6. \A k \in 0..n : sum[k] = IF k = 0 THEN 0 ELSE sum[k - 1] + l[k].size
  BY <1>4
<1> HIDE DEF IsSum
<1>7. sum[0] = 0 /\ \A k \in 1..n : sum[k] = sum[k - 1] + l[k].size
  <2>1. 0 \in 0..n /\ \A k \in 1..n : k \in 0..n /\ k # 0
    BY <1>0
  <2> HIDE DEF n
  <2> QED
    BY <1>6, <2>1
<1>8. ASSUME NEW k \in 0..n
      PROVE  sum[k] \in Nat
  <2> DEFINE T == {i \in 0..n : sum[i] \in Nat}
  <2>1. 0 \in T
    BY <1>0, <1>7
  <2>2. \A i \in 1..k : i - 1 \in T => i \in T
    <3> SUFFICES ASSUME NEW i \in 1..k, sum[i - 1] \in Nat
                 PROVE  i \in T
      OBVIOUS
    <3>1. i \in 1..n /\ i \in 0..n
      BY <1>0
    <3>2. sum[i] = sum[i - 1] + l[i].size /\ l[i].size \in Nat
      BY <1>0, <1>7, <3>1
    <3> QED
      BY <3>1, <3>2
  <2> HIDE DEF T
  <2>3. k \in T
    BY <2>1, <2>2, UpTo
  <2> QED
    BY <2>3 DEF T
<1>9. SumOf(sum, l)
  BY <1>7, <1>8 DEF SumOf
<1> QED
  BY <1>5, <1>9

LEMMA HeldNothing == Held(<<>>) = 0
<1>1. <<>> \in Seq(Block) /\ Len(<<>>) = 0
  OBVIOUS
<1> QED
  BY <1>1, HeldIs DEF SumOf

LEMMA HeldMore ==
  ASSUME NEW l \in Seq(Block), NEW b \in Block
  PROVE  Held(Append(l, b)) = Held(l) + b.size /\ Held(l) \in Nat
<1> DEFINE n == Len(l)
           m == Append(l, b)
<1>1. /\ n \in Nat /\ m \in Seq(Block) /\ Len(m) = n + 1 /\ m[n + 1] = b
      /\ \A i \in 1..n : m[i] = l[i]
  OBVIOUS
<1>2. PICK g : SumOf(g, l) /\ Held(l) = g[n]
  BY HeldIs
<1> HIDE DEF m
<1>3. PICK h : SumOf(h, m) /\ Held(m) = h[n + 1]
  BY <1>1, HeldIs
<1> HIDE DEF n
<1> DEFINE S == {k \in 0..n : h[k] = g[k]}
<1>4. 0 \in S
  BY <1>1, <1>2, <1>3 DEF SumOf
<1>5. ASSUME NEW k \in 1..n, k - 1 \in S
      PROVE  k \in S
  <2>1. k \in 1..(n + 1) /\ k \in 0..n
    BY <1>1
  <2>2. h[k] = h[k - 1] + m[k].size /\ g[k] = g[k - 1] + l[k].size
    BY <1>1, <1>2, <1>3, <2>1 DEF SumOf, n
  <2> QED
    BY <1>1, <1>5, <2>1, <2>2
<1>6. h[n] = g[n]
  <2> HIDE DEF S
  <2>1. n \in S
    BY <1>1, <1>4, <1>5, UpTo
  <2> QED
    BY <2>1 DEF S
<1>7. h[n + 1] = h[n] + b.size
  <2>1. n + 1 \in 1..(n + 1) /\ (n + 1) - 1 = n
    BY <1>1
  <2>2. h[n + 1] = h[(n + 1) - 1] + m[n + 1].size
    BY <1>1, <1>3, <2>1 DEF SumOf
  <2> QED
    BY <1>1, <2>1, <2>2
<1>8. g[n] \in Nat
  <2>1. n \in 0..n
    BY <1>1
  <2> QED
    BY <1>2, <2>1 DEF SumOf, n
<1> QED
  BY <1>2, <1>3, <1>6, <1>7, <1>8 DEF m

LEMMA HeldLess ==
  ASSUME NEW l \in Seq(Block), NEW j \in DOMAIN l
  PROVE  Held(RemoveAt(l, j)) = Held(l) - l[j].size /\ Held(l) \in Nat /\ l[j].size \in Nat
<1> DEFINE n == Len(l)
           m == RemoveAt(l, j)
<1>1. n \in Nat /\ j \in 1..n /\ \A i \in 1..n : l[i] \in Block /\ l[i].size \in Nat
  <2>1. n \in Nat /\ j \in 1..n /\ \A i \in 1..n : l[i] \in Block
    OBVIOUS
  <2> QED
    BY <2>1 DEF Block
<1>2. m \in Seq(Block) /\ Len(m) = n - 1 /\ \A i \in 1..(n - 1) : m[i] = l[IF i < j THEN i ELSE i + 1]
  BY RemovedIs
<1>3. PICK g : SumOf(g, l) /\ Held(l) = g[n]
  BY HeldIs
<1> HIDE DEF m
<1>4. PICK h : SumOf(h, m) /\ Held(m) = h[n - 1]
  BY <1>2, HeldIs
<1> HIDE DEF n
<1>5. /\ g[0] = 0 /\ h[0] = 0
      /\ \A k \in 1..n : g[k] = g[k - 1] + l[k].size
      /\ \A k \in 0..n : g[k] \in Nat
      /\ \A k \in 1..(n - 1) : h[k] = h[k - 1] + m[k].size
  BY <1>2, <1>3, <1>4 DEF SumOf, n
<1> DEFINE S == {k \in 0..(n - 1) : h[k] = IF k < j THEN g[k] ELSE g[k + 1] - l[j].size}
<1>6. 0 \in S
  BY <1>1, <1>5
<1>7. ASSUME NEW k \in 1..(n - 1), k - 1 \in S
      PROVE  k \in S
  <2>1. /\ k \in 1..n /\ k + 1 \in 1..n /\ k \in 0..n /\ k - 1 \in 0..n /\ k + 1 \in 0..n
        /\ k \in 0..(n - 1)
    BY <1>1
  <2>2. /\ h[k] = h[k - 1] + l[IF k < j THEN k ELSE k + 1].size
        /\ g[k] = g[k - 1] + l[k].size /\ g[k + 1] = g[(k + 1) - 1] + l[k + 1].size
        /\ g[k] \in Nat /\ g[k - 1] \in Nat /\ g[k + 1] \in Nat
        /\ l[k].size \in Nat /\ l[k + 1].size \in Nat /\ l[j].size \in Nat
    <3>1. h[k] = h[k - 1] + m[k].size /\ m[k] = l[IF k < j THEN k ELSE k + 1]
      BY <1>2, <1>5
    <3> QED
      BY <1>1, <1>5, <2>1, <3>1
  <2>3. h[k - 1] = IF k - 1 < j THEN g[k - 1] ELSE g[(k - 1) + 1] - l[j].size
    BY <1>7
  <2>4. (k + 1) - 1 = k /\ (k - 1) + 1 = k /\ k \in Nat /\ j \in Nat
    BY <1>1
  <2>5. CASE k < j
    BY <2>1, <2>2, <2>3, <2>4, <2>5
  <2>6. CASE k = j
    <3>1. h[k] = g[k - 1] + l[k + 1].size
      BY <2>2, <2>3, <2>4, <2>6
    <3>2. g[k + 1] - l[j].size = g[k - 1] + l[k + 1].size
      BY <2>2, <2>4, <2>6
    <3>3. ~(k < j)
      BY <2>4, <2>6
    <3> QED
      BY <2>1, <3>1, <3>2, <3>3
  <2>7. CASE k > j
    <3>1. h[k - 1] = g[k] - l[j].size /\ ~(k < j)
      BY <2>3, <2>4, <2>7
    <3>2. h[k] = h[k - 1] + l[k + 1].size
      BY <2>2, <3>1
    <3>3. g[k + 1] = g[k] + l[k + 1].size
      BY <2>2, <2>4
    <3>4. h[k] = g[k + 1] - l[j].size
      BY <2>2, <3>1, <3>2, <3>3
    <3> QED
      BY <2>1, <3>1, <3>4
  <2> QED
    BY <2>4, <2>5, <2>6, <2>7
<1>8. h[n - 1] = g[n] - l[j].size
  <2> HIDE DEF S
  <2>1. n - 1 \in Nat
    BY <1>1
  <2>2. n - 1 \in S
    BY <1>6, <1>7, <2>1, UpTo
  <2>3. h[n - 1] = IF n - 1 < j THEN g[n - 1] ELSE g[(n - 1) + 1] - l[j].size
    BY <2>2 DEF S
  <2>4. CASE n - 1 < j
    <3>1. j = n /\ n \in 1..n /\ n - 1 \in 0..n
      BY <1>1, <2>4
    <3>2. g[n] = g[n - 1] + l[n].size /\ g[n - 1] \in Nat /\ l[n].size \in Nat
      BY <1>1, <1>5, <3>1
    <3> QED
      BY <2>3, <2>4, <3>1, <3>2
  <2>5. CASE ~(n - 1 < j)
    <3>1. (n - 1) + 1 = n
      BY <1>1
    <3> QED
      BY <2>3, <2>5, <3>1
  <2> QED
    BY <2>4, <2>5
<1>9. g[n] \in Nat
  <2>1. n \in 0..n
    BY <1>1
  <2> QED
    BY <1>5, <2>1
<1> QED
  BY <1>1, <1>3, <1>4, <1>8, <1>9 DEF m

(***************************************************************************)
(* The headers in use and the blocks of the client.                        *)
(***************************************************************************)
\* Each block is behind a header in use that is long enough, no two are behind the
\* same, and each header in use has its block.
Matched(s, l) ==
  /\ \A i \in DOMAIN l : /\ MetadataOf(l[i].addr) \in Used(s)
                         /\ s.hdr[MetadataOf(l[i].addr)].size >= l[i].size
  /\ \A i, j \in DOMAIN l : l[i].addr = l[j].addr => i = j
  /\ \A d \in Used(s) : \E i \in DOMAIN l : MetadataOf(l[i].addr) = d

LEMMA BlocksAre ==
  ASSUME NEW l \in Seq(Block)
  PROVE  /\ Len(l) \in Nat /\ DOMAIN l = 1..Len(l)
         /\ \A i \in DOMAIN l : l[i] \in Block /\ l[i].addr \in Nat /\ l[i].size \in Nat
                                /\ MetadataOf(l[i].addr) = l[i].addr - 5
<1>1. Len(l) \in Nat /\ DOMAIN l = 1..Len(l) /\ \A i \in DOMAIN l : l[i] \in Block
  OBVIOUS
<1>2. \A b \in Block : b.addr \in Nat /\ b.size \in Nat
  BY DEF Block
<1> QED
  BY <1>1, <1>2 DEF MetadataOf, METADATA_SIZE

LEMMA MatchedKept ==
  ASSUME NEW s, Tiled(s), NEW t, KeepsUsed(s, t), NEW l \in Seq(Block), Matched(s, l)
  PROVE  Matched(t, l)
<1>1. Used(t) = Used(s) /\ Tiled(t) /\ \A d \in Used(s) : t.hdr[d].size >= s.hdr[d].size
  BY DEF KeepsUsed
<1>2. ASSUME NEW i \in DOMAIN l
      PROVE  t.hdr[MetadataOf(l[i].addr)].size >= l[i].size
  <2> DEFINE d == MetadataOf(l[i].addr)
  <2>1. d \in Used(s) /\ s.hdr[d].size >= l[i].size /\ t.hdr[d].size >= s.hdr[d].size
    BY <1>1 DEF Matched
  <2>2. s.hdr[d].size \in Nat /\ t.hdr[d].size \in Nat /\ l[i].size \in Nat
    <3>1. d \in Chain(s) /\ d \in Chain(t)
      BY <1>1, <2>1 DEF Used
    <3>2. l[i].size \in Nat
      BY BlocksAre
    <3> HIDE DEF d
    <3> QED
      BY <1>1, <3>1, <3>2, HeaderIs
  <2> HIDE DEF d
  <2>3. t.hdr[d].size >= l[i].size
    BY <2>1, <2>2
  <2> QED
    BY <2>3 DEF d
<1> QED
  BY <1>1, <1>2 DEF Matched

\* The block the client gives back is marked free, the others stay matched, and
\* compaction has a free block to start from that is not the last one.
LEMMA MatchedMarked ==
  ASSUME NEW s, Tiled(s), NEW l \in Seq(Block), Matched(s, l), NEW k \in DOMAIN l,
         NEW d, d = MetadataOf(l[k].addr), NEW t, t = Mark(s, d)
  PROVE  /\ d \in Used(s) /\ s.hdr[d].size >= l[k].size /\ Tiled(t)
         /\ Matched(t, RemoveAt(l, k))
         /\ HasFree(s) => EarlyFree(t) /\ CompactsSafely(t)
<1>1. d \in Used(s) /\ s.hdr[d].size >= l[k].size
  BY DEF Matched
<1>2. d \in Chain(s) /\ ~s.hdr[d].is_free /\ d \in DOMAIN s.hdr
  BY <1>1, HeaderIs DEF Used
<1>3. /\ Rewritten(s, t) /\ DOMAIN t.hdr = DOMAIN s.hdr
      /\ t.hdr[d].is_free /\ t.hdr[d].size = s.hdr[d].size
      /\ \A x \in DOMAIN s.hdr : x # d => t.hdr[x] = s.hdr[x]
      /\ \A x \in DOMAIN s.hdr : NextMetadata(t, x) = NextMetadata(s, x)
  <2>1. InSegment(s) /\ d \in DOMAIN s.hdr
    BY <1>2 DEF Tiled
  <2>2. /\ Rewritten(s, t) /\ InSegment(t) /\ DOMAIN t.hdr = DOMAIN s.hdr
        /\ t.hdr[d].is_free /\ t.hdr[d].size = s.hdr[d].size
        /\ \A x \in DOMAIN s.hdr : x # d => t.hdr[x] = s.hdr[x]
        /\ \A x \in DOMAIN s.hdr : NextMetadata(t, x) = NextMetadata(s, x)
    BY <2>1, MarkIs
  <2> QED
    BY <2>2
<1>4. Tiled(t) /\ Chain(t) = Chain(s)
  BY <1>2, MarkedTiled
<1>5. Used(t) = Used(s) \ {d}
  <2>1. \A x \in Chain(s) : x \in DOMAIN s.hdr
    BY HeaderIs
  <2> QED
    BY <1>3, <1>4, <2>1 DEF Used
<1> DEFINE m == RemoveAt(l, k)
           n == Len(l)
           o(i) == IF i < k THEN i ELSE i + 1
<1>6. n \in Nat /\ k \in 1..n /\ DOMAIN l = 1..n
  BY BlocksAre
<1>7. DOMAIN m = 1..(n - 1) /\ \A i \in 1..(n - 1) : m[i] = l[o(i)]
  <2>1. m \in Seq(Block) /\ Len(m) = n - 1 /\ \A i \in 1..(n - 1) : m[i] = l[IF i < k THEN i ELSE i + 1]
    BY RemovedIs
  <2> HIDE DEF m, n
  <2> QED
    BY <2>1
<1> HIDE DEF m, n
<1>8. /\ \A i \in 1..(n - 1) : o(i) \in 1..n /\ o(i) # k
      /\ \A i, j \in 1..(n - 1) : o(i) = o(j) => i = j
      /\ \A i \in 1..n : i # k => \E j \in 1..(n - 1) : o(j) = i
  <2>1. \A i \in 1..n : i # k => \E j \in 1..(n - 1) : o(j) = i
    <3> SUFFICES ASSUME NEW i \in 1..n, i # k
                 PROVE  \E j \in 1..(n - 1) : o(j) = i
      OBVIOUS
    <3>1. CASE i < k
      <4>1. i \in 1..(n - 1) /\ o(i) = i
        BY <1>6, <3>1
      <4> QED
        BY <4>1
    <3>2. CASE i > k
      <4>1. i - 1 \in 1..(n - 1) /\ o(i - 1) = i
        BY <1>6, <3>2
      <4> QED
        BY <4>1
    <3> QED
      BY <1>6, <3>1, <3>2
  <2> QED
    BY <1>6, <2>1
<1> HIDE DEF o
<1>9. Matched(t, m)
  <2>1. ASSUME NEW i \in DOMAIN m
        PROVE  /\ MetadataOf(m[i].addr) \in Used(t)
               /\ t.hdr[MetadataOf(m[i].addr)].size >= m[i].size
    <3>1. o(i) \in DOMAIN l /\ o(i) # k /\ m[i] = l[o(i)]
      BY <1>6, <1>7, <1>8
    <3>2. MetadataOf(m[i].addr) \in Used(s) /\ s.hdr[MetadataOf(m[i].addr)].size >= m[i].size
      BY <3>1 DEF Matched
    <3>3. MetadataOf(m[i].addr) # d
      <4>1. l[o(i)].addr # l[k].addr
        BY <3>1 DEF Matched
      <4>2. l[o(i)].addr \in Nat /\ l[k].addr \in Nat
            /\ MetadataOf(l[o(i)].addr) = l[o(i)].addr - 5 /\ d = l[k].addr - 5
        BY <3>1, BlocksAre
      <4> QED
        BY <3>1, <4>1, <4>2
    <3>4. MetadataOf(m[i].addr) \in DOMAIN s.hdr
      BY <3>2, HeaderIs DEF Used
    <3> QED
      BY <1>3, <1>5, <3>2, <3>3, <3>4
  <2>2. ASSUME NEW i \in DOMAIN m, NEW j \in DOMAIN m, m[i].addr = m[j].addr
        PROVE  i = j
    <3>1. o(i) \in DOMAIN l /\ o(j) \in DOMAIN l /\ l[o(i)].addr = l[o(j)].addr
      BY <1>6, <1>7, <1>8, <2>2
    <3>2. o(i) = o(j)
      BY <3>1 DEF Matched
    <3> QED
      BY <1>7, <1>8, <3>2
  <2>3. ASSUME NEW x \in Used(t)
        PROVE  \E i \in DOMAIN m : MetadataOf(m[i].addr) = x
    <3>1. x \in Used(s) /\ x # d
      BY <1>5
    <3>2. PICK i \in DOMAIN l : MetadataOf(l[i].addr) = x
      BY <3>1 DEF Matched
    <3>3. PICK j \in 1..(n - 1) : o(j) = i
      BY <1>6, <1>8, <3>1, <3>2
    <3> QED
      BY <1>7, <3>2, <3>3
  <2> QED
    BY <2>1, <2>2, <2>3 DEF Matched
<1> DEFINE last == ultima_metadata_segmento(t)
<1>10. /\ last \in Chain(t) /\ t.base \in Chain(t)
       /\ \A x \in Chain(t) : x \in Nat /\ (NextMetadata(t, x) = t.limit <=> x = last)
  BY <1>4, LastIs, HeaderIs
<1>11. ASSUME HasFree(s)
       PROVE  EarlyFree(t)
  <2>1. PICK f \in Chain(s) : s.hdr[f].is_free
    BY <1>11 DEF HasFree
  <2>2. f # d /\ f \in DOMAIN s.hdr
    BY <1>2, <2>1, HeaderIs
  <2>3. f \in Chain(t) /\ t.hdr[f].is_free /\ d \in Chain(t) /\ t.hdr[d].is_free
    BY <1>2, <1>3, <1>4, <2>1, <2>2
  <2>4. f # last \/ d # last
    BY <2>2
  <2> QED
    BY <1>10, <2>3, <2>4 DEF EarlyFree
<1>12. ASSUME EarlyFree(t)
       PROVE  CompactsSafely(t)
  <2>1. t.base # last
    <3> SUFFICES ASSUME t.base = last
                 PROVE  FALSE
      OBVIOUS
    <3>1. Chain(t) = {last}
      BY <1>4, OnlyIs
    <3> QED
      BY <1>10, <1>12, <3>1 DEF EarlyFree
  <2> DEFINE r == proxima_metadata_libre(t, t.base)
  <2>2. LibreOf(t, t.base, r)
    BY <1>4, <1>10, <2>1, LibreIs
  <2>3. r = -1 \/ r \in Nat
    BY <1>10, <2>2 DEF LibreOf
  <2> HIDE DEF r
  <2>4. r # OffChain
    BY <2>3 DEF OffChain
  <2> QED
    BY <2>4 DEF CompactsSafely, r
<1> QED
  BY <1>1, <1>4, <1>9, <1>11, <1>12 DEF m

\* The block the client gets is matched.
LEMMA MatchedSplit ==
  ASSUME NEW s, Tiled(s), NEW l \in Seq(Block), Matched(s, l), NEW d \in Chain(s), s.hdr[d].is_free,
         NEW size \in Nat, s.hdr[d].size >= size + METADATA_SIZE, NEW t, t = Split(s, d, size),
         NEW b, b = [addr |-> d + METADATA_SIZE, size |-> size]
  PROVE  b \in Block /\ Matched(t, Append(l, b))
<1> DEFINE rest == d + size + METADATA_SIZE
           m == Append(l, b)
           n == Len(l)
<1>1. /\ rest \notin Chain(s) /\ Chain(t) = Chain(s) \cup {rest}
      /\ t.hdr[d].size = size /\ ~t.hdr[d].is_free /\ t.hdr[rest].is_free
      /\ \A x \in Chain(s) : x # d => t.hdr[x] = s.hdr[x]
  BY SplitIs
<1> HIDE DEF rest
<1>2. Used(t) = Used(s) \cup {d} /\ d \notin Used(s)
  BY <1>1 DEF Used
<1>3. d \in Nat
  BY HeaderIs
<1>4. b \in Block /\ b.addr = d + 5 /\ b.size = size /\ MetadataOf(b.addr) = d
  <2>1. d + METADATA_SIZE \in Nat /\ d + METADATA_SIZE = d + 5 /\ (d + 5) - 5 = d
    BY <1>3 DEF METADATA_SIZE
  <2>2. \A a, c : [addr |-> a, size |-> c].addr = a /\ [addr |-> a, size |-> c].size = c
    OBVIOUS
  <2>3. b.addr = d + 5 /\ b.size = size
    BY <2>1, <2>2
  <2>4. b \in Block
    BY <2>1 DEF Block
  <2> QED
    BY <2>1, <2>3, <2>4 DEF MetadataOf, METADATA_SIZE
<1>5. n \in Nat /\ DOMAIN l = 1..n
  BY BlocksAre
<1>6. DOMAIN m = 1..(n + 1) /\ m[n + 1] = b /\ \A i \in 1..n : m[i] = l[i]
  <2>1. l \in Seq(Block) /\ b \in Block
    BY <1>4
  <2> QED
    BY <2>1
<1> HIDE DEF m, n
<1>7. \A i \in 1..(n + 1) : i = n + 1 \/ i \in 1..n
  BY <1>5
<1>8. ASSUME NEW i \in DOMAIN m
      PROVE  /\ MetadataOf(m[i].addr) \in Used(t)
             /\ t.hdr[MetadataOf(m[i].addr)].size >= m[i].size
  <2>1. CASE i = n + 1
    BY <1>1, <1>2, <1>4, <1>6, <2>1
  <2>2. CASE i \in 1..n
    <3>1. MetadataOf(m[i].addr) \in Used(s) /\ s.hdr[MetadataOf(m[i].addr)].size >= m[i].size
      BY <1>5, <1>6, <2>2 DEF Matched
    <3>2. MetadataOf(m[i].addr) \in Chain(s) /\ MetadataOf(m[i].addr) # d
      BY <1>2, <3>1 DEF Used
    <3> QED
      BY <1>1, <1>2, <3>1, <3>2
  <2> QED
    BY <1>6, <1>7, <2>1, <2>2
<1>9. ASSUME NEW i \in 1..n
      PROVE  m[i].addr # b.addr
  <2>1. MetadataOf(l[i].addr) \in Used(s)
    BY <1>5 DEF Matched
  <2>2. MetadataOf(b.addr) \notin Used(s)
    BY <1>2, <1>4
  <2> QED
    BY <1>6, <2>1, <2>2
<1>10. ASSUME NEW i \in DOMAIN m, NEW j \in DOMAIN m, m[i].addr = m[j].addr
       PROVE  i = j
  <2>1. CASE i \in 1..n /\ j \in 1..n
    BY <1>5, <1>6, <1>10, <2>1 DEF Matched
  <2>2. CASE ~(i \in 1..n /\ j \in 1..n)
    BY <1>6, <1>7, <1>9, <1>10, <2>2
  <2> QED
    BY <2>1, <2>2
<1>11. ASSUME NEW x \in Used(t)
       PROVE  \E i \in DOMAIN m : MetadataOf(m[i].addr) = x
  <2>1. n + 1 \in 1..(n + 1) /\ 1..n \subseteq 1..(n + 1)
    BY <1>5
  <2>2. CASE x = d
    BY <1>4, <1>6, <2>1, <2>2
  <2>3. CASE x # d
    <3>1. PICK i \in DOMAIN l : MetadataOf(l[i].addr) = x
      BY <1>2, <2>3 DEF Matched
    <3> QED
      BY <1>5, <1>6, <2>1, <3>1
  <2> QED
    BY <2>2, <2>3
<1> QED
  BY <1>4, <1>8, <1>10, <1>11 DEF Matched, m

\* The split leaves a free block, and no two free neighbours.
LEMMA SplitMerged ==
  ASSUME NEW s, Tiled(s), Merged(s), NEW d \in Chain(s), s.hdr[d].is_free,
         NEW size \in Nat, s.hdr[d].size >= size + METADATA_SIZE, NEW t, t = Split(s, d, size)
  PROVE  Merged(t) /\ HasFree(t)
<1> DEFINE rest == d + size + METADATA_SIZE
<1>1. /\ Rewritten(s, t) /\ rest \notin Chain(s) /\ Chain(t) = Chain(s) \cup {rest}
      /\ ~t.hdr[d].is_free /\ t.hdr[rest].is_free
      /\ NextMetadata(t, d) = rest /\ NextMetadata(t, rest) = NextMetadata(s, d)
      /\ \A x \in Chain(s) : x # d => t.hdr[x] = s.hdr[x] /\ NextMetadata(t, x) = NextMetadata(s, x)
  BY SplitIs
<1> HIDE DEF rest
<1>2. /\ t.limit = s.limit /\ s.limit \in Nat
      /\ \A x \in Chain(s) : /\ x \in Nat /\ x < NextMetadata(s, x) /\ NextMetadata(s, x) \in Nat
                             /\ NextMetadata(s, x) # s.limit => NextMetadata(s, x) \in Chain(s)
  BY <1>1, HeaderIs DEF Rewritten
<1>3. ASSUME NEW x \in Chain(t), t.hdr[x].is_free, NextMetadata(t, x) < t.limit
      PROVE  ~t.hdr[NextMetadata(t, x)].is_free
  <2>1. PICK y \in Chain(s) : /\ s.hdr[y].is_free /\ NextMetadata(s, y) = NextMetadata(t, x)
    <3>1. CASE x = rest
      BY <1>1, <3>1
    <3>2. CASE x # rest
      <4>1. x \in Chain(s) /\ x # d
        BY <1>1, <1>3, <3>2
      <4>2. t.hdr[x] = s.hdr[x] /\ NextMetadata(t, x) = NextMetadata(s, x)
        BY <1>1, <4>1
      <4> QED
        BY <1>3, <4>1, <4>2
    <3> QED
      BY <3>1, <3>2
  <2> DEFINE z == NextMetadata(s, y)
  <2>2. z < s.limit
    BY <1>2, <1>3, <2>1
  <2>3. ~s.hdr[z].is_free /\ z \in Chain(s)
    BY <1>2, <2>1, <2>2 DEF Merged
  <2>4. z # d
    BY <2>3
  <2>5. t.hdr[z] = s.hdr[z]
    BY <1>1, <2>3, <2>4
  <2> QED
    BY <2>1, <2>3, <2>5
<1> QED
  BY <1>1, <1>3 DEF Merged, HasFree

(***************************************************************************)
(* The invariant.                                                          *)
(***************************************************************************)
TableOK(T) == T \in Seq(Segments) /\ \A i \in DOMAIN T : InSegment(T[i])
TableTiled(T) == \A i \in DOMAIN T : T[i].is_heap => Tiled(T[i])

\* The last block is in use or does not fit the request.
Full(s, size) ==
  s.hdr[ultima_metadata_segmento(s)].is_free => s.hdr[ultima_metadata_segmento(s)].size < size

\* A segment that matches the blocks of its client.
SegmentSound(s, l) == s.base = 0 /\ HasFree(s) /\ Merged(s) /\ Matched(s, l)

\* The heap of a program is one segment at most, and matches the blocks of the client;
\* a malloc grows it only when its last block is in use or too short.
SingleHeap(T, l, using, label, size) ==
  /\ Len(T) <= 1
  /\ T = <<>> => l = <<>>
  /\ using <= Held(l)
  /\ label = "new" => T = <<>>
  /\ label = "grow" => \A i \in DOMAIN T : Full(T[i], size + METADATA_SIZE)
  /\ \A i \in DOMAIN T : SegmentSound(T[i], l)

Labels == {"idle", "check", "alloc", "grow", "new"}

ProgramOK(p) ==
  /\ TableOK(segment_table[p]) /\ live[p] \in Seq(Block) /\ using_memory[p] \in Int
  /\ pc[p] \in Labels /\ req[p] \in Sizes \cup {0}
  /\ pc[p] \in {"alloc", "grow", "new"} => req[p] > 0
  /\ pc[p] = "grow" => CanGrow(p)
  /\ ~lost => TableTiled(segment_table[p])
  /\ Sound(p) => SingleHeap(segment_table[p], live[p], using_memory[p], pc[p], req[p])

PerProgram(f) == f = [q \in Programs |-> f[q]]

HeapInv ==
  /\ PerProgram(segment_table) /\ PerProgram(live) /\ PerProgram(using_memory)
  /\ PerProgram(pc) /\ PerProgram(req)
  /\ pages \in Nat /\ mutex_lock \in Programs \cup {NOBODY} /\ lost \in BOOLEAN
  /\ granted \subseteq Programs /\ mallocs \in 0..MaxMallocs
  /\ \A p \in Programs : ProgramOK(p)
  /\ LostOnlyAfterFault

\* A step of the handler of p leaves the other programs alone.
StepOf(p) ==
  /\ ~lost
  /\ PerProgram(segment_table') /\ PerProgram(live') /\ PerProgram(using_memory')
  /\ PerProgram(pc') /\ PerProgram(req')
  /\ \A q \in Programs : q # p =>
       /\ segment_table'[q] = segment_table[q] /\ live'[q] = live[q]
       /\ using_memory'[q] = using_memory[q] /\ pc'[q] = pc[q] /\ req'[q] = req[q]
       /\ q \in granted' => q \in granted
       /\ q \in granted => q \in granted'

\* What a step of p has to keep.
Kept(p) ==
  /\ pages' \in Nat /\ mutex_lock' \in Programs \cup {NOBODY} /\ lost' \in BOOLEAN
  /\ granted' \subseteq Programs /\ mallocs' \in 0..MaxMallocs
  /\ ProgramOK(p)'
  /\ lost' => (HasMap(p) \/ p \in granted)'

LEMMA OthersKept ==
  ASSUME HeapInv, NEW p \in Programs, StepOf(p), Kept(p)
  PROVE  HeapInv'
<1>1. ASSUME NEW q \in Programs, q # p
      PROVE  ProgramOK(q)'
  <2>1. /\ segment_table'[q] = segment_table[q] /\ live'[q] = live[q]
        /\ using_memory'[q] = using_memory[q] /\ pc'[q] = pc[q] /\ req'[q] = req[q]
        /\ q \in granted => q \in granted'
    BY <1>1 DEF StepOf
  <2>2. ProgramOK(q) /\ ~lost
    BY DEF HeapInv, StepOf
  <2>3. CanGrow(q) => CanGrow(q)'
    BY <2>1 DEF CanGrow
  <2>4. HasMap(q) => HasMap(q)'
    BY <2>1 DEF HasMap, Heap
  <2>5. Sound(q)' => Sound(q)
    BY <2>1, <2>2, <2>4 DEF Sound
  <2> QED
    BY <2>1, <2>2, <2>3, <2>5 DEF ProgramOK
<1>2. \A q \in Programs : ProgramOK(q)'
  <2>1. ProgramOK(p)'
    BY DEF Kept
  <2> QED
    BY <1>1, <2>1
<1>3. LostOnlyAfterFault'
  BY DEF Kept, LostOnlyAfterFault
<1> QED
  BY <1>2, <1>3 DEF HeapInv, Kept, StepOf

\* A step between two labels that changes nothing of the heap.
LEMMA LabelMoves ==
  ASSUME HeapInv, NEW p \in Programs, StepOf(p), lost' = FALSE, UNCHANGED <<heap, live, granted>>,
         mallocs' \in 0..MaxMallocs, mutex_lock' \in Programs \cup {NOBODY},
         pc'[p] \in Labels, req'[p] \in Sizes \cup {0},
         pc'[p] \in {"alloc", "grow", "new"} => req'[p] > 0,
         pc'[p] = "grow" => CanGrow(p),
         Sound(p) => /\ pc'[p] = "new" => segment_table[p] = <<>>
                     /\ pc'[p] = "grow" => \A i \in DOMAIN segment_table[p] :
                          Full(segment_table[p][i], req'[p] + METADATA_SIZE)
  PROVE  HeapInv'
<1>1. ProgramOK(p) /\ ~lost
  BY DEF HeapInv, StepOf
<1>2. segment_table' = segment_table /\ live' = live /\ using_memory' = using_memory /\ pages' = pages
      /\ granted' = granted
  BY DEF heap
<1>3. CanGrow(p)' = CanGrow(p)
  BY <1>2 DEF CanGrow
<1>4. Sound(p)' => Sound(p)
  BY <1>1, <1>2 DEF Sound, HasMap, Heap
<1>5. ASSUME Sound(p)'
      PROVE  SingleHeap(segment_table[p], live[p], using_memory[p], pc'[p], req'[p])
  <2>1. SingleHeap(segment_table[p], live[p], using_memory[p], pc[p], req[p])
    BY <1>1, <1>4, <1>5 DEF ProgramOK
  <2> QED
    BY <1>4, <1>5, <2>1 DEF SingleHeap
<1>6. ProgramOK(p)'
  BY <1>1, <1>2, <1>3, <1>5 DEF ProgramOK
<1>7. Kept(p)
  BY <1>2, <1>6 DEF Kept, HeapInv
<1> QED
  BY <1>7, OthersKept

Changed(f, p, x) == [f EXCEPT ![p] = x]

LEMMA ChangedIs ==
  ASSUME NEW f, PerProgram(f), NEW p \in Programs, NEW x, NEW g, g = Changed(f, p, x)
  PROVE  PerProgram(g) /\ g[p] = x /\ \A q \in Programs : q # p => g[q] = f[q]
<1>1. f = [q \in Programs |-> f[q]]
  BY DEF PerProgram
<1>2. g = [q \in Programs |-> IF q = p THEN x ELSE f[q]]
  BY <1>1 DEF Changed
<1>3. g[p] = x /\ \A q \in Programs : q # p => g[q] = f[q]
  BY <1>2
<1>4. PerProgram(g)
  <2>1. \A q \in Programs : g[q] = IF q = p THEN x ELSE f[q]
    BY <1>2
  <2>2. g = [q \in Programs |-> g[q]]
    BY <1>2, <2>1
  <2> QED
    BY <2>2 DEF PerProgram
<1> QED
  BY <1>3, <1>4

\* A critical section moves the handler to its label.
LEMMA CriticalIs ==
  ASSUME HeapInv, NEW p \in Programs, NEW from, NEW l, Critical(p, from, l)
  PROVE  /\ PerProgram(pc') /\ pc'[p] = l /\ pc[p] = from /\ ~lost /\ lost = FALSE
         /\ \A q \in Programs : q # p => pc'[q] = pc[q]
<1>1. PerProgram(pc) /\ lost \in BOOLEAN
  BY DEF HeapInv
<1>2. pc' = Changed(pc, p, l) /\ ~lost /\ pc[p] = from
  BY DEF Critical, Changed
<1> QED
  BY <1>1, <1>2, ChangedIs

LEMMA AskIs ==
  ASSUME HeapInv, NEW p \in Programs, AskMalloc(p)
  PROVE  HeapInv'
<1>1. PICK size \in Sizes : req' = Changed(req, p, size)
  BY DEF AskMalloc, Changed
<1>2. /\ ~lost /\ pc' = Changed(pc, p, "check") /\ mallocs < MaxMallocs /\ mallocs' = mallocs + 1
      /\ UNCHANGED <<heap, mutex_lock, lost, live, granted>>
  BY DEF AskMalloc, Changed
<1>3. /\ PerProgram(pc) /\ PerProgram(req) /\ mallocs \in 0..MaxMallocs /\ MaxMallocs \in Nat
      /\ mutex_lock \in Programs \cup {NOBODY} /\ lost \in BOOLEAN
  BY HeapAssumption DEF HeapInv, HeapAssumption
<1>4. /\ PerProgram(pc') /\ pc'[p] = "check" /\ \A q \in Programs : q # p => pc'[q] = pc[q]
  BY <1>2, <1>3, ChangedIs
<1>5. /\ PerProgram(req') /\ req'[p] = size /\ \A q \in Programs : q # p => req'[q] = req[q]
  BY <1>1, <1>3, ChangedIs
<1>6. StepOf(p)
  BY <1>2, <1>4, <1>5 DEF StepOf, HeapInv, heap
<1>7. mallocs' \in 0..MaxMallocs
  BY <1>2, <1>3
<1>8. pc'[p] \in Labels /\ req'[p] \in Sizes \cup {0}
  BY <1>4, <1>5 DEF Labels
<1>9. lost' = FALSE /\ mutex_lock' \in Programs \cup {NOBODY} /\ UNCHANGED <<heap, live, granted>>
  BY <1>2, <1>3
<1> QED
  BY <1>4, <1>6, <1>7, <1>8, <1>9, LabelMoves

LEMMA QuietStep ==
  ASSUME HeapInv, NEW p \in Programs, NEW from, NEW l, Critical(p, from, l),
         UNCHANGED <<heap, req, lost, clients>>
  PROVE  StepOf(p) /\ lost' = FALSE /\ mallocs' \in 0..MaxMallocs /\ req'[p] \in Sizes \cup {0}
<1>1. /\ PerProgram(pc') /\ pc'[p] = l /\ pc[p] = from /\ ~lost /\ lost = FALSE
      /\ \A q \in Programs : q # p => pc'[q] = pc[q]
  BY CriticalIs
<1>2. StepOf(p)
  BY <1>1 DEF StepOf, HeapInv, heap, clients
<1>3. mallocs' \in 0..MaxMallocs /\ req'[p] \in Sizes \cup {0}
  BY DEF HeapInv, ProgramOK, clients
<1> QED
  BY <1>1, <1>2, <1>3

LEMMA NothingIs ==
  ASSUME HeapInv, NEW p \in Programs, MallocNothing(p) \/ MallocRefused(p) \/ MallocCheck(p)
  PROVE  HeapInv'
<1>1. PICK l \in {"idle", "alloc"} : Critical(p, "check", l) /\ (l = "alloc" => req[p] > 0)
  BY DEF MallocNothing, MallocRefused, MallocCheck
<1>2. UNCHANGED <<heap, req, lost, clients>> /\ mutex_lock' \in {p, mutex_lock}
  BY DEF MallocNothing, MallocRefused, MallocCheck
<1>3. StepOf(p) /\ lost' = FALSE /\ mallocs' \in 0..MaxMallocs /\ req'[p] \in Sizes \cup {0}
  BY <1>1, <1>2, QuietStep
<1>4. pc'[p] = l
  BY <1>1, CriticalIs
<1>5. mutex_lock' \in Programs \cup {NOBODY}
  BY <1>2 DEF HeapInv
<1>6. UNCHANGED <<heap, live, granted>> /\ req' = req
  BY <1>2 DEF clients
<1>7. pc'[p] \in Labels /\ pc'[p] # "grow" /\ pc'[p] # "new"
  BY <1>4 DEF Labels
<1>8. pc'[p] \in {"alloc", "grow", "new"} => req'[p] > 0
  BY <1>1, <1>4, <1>6
<1> QED
  BY <1>3, <1>5, <1>6, <1>7, <1>8, LabelMoves

\* No segment has room: the last block of each is in use or does not fit.
LEMMA NoRoomIs ==
  ASSUME HeapInv, NEW p \in Programs, ~lost, NEW size \in Int, segment_with_free_space(p, size) = 0,
         NEW i \in DOMAIN segment_table[p], Heap(p, i).is_heap
  PROVE  Full(Heap(p, i), size)
<1> DEFINE T == segment_table[p]
           found == {j \in HeapSegments(p) : proxima_metadata_libre_con_size(Heap(p, j), size) # -1}
<1>1. T \in Seq(Segments) /\ TableTiled(T)
  BY DEF HeapInv, ProgramOK, TableOK
<1>2. segment_with_free_space(p, size) = IF found = {} THEN 0 ELSE Min(found)
  BY DEF segment_with_free_space
<1>3. found \in SUBSET (1..Len(T)) /\ Len(T) \in Nat
  BY <1>1 DEF HeapSegments
<1> HIDE DEF found
<1>4. found = {}
  <2> SUFFICES ASSUME found # {}
               PROVE  FALSE
    OBVIOUS
  <2>1. found \in SUBSET Nat
    BY <1>3
  <2>2. Min(found) \in 1..Len(T)
    BY <1>3, <2>1, MinOf
  <2> QED
    BY <1>2, <2>2
<1>5. proxima_metadata_libre_con_size(Heap(p, i), size) = -1
  BY <1>4 DEF found, HeapSegments, Heap
<1>6. Tiled(Heap(p, i))
  BY <1>1 DEF TableTiled, Heap
<1>7. FoundOf(Heap(p, i), size, -1)
  BY <1>5, <1>6, FoundIs
<1> QED
  BY <1>7 DEF FoundOf, Full

LEMMA RequestIs ==
  ASSUME HeapInv, NEW p \in Programs
  PROVE  /\ req[p] \in Int /\ req[p] + METADATA_SIZE \in Int
         /\ pc[p] \in {"alloc", "grow", "new"} => req[p] \in Nat /\ req[p] > 0
<1>1. req[p] \in Sizes \cup {0} /\ (pc[p] \in {"alloc", "grow", "new"} => req[p] > 0)
  BY DEF HeapInv, ProgramOK
<1>2. req[p] \in Int
  <2>1. Sizes \subseteq Int /\ 0 \in Int
    BY HeapAssumption DEF HeapAssumption
  <2> QED
    BY <1>1, <2>1
<1> QED
  BY <1>1, <1>2 DEF METADATA_SIZE

LEMMA MallocNoRoomIs ==
  ASSUME HeapInv, NEW p \in Programs, MallocNoRoom(p)
  PROVE  HeapInv'
<1> DEFINE l == IF CanGrow(p) THEN "grow" ELSE "new"
           T == segment_table[p]
<1>1. /\ Critical(p, "alloc", l) /\ segment_with_free_space(p, req[p] + METADATA_SIZE) = 0
      /\ UNCHANGED <<heap, mutex_lock, req, lost, clients>>
  BY DEF MallocNoRoom
<1>2. StepOf(p) /\ lost' = FALSE /\ mallocs' \in 0..MaxMallocs /\ req'[p] \in Sizes \cup {0}
  <2> HIDE DEF l
  <2> QED
    BY <1>1, QuietStep
<1>3. pc'[p] = l /\ pc[p] = "alloc" /\ ~lost
  <2> HIDE DEF l
  <2> QED
    BY <1>1, CriticalIs
<1>4. UNCHANGED <<heap, live, granted>> /\ req' = req /\ mutex_lock' \in Programs \cup {NOBODY}
  BY <1>1 DEF clients, HeapInv
<1>5. l \in Labels
  BY DEF Labels
<1>6. req[p] > 0 /\ req[p] + METADATA_SIZE \in Int
  BY <1>3, RequestIs
<1>7. l = "grow" => CanGrow(p)
  OBVIOUS
<1>8. ASSUME Sound(p)
      PROVE  /\ l = "new" => T = <<>>
             /\ \A i \in DOMAIN T : Full(T[i], req[p] + METADATA_SIZE)
  <2>1. \A i \in DOMAIN T : T[i].is_heap
    BY <1>8 DEF Sound, HasMap, Heap
  <2>2. \A i \in DOMAIN T : Full(T[i], req[p] + METADATA_SIZE)
    <3> TAKE i \in DOMAIN T
    <3>1. Full(Heap(p, i), req[p] + METADATA_SIZE)
      BY <1>1, <1>3, <1>6, <2>1, NoRoomIs DEF Heap
    <3> QED
      BY <3>1 DEF Heap
  <2>3. T # <<>> => Len(T) \in DOMAIN T
    <3>1. T \in Seq(Segments)
      BY DEF HeapInv, ProgramOK, TableOK
    <3> HIDE DEF T
    <3> QED
      BY <3>1
  <2>4. T # <<>> => CanGrow(p)
    BY <2>1, <2>3 DEF CanGrow, Last
  <2> QED
    BY <2>2, <2>4
<1> HIDE DEF l
<1> QED
  BY <1>2, <1>3, <1>4, <1>5, <1>6, <1>7, <1>8, LabelMoves

\* One segment of a table is replaced.
LEMMA ReplacedIs ==
  ASSUME NEW T \in Seq(Segments), NEW i \in DOMAIN T, NEW t \in Segments, NEW U, U = Changed(T, i, t)
  PROVE  /\ U \in Seq(Segments) /\ Len(U) = Len(T) /\ DOMAIN U = DOMAIN T /\ U[i] = t /\ U # <<>>
         /\ \A j \in DOMAIN T : j # i => U[j] = T[j]
BY DEF Changed

LEMMA AllocatedIs ==
  ASSUME HeapInv, NEW p \in Programs, MallocInSegment(p)
  PROVE  \E i \in HeapSegments(p) : \E d \in Chain(Heap(p, i)) :
           /\ FoundOf(Heap(p, i), req[p] + METADATA_SIZE, d) /\ d # -1
           /\ segment_table' = Changed(segment_table, p,
                Changed(segment_table[p], i, Split(Heap(p, i), d, req[p])))
           /\ using_memory' = Changed(using_memory, p, using_memory[p] + req[p])
           /\ live' = Changed(live, p, Append(live[p], [addr |-> d + METADATA_SIZE, size |-> req[p]]))
           /\ UNCHANGED <<pages, mutex_lock, req, lost, granted, mallocs>>
<1>0. PICK i \in HeapSegments(p) : \E d \in DOMAIN Heap(p, i).hdr :
        /\ d = proxima_metadata_libre_con_size(Heap(p, i), req[p] + METADATA_SIZE)
        /\ segment_table' = [segment_table EXCEPT ![p][i] = Split(@, d, req[p])]
        /\ using_memory' = [using_memory EXCEPT ![p] = AccountMalloc(p)]
        /\ live' = [live EXCEPT ![p] = Append(@, [addr |-> d + METADATA_SIZE, size |-> req[p]])]
        /\ UNCHANGED <<pages, mutex_lock, req, lost, granted, mallocs>>
  BY DEF MallocInSegment
<1>1. PICK d \in DOMAIN Heap(p, i).hdr :
        /\ d = proxima_metadata_libre_con_size(Heap(p, i), req[p] + METADATA_SIZE)
        /\ segment_table' = [segment_table EXCEPT ![p][i] = Split(@, d, req[p])]
        /\ using_memory' = [using_memory EXCEPT ![p] = AccountMalloc(p)]
        /\ live' = [live EXCEPT ![p] = Append(@, [addr |-> d + METADATA_SIZE, size |-> req[p]])]
        /\ UNCHANGED <<pages, mutex_lock, req, lost, granted, mallocs>>
  BY <1>0
<1>2. ~lost
  BY DEF MallocInSegment, Critical
<1>3. TableTiled(segment_table[p]) /\ TableOK(segment_table[p])
  BY <1>2 DEF HeapInv, ProgramOK
<1>4. Tiled(Heap(p, i)) /\ InSegment(Heap(p, i))
  BY <1>3 DEF TableTiled, TableOK, Heap, HeapSegments
<1>5. FoundOf(Heap(p, i), req[p] + METADATA_SIZE, d)
  BY <1>1, <1>4, FoundIs, RequestIs
<1>6. d # -1
  BY <1>4, NextIs
<1>7. d \in Chain(Heap(p, i))
  BY <1>5, <1>6 DEF FoundOf
<1>8. p \in DOMAIN segment_table /\ p \in DOMAIN using_memory /\ p \in DOMAIN live
  BY DEF HeapInv, PerProgram
<1>9. segment_table' = Changed(segment_table, p, Changed(segment_table[p], i, Split(Heap(p, i), d, req[p])))
  BY <1>1, <1>8 DEF Changed, Heap
<1>10. using_memory' = Changed(using_memory, p, using_memory[p] + req[p])
  BY <1>1 DEF Changed, AccountMalloc
<1>11. live' = Changed(live, p, Append(live[p], [addr |-> d + METADATA_SIZE, size |-> req[p]]))
  BY <1>1, <1>8 DEF Changed
<1> QED
  BY <1>1, <1>5, <1>6, <1>7, <1>9, <1>10, <1>11

LEMMA MallocInSegmentIs ==
  ASSUME HeapInv, NEW p \in Programs, MallocInSegment(p)
  PROVE  HeapInv'
<1>0. PICK i \in HeapSegments(p) : \E d \in Chain(Heap(p, i)) :
        /\ FoundOf(Heap(p, i), req[p] + METADATA_SIZE, d) /\ d # -1
        /\ segment_table' = Changed(segment_table, p,
             Changed(segment_table[p], i, Split(Heap(p, i), d, req[p])))
        /\ using_memory' = Changed(using_memory, p, using_memory[p] + req[p])
        /\ live' = Changed(live, p, Append(live[p], [addr |-> d + METADATA_SIZE, size |-> req[p]]))
        /\ UNCHANGED <<pages, mutex_lock, req, lost, granted, mallocs>>
  BY AllocatedIs
<1>1. PICK d \in Chain(Heap(p, i)) :
        /\ FoundOf(Heap(p, i), req[p] + METADATA_SIZE, d) /\ d # -1
        /\ segment_table' = Changed(segment_table, p,
             Changed(segment_table[p], i, Split(Heap(p, i), d, req[p])))
        /\ using_memory' = Changed(using_memory, p, using_memory[p] + req[p])
        /\ live' = Changed(live, p, Append(live[p], [addr |-> d + METADATA_SIZE, size |-> req[p]]))
        /\ UNCHANGED <<pages, mutex_lock, req, lost, granted, mallocs>>
  BY <1>0
<1> DEFINE T == segment_table[p]
           s == Heap(p, i)
           t == Split(s, d, req[p])
           U == Changed(T, i, t)
           b == [addr |-> d + METADATA_SIZE, size |-> req[p]]
           l == Append(live[p], b)
<1>2. /\ PerProgram(pc') /\ pc'[p] = "idle" /\ pc[p] = "alloc" /\ ~lost /\ lost = FALSE
      /\ \A q \in Programs : q # p => pc'[q] = pc[q]
  BY CriticalIs DEF MallocInSegment
<1>3. req[p] \in Nat /\ req[p] > 0
  BY <1>2, RequestIs
<1>4. /\ T \in Seq(Segments) /\ i \in DOMAIN T /\ s = T[i] /\ s.is_heap /\ Tiled(s)
      /\ \A j \in DOMAIN T : InSegment(T[j]) /\ (T[j].is_heap => Tiled(T[j]))
      /\ live[p] \in Seq(Block) /\ using_memory[p] \in Int
  BY <1>2 DEF HeapInv, ProgramOK, TableOK, TableTiled, HeapSegments, Heap
<1>5. s.hdr[d].size >= req[p] + METADATA_SIZE
      /\ (s.hdr[d].is_free \/ (d = s.base /\ d = ultima_metadata_segmento(s)))
  BY <1>1 DEF FoundOf
<1>6. Rewritten(s, t) /\ Tiled(t)
  <2>1. d \in Chain(s)
    BY <1>1
  <2> HIDE DEF s
  <2> QED
    BY <1>3, <1>4, <1>5, <2>1, SplitIs
<1>7. InSegment(t) /\ t \in Segments /\ t.is_heap
  <2> HIDE DEF t, s
  <2> QED
    BY <1>4, <1>6 DEF Tiled, InSegment, Rewritten
<1>8. /\ U \in Seq(Segments) /\ Len(U) = Len(T) /\ DOMAIN U = DOMAIN T /\ U[i] = t /\ U # <<>>
      /\ \A j \in DOMAIN T : j # i => U[j] = T[j]
  <2> HIDE DEF t, T
  <2> QED
    BY <1>4, <1>7, ReplacedIs
<1>9. d \in Nat
  BY <1>4, HeaderIs
<1>10. b \in Block /\ b.size = req[p]
  <2>1. d + METADATA_SIZE \in Nat
    BY <1>9 DEF METADATA_SIZE
  <2> QED
    BY <1>3, <2>1 DEF Block
<1>11. /\ PerProgram(segment_table') /\ segment_table'[p] = U
       /\ \A q \in Programs : q # p => segment_table'[q] = segment_table[q]
  <2> HIDE DEF U
  <2> QED
    BY <1>1, ChangedIs DEF HeapInv, U
<1>12. /\ PerProgram(live') /\ live'[p] = l
       /\ \A q \in Programs : q # p => live'[q] = live[q]
  <2>1. live' = Changed(live, p, l) /\ PerProgram(live)
    BY <1>1 DEF HeapInv
  <2> HIDE DEF l
  <2> QED
    BY <2>1, ChangedIs
<1>13. /\ PerProgram(using_memory') /\ using_memory'[p] = using_memory[p] + req[p]
       /\ \A q \in Programs : q # p => using_memory'[q] = using_memory[q]
  BY <1>1, ChangedIs DEF HeapInv
<1> HIDE DEF T, s, t, U, b, l
<1>14. l \in Seq(Block) /\ Held(l) = Held(live[p]) + req[p] /\ Held(live[p]) \in Nat /\ l # <<>>
  <2>1. live[p] \in Seq(Block) /\ b \in Block
    BY <1>4, <1>10
  <2>2. l = Append(live[p], b)
    BY DEF l
  <2>3. l \in Seq(Block) /\ l # <<>>
    BY <2>1, <2>2
  <2> QED
    BY <1>10, <2>1, <2>2, <2>3, HeldMore
<1>15. StepOf(p)
  BY <1>1, <1>2, <1>11, <1>12, <1>13 DEF StepOf, HeapInv
<1>16. TableOK(U) /\ TableTiled(U)
  BY <1>4, <1>6, <1>7, <1>8 DEF TableOK, TableTiled
<1>17. ASSUME Sound(p)'
       PROVE  SingleHeap(U, l, using_memory[p] + req[p], "idle", req[p])
  <2>1. Sound(p)
    <3>1. HasMap(p) => HasMap(p)'
      BY <1>4, <1>7, <1>8, <1>11 DEF HasMap, Heap, T
    <3> QED
      BY <1>1, <1>2, <1>17, <3>1 DEF Sound
  <2>2. /\ Len(T) <= 1 /\ using_memory[p] <= Held(live[p])
        /\ \A j \in DOMAIN T : SegmentSound(T[j], live[p])
    BY <2>1 DEF HeapInv, ProgramOK, SingleHeap, T
  <2>3. \A j \in DOMAIN T : j = i
    BY <1>4, <2>2
  <2>4. s.base = 0 /\ HasFree(s) /\ Merged(s) /\ Matched(s, live[p])
    BY <1>4, <2>2 DEF SegmentSound
  <2>5. s.hdr[d].is_free
    <3>1. CASE d = s.base /\ d = ultima_metadata_segmento(s)
      <4>1. Chain(s) = {d}
        BY <1>4, <3>1, OnlyIs
      <4> QED
        BY <2>4, <4>1 DEF HasFree
    <3> QED
      BY <1>5, <3>1
  <2>6. d \in Chain(s)
    BY DEF s
  <2>7. Matched(t, l)
    BY <1>3, <1>4, <1>5, <2>4, <2>5, <2>6, MatchedSplit DEF t, l, b
  <2>8. Merged(t) /\ HasFree(t)
    BY <1>3, <1>4, <1>5, <2>4, <2>5, <2>6, SplitMerged DEF t
  <2>9. t.base = 0
    BY <1>6, <2>4 DEF Rewritten
  <2>10. SegmentSound(t, l)
    BY <2>7, <2>8, <2>9 DEF SegmentSound
  <2>11. using_memory[p] + req[p] <= Held(l)
    BY <1>3, <1>4, <1>14, <2>2
  <2>12. \A j \in DOMAIN U : SegmentSound(U[j], l)
    BY <1>8, <2>3, <2>10
  <2> QED
    BY <1>8, <2>2, <2>11, <2>12 DEF SingleHeap
<1>18. ProgramOK(p)'
  <2>1. using_memory[p] + req[p] \in Int
    BY <1>3, <1>4
  <2>2. req'[p] = req[p] /\ req[p] \in Sizes \cup {0}
    BY <1>1 DEF HeapInv, ProgramOK
  <2> QED
    BY <1>2, <1>11, <1>12, <1>13, <1>14, <1>16, <1>17, <2>1, <2>2 DEF ProgramOK, Labels
<1>19. Kept(p)
  BY <1>1, <1>2, <1>18 DEF Kept, HeapInv
<1> QED
  BY <1>15, <1>19, OthersKept

LEMMA CeilIs ==
  ASSUME NEW n \in Int, NEW m \in Nat \ {0}
  PROVE  /\ CeilDiv(n, m) \in Int /\ CeilDiv(n, m) * m \in Int /\ CeilDiv(n, m) * m >= n
         /\ CeilDiv(n, m) >= 0 => CeilDiv(n, m) * m \in Nat
         /\ n > 0 => CeilDiv(n, m) > 0
<1> DEFINE a == -n
           q == a \div m
           c == CeilDiv(n, m)
<1>1. a \in Int /\ m \in Int /\ m > 0
  OBVIOUS
<1> HIDE DEF a
<1>2. q \in Int /\ m * q <= a
  BY <1>1
<1>3. c = -q
  BY DEF CeilDiv, a
<1> HIDE DEF c, q
<1>4. \A x \in Int : (-x) * m = -(m * x) /\ m * x \in Int
  BY <1>1
<1>5. c * m = -(m * q) /\ m * q \in Int
  BY <1>2, <1>3, <1>4
<1>6. c \in Int /\ c * m \in Int /\ c * m >= n
  BY <1>2, <1>3, <1>5 DEF a
<1>7. \A x \in Int : (x >= 0 => x * m >= 0) /\ (x <= 0 => x * m <= 0)
  BY <1>1
<1>8. c >= 0 => c * m \in Nat
  BY <1>6, <1>7
<1>9. n > 0 => c > 0
  BY <1>6, <1>7
<1> QED
  BY <1>6, <1>8, <1>9 DEF c

LEMMA MaxOfZero ==
  ASSUME NEW n \in Int
  PROVE  Max({0, n}) \in Nat /\ (n >= 0 => Max({0, n}) = n)
<1>1. \E x \in {0, n} : \A y \in {0, n} : x >= y
  BY 0 \in Int
<1>2. Max({0, n}) \in {0, n} /\ \A y \in {0, n} : Max({0, n}) >= y
  BY <1>1 DEF Max
<1> QED
  BY <1>2

\* Growth keeps a sound segment sound when its last block was free.
LEMMA GrownSound ==
  ASSUME NEW s, Tiled(s), NEW d, d = ultima_metadata_segmento(s), s.hdr[d].is_free,
         NEW z \in Nat, NEW m \in Nat, z = s.hdr[d].size + m, NEW t, t = Grown(s, d, z, m),
         NEW l, SegmentSound(s, l)
  PROVE  SegmentSound(t, l)
<1>1. Tiled(t) /\ Chain(t) = Chain(s) /\ NextMetadata(t, d) = t.limit
  BY GrownTiled
<1>2. d \in Chain(s) /\ d \in DOMAIN s.hdr /\ InSegment(s)
      /\ \A x \in Chain(s) : /\ x \in DOMAIN s.hdr /\ (NextMetadata(s, x) = s.limit <=> x = d)
                             /\ NextMetadata(s, x) # s.limit => NextMetadata(s, x) \in Chain(s)
  BY LastIs, HeaderIs DEF Tiled
<1>3. /\ t.base = s.base /\ t.hdr[d].is_free
      /\ \A x \in DOMAIN s.hdr : x # d => t.hdr[x] = s.hdr[x] /\ NextMetadata(t, x) = NextMetadata(s, x)
  BY <1>2, GrownIs
<1>4. s.base = 0 /\ Merged(s) /\ Matched(s, l)
  BY DEF SegmentSound
<1>5. HasFree(t)
  BY <1>1, <1>2, <1>3 DEF HasFree
<1>6. ASSUME NEW x \in Chain(t), t.hdr[x].is_free, NextMetadata(t, x) < t.limit
      PROVE  ~t.hdr[NextMetadata(t, x)].is_free
  <2>1. x # d
    <3>1. t.limit \in Nat
      BY <1>1 DEF Tiled, InSegment, Segments
    <3> QED
      BY <1>1, <1>6, <3>1
  <2>2. x \in Chain(s) /\ s.hdr[x].is_free /\ NextMetadata(t, x) = NextMetadata(s, x)
    BY <1>1, <1>2, <1>3, <1>6, <2>1
  <2>3. NextMetadata(s, x) # s.limit /\ NextMetadata(s, x) \in Chain(s)
    BY <1>2, <2>1, <2>2
  <2>4. NextMetadata(s, x) < s.limit
    BY <2>2, <2>3, HeaderIs
  <2>5. ~s.hdr[NextMetadata(s, x)].is_free
    BY <1>4, <2>2, <2>4 DEF Merged
  <2> QED
    BY <1>2, <1>3, <2>2, <2>3, <2>5
<1>7. Used(t) = Used(s) /\ \A x \in Used(s) : t.hdr[x] = s.hdr[x]
  <2>1. \A x \in Chain(s) : x # d => t.hdr[x] = s.hdr[x]
    BY <1>2, <1>3
  <2> QED
    BY <1>1, <1>3, <2>1 DEF Used
<1>8. Matched(t, l)
  BY <1>4, <1>7 DEF Matched
<1> QED
  BY <1>3, <1>4, <1>5, <1>6, <1>8 DEF SegmentSound, Merged

LEMMA MallocGrowIs ==
  ASSUME HeapInv, NEW p \in Programs, MallocGrow(p)
  PROVE  HeapInv'
<1> DEFINE T == segment_table[p]
           i == Len(T)
           s == T[i]
           d == ultima_metadata_segmento(s)
           n == CeilDiv(req[p] + METADATA_SIZE - s.hdr[d].size, PAGE_SIZE)
           z == s.hdr[d].size + n * PAGE_SIZE
           m == Max({0, n}) * PAGE_SIZE
           t == Grown(s, d, z, m)
           U == Changed(T, i, t)
<1>1. /\ PerProgram(pc') /\ pc'[p] = "check" /\ pc[p] = "grow" /\ ~lost /\ lost = FALSE
      /\ \A q \in Programs : q # p => pc'[q] = pc[q]
  BY CriticalIs DEF MallocGrow
<1>2. /\ segment_table' = Changed(segment_table, p, U)
      /\ pages' = pages + Max({0, n}) /\ lost' = (n < 0)
      /\ granted' = IF s.hdr[d].is_free THEN granted ELSE granted \cup {p}
      /\ UNCHANGED <<using_memory, mutex_lock, req, live, mallocs>>
  <2>1. p \in DOMAIN segment_table
    BY DEF HeapInv, PerProgram
  <2>2. /\ segment_table' = [segment_table EXCEPT ![p] = ReplaceAt(@, Len(@), Grown(Last(@), d, z, m))]
        /\ pages' = pages + Max({0, n}) /\ lost' = (n < 0)
        /\ granted' = IF s.hdr[d].is_free THEN granted ELSE granted \cup {p}
        /\ UNCHANGED <<using_memory, mutex_lock, req, live, mallocs>>
    BY DEF MallocGrow, Last, Grown
  <2>3. segment_table' = Changed(segment_table, p, U)
    <3> HIDE DEF d, n, z, m
    <3> QED
      BY <2>1, <2>2 DEF ReplaceAt, Last, Changed
  <2> QED
    BY <2>2, <2>3
<1>3. /\ T \in Seq(Segments) /\ T # <<>> /\ i \in DOMAIN T /\ s.is_heap /\ Tiled(s)
      /\ \A j \in DOMAIN T : InSegment(T[j]) /\ (T[j].is_heap => Tiled(T[j]))
      /\ live[p] \in Seq(Block) /\ using_memory[p] \in Int
  <2>1. /\ T \in Seq(Segments) /\ T # <<>> /\ s.is_heap
        /\ \A j \in DOMAIN T : InSegment(T[j]) /\ (T[j].is_heap => Tiled(T[j]))
        /\ live[p] \in Seq(Block) /\ using_memory[p] \in Int
    BY <1>1 DEF HeapInv, ProgramOK, TableOK, TableTiled, CanGrow, Last
  <2>2. i \in DOMAIN T
    <3> HIDE DEF T
    <3> QED
      BY <2>1
  <2> QED
    BY <2>1, <2>2
<1>4. req[p] \in Nat /\ req[p] > 0
  BY <1>1, RequestIs
<1>5. d \in Chain(s) /\ d \in DOMAIN s.hdr /\ s.hdr[d].size \in Nat /\ InSegment(s)
  <2> HIDE DEF s
  <2> QED
    BY <1>3, LastIs, HeaderIs DEF Tiled
<1> DEFINE k == req[p] + METADATA_SIZE - s.hdr[d].size
<1>6. k \in Int /\ METADATA_SIZE = 5
  <2> HIDE DEF s, d
  <2> QED
    BY <1>4, <1>5 DEF METADATA_SIZE
<1>7. PAGE_SIZE \in Nat \ {0}
  BY HeapAssumption DEF HeapAssumption
<1>8. /\ n \in Int /\ n * PAGE_SIZE \in Int /\ n * PAGE_SIZE >= k
      /\ n >= 0 => n * PAGE_SIZE \in Nat
      /\ k > 0 => n > 0
  <2> HIDE DEF k
  <2>1. n = CeilDiv(k, PAGE_SIZE)
    BY DEF k
  <2> HIDE DEF n
  <2> QED
    BY <1>6, <1>7, <2>1, CeilIs
<1> HIDE DEF n
<1>9. Max({0, n}) \in Nat /\ (n >= 0 => Max({0, n}) = n)
  BY <1>8, MaxOfZero
<1>10. m \in Nat /\ (n >= 0 => m = n * PAGE_SIZE)
  <2>1. \A a \in Nat : a * PAGE_SIZE \in Nat
    BY <1>7
  <2> QED
    BY <1>9, <2>1
<1>11. z \in Nat /\ (n >= 0 => z = s.hdr[d].size + m)
  <2> DEFINE y == s.hdr[d].size
             x == n * PAGE_SIZE
  <2>1. y \in Nat /\ x \in Int /\ x >= k /\ k = req[p] + 5 - y
    BY <1>5, <1>6, <1>8
  <2> HIDE DEF s, d, x, y, k
  <2>2. y + x \in Nat
    BY <1>4, <2>1
  <2> QED
    BY <1>10, <2>2 DEF x, y
<1> HIDE DEF T, i, s, d, z, m, t, U
<1>12. /\ InSegment(t) /\ t.is_heap = s.is_heap
       /\ t \in Segments
  <2>1. t = Grown(s, d, z, m)
    BY DEF t
  <2>2. InSegment(t) /\ t.is_heap = s.is_heap
    BY <1>5, <1>10, <1>11, <2>1, GrownIs
  <2> QED
    BY <2>2 DEF InSegment
<1>13. /\ U \in Seq(Segments) /\ Len(U) = Len(T) /\ DOMAIN U = DOMAIN T /\ U[i] = t /\ U # <<>>
       /\ \A j \in DOMAIN T : j # i => U[j] = T[j]
  BY <1>3, <1>12, ReplacedIs DEF U
<1>14. /\ PerProgram(segment_table') /\ segment_table'[p] = U
       /\ \A q \in Programs : q # p => segment_table'[q] = segment_table[q]
  BY <1>2, ChangedIs DEF HeapInv
<1>15. StepOf(p)
  BY <1>1, <1>2, <1>14 DEF StepOf, HeapInv
<1>16. n >= 0 => Tiled(t)
  <2>1. t = Grown(s, d, z, m) /\ d = ultima_metadata_segmento(s)
    BY DEF t, d
  <2> QED
    BY <1>3, <1>10, <1>11, <2>1, GrownTiled
<1>17. T[i] = s /\ \A j \in DOMAIN T : U[j].is_heap = T[j].is_heap
  <2>1. T[i] = s
    BY DEF s
  <2> QED
    BY <1>12, <1>13, <2>1
<1>18. HasMap(p)' <=> HasMap(p)
  BY <1>13, <1>14, <1>17 DEF HasMap, Heap, T
<1>19. TableOK(U) /\ (~lost' => TableTiled(U))
  <2>1. TableOK(U)
    BY <1>3, <1>12, <1>13 DEF TableOK
  <2>2. (n < 0) <=> ~(n >= 0)
    BY <1>8
  <2>3. ~lost' => n >= 0
    BY <1>2, <2>2, Zenon
  <2> QED
    BY <1>3, <1>13, <1>16, <1>17, <2>1, <2>3 DEF TableTiled
<1>20. ASSUME p \notin granted', ~HasMap(p)
       PROVE  Sound(p) /\ s.hdr[d].is_free /\ n >= 0
  <2>1. s.hdr[d].is_free /\ p \notin granted
    BY <1>2, <1>20
  <2>2. Sound(p)
    BY <1>1, <1>20, <2>1 DEF Sound
  <2>3. Full(T[i], req[p] + METADATA_SIZE)
    BY <1>1, <1>3, <2>2 DEF HeapInv, ProgramOK, SingleHeap, T
  <2>4. s.hdr[d].size < req[p] + METADATA_SIZE
    BY <1>17, <2>1, <2>3 DEF Full, d
  <2>5. k > 0
    <3> DEFINE y == s.hdr[d].size
    <3>1. y \in Nat /\ y < req[p] + METADATA_SIZE /\ k = req[p] + METADATA_SIZE - y
      BY <1>5, <2>4
    <3> HIDE DEF y, k
    <3> QED
      BY <1>4, <1>6, <3>1
  <2> QED
    BY <1>8, <2>1, <2>2, <2>5
<1>21. ASSUME Sound(p)'
       PROVE  SingleHeap(U, live[p], using_memory[p], "check", req[p])
  <2>1. p \notin granted' /\ ~HasMap(p)
    BY <1>18, <1>21 DEF Sound
  <2>2. Sound(p) /\ s.hdr[d].is_free /\ n >= 0
    BY <1>20, <2>1
  <2>3. /\ Len(T) <= 1 /\ using_memory[p] <= Held(live[p])
        /\ \A j \in DOMAIN T : SegmentSound(T[j], live[p])
    BY <2>2 DEF HeapInv, ProgramOK, SingleHeap, T
  <2>4. \A j \in DOMAIN T : j = i
    BY <1>3, <2>3
  <2>5. SegmentSound(t, live[p])
    <3>1. SegmentSound(s, live[p])
      BY <1>3, <1>17, <2>3
    <3>2. t = Grown(s, d, z, m) /\ d = ultima_metadata_segmento(s)
      BY DEF t, d
    <3> QED
      BY <1>3, <1>10, <1>11, <2>2, <3>1, <3>2, GrownSound
  <2>6. \A j \in DOMAIN U : SegmentSound(U[j], live[p])
    BY <1>13, <2>4, <2>5
  <2> QED
    BY <1>13, <2>3, <2>6 DEF SingleHeap
<1>22. ProgramOK(p)'
  <2>1. req'[p] = req[p] /\ req[p] \in Sizes \cup {0} /\ live'[p] = live[p] /\ using_memory'[p] = using_memory[p]
    BY <1>2 DEF HeapInv, ProgramOK
  <2> QED
    BY <1>1, <1>3, <1>14, <1>19, <1>21, <2>1 DEF ProgramOK, Labels
<1>23. lost' => (HasMap(p) \/ p \in granted)'
  <2>1. (n < 0) <=> ~(n >= 0)
    BY <1>8
  <2>2. lost' => ~(n >= 0)
    BY <1>2, <2>1, Zenon
  <2> QED
    BY <1>18, <1>20, <2>2
<1>24. Kept(p)
  <2>1. pages' \in Nat
    BY <1>2, <1>9 DEF HeapInv
  <2>2. lost' \in BOOLEAN /\ granted' \subseteq Programs
    BY <1>2 DEF HeapInv
  <2> QED
    BY <1>2, <1>22, <1>23, <2>1, <2>2 DEF Kept, HeapInv
<1> QED
  BY <1>15, <1>24, OthersKept

\* Only a mapped segment can follow the last one, or one whose program was granted blocks.
LEMMA MallocBehindIs ==
  ASSUME HeapInv, NEW p \in Programs, MallocBehind(p)
  PROVE  HeapInv'
<1> DEFINE T == segment_table[p]
           a == Last(T).limit + 1
           found == {i \in DOMAIN T : Heap(p, i).base <= a /\ a <= Heap(p, i).limit}
<1>1. /\ PerProgram(pc') /\ pc'[p] = "check" /\ pc[p] = "grow" /\ ~lost /\ lost = FALSE
      /\ \A q \in Programs : q # p => pc'[q] = pc[q]
  BY CriticalIs DEF MallocBehind
<1>2. lost' = TRUE /\ UNCHANGED <<heap, mutex_lock, req, clients>> /\ ~sePuedeAgrandar(p)
  BY DEF MallocBehind
<1>3. StepOf(p)
  BY <1>1, <1>2 DEF StepOf, HeapInv, heap, clients
<1>4. /\ T \in Seq(Segments) /\ T # <<>> /\ \A j \in DOMAIN T : InSegment(T[j])
      /\ live[p] \in Seq(Block) /\ using_memory[p] \in Int
  BY <1>1 DEF HeapInv, ProgramOK, TableOK, CanGrow
<1>5. HasMap(p) \/ p \in granted
  <2> SUFFICES ASSUME Sound(p)
               PROVE  FALSE
    BY <1>1 DEF Sound
  <2>1. Len(T) <= 1
    BY DEF HeapInv, ProgramOK, SingleHeap
  <2>2. busca_segmento(p, a) # 0
    BY <1>2 DEF sePuedeAgrandar
  <2>3. busca_segmento(p, a) = IF found = {} THEN 0 ELSE Min(found)
    BY DEF busca_segmento
  <2>4. found = {}
    <3> SUFFICES ASSUME NEW i \in DOMAIN T, a <= T[i].limit
                 PROVE  FALSE
      BY DEF Heap
    <3>1. i = Len(T) /\ Last(T) = T[i]
      <4> HIDE DEF T
      <4> QED
        BY <1>4, <2>1 DEF Last
    <3>2. T[i].limit \in Nat
      BY <1>4 DEF InSegment, Segments
    <3> DEFINE x == T[i].limit
    <3>3. x \in Nat /\ x + 1 <= x
      BY <3>1, <3>2
    <3> HIDE DEF x
    <3> QED
      BY <3>3
  <2> QED
    BY <2>2, <2>3, <2>4
<1>6. HasMap(p)' = HasMap(p) /\ granted' = granted
  BY <1>2 DEF HasMap, Heap, heap, clients
<1>7. ProgramOK(p)'
  <2>1. segment_table'[p] = T /\ live'[p] = live[p] /\ using_memory'[p] = using_memory[p] /\ req'[p] = req[p]
    BY <1>2 DEF heap, clients
  <2>2. req[p] \in Sizes \cup {0}
    BY DEF HeapInv, ProgramOK
  <2> QED
    BY <1>1, <1>2, <1>4, <2>1, <2>2 DEF ProgramOK, TableOK, Labels, Sound
<1>8. Kept(p)
  BY <1>2, <1>5, <1>6, <1>7 DEF Kept, HeapInv, heap, clients
<1> QED
  BY <1>3, <1>8, OthersKept

\* A new segment is sound because the program had none, and then no blocks either.
LEMMA MallocNewSegmentIs ==
  ASSUME HeapInv, NEW p \in Programs, MallocNewSegment(p)
  PROVE  HeapInv'
<1> DEFINE T == segment_table[p]
           n == CeilDiv(req[p] + 2 * METADATA_SIZE, PAGE_SIZE)
           z == n * PAGE_SIZE
           s == [is_heap |-> TRUE, base |-> 0, limit |-> z,
                 hdr |-> [d \in {0} |-> [size |-> z - METADATA_SIZE, is_free |-> TRUE]]]
           U == Append(T, s)
<1>1. /\ PerProgram(pc') /\ pc'[p] = "check" /\ pc[p] = "new" /\ ~lost /\ lost = FALSE
      /\ \A q \in Programs : q # p => pc'[q] = pc[q]
  BY CriticalIs DEF MallocNewSegment
<1>2. /\ segment_table' = Changed(segment_table, p, U) /\ pages' = pages + n
      /\ UNCHANGED <<using_memory, mutex_lock, req, lost, clients>>
  <2>1. p \in DOMAIN segment_table
    BY DEF HeapInv, PerProgram
  <2> QED
    BY <2>1 DEF MallocNewSegment, Changed
<1>3. /\ T \in Seq(Segments) /\ \A j \in DOMAIN T : InSegment(T[j]) /\ (T[j].is_heap => Tiled(T[j]))
      /\ live[p] \in Seq(Block) /\ using_memory[p] \in Int
  BY <1>1 DEF HeapInv, ProgramOK, TableOK, TableTiled
<1>4. req[p] \in Nat /\ req[p] > 0
  BY <1>1, RequestIs
<1>5. n \in Nat /\ z \in Nat /\ 5 <= z
  <2> DEFINE k == req[p] + 2 * METADATA_SIZE
  <2>1. k \in Int /\ k > 10
    BY <1>4 DEF METADATA_SIZE
  <2>2. PAGE_SIZE \in Nat \ {0}
    BY HeapAssumption DEF HeapAssumption
  <2> HIDE DEF k
  <2> DEFINE c == CeilDiv(k, PAGE_SIZE)
             y == c * PAGE_SIZE
  <2>3. c \in Int /\ y \in Int /\ y >= k /\ (c >= 0 => y \in Nat) /\ (k > 0 => c > 0)
    BY <2>1, <2>2, CeilIs
  <2> HIDE DEF y
  <2>4. y \in Nat /\ 5 <= y
    BY <2>1, <2>3
  <2> HIDE DEF c
  <2>5. c \in Nat
    BY <2>1, <2>3
  <2> QED
    BY <2>4, <2>5 DEF c, y, k
<1> HIDE DEF n, z
<1>6. /\ Tiled(s) /\ s.is_heap /\ s.base = 0 /\ Chain(s) = {0} /\ s.limit = z
      /\ s.hdr[0].is_free /\ NextMetadata(s, 0) = z
  <2> DEFINE u == s
  <2>1. u = [is_heap |-> TRUE, base |-> 0, limit |-> z,
             hdr |-> [d \in {0} |-> [size |-> z - METADATA_SIZE, is_free |-> TRUE]]]
    OBVIOUS
  <2> HIDE DEF u
  <2>2. /\ Tiled(u) /\ u.is_heap /\ u.base = 0 /\ Chain(u) = {0} /\ u.limit = z
        /\ u.hdr[0].is_free /\ NextMetadata(u, 0) = z
    BY <1>5, <2>1, NewIs
  <2> QED
    BY <2>2 DEF u
<1> HIDE DEF s
<1>7. s \in Segments /\ InSegment(s)
  BY <1>6 DEF Tiled, InSegment
<1> HIDE DEF T
<1>8. /\ U \in Seq(Segments) /\ Len(U) = Len(T) + 1 /\ DOMAIN U = 1..(Len(T) + 1) /\ U # <<>>
      /\ U[Len(T) + 1] = s /\ \A j \in DOMAIN T : U[j] = T[j]
      /\ \A j \in DOMAIN U : j \in DOMAIN T \/ j = Len(T) + 1
  BY <1>3, <1>7
<1> HIDE DEF U
<1>9. /\ PerProgram(segment_table') /\ segment_table'[p] = U
      /\ \A q \in Programs : q # p => segment_table'[q] = segment_table[q]
  BY <1>2, ChangedIs DEF HeapInv
<1>10. StepOf(p)
  BY <1>1, <1>2, <1>9 DEF StepOf, HeapInv, clients
<1>11. TableOK(U) /\ TableTiled(U)
  BY <1>3, <1>6, <1>7, <1>8 DEF TableOK, TableTiled
<1>12. ASSUME Sound(p)'
       PROVE  SingleHeap(U, live[p], using_memory[p], "check", req[p])
  <2>1. Sound(p)
    <3>1. HasMap(p) => HasMap(p)'
      <4>1. \A j \in DOMAIN T : j \in DOMAIN U
        BY <1>3, <1>8
      <4> QED
        BY <1>8, <1>9, <4>1 DEF HasMap, Heap, T
    <3> QED
      BY <1>1, <1>2, <1>12, <3>1 DEF Sound, clients
  <2>2. T = <<>> /\ live[p] = <<>> /\ using_memory[p] <= Held(live[p])
    BY <1>1, <2>1 DEF HeapInv, ProgramOK, SingleHeap, T
  <2>3. Len(U) = 1 /\ \A j \in DOMAIN U : U[j] = s
    BY <1>8, <2>2
  <2>4. SegmentSound(s, <<>>)
    <3>1. HasFree(s)
      BY <1>6 DEF HasFree
    <3>2. Used(s) = {}
      BY <1>6 DEF Used
    <3>3. Matched(s, <<>>)
      BY <3>2 DEF Matched
    <3>4. Merged(s)
      <4>1. ~(z < z)
        BY <1>5
      <4> QED
        BY <1>6, <4>1 DEF Merged
    <3> QED
      BY <1>6, <3>1, <3>3, <3>4 DEF SegmentSound
  <2> QED
    BY <1>8, <2>2, <2>3, <2>4 DEF SingleHeap
<1>13. ProgramOK(p)'
  <2>1. /\ live'[p] = live[p] /\ using_memory'[p] = using_memory[p] /\ req'[p] = req[p]
        /\ req[p] \in Sizes \cup {0}
    BY <1>2 DEF clients, HeapInv, ProgramOK
  <2> QED
    BY <1>1, <1>2, <1>3, <1>9, <1>11, <1>12, <2>1 DEF ProgramOK, Labels
<1>14. pages' \in Nat
  BY <1>2, <1>5 DEF HeapInv
<1>15. Kept(p)
  BY <1>1, <1>2, <1>13, <1>14 DEF Kept, HeapInv, clients
<1> QED
  BY <1>10, <1>15, OthersKept

\* A mapped segment ends what can be said of the heap of its program.
LEMMA MapIs ==
  ASSUME HeapInv, NEW p \in Programs, crear_nuevo_segmento_mmap(p)
  PROVE  HeapInv'
<1> DEFINE T == segment_table[p]
           base == IF T = <<>> THEN 0 ELSE Last(T).limit + 1
           h == <<>>
           s == [is_heap |-> FALSE, base |-> base, limit |-> base + PAGE_SIZE, hdr |-> h]
           U == Append(T, s)
<1>1. /\ PerProgram(pc') /\ pc'[p] = "idle" /\ pc[p] = "idle" /\ ~lost /\ lost = FALSE
      /\ \A q \in Programs : q # p => pc'[q] = pc[q]
  BY CriticalIs DEF crear_nuevo_segmento_mmap
<1>2. /\ segment_table' = Changed(segment_table, p, U) /\ lost' \in BOOLEAN
      /\ UNCHANGED <<using_memory, pages, mutex_lock, req, clients>>
  <2>1. p \in DOMAIN segment_table
    BY DEF HeapInv, PerProgram
  <2> QED
    BY <2>1 DEF crear_nuevo_segmento_mmap, Changed
<1>3. /\ T \in Seq(Segments) /\ \A j \in DOMAIN T : InSegment(T[j]) /\ (T[j].is_heap => Tiled(T[j]))
      /\ live[p] \in Seq(Block) /\ using_memory[p] \in Int
  BY <1>1 DEF HeapInv, ProgramOK, TableOK, TableTiled
<1>4. base \in Nat /\ base + PAGE_SIZE \in Nat /\ base <= base + PAGE_SIZE
  <2>1. base \in Nat
    <3>1. CASE T = <<>>
      BY <3>1
    <3>2. CASE T # <<>>
      <4>1. Len(T) \in DOMAIN T
        <5> HIDE DEF T
        <5> QED
          BY <1>3, <3>2
      <4>2. Last(T).limit \in Nat
        BY <1>3, <4>1 DEF Last, InSegment, Segments
      <4> QED
        BY <3>2, <4>2
    <3> QED
      BY <3>1, <3>2
  <2>2. PAGE_SIZE \in Nat
    BY HeapAssumption DEF HeapAssumption
  <2> HIDE DEF base
  <2> QED
    BY <2>1, <2>2
<1> HIDE DEF base
<1>5. h \in Maps /\ DOMAIN h = {}
  <2>1. DOMAIN h = {} /\ h = [x \in DOMAIN h |-> h[x]]
    OBVIOUS
  <2> QED
    BY <2>1, MapsAre
<1> HIDE DEF h
<1>6. /\ s \in Segments /\ s.is_heap = FALSE /\ s.base = base /\ s.limit = base + PAGE_SIZE /\ s.hdr = h
  <2>1. \A a, b, c, d : LET r == [is_heap |-> a, base |-> b, limit |-> c, hdr |-> d] IN
          r.is_heap = a /\ r.base = b /\ r.limit = c /\ r.hdr = d
    OBVIOUS
  <2>2. FALSE \in BOOLEAN
    OBVIOUS
  <2>3. s \in Segments
    BY <1>4, <1>5, <2>2, SegmentIs
  <2> QED
    BY <2>1, <2>3
<1> HIDE DEF s
<1>7. InSegment(s)
  BY <1>4, <1>5, <1>6 DEF InSegment
<1> HIDE DEF T
<1>8. /\ U \in Seq(Segments) /\ Len(U) = Len(T) + 1 /\ U # <<>>
      /\ Len(T) + 1 \in DOMAIN U /\ U[Len(T) + 1] = s /\ \A j \in DOMAIN T : U[j] = T[j]
      /\ \A j \in DOMAIN U : j \in DOMAIN T \/ j = Len(T) + 1
  BY <1>3, <1>6
<1> HIDE DEF U
<1>9. /\ PerProgram(segment_table') /\ segment_table'[p] = U
      /\ \A q \in Programs : q # p => segment_table'[q] = segment_table[q]
  BY <1>2, ChangedIs DEF HeapInv
<1>10. StepOf(p)
  BY <1>1, <1>2, <1>9 DEF StepOf, HeapInv, clients
<1>11. TableOK(U) /\ TableTiled(U)
  BY <1>3, <1>6, <1>7, <1>8 DEF TableOK, TableTiled
<1>12. HasMap(p)'
  BY <1>6, <1>8, <1>9 DEF HasMap, Heap
<1>13. ProgramOK(p)'
  <2>1. /\ live'[p] = live[p] /\ using_memory'[p] = using_memory[p] /\ req'[p] = req[p]
        /\ req[p] \in Sizes \cup {0}
    BY <1>2 DEF clients, HeapInv, ProgramOK
  <2>2. ~Sound(p)'
    BY <1>12 DEF Sound
  <2> QED
    BY <1>1, <1>3, <1>9, <1>11, <2>1, <2>2 DEF ProgramOK, Labels
<1>14. Kept(p)
  BY <1>2, <1>12, <1>13 DEF Kept, HeapInv, clients
<1> QED
  BY <1>10, <1>14, OthersKept

(***************************************************************************)
(* memory_free.                                                            *)
(***************************************************************************)
\* The segments of p when the header d of segment i is marked free, and after compaction.
Marked(p, i, d, j) == IF j = i THEN Mark(Heap(p, j), d) ELSE Heap(p, j)
CompactedTable(p, i, d) ==
  [j \in DOMAIN segment_table[p] |->
    IF Heap(p, j).is_heap THEN compactar_espacios_libres(Marked(p, i, d, j)) ELSE Heap(p, j)]

\* There is no header to mark, or a walk that leaves the headers.
Broken(p, i, d) ==
  \/ ~(i # 0 /\ d \in DOMAIN Heap(p, i).hdr)
  \/ \E j \in HeapSegments(p) : ~CompactsSafely(Marked(p, i, d, j))

\* What a free does with the header d of segment i.
Frees(p, k, i, d) ==
  /\ i = busca_segmento(p, live[p][k].addr) /\ d = MetadataOf(live[p][k].addr)
  /\ Critical(p, "idle", "idle")
  /\ live' = Changed(live, p, RemoveAt(live[p], k))
  /\ \/ /\ Broken(p, i, d) \/ HasMap(p)
        /\ lost' = TRUE
        /\ UNCHANGED <<segment_table, using_memory>>
     \/ /\ ~Broken(p, i, d)
        /\ segment_table' = Changed(segment_table, p, CompactedTable(p, i, d))
        /\ using_memory' = Changed(using_memory, p, using_memory[p] - Heap(p, i).hdr[d].size)
        /\ UNCHANGED lost
  /\ UNCHANGED <<pages, mutex_lock, req, granted, mallocs>>

LEMMA FreesIs ==
  ASSUME HeapInv, NEW p \in Programs, memory_free(p)
  PROVE  \E k \in DOMAIN live[p] : \E i, d : Frees(p, k, i, d)
<1>1. PICK k \in DOMAIN live[p] :
        LET b == live[p][k]
            d == MetadataOf(b.addr)
            i == busca_segmento(p, b.addr)
            found == i # 0 /\ d \in DOMAIN Heap(p, i).hdr
            marked(j) == IF j = i THEN [Heap(p, j) EXCEPT !.hdr[d].is_free = TRUE] ELSE Heap(p, j)
            broken == ~found \/ \E j \in HeapSegments(p) : ~CompactsSafely(marked(j))
        IN /\ Critical(p, "idle", "idle")
           /\ live' = [live EXCEPT ![p] = RemoveAt(@, k)]
           /\ \/ /\ broken \/ HasMap(p)
                 /\ lost' = TRUE
                 /\ UNCHANGED <<segment_table, using_memory>>
              \/ /\ ~broken
                 /\ segment_table' = [segment_table EXCEPT ![p] =
                      [j \in DOMAIN @ |-> IF @[j].is_heap THEN compactar_espacios_libres(marked(j)) ELSE @[j]]]
                 /\ using_memory' = [using_memory EXCEPT ![p] = @ - Heap(p, i).hdr[d].size]
                 /\ UNCHANGED lost
           /\ UNCHANGED <<pages, mutex_lock, req, granted, mallocs>>
  BY DEF memory_free
<1> DEFINE d == MetadataOf(live[p][k].addr)
           i == busca_segmento(p, live[p][k].addr)
<1>2. \A j : Marked(p, i, d, j) = IF j = i THEN [Heap(p, j) EXCEPT !.hdr[d].is_free = TRUE] ELSE Heap(p, j)
  BY DEF Marked, Mark
<1>3. p \in DOMAIN segment_table /\ p \in DOMAIN using_memory /\ p \in DOMAIN live
  BY DEF HeapInv, PerProgram
<1>4. /\ Critical(p, "idle", "idle")
      /\ live' = Changed(live, p, RemoveAt(live[p], k))
      /\ \/ /\ Broken(p, i, d) \/ HasMap(p)
            /\ lost' = TRUE
            /\ UNCHANGED <<segment_table, using_memory>>
         \/ /\ ~Broken(p, i, d)
            /\ segment_table' = [segment_table EXCEPT ![p] =
                 [j \in DOMAIN @ |-> IF @[j].is_heap THEN compactar_espacios_libres(Marked(p, i, d, j)) ELSE @[j]]]
            /\ using_memory' = [using_memory EXCEPT ![p] = @ - Heap(p, i).hdr[d].size]
            /\ UNCHANGED lost
      /\ UNCHANGED <<pages, mutex_lock, req, granted, mallocs>>
  BY <1>1 DEF Changed, Broken, Marked, Mark
<1> HIDE DEF d, i
<1>5. \/ /\ Broken(p, i, d) \/ HasMap(p)
         /\ lost' = TRUE
         /\ UNCHANGED <<segment_table, using_memory>>
      \/ /\ ~Broken(p, i, d)
         /\ segment_table' = Changed(segment_table, p, CompactedTable(p, i, d))
         /\ using_memory' = Changed(using_memory, p, using_memory[p] - Heap(p, i).hdr[d].size)
         /\ UNCHANGED lost
  BY <1>3, <1>4 DEF Changed, CompactedTable, Heap
<1>6. Frees(p, k, i, d)
  BY <1>4, <1>5 DEF Frees, d, i
<1> QED
  BY <1>6

\* The segment with an address is one of the table.
LEMMA SegmentFound ==
  ASSUME NEW p, segment_table[p] \in Seq(Segments), NEW a, NEW i, i = busca_segmento(p, a)
  PROVE  /\ i # 0 => i \in DOMAIN segment_table[p]
         /\ i = 0 => \A j \in DOMAIN segment_table[p] :
                       ~(Heap(p, j).base <= a /\ a <= Heap(p, j).limit)
<1> DEFINE T == segment_table[p]
           found == {j \in DOMAIN T : Heap(p, j).base <= a /\ a <= Heap(p, j).limit}
<1>1. i = IF found = {} THEN 0 ELSE Min(found)
  BY DEF busca_segmento
<1>2. found \subseteq DOMAIN T /\ DOMAIN T = 1..Len(T) /\ Len(T) \in Nat
  OBVIOUS
<1> HIDE DEF found, T
<1>3. found # {} => Min(found) \in found
  <2>1. found \in SUBSET Nat
    BY <1>2
  <2> QED
    BY <2>1, MinOf
<1>4. i # 0 => i \in DOMAIN T
  BY <1>1, <1>2, <1>3
<1>5. i = 0 => found = {}
  BY <1>1, <1>2, <1>3
<1> QED
  BY <1>4, <1>5 DEF found, T

\* In a sound heap the header of the block is found, and the compaction keeps it sound.
LEMMA FreedSound ==
  ASSUME HeapInv, NEW p \in Programs, NEW k \in DOMAIN live[p], NEW i, NEW d, Frees(p, k, i, d), Sound(p)
  PROVE  /\ ~Broken(p, i, d) /\ i \in DOMAIN segment_table[p] /\ Len(segment_table[p]) = 1
         /\ Heap(p, i).hdr[d].size \in Nat /\ Heap(p, i).hdr[d].size >= live[p][k].size
         /\ SegmentSound(CompactedTable(p, i, d)[i], RemoveAt(live[p], k))
<1> DEFINE T == segment_table[p]
           l == live[p]
           a == l[k].addr
           s == T[1]
           t == Mark(s, d)
           m == RemoveAt(l, k)
<1>1. /\ i = busca_segmento(p, a) /\ d = MetadataOf(a) /\ ~lost
  BY DEF Frees, Sound
<1>2. /\ T \in Seq(Segments) /\ l \in Seq(Block) /\ \A j \in DOMAIN T : T[j].is_heap => Tiled(T[j])
      /\ Len(T) <= 1 /\ (T = <<>> => l = <<>>) /\ \A j \in DOMAIN T : SegmentSound(T[j], l)
  BY <1>1 DEF HeapInv, ProgramOK, TableOK, TableTiled, SingleHeap
<1>3. \A j \in DOMAIN T : T[j].is_heap
  BY DEF Sound, HasMap, Heap
<1>4. Len(T) = 1 /\ DOMAIN T = {1}
  <2>1. l # <<>>
    OBVIOUS
  <2>2. T # <<>>
    BY <1>2, <2>1
  <2>3. T \in Seq(Segments) /\ Len(T) <= 1
    BY <1>2
  <2> HIDE DEF T, l
  <2>4. Len(T) \in DOMAIN T /\ DOMAIN T = 1..Len(T)
    BY <2>2, <2>3
  <2>5. Len(T) = 1
    BY <2>3, <2>4
  <2> QED
    BY <2>4, <2>5
<1>5. Tiled(s) /\ s.base = 0 /\ HasFree(s) /\ Matched(s, l)
  BY <1>2, <1>3, <1>4 DEF SegmentSound
<1> HIDE DEF T, s, t, m
<1>6. /\ d \in Used(s) /\ s.hdr[d].size >= l[k].size /\ Tiled(t)
      /\ Matched(t, m) /\ EarlyFree(t) /\ CompactsSafely(t)
  <2>1. t = Mark(s, d)
    BY DEF t
  <2> QED
    BY <1>1, <1>2, <1>5, <2>1, MatchedMarked DEF m
<1>7. a \in Nat /\ d = a - 5
  BY <1>1, <1>2, BlocksAre
<1>8. i = 1
  <2>1. d \in Chain(s)
    BY <1>6 DEF Used
  <2>2. d + 5 <= NextMetadata(s, d) /\ NextMetadata(s, d) <= s.limit /\ NextMetadata(s, d) \in Nat
        /\ s.limit \in Nat /\ d \in Nat
    BY <1>5, <2>1, HeaderIs
  <2>3. s.base <= a /\ a <= s.limit
    BY <1>5, <1>7, <2>2
  <2>4. Heap(p, 1) = s /\ 1 \in DOMAIN T
    BY <1>4 DEF Heap, s, T
  <2>5. i # 0
    BY <1>1, <1>2, <2>3, <2>4, SegmentFound DEF T
  <2>6. i \in DOMAIN T
    BY <1>1, <1>2, <2>5, SegmentFound DEF T
  <2> QED
    BY <1>4, <2>6
<1>9. Heap(p, i) = s /\ Marked(p, i, d, i) = t /\ i \in DOMAIN T /\ s.is_heap
  BY <1>3, <1>4, <1>8 DEF Heap, Marked, s, t, T
<1>10. d \in DOMAIN s.hdr /\ s.hdr[d].size \in Nat
  <2>1. d \in Chain(s)
    BY <1>6 DEF Used
  <2> QED
    BY <1>5, <2>1, HeaderIs
<1>11. ~Broken(p, i, d)
  <2>1. \A j \in HeapSegments(p) : j = i
    BY <1>4, <1>8 DEF HeapSegments, T
  <2> QED
    BY <1>6, <1>8, <1>9, <1>10, <2>1 DEF Broken
<1> DEFINE u == compactar_espacios_libres(t)
<1>12. CompactedTable(p, i, d)[i] = u
  BY <1>9 DEF CompactedTable, T
<1>13. KeepsUsed(t, u) /\ Merged(u) /\ HasFree(u)
  <2> HIDE DEF u
  <2>1. u = compactar_espacios_libres(t)
    BY DEF u
  <2> QED
    BY <1>6, <2>1, CompactedIs
<1>14. m \in Seq(Block)
  BY <1>2, RemovedIs DEF m
<1> HIDE DEF u
<1>15. Matched(u, m)
  BY <1>6, <1>13, <1>14, MatchedKept
<1>16. u.base = 0
  <2>1. InSegment(s)
    BY <1>5 DEF Tiled
  <2>2. t = Mark(s, d)
    BY DEF t
  <2>3. t.base = 0
    BY <1>5, <1>10, <2>1, <2>2, MarkIs DEF Rewritten
  <2> QED
    BY <1>13, <2>3 DEF KeepsUsed, Rewritten
<1>17. SegmentSound(u, m)
  BY <1>13, <1>15, <1>16 DEF SegmentSound
<1> QED
  BY <1>4, <1>6, <1>9, <1>10, <1>11, <1>12, <1>17 DEF T, m

LEMMA FreeIs ==
  ASSUME HeapInv, NEW p \in Programs, memory_free(p)
  PROVE  HeapInv'
<1>0. PICK k \in DOMAIN live[p] : \E i, d : Frees(p, k, i, d)
  BY FreesIs
<1>1. PICK i, d : Frees(p, k, i, d)
  BY <1>0
<1> DEFINE T == segment_table[p]
           l == live[p]
           m == RemoveAt(l, k)
           U == CompactedTable(p, i, d)
<1>2. /\ i = busca_segmento(p, l[k].addr) /\ Critical(p, "idle", "idle")
      /\ live' = Changed(live, p, m)
      /\ UNCHANGED <<pages, mutex_lock, req, granted, mallocs>>
  BY <1>1 DEF Frees
<1>3. /\ PerProgram(pc') /\ pc'[p] = "idle" /\ pc[p] = "idle" /\ ~lost /\ lost = FALSE
      /\ \A q \in Programs : q # p => pc'[q] = pc[q]
  BY <1>2, CriticalIs
<1>4. /\ T \in Seq(Segments) /\ \A j \in DOMAIN T : InSegment(T[j]) /\ (T[j].is_heap => Tiled(T[j]))
      /\ l \in Seq(Block) /\ using_memory[p] \in Int /\ k \in DOMAIN l
      /\ req[p] \in Sizes \cup {0}
  BY <1>3 DEF HeapInv, ProgramOK, TableOK, TableTiled
<1>5. m \in Seq(Block)
  BY <1>4, RemovedIs
<1>6. /\ PerProgram(live') /\ live'[p] = m /\ \A q \in Programs : q # p => live'[q] = live[q]
  <2>1. PerProgram(live)
    BY DEF HeapInv
  <2> HIDE DEF m
  <2> QED
    BY <1>2, <2>1, ChangedIs
<1>7. CASE (Broken(p, i, d) \/ HasMap(p)) /\ lost' = TRUE /\ UNCHANGED <<segment_table, using_memory>>
  <2>1. HasMap(p) \/ p \in granted
    <3> SUFFICES ASSUME Sound(p)
                 PROVE  FALSE
      BY <1>3 DEF Sound
    <3>1. ~Broken(p, i, d)
      BY <1>1, FreedSound
    <3> QED
      BY <1>7, <3>1 DEF Sound
  <2>2. HasMap(p)' = HasMap(p) /\ granted' = granted
    BY <1>2, <1>7 DEF HasMap, Heap
  <2>3. StepOf(p)
    BY <1>2, <1>3, <1>6, <1>7 DEF StepOf, HeapInv
  <2>4. ProgramOK(p)'
    <3>1. segment_table'[p] = T /\ using_memory'[p] = using_memory[p] /\ req'[p] = req[p]
      BY <1>2, <1>7
    <3>2. TableOK(T)
      BY <1>4 DEF TableOK
    <3> HIDE DEF T, m
    <3> QED
      BY <1>3, <1>4, <1>5, <1>6, <1>7, <3>1, <3>2 DEF ProgramOK, Labels, Sound
  <2>5. Kept(p)
    BY <1>2, <1>7, <2>1, <2>2, <2>4 DEF Kept, HeapInv
  <2> QED
    BY <2>3, <2>5, OthersKept
<1>8. CASE /\ ~Broken(p, i, d)
           /\ segment_table' = Changed(segment_table, p, U)
           /\ using_memory' = Changed(using_memory, p, using_memory[p] - Heap(p, i).hdr[d].size)
           /\ UNCHANGED lost
  <2>1. /\ i \in DOMAIN T /\ d \in DOMAIN T[i].hdr
        /\ \A j \in HeapSegments(p) : CompactsSafely(Marked(p, i, d, j))
    <3>1. /\ i # 0 /\ d \in DOMAIN T[i].hdr
          /\ \A j \in HeapSegments(p) : CompactsSafely(Marked(p, i, d, j))
      BY <1>8 DEF Broken, Heap
    <3>2. i \in DOMAIN T
      BY <1>2, <1>4, <3>1, SegmentFound
    <3> QED
      BY <3>1, <3>2
  <2>2. ASSUME NEW j \in DOMAIN T
        PROVE  /\ InSegment(U[j]) /\ U[j].is_heap = T[j].is_heap
               /\ U[j].is_heap => Tiled(U[j])
    <3>1. CASE ~T[j].is_heap
      <4>1. U[j] = T[j]
        BY <3>1 DEF CompactedTable, Heap
      <4> QED
        BY <1>4, <3>1, <4>1
    <3>2. CASE T[j].is_heap
      <4> DEFINE v == Marked(p, i, d, j)
                 u == compactar_espacios_libres(v)
      <4>1. U[j] = u
        BY <3>2 DEF CompactedTable, Heap
      <4>2. Tiled(v) /\ v.is_heap = T[j].is_heap
        <5>1. CASE j = i
          <6>1. v = Mark(T[j], d) /\ Tiled(T[j]) /\ d \in DOMAIN T[j].hdr
            BY <1>4, <2>1, <3>2, <5>1 DEF Marked, Heap
          <6> DEFINE s == T[j]
          <6>2. Tiled(s) /\ InSegment(s) /\ d \in DOMAIN s.hdr /\ v = Mark(s, d)
            BY <6>1 DEF Tiled
          <6> HIDE DEF s, v
          <6>3. Tiled(v)
            BY <6>2, MarkedTiled
          <6>4. Rewritten(s, v)
            BY <6>2, MarkIs
          <6> QED
            BY <6>3, <6>4 DEF Rewritten, s
        <5>2. CASE j # i
          <6>1. v = T[j]
            BY <5>2 DEF Marked, Heap
          <6> QED
            BY <1>4, <3>2, <6>1
        <5> QED
          BY <5>1, <5>2
      <4>3. CompactsSafely(v)
        BY <2>1, <3>2 DEF HeapSegments, Heap
      <4> HIDE DEF v
      <4>4. KeepsUsed(v, u)
        <5> HIDE DEF u
        <5>1. u = compactar_espacios_libres(v)
          BY DEF u
        <5> QED
          BY <4>2, <4>3, <5>1, CompactedIs
      <4> HIDE DEF u, U
      <4>5. Tiled(u) /\ u.is_heap = v.is_heap
        BY <4>4 DEF KeepsUsed, Rewritten
      <4> QED
        BY <4>1, <4>2, <4>5 DEF Tiled
    <3> QED
      BY <3>1, <3>2
  <2>3. U \in Seq(Segments) /\ DOMAIN U = DOMAIN T /\ Len(U) = Len(T)
    <3>1. DOMAIN U = DOMAIN T /\ DOMAIN T = 1..Len(T) /\ Len(T) \in Nat
      BY <1>4 DEF CompactedTable
    <3>2. U = [j \in 1..Len(T) |-> U[j]]
      BY <3>1 DEF CompactedTable
    <3> HIDE DEF U
    <3>3. \A j \in 1..Len(T) : U[j] \in Segments
      BY <2>2, <3>1 DEF InSegment
    <3> QED
      BY <3>1, <3>2, <3>3
  <2>4. TableOK(U) /\ TableTiled(U)
    BY <2>2, <2>3 DEF TableOK, TableTiled
  <2> HIDE DEF U
  <2>5. /\ PerProgram(segment_table') /\ segment_table'[p] = U
        /\ \A q \in Programs : q # p => segment_table'[q] = segment_table[q]
    BY <1>8, ChangedIs DEF HeapInv
  <2> DEFINE x == T[i].hdr[d].size
  <2>6. /\ PerProgram(using_memory') /\ using_memory'[p] = using_memory[p] - x
        /\ \A q \in Programs : q # p => using_memory'[q] = using_memory[q]
    <3>1. using_memory' = Changed(using_memory, p, using_memory[p] - x)
      BY <1>8 DEF Heap
    <3> HIDE DEF x
    <3> QED
      BY <3>1, ChangedIs DEF HeapInv
  <2>7. x \in Nat
    <3>1. InSegment(T[i])
      BY <1>4, <2>1
    <3> QED
      BY <2>1, <3>1, NextIs
  <2>8. StepOf(p)
    BY <1>2, <1>3, <1>6, <1>8, <2>5, <2>6 DEF StepOf, HeapInv
  <2>9. ASSUME Sound(p)'
        PROVE  SingleHeap(U, m, using_memory[p] - x, "idle", req[p])
    <3>1. Sound(p)
      <4>1. HasMap(p) => HasMap(p)'
        BY <2>2, <2>3, <2>5 DEF HasMap, Heap, U
      <4> QED
        BY <1>2, <1>3, <2>9, <4>1 DEF Sound
    <3>2. /\ Len(T) = 1 /\ x >= l[k].size /\ SegmentSound(U[i], m)
      BY <1>1, <3>1, FreedSound DEF U, Heap
    <3>3. using_memory[p] <= Held(l)
      BY <3>1 DEF HeapInv, ProgramOK, SingleHeap
    <3>4. Held(m) = Held(l) - l[k].size /\ Held(l) \in Nat /\ l[k].size \in Nat
      BY <1>4, HeldLess
    <3>5. using_memory[p] - x <= Held(m)
      <4> DEFINE y == l[k].size
                 z == Held(l)
                 w == Held(m)
      <4>1. w = z - y /\ z \in Nat /\ y \in Nat /\ x >= y /\ using_memory[p] <= z
        BY <3>2, <3>3, <3>4
      <4> HIDE DEF w, x, y, z
      <4>2. using_memory[p] - x <= w
        BY <1>4, <2>7, <4>1
      <4> QED
        BY <4>2 DEF w
    <3>6. \A j \in DOMAIN U : j = i
      BY <1>4, <2>1, <2>3, <3>2
    <3>7. U # <<>> /\ \A j \in DOMAIN U : SegmentSound(U[j], m)
      BY <2>1, <2>3, <3>2, <3>6
    <3> QED
      BY <2>3, <3>2, <3>5, <3>7 DEF SingleHeap
  <2>10. ProgramOK(p)'
    <3>1. req'[p] = req[p]
      BY <1>2
    <3>2. using_memory[p] - x \in Int
      BY <1>4, <2>7
    <3> HIDE DEF T, m, x
    <3> QED
      BY <1>3, <1>4, <1>5, <1>6, <2>4, <2>5, <2>6, <2>9, <3>1, <3>2 DEF ProgramOK, Labels
  <2>11. Kept(p)
    BY <1>2, <1>3, <1>8, <2>10 DEF Kept, HeapInv
  <2> QED
    BY <2>8, <2>11, OthersKept
<1> QED
  BY <1>1, <1>7, <1>8 DEF Frees

(***************************************************************************)
(* The invariant holds, and the properties follow from it.                 *)
(***************************************************************************)
LEMMA InitInv ==
  Init => HeapInv
<1> SUFFICES ASSUME Init
             PROVE  HeapInv
  OBVIOUS
<1>1. /\ PerProgram(segment_table) /\ PerProgram(live) /\ PerProgram(using_memory)
      /\ PerProgram(pc) /\ PerProgram(req)
  BY DEF Init, PerProgram
<1>2. ASSUME NEW p \in Programs
      PROVE  ProgramOK(p)
  <2>1. /\ segment_table[p] = <<>> /\ live[p] = <<>> /\ using_memory[p] = 0 /\ pc[p] = "idle" /\ req[p] = 0
    BY DEF Init
  <2>2. TableOK(<<>>) /\ TableTiled(<<>>) /\ <<>> \in Seq(Block)
    BY DEF TableOK, TableTiled
  <2>3. SingleHeap(<<>>, <<>>, 0, "idle", 0)
    <3>1. 0 <= Held(<<>>)
      BY HeldNothing
    <3>2. Len(<<>>) <= 1 /\ \A i \in DOMAIN <<>> : FALSE
      OBVIOUS
    <3> QED
      BY <3>1, <3>2 DEF SingleHeap
  <2> QED
    BY <2>1, <2>2, <2>3 DEF ProgramOK, Labels
<1>3. 0 \in 0..MaxMallocs
  BY HeapAssumption DEF HeapAssumption
<1>4. LostOnlyAfterFault
  BY DEF Init, LostOnlyAfterFault
<1> QED
  BY <1>1, <1>2, <1>3, <1>4 DEF Init, HeapInv

LEMMA StepInv ==
  HeapInv /\ [Next]_vars => HeapInv'
<1> SUFFICES ASSUME HeapInv, [Next]_vars
             PROVE  HeapInv'
  OBVIOUS
<1>1. CASE UNCHANGED vars
  <2>1. /\ segment_table' = segment_table /\ live' = live /\ using_memory' = using_memory /\ pc' = pc
        /\ req' = req /\ pages' = pages /\ mutex_lock' = mutex_lock /\ lost' = lost
        /\ granted' = granted /\ mallocs' = mallocs
    BY <1>1 DEF vars
  <2>2. ASSUME NEW p \in Programs
        PROVE  ProgramOK(p)'
    <3>1. ProgramOK(p)
      BY DEF HeapInv
    <3> QED
      BY <2>1, <3>1 DEF ProgramOK, CanGrow, Sound, HasMap, Heap
  <2>3. LostOnlyAfterFault'
    BY <2>1 DEF HeapInv, LostOnlyAfterFault, HasMap, Heap
  <2> QED
    BY <2>1, <2>2, <2>3 DEF HeapInv, PerProgram
<1>2. ASSUME NEW p \in Programs,
             AskMalloc(p) \/ memory_malloc(p) \/ memory_free(p) \/ crear_nuevo_segmento_mmap(p)
      PROVE  HeapInv'
  <2>1. CASE AskMalloc(p)
    BY <2>1, AskIs
  <2>2. CASE memory_malloc(p)
    <3>1. CASE MallocNothing(p) \/ MallocRefused(p) \/ MallocCheck(p)
      BY <3>1, NothingIs
    <3>2. CASE MallocInSegment(p)
      BY <3>2, MallocInSegmentIs
    <3>3. CASE MallocNoRoom(p)
      BY <3>3, MallocNoRoomIs
    <3>4. CASE MallocGrow(p)
      BY <3>4, MallocGrowIs
    <3>5. CASE MallocBehind(p)
      BY <3>5, MallocBehindIs
    <3>6. CASE MallocNewSegment(p)
      BY <3>6, MallocNewSegmentIs
    <3> QED
      BY <2>2, <3>1, <3>2, <3>3, <3>4, <3>5, <3>6 DEF memory_malloc
  <2>3. CASE memory_free(p)
    BY <2>3, FreeIs
  <2>4. CASE crear_nuevo_segmento_mmap(p)
    BY <2>4, MapIs
  <2> QED
    BY <1>2, <2>1, <2>2, <2>3, <2>4
<1> QED
  BY <1>1, <1>2 DEF Next

\* In every reachable state the headers in use match the blocks of the client, segment
\* by segment, as memory_malloc, memory_free and the compaction of main_memory.c leave
\* them.
THEOREM HeapKept == Spec => []HeapInv
<1> QED
  BY InitInv, StepInv, PTL DEF Spec

\* The one segment of a sound heap.
LEMMA SoundIs ==
  ASSUME HeapInv, NEW p \in Programs, Sound(p)
  PROVE  /\ live[p] \in Seq(Block) /\ using_memory[p] <= Held(live[p])
         /\ \/ HeapSegments(p) = {} /\ live[p] = <<>>
            \/ /\ HeapSegments(p) = {1} /\ Tiled(Heap(p, 1)) /\ Merged(Heap(p, 1))
               /\ Matched(Heap(p, 1), live[p])
<1> DEFINE T == segment_table[p]
<1>1. /\ T \in Seq(Segments) /\ TableTiled(T) /\ live[p] \in Seq(Block)
      /\ Len(T) <= 1 /\ (T = <<>> => live[p] = <<>>) /\ using_memory[p] <= Held(live[p])
      /\ \A i \in DOMAIN T : SegmentSound(T[i], live[p])
  BY DEF HeapInv, ProgramOK, TableOK, SingleHeap, Sound
<1>2. \A i \in DOMAIN T : T[i].is_heap
  BY DEF Sound, HasMap, Heap
<1>3. HeapSegments(p) = DOMAIN T
  BY <1>2 DEF HeapSegments
<1>4. CASE T = <<>>
  <2>1. DOMAIN T = {}
    BY <1>4
  <2> QED
    BY <1>1, <1>3, <1>4, <2>1
<1>5. CASE T # <<>>
  <2> HIDE DEF T
  <2>1. Len(T) \in DOMAIN T /\ DOMAIN T = 1..Len(T)
    BY <1>1, <1>5
  <2>2. Len(T) = 1 /\ DOMAIN T = {1}
    BY <1>1, <2>1
  <2>3. Tiled(T[1]) /\ SegmentSound(T[1], live[p])
    BY <1>1, <1>2, <2>2 DEF TableTiled
  <2>4. Heap(p, 1) = T[1]
    BY DEF Heap, T
  <2> QED
    BY <1>1, <1>3, <2>2, <2>3, <2>4 DEF SegmentSound
<1> QED
  BY <1>4, <1>5

LEMMA InvType ==
  HeapInv => TypeOK
<1> SUFFICES ASSUME HeapInv
             PROVE  TypeOK
  OBVIOUS
<1>1. ASSUME NEW p \in Programs, NEW s \in Range(segment_table[p])
      PROVE  /\ s.is_heap \in BOOLEAN /\ s.base \in Nat /\ s.limit \in Nat /\ s.base <= s.limit
             /\ \A d \in DOMAIN s.hdr : d \in s.base..s.limit /\ s.hdr[d] \in Metadata
  <2>1. PICK i \in DOMAIN segment_table[p] : s = segment_table[p][i]
    BY DEF Range
  <2>2. InSegment(s)
    BY <2>1 DEF HeapInv, ProgramOK, TableOK
  <2>3. s.is_heap \in BOOLEAN /\ s.base \in Nat /\ s.limit \in Nat /\ s.base <= s.limit /\ s.hdr \in Maps
    BY <2>2 DEF InSegment, Segments
  <2>4. \A d \in DOMAIN s.hdr : s.hdr[d] \in Metadata
    BY <2>3, MapsAre
  <2>5. \A d \in DOMAIN s.hdr : d \in s.base..s.limit
    BY <2>2 DEF InSegment
  <2> QED
    BY <2>3, <2>4, <2>5
<1>2. /\ \A p \in Programs : using_memory[p] \in Int /\ pc[p] \in Labels /\ req[p] \in Sizes \cup {0}
  BY DEF HeapInv, ProgramOK
<1>3. using_memory \in [Programs -> Int]
  BY <1>2 DEF HeapInv, PerProgram
<1>4. pc \in [Programs -> Labels]
  BY <1>2 DEF HeapInv, PerProgram
<1>5. req \in [Programs -> Sizes \cup {0}]
  BY <1>2 DEF HeapInv, PerProgram
<1>6. /\ pages \in Nat /\ mutex_lock \in Programs \cup {NOBODY} /\ lost \in BOOLEAN
      /\ mallocs \in 0..MaxMallocs
  BY DEF HeapInv
<1> QED
  BY <1>1, <1>3, <1>4, <1>5, <1>6 DEF TypeOK, Labels

\* Every variable of the heap keeps its type, and every header ever written by
\* memory_malloc or the compaction is at an address of its segment.
THEOREM TypeKept == Spec => []TypeOK
<1> QED
  BY HeapKept, InvType, PTL

LEMMA InvDisjoint ==
  HeapInv => BlocksDisjoint
<1> SUFFICES ASSUME HeapInv, NEW p \in Programs, Sound(p),
                    NEW j \in DOMAIN live[p], NEW k \in DOMAIN live[p], j # k
             PROVE  Bytes(live[p][j]) \cap Bytes(live[p][k]) = {}
  BY DEF BlocksDisjoint
<1> DEFINE l == live[p]
           s == Heap(p, 1)
           d == MetadataOf(l[j].addr)
           e == MetadataOf(l[k].addr)
<1>1. l \in Seq(Block) /\ Tiled(s) /\ Matched(s, l)
  <2>1. l # <<>>
    OBVIOUS
  <2> QED
    BY <2>1, SoundIs
<1>2. /\ l[j].addr \in Nat /\ l[j].size \in Nat /\ d = l[j].addr - 5
      /\ l[k].addr \in Nat /\ l[k].size \in Nat /\ e = l[k].addr - 5
  BY <1>1, BlocksAre
<1>3. l[j].addr # l[k].addr
  BY <1>1 DEF Matched
<1>4. /\ d \in Used(s) /\ s.hdr[d].size >= l[j].size
      /\ e \in Used(s) /\ s.hdr[e].size >= l[k].size
  BY <1>1 DEF Matched
<1> HIDE DEF s, d, e
<1>5. d \in Chain(s) /\ e \in Chain(s)
  BY <1>4 DEF Used
<1>6. ASSUME NEW x \in Chain(s), NEW y \in Chain(s), x < y
      PROVE  x + 5 + s.hdr[x].size <= y
  <2>1. NextMetadata(s, x) <= y /\ NextMetadata(s, x) = x + 5 + s.hdr[x].size
    BY <1>1, <1>6, HeaderIs
  <2> QED
    BY <2>1
<1>7. d \in Nat /\ e \in Nat /\ s.hdr[d].size \in Nat /\ s.hdr[e].size \in Nat
  BY <1>1, <1>5, HeaderIs
<1> DEFINE a == l[j].addr
           m == l[j].size
           b == l[k].addr
           n == l[k].size
<1>8. Bytes(l[j]) = a..(a + m - 1) /\ Bytes(l[k]) = b..(b + n - 1)
  BY DEF Bytes
<1> HIDE DEF a, b, m, n, l
<1>9. a \in Nat /\ b \in Nat /\ m \in Nat /\ n \in Nat /\ d = a - 5 /\ e = b - 5 /\ a # b
      /\ s.hdr[d].size >= m /\ s.hdr[e].size >= n
  BY <1>2, <1>3, <1>4 DEF a, b, m, n
<1>10. a + m <= b \/ b + n <= a
  <2>1. CASE d < e
    <3>1. d + 5 + s.hdr[d].size <= e
      BY <1>5, <1>6, <2>1
    <3> QED
      BY <1>7, <1>9, <3>1
  <2>2. CASE e < d
    <3>1. e + 5 + s.hdr[e].size <= d
      BY <1>5, <1>6, <2>2
    <3> QED
      BY <1>7, <1>9, <3>1
  <2> QED
    BY <1>7, <1>9, <2>1, <2>2
<1>11. \A x \in a..(a + m - 1) : x \notin b..(b + n - 1)
  BY <1>9, <1>10
<1> QED
  BY <1>8, <1>11 DEF l

\* No two blocks that memory_malloc gave to a client share a byte, however the segment
\* was split, merged and grown, as long as no growth gave a block in use away and no
\* file is mapped.
THEOREM DisjointKept == Spec => []BlocksDisjoint
<1> QED
  BY HeapKept, InvDisjoint, PTL

\* Headers in use that match the blocks are as many as the blocks.
LEMMA MatchedCount ==
  ASSUME NEW s, NEW l \in Seq(Block), Matched(s, l), NEW C,
         C = {[seg |-> 1, addr |-> d] : d \in Used(s)}
  PROVE  Cardinality(C) = Len(l)
<1> DEFINE n == Len(l)
           at(i) == MetadataOf(l[i].addr)
           c(i) == [seg |-> 1, addr |-> at(i)]
           f == [i \in 1..n |-> c(i)]
<1>1. n \in Nat /\ DOMAIN l = 1..n
  BY BlocksAre
<1>2. /\ \A i \in 1..n : at(i) \in Used(s)
      /\ \A i, j \in 1..n : at(i) = at(j) => i = j
      /\ \A d \in Used(s) : \E i \in 1..n : at(i) = d
  <2>1. ASSUME NEW i \in 1..n, NEW j \in 1..n, at(i) = at(j)
        PROVE  i = j
    <3>1. l[i].addr \in Nat /\ l[j].addr \in Nat /\ at(i) = l[i].addr - 5 /\ at(j) = l[j].addr - 5
      BY <1>1, BlocksAre
    <3>2. \A a, b \in Nat : a - 5 = b - 5 => a = b
      OBVIOUS
    <3>3. l[i].addr = l[j].addr
      BY <2>1, <3>1, <3>2
    <3> QED
      BY <1>1, <3>3 DEF Matched
  <2> QED
    BY <1>1, <2>1 DEF Matched
<1> HIDE DEF n, at
<1>3. \A i, j \in 1..n : c(i) = c(j) => at(i) = at(j)
  <2>1. \A x, y : [seg |-> 1, addr |-> x] = [seg |-> 1, addr |-> y] => x = y
    <3> TAKE x, y
    <3>1. [seg |-> 1, addr |-> x].addr = x /\ [seg |-> 1, addr |-> y].addr = y
      OBVIOUS
    <3> QED
      BY <3>1
  <2> QED
    BY <2>1
<1>4. /\ \A i \in 1..n : f[i] = c(i) /\ c(i) \in C
      /\ \A x \in C : \E i \in 1..n : c(i) = x
  <2>1. \A x \in C : \E i \in 1..n : c(i) = x
    <3> TAKE x \in C
    <3>1. PICK d \in Used(s) : x = [seg |-> 1, addr |-> d]
      OBVIOUS
    <3>2. PICK i \in 1..n : at(i) = d
      BY <1>2
    <3> QED
      BY <3>1, <3>2
  <2> QED
    BY <1>2, <2>1
<1>5. f \in [1..n -> C]
  BY <1>4
<1>6. \A i, j \in 1..n : f[i] = f[j] => i = j
  BY <1>2, <1>3, <1>4
<1>7. \A x \in C : \E i \in 1..n : f[i] = x
  BY <1>4
<1> HIDE DEF f, c
<1>8. f \in Bijection(1..n, C)
  BY <1>5, <1>6, <1>7 DEF Bijection, Injection, IsInjective, Surjection
<1>9. ExistsBijection(1..n, C)
  BY <1>8 DEF ExistsBijection
<1>10. Cardinality(C) = n
  BY <1>1, <1>9, FS_CountingElements
<1> QED
  BY <1>10 DEF n

LEMMA InvHeaders ==
  HeapInv => HeadersMatchClient
<1> SUFFICES ASSUME HeapInv, NEW p \in Programs, Sound(p)
             PROVE  LET used == {c \in Chained(p) : ~Heap(p, c.seg).hdr[c.addr].is_free}
                    IN /\ {c.addr + METADATA_SIZE : c \in used} = {b.addr : b \in Blocks(p)}
                       /\ Cardinality(used) = Len(live[p])
                       /\ \A c \in used, b \in Blocks(p) :
                            b.addr = c.addr + METADATA_SIZE => Heap(p, c.seg).hdr[c.addr].size >= b.size
  BY DEF HeadersMatchClient
<1> DEFINE used == {c \in Chained(p) : ~Heap(p, c.seg).hdr[c.addr].is_free}
           l == live[p]
           s == Heap(p, 1)
<1>1. l \in Seq(Block)
  BY SoundIs
<1>2. CASE HeapSegments(p) = {} /\ l = <<>>
  <2>1. used = {}
    BY <1>2 DEF Chained
  <2>2. Blocks(p) = {}
    BY <1>2 DEF Blocks, Range
  <2>3. Cardinality({}) = 0 /\ Len(<<>>) = 0
    BY FS_EmptySet
  <2> HIDE DEF used
  <2> QED
    BY <1>2, <2>1, <2>2, <2>3 DEF used
<1>3. CASE HeapSegments(p) = {1} /\ Tiled(s) /\ Matched(s, l)
  <2>1. Chained(p) = {[seg |-> 1, addr |-> d] : d \in Chain(s)}
    BY <1>3 DEF Chained
  <2>2. \A d : [seg |-> 1, addr |-> d].seg = 1 /\ [seg |-> 1, addr |-> d].addr = d
    OBVIOUS
  <2>3. /\ \A c \in used : c = [seg |-> 1, addr |-> c.addr] /\ c.seg = 1 /\ c.addr \in Used(s)
        /\ \A d \in Used(s) : [seg |-> 1, addr |-> d] \in used
    BY <2>1, <2>2 DEF Used
  <2> HIDE DEF used, s
  <2>4. used = {[seg |-> 1, addr |-> d] : d \in Used(s)}
    BY <2>3
  <2>5. Cardinality(used) = Len(l)
    BY <1>1, <1>3, <2>4, MatchedCount
  <2>6. /\ \A b \in Blocks(p) : \E i \in DOMAIN l : b = l[i]
        /\ \A i \in DOMAIN l : l[i] \in Blocks(p)
    BY DEF Blocks, Range
  <2>7. /\ \A i \in DOMAIN l : /\ l[i].addr \in Nat
                               /\ MetadataOf(l[i].addr) = l[i].addr - 5
        /\ \A d \in Used(s) : d \in Nat
    BY <1>1, <1>3, BlocksAre, HeaderIs DEF Used
  <2>8. ASSUME NEW c \in used
        PROVE  \E b \in Blocks(p) : b.addr = c.addr + METADATA_SIZE
    <3>1. PICK i \in DOMAIN l : MetadataOf(l[i].addr) = c.addr
      BY <1>3, <2>3 DEF Matched
    <3>2. l[i].addr = c.addr + METADATA_SIZE
      BY <2>3, <2>7, <3>1 DEF METADATA_SIZE
    <3> QED
      BY <2>6, <3>2
  <2>9. ASSUME NEW b \in Blocks(p)
        PROVE  \E c \in used : c.addr + METADATA_SIZE = b.addr
    <3>1. PICK i \in DOMAIN l : b = l[i]
      BY <2>6
    <3>2. MetadataOf(b.addr) \in Used(s) /\ MetadataOf(b.addr) + METADATA_SIZE = b.addr
      BY <1>3, <2>7, <3>1 DEF Matched, METADATA_SIZE
    <3> QED
      BY <2>2, <2>3, <3>2
  <2>10. ASSUME NEW c \in used, NEW b \in Blocks(p), b.addr = c.addr + METADATA_SIZE
         PROVE  Heap(p, c.seg).hdr[c.addr].size >= b.size
    <3>1. PICK i \in DOMAIN l : b = l[i]
      BY <2>6
    <3>2. MetadataOf(l[i].addr) = c.addr
      BY <2>3, <2>7, <2>10, <3>1 DEF METADATA_SIZE
    <3>3. s.hdr[c.addr].size >= b.size
      BY <1>3, <3>1, <3>2 DEF Matched
    <3> QED
      BY <2>3, <3>3 DEF s
  <2> QED
    BY <2>5, <2>8, <2>9, <2>10 DEF used
<1> QED
  BY <1>2, <1>3, SoundIs

\* The walk over the segment meets, in use, exactly the blocks the client holds, each as
\* long as it asked for: memory_free forgets none and the compaction revives none.
THEOREM HeadersKept == Spec => []HeadersMatchClient
<1> QED
  BY HeapKept, InvHeaders, PTL

\* compactar_espacios_libres, called by memory_free, leaves no two neighbours free, and
\* no malloc makes any.
THEOREM CoalescedKept == Spec => []Coalesced
<1>1. HeapInv => Coalesced
  <2> SUFFICES ASSUME HeapInv, NEW p \in Programs, Sound(p), NEW i \in HeapSegments(p)
               PROVE  Merged(Heap(p, i))
    BY DEF Coalesced, Merged
  <2> QED
    BY SoundIs
<1> QED
  BY <1>1, HeapKept, PTL

\* The server leaves the chain of headers only after a program mapped a file or a growth
\* of memory_malloc marked one of its blocks in use as free.
THEOREM LostKept == Spec => []LostOnlyAfterFault
<1>1. HeapInv => LostOnlyAfterFault
  BY DEF HeapInv
<1> QED
  BY <1>1, HeapKept, PTL

\* using_memory, what the leak summary logs, is never more than the client holds.
THEOREM LeaksKept == Spec => []LeaksNotOverstated
<1>1. HeapInv => LeaksNotOverstated
  BY SoundIs DEF LeaksNotOverstated
<1> QED
  BY <1>1, HeapKept, PTL
=============================================================================
