--------------------------- MODULE SacTreeProofs ---------------------------
(***************************************************************************)
(* Theorems about the table of nodes of the SAC server: the types, the     *)
(* names in a directory and the tree, for any handlers, paths, nodes and   *)
(* blocks.                                                                 *)
(*                                                                         *)
(* The names and the tree rest on what the requests looked up without a    *)
(* lock: a rename on the new name still being free and the new parent      *)
(* still being a directory, an unlink on its node still being a file, a    *)
(* rmdir on nobody putting anything where it has already been.  TreeInv    *)
(* says so, as long as no two requests met on a node (raced).              *)
(***************************************************************************)
EXTENDS SacProofs, SequenceTheorems, WellFoundedInduction

(***************************************************************************)
(* Least and greatest elements.                                            *)
(***************************************************************************)
LEMMA MinOf ==
  ASSUME NEW S \in SUBSET Nat, S # {}
  PROVE  Min(S) \in S /\ \A y \in S : Min(S) <= y
<1> DEFINE R == OpToRel(<, Nat)
<1>1. PICK x \in S : \A y \in S : <<y, x>> \notin R
  BY NatLessThanWellFounded, WFMin
<1>2. \A y, z \in Nat : y < z => <<y, z>> \in R
  BY DEF OpToRel
<1> HIDE DEF R
<1>3. \A y \in S : x <= y
  <2> TAKE y \in S
  <2>1. ~(y < x)
    BY <1>1, <1>2
  <2> QED
    BY <2>1
<1> QED
  BY <1>3 DEF Min

LEMMA MaxOf ==
  ASSUME NEW k \in Nat, NEW S \in SUBSET (1..k), S # {}
  PROVE  Max(S) \in S /\ \A y \in S : Max(S) >= y
<1> DEFINE T == {k - x : x \in S}
<1>1. T \in SUBSET Nat /\ T # {}
  <2>1. \A x \in S : x \in Int /\ k - x \in Nat
    OBVIOUS
  <2> QED
    BY <2>1
<1>2. Min(T) \in T /\ \A y \in T : Min(T) <= y
  BY <1>1, MinOf
<1>3. PICK x \in S : k - x = Min(T)
  BY <1>2
<1>4. \A y \in S : k - x <= k - y
  BY <1>2, <1>3
<1>5. \A y \in S : x >= y
  BY <1>4
<1> QED
  BY <1>5 DEF Max

LEMMA MaxOfTwo ==
  ASSUME NEW a \in Int, NEW b \in Int
  PROVE  Max({a, b}) \in Int
BY DEF Max

(***************************************************************************)
(* The search of a path.                                                   *)
(***************************************************************************)
\* One step down the path, as determine_nodo folds it.
Below(block, name) ==
  LET n == buscar_nodo_por_nombre(name, block)
  IN IF block = -1 \/ (n = -1 /\ block # 0) THEN -1 ELSE n + FirstNodeBlock

IsFold(g, path, S) ==
  g = [s \in SUBSET S |-> IF s = {} THEN 0 ELSE Below(g[s \ {Max(s)}], path[Max(s)])]

\* The recursion of the fold has a solution on every prefix.
LEMMA FoldExists ==
  ASSUME NEW path, NEW n \in Nat
  PROVE  \E g : IsFold(g, path, 1..n)
<1> DEFINE Bad == {k \in Nat : ~\E g : IsFold(g, path, 1..k)}
<1> SUFFICES ASSUME Bad # {}
             PROVE  FALSE
  OBVIOUS
<1>1. PICK k \in Bad : \A j \in Bad : k <= j
  BY MinOf
<1>2. CASE k = 0
  <2> DEFINE g == [s \in SUBSET (1..k) |-> 0]
  <2>1. 1..k = {}
    BY <1>2
  <2>2. IsFold(g, path, 1..k)
    BY <2>1 DEF IsFold
  <2> QED
    BY <2>2
<1>3. CASE k # 0
  <2>0. k \in Nat
    OBVIOUS
  <2>1. k - 1 \in Nat /\ k - 1 \notin Bad
    BY <1>1, <1>3
  <2>2. PICK f : IsFold(f, path, 1..(k - 1))
    BY <2>1
  <2> DEFINE g == [s \in SUBSET (1..k) |->
                     IF s = {} THEN 0 ELSE Below(f[s \ {Max(s)}], path[Max(s)])]
  <2>3. ASSUME NEW s \in SUBSET (1..k), s # {}
        PROVE  s \ {Max(s)} \in SUBSET (1..(k - 1))
    <3>1. Max(s) \in s /\ \A y \in s : Max(s) >= y
      BY <2>0, <2>3, MaxOf
    <3>2. \A y \in s \ {Max(s)} : y \in 1..(k - 1)
      <4> TAKE y \in s \ {Max(s)}
      <4>1. y \in 1..k /\ Max(s) \in 1..k /\ Max(s) >= y /\ Max(s) # y
        BY <2>3, <3>1
      <4> QED
        BY <2>0, <4>1
    <3> QED
      BY <3>2
  <2>4. ASSUME NEW s \in SUBSET (1..(k - 1))
        PROVE  g[s] = f[s]
    <3>1. s \in SUBSET (1..k)
      OBVIOUS
    <3> QED
      BY <3>1, <2>2 DEF IsFold
  <2>5. \A s \in SUBSET (1..k) : s # {} => g[s \ {Max(s)}] = f[s \ {Max(s)}]
    BY <2>3, <2>4
  <2>6. IsFold(g, path, 1..k)
    <3>1. g = [s \in SUBSET (1..k) |->
                 IF s = {} THEN 0 ELSE Below(g[s \ {Max(s)}], path[Max(s)])]
      <4> DEFINE d == [s \in SUBSET (1..k) |->
                         IF s = {} THEN 0 ELSE Below(g[s \ {Max(s)}], path[Max(s)])]
      <4>1. \A s \in SUBSET (1..k) : g[s] = d[s]
        BY <2>5
      <4> QED
        BY <4>1
    <3> QED
      BY <3>1 DEF IsFold
  <2> QED
    BY <2>6
<1> QED
  BY <1>2, <1>3

\* A path that is not empty ends with a step down.
LEMMA LastStepDown ==
  ASSUME NEW A, NEW path \in Seq(A), path # <<>>
  PROVE  \E block : FoldLeft(Below, 0, path) = Below(block, Last(path))
<1>1. Len(path) \in Nat \ {0} /\ DOMAIN path = 1..Len(path)
  OBVIOUS
<1> DEFINE D == DOMAIN path
           fold == CHOOSE g : IsFold(g, path, D)
<1>2. IsFold(fold, path, D)
  BY <1>1, FoldExists
<1>3. FoldLeft(Below, 0, path) = fold[D]
  BY DEF FoldLeft, MapThenFoldSet, IsFold
<1>4. D # {} /\ D \in SUBSET D /\ D = 1..Len(path) /\ Len(path) \in D
  <2>1. Len(path) \in DOMAIN path
    BY <1>1
  <2> QED
    BY <1>1, <2>1
<1> HIDE DEF fold
<1>5. fold[D] = Below(fold[D \ {Max(D)}], path[Max(D)])
  BY <1>2, <1>4 DEF IsFold
<1>6. Max(D) = Len(path)
  <2> HIDE DEF D
  <2>1. Max(D) \in D /\ \A y \in D : Max(D) >= y
    <3>1. D \in SUBSET (1..Len(path)) /\ Len(path) \in Nat
      BY <1>1, <1>4
    <3> QED
      BY <1>4, <3>1, MaxOf
  <2>2. Max(D) >= Len(path) /\ Max(D) \in 1..Len(path)
    BY <1>4, <2>1
  <2> QED
    BY <1>1, <2>2
<1> QED
  BY <1>3, <1>5, <1>6 DEF Last

LEMMA RootDetermined == determine_nodo(<<>>) = 0
<1> DEFINE fold == CHOOSE g : IsFold(g, <<>>, {})
<1>1. IsFold(fold, <<>>, {})
  <2>1. 1..0 = {}
    OBVIOUS
  <2> QED
    BY <2>1, FoldExists
<1>2. FoldLeft(Below, 0, <<>>) = fold[{}]
  <2>1. DOMAIN <<>> = {}
    OBVIOUS
  <2> QED
    BY <2>1 DEF FoldLeft, MapThenFoldSet, IsFold
<1> HIDE DEF fold
<1>3. fold[{}] = 0
  BY <1>1 DEF IsFold
<1>4. FoldLeft(Below, 0, <<>>) # -1
  BY <1>2, <1>3
<1> QED
  BY <1>4 DEF determine_nodo, Below

\* Nodes that are there.
Live(n) == n \in Nodes /\ tablaDeNodos[n].state # 0

LEMMA Searched ==
  ASSUME NEW name, NEW block
  PROVE  buscar_nodo_por_nombre(name, block) = -1 \/ Live(buscar_nodo_por_nombre(name, block))
<1> DEFINE found == {n \in Nodes : tablaDeNodos[n].state # 0 /\ tablaDeNodos[n].parent = block
                                                             /\ tablaDeNodos[n].fname = name}
<1>1. CASE found = {}
  BY <1>1 DEF buscar_nodo_por_nombre
<1>2. CASE found # {}
  <2>1. found \in SUBSET Nat
    BY SacAssumption DEF SacAssumption
  <2>2. Min(found) \in found
    BY <1>2, <2>1, MinOf
  <2> QED
    BY <1>2, <2>2 DEF buscar_nodo_por_nombre, Live
<1> QED
  BY <1>1, <1>2

\* The node of a path is one that is there, or -1.
LEMMA Determined ==
  ASSUME NEW A, NEW path \in Seq(A), path # <<>>
  PROVE  determine_nodo(path) = -1 \/ Live(determine_nodo(path))
<1> DEFINE block == FoldLeft(Below, 0, path)
<1>1. determine_nodo(path) = IF block = -1 THEN -1 ELSE block - FirstNodeBlock
  BY DEF determine_nodo, Below
<1>2. PICK above : block = Below(above, Last(path))
  BY LastStepDown
<1> HIDE DEF block
<1> DEFINE here == buscar_nodo_por_nombre(Last(path), above)
<1>3. here = -1 \/ Live(here)
  BY Searched
<1>4. block = -1 \/ block = here + FirstNodeBlock
  BY <1>2 DEF Below
<1> HIDE DEF here
<1>5. here \in Int
  <2>1. Nodes \subseteq Nat
    BY SacAssumption DEF SacAssumption
  <2>2. here = -1 \/ here \in Nodes
    BY <1>3 DEF Live
  <2>3. \A m \in Nodes : m \in Int
    BY <2>1
  <2> QED
    BY <2>2, <2>3
<1>6. block # -1 => block - FirstNodeBlock = here
  BY <1>4, <1>5 DEF FirstNodeBlock
<1> QED
  BY <1>1, <1>3, <1>6

LEMMA PathsAre ==
  ASSUME NEW p \in Paths
  PROVE  /\ p \in Seq(Range(p)) /\ p # <<>>
         /\ Front(p) \in Seq(Range(p)) /\ (Len(p) > 1 <=> Front(p) # <<>>)
         /\ Last(p) \in UNION {Range(q) : q \in Paths}
<1>1. p \in Seq(Range(p)) /\ p # <<>>
  BY SacAssumption DEF SacAssumption, Paths
<1>2. Len(p) \in Nat \ {0} /\ p[Len(p)] \in Range(p)
  BY <1>1
<1>3. /\ Front(p) \in Seq(Range(p)) /\ Len(Front(p)) = Len(p) - 1
  <2>1. Len(p) - 1 \in Nat /\ Len(p) - 1 <= Len(p)
    BY <1>2
  <2> QED
    <3>1. \A i \in 1..(Len(p) - 1) : p[i] \in Range(p)
      BY <1>1, <1>2
    <3>2. Front(p) \in Seq(Range(p))
      BY <2>1, <3>1, SubSeqProperties DEF Front
    <3>3. Len(Front(p)) = IF 1 <= Len(p) - 1 THEN (Len(p) - 1) - 1 + 1 ELSE 0
      BY <2>1, <3>1, SubSeqProperties DEF Front
    <3>4. ASSUME NEW k \in Nat \ {0}
          PROVE  (IF 1 <= k - 1 THEN (k - 1) - 1 + 1 ELSE 0) = k - 1
      OBVIOUS
    <3> QED
      BY <1>2, <3>2, <3>3, <3>4
<1>4. Len(p) > 1 <=> Front(p) # <<>>
  BY <1>2, <1>3
<1> QED
  BY <1>1, <1>2, <1>3, <1>4 DEF Last

(***************************************************************************)
(* The types.                                                              *)
(***************************************************************************)
Walks == Seq([dir : Int, next : Int])
Ops == {"mknod", "mkdir", "unlink", "rmdir", "rename", "truncate", "write"}
LocalType == [op : Ops \cup {NONE}, path : Paths \cup {<<>>}, nuevo : Paths \cup {<<>>}, seen : Int,
              node : Nodes \cup {-1}, parent : Int, blk : Blocks \cup {-1, 0}, size : Int, space : Int,
              fsize : Int, off : Int, target : Int, mutex : MutexIds \cup {NONE}, walk : Walks]

\* The request a label serves, and the path and the node that it has by then.
LocalOK(l, r) ==
  /\ l = "idle" => r = Idle
  /\ l = "crear" => r.op \in {"mknod", "mkdir"} /\ r.path \in Paths
  /\ l = "unlink" => r.op = "unlink" /\ r.path \in Paths
  /\ l = "rmdir" => r.op = "rmdir" /\ r.path \in Paths /\ r.node = -1 /\ r.walk = <<>>
  /\ l = "recorrer" => r.op = "rmdir" /\ r.node = -1 /\ r.walk # <<>>
  /\ l \in {"borrar", "marcar"} => r.op \in {"unlink", "rmdir"} /\ r.node \in Nodes
                                   /\ (r.op = "unlink" => r.walk = <<>>)
  /\ l \in {"rename", "renombrar"} => r.op = "rename" /\ r.path \in Paths /\ r.nuevo \in Paths
  /\ l \in BlockLabels => r.op \in {"mknod", "truncate", "write"} /\ r.path \in Paths
                          /\ r.node \in Nodes
  /\ l \in TruncateLabels => r.op = "truncate" /\ r.path \in Paths /\ (l # "truncar" => r.node \in Nodes)
  /\ l \in WriteLabels => r.op = "write" /\ r.path \in Paths
                          /\ (l \in {"trozo", "escribir"} => r.node \in Nodes)

ControlInv ==
  /\ pc \in [Handlers -> Labels] /\ local \in [Handlers -> LocalType]
  /\ \A h \in Handlers : LocalOK(pc[h], local[h])

TablaOK == tablaDeNodos \in [Nodes -> NodeType]
DiskOK ==
  /\ punteros \in [Blocks -> [0..(PUNTEROS_A_BLOQUES_DATOS - 1) -> Blocks \cup {-1, 0}]]
  /\ bitmap \in SUBSET Blocks

TypeInv == TablaOK /\ DiskOK /\ ControlInv

LEMMA TypesOfState ==
  ASSUME LockInv, TypeInv
  PROVE  TypeOK
<1>1. \A h \in Handlers : local[h].node \in Nodes \cup {-1}
  BY DEF TypeInv, ControlInv, LocalType
<1> QED
  BY <1>1 DEF TypeOK, TypeInv, TablaOK, DiskOK, ControlInv, LockInv, LocksTyped, MutexIds, Holders

LEMMA NodesAreNat == \A n \in Nodes : n \in Nat /\ n # -1
BY SacAssumption DEF SacAssumption

LEMMA IdleOK == Idle \in LocalType /\ LocalOK("idle", Idle)
BY DEF Idle, LocalType, LocalOK, Walks, BlockLabels, TruncateLabels, WriteLabels

\* A handler that goes on to where its variables are right.
LEMMA Arrives ==
  ASSUME ControlInv, NEW h \in Handlers, NEW l \in Labels, NEW r \in LocalType,
         LocalOK(l, r), Goto(h, l, r)
  PROVE  /\ ControlInv'
         /\ pc'[h] = l /\ local'[h] = r
         /\ \A g \in Handlers \ {h} : pc'[g] = pc[g] /\ local'[g] = local[g]
<1>1. pc'[h] = l /\ local'[h] = r
  BY DEF ControlInv, Goto
<1>2. \A g \in Handlers \ {h} : pc'[g] = pc[g] /\ local'[g] = local[g]
  BY DEF ControlInv, Goto
<1>3. pc' \in [Handlers -> Labels] /\ local' \in [Handlers -> LocalType]
  BY DEF ControlInv, Goto
<1>4. \A g \in Handlers : LocalOK(pc'[g], local'[g])
  BY <1>1, <1>2 DEF ControlInv
<1> QED
  BY <1>1, <1>2, <1>3, <1>4 DEF ControlInv

LEMMA Answers ==
  ASSUME ControlInv, NEW h \in Handlers, Answer(h)
  PROVE  /\ ControlInv'
         /\ pc'[h] = "idle" /\ local'[h] = Idle
         /\ \A g \in Handlers \ {h} : pc'[g] = pc[g] /\ local'[g] = local[g]
<1>1. "idle" \in Labels
  BY DEF Labels
<1> QED
  BY <1>1, IdleOK, Arrives DEF Answer

LEMMA DeterminedInt ==
  ASSUME NEW p \in Paths
  PROVE  /\ determine_nodo(p) \in Int /\ determine_nodo(Front(p)) \in Int
         /\ determine_nodo(p) \in Nodes \cup {-1}
<1>1. determine_nodo(p) = -1 \/ Live(determine_nodo(p))
  BY PathsAre, Determined
<1>2. CASE Front(p) = <<>>
  <2>1. determine_nodo(Front(p)) = 0
    BY <1>2, RootDetermined
  <2> QED
    BY <1>1, <2>1, NodesAreNat DEF Live
<1>3. CASE Front(p) # <<>>
  <2>1. determine_nodo(Front(p)) = -1 \/ Live(determine_nodo(Front(p)))
    BY <1>3, PathsAre, Determined
  <2> QED
    BY <1>1, <2>1, NodesAreNat DEF Live
<1> QED
  BY <1>2, <1>3

LEMMA AfterAgregarOK ==
  ASSUME ControlInv, NEW h \in Handlers, NEW ok, pc[h] \in BlockLabels, AfterAgregar(h, ok)
  PROVE  ControlInv'
<1>1. /\ local[h] \in LocalType /\ local[h].node \in Nodes /\ local[h].path \in Paths
      /\ local[h].op \in {"mknod", "truncate", "write"}
      /\ LocalOK(pc[h], local[h])
  BY DEF ControlInv, LocalOK
<1>2. CASE local[h].op = "write" /\ ok
  <2>1. Goto(h, "escribir", local[h])
    BY <1>2 DEF AfterAgregar
  <2> QED
    BY <1>1, <1>2, <2>1, Arrives DEF LocalOK, Labels, BlockLabels, WriteLabels, TruncateLabels
<1>3. CASE local[h].op = "truncate"
  <2>1. Goto(h, "crecer", local[h])
    BY <1>3 DEF AfterAgregar
  <2> QED
    BY <1>1, <1>3, <2>1, Arrives DEF LocalOK, Labels, BlockLabels, WriteLabels, TruncateLabels
<1>4. CASE ~(local[h].op = "write" /\ ok) /\ local[h].op # "truncate"
  <2>1. Answer(h)
    BY <1>4 DEF AfterAgregar
  <2> QED
    BY <2>1, Answers
<1> QED
  BY <1>2, <1>3, <1>4

\* The locals of a handler that has just received a request.
New(r, op, path, nuevo) ==
  /\ r \in LocalType /\ r.op = op /\ r.path = path /\ r.nuevo = nuevo
  /\ r.node = -1 /\ r.walk = <<>>

LEMMA AskedOK ==
  ASSUME NEW op \in Ops, NEW path \in Paths, NEW nuevo \in Paths \cup {<<>>},
         NEW size \in Int, NEW off \in Int, NEW target \in Int
  PROVE  New(Asked(op, path, nuevo, size, off, target), op, path, nuevo)
<1> DEFINE s == determine_nodo(IF op \in {"mknod", "mkdir"} THEN Front(path) ELSE path)
           a == [Idle EXCEPT !.op = op, !.path = path, !.nuevo = nuevo]
           b == [a EXCEPT !.size = size, !.off = off, !.target = target]
           r == [b EXCEPT !.seen = s]
<1>1. s \in Int
  BY DeterminedInt
<1>2. Asked(op, path, nuevo, size, off, target) = r
  BY DEF Asked
<1>3. a \in LocalType /\ a.op = op /\ a.path = path /\ a.nuevo = nuevo /\ a.node = -1 /\ a.walk = <<>>
  BY IdleOK DEF LocalType, Idle
<1> HIDE DEF a, s
<1>4. b \in LocalType /\ b.op = op /\ b.path = path /\ b.nuevo = nuevo /\ b.node = -1 /\ b.walk = <<>>
  BY <1>3 DEF LocalType
<1> HIDE DEF b
<1>5. r \in LocalType /\ r.op = op /\ r.path = path /\ r.nuevo = nuevo /\ r.node = -1 /\ r.walk = <<>> /\ r.seen = s
  BY <1>1, <1>4 DEF LocalType
<1> QED
  BY <1>2, <1>5 DEF New

LEMMA AskTypes ==
  ASSUME TypeInv, NEW h \in Handlers, Ask(h)
  PROVE  TypeInv'
<1>1. TablaOK' /\ DiskOK'
  BY DEF Ask, disk, TypeInv, TablaOK, DiskOK
<1>2. PICK p \in Paths :
     \/ \E op \in {"mknod", "mkdir"} : Goto(h, "crear", Asked(op, p, <<>>, 0, 0, 0))
     \/ \E op \in {"unlink", "rmdir"} : Goto(h, op, Asked(op, p, <<>>, 0, 0, 0))
     \/ \E q \in Paths : Goto(h, "rename", Asked("rename", p, q, 0, 0, 0))
     \/ \E size \in TruncateSizes : Goto(h, "truncar", Asked("truncate", p, <<>>, 0, 0, size))
     \/ \E w \in Writes : Goto(h, "write", Asked("write", p, <<>>, w[1], w[2], 0))
  BY DEF Ask
<1>3. ControlInv
  BY DEF TypeInv
<1>4. \A op \in {"mknod", "mkdir", "unlink", "rmdir", "rename", "truncate", "write"} : op \in Ops
  BY DEF Ops
<1>0. <<>> \in Paths \cup {<<>>} /\ 0 \in Int
  OBVIOUS
<1>5. CASE \E op \in {"mknod", "mkdir"} : Goto(h, "crear", Asked(op, p, <<>>, 0, 0, 0))
  <2>1. PICK op \in {"mknod", "mkdir"} : Goto(h, "crear", Asked(op, p, <<>>, 0, 0, 0))
    BY <1>5
  <2> DEFINE r == Asked(op, p, <<>>, 0, 0, 0)
  <2>2. New(r, op, p, <<>>)
    BY <1>4, <1>0, AskedOK
  <2>3. Goto(h, "crear", r)
    BY <2>1
  <2> HIDE DEF r
  <2> QED
    BY <1>1, <1>3, <2>2, <2>3, Arrives DEF TypeInv, New, LocalOK, Labels, BlockLabels, WriteLabels, TruncateLabels, Ops
<1>6. CASE \E op \in {"unlink", "rmdir"} : Goto(h, op, Asked(op, p, <<>>, 0, 0, 0))
  <2>1. PICK op \in {"unlink", "rmdir"} : Goto(h, op, Asked(op, p, <<>>, 0, 0, 0))
    BY <1>6
  <2> DEFINE r == Asked(op, p, <<>>, 0, 0, 0)
  <2>2. New(r, op, p, <<>>)
    BY <1>4, <1>0, AskedOK
  <2>3. Goto(h, op, r)
    BY <2>1
  <2> HIDE DEF r
  <2> QED
    BY <1>1, <1>3, <2>2, <2>3, Arrives DEF TypeInv, New, LocalOK, Labels, BlockLabels, WriteLabels, TruncateLabels, Ops
<1>7. CASE \E q \in Paths : Goto(h, "rename", Asked("rename", p, q, 0, 0, 0))
  <2>1. PICK q \in Paths : Goto(h, "rename", Asked("rename", p, q, 0, 0, 0))
    BY <1>7
  <2> DEFINE r == Asked("rename", p, q, 0, 0, 0)
  <2>2. New(r, "rename", p, q)
    BY <1>4, <1>0, AskedOK
  <2>3. Goto(h, "rename", r)
    BY <2>1
  <2> HIDE DEF r
  <2> QED
    BY <1>1, <1>3, <2>2, <2>3, Arrives DEF TypeInv, New, LocalOK, Labels, BlockLabels, WriteLabels, TruncateLabels, Ops
<1>8. CASE \E size \in TruncateSizes : Goto(h, "truncar", Asked("truncate", p, <<>>, 0, 0, size))
  <2>1. PICK size \in Int : Goto(h, "truncar", Asked("truncate", p, <<>>, 0, 0, size))
    BY <1>8, SacAssumption DEF SacAssumption
  <2> DEFINE r == Asked("truncate", p, <<>>, 0, 0, size)
  <2>2. New(r, "truncate", p, <<>>)
    BY <1>4, <1>0, AskedOK
  <2>3. Goto(h, "truncar", r)
    BY <2>1
  <2> HIDE DEF r
  <2> QED
    BY <1>1, <1>3, <2>2, <2>3, Arrives DEF TypeInv, New, LocalOK, Labels, BlockLabels, WriteLabels, TruncateLabels, Ops
<1>9. CASE \E w \in Writes : Goto(h, "write", Asked("write", p, <<>>, w[1], w[2], 0))
  <2>1. PICK size \in Int, off \in Int : Goto(h, "write", Asked("write", p, <<>>, size, off, 0))
    <3>1. PICK w \in Writes : Goto(h, "write", Asked("write", p, <<>>, w[1], w[2], 0))
      BY <1>9
    <3>2. w \in (Nat \ {0}) \X Nat
      BY SacAssumption DEF SacAssumption
    <3> QED
      BY <3>1, <3>2
  <2> DEFINE r == Asked("write", p, <<>>, size, off, 0)
  <2>2. New(r, "write", p, <<>>)
    BY <1>4, <1>0, AskedOK
  <2>3. Goto(h, "write", r)
    BY <2>1
  <2> HIDE DEF r
  <2> QED
    BY <1>1, <1>3, <2>2, <2>3, Arrives DEF TypeInv, New, LocalOK, Labels, BlockLabels, WriteLabels, TruncateLabels, Ops
<1> QED
  BY <1>2, <1>5, <1>6, <1>7, <1>8, <1>9

\* A node that changes in its fields stays a node.
LEMMA NodeOf ==
  ASSUME TablaOK, NEW n \in Nodes
  PROVE  /\ tablaDeNodos[n] \in NodeType
         /\ tablaDeNodos[n].state \in {0, 1, 2}
         /\ tablaDeNodos[n].parent \in Int /\ tablaDeNodos[n].file_size \in Int
         /\ tablaDeNodos[n].indirect \in [0..(BLKINDIRECT - 1) -> Blocks \cup {0}]
<1>1. tablaDeNodos[n] \in NodeType
  BY DEF TablaOK
<1>2. 0..2 = {0, 1, 2}
  OBVIOUS
<1> QED
  BY <1>1, <1>2 DEF NodeType

LEMMA VacantNode ==
  ASSUME Vacant # {}
  PROVE  Min(Vacant) \in Nodes /\ tablaDeNodos[Min(Vacant)].state = 0
<1>1. Vacant \in SUBSET Nat
  BY SacAssumption DEF SacAssumption, Vacant
<1> QED
  BY <1>1, MinOf DEF Vacant

LEMMA FreeBlock ==
  ASSUME Free # {}
  PROVE  Min(Free) \in Blocks /\ Min(Free) \notin bitmap
<1>1. Free \in SUBSET Nat
  BY SacAssumption DEF SacAssumption, Free
<1> QED
  BY <1>1, MinOf DEF Free

LEMMA DiskKept ==
  ASSUME TypeInv, UNCHANGED disk
  PROVE  TablaOK' /\ DiskOK'
BY DEF disk, TypeInv, TablaOK, DiskOK

LEMMA OfHandler ==
  ASSUME TypeInv, NEW h \in Handlers
  PROVE  /\ TablaOK /\ DiskOK /\ ControlInv
         /\ local[h] \in LocalType /\ pc[h] \in Labels /\ LocalOK(pc[h], local[h])
BY DEF TypeInv, ControlInv

\* The sizes and the arrays of blocks change, and the rest of a node as it is made.
LEMMA NodeChanges ==
  ASSUME TablaOK, NEW n \in Nodes, NEW d \in NodeType, tablaDeNodos' = [tablaDeNodos EXCEPT ![n] = d]
  PROVE  TablaOK'
BY DEF TablaOK

LEMMA SizeChanges ==
  ASSUME TablaOK, NEW n \in Nodes, NEW size \in Int,
         tablaDeNodos' = [tablaDeNodos EXCEPT ![n].file_size = size]
  PROVE  TablaOK'
BY DEF TablaOK, NodeType

Names == (UNION {Range(p) : p \in Paths}) \cup {NONE}

LEMMA FieldChanges ==
  ASSUME NEW d \in NodeType
  PROVE  /\ \A state \in {0, 1, 2} : [d EXCEPT !.state = state] \in NodeType
         /\ \A fname \in Names : [d EXCEPT !.fname = fname] \in NodeType
         /\ \A size \in Int : [d EXCEPT !.file_size = size] \in NodeType
         /\ \A parent \in Int : [d EXCEPT !.parent = parent] \in NodeType
<1>1. \A state \in {0, 1, 2} : state \in 0..2
  OBVIOUS
<1> QED
  BY <1>1 DEF NodeType, Names

LEMMA DeletedOK ==
  ASSUME TablaOK, NEW n \in Nodes, tablaDeNodos' = Deleted(n)
  PROVE  TablaOK'
<1> DEFINE a == [tablaDeNodos[n] EXCEPT !.state = 0]
           d == [a EXCEPT !.file_size = 0]
<1>0. a \in NodeType
  BY NodeOf, FieldChanges
<1> HIDE DEF a
<1>1. d \in NodeType
  <2>1. 0 \in Int
    OBVIOUS
  <2> QED
    BY <1>0, <2>1, FieldChanges
<1> USE DEF a
<1>2. tablaDeNodos' = [tablaDeNodos EXCEPT ![n] = d]
  BY DEF Deleted, TablaOK
<1> QED
  BY <1>1, <1>2, NodeChanges

LEMMA LinkedOK ==
  ASSUME TablaOK, NEW n \in Nodes, NEW i, NEW b \in Blocks, tablaDeNodos' = Linked(n, i, b)
  PROVE  TablaOK'
<1> DEFINE array == [k \in DOMAIN tablaDeNodos[n].indirect |->
                       IF k = i THEN b ELSE IF k = i + 1 THEN 0 ELSE tablaDeNodos[n].indirect[k]]
           linked == [tablaDeNodos EXCEPT ![n].indirect = array]
<1>1. array \in [0..(BLKINDIRECT - 1) -> Blocks \cup {0}]
  BY NodeOf
<1>2. Linked(n, i, b) = IF LastPointer(n, i)
                        THEN [linked EXCEPT ![n + 1].state = 0, ![n + 1].fname = NONE] ELSE linked
  BY DEF Linked, TablaOK
<1> HIDE DEF array
<1>3. linked \in [Nodes -> NodeType]
  BY <1>1 DEF TablaOK, NodeType
<1> HIDE DEF linked
<1>4. ASSUME NEW m \in Nodes
      PROVE  [linked EXCEPT ![m].state = 0, ![m].fname = NONE] \in [Nodes -> NodeType]
  <2> DEFINE a == [linked[m] EXCEPT !.state = 0]
             d == [a EXCEPT !.fname = NONE]
  <2>0. linked[m] \in NodeType
    BY <1>3
  <2>1. a \in NodeType
    BY <2>0, FieldChanges
  <2> HIDE DEF a
  <2>2. d \in NodeType
    <3>1. NONE \in Names
      BY DEF Names
    <3> QED
      BY <2>1, <3>1, FieldChanges
  <2> USE DEF a
  <2>3. [linked EXCEPT ![m].state = 0, ![m].fname = NONE] = [linked EXCEPT ![m] = d]
    BY <1>3
  <2> QED
    BY <1>3, <2>2, <2>3
<1> QED
  BY <1>2, <1>3, <1>4 DEF TablaOK, LastPointer

LEMMA CreateTypes ==
  ASSUME TypeInv, NEW h \in Handlers, create(h)
  PROVE  TypeInv'
<1>1. CASE TablaLlena(h) \/ YaExiste(h)
  BY <1>1, Answers, DiskKept, OfHandler DEF TablaLlena, YaExiste, TypeInv
<1>2. CASE crear_nuevo_nodo(h)
  <2> DEFINE p == local[h].path
             n == Min(Vacant)
             parent == IF Len(p) > 1 THEN determine_nodo(Front(p)) + FirstNodeBlock ELSE 0
             state == IF local[h].op = "mknod" THEN 1 ELSE 2
  <2>1. /\ pc[h] = "crear" /\ Vacant # {}
        /\ tablaDeNodos' = [tablaDeNodos EXCEPT ![n] =
             [@ EXCEPT !.state = state, !.fname = Last(p), !.file_size = 0, !.parent = parent]]
        /\ IF local[h].op = "mknod" THEN Goto(h, "bloque", [local[h] EXCEPT !.node = n]) ELSE Answer(h)
        /\ UNCHANGED <<punteros, bitmap>>
    BY <1>2 DEF crear_nuevo_nodo, At
  <2>2. n \in Nodes /\ p \in Paths /\ local[h].op \in {"mknod", "mkdir"}
    BY <2>1, VacantNode, OfHandler DEF LocalOK
  <2>3. parent \in Int /\ Last(p) \in Names /\ state \in {0, 1, 2}
    <3>1. Last(p) \in Names
      BY <2>2, PathsAre DEF Names
    <3>2. determine_nodo(Front(p)) \in Int
      BY <2>2, DeterminedInt
    <3> QED
      BY <3>1, <3>2 DEF FirstNodeBlock
  <2> HIDE DEF n, p, parent, state
  <2>4. TablaOK'
    <3> DEFINE a == [tablaDeNodos[n] EXCEPT !.state = state]
               b == [a EXCEPT !.fname = Last(p)]
               c == [b EXCEPT !.file_size = 0]
               d == [c EXCEPT !.parent = parent]
    <3>0. 0 \in Int /\ tablaDeNodos[n] \in NodeType
      BY <2>2, NodeOf DEF TypeInv
    <3>1. d \in NodeType
      BY <2>3, <3>0, FieldChanges
    <3>2. tablaDeNodos' = [tablaDeNodos EXCEPT ![n] = d]
      BY <2>1
    <3> QED
      BY <2>2, <3>1, <3>2, NodeChanges DEF TypeInv
  <2>5. DiskOK'
    BY <2>1 DEF TypeInv, DiskOK
  <2>6. ControlInv'
    <3>1. CASE local[h].op = "mknod"
      <4> DEFINE r == [local[h] EXCEPT !.node = n]
      <4>1. r \in LocalType /\ r.op = "mknod" /\ r.path \in Paths /\ r.node \in Nodes
        BY <2>2, <3>1, OfHandler DEF LocalType, p
      <4> HIDE DEF r
      <4>2. LocalOK("bloque", r) /\ "bloque" \in Labels
        BY <4>1 DEF LocalOK, Labels, BlockLabels, TruncateLabels, WriteLabels
      <4> QED
        BY <2>1, <3>1, <4>1, <4>2, Arrives DEF TypeInv, r
    <3>2. CASE local[h].op # "mknod"
      BY <2>1, <3>2, Answers DEF TypeInv
    <3> QED
      BY <3>1, <3>2
  <2> QED
    BY <2>4, <2>5, <2>6 DEF TypeInv
<1> QED
  BY <1>1, <1>2 DEF create

LEMMA BlocksTypes ==
  ASSUME TypeInv, NEW h \in Handlers, blocks(h)
  PROVE  TypeInv'
<1> DEFINE r == local[h]
<1>0. /\ r \in LocalType /\ LocalOK(pc[h], r) /\ TablaOK /\ DiskOK /\ ControlInv
  BY OfHandler
<1>1. pc[h] \in BlockLabels /\ r.op \in {"mknod", "truncate", "write"} /\ r.path \in Paths /\ r.node \in Nodes
  <2>1. pc[h] \in BlockLabels
    BY DEF blocks, get_bloque_vacio, SinBloques, agregar_nodo, ArchivoLleno, AgregarPunteros,
           BloqueDePunteros, SinBloqueDePunteros, At, BlockLabels
  <2> QED
    BY <1>0, <2>1 DEF LocalOK
<1> HIDE DEF r
<1>2. ASSUME NEW l \in BlockLabels, NEW q \in LocalType, q.op = r.op, q.path = r.path, q.node = r.node,
             Goto(h, l, q)
      PROVE  ControlInv'
  <2>1. LocalOK(l, q) /\ l \in Labels
    BY <1>1, <1>2 DEF LocalOK, Labels, BlockLabels, TruncateLabels, WriteLabels
  <2> QED
    BY <1>0, <1>2, <2>1, Arrives
<1>3. CASE get_bloque_vacio(h)
  <2> DEFINE q == [r EXCEPT !.blk = Min(Free)]
  <2>1. Free # {} /\ bitmap' = bitmap \cup {Min(Free)} /\ Goto(h, "agregar", q) /\ UNCHANGED <<tablaDeNodos, punteros>>
    BY <1>3 DEF get_bloque_vacio, r
  <2>2. Min(Free) \in Blocks
    BY <2>1, FreeBlock
  <2>3. q \in LocalType /\ q.op = r.op /\ q.path = r.path /\ q.node = r.node
    BY <1>0, <2>2 DEF LocalType
  <2>4. ControlInv'
    BY <1>2, <2>1, <2>3 DEF BlockLabels
  <2>5. DiskOK' /\ TablaOK'
    BY <1>0, <2>1, <2>2 DEF DiskOK, TablaOK
  <2> QED
    BY <2>4, <2>5 DEF TypeInv
<1>4. CASE SinBloques(h)
  <2>1. UNCHANGED disk
    BY <1>4 DEF SinBloques
  <2>2. CASE r.op = "write"
    BY <1>0, <1>4, <2>1, <2>2, Answers, DiskKept DEF SinBloques, TypeInv, r
  <2>3. CASE r.op # "write"
    <3> DEFINE q == [r EXCEPT !.blk = -1]
    <3>1. Goto(h, "agregar", q)
      BY <1>4, <2>3 DEF SinBloques, r
    <3>2. q \in LocalType /\ q.op = r.op /\ q.path = r.path /\ q.node = r.node
      BY <1>0 DEF LocalType
    <3> QED
      BY <1>2, <2>1, <3>1, <3>2, DiskKept DEF TypeInv, BlockLabels
  <2> QED
    BY <2>2, <2>3
<1>5. CASE agregar_nodo(h)
  <2> DEFINE b == Indirect(r.node, PointerPos(Size(h)))
             j == DataPos(Size(h))
  <2>1. /\ AfterAgregar(h, TRUE) /\ UNCHANGED <<tablaDeNodos, bitmap>>
        /\ punteros' = [punteros EXCEPT ![b][j] = r.blk]
    BY <1>5 DEF agregar_nodo, r
  <2>2. ControlInv'
    BY <1>0, <1>1, <2>1, AfterAgregarOK DEF r
  <2>3. r.blk \in Blocks \cup {-1, 0}
    BY <1>0 DEF LocalType
  <2> HIDE DEF b, j
  <2>4. DiskOK' /\ TablaOK'
    BY <1>0, <2>1, <2>3 DEF DiskOK, TablaOK
  <2> QED
    BY <2>2, <2>4 DEF TypeInv
<1>6. CASE ArchivoLleno(h)
  BY <1>0, <1>1, <1>6, AfterAgregarOK, DiskKept DEF ArchivoLleno, TypeInv, r
<1>7. CASE AgregarPunteros(h)
  <2>1. Goto(h, "punteros", r) /\ UNCHANGED disk
    BY <1>7 DEF AgregarPunteros, r
  <2> QED
    BY <1>0, <1>2, <2>1, DiskKept DEF TypeInv, BlockLabels
<1>8. CASE BloqueDePunteros(h)
  <2> DEFINE b == Min(Free)
  <2>1. /\ AfterAgregar(h, TRUE) /\ Free # {} /\ bitmap' = bitmap \cup {b}
        /\ punteros' = [punteros EXCEPT ![b] = [j \in DOMAIN @ |-> IF j = 0 THEN r.blk ELSE 0]]
        /\ tablaDeNodos' = Linked(r.node, PointerPos(Size(h)), b)
    BY <1>8 DEF BloqueDePunteros, r
  <2>2. ControlInv'
    BY <1>0, <1>1, <2>1, AfterAgregarOK DEF r
  <2>3. r.blk \in Blocks \cup {-1, 0} /\ b \in Blocks
    BY <1>0, <2>1, FreeBlock DEF LocalType
  <2> HIDE DEF b
  <2>4. DiskOK'
    BY <1>0, <2>1, <2>3 DEF DiskOK
  <2>5. TablaOK'
    BY <1>0, <1>1, <2>1, <2>3, LinkedOK
  <2> QED
    BY <2>2, <2>4, <2>5 DEF TypeInv
<1>9. CASE SinBloqueDePunteros(h)
  BY <1>0, <1>1, <1>9, AfterAgregarOK, DiskKept DEF SinBloqueDePunteros, TypeInv, r
<1> QED
  BY <1>3, <1>4, <1>5, <1>6, <1>7, <1>8, <1>9 DEF blocks

(***************************************************************************)
(* The types, in what deletes.                                             *)
(***************************************************************************)
LEMMA ContinueOK ==
  ASSUME ControlInv, NEW h \in Handlers, NEW w \in Walks, Continue(h, w),
         w # <<>> => local[h].op = "rmdir"
  PROVE  ControlInv'
<1>1. CASE w = <<>>
  BY <1>1, Answers DEF Continue
<1>2. CASE w # <<>>
  <2> DEFINE r == [local[h] EXCEPT !.node = -1, !.walk = w]
  <2>1. local[h] \in LocalType
    BY DEF ControlInv
  <2>2. r \in LocalType /\ r.op = "rmdir" /\ r.node = -1 /\ r.walk # <<>>
    BY <1>2, <2>1 DEF LocalType
  <2>3. Goto(h, "recorrer", r)
    BY <1>2 DEF Continue
  <2> HIDE DEF r
  <2>4. LocalOK("recorrer", r) /\ "recorrer" \in Labels
    BY <2>2 DEF LocalOK, Labels, BlockLabels, TruncateLabels, WriteLabels
  <2> QED
    BY <2>2, <2>3, <2>4, Arrives
<1> QED
  BY <1>1, <1>2

LEMMA BorrarOK ==
  ASSUME TypeInv, NEW h \in Handlers, NEW n \in Nodes \cup {-1}, NEW w \in Walks, Borrar(h, n, w),
         local[h].op \in {"unlink", "rmdir"},
         local[h].op = "unlink" => w = <<>>
  PROVE  TablaOK' /\ ControlInv'
<1>0. TablaOK /\ ControlInv /\ local[h] \in LocalType
  BY OfHandler
<1>1. CASE n = -1
  BY <1>0, <1>1, ContinueOK DEF Borrar, TablaOK
<1>2. CASE n # -1 /\ tablaDeNodos[n].state = 2
  BY <1>0, <1>2, ContinueOK, DeletedOK DEF Borrar
<1>3. CASE n # -1 /\ tablaDeNodos[n].state # 2
  <2> DEFINE r == [local[h] EXCEPT !.node = n, !.size = tablaDeNodos[n].file_size, !.walk = w]
             l == IF tablaDeNodos[n].file_size # 0 THEN "borrar" ELSE "marcar"
  <2>1. Goto(h, l, r) /\ UNCHANGED tablaDeNodos
    BY <1>3 DEF Borrar
  <2>2. tablaDeNodos[n].file_size \in Int
    BY <1>0, <1>3, NodeOf
  <2>3. r \in LocalType /\ r.op = local[h].op /\ r.node = n /\ r.walk = w
    BY <1>0, <2>2 DEF LocalType
  <2>4. l \in {"borrar", "marcar"}
    OBVIOUS
  <2> HIDE DEF r, l
  <2>5. LocalOK(l, r) /\ l \in Labels
    BY <1>3, <2>3, <2>4 DEF LocalOK, Labels, BlockLabels, TruncateLabels, WriteLabels
  <2> QED
    BY <1>0, <2>1, <2>3, <2>5, Arrives DEF TablaOK
<1> QED
  BY <1>1, <1>2, <1>3

Top == [dir : Int, next : Int]

LEMMA WalkIs ==
  ASSUME TypeInv, NEW h \in Handlers, pc[h] = "recorrer"
  PROVE  LET w == local[h].walk IN
         /\ w \in Seq(Top) /\ Len(w) \in Nat \ {0} /\ Last(w) \in Top /\ Front(w) \in Seq(Top)
         /\ Len(Front(w)) = Len(w) - 1 /\ \A i \in 1..(Len(w) - 1) : Front(w)[i] = w[i]
         /\ Last(w) = w[Len(w)]
<1> DEFINE w == local[h].walk
<1>1. local[h] \in LocalType /\ LocalOK(pc[h], local[h])
  BY OfHandler
<1>2. w \in Seq(Top) /\ w # <<>>
  BY <1>1 DEF LocalType, Walks, LocalOK, Top
<1> HIDE DEF w
<1>3. Len(w) \in Nat \ {0} /\ w[Len(w)] \in Top
  BY <1>2
<1>4. Len(w) - 1 \in Nat /\ \A i \in 1..(Len(w) - 1) : w[i] \in Top
  BY <1>2, <1>3
<1>5. Front(w) \in Seq(Top) /\ Len(Front(w)) = (IF 1 <= Len(w) - 1 THEN (Len(w) - 1) - 1 + 1 ELSE 0)
      /\ \A i \in 1..((Len(w) - 1) - 1 + 1) : Front(w)[i] = w[1 + i - 1]
  BY <1>4, SubSeqProperties DEF Front
<1>6. Len(Front(w)) = Len(w) - 1 /\ \A i \in 1..(Len(w) - 1) : Front(w)[i] = w[i]
  <2> DEFINE k == Len(w)
  <2>1. k \in Nat \ {0}
    BY <1>3
  <2> HIDE DEF k
  <2>2. (IF 1 <= k - 1 THEN (k - 1) - 1 + 1 ELSE 0) = k - 1 /\ (k - 1) - 1 + 1 = k - 1
    BY <2>1
  <2>3. \A i \in 1..(k - 1) : 1 + i - 1 = i
    BY <2>1
  <2> QED
    BY <1>5, <2>2, <2>3 DEF k
<1> QED
  BY <1>2, <1>3, <1>5, <1>6 DEF Last, w

LEMMA InsideMin ==
  ASSUME NEW top, Inside(top) # {}
  PROVE  /\ Min(Inside(top)) \in Inside(top) /\ \A m \in Inside(top) : Min(Inside(top)) <= m
         /\ Min(Inside(top)) \in Nodes
<1>1. Inside(top) \in SUBSET Nodes /\ Nodes \in SUBSET Nat
  BY SacAssumption DEF SacAssumption, Inside, sac_server_readdir
<1> QED
  BY <1>1, MinOf

LEMMA AppendTop ==
  ASSUME NEW w \in Seq(Top), NEW t \in Top
  PROVE  /\ Append(w, t) \in Seq(Top) /\ Append(w, t) # <<>>
         /\ Len(Append(w, t)) = Len(w) + 1 /\ Append(w, t)[Len(w) + 1] = t
         /\ \A i \in 1..Len(w) : Append(w, t)[i] = w[i]
OBVIOUS

LEMMA DeleteTypes ==
  ASSUME TypeInv, NEW h \in Handlers, delete(h)
  PROVE  TypeInv'
<1> DEFINE r == local[h]
<1>0. r \in LocalType /\ LocalOK(pc[h], r) /\ TablaOK /\ DiskOK /\ ControlInv
  BY OfHandler
<1>1. CASE sac_server_unlink(h)
  <2>1. /\ pc[h] = "unlink" /\ Borrar(h, determine_nodo(r.path), <<>>) /\ UNCHANGED <<punteros, bitmap>>
    BY <1>1 DEF sac_server_unlink, At, r
  <2>2. r.op = "unlink" /\ r.path \in Paths
    BY <1>0, <2>1 DEF LocalOK
  <2>3. determine_nodo(r.path) \in Nodes \cup {-1} /\ <<>> \in Walks
    BY <2>2, DeterminedInt DEF Walks
  <2> QED
    BY <1>0, <2>1, <2>2, <2>3, BorrarOK DEF TypeInv, DiskOK
<1>2. CASE sac_server_rmdir(h)
  <2> DEFINE n == determine_nodo(r.path)
             w == <<[dir |-> n + FirstNodeBlock, next |-> 0]>>
  <2>1. /\ pc[h] = "rmdir" /\ Borrar(h, n, w) /\ UNCHANGED <<punteros, bitmap>>
    BY <1>2 DEF sac_server_rmdir, At, r
  <2>2. r.op = "rmdir" /\ r.path \in Paths
    BY <1>0, <2>1 DEF LocalOK
  <2>3. n \in Nodes \cup {-1} /\ n \in Int
    BY <2>2, DeterminedInt
  <2> HIDE DEF n
  <2>4. w \in Walks
    BY <2>3 DEF Walks, FirstNodeBlock
  <2> QED
    BY <1>0, <2>1, <2>2, <2>3, <2>4, BorrarOK DEF TypeInv, DiskOK
<1>3. CASE borrar_contenido(h)
  <2>1. /\ pc[h] = "borrar" /\ Goto(h, "marcar", r) /\ UNCHANGED <<tablaDeNodos, punteros>>
        /\ bitmap' \subseteq bitmap
    BY <1>3 DEF borrar_contenido, At, r
  <2>2. LocalOK("marcar", r) /\ "marcar" \in Labels
    BY <1>0, <2>1 DEF LocalOK, Labels, BlockLabels, TruncateLabels, WriteLabels
  <2>3. ControlInv'
    BY <1>0, <2>1, <2>2, Arrives
  <2> QED
    BY <1>0, <2>1, <2>3 DEF TypeInv, DiskOK, TablaOK
<1>4. CASE borrar_archivo(h)
  <2>1. /\ pc[h] = "marcar" /\ tablaDeNodos' = Deleted(r.node) /\ Continue(h, r.walk)
        /\ UNCHANGED <<punteros, bitmap>>
    BY <1>4 DEF borrar_archivo, At, r
  <2>2. r.node \in Nodes /\ r.walk \in Walks /\ (r.walk # <<>> => r.op = "rmdir")
    BY <1>0, <2>1 DEF LocalOK, LocalType
  <2>3. ControlInv' /\ TablaOK'
    BY <1>0, <2>1, <2>2, ContinueOK, DeletedOK
  <2> QED
    BY <1>0, <2>1, <2>3 DEF TypeInv, DiskOK
<1>5. CASE borrar_directorio(h)
  <2> DEFINE w == r.walk
             top == Last(w)
             inside == Inside(top)
             n == Min(inside)
             below == Append(Front(w), [top EXCEPT !.next = n + 1])
             down == IF tablaDeNodos[n].state = 1 THEN below
                     ELSE Append(below, [dir |-> n + FirstNodeBlock, next |-> 0])
  <2>1. /\ pc[h] = "recorrer" /\ UNCHANGED <<punteros, bitmap>>
        /\ IF inside = {} THEN Continue(h, Front(w)) /\ UNCHANGED tablaDeNodos ELSE Borrar(h, n, down)
    BY <1>5 DEF borrar_directorio, At, r
  <2>2. r.op = "rmdir"
    BY <1>0, <2>1 DEF LocalOK
  <2>3. Front(w) \in Walks /\ top \in Top
    BY <2>1, WalkIs DEF Walks, Top, r
  <2>4. CASE inside = {}
    <3>1. ControlInv'
      BY <1>0, <2>1, <2>2, <2>3, <2>4, ContinueOK DEF r
    <3> QED
      BY <1>0, <2>1, <2>4, <3>1 DEF TypeInv, DiskOK, TablaOK
  <2>5. CASE inside # {}
    <3>1. n \in Nodes /\ n \in Int
      BY <2>5, InsideMin, NodesAreNat
    <3> HIDE DEF n, top
    <3>2. below \in Walks
      BY <2>3, <3>1 DEF Walks, Top
    <3> HIDE DEF below
    <3>3. down \in Walks
      <4>1. [dir |-> n + FirstNodeBlock, next |-> 0] \in Top
        BY <3>1 DEF Top, FirstNodeBlock
      <4>2. below \in Seq(Top)
        BY <3>2 DEF Walks, Top
      <4>3. Append(below, [dir |-> n + FirstNodeBlock, next |-> 0]) \in Seq(Top)
        BY <4>1, <4>2, AppendTop
      <4> QED
        BY <3>2, <4>3 DEF Walks, Top
    <3> HIDE DEF down
    <3>4. TablaOK' /\ ControlInv'
      BY <2>1, <2>2, <2>5, <3>1, <3>3, BorrarOK DEF r
    <3> QED
      BY <1>0, <2>1, <3>4 DEF TypeInv, DiskOK
  <2> QED
    BY <2>4, <2>5
<1> QED
  BY <1>1, <1>2, <1>3, <1>4, <1>5 DEF delete

LEMMA RenameTypes ==
  ASSUME TypeInv, NEW h \in Handlers, rename(h)
  PROVE  TypeInv'
<1> DEFINE r == local[h]
<1>0. r \in LocalType /\ LocalOK(pc[h], r) /\ TablaOK /\ DiskOK /\ ControlInv
  BY OfHandler
<1>1. CASE sac_server_rename(h)
  <2> DEFINE n == determine_nodo(r.path)
             parent == determine_nodo(Front(r.nuevo))
             q == [r EXCEPT !.node = n, !.parent = parent]
  <2>1. /\ pc[h] = "rename" /\ UNCHANGED disk
        /\ Answer(h) \/ Goto(h, "renombrar", q)
    BY <1>1 DEF sac_server_rename, At, r
  <2>2. r.op = "rename" /\ r.path \in Paths /\ r.nuevo \in Paths
    BY <1>0, <2>1 DEF LocalOK
  <2>3. n \in Nodes \cup {-1} /\ parent \in Int
    BY <2>2, DeterminedInt
  <2> HIDE DEF n, parent
  <2>4. q \in LocalType /\ q.op = "rename" /\ q.path \in Paths /\ q.nuevo \in Paths
    BY <1>0, <2>2, <2>3 DEF LocalType
  <2> HIDE DEF q, r
  <2>5. LocalOK("renombrar", q) /\ "renombrar" \in Labels
    BY <2>4 DEF LocalOK, Labels, BlockLabels, TruncateLabels, WriteLabels
  <2>6. ControlInv'
    BY <1>0, <2>1, <2>4, <2>5, Arrives, Answers
  <2> QED
    BY <2>1, <2>6, DiskKept DEF TypeInv
<1>2. CASE renombrar_archivo(h)
  <2> DEFINE parent == IF r.parent = 0 THEN 0 ELSE r.parent + FirstNodeBlock
             n == r.node
             a == [tablaDeNodos[n] EXCEPT !.fname = Last(r.nuevo)]
             d == [a EXCEPT !.parent = parent]
  <2>1. /\ pc[h] = "renombrar" /\ ~Wild(h) /\ Answer(h) /\ UNCHANGED <<punteros, bitmap>>
        /\ tablaDeNodos' = [tablaDeNodos EXCEPT ![n].fname = Last(r.nuevo), ![n].parent = parent]
    BY <1>2 DEF renombrar_archivo, At, r
  <2>2. n \in Nodes /\ r.parent \in Int /\ r.nuevo \in Paths
    BY <1>0, <2>1 DEF Wild, LocalType, LocalOK, r
  <2>3. parent \in Int
    BY <2>2 DEF FirstNodeBlock
  <2>4. Last(r.nuevo) \in Names
    BY <2>2, PathsAre DEF Names
  <2> HIDE DEF parent, n, r
  <2>5. a \in NodeType
    BY <1>0, <2>2, <2>4, NodeOf, FieldChanges
  <2> HIDE DEF a
  <2>6. d \in NodeType
    BY <2>3, <2>5, FieldChanges
  <2>7. tablaDeNodos' = [tablaDeNodos EXCEPT ![n] = d]
    BY <1>0, <2>1, <2>2 DEF TablaOK, a
  <2>8. TablaOK'
    BY <1>0, <2>2, <2>6, <2>7, NodeChanges
  <2> QED
    BY <1>0, <2>1, <2>8, Answers DEF TypeInv, DiskOK
<1> QED
  BY <1>1, <1>2 DEF rename

(***************************************************************************)
(* The types, in truncate and write.                                       *)
(***************************************************************************)
LEMMA PositionsInt ==
  ASSUME NEW size \in Int
  PROVE  /\ size % BLOQUE_SIZE \in Int /\ SpaceForGrowth(size) \in Int /\ SpaceInBlock(size) \in Int
<1>1. BLOQUE_SIZE \in Nat \ {0}
  BY SacAssumption DEF SacAssumption
<1>2. size % BLOQUE_SIZE \in Int
  BY <1>1
<1>3. SpaceForGrowth(size) \in Int
  BY <1>1, <1>2 DEF SpaceForGrowth
<1> DEFINE left == BLOQUE_SIZE - (size % BLOQUE_SIZE)
<1>4. left \in Int
  BY <1>1, <1>2
<1> HIDE DEF left
<1>5. left % BLOQUE_SIZE \in Int
  BY <1>1, <1>4
<1> QED
  BY <1>1, <1>2, <1>3, <1>5 DEF SpaceInBlock, left

LEMMA TruncateTypes ==
  ASSUME TypeInv, NEW h \in Handlers, truncate(h)
  PROVE  TypeInv'
<1> DEFINE r == local[h]
<1>0. r \in LocalType /\ LocalOK(pc[h], r) /\ TablaOK /\ DiskOK /\ ControlInv
  BY OfHandler
<1>1. ASSUME NEW l \in TruncateLabels \cup {"bloque"}, NEW q \in LocalType,
             q.op = "truncate", q.path \in Paths, q.node \in Nodes, Goto(h, l, q)
      PROVE  ControlInv'
  <2>1. LocalOK(l, q) /\ l \in Labels
    BY <1>1 DEF LocalOK, Labels, BlockLabels, TruncateLabels, WriteLabels
  <2> QED
    BY <1>0, <1>1, <2>1, Arrives
<1>2. ASSUME NEW l \in TruncateLabels, pc[h] = l
      PROVE  r.op = "truncate" /\ r.path \in Paths /\ (l # "truncar" => r.node \in Nodes)
  BY <1>0, <1>2 DEF LocalOK
<1>3. BLOQUE_SIZE \in Int
  BY SacAssumption DEF SacAssumption
<1>4. ASSUME NEW n \in Nodes
      PROVE  tablaDeNodos[n].file_size \in Int
  BY <1>0, NodeOf
<1>5. r.size \in Int /\ r.space \in Int /\ r.target \in Int
  BY <1>0 DEF LocalType
<1> HIDE DEF r
<1>6. CASE sac_server_truncate(h)
  <2> DEFINE n == determine_nodo(r.path)
             a == [r EXCEPT !.node = n]
             b == [a EXCEPT !.size = a.target - tablaDeNodos[n].file_size]
  <2>1. /\ pc[h] = "truncar" /\ UNCHANGED disk
        /\ Answer(h) \/ (n # -1 /\ (Goto(h, "espacio", b) \/ Goto(h, "acortar", a)))
    BY <1>6 DEF sac_server_truncate, At, r
  <2>2. r.op = "truncate" /\ r.path \in Paths
    BY <1>2, <2>1 DEF TruncateLabels
  <2>3. n \in Nodes \cup {-1}
    BY <2>2, DeterminedInt
  <2> HIDE DEF n
  <2>4. a \in LocalType /\ a.op = "truncate" /\ a.path \in Paths /\ a.node = n /\ a.target = r.target
    BY <1>0, <2>2, <2>3 DEF LocalType
  <2> HIDE DEF a
  <2>5. n # -1 => b \in LocalType /\ b.op = "truncate" /\ b.path \in Paths /\ b.node = n
    <3> SUFFICES ASSUME n # -1
                 PROVE  b \in LocalType /\ b.op = "truncate" /\ b.path \in Paths /\ b.node = n
      OBVIOUS
    <3>1. a.target - tablaDeNodos[n].file_size \in Int
      BY <1>4, <1>5, <2>3, <2>4
    <3> QED
      BY <2>4, <3>1 DEF LocalType
  <2> HIDE DEF b
  <2>6. ControlInv'
    BY <1>0, <1>1, <2>1, <2>3, <2>4, <2>5, Answers DEF TruncateLabels
  <2> QED
    BY <2>1, <2>6, DiskKept DEF TypeInv
<1>7. CASE delete_nodes_upto(h)
  <2> DEFINE last == LastPos(Size(h))
             upto == setear_posicion(r.target)
             data == IF last[1] < 0 THEN {} ELSE DataCut(last, upto)
             pointers == PointersCut(last, upto)
             b == Indirect(r.node, last[1])
             array == [i \in DOMAIN tablaDeNodos[r.node].indirect |->
                         IF i \in pointers THEN 0 ELSE tablaDeNodos[r.node].indirect[i]]
  <2>1. /\ pc[h] = "acortar" /\ bitmap' \subseteq bitmap
        /\ punteros' = IF data = {} THEN punteros
                       ELSE [punteros EXCEPT ![b] = [j \in DOMAIN @ |-> IF <<last[1], j>> \in data THEN 0 ELSE @[j]]]
        /\ tablaDeNodos' = [tablaDeNodos EXCEPT ![r.node].indirect =
                             [i \in DOMAIN @ |-> IF i \in pointers THEN 0 ELSE @[i]]]
        /\ Goto(h, "tamano", r)
    BY <1>7 DEF delete_nodes_upto, At, r
  <2>2. r.node \in Nodes /\ r.op = "truncate" /\ r.path \in Paths
    BY <1>2, <2>1 DEF TruncateLabels
  <2>3. ControlInv'
    BY <1>0, <1>1, <2>1, <2>2 DEF TruncateLabels
  <2> HIDE DEF b, data, pointers, last
  <2>4. DiskOK'
    <3>1. CASE data = {}
      BY <1>0, <2>1, <3>1 DEF DiskOK
    <3>2. CASE data # {}
      <4> DEFINE row == [j \in DOMAIN punteros[b] |-> IF <<last[1], j>> \in data THEN 0 ELSE punteros[b][j]]
      <4>1. b \in Blocks => row \in [0..(PUNTEROS_A_BLOQUES_DATOS - 1) -> Blocks \cup {-1, 0}]
        BY <1>0 DEF DiskOK
      <4>2. punteros' = [punteros EXCEPT ![b] = row]
        BY <2>1, <3>2
      <4> HIDE DEF row
      <4> QED
        BY <1>0, <2>1, <4>1, <4>2 DEF DiskOK
    <3> QED
      BY <3>1, <3>2
  <2>5. TablaOK'
    <3>1. array \in [0..(BLKINDIRECT - 1) -> Blocks \cup {0}]
      BY <1>0, <2>2, NodeOf
    <3>2. tablaDeNodos' = [tablaDeNodos EXCEPT ![r.node].indirect = array]
      BY <1>0, <2>1, <2>2 DEF TablaOK
    <3> HIDE DEF array
    <3> QED
      BY <1>0, <2>2, <3>1, <3>2 DEF TablaOK, NodeType
  <2> QED
    BY <2>3, <2>4, <2>5 DEF TypeInv
<1>8. CASE get_new_space(h)
  <2> DEFINE q == [r EXCEPT !.space = SpaceForGrowth(Size(h))]
  <2>1. /\ pc[h] = "espacio" /\ UNCHANGED disk
        /\ Goto(h, "tamano", q) \/ Goto(h, "sumar", q)
    BY <1>8 DEF get_new_space, At, r
  <2>2. r.op = "truncate" /\ r.path \in Paths /\ r.node \in Nodes
    BY <1>2, <2>1 DEF TruncateLabels
  <2>3. SpaceForGrowth(Size(h)) \in Int
    BY <1>4, <2>2, PositionsInt DEF Size, r
  <2>4. q \in LocalType /\ q.op = "truncate" /\ q.path \in Paths /\ q.node \in Nodes
    BY <1>0, <2>2, <2>3 DEF LocalType
  <2> HIDE DEF q
  <2>5. ControlInv'
    BY <1>1, <2>1, <2>4 DEF TruncateLabels
  <2> QED
    BY <2>1, <2>5, DiskKept DEF TypeInv
<1>9. ASSUME NEW n \in Int, Grow(h, n), r.node \in Nodes
      PROVE  TablaOK'
  <2>1. tablaDeNodos[r.node].file_size + n \in Int
    BY <1>4, <1>9
  <2>2. tablaDeNodos' = [tablaDeNodos EXCEPT ![r.node].file_size = tablaDeNodos[r.node].file_size + n]
    BY <1>0, <1>9 DEF Grow, r, TablaOK
  <2> QED
    BY <1>0, <1>9, <2>1, <2>2, SizeChanges
<1>10. CASE SumarEspacio(h)
  <2>1. pc[h] = "sumar" /\ Grow(h, r.space) /\ Goto(h, "bloque", r) /\ UNCHANGED <<punteros, bitmap>>
    BY <1>10 DEF SumarEspacio, At, r
  <2>2. r.op = "truncate" /\ r.path \in Paths /\ r.node \in Nodes
    BY <1>2, <2>1 DEF TruncateLabels
  <2>3. TablaOK' /\ ControlInv'
    BY <1>0, <1>1, <1>5, <1>9, <2>1, <2>2
  <2> QED
    BY <1>0, <2>1, <2>3 DEF TypeInv, DiskOK
<1>11. CASE SumarBloque(h)
  <2> DEFINE q == [r EXCEPT !.size = r.size - BLOQUE_SIZE]
  <2>1. /\ pc[h] = "crecer" /\ Grow(h, BLOQUE_SIZE) /\ UNCHANGED <<punteros, bitmap>>
        /\ Goto(h, "bloque", q) \/ Goto(h, "tamano", q)
    BY <1>11 DEF SumarBloque, At, r
  <2>2. r.op = "truncate" /\ r.path \in Paths /\ r.node \in Nodes
    BY <1>2, <2>1 DEF TruncateLabels
  <2>3. r.size - BLOQUE_SIZE \in Int
    BY <1>3, <1>5
  <2>4. q \in LocalType /\ q.op = "truncate" /\ q.path \in Paths /\ q.node \in Nodes
    BY <1>0, <2>2, <2>3 DEF LocalType
  <2> HIDE DEF q
  <2>5. TablaOK' /\ ControlInv'
    BY <1>1, <1>3, <1>9, <2>1, <2>2, <2>4 DEF TruncateLabels
  <2> QED
    BY <1>0, <2>1, <2>5 DEF TypeInv, DiskOK
<1>12. CASE truncar_archivo(h)
  <2>1. /\ pc[h] = "tamano" /\ Answer(h) /\ UNCHANGED <<punteros, bitmap>>
        /\ tablaDeNodos' = [tablaDeNodos EXCEPT ![r.node].file_size = r.target]
    BY <1>12 DEF truncar_archivo, At, r
  <2>2. r.node \in Nodes
    BY <1>2, <2>1 DEF TruncateLabels
  <2>3. TablaOK' /\ ControlInv'
    BY <1>0, <1>5, <2>1, <2>2, SizeChanges, Answers
  <2> QED
    BY <1>0, <2>1, <2>3 DEF TypeInv, DiskOK
<1> QED
  BY <1>6, <1>7, <1>8, <1>10, <1>11, <1>12 DEF truncate

LEMMA ChunkInt ==
  ASSUME NEW r \in LocalType, NEW size \in Int, NEW space \in Int
  PROVE  LET c == Chunk(r, size, space) IN c.size \in Int /\ c.fsize \in Int /\ c.left \in Int /\ c.off \in Int
<1>1. r.size \in Int /\ r.off \in Int /\ r.fsize \in Int /\ BLOQUE_SIZE \in Int
  BY SacAssumption DEF LocalType, SacAssumption
<1>2. Max({size, r.off + r.size}) \in Int
  BY <1>1, MaxOfTwo
<1> QED
  BY <1>1, <1>2 DEF Chunk

LEMMA WriteTypes ==
  ASSUME TypeInv, LockInv, NEW h \in Handlers, write(h)
  PROVE  TypeInv'
<1> DEFINE r == local[h]
<1>0. r \in LocalType /\ LocalOK(pc[h], r) /\ TablaOK /\ DiskOK /\ ControlInv
  BY OfHandler
<1>1. ASSUME NEW l \in WriteLabels \cup {"bloque"}, NEW q \in LocalType,
             q.op = "write", q.path \in Paths, l \in {"trozo", "escribir", "bloque"} => q.node \in Nodes, Goto(h, l, q)
      PROVE  ControlInv'
  <2>1. LocalOK(l, q) /\ l \in Labels
    BY <1>1 DEF LocalOK, Labels, BlockLabels, TruncateLabels, WriteLabels
  <2> QED
    BY <1>0, <1>1, <2>1, Arrives
<1>2. ASSUME NEW l \in WriteLabels, pc[h] = l
      PROVE  r.op = "write" /\ r.path \in Paths /\ (l \in {"trozo", "escribir"} => r.node \in Nodes)
  BY <1>0, <1>2 DEF LocalOK
<1>3. BLOQUE_SIZE \in Int
  BY SacAssumption DEF SacAssumption
<1>4. ASSUME NEW n \in Nodes
      PROVE  tablaDeNodos[n].file_size \in Int
  BY <1>0, NodeOf
<1> HIDE DEF r
<1>5. CASE escribir_archivo(h)
  <2> DEFINE n == determine_nodo(r.path)
             m == IF r.path \in DOMAIN diccionarioDeMutex THEN diccionarioDeMutex[r.path] ELSE <<r.path, h>>
             q == [r EXCEPT !.node = n, !.mutex = m]
  <2>1. pc[h] = "write" /\ UNCHANGED disk /\ (Goto(h, "tomar", q) \/ Goto(h, "poner", q))
    BY <1>5 DEF escribir_archivo, At, r
  <2>2. pc[h] = "write" /\ UNCHANGED disk
    BY <1>5 DEF escribir_archivo, At
  <2>3. r.op = "write" /\ r.path \in Paths
    BY <1>2, <2>2 DEF WriteLabels
  <2>4. n \in Nodes \cup {-1}
    BY <2>3, DeterminedInt
  <2>5. m \in MutexIds
    BY <2>3 DEF LockInv, LocksTyped, MutexIds
  <2> HIDE DEF n, m
  <2>6. q \in LocalType /\ q.op = "write" /\ q.path \in Paths
    BY <1>0, <2>3, <2>4, <2>5 DEF LocalType
  <2> HIDE DEF q
  <2>7. ControlInv'
    BY <1>1, <2>1, <2>6 DEF WriteLabels
  <2> QED
    BY <2>2, <2>7, DiskKept DEF TypeInv
<1>6. CASE PonerMutex(h)
  <2>1. pc[h] = "poner" /\ UNCHANGED disk /\ Goto(h, "tomar", r)
    BY <1>6 DEF PonerMutex, At, r
  <2>2. ControlInv'
    BY <1>0, <1>1, <1>2, <2>1 DEF WriteLabels
  <2> QED
    BY <2>1, <2>2, DiskKept DEF TypeInv
<1>7. CASE TomarMutex(h)
  <2> DEFINE q == [r EXCEPT !.fsize = Size(h)]
  <2>1. pc[h] = "tomar" /\ ~Wild(h) /\ UNCHANGED disk /\ Goto(h, "trozo", q)
    BY <1>7 DEF TomarMutex, At, r
  <2>2. r.op = "write" /\ r.path \in Paths
    BY <1>2, <2>1 DEF WriteLabels
  <2>3. r.node \in Nodes
    BY <1>0, <2>1 DEF Wild, LocalType, r
  <2>4. Size(h) \in Int
    BY <1>4, <2>3 DEF Size, r
  <2>5. q \in LocalType /\ q.op = "write" /\ q.path \in Paths /\ q.node \in Nodes
    BY <1>0, <2>2, <2>3, <2>4 DEF LocalType
  <2> HIDE DEF q
  <2>6. ControlInv'
    BY <1>1, <2>1, <2>5 DEF WriteLabels
  <2> QED
    BY <2>1, <2>6, DiskKept DEF TypeInv
<1>8. CASE ArchivoMuyLargo(h) \/ DiscoLleno(h)
  BY <1>0, <1>8, Answers, DiskKept DEF ArchivoMuyLargo, DiscoLleno, TypeInv
<1>9. CASE PedirBloque(h)
  <2>1. pc[h] = "trozo" /\ UNCHANGED disk /\ Goto(h, "bloque", r)
    BY <1>9 DEF PedirBloque, At, r
  <2>2. r.op = "write" /\ r.path \in Paths /\ r.node \in Nodes
    BY <1>2, <2>1 DEF WriteLabels
  <2>3. ControlInv'
    BY <1>0, <1>1, <2>1, <2>2 DEF WriteLabels
  <2> QED
    BY <2>1, <2>3, DiskKept DEF TypeInv
<1>10. CASE EscribirTrozo(h)
  <2> DEFINE space == IF pc[h] = "escribir" THEN BLOQUE_SIZE ELSE SpaceInBlock(r.fsize)
             c == Chunk(r, Size(h), space)
             q == [r EXCEPT !.fsize = c.fsize, !.size = c.left, !.off = c.off]
  <2>1. /\ pc[h] \in {"trozo", "escribir"} /\ UNCHANGED <<punteros, bitmap>>
        /\ tablaDeNodos' = [tablaDeNodos EXCEPT ![r.node].file_size = c.size]
        /\ Answer(h) \/ Goto(h, "trozo", q)
    BY <1>10 DEF EscribirTrozo, At, r
  <2>2. r.op = "write" /\ r.path \in Paths /\ r.node \in Nodes
    BY <1>2, <2>1 DEF WriteLabels
  <2>3. Size(h) \in Int
    BY <1>4, <2>2 DEF Size, r
  <2>4. space \in Int
    <3>1. r.fsize \in Int
      BY <1>0 DEF LocalType
    <3> QED
      BY <1>3, <3>1, PositionsInt
  <2> HIDE DEF space
  <2>5. c.size \in Int /\ c.fsize \in Int /\ c.left \in Int /\ c.off \in Int
    BY <1>0, <2>3, <2>4, ChunkInt
  <2> HIDE DEF c
  <2>6. q \in LocalType /\ q.op = "write" /\ q.path \in Paths /\ q.node \in Nodes
    BY <1>0, <2>2, <2>5 DEF LocalType
  <2> HIDE DEF q
  <2>7. ControlInv'
    BY <1>0, <1>1, <2>1, <2>6, Answers DEF WriteLabels
  <2>8. TablaOK'
    BY <1>0, <2>1, <2>2, <2>5, SizeChanges
  <2> QED
    BY <1>0, <2>1, <2>7, <2>8 DEF TypeInv, DiskOK
<1> QED
  BY <1>5, <1>6, <1>7, <1>8, <1>9, <1>10 DEF write

LEMMA TypesKept ==
  ASSUME TypeInv, UNCHANGED <<disk, pc, local>>
  PROVE  TypeInv'
BY DEF TypeInv, TablaOK, DiskOK, ControlInv, disk

LEMMA TypeInit == Init => TypeInv
<1> SUFFICES ASSUME Init
             PROVE  TypeInv
  OBVIOUS
<1>1. EmptyNode \in NodeType
  <2>1. 0 \in 0..2 /\ NONE \in Names
    BY DEF Names
  <2> QED
    BY <2>1 DEF EmptyNode, NodeType, Names
<1>2. TablaOK /\ DiskOK
  BY <1>1 DEF Init, configurar_server, TablaOK, DiskOK
<1>3. ControlInv
  <2>1. "idle" \in Labels
    BY DEF Labels
  <2> QED
    BY <2>1, IdleOK DEF Init, ControlInv
<1> QED
  BY <1>2, <1>3 DEF TypeInv

LEMMA TypeNext ==
  ASSUME TypeInv, LockInv, [Next]_vars
  PROVE  TypeInv'
<1>1. CASE UNCHANGED vars
  BY <1>1, TypesKept DEF vars
<1>2. CASE Next
  <2>1. PICK h \in Handlers : Ask(h) \/ fuse_invoke_function(h)
    BY <1>2 DEF Next
  <2>2. CASE GoWild(h)
    BY <2>2, TypesKept DEF GoWild
  <2> QED
    BY <2>1, <2>2, AskTypes, CreateTypes, BlocksTypes, DeleteTypes, RenameTypes, TruncateTypes, WriteTypes
       DEF fuse_invoke_function
<1> QED
  BY <1>1, <1>2

LEMMA TypesInvariant == Spec => []TypeInv
<1>1. TypeInv /\ LockInv /\ [Next]_vars => TypeInv'
  BY TypeNext
<1> QED
  BY <1>1, TypeInit, LockInvariance, PTL DEF Spec

\* The tables, the locks and the handlers keep their types, whatever requests there are
\* and however they meet: TypeOK.
THEOREM TypesHold == Spec => []TypeOK
<1>1. LockInv /\ TypeInv => TypeOK
  BY TypesOfState
<1> QED
  BY <1>1, TypesInvariant, LockInvariance, PTL

(***************************************************************************)
(* The names.                                                              *)
(***************************************************************************)
Together(n, m) ==
  /\ tablaDeNodos[n].state # 0 /\ tablaDeNodos[m].state # 0
  /\ tablaDeNodos[n].parent # 0 /\ tablaDeNodos[n].parent = tablaDeNodos[m].parent

NamesDiffer ==
  \A n, m \in Nodes : n # m /\ Together(n, m) => tablaDeNodos[n].fname # tablaDeNodos[m].fname

OneRenames == \A g, h \in Handlers : pc[g] = "renombrar" /\ pc[h] = "renombrar" => g = h

\* What a rename found out without the mutex still holds when it has it.
NameStaysFree ==
  \A h \in Handlers : pc[h] = "renombrar" /\ local[h].parent # 0 =>
    \A n \in Nodes : tablaDeNodos[n].state # 0 /\ tablaDeNodos[n].parent = local[h].parent + FirstNodeBlock
                     => tablaDeNodos[n].fname # Last(local[h].nuevo)

NamesInv == ~raced /\ ~wild => NamesDiffer /\ OneRenames /\ NameStaysFree

(***************************************************************************)
(* The tree.                                                               *)
(***************************************************************************)
Dirs == {d \in Nodes : tablaDeNodos[d].state = 2}
FileLabels == {"borrar", "marcar"}
DeleteLabels == FileLabels \cup {"recorrer"}
Removes(h) == pc[h] \in DeleteLabels /\ local[h].op = "rmdir"

\* An rmdir is at the node, or will come to it in a directory that it walks.
Reaches(h, n) ==
  /\ Removes(h)
  /\ \/ local[h].node = n
     \/ \E i \in DOMAIN local[h].walk :
          local[h].walk[i].dir = tablaDeNodos[n].parent /\ local[h].walk[i].next <= n

Placed(n) ==
  \/ tablaDeNodos[n].parent = 0
  \/ tablaDeNodos[n].parent - FirstNodeBlock \in Dirs
  \/ \E h \in Handlers : Reaches(h, n)

AllPlaced == \A n \in Nodes : tablaDeNodos[n].state # 0 => Placed(n)

\* Who deletes a file is alone with it, and it is a file.
FilesDeletedOnce ==
  /\ \A h \in Handlers : pc[h] \in FileLabels => tablaDeNodos[local[h].node].state = 1
  /\ \A g, h \in Handlers : pc[g] \in FileLabels /\ pc[h] \in FileLabels /\ local[g].node = local[h].node => g = h

ParentStays ==
  \A h \in Handlers : pc[h] = "renombrar" =>
    /\ \A g \in Handlers : ~Removes(g)
    /\ local[h].parent = 0 \/ local[h].parent \in Dirs

TreeInv == ~raced /\ ~wild /\ ~spilled => AllPlaced /\ FilesDeletedOnce /\ ParentStays

(***************************************************************************)
(* What a step does to the names and the parents in the table.             *)
(***************************************************************************)
SameNode(n) ==
  /\ tablaDeNodos'[n].state = tablaDeNodos[n].state
  /\ tablaDeNodos'[n].parent = tablaDeNodos[n].parent
  /\ tablaDeNodos'[n].fname = tablaDeNodos[n].fname

SameTable == \A n \in Nodes : SameNode(n)
Fewer == \A n \in Nodes : tablaDeNodos'[n].state = 0 \/ SameNode(n)

\* Nothing of what the invariants excuse is forgotten.
Remembers == (raced => raced') /\ (wild => wild') /\ (spilled => spilled')

QuietLabels == Labels \ (DeleteLabels \cup {"renombrar"})

\* A step of a handler that neither deletes nor renames.
Quiet(h) ==
  /\ Remembers /\ Fewer /\ (~spilled' => SameTable)
  /\ pc[h] \in QuietLabels
  /\ \E l \in QuietLabels : \E q : Goto(h, l, q)

LEMMA HistoryKept ==
  ASSUME UNCHANGED <<wild, history>>
  PROVE  Remembers
BY DEF history, Remembers

LEMMA GotoIs ==
  ASSUME ControlInv, NEW h \in Handlers, NEW l, NEW q, Goto(h, l, q)
  PROVE  /\ pc'[h] = l /\ local'[h] = q
         /\ \A g \in Handlers \ {h} : pc'[g] = pc[g] /\ local'[g] = local[g]
BY DEF ControlInv, Goto

LEMMA SizeIsQuiet ==
  ASSUME TablaOK, NEW n, NEW size, tablaDeNodos' = [tablaDeNodos EXCEPT ![n].file_size = size]
  PROVE  SameTable /\ Fewer
BY DEF TablaOK, NodeType, SameTable, Fewer, SameNode

LEMMA ArrayIsQuiet ==
  ASSUME TablaOK, NEW n, NEW array, tablaDeNodos' = [tablaDeNodos EXCEPT ![n].indirect = array]
  PROVE  SameTable /\ Fewer
BY DEF TablaOK, NodeType, SameTable, Fewer, SameNode

LEMMA DeletedIs ==
  ASSUME TablaOK, NEW n \in Nodes, tablaDeNodos' = Deleted(n)
  PROVE  /\ tablaDeNodos'[n].state = 0
         /\ \A m \in Nodes \ {n} : SameNode(m)
         /\ Fewer
BY DEF TablaOK, NodeType, Deleted, Fewer, SameNode

LEMMA LinkedIs ==
  ASSUME TablaOK, NEW n \in Nodes, NEW i, NEW b, tablaDeNodos' = Linked(n, i, b)
  PROVE  Fewer /\ (~LastPointer(n, i) => SameTable)
<1> DEFINE array == [k \in DOMAIN tablaDeNodos[n].indirect |->
                       IF k = i THEN b ELSE IF k = i + 1 THEN 0 ELSE tablaDeNodos[n].indirect[k]]
           linked == [tablaDeNodos EXCEPT ![n].indirect = array]
<1>1. Linked(n, i, b) = IF LastPointer(n, i)
                        THEN [linked EXCEPT ![n + 1].state = 0, ![n + 1].fname = NONE] ELSE linked
  BY DEF Linked, TablaOK
<1> HIDE DEF array
<1>2. \A m \in Nodes : /\ linked[m].state = tablaDeNodos[m].state /\ linked[m].fname = tablaDeNodos[m].fname
                       /\ linked[m].parent = tablaDeNodos[m].parent
  BY DEF TablaOK, NodeType
<1>3. DOMAIN linked = Nodes /\ \A m \in Nodes : DOMAIN linked[m] = DOMAIN EmptyNode
  BY DEF TablaOK, NodeType, EmptyNode
<1> HIDE DEF linked
<1>4. CASE ~LastPointer(n, i)
  BY <1>1, <1>2, <1>4 DEF SameTable, SameNode, Fewer
<1>5. CASE LastPointer(n, i)
  <2>1. n + 1 \in Nodes
    BY <1>5 DEF LastPointer
  <2>2. tablaDeNodos'[n + 1].state = 0
    BY <1>1, <1>3, <1>5, <2>1 DEF EmptyNode
  <2>3. \A m \in Nodes \ {n + 1} : tablaDeNodos'[m] = linked[m]
    BY <1>1, <1>3, <1>5, <2>1
  <2> QED
    BY <1>2, <1>5, <2>2, <2>3 DEF SameNode, Fewer
<1> QED
  BY <1>4, <1>5

LEMMA UnchangedIsQuiet ==
  ASSUME UNCHANGED tablaDeNodos
  PROVE  SameTable /\ Fewer
BY DEF SameTable, Fewer, SameNode

(***************************************************************************)
(* The steps that are quiet.                                               *)
(***************************************************************************)
LEMMA AskQuiet ==
  ASSUME TypeInv, NEW h \in Handlers, Ask(h)
  PROVE  Quiet(h)
<1>1. Remembers /\ UNCHANGED tablaDeNodos /\ pc[h] = "idle"
  BY DEF Ask, Remembers, disk, history
<1>2. \E l \in {"crear", "unlink", "rmdir", "rename", "truncar", "write"} : \E q : Goto(h, l, q)
  BY DEF Ask
<1> QED
  BY <1>1, <1>2, UnchangedIsQuiet DEF Quiet, QuietLabels, Labels, DeleteLabels, FileLabels

LEMMA AnswerQuiet ==
  ASSUME TypeInv, NEW h \in Handlers, Answer(h), UNCHANGED tablaDeNodos, Remembers, pc[h] \in QuietLabels
  PROVE  Quiet(h)
BY UnchangedIsQuiet DEF Answer, Quiet, QuietLabels, Labels, DeleteLabels, FileLabels

LEMMA AfterAgregarQuiet ==
  ASSUME NEW h \in Handlers, NEW ok, AfterAgregar(h, ok)
  PROVE  \E l \in QuietLabels : \E q : Goto(h, l, q)
<1>1. \E l \in {"escribir", "crecer", "idle"} : \E q : Goto(h, l, q)
  BY DEF AfterAgregar, Answer
<1> QED
  BY <1>1 DEF QuietLabels, Labels, DeleteLabels, FileLabels

LEMMA BlocksQuiet ==
  ASSUME TypeInv, NEW h \in Handlers, blocks(h)
  PROVE  Quiet(h)
<1>0. TablaOK /\ LocalOK(pc[h], local[h])
  BY OfHandler
<1>1. pc[h] \in BlockLabels /\ local[h].node \in Nodes
  <2>1. pc[h] \in BlockLabels
    BY DEF blocks, get_bloque_vacio, SinBloques, agregar_nodo, ArchivoLleno, AgregarPunteros,
           BloqueDePunteros, SinBloqueDePunteros, At, BlockLabels
  <2> QED
    BY <1>0, <2>1 DEF LocalOK
<1>2. Remembers
  <2>1. CASE get_bloque_vacio(h) \/ agregar_nodo(h) \/ AgregarPunteros(h)
    BY <2>1, HistoryKept DEF get_bloque_vacio, agregar_nodo, AgregarPunteros
  <2>2. CASE SinBloques(h)
    BY <2>2 DEF SinBloques, Remembers
  <2>3. CASE ArchivoLleno(h)
    BY <2>3 DEF ArchivoLleno, Remembers
  <2>4. CASE SinBloqueDePunteros(h)
    BY <2>4 DEF SinBloqueDePunteros, Remembers
  <2>5. CASE BloqueDePunteros(h)
    BY <2>5 DEF BloqueDePunteros, Remembers
  <2> QED
    BY <2>1, <2>2, <2>3, <2>4, <2>5 DEF blocks
<1>3. \E l \in QuietLabels : \E q : Goto(h, l, q)
  <2>1. CASE get_bloque_vacio(h) \/ SinBloques(h) \/ AgregarPunteros(h)
    <3>1. \E l \in {"agregar", "punteros", "idle"} : \E q : Goto(h, l, q)
      BY <2>1 DEF get_bloque_vacio, SinBloques, AgregarPunteros, Answer
    <3> QED
      BY <3>1 DEF QuietLabels, Labels, DeleteLabels, FileLabels
  <2>2. CASE agregar_nodo(h) \/ ArchivoLleno(h) \/ BloqueDePunteros(h) \/ SinBloqueDePunteros(h)
    BY <2>2, AfterAgregarQuiet DEF agregar_nodo, ArchivoLleno, BloqueDePunteros, SinBloqueDePunteros
  <2> QED
    BY <2>1, <2>2 DEF blocks
<1>4. Fewer /\ (~spilled' => SameTable)
  <2>1. CASE BloqueDePunteros(h)
    <3>1. /\ tablaDeNodos' = Linked(local[h].node, PointerPos(Size(h)), Min(Free))
          /\ LastPointer(local[h].node, PointerPos(Size(h))) => spilled'
      BY <2>1 DEF BloqueDePunteros
    <3> QED
      BY <1>0, <1>1, <3>1, LinkedIs
  <2>2. CASE ~BloqueDePunteros(h)
    <3>1. UNCHANGED tablaDeNodos
      BY <2>2 DEF blocks, get_bloque_vacio, SinBloques, agregar_nodo, ArchivoLleno, AgregarPunteros,
                  SinBloqueDePunteros, disk
    <3> QED
      BY <3>1, UnchangedIsQuiet
  <2> QED
    BY <2>1, <2>2
<1>5. pc[h] \in QuietLabels
  BY <1>1 DEF QuietLabels, Labels, DeleteLabels, FileLabels, BlockLabels
<1> QED
  BY <1>2, <1>3, <1>4, <1>5 DEF Quiet

LEMMA TruncateQuiet ==
  ASSUME TypeInv, NEW h \in Handlers, truncate(h)
  PROVE  Quiet(h)
<1>0. TablaOK
  BY OfHandler
<1>1. /\ pc[h] \in TruncateLabels
      /\ \E l \in TruncateLabels \cup {"idle", "bloque"} : \E q : Goto(h, l, q)
  BY DEF truncate, sac_server_truncate, delete_nodes_upto, get_new_space, SumarEspacio, SumarBloque,
         truncar_archivo, At, Answer, TruncateLabels
<1>2. Remembers
  <2>1. CASE SumarEspacio(h) \/ SumarBloque(h) \/ truncar_archivo(h)
    BY <2>1, HistoryKept DEF SumarEspacio, SumarBloque, truncar_archivo
  <2>2. CASE delete_nodes_upto(h) \/ get_new_space(h)
    BY <2>2 DEF delete_nodes_upto, get_new_space, Remembers
  <2>3. CASE sac_server_truncate(h)
    BY <2>3 DEF sac_server_truncate, Meets, Remembers
  <2> QED
    BY <2>1, <2>2, <2>3 DEF truncate
<1>3. SameTable /\ Fewer
  <2>1. CASE sac_server_truncate(h) \/ get_new_space(h)
    BY <2>1, UnchangedIsQuiet DEF sac_server_truncate, get_new_space, disk
  <2>2. CASE delete_nodes_upto(h)
    <3> DEFINE last == LastPos(Size(h))
               pointers == PointersCut(last, setear_posicion(local[h].target))
               n == local[h].node
    <3>1. tablaDeNodos' = [tablaDeNodos EXCEPT ![n].indirect =
                            [i \in DOMAIN @ |-> IF i \in pointers THEN 0 ELSE @[i]]]
      BY <2>2 DEF delete_nodes_upto
    <3> HIDE DEF pointers
    <3> QED
      BY <1>0, <3>1 DEF TablaOK, NodeType, SameTable, Fewer, SameNode
  <2>3. CASE SumarEspacio(h) \/ SumarBloque(h)
    <3>1. PICK x : tablaDeNodos' = [tablaDeNodos EXCEPT ![local[h].node].file_size = @ + x]
      BY <2>3 DEF SumarEspacio, SumarBloque, Grow
    <3> DEFINE size == tablaDeNodos[local[h].node].file_size + x
    <3>2. tablaDeNodos' = [tablaDeNodos EXCEPT ![local[h].node].file_size = size]
      BY <1>0, <3>1 DEF TablaOK, NodeType
    <3> QED
      BY <1>0, <3>2, SizeIsQuiet
  <2>4. CASE truncar_archivo(h)
    BY <1>0, <2>4, SizeIsQuiet DEF truncar_archivo
  <2> QED
    BY <2>1, <2>2, <2>3, <2>4 DEF truncate
<1> QED
  BY <1>1, <1>2, <1>3 DEF Quiet, QuietLabels, Labels, DeleteLabels, FileLabels, TruncateLabels

LEMMA WriteQuiet ==
  ASSUME TypeInv, NEW h \in Handlers, write(h)
  PROVE  Quiet(h)
<1>0. TablaOK
  BY OfHandler
<1>1. /\ pc[h] \in WriteLabels
      /\ \E l \in WriteLabels \cup {"idle", "bloque"} : \E q : Goto(h, l, q)
  BY DEF write, escribir_archivo, PonerMutex, TomarMutex, ArchivoMuyLargo, DiscoLleno, PedirBloque,
         EscribirTrozo, At, Answer, WriteLabels
<1>2. Remembers
  <2>1. CASE PonerMutex(h) \/ TomarMutex(h)
    BY <2>1, HistoryKept DEF PonerMutex, TomarMutex
  <2>2. CASE ArchivoMuyLargo(h) \/ DiscoLleno(h) \/ PedirBloque(h) \/ EscribirTrozo(h)
    BY <2>2 DEF ArchivoMuyLargo, DiscoLleno, PedirBloque, EscribirTrozo, Remembers
  <2>3. CASE escribir_archivo(h)
    BY <2>3 DEF escribir_archivo, Meets, Remembers
  <2> QED
    BY <2>1, <2>2, <2>3 DEF write
<1>3. SameTable /\ Fewer
  <2>1. CASE EscribirTrozo(h)
    <3>1. \E n, size : tablaDeNodos' = [tablaDeNodos EXCEPT ![n].file_size = size]
      BY <2>1 DEF EscribirTrozo
    <3> QED
      BY <1>0, <3>1, SizeIsQuiet
  <2>2. CASE ~EscribirTrozo(h)
    BY <2>2, UnchangedIsQuiet DEF write, escribir_archivo, PonerMutex, TomarMutex, ArchivoMuyLargo,
       DiscoLleno, PedirBloque, disk
  <2> QED
    BY <2>1, <2>2
<1> QED
  BY <1>1, <1>2, <1>3 DEF Quiet, QuietLabels, Labels, DeleteLabels, FileLabels, WriteLabels

LEMMA RefusedQuiet ==
  ASSUME TypeInv, NEW h \in Handlers, TablaLlena(h) \/ YaExiste(h)
  PROVE  Quiet(h)
<1>1. pc[h] = "crear" /\ Answer(h) /\ UNCHANGED tablaDeNodos /\ Remembers
  BY DEF TablaLlena, YaExiste, At, disk, Remembers
<1> QED
  BY <1>1, AnswerQuiet DEF QuietLabels, Labels, DeleteLabels, FileLabels

(***************************************************************************)
(* The steps that delete.                                                  *)
(***************************************************************************)
LEMMA BorrarIs ==
  ASSUME TypeInv, NEW h \in Handlers, NEW n \in Nodes \cup {-1}, NEW w, Borrar(h, n, w)
  PROVE  Fewer /\ \E l \in DeleteLabels \cup {"idle"} : \E q : Goto(h, l, q)
<1>0. TablaOK
  BY OfHandler
<1>1. ASSUME Continue(h, w)
      PROVE  \E l \in DeleteLabels \cup {"idle"} : \E q : Goto(h, l, q)
  BY <1>1 DEF Continue, Answer, DeleteLabels
<1>2. CASE n = -1
  BY <1>1, <1>2, UnchangedIsQuiet DEF Borrar
<1>3. CASE n # -1 /\ tablaDeNodos[n].state = 2
  BY <1>0, <1>1, <1>3, DeletedIs DEF Borrar
<1>4. CASE n # -1 /\ tablaDeNodos[n].state # 2
  BY <1>4, UnchangedIsQuiet DEF Borrar, DeleteLabels, FileLabels
<1> QED
  BY <1>2, <1>3, <1>4

LEMMA DeleteIs ==
  ASSUME TypeInv, NEW h \in Handlers, delete(h)
  PROVE  Fewer /\ Remembers /\ \E l \in DeleteLabels \cup {"idle"} : \E q : Goto(h, l, q)
<1> DEFINE r == local[h]
<1>0. r \in LocalType /\ LocalOK(pc[h], r) /\ TablaOK
  BY OfHandler
<1>1. CASE sac_server_unlink(h)
  <2>1. pc[h] = "unlink" /\ Borrar(h, determine_nodo(r.path), <<>>)
    BY <1>1 DEF sac_server_unlink, At
  <2>2. Remembers
    BY <1>1 DEF sac_server_unlink, Meets, Remembers
  <2>3. determine_nodo(r.path) \in Nodes \cup {-1}
    BY <1>0, <2>1, DeterminedInt DEF LocalOK
  <2> QED
    BY <2>1, <2>2, <2>3, BorrarIs
<1>2. CASE sac_server_rmdir(h)
  <2>1. pc[h] = "rmdir" /\ \E w : Borrar(h, determine_nodo(r.path), w)
    BY <1>2 DEF sac_server_rmdir, At
  <2>2. Remembers
    BY <1>2 DEF sac_server_rmdir, Remembers
  <2>3. determine_nodo(r.path) \in Nodes \cup {-1}
    BY <1>0, <2>1, DeterminedInt DEF LocalOK
  <2> QED
    BY <2>1, <2>2, <2>3, BorrarIs
<1>3. CASE borrar_contenido(h)
  BY <1>3, HistoryKept, UnchangedIsQuiet DEF borrar_contenido, DeleteLabels, FileLabels
<1>4. CASE borrar_archivo(h)
  <2>1. /\ pc[h] = "marcar" /\ tablaDeNodos' = Deleted(r.node) /\ Continue(h, r.walk)
        /\ UNCHANGED <<wild, history>>
    BY <1>4 DEF borrar_archivo, At
  <2>2. r.node \in Nodes
    BY <1>0, <2>1 DEF LocalOK
  <2> QED
    BY <1>0, <2>1, <2>2, HistoryKept, DeletedIs DEF Continue, Answer, DeleteLabels
<1>5. CASE borrar_directorio(h)
  <2> DEFINE inside == Inside(Last(r.walk))
  <2>1. /\ pc[h] = "recorrer"
        /\ IF inside = {} THEN Continue(h, Front(r.walk)) /\ UNCHANGED tablaDeNodos
           ELSE \E w : Borrar(h, Min(inside), w)
    BY <1>5 DEF borrar_directorio, At
  <2>2. Remembers
    BY <1>5 DEF borrar_directorio, Remembers
  <2>3. CASE inside = {}
    BY <2>1, <2>2, <2>3, UnchangedIsQuiet DEF Continue, Answer, DeleteLabels
  <2>4. CASE inside # {}
    BY <2>1, <2>2, <2>4, InsideMin, BorrarIs
  <2> QED
    BY <2>3, <2>4
<1> QED
  BY <1>1, <1>2, <1>3, <1>4, <1>5 DEF delete

(***************************************************************************)
(* A name is once in a directory.                                          *)
(***************************************************************************)
LEMMA FewerKeepsNames ==
  ASSUME NamesInv, TypeInv, NEW h \in Handlers, NEW l, NEW q, Goto(h, l, q), l # "renombrar",
         Fewer, Remembers
  PROVE  NamesInv'
<1> SUFFICES ASSUME ~raced', ~wild'
             PROVE  (NamesDiffer /\ OneRenames /\ NameStaysFree)'
  BY DEF NamesInv
<1>1. NamesDiffer /\ OneRenames /\ NameStaysFree
  BY DEF NamesInv, Remembers
<1>2. pc'[h] # "renombrar" /\ \A g \in Handlers \ {h} : pc'[g] = pc[g] /\ local'[g] = local[g]
  BY GotoIs DEF TypeInv
<1>3. NamesDiffer'
  <2> SUFFICES ASSUME NEW n \in Nodes, NEW m \in Nodes, n # m, Together(n, m)'
               PROVE  tablaDeNodos'[n].fname # tablaDeNodos'[m].fname
    BY DEF NamesDiffer
  <2>1. SameNode(n) /\ SameNode(m)
    BY DEF Fewer, Together
  <2> QED
    BY <1>1, <2>1 DEF SameNode, Together, NamesDiffer
<1>4. OneRenames'
  BY <1>1, <1>2 DEF OneRenames
<1>5. NameStaysFree'
  <2> SUFFICES ASSUME NEW g \in Handlers, pc'[g] = "renombrar", local'[g].parent # 0, NEW n \in Nodes,
                      tablaDeNodos'[n].state # 0, tablaDeNodos'[n].parent = local'[g].parent + FirstNodeBlock
               PROVE  tablaDeNodos'[n].fname # Last(local'[g].nuevo)
    BY DEF NameStaysFree, FirstNodeBlock
  <2>1. pc[g] = "renombrar" /\ local'[g] = local[g]
    BY <1>2
  <2>2. SameNode(n)
    BY DEF Fewer
  <2> QED
    BY <1>1, <2>1, <2>2 DEF NameStaysFree, SameNode
<1> QED
  BY <1>3, <1>4, <1>5

\* A rename and a create that meet are raced, so nobody waits to put a name.
LEMMA NobodyRenames ==
  ASSUME TypeInv, NEW h \in Handlers, NEW ops, "rename" \in ops, ~Beside(h, ops)
  PROVE  \A g \in Handlers \ {h} : pc[g] # "renombrar"
<1> SUFFICES ASSUME NEW g \in Handlers \ {h}, pc[g] = "renombrar"
             PROVE  FALSE
  OBVIOUS
<1>1. local[g].op = "rename"
  BY OfHandler DEF LocalOK
<1> QED
  BY <1>1 DEF Beside

LEMMA CreatedIs ==
  ASSUME TypeInv, NEW h \in Handlers, crear_nuevo_nodo(h)
  PROVE  LET p == local[h].path
             n == Min(Vacant)
             node == tablaDeNodos'[n]
             parent == determine_nodo(Front(p))
         IN /\ n \in Nodes /\ tablaDeNodos[n].state = 0
            /\ node.state = (IF local[h].op = "mknod" THEN 1 ELSE 2) /\ node.fname = Last(p)
            /\ node.parent = (IF Len(p) > 1 THEN parent + FirstNodeBlock ELSE 0)
            /\ \A m \in Nodes \ {n} : tablaDeNodos'[m] = tablaDeNodos[m]
            /\ ~validar_si_ya_existe_otro(p) /\ p \in Paths
            /\ Remembers
            /\ ~raced' => ~Moved(h, parent) /\ ~Beside(h, {"rename"})
            /\ pc[h] = "crear"
            /\ \E l \in {"idle", "bloque"} : \E q : Goto(h, l, q)
<1> DEFINE p == local[h].path
           n == Min(Vacant)
           parent == determine_nodo(Front(p))
           above == IF Len(p) > 1 THEN parent + FirstNodeBlock ELSE 0
           state == IF local[h].op = "mknod" THEN 1 ELSE 2
<1>1. /\ pc[h] = "crear" /\ Vacant # {} /\ ~validar_si_ya_existe_otro(p)
      /\ tablaDeNodos' = [tablaDeNodos EXCEPT ![n] =
             [@ EXCEPT !.state = state, !.fname = Last(p), !.file_size = 0, !.parent = above]]
  BY DEF crear_nuevo_nodo, At
<1>2. /\ raced' = (raced \/ Shares(h, n) \/ Moved(h, parent) \/ Beside(h, {"rename"}))
      /\ wild' = wild /\ spilled' = spilled
  BY DEF crear_nuevo_nodo
<1>3. \E l \in {"idle", "bloque"} : \E q : Goto(h, l, q)
  BY DEF crear_nuevo_nodo, Answer
<1>4. n \in Nodes /\ tablaDeNodos[n].state = 0 /\ p \in Paths
  BY <1>1, VacantNode, OfHandler DEF LocalOK
<1> HIDE DEF n, p, above, state
<1>5. tablaDeNodos[n] \in NodeType /\ DOMAIN tablaDeNodos = Nodes
  BY <1>4, OfHandler, NodeOf DEF TablaOK
<1>6. tablaDeNodos'[n].state = state /\ tablaDeNodos'[n].fname = Last(p) /\ tablaDeNodos'[n].parent = above
  <2>1. tablaDeNodos'[n] = [tablaDeNodos[n] EXCEPT !.state = state, !.fname = Last(p), !.file_size = 0, !.parent = above]
    BY <1>1, <1>4, <1>5
  <2> QED
    BY <1>5, <2>1 DEF NodeType
<1>7. \A m \in Nodes \ {n} : tablaDeNodos'[m] = tablaDeNodos[m]
  BY <1>1, <1>5
<1>8. Remembers /\ (~raced' => ~Moved(h, parent) /\ ~Beside(h, {"rename"}))
  BY <1>2 DEF Remembers
<1> QED
  BY <1>1, <1>3, <1>4, <1>6, <1>7, <1>8 DEF n, p, above, state

LEMMA CreateKeepsNames ==
  ASSUME NamesInv, TypeInv, NEW h \in Handlers, crear_nuevo_nodo(h)
  PROVE  NamesInv'
<1> DEFINE p == local[h].path
           parent == determine_nodo(Front(p))
<1> SUFFICES ASSUME ~raced', ~wild'
             PROVE  (NamesDiffer /\ OneRenames /\ NameStaysFree)'
  BY DEF NamesInv
<1>0. PICK n : n = Min(Vacant)
  OBVIOUS
<1>1. /\ n \in Nodes /\ tablaDeNodos'[n].fname = Last(p)
      /\ tablaDeNodos'[n].parent = (IF Len(p) > 1 THEN parent + FirstNodeBlock ELSE 0)
      /\ \A m \in Nodes \ {n} : tablaDeNodos'[m] = tablaDeNodos[m]
      /\ ~validar_si_ya_existe_otro(p) /\ Remembers /\ ~Beside(h, {"rename"})
      /\ \E l \in {"idle", "bloque"} : \E q : Goto(h, l, q)
  BY <1>0, CreatedIs
<1>2. NamesDiffer
  BY <1>1 DEF NamesInv, Remembers
<1>3. \A g \in Handlers : pc'[g] # "renombrar"
  <2>1. \A g \in Handlers \ {h} : pc[g] # "renombrar"
    BY <1>1, NobodyRenames
  <2> QED
    BY <1>1, <2>1, GotoIs DEF TypeInv
<1>4. ASSUME NEW m \in Nodes, m # n, Together(n, m)' \/ Together(m, n)'
      PROVE  tablaDeNodos'[n].fname # tablaDeNodos'[m].fname
  <2>1. tablaDeNodos[m].parent = parent + FirstNodeBlock
    BY <1>1, <1>4 DEF Together
  <2>2. m \notin Named(p)
    BY <1>1 DEF validar_si_ya_existe_otro
  <2>3. tablaDeNodos[m].fname # Last(p)
    BY <2>1, <2>2 DEF Named
  <2> QED
    BY <1>1, <1>4, <2>3
<1>5. NamesDiffer'
  <2> SUFFICES ASSUME NEW m \in Nodes, NEW k \in Nodes, m # k, Together(m, k)'
               PROVE  tablaDeNodos'[m].fname # tablaDeNodos'[k].fname
    BY DEF NamesDiffer
  <2>1. CASE m = n \/ k = n
    BY <1>4, <2>1
  <2>2. CASE m # n /\ k # n
    BY <1>1, <1>2, <2>2 DEF Together, NamesDiffer
  <2> QED
    BY <2>1, <2>2
<1> QED
  BY <1>3, <1>5 DEF OneRenames, NameStaysFree

\* A rename that goes on: what it looked up, and that nobody else is at work.
LEMMA RenameIs ==
  ASSUME TypeInv, NEW h \in Handlers, sac_server_rename(h)
  PROVE  LET r == local[h]
             n == determine_nodo(r.path)
             parent == determine_nodo(Front(r.nuevo))
         IN /\ UNCHANGED tablaDeNodos /\ Remembers
            /\ pc[h] = "rename" /\ r.op = "rename" /\ r.nuevo \in Paths /\ r.path \in Paths
            /\ ~raced' => ~Moved(h, n) /\ ~Beside(h, {"mknod", "mkdir", "rename", "rmdir"})
            /\ \/ Answer(h)
               \/ /\ ~validar_si_ya_existe_otro(r.nuevo) /\ parent # -1
                  /\ Goto(h, "renombrar", [r EXCEPT !.node = n, !.parent = parent])
<1> DEFINE r == local[h]
           n == determine_nodo(r.path)
<1>1. pc[h] = "rename" /\ UNCHANGED tablaDeNodos
  BY DEF sac_server_rename, At, disk
<1>2. LocalOK(pc[h], r)
  BY OfHandler
<1>3. r.op = "rename" /\ r.nuevo \in Paths /\ r.path \in Paths
  BY <1>1, <1>2 DEF LocalOK
<1>4. /\ raced' = (raced \/ Shares(h, n) \/ Moved(h, n) \/ Beside(h, {"mknod", "mkdir", "rename", "rmdir"}))
      /\ wild' = wild /\ spilled' = spilled
  BY DEF sac_server_rename
<1>5. Remembers /\ (~raced' => ~Moved(h, n) /\ ~Beside(h, {"mknod", "mkdir", "rename", "rmdir"}))
  BY <1>4 DEF Remembers
<1> QED
  BY <1>1, <1>3, <1>5 DEF sac_server_rename

LEMMA RenameKeepsNames ==
  ASSUME NamesInv, TypeInv, NEW h \in Handlers, sac_server_rename(h)
  PROVE  NamesInv'
<1> DEFINE r == local[h]
           parent == determine_nodo(Front(r.nuevo))
           q == [r EXCEPT !.node = determine_nodo(r.path), !.parent = parent]
<1>1. UNCHANGED tablaDeNodos /\ Remembers
  BY RenameIs
<1>2. CASE Answer(h)
  BY <1>1, <1>2, FewerKeepsNames, UnchangedIsQuiet DEF Answer
<1>3. CASE ~Answer(h)
  <2> SUFFICES ASSUME ~raced', ~wild'
               PROVE  (NamesDiffer /\ OneRenames /\ NameStaysFree)'
    BY DEF NamesInv
  <2>1. /\ ~Beside(h, {"mknod", "mkdir", "rename", "rmdir"})
        /\ ~validar_si_ya_existe_otro(r.nuevo) /\ Goto(h, "renombrar", q)
    BY <1>3, RenameIs
  <2>2. NamesDiffer'
    BY <1>1 DEF NamesInv, Remembers, NamesDiffer, Together
  <2>3. \A g \in Handlers \ {h} : pc[g] # "renombrar"
    BY <2>1, NobodyRenames
  <2>4. \A g \in Handlers : pc'[g] = "renombrar" => g = h
    BY <2>1, <2>3, GotoIs DEF TypeInv
  <2>5. local'[h].parent = parent /\ local'[h].nuevo = r.nuevo
    <3>1. r \in LocalType
      BY OfHandler
    <3>2. local'[h] = q
      BY <2>1, GotoIs DEF TypeInv
    <3> QED
      BY <3>1, <3>2 DEF LocalType
  <2>6. ASSUME NEW n \in Nodes, tablaDeNodos[n].parent = parent + FirstNodeBlock
        PROVE  tablaDeNodos[n].fname # Last(r.nuevo)
    BY <2>1, <2>6 DEF validar_si_ya_existe_otro, Named
  <2> HIDE DEF parent
  <2>7. NameStaysFree'
    <3> SUFFICES ASSUME NEW g \in Handlers, pc'[g] = "renombrar", NEW n \in Nodes,
                        tablaDeNodos'[n].parent = local'[g].parent + FirstNodeBlock
                 PROVE  tablaDeNodos'[n].fname # Last(local'[g].nuevo)
      BY DEF NameStaysFree, FirstNodeBlock
    <3> QED
      BY <1>1, <2>4, <2>5, <2>6
  <2> QED
    BY <2>2, <2>4, <2>7 DEF OneRenames
<1> QED
  BY <1>2, <1>3

LEMMA RenamedIs ==
  ASSUME TypeInv, NEW h \in Handlers, renombrar_archivo(h)
  PROVE  LET r == local[h] IN
         /\ r.node \in Nodes /\ pc[h] = "renombrar" /\ r.op = "rename" /\ Remembers /\ Answer(h)
         /\ tablaDeNodos'[r.node].state = tablaDeNodos[r.node].state
         /\ tablaDeNodos'[r.node].fname = Last(r.nuevo)
         /\ tablaDeNodos'[r.node].parent = (IF r.parent = 0 THEN 0 ELSE r.parent + FirstNodeBlock)
         /\ \A m \in Nodes \ {r.node} : tablaDeNodos'[m] = tablaDeNodos[m]
<1> DEFINE r == local[h]
           parent == IF r.parent = 0 THEN 0 ELSE r.parent + FirstNodeBlock
<1>1. /\ pc[h] = "renombrar" /\ ~Wild(h) /\ Answer(h) /\ UNCHANGED <<wild, history>>
      /\ tablaDeNodos' = [tablaDeNodos EXCEPT ![r.node].fname = Last(r.nuevo), ![r.node].parent = parent]
  BY DEF renombrar_archivo, At
<1>2. r \in LocalType /\ LocalOK(pc[h], r) /\ TablaOK
  BY OfHandler
<1>3. r.node \in Nodes /\ r.op = "rename"
  BY <1>1, <1>2 DEF Wild, LocalType, LocalOK
<1> HIDE DEF r, parent
<1>4. DOMAIN tablaDeNodos = Nodes /\ tablaDeNodos[r.node] \in NodeType
  BY <1>2, <1>3 DEF TablaOK
<1>5. /\ tablaDeNodos'[r.node].state = tablaDeNodos[r.node].state
      /\ tablaDeNodos'[r.node].fname = Last(r.nuevo) /\ tablaDeNodos'[r.node].parent = parent
      /\ \A m \in Nodes \ {r.node} : tablaDeNodos'[m] = tablaDeNodos[m]
  BY <1>1, <1>3, <1>4 DEF NodeType
<1> QED
  BY <1>1, <1>3, <1>5, HistoryKept DEF r, parent

LEMMA RenamedKeepsNames ==
  ASSUME NamesInv, TypeInv, NEW h \in Handlers, renombrar_archivo(h)
  PROVE  NamesInv'
<1> DEFINE r == local[h]
<1> SUFFICES ASSUME ~raced', ~wild'
             PROVE  (NamesDiffer /\ OneRenames /\ NameStaysFree)'
  BY DEF NamesInv
<1>0. PICK n : n = r.node
  OBVIOUS
<1>1. /\ n \in Nodes /\ pc[h] = "renombrar" /\ Remembers /\ Answer(h)
      /\ tablaDeNodos'[n].state = tablaDeNodos[n].state
      /\ tablaDeNodos'[n].fname = Last(r.nuevo)
      /\ tablaDeNodos'[n].parent = (IF r.parent = 0 THEN 0 ELSE r.parent + FirstNodeBlock)
      /\ \A m \in Nodes \ {n} : tablaDeNodos'[m] = tablaDeNodos[m]
  BY <1>0, RenamedIs
<1>2. NamesDiffer /\ OneRenames /\ NameStaysFree
  BY <1>1 DEF NamesInv, Remembers
<1>3. \A g \in Handlers : pc'[g] # "renombrar"
  BY <1>1, <1>2, GotoIs DEF OneRenames, Answer, TypeInv
<1>4. ASSUME NEW m \in Nodes, m # n, Together(n, m)' \/ Together(m, n)'
      PROVE  tablaDeNodos'[n].fname # tablaDeNodos'[m].fname
  <2>1. r.parent # 0 /\ tablaDeNodos[m].parent = r.parent + FirstNodeBlock /\ tablaDeNodos[m].state # 0
    BY <1>1, <1>4 DEF Together
  <2>2. tablaDeNodos[m].fname # Last(r.nuevo)
    BY <1>1, <1>2, <2>1 DEF NameStaysFree
  <2> QED
    BY <1>1, <1>4, <2>2
<1>5. NamesDiffer'
  <2> SUFFICES ASSUME NEW m \in Nodes, NEW k \in Nodes, m # k, Together(m, k)'
               PROVE  tablaDeNodos'[m].fname # tablaDeNodos'[k].fname
    BY DEF NamesDiffer
  <2>1. CASE m = n \/ k = n
    BY <1>4, <2>1
  <2>2. CASE m # n /\ k # n
    BY <1>1, <1>2, <2>2 DEF Together, NamesDiffer
  <2> QED
    BY <2>1, <2>2
<1> QED
  BY <1>3, <1>5 DEF OneRenames, NameStaysFree

LEMMA NamesInit == Init => NamesInv
BY DEF Init, configurar_server, NamesInv, NamesDiffer, Together, OneRenames, NameStaysFree, EmptyNode

LEMMA QuietKeepsNames ==
  ASSUME NamesInv, TypeInv, NEW h \in Handlers, Quiet(h)
  PROVE  NamesInv'
<1>1. PICK l, q : l \in QuietLabels /\ Goto(h, l, q)
  BY DEF Quiet
<1>2. l # "renombrar"
  BY <1>1 DEF QuietLabels
<1> QED
  BY <1>1, <1>2, FewerKeepsNames DEF Quiet

LEMMA NamesNext ==
  ASSUME NamesInv, TypeInv, [Next]_vars
  PROVE  NamesInv'
<1>1. CASE UNCHANGED vars
  BY <1>1 DEF vars, disk, history, NamesInv, NamesDiffer, Together, OneRenames, NameStaysFree, FirstNodeBlock
<1>2. CASE Next
  <2>1. PICK h \in Handlers : Ask(h) \/ fuse_invoke_function(h)
    BY <1>2 DEF Next
  <2>2. CASE GoWild(h)
    BY <2>2 DEF GoWild, NamesInv
  <2>3. CASE Ask(h) \/ TablaLlena(h) \/ YaExiste(h) \/ blocks(h) \/ truncate(h) \/ write(h)
    BY <2>3, QuietKeepsNames, AskQuiet, RefusedQuiet, BlocksQuiet, TruncateQuiet, WriteQuiet
  <2>4. CASE delete(h)
    <3>1. PICK l, q : l \in DeleteLabels \cup {"idle"} /\ Goto(h, l, q)
      BY <2>4, DeleteIs
    <3>2. l # "renombrar"
      BY <3>1 DEF DeleteLabels, FileLabels
    <3> QED
      BY <2>4, <3>1, <3>2, DeleteIs, FewerKeepsNames
  <2> QED
    BY <2>1, <2>2, <2>3, <2>4, CreateKeepsNames, RenameKeepsNames, RenamedKeepsNames
       DEF fuse_invoke_function, create, rename
<1> QED
  BY <1>1, <1>2

\* While no two requests met on a node, no name is twice in a directory, however the
\* creates, renames and deletes of the handlers interleave: UniqueNames.
THEOREM NamesUnique == Spec => []UniqueNames
<1>1. TypeInv /\ NamesInv /\ [Next]_vars => NamesInv'
  BY NamesNext
<1>2. NamesInv => UniqueNames
  BY DEF NamesInv, NamesDiffer, Together, UniqueNames
<1> QED
  BY <1>1, <1>2, NamesInit, TypesInvariant, PTL DEF Spec

(***************************************************************************)
(* What is in the table is in a directory.                                 *)
(***************************************************************************)
TreeParts == AllPlaced /\ FilesDeletedOnce /\ ParentStays

LEMMA FileIs ==
  ASSUME TypeInv, NEW path \in Paths, IsFile(path)
  PROVE  determine_nodo(path) \in Nodes /\ tablaDeNodos[determine_nodo(path)].state = 1
BY DeterminedInt, PathsAre DEF IsFile, validarSiExiste

LEMMA DirIs ==
  ASSUME TypeInv, NEW A, NEW path \in Seq(A), path # <<>>, IsDir(path)
  PROVE  determine_nodo(path) \in Dirs
<1> DEFINE n == determine_nodo(path)
<1>1. n # -1 /\ tablaDeNodos[n].state # 1
  BY DEF IsDir, IsFile, validarSiExiste
<1>2. Live(n)
  BY <1>1, Determined
<1> HIDE DEF n
<1>3. tablaDeNodos[n].state = 2
  BY <1>1, <1>2, NodeOf DEF Live, TypeInv
<1> QED
  BY <1>2, <1>3 DEF Dirs, Live, n

\* The nodes that stay as they are stay placed, when every directory is still one and
\* every rmdir still reaches them.
LEMMA StaysPlaced ==
  ASSUME NEW n \in Nodes, Placed(n), SameNode(n), Dirs \subseteq Dirs',
         \A g \in Handlers : Reaches(g, n) => Reaches(g, n)'
  PROVE  Placed(n)'
BY DEF Placed, SameNode, FirstNodeBlock

LEMMA StillReaches ==
  ASSUME NEW n \in Nodes, SameNode(n), NEW g \in Handlers, Reaches(g, n), Removes(g)',
         local'[g].node = local[g].node, local'[g].walk = local[g].walk
  PROVE  Reaches(g, n)'
BY DEF Reaches, SameNode

LEMMA SameDirs ==
  ASSUME SameTable
  PROVE  Dirs' = Dirs
BY DEF SameTable, SameNode, Dirs

\* A step that neither deletes nor renames, and leaves the names and the parents.
LEMMA QuietKeepsTree ==
  ASSUME TreeInv, TypeInv, NEW h \in Handlers, Quiet(h)
  PROVE  TreeInv'
<1> SUFFICES ASSUME ~raced', ~wild', ~spilled'
             PROVE  TreeParts'
  BY DEF TreeInv, TreeParts
<1>1. TreeParts /\ SameTable
  BY DEF TreeInv, TreeParts, Quiet, Remembers
<1>2. PICK l, q : l \in QuietLabels /\ Goto(h, l, q)
  BY DEF Quiet
<1>3. /\ pc[h] \notin DeleteLabels \cup {"renombrar"} /\ pc'[h] \notin DeleteLabels \cup {"renombrar"}
      /\ \A g \in Handlers \ {h} : pc'[g] = pc[g] /\ local'[g] = local[g]
  BY <1>2, GotoIs DEF TypeInv, Quiet, QuietLabels
<1>4. Dirs' = Dirs
  BY <1>1, SameDirs
<1>5. AllPlaced'
  <2> SUFFICES ASSUME NEW n \in Nodes, tablaDeNodos'[n].state # 0
               PROVE  Placed(n)'
    BY DEF AllPlaced
  <2>1. SameNode(n)
    BY <1>1 DEF SameTable
  <2>2. Placed(n)
    BY <1>1, <2>1 DEF TreeParts, AllPlaced, SameNode
  <2>3. \A g \in Handlers : Reaches(g, n) => Reaches(g, n)'
    BY <1>3, <2>1, StillReaches DEF Reaches, Removes
  <2> QED
    BY <1>4, <2>1, <2>2, <2>3, StaysPlaced
<1>6. FilesDeletedOnce'
  <2>1. \A g \in Handlers : pc'[g] \in FileLabels => pc[g] = pc'[g] /\ local[g] = local'[g] /\ local[g].node \in Nodes
    BY <1>3, OfHandler DEF DeleteLabels, LocalOK, FileLabels
  <2> QED
    BY <1>1, <2>1 DEF TreeParts, FilesDeletedOnce, SameTable, SameNode
<1>7. ParentStays'
  <2>1. \A g \in Handlers : Removes(g)' => Removes(g)
    BY <1>3 DEF Removes
  <2> QED
    BY <1>1, <1>3, <1>4, <2>1 DEF TreeParts, ParentStays
<1> QED
  BY <1>5, <1>6, <1>7 DEF TreeParts

LEMMA CreateKeepsTree ==
  ASSUME TreeInv, TypeInv, NEW h \in Handlers, crear_nuevo_nodo(h)
  PROVE  TreeInv'
<1> DEFINE p == local[h].path
           parent == determine_nodo(Front(p))
<1> SUFFICES ASSUME ~raced', ~wild', ~spilled'
             PROVE  TreeParts'
  BY DEF TreeInv, TreeParts
<1>0. PICK n : n = Min(Vacant)
  OBVIOUS
<1>1. /\ n \in Nodes /\ tablaDeNodos[n].state = 0
      /\ tablaDeNodos'[n].parent = (IF Len(p) > 1 THEN parent + FirstNodeBlock ELSE 0)
      /\ \A m \in Nodes \ {n} : tablaDeNodos'[m] = tablaDeNodos[m]
      /\ p \in Paths /\ Remembers /\ ~Moved(h, parent) /\ ~Beside(h, {"rename"}) /\ pc[h] = "crear"
  BY <1>0, CreatedIs
<1>2. TreeParts
  BY <1>1 DEF TreeInv, TreeParts, Remembers
<1>3. /\ pc'[h] \in {"idle", "bloque"}
      /\ \A g \in Handlers \ {h} : pc'[g] = pc[g] /\ local'[g] = local[g] /\ pc[g] # "renombrar"
  BY <1>1, CreatedIs, GotoIs, NobodyRenames DEF TypeInv
<1>4. Dirs \subseteq Dirs'
  BY <1>1 DEF Dirs
<1>5. Placed(n)'
  <2>1. CASE Len(p) > 1
    <3>1. Front(p) \in Seq(Range(p)) /\ Front(p) # <<>>
      BY <1>1, <2>1, PathsAre
    <3>2. local[h].op \in {"mknod", "mkdir"}
      BY <1>1, OfHandler DEF LocalOK
    <3>3. IsDir(Front(p))
      BY <1>1, <3>2 DEF Moved, Still
    <3>4. parent \in Dirs
      BY <3>1, <3>3, DirIs
    <3>5. PICK d \in Dirs : tablaDeNodos'[n].parent = d + 2
      BY <1>1, <2>1, <3>4 DEF FirstNodeBlock
    <3>6. d \in Nat
      BY NodesAreNat DEF Dirs
    <3>7. tablaDeNodos'[n].parent - 2 = d
      BY <3>5, <3>6
    <3> QED
      BY <1>4, <3>7 DEF Placed, FirstNodeBlock
  <2>2. CASE ~(Len(p) > 1)
    BY <1>1, <2>2 DEF Placed
  <2> QED
    BY <2>1, <2>2
<1>6. AllPlaced'
  <2> SUFFICES ASSUME NEW m \in Nodes \ {n}, tablaDeNodos'[m].state # 0
               PROVE  Placed(m)'
    BY <1>5 DEF AllPlaced
  <2>1. SameNode(m)
    BY <1>1 DEF SameNode
  <2>2. Placed(m)
    BY <1>2, <2>1 DEF TreeParts, AllPlaced, SameNode
  <2>3. \A g \in Handlers : Reaches(g, m) => Reaches(g, m)'
    BY <1>1, <1>3, <2>1, StillReaches DEF Reaches, Removes, DeleteLabels, FileLabels
  <2> QED
    BY <1>4, <2>1, <2>2, <2>3, StaysPlaced
<1>7. FilesDeletedOnce'
  <2>1. \A g \in Handlers : pc'[g] \in FileLabels => g # h /\ pc[g] = pc'[g] /\ local[g] = local'[g] /\ local[g].node \in Nodes
    BY <1>3, OfHandler DEF LocalOK, FileLabels
  <2> QED
    BY <1>1, <1>2, <2>1 DEF TreeParts, FilesDeletedOnce
<1>8. ParentStays'
  BY <1>3 DEF ParentStays
<1> QED
  BY <1>6, <1>7, <1>8 DEF TreeParts

LEMMA RenameKeepsTree ==
  ASSUME TreeInv, TypeInv, NEW h \in Handlers, sac_server_rename(h)
  PROVE  TreeInv'
<1> DEFINE r == local[h]
           parent == determine_nodo(Front(r.nuevo))
           q == [r EXCEPT !.node = determine_nodo(r.path), !.parent = parent]
<1> SUFFICES ASSUME ~raced', ~wild', ~spilled'
             PROVE  TreeParts'
  BY DEF TreeInv, TreeParts
<1>1. /\ UNCHANGED tablaDeNodos /\ Remembers
      /\ pc[h] = "rename" /\ r.op = "rename" /\ r.nuevo \in Paths
      /\ ~Moved(h, determine_nodo(r.path)) /\ ~Beside(h, {"mknod", "mkdir", "rename", "rmdir"})
      /\ Answer(h) \/ (parent # -1 /\ Goto(h, "renombrar", q))
  BY RenameIs
<1>2. TreeParts /\ SameTable /\ Dirs' = Dirs
  BY <1>1, UnchangedIsQuiet, SameDirs DEF TreeInv, TreeParts, Remembers
<1>3. /\ pc'[h] \in {"idle", "renombrar"} /\ (pc'[h] = "renombrar" => local'[h] = q)
      /\ \A g \in Handlers \ {h} : pc'[g] = pc[g] /\ local'[g] = local[g]
  BY <1>1, GotoIs DEF TypeInv, Answer
<1>4. AllPlaced'
  <2> SUFFICES ASSUME NEW n \in Nodes, tablaDeNodos'[n].state # 0
               PROVE  Placed(n)'
    BY DEF AllPlaced
  <2>1. SameNode(n) /\ Placed(n)
    BY <1>1, <1>2 DEF SameTable, TreeParts, AllPlaced
  <2>2. \A g \in Handlers : Reaches(g, n) => Reaches(g, n)'
    BY <1>1, <1>3, <2>1, StillReaches DEF Reaches, Removes, DeleteLabels, FileLabels
  <2> QED
    BY <1>2, <2>1, <2>2, StaysPlaced
<1>5. FilesDeletedOnce'
  <2>1. \A g \in Handlers : pc'[g] \in FileLabels => g # h /\ pc[g] = pc'[g] /\ local[g] = local'[g]
    BY <1>3 DEF FileLabels
  <2> QED
    BY <1>1, <1>2, <2>1 DEF TreeParts, FilesDeletedOnce
<1>6. ParentStays'
  <2>1. \A g \in Handlers : ~Removes(g)'
    <3>1. \A g \in Handlers \ {h} : local[g].op # "rmdir"
      BY <1>1 DEF Beside
    <3> QED
      BY <1>3, <3>1 DEF Removes, DeleteLabels, FileLabels
  <2>2. \A g \in Handlers \ {h} : pc[g] # "renombrar"
    BY <1>1, NobodyRenames
  <2>3. parent = 0 \/ parent \in Dirs
    <3>1. IsDir(Front(r.nuevo))
      BY <1>1 DEF Moved, Still
    <3>2. Front(r.nuevo) \in Seq(Range(r.nuevo))
      BY <1>1, PathsAre
    <3> QED
      BY <3>1, <3>2, RootDetermined, DirIs
  <2>4. pc'[h] = "renombrar" => local'[h].parent = parent
    BY <1>3, OfHandler DEF LocalType
  <2> HIDE DEF parent
  <2>5. pc'[h] = "renombrar" => local'[h].parent = 0 \/ local'[h].parent \in Dirs'
    BY <1>2, <2>3, <2>4
  <2> QED
    BY <1>3, <2>1, <2>2, <2>5 DEF ParentStays
<1> QED
  BY <1>4, <1>5, <1>6 DEF TreeParts

LEMMA RenamedKeepsTree ==
  ASSUME TreeInv, TypeInv, NEW h \in Handlers, renombrar_archivo(h)
  PROVE  TreeInv'
<1> DEFINE r == local[h]
<1> SUFFICES ASSUME ~raced', ~wild', ~spilled'
             PROVE  TreeParts'
  BY DEF TreeInv, TreeParts
<1>0. PICK n, parent : n = r.node /\ parent = r.parent
  OBVIOUS
<1>1. /\ n \in Nodes /\ pc[h] = "renombrar" /\ Remembers /\ Answer(h)
      /\ tablaDeNodos'[n].state = tablaDeNodos[n].state
      /\ tablaDeNodos'[n].parent = (IF parent = 0 THEN 0 ELSE parent + FirstNodeBlock)
      /\ \A m \in Nodes \ {n} : tablaDeNodos'[m] = tablaDeNodos[m]
  BY <1>0, RenamedIs
<1>2. TreeParts
  BY <1>1 DEF TreeInv, TreeParts, Remembers
<1>3. pc'[h] = "idle" /\ \A g \in Handlers \ {h} : pc'[g] = pc[g] /\ local'[g] = local[g]
  BY <1>1, GotoIs DEF TypeInv, Answer
<1>4. Dirs' = Dirs
  BY <1>1 DEF Dirs
<1>5. Placed(n)'
  <2>1. parent = 0 \/ parent \in Dirs
    BY <1>0, <1>1, <1>2 DEF TreeParts, ParentStays
  <2>2. CASE parent = 0
    BY <1>1, <2>2 DEF Placed
  <2>3. CASE parent # 0
    <3>1. parent \in Dirs /\ tablaDeNodos'[n].parent = parent + 2
      BY <1>1, <2>1, <2>3 DEF FirstNodeBlock
    <3>2. parent \in Nat
      BY <3>1, NodesAreNat DEF Dirs
    <3>3. tablaDeNodos'[n].parent - 2 = parent
      BY <3>1, <3>2
    <3> QED
      BY <1>4, <3>1, <3>3 DEF Placed, FirstNodeBlock
  <2> QED
    BY <2>2, <2>3
<1>6. AllPlaced'
  <2> SUFFICES ASSUME NEW m \in Nodes \ {n}, tablaDeNodos'[m].state # 0
               PROVE  Placed(m)'
    BY <1>5 DEF AllPlaced
  <2>1. SameNode(m)
    BY <1>1 DEF SameNode
  <2>2. Placed(m)
    BY <1>2, <2>1 DEF TreeParts, AllPlaced, SameNode
  <2>3. \A g \in Handlers : Reaches(g, m) => Reaches(g, m)'
    BY <1>1, <1>3, <2>1, StillReaches DEF Reaches, Removes, DeleteLabels, FileLabels
  <2> QED
    BY <1>4, <2>1, <2>2, <2>3, StaysPlaced
<1>7. FilesDeletedOnce'
  <2>1. \A g \in Handlers : pc'[g] \in FileLabels => pc[g] = pc'[g] /\ local[g] = local'[g] /\ local[g].node \in Nodes
    BY <1>3, OfHandler DEF LocalOK, FileLabels
  <2>2. \A m \in Nodes : tablaDeNodos'[m].state = tablaDeNodos[m].state
    BY <1>1
  <2> QED
    BY <1>2, <2>1, <2>2 DEF TreeParts, FilesDeletedOnce
<1>8. ParentStays'
  <2>1. \A g \in Handlers : Removes(g)' => Removes(g)
    BY <1>3 DEF Removes, DeleteLabels, FileLabels
  <2> QED
    BY <1>2, <1>3, <1>4, <2>1 DEF TreeParts, ParentStays
<1> QED
  BY <1>6, <1>7, <1>8 DEF TreeParts

(***************************************************************************)
(* The tree, in what deletes.                                              *)
(***************************************************************************)
\* Where a handler that deletes goes on, and what it reaches from there.
LEMMA ContinueIs ==
  ASSUME TypeInv, NEW h \in Handlers, NEW w, Continue(h, w)
  PROVE  /\ pc'[h] \in {"idle", "recorrer"}
         /\ w = <<>> => pc'[h] = "idle"
         /\ w # <<>> => /\ pc'[h] = "recorrer" /\ local'[h].walk = w /\ local'[h].op = local[h].op
         /\ \A g \in Handlers \ {h} : pc'[g] = pc[g] /\ local'[g] = local[g]
<1> DEFINE q == [local[h] EXCEPT !.node = -1, !.walk = w]
<1>1. IF w = <<>> THEN Goto(h, "idle", Idle) ELSE Goto(h, "recorrer", q)
  BY DEF Continue, Answer
<1>2. local[h] \in LocalType
  BY OfHandler
<1>3. q.walk = w /\ q.op = local[h].op
  BY <1>2 DEF LocalType
<1> HIDE DEF q
<1> QED
  BY <1>1, <1>3, GotoIs DEF TypeInv

\* A file is to be deleted: the handler goes to a file label with it.
LEMMA TakesFile ==
  ASSUME TypeInv, NEW h \in Handlers, NEW n \in Nodes, NEW w, Borrar(h, n, w), tablaDeNodos[n].state # 2
  PROVE  /\ UNCHANGED tablaDeNodos
         /\ pc'[h] \in FileLabels /\ local'[h].node = n /\ local'[h].walk = w /\ local'[h].op = local[h].op
         /\ \A g \in Handlers \ {h} : pc'[g] = pc[g] /\ local'[g] = local[g]
<1> DEFINE q == [local[h] EXCEPT !.node = n, !.size = tablaDeNodos[n].file_size, !.walk = w]
           l == IF tablaDeNodos[n].file_size # 0 THEN "borrar" ELSE "marcar"
<1>1. Goto(h, l, q) /\ UNCHANGED tablaDeNodos
  BY NodesAreNat DEF Borrar
<1>2. local[h] \in LocalType
  BY OfHandler
<1>3. q.node = n /\ q.walk = w /\ q.op = local[h].op
  BY <1>2 DEF LocalType
<1>4. l \in FileLabels
  BY DEF FileLabels
<1> HIDE DEF q, l
<1> QED
  BY <1>1, <1>3, <1>4, GotoIs DEF TypeInv

\* When a file is taken by one handler, nobody else is at it.
LEMMA TakenOnce ==
  ASSUME FilesDeletedOnce, TypeInv, NEW h \in Handlers, NEW n \in Nodes, tablaDeNodos[n].state = 1,
         local[h].op # "write", ~Shares(h, n),
         UNCHANGED tablaDeNodos, local'[h].node = n,
         \A g \in Handlers \ {h} : pc'[g] = pc[g] /\ local'[g] = local[g]
  PROVE  FilesDeletedOnce'
<1>1. \A g \in Handlers \ {h} : pc[g] \in FileLabels => local[g].node # n
  BY DEF Shares, FileLabels
<1> QED
  BY <1>1 DEF FilesDeletedOnce

LEMMA UnlinkKeepsTree ==
  ASSUME TreeInv, TypeInv, NEW h \in Handlers, sac_server_unlink(h)
  PROVE  TreeInv'
<1> SUFFICES ASSUME ~raced', ~wild', ~spilled'
             PROVE  TreeParts'
  BY DEF TreeInv, TreeParts
<1>0. PICK n : n = determine_nodo(local[h].path)
  OBVIOUS
<1>1. /\ pc[h] = "unlink" /\ Borrar(h, n, <<>>)
      /\ raced' = (raced \/ Shares(h, n) \/ Moved(h, n)) /\ wild' = wild /\ spilled' = spilled
  BY <1>0 DEF sac_server_unlink, At, Meets
<1>2. local[h].op = "unlink" /\ local[h].path \in Paths
  BY <1>1, OfHandler DEF LocalOK
<1>3. ~Shares(h, n) /\ IsFile(local[h].path)
  BY <1>1, <1>2 DEF Moved, Still
<1>4. n \in Nodes /\ tablaDeNodos[n].state = 1
  BY <1>0, <1>2, <1>3, FileIs
<1>5. TreeParts
  BY <1>1 DEF TreeInv, TreeParts
<1>6. /\ UNCHANGED tablaDeNodos
      /\ pc'[h] \in FileLabels /\ local'[h].node = n /\ local'[h].op = "unlink"
      /\ \A g \in Handlers \ {h} : pc'[g] = pc[g] /\ local'[g] = local[g]
  BY <1>1, <1>2, <1>4, TakesFile
<1>7. SameTable /\ Dirs' = Dirs
  BY <1>6, UnchangedIsQuiet, SameDirs
<1>8. AllPlaced'
  <2> SUFFICES ASSUME NEW m \in Nodes, tablaDeNodos'[m].state # 0
               PROVE  Placed(m)'
    BY DEF AllPlaced
  <2>1. SameNode(m) /\ Placed(m)
    BY <1>5, <1>6, <1>7 DEF SameTable, TreeParts, AllPlaced
  <2>2. \A g \in Handlers : Reaches(g, m) => Reaches(g, m)'
    BY <1>1, <1>6, <2>1, StillReaches DEF Reaches, Removes, DeleteLabels, FileLabels
  <2> QED
    BY <1>7, <2>1, <2>2, StaysPlaced
<1>9. FilesDeletedOnce'
  BY <1>2, <1>3, <1>4, <1>5, <1>6, TakenOnce DEF TreeParts
<1>10. ParentStays'
  <2>1. \A g \in Handlers : Removes(g)' => Removes(g)
    BY <1>6 DEF Removes
  <2> QED
    BY <1>5, <1>6, <1>7, <2>1 DEF TreeParts, ParentStays, FileLabels
<1> QED
  BY <1>8, <1>9, <1>10 DEF TreeParts

LEMMA RmdirKeepsTree ==
  ASSUME TreeInv, TypeInv, NEW h \in Handlers, sac_server_rmdir(h)
  PROVE  TreeInv'
<1> SUFFICES ASSUME ~raced', ~wild', ~spilled'
             PROVE  TreeParts'
  BY DEF TreeInv, TreeParts
<1>0. PICK n : n = determine_nodo(local[h].path)
  OBVIOUS
<1> DEFINE t == [dir |-> n + FirstNodeBlock, next |-> 0]
<1>1. /\ pc[h] = "rmdir" /\ Borrar(h, n, <<t>>)
      /\ raced' = (raced \/ Shares(h, n) \/ Moved(h, n) \/ Beside(h, {"rename"}))
      /\ wild' = wild /\ spilled' = spilled
  BY <1>0 DEF sac_server_rmdir, At
<1>2. local[h].op = "rmdir" /\ local[h].path \in Paths
  BY <1>1, OfHandler DEF LocalOK
<1>3. ~Beside(h, {"rename"}) /\ IsDir(local[h].path)
  BY <1>1, <1>2 DEF Moved, Still
<1>4. n \in Nodes /\ tablaDeNodos[n].state = 2 /\ n \in Nat
  <2>1. n \in Dirs
    BY <1>0, <1>2, <1>3, PathsAre, DirIs
  <2> QED
    BY <2>1, NodesAreNat DEF Dirs
<1>5. TreeParts
  BY <1>1 DEF TreeInv, TreeParts
<1> HIDE DEF t
<1>6. tablaDeNodos' = Deleted(n) /\ Continue(h, <<t>>)
  BY <1>1, <1>4 DEF Borrar
<1>7. /\ tablaDeNodos'[n].state = 0 /\ \A m \in Nodes \ {n} : SameNode(m)
  BY <1>4, <1>6, DeletedIs DEF TypeInv
<1>8. /\ pc'[h] = "recorrer" /\ local'[h].walk = <<t>> /\ local'[h].op = "rmdir"
      /\ \A g \in Handlers \ {h} : pc'[g] = pc[g] /\ local'[g] = local[g]
  BY <1>2, <1>6, ContinueIs
<1>9. AllPlaced'
  <2> SUFFICES ASSUME NEW m \in Nodes, tablaDeNodos'[m].state # 0
               PROVE  Placed(m)'
    BY DEF AllPlaced
  <2>1. m # n /\ SameNode(m) /\ Placed(m)
    BY <1>5, <1>7 DEF TreeParts, AllPlaced, SameNode
  <2>2. m \in Nat /\ tablaDeNodos[m].parent \in Int
    BY NodesAreNat, NodeOf DEF TypeInv
  <2>3. CASE tablaDeNodos[m].parent = 0
    BY <2>1, <2>3 DEF Placed, SameNode
  <2>4. CASE tablaDeNodos[m].parent - FirstNodeBlock \in Dirs \ {n}
    BY <1>7, <2>1, <2>4 DEF Placed, SameNode, Dirs, FirstNodeBlock
  <2>5. CASE tablaDeNodos[m].parent - FirstNodeBlock = n
    <3>1. tablaDeNodos[m].parent = n + FirstNodeBlock
      BY <1>4, <2>2, <2>5 DEF FirstNodeBlock
    <3>2. t.dir = tablaDeNodos'[m].parent /\ t.next <= m
      BY <2>1, <2>2, <3>1 DEF t, SameNode
    <3>3. 1 \in DOMAIN <<t>> /\ <<t>>[1] = t
      OBVIOUS
    <3>4. Reaches(h, m)'
      BY <1>8, <3>2, <3>3 DEF Reaches, Removes, DeleteLabels
    <3> QED
      BY <3>4 DEF Placed
  <2>6. ASSUME NEW g \in Handlers, Reaches(g, m)
        PROVE  Placed(m)'
    <3>1. g # h
      BY <1>1, <2>6 DEF Reaches, Removes, DeleteLabels, FileLabels
    <3>2. Reaches(g, m)'
      BY <1>8, <2>1, <2>6, <3>1, StillReaches DEF Reaches, Removes
    <3> QED
      BY <3>2 DEF Placed
  <2> QED
    BY <2>1, <2>3, <2>4, <2>5, <2>6 DEF Placed
<1>10. FilesDeletedOnce'
  <2>1. \A g \in Handlers : pc'[g] \in FileLabels => pc[g] = pc'[g] /\ local[g] = local'[g] /\ local[g].node \in Nodes
    BY <1>8, OfHandler DEF LocalOK, FileLabels
  <2> QED
    BY <1>4, <1>5, <1>7, <2>1 DEF TreeParts, FilesDeletedOnce, SameNode
<1>11. ParentStays'
  <2>1. \A g \in Handlers \ {h} : pc[g] # "renombrar"
    BY <1>3, NobodyRenames
  <2> QED
    BY <1>8, <2>1 DEF ParentStays
<1> QED
  BY <1>9, <1>10, <1>11 DEF TreeParts

LEMMA ContentsKeepTree ==
  ASSUME TreeInv, TypeInv, NEW h \in Handlers, borrar_contenido(h)
  PROVE  TreeInv'
<1> SUFFICES ASSUME ~raced', ~wild', ~spilled'
             PROVE  TreeParts'
  BY DEF TreeInv, TreeParts
<1>1. /\ pc[h] = "borrar" /\ Goto(h, "marcar", local[h]) /\ UNCHANGED tablaDeNodos
      /\ UNCHANGED <<wild, history>>
  BY DEF borrar_contenido, At
<1>2. TreeParts /\ SameTable /\ Dirs' = Dirs
  BY <1>1, UnchangedIsQuiet, SameDirs, HistoryKept DEF TreeInv, TreeParts, Remembers
<1>3. pc'[h] = "marcar" /\ local'[h] = local[h] /\ \A g \in Handlers \ {h} : pc'[g] = pc[g] /\ local'[g] = local[g]
  BY <1>1, GotoIs DEF TypeInv
<1>4. \A g \in Handlers : /\ pc'[g] \in FileLabels <=> pc[g] \in FileLabels
                          /\ Removes(g)' <=> Removes(g)
                          /\ pc'[g] = "renombrar" => pc[g] = "renombrar"
                          /\ local'[g] = local[g]
  BY <1>1, <1>3 DEF Removes, DeleteLabels, FileLabels
<1>5. AllPlaced'
  <2> SUFFICES ASSUME NEW m \in Nodes, tablaDeNodos'[m].state # 0
               PROVE  Placed(m)'
    BY DEF AllPlaced
  <2>1. SameNode(m) /\ Placed(m)
    BY <1>1, <1>2 DEF SameTable, TreeParts, AllPlaced
  <2>2. \A g \in Handlers : Reaches(g, m) => Reaches(g, m)'
    BY <1>4, <2>1, StillReaches DEF Reaches
  <2> QED
    BY <1>2, <2>1, <2>2, StaysPlaced
<1>6. FilesDeletedOnce'
  BY <1>1, <1>2, <1>4 DEF TreeParts, FilesDeletedOnce
<1>7. ParentStays'
  BY <1>2, <1>4 DEF TreeParts, ParentStays
<1> QED
  BY <1>5, <1>6, <1>7 DEF TreeParts

LEMMA FileKeepsTree ==
  ASSUME TreeInv, TypeInv, NEW h \in Handlers, borrar_archivo(h)
  PROVE  TreeInv'
<1> SUFFICES ASSUME ~raced', ~wild', ~spilled'
             PROVE  TreeParts'
  BY DEF TreeInv, TreeParts
<1>0. PICK n, w : n = local[h].node /\ w = local[h].walk
  OBVIOUS
<1>1. /\ pc[h] = "marcar" /\ tablaDeNodos' = Deleted(n) /\ Continue(h, w)
      /\ UNCHANGED <<wild, history>>
  BY <1>0 DEF borrar_archivo, At
<1>2. TreeParts
  BY <1>1, HistoryKept DEF TreeInv, TreeParts, Remembers
<1>3. n \in Nodes /\ (local[h].op = "unlink" => w = <<>>) /\ local[h].op \in {"unlink", "rmdir"}
  BY <1>0, <1>1, OfHandler DEF LocalOK
<1>4. tablaDeNodos[n].state = 1
  BY <1>0, <1>1, <1>2 DEF TreeParts, FilesDeletedOnce, FileLabels
<1>5. tablaDeNodos'[n].state = 0 /\ \A m \in Nodes \ {n} : SameNode(m)
  BY <1>1, <1>3, DeletedIs DEF TypeInv
<1>6. /\ pc'[h] \in {"idle", "recorrer"}
      /\ w = <<>> => pc'[h] = "idle"
      /\ w # <<>> => pc'[h] = "recorrer" /\ local'[h].walk = w /\ local'[h].op = local[h].op
      /\ \A g \in Handlers \ {h} : pc'[g] = pc[g] /\ local'[g] = local[g]
  BY <1>1, ContinueIs
<1>7. Dirs' = Dirs
  BY <1>3, <1>4, <1>5 DEF Dirs, SameNode
<1>8. AllPlaced'
  <2> SUFFICES ASSUME NEW m \in Nodes, tablaDeNodos'[m].state # 0
               PROVE  Placed(m)'
    BY DEF AllPlaced
  <2>1. m # n /\ SameNode(m) /\ Placed(m)
    BY <1>2, <1>5 DEF TreeParts, AllPlaced, SameNode
  <2>2. ASSUME NEW g \in Handlers, Reaches(g, m)
        PROVE  Reaches(g, m)'
    <3>1. CASE g # h
      BY <1>6, <2>1, <2>2, <3>1, StillReaches DEF Reaches, Removes
    <3>2. CASE g = h
      <4>1. PICK i \in DOMAIN w : w[i].dir = tablaDeNodos[m].parent /\ w[i].next <= m
        BY <1>0, <2>1, <2>2, <3>2 DEF Reaches
      <4>2. w # <<>>
        BY <4>1
      <4>3. Removes(h)'
        BY <1>6, <2>2, <3>2, <4>2 DEF Reaches, Removes, DeleteLabels
      <4> QED
        BY <1>6, <2>1, <3>2, <4>1, <4>2, <4>3 DEF Reaches, SameNode
    <3> QED
      BY <3>1, <3>2
  <2> QED
    BY <1>7, <2>1, <2>2, StaysPlaced
<1>9. FilesDeletedOnce'
  <2>1. \A g \in Handlers : pc'[g] \in FileLabels =>
          g # h /\ pc[g] = pc'[g] /\ local[g] = local'[g] /\ local[g].node \in Nodes
    BY <1>6, OfHandler DEF LocalOK, FileLabels
  <2>2. \A g \in Handlers : pc'[g] \in FileLabels => local[g].node # n
    BY <1>0, <1>1, <1>2, <2>1 DEF TreeParts, FilesDeletedOnce, FileLabels
  <2> QED
    BY <1>2, <1>5, <2>1, <2>2 DEF TreeParts, FilesDeletedOnce, SameNode
<1>10. ParentStays'
  <2>1. \A g \in Handlers : Removes(g)' => Removes(g)
    BY <1>1, <1>3, <1>6 DEF Removes, DeleteLabels, FileLabels
  <2> QED
    BY <1>2, <1>6, <1>7, <2>1 DEF TreeParts, ParentStays
<1> QED
  BY <1>8, <1>9, <1>10 DEF TreeParts

LEMMA WalkKeepsTree ==
  ASSUME TreeInv, TypeInv, NEW h \in Handlers, borrar_directorio(h)
  PROVE  TreeInv'
<1> SUFFICES ASSUME ~raced', ~wild', ~spilled'
             PROVE  TreeParts'
  BY DEF TreeInv, TreeParts
<1>0. PICK w, top, inside : w = local[h].walk /\ top = Last(w) /\ inside = Inside(top)
  OBVIOUS
<1>1. pc[h] = "recorrer" /\ wild' = wild /\ spilled' = spilled /\ (raced => raced')
  BY DEF borrar_directorio, At
<1>2. TreeParts
  BY <1>1 DEF TreeInv, TreeParts
<1>3. local[h].op = "rmdir" /\ local[h].node = -1
  BY <1>1, OfHandler DEF LocalOK
<1>4. /\ w \in Seq(Top) /\ Len(w) \in Nat \ {0} /\ top \in Top /\ Front(w) \in Seq(Top)
      /\ Len(Front(w)) = Len(w) - 1 /\ \A i \in 1..(Len(w) - 1) : Front(w)[i] = w[i]
      /\ top = w[Len(w)]
  BY <1>0, <1>1, WalkIs
<1>5. /\ Removes(h)
      /\ \A g \in Handlers : pc[g] # "renombrar"
  BY <1>1, <1>2, <1>3 DEF Removes, DeleteLabels, TreeParts, ParentStays
\* What h reaches: at a step of its walk below the top, or inside the top.
<1>6. ASSUME NEW m \in Nodes, tablaDeNodos[m].state # 0, Reaches(h, m)
      PROVE  \/ m \in inside
             \/ \E i \in 1..(Len(w) - 1) : w[i].dir = tablaDeNodos[m].parent /\ w[i].next <= m
  <2>1. m # -1
    BY NodesAreNat
  <2>2. PICK i \in DOMAIN w : w[i].dir = tablaDeNodos[m].parent /\ w[i].next <= m
    BY <1>0, <1>3, <1>6, <2>1 DEF Reaches
  <2>3. i \in 1..Len(w)
    BY <1>4, <2>2
  <2>4. CASE i = Len(w)
    <3>1. top.dir = tablaDeNodos[m].parent /\ top.next <= m
      BY <1>4, <2>2, <2>4
    <3>2. m \in Nat /\ top.next \in Int
      BY <1>4, NodesAreNat DEF Top
    <3>3. m >= top.next
      BY <3>1, <3>2
    <3> QED
      BY <1>0, <1>6, <3>1, <3>3 DEF Inside, sac_server_readdir
  <2>5. CASE i # Len(w)
    BY <1>4, <2>2, <2>3, <2>5
  <2> QED
    BY <2>4, <2>5
<1>7. CASE inside = {}
  <2>1. Continue(h, Front(w)) /\ UNCHANGED tablaDeNodos
    BY <1>0, <1>7 DEF borrar_directorio
  <2>2. /\ pc'[h] \in {"idle", "recorrer"}
        /\ Front(w) # <<>> => pc'[h] = "recorrer" /\ local'[h].walk = Front(w) /\ local'[h].op = "rmdir"
        /\ \A g \in Handlers \ {h} : pc'[g] = pc[g] /\ local'[g] = local[g]
    BY <1>3, <2>1, ContinueIs
  <2>3. SameTable /\ Dirs' = Dirs
    BY <2>1, UnchangedIsQuiet, SameDirs
  <2>4. AllPlaced'
    <3> SUFFICES ASSUME NEW m \in Nodes, tablaDeNodos'[m].state # 0
                 PROVE  Placed(m)'
      BY DEF AllPlaced
    <3>1. SameNode(m) /\ Placed(m) /\ tablaDeNodos[m].state # 0
      BY <1>2, <2>1, <2>3 DEF SameTable, TreeParts, AllPlaced
    <3>2. ASSUME NEW g \in Handlers, Reaches(g, m)
          PROVE  Reaches(g, m)'
      <4>1. CASE g # h
        BY <2>2, <3>1, <3>2, <4>1, StillReaches DEF Reaches, Removes
      <4>2. CASE g = h
        <5>1. PICK i \in 1..(Len(w) - 1) : w[i].dir = tablaDeNodos[m].parent /\ w[i].next <= m
          BY <1>6, <1>7, <3>1, <3>2, <4>2
        <5>2. i \in DOMAIN Front(w) /\ Front(w)[i] = w[i] /\ Front(w) # <<>>
          BY <1>4, <5>1
        <5>3. Removes(h)' /\ local'[h].walk = Front(w)
          BY <2>2, <5>2 DEF Removes, DeleteLabels
        <5> QED
          BY <3>1, <4>2, <5>1, <5>2, <5>3 DEF Reaches, SameNode
      <4> QED
        BY <4>1, <4>2
    <3> QED
      BY <2>3, <3>1, <3>2, StaysPlaced
  <2>5. FilesDeletedOnce'
    <3>1. \A g \in Handlers : pc'[g] \in FileLabels => pc[g] = pc'[g] /\ local[g] = local'[g]
      BY <2>2 DEF FileLabels
    <3> QED
      BY <1>2, <2>1, <3>1 DEF TreeParts, FilesDeletedOnce
  <2>6. ParentStays'
    BY <1>5, <2>2 DEF ParentStays
  <2> QED
    BY <2>4, <2>5, <2>6 DEF TreeParts
<1>8. CASE inside # {}
  <2>0. PICK n : n = Min(inside)
    OBVIOUS
  <2>1. /\ n \in inside /\ n \in Nodes /\ n \in Nat /\ \A m \in inside : n <= m
    BY <1>0, <1>8, <2>0, InsideMin, NodesAreNat
  <2>2. tablaDeNodos[n].state # 0
    BY <1>0, <2>1 DEF Inside, sac_server_readdir
  <2> DEFINE next == [top EXCEPT !.next = n + 1]
             below == Append(Front(w), next)
             t == [dir |-> n + FirstNodeBlock, next |-> 0]
  <2>3. /\ next \in Top /\ next.dir = top.dir /\ next.next = n + 1
        /\ t \in Top /\ t.dir = n + 2 /\ t.next = 0
    <3>1. n + 1 \in Int /\ n + 2 \in Int
      BY <2>1
    <3>2. next \in Top /\ next.dir = top.dir /\ next.next = n + 1
      BY <1>4, <3>1 DEF Top
    <3>3. t \in Top /\ t.dir = n + 2 /\ t.next = 0
      BY <3>1 DEF Top, FirstNodeBlock
    <3> QED
      BY <3>2, <3>3
  <2>4. /\ ~Shares(h, n)
        /\ Borrar(h, n, IF tablaDeNodos[n].state = 1 THEN below ELSE Append(below, t))
    <3>1. /\ Borrar(h, n, IF tablaDeNodos[n].state = 1 THEN below ELSE Append(below, t))
          /\ raced' = (raced \/ Shares(h, n))
      BY <1>0, <1>8, <2>0 DEF borrar_directorio
    <3> QED
      BY <3>1
  <2> HIDE DEF next, t
  <2>5. /\ below \in Seq(Top) /\ below # <<>> /\ Len(below) = Len(w)
        /\ below[Len(w)] = next /\ \A i \in 1..(Len(w) - 1) : below[i] = w[i]
    <3>1. /\ below \in Seq(Top) /\ below # <<>>
          /\ Len(below) = Len(Front(w)) + 1 /\ below[Len(Front(w)) + 1] = next
          /\ \A i \in 1..Len(Front(w)) : below[i] = Front(w)[i]
      BY <1>4, <2>3, AppendTop
    <3>2. Len(Front(w)) + 1 = Len(w)
      BY <1>4
    <3> QED
      BY <1>4, <3>1, <3>2
  <2> HIDE DEF below
  \* The rest of what h reaches is on the walk that goes on.
  <2>6. ASSUME NEW m \in Nodes, m # n, tablaDeNodos[m].state # 0, Reaches(h, m)
        PROVE  \E i \in 1..Len(w) : below[i].dir = tablaDeNodos[m].parent /\ below[i].next <= m
    <3>1. CASE m \in inside
      <4>1. m \in Nat /\ n <= m
        BY <2>1, <3>1, NodesAreNat
      <4>2. n + 1 <= m
        BY <2>1, <2>6, <4>1
      <4>3. tablaDeNodos[m].parent = top.dir
        BY <1>0, <3>1 DEF Inside, sac_server_readdir
      <4>4. Len(w) \in 1..Len(w)
        BY <1>4
      <4> QED
        BY <2>3, <2>5, <4>2, <4>3, <4>4
    <3>2. CASE m \notin inside
      <4>1. PICK i \in 1..(Len(w) - 1) : w[i].dir = tablaDeNodos[m].parent /\ w[i].next <= m
        BY <1>6, <2>6, <3>2
      <4>2. i \in 1..Len(w) /\ below[i] = w[i]
        BY <1>4, <2>5, <4>1
      <4> QED
        BY <4>1, <4>2
    <3> QED
      BY <3>1, <3>2
  <2>7. CASE tablaDeNodos[n].state = 1
    <3>1. /\ UNCHANGED tablaDeNodos
          /\ pc'[h] \in FileLabels /\ local'[h].node = n /\ local'[h].walk = below /\ local'[h].op = "rmdir"
          /\ \A g \in Handlers \ {h} : pc'[g] = pc[g] /\ local'[g] = local[g]
      BY <1>3, <2>1, <2>4, <2>7, TakesFile
    <3>2. SameTable /\ Dirs' = Dirs /\ Removes(h)'
      BY <3>1, UnchangedIsQuiet, SameDirs DEF Removes, DeleteLabels
    <3>3. AllPlaced'
      <4> SUFFICES ASSUME NEW m \in Nodes, tablaDeNodos'[m].state # 0
                   PROVE  Placed(m)'
        BY DEF AllPlaced
      <4>1. SameNode(m) /\ Placed(m) /\ tablaDeNodos[m].state # 0
        BY <1>2, <3>1, <3>2 DEF SameTable, TreeParts, AllPlaced
      <4>2. ASSUME NEW g \in Handlers, Reaches(g, m)
            PROVE  Reaches(g, m)'
        <5>1. CASE g # h
          BY <3>1, <4>1, <4>2, <5>1, StillReaches DEF Reaches, Removes
        <5>2. CASE g = h /\ m = n
          BY <3>1, <3>2, <5>2 DEF Reaches
        <5>3. CASE g = h /\ m # n
          <6>1. PICK i \in 1..Len(w) : below[i].dir = tablaDeNodos[m].parent /\ below[i].next <= m
            BY <2>6, <4>1, <4>2, <5>3
          <6>2. i \in DOMAIN below
            BY <2>5, <6>1
          <6> QED
            BY <3>1, <3>2, <4>1, <5>3, <6>1, <6>2 DEF Reaches, SameNode
        <5> QED
          BY <5>1, <5>2, <5>3
      <4> QED
        BY <3>2, <4>1, <4>2, StaysPlaced
    <3>4. FilesDeletedOnce'
      BY <1>2, <1>3, <2>1, <2>4, <2>7, <3>1, TakenOnce DEF TreeParts
    <3>5. ParentStays'
      BY <1>5, <3>1 DEF ParentStays, FileLabels
    <3> QED
      BY <3>3, <3>4, <3>5 DEF TreeParts
  <2>8. CASE tablaDeNodos[n].state = 2
    <3> DEFINE down == Append(below, t)
    <3>1. tablaDeNodos' = Deleted(n) /\ Continue(h, down)
      BY <2>1, <2>4, <2>8 DEF Borrar
    <3>2. tablaDeNodos'[n].state = 0 /\ \A m \in Nodes \ {n} : SameNode(m)
      BY <2>1, <3>1, DeletedIs DEF TypeInv
    <3>3. /\ down \in Seq(Top) /\ down # <<>> /\ Len(down) = Len(w) + 1
          /\ down[Len(w) + 1] = t /\ \A i \in 1..Len(w) : down[i] = below[i]
      BY <2>3, <2>5, AppendTop
    <3> HIDE DEF down
    <3>4. /\ pc'[h] = "recorrer" /\ local'[h].walk = down /\ local'[h].op = "rmdir"
          /\ \A g \in Handlers \ {h} : pc'[g] = pc[g] /\ local'[g] = local[g]
      BY <1>3, <3>1, <3>3, ContinueIs
    <3>5. Removes(h)' /\ DOMAIN down = 1..(Len(w) + 1)
      BY <3>3, <3>4 DEF Removes, DeleteLabels
    <3>6. AllPlaced'
      <4> SUFFICES ASSUME NEW m \in Nodes, tablaDeNodos'[m].state # 0
                   PROVE  Placed(m)'
        BY DEF AllPlaced
      <4>1. m # n /\ SameNode(m) /\ Placed(m) /\ tablaDeNodos[m].state # 0
        BY <1>2, <3>2 DEF TreeParts, AllPlaced, SameNode
      <4>2. m \in Nat /\ tablaDeNodos[m].parent \in Int
        BY NodesAreNat, NodeOf DEF TypeInv
      <4>3. CASE tablaDeNodos[m].parent = 0
        BY <4>1, <4>3 DEF Placed, SameNode
      <4>4. CASE tablaDeNodos[m].parent - FirstNodeBlock \in Dirs \ {n}
        BY <3>2, <4>1, <4>4 DEF Placed, SameNode, Dirs, FirstNodeBlock
      <4>5. CASE tablaDeNodos[m].parent - FirstNodeBlock = n
        <5>1. tablaDeNodos[m].parent = n + 2
          BY <2>1, <4>2, <4>5 DEF FirstNodeBlock
        <5>2. t.dir = tablaDeNodos'[m].parent /\ t.next <= m
          BY <2>3, <4>1, <4>2, <5>1 DEF SameNode
        <5>3. Len(w) + 1 \in DOMAIN down
          BY <1>4, <3>5
        <5>4. Reaches(h, m)'
          BY <3>3, <3>4, <3>5, <5>2, <5>3 DEF Reaches
        <5> QED
          BY <5>4 DEF Placed
      <4>6. ASSUME NEW g \in Handlers, Reaches(g, m)
            PROVE  Placed(m)'
        <5>1. CASE g # h
          <6>1. Reaches(g, m)'
            BY <3>4, <4>1, <4>6, <5>1, StillReaches DEF Reaches, Removes
          <6> QED
            BY <6>1 DEF Placed
        <5>2. CASE g = h
          <6>1. PICK i \in 1..Len(w) : below[i].dir = tablaDeNodos[m].parent /\ below[i].next <= m
            BY <2>6, <4>1, <4>6, <5>2
          <6>2. i \in DOMAIN down /\ down[i] = below[i]
            BY <1>4, <3>3, <3>5, <6>1
          <6>3. Reaches(h, m)'
            BY <3>4, <3>5, <4>1, <6>1, <6>2 DEF Reaches, SameNode
          <6> QED
            BY <6>3 DEF Placed
        <5> QED
          BY <5>1, <5>2
      <4> QED
        BY <4>1, <4>3, <4>4, <4>5, <4>6 DEF Placed
    <3>7. FilesDeletedOnce'
      <4>1. \A g \in Handlers : pc'[g] \in FileLabels => pc[g] = pc'[g] /\ local[g] = local'[g] /\ local[g].node \in Nodes
        BY <3>4, OfHandler DEF LocalOK, FileLabels
      <4> QED
        BY <1>2, <2>8, <3>2, <4>1 DEF TreeParts, FilesDeletedOnce, SameNode
    <3>8. ParentStays'
      BY <1>5, <3>4 DEF ParentStays
    <3> QED
      BY <3>6, <3>7, <3>8 DEF TreeParts
  <2> QED
    BY <2>1, <2>2, <2>7, <2>8, NodeOf DEF TypeInv
<1> QED
  BY <1>7, <1>8

LEMMA TreeInit == Init => TreeInv
<1> SUFFICES ASSUME Init
             PROVE  TreeParts
  BY DEF TreeInv, TreeParts
<1>1. (\A h \in Handlers : pc[h] = "idle") /\ \A n \in Nodes : tablaDeNodos[n].state = 0
  BY DEF Init, configurar_server, EmptyNode
<1> QED
  BY <1>1 DEF TreeParts, AllPlaced, FilesDeletedOnce, ParentStays, FileLabels

LEMMA TreeNext ==
  ASSUME TreeInv, TypeInv, [Next]_vars
  PROVE  TreeInv'
<1>1. CASE UNCHANGED vars
  <2>1. UNCHANGED <<tablaDeNodos, pc, local, raced, wild, spilled>>
    BY <1>1 DEF vars, disk, history
  <2>2. \A n \in Nodes : Placed(n)' <=> Placed(n)
    BY <2>1 DEF Placed, Dirs, Reaches, Removes, FirstNodeBlock
  <2>3. \A h \in Handlers : Removes(h)' <=> Removes(h)
    BY <2>1 DEF Removes
  <2>4. Dirs' = Dirs
    BY <2>1 DEF Dirs
  <2> QED
    BY <2>1, <2>2, <2>3, <2>4 DEF TreeInv, AllPlaced, FilesDeletedOnce, ParentStays
<1>2. CASE Next
  <2>1. PICK h \in Handlers : Ask(h) \/ fuse_invoke_function(h)
    BY <1>2 DEF Next
  <2>2. CASE GoWild(h)
    BY <2>2 DEF GoWild, TreeInv
  <2>3. CASE Ask(h) \/ TablaLlena(h) \/ YaExiste(h) \/ blocks(h) \/ truncate(h) \/ write(h)
    BY <2>3, QuietKeepsTree, AskQuiet, RefusedQuiet, BlocksQuiet, TruncateQuiet, WriteQuiet
  <2>4. CASE delete(h)
    BY <2>4, UnlinkKeepsTree, RmdirKeepsTree, ContentsKeepTree, FileKeepsTree, WalkKeepsTree DEF delete
  <2> QED
    BY <2>1, <2>2, <2>3, <2>4, CreateKeepsTree, RenameKeepsTree, RenamedKeepsTree
       DEF fuse_invoke_function, create, rename
<1> QED
  BY <1>1, <1>2

\* While no two requests met on a node, no rmdir is at work and no clearing went over the
\* end of a node, everything in the table is in the root or in a directory: TreeRooted.
THEOREM TreeStaysRooted == Spec => []TreeRooted
<1>1. TypeInv /\ TreeInv /\ [Next]_vars => TreeInv'
  BY TreeNext
<1>2. TreeInv => TreeRooted
  BY DEF TreeInv, AllPlaced, Placed, Dirs, Reaches, Removes, TreeRooted
<1> QED
  BY <1>1, <1>2, TreeInit, TypesInvariant, PTL DEF Spec

=============================================================================
