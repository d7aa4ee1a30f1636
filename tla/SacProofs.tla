----------------------------- MODULE SacProofs -----------------------------
(***************************************************************************)
(* Theorems about the locks of the SAC server, for any number of handlers, *)
(* paths, nodes and blocks and for disks of any geometry.                  *)
(*                                                                         *)
(* Which lock a handler holds follows from where it is (pc) and from which *)
(* request it serves; the data only decides which way it goes.  So the     *)
(* inductive invariant is about control alone, and an action preserves it  *)
(* by what it does to the place of its own handler and to the locks.       *)
(***************************************************************************)
EXTENDS Sac, TLAPS

MutexIds == Paths \X Handlers
Holders == Handlers \cup {NONE}
Fields == DOMAIN Idle

TruncateLabels == {"truncar", "acortar", "espacio", "sumar", "crecer", "tamano"}
CreateLabels == {"crear"}
WriteLabels == {"write", "poner", "tomar", "trozo", "escribir"}
BlockLabels == {"bloque", "agregar", "punteros"}

\* A handler at label l with variables r is between the lock and the unlock of a path.
WritingAt(l, r) == l \in {"trozo", "escribir"} \/ (l \in BlockLabels /\ r.op = "write")

\* What a handler at label l with variables r relies on: the request it serves and the
\* mutex it has chosen,
Serves(l, r) ==
  /\ l \in Labels
  /\ DOMAIN r = Fields
  /\ l \in WriteLabels => r.op = "write"
  /\ l \in TruncateLabels => r.op = "truncate"
  /\ l \in CreateLabels => r.op \in {"mknod", "mkdir"}
  /\ l \in {"write", "poner"} => r.path \in Paths
  /\ l \in {"poner", "tomar"} \/ WritingAt(l, r) => r.mutex \in MutexIds

\* and the locks it holds.
Place(h, l, r, tabla, held) ==
  /\ Serves(l, r)
  /\ WritingAt(l, r) => held[r.mutex] = h
  /\ l = "punteros" => tabla = h

LocksTyped ==
  /\ DOMAIN pc = Handlers /\ DOMAIN local = Handlers
  /\ s_tablaDeNodos \in Holders /\ s_bitmap \in Holders
  /\ mutexes \in [MutexIds -> Holders]
  /\ \A p \in DOMAIN diccionarioDeMutex : diccionarioDeMutex[p] \in MutexIds

PlacesOK == \A h \in Handlers : Place(h, pc[h], local[h], s_tablaDeNodos, mutexes)

LockInv == LocksTyped /\ PlacesOK /\ LocksAccounted

LEMMA WritingIs ==
  ASSUME NEW h \in Handlers
  PROVE  Writing(h) <=> WritingAt(pc[h], local[h])
BY DEF Writing, WritingAt, BlockLabels

(***************************************************************************)
(* A step of one handler.                                                  *)
(***************************************************************************)
\* The handler goes to label l with variables r and touches no lock another one holds;
\* what it holds afterwards is accounted for by l and r, or was kept by a return.
Moves(h, l, r) ==
  /\ Goto(h, l, r)
  /\ Place(h, l, r, s_tablaDeNodos', mutexes')
  /\ kept \subseteq kept'

LeavesTabla(h, l) ==
  /\ s_tablaDeNodos' = s_tablaDeNodos \/ (s_tablaDeNodos \in {NONE, h} /\ s_tablaDeNodos' \in {NONE, h})
  /\ s_tablaDeNodos' = h => l = "punteros" \/ <<"tabla", h>> \in kept'

LeavesBitmap(h) == s_bitmap' = s_bitmap \/ (s_bitmap' = h /\ <<"bitmap", h>> \in kept')

LeavesMutexes(h, l, r) ==
  /\ mutexes' \in [MutexIds -> Holders]
  /\ \A m \in MutexIds :
       /\ mutexes'[m] = mutexes[m] \/ (mutexes[m] \in {NONE, h} /\ mutexes'[m] \in {NONE, h})
       /\ mutexes'[m] = h => (WritingAt(l, r) /\ r.mutex = m) \/ <<"mutex", h>> \in kept'

LeavesDictionary == \A p \in DOMAIN diccionarioDeMutex' : diccionarioDeMutex'[p] \in MutexIds

\* Such a step keeps the invariant: the places of the other handlers rely on locks that
\* are theirs, and those did not change.
LEMMA StepKeepsLockInv ==
  ASSUME LockInv, NEW h \in Handlers, NEW l, NEW r,
         Moves(h, l, r), LeavesTabla(h, l), LeavesBitmap(h), LeavesMutexes(h, l, r), LeavesDictionary
  PROVE  LockInv'
<1>0. NONE \notin Handlers
  BY SacAssumption
<1>1. /\ DOMAIN pc' = Handlers /\ DOMAIN local' = Handlers
      /\ pc'[h] = l /\ local'[h] = r
      /\ \A g \in Handlers \ {h} : pc'[g] = pc[g] /\ local'[g] = local[g]
  BY DEF Moves, Goto, LockInv, LocksTyped
<1>2. LocksTyped'
  BY <1>1 DEF LocksTyped, LockInv, LeavesTabla, LeavesBitmap, LeavesMutexes, LeavesDictionary, Holders
<1>3. PlacesOK'
  <2> SUFFICES ASSUME NEW g \in Handlers
               PROVE  Place(g, pc[g], local[g], s_tablaDeNodos, mutexes)'
    BY DEF PlacesOK
  <2>1. CASE g = h
    BY <2>1, <1>1 DEF Moves
  <2>2. CASE g # h
    <3>1. Place(g, pc[g], local[g], s_tablaDeNodos, mutexes)
      BY DEF LockInv, PlacesOK
    <3>2. pc'[g] = pc[g] /\ local'[g] = local[g]
      BY <1>1, <2>2
    <3>3. pc[g] = "punteros" => s_tablaDeNodos' = g
      BY <3>1, <2>2, <1>0 DEF Place, LeavesTabla
    <3>4. WritingAt(pc[g], local[g]) => mutexes'[local[g].mutex] = g
      BY <3>1, <2>2, <1>0 DEF Place, Serves, LeavesMutexes
    <3> QED
      BY <3>1, <3>2, <3>3, <3>4 DEF Place
  <2> QED
    BY <2>1, <2>2
<1>4. LocksAccounted'
  <2>1. s_tablaDeNodos' # NONE => pc'[s_tablaDeNodos'] = "punteros" \/ <<"tabla", s_tablaDeNodos'>> \in kept'
    BY <1>1 DEF LockInv, LocksTyped, LocksAccounted, LeavesTabla, Moves, Holders
  <2>2. s_bitmap' # NONE => <<"bitmap", s_bitmap'>> \in kept'
    BY DEF LockInv, LocksAccounted, LeavesBitmap, Moves
  <2>3. ASSUME NEW m \in MutexIds, mutexes'[m] # NONE
        PROVE  \/ Writing(mutexes[m])' /\ local'[mutexes'[m]].mutex = m
               \/ <<"mutex", mutexes'[m]>> \in kept'
    <3>1. mutexes'[m] \in Handlers
      BY <2>3 DEF LeavesMutexes, Holders
    <3>2. CASE mutexes'[m] = h
      BY <3>2, <1>1 DEF LeavesMutexes, Writing, WritingAt, BlockLabels
    <3>3. CASE mutexes'[m] # h
      <4>1. mutexes'[m] = mutexes[m]
        BY <3>3, <2>3 DEF LeavesMutexes
      <4>2. pc'[mutexes[m]] = pc[mutexes[m]] /\ local'[mutexes[m]] = local[mutexes[m]]
        BY <1>1, <3>1, <3>3, <4>1
      <4>3. \/ Writing(mutexes[m]) /\ local[mutexes[m]].mutex = m
            \/ <<"mutex", mutexes[m]>> \in kept
        BY <2>3, <4>1 DEF LockInv, LocksAccounted, MutexIds
      <4> QED
        BY <4>1, <4>2, <4>3 DEF Writing, Moves
    <3> QED
      BY <3>2, <3>3
  <2> QED
    BY <2>1, <2>2, <2>3 DEF LocksAccounted, MutexIds
<1> QED
  BY <1>2, <1>3, <1>4 DEF LockInv

\* A step that neither begins nor ends a stretch with a lock.
LEMMA QuietStep ==
  ASSUME LockInv, NEW h \in Handlers, NEW l, NEW r,
         Goto(h, l, r), Serves(l, r), kept \subseteq kept', UNCHANGED locks,
         pc[h] # "punteros", l # "punteros",
         WritingAt(l, r) <=> WritingAt(pc[h], local[h]),
         WritingAt(l, r) => r.mutex = local[h].mutex
  PROVE  LockInv'
<1>0. UNCHANGED <<s_tablaDeNodos, s_bitmap, diccionarioDeMutex, mutexes>>
  BY DEF locks
<1>1. Place(h, pc[h], local[h], s_tablaDeNodos, mutexes)
  BY DEF LockInv, PlacesOK
<1>2. Moves(h, l, r)
  BY <1>0, <1>1 DEF Moves, Place
<1>3. LeavesTabla(h, l)
  BY <1>0, SacAssumption DEF LeavesTabla, LockInv, LocksAccounted
<1>4. LeavesBitmap(h) /\ LeavesDictionary
  BY <1>0 DEF LeavesBitmap, LeavesDictionary, LockInv, LocksTyped
<1>5. LeavesMutexes(h, l, r)
  <2>1. ASSUME NEW m \in MutexIds, mutexes[m] = h
        PROVE  (WritingAt(l, r) /\ r.mutex = m) \/ <<"mutex", h>> \in kept'
    BY <2>1, SacAssumption, WritingIs DEF LockInv, LocksAccounted, MutexIds
  <2> QED
    BY <1>0, <2>1 DEF LeavesMutexes, LockInv, LocksTyped
<1> QED
  BY <1>2, <1>3, <1>4, <1>5, StepKeepsLockInv

\* Labels at which a handler holds no lock and has promised nothing.
FreeLabels == {"idle", "unlink", "rmdir", "borrar", "marcar", "recorrer", "rename", "renombrar"}

\* Labels at which it holds no lock.
LooseLabels == FreeLabels \cup CreateLabels \cup TruncateLabels \cup {"write", "poner", "tomar"}

LEMMA LooseHoldsNothing ==
  ASSUME NEW l \in LooseLabels, NEW r
  PROVE  ~WritingAt(l, r) /\ l # "punteros"
BY DEF LooseLabels, FreeLabels, CreateLabels, TruncateLabels, WritingAt, BlockLabels

LEMMA FreeServes ==
  ASSUME NEW l \in FreeLabels, NEW r, DOMAIN r = Fields
  PROVE  Serves(l, r)
BY DEF FreeLabels, CreateLabels, TruncateLabels, WriteLabels, WritingAt, BlockLabels, Serves, Labels

\* A step outside the stretches with a lock.
LEMMA LooseStep ==
  ASSUME LockInv, NEW h \in Handlers, NEW l \in LooseLabels, NEW r,
         pc[h] \in LooseLabels,
         Goto(h, l, r), Serves(l, r), kept \subseteq kept', UNCHANGED locks
  PROVE  LockInv'
<1>1. ~WritingAt(l, r) /\ l # "punteros" /\ ~WritingAt(pc[h], local[h]) /\ pc[h] # "punteros"
  BY LooseHoldsNothing
<1> QED
  BY <1>1, QuietStep

LEMMA IdleServes == Serves("idle", Idle) /\ ~WritingAt("idle", Idle)
BY DEF Serves, Labels, Fields, CreateLabels, TruncateLabels, WriteLabels, WritingAt, BlockLabels

(***************************************************************************)
(* The requests: one lemma per group of actions.                           *)
(***************************************************************************)
LEMMA AskedFields ==
  ASSUME NEW op, NEW path, NEW nuevo, NEW size, NEW off, NEW target
  PROVE  LET r == Asked(op, path, nuevo, size, off, target)
         IN DOMAIN r = Fields /\ r.op = op /\ r.path = path
BY DEF Asked, Idle, Fields

LEMMA AskKeeps ==
  ASSUME LockInv, NEW h \in Handlers, Ask(h)
  PROVE  LockInv'
<1>1. pc[h] = "idle" /\ UNCHANGED locks /\ kept' = kept
  BY DEF Ask, history
<1>2. PICK p \in Paths :
        \/ \E op \in {"mknod", "mkdir"} : Goto(h, "crear", Asked(op, p, <<>>, 0, 0, 0))
        \/ \E op \in {"unlink", "rmdir"} : Goto(h, op, Asked(op, p, <<>>, 0, 0, 0))
        \/ \E q \in Paths : Goto(h, "rename", Asked("rename", p, q, 0, 0, 0))
        \/ \E size \in TruncateSizes : Goto(h, "truncar", Asked("truncate", p, <<>>, 0, 0, size))
        \/ \E w \in Writes : Goto(h, "write", Asked("write", p, <<>>, w[1], w[2], 0))
  BY DEF Ask
<1>3. \E l \in LooseLabels : \E r : Goto(h, l, r) /\ Serves(l, r)
  <2>1. CASE \E op \in {"mknod", "mkdir"} : Goto(h, "crear", Asked(op, p, <<>>, 0, 0, 0))
    <3>1. PICK op \in {"mknod", "mkdir"} : Goto(h, "crear", Asked(op, p, <<>>, 0, 0, 0))
      BY <2>1
    <3>2. Serves("crear", Asked(op, p, <<>>, 0, 0, 0))
      BY AskedFields DEF Serves, Labels, CreateLabels, TruncateLabels, WriteLabels, WritingAt, BlockLabels
    <3> QED
      BY <3>1, <3>2 DEF LooseLabels, CreateLabels
  <2>2. CASE \E op \in {"unlink", "rmdir"} : Goto(h, op, Asked(op, p, <<>>, 0, 0, 0))
    BY <2>2, AskedFields, FreeServes DEF LooseLabels, FreeLabels
  <2>3. CASE \E q \in Paths : Goto(h, "rename", Asked("rename", p, q, 0, 0, 0))
    BY <2>3, AskedFields, FreeServes DEF LooseLabels, FreeLabels
  <2>4. CASE \E size \in TruncateSizes : Goto(h, "truncar", Asked("truncate", p, <<>>, 0, 0, size))
    <3>1. PICK size \in TruncateSizes : Goto(h, "truncar", Asked("truncate", p, <<>>, 0, 0, size))
      BY <2>4
    <3>2. Serves("truncar", Asked("truncate", p, <<>>, 0, 0, size))
      BY AskedFields DEF Serves, Labels, CreateLabels, TruncateLabels, WriteLabels, WritingAt, BlockLabels
    <3> QED
      BY <3>1, <3>2 DEF LooseLabels, TruncateLabels
  <2>5. CASE \E w \in Writes : Goto(h, "write", Asked("write", p, <<>>, w[1], w[2], 0))
    <3>1. PICK w \in Writes : Goto(h, "write", Asked("write", p, <<>>, w[1], w[2], 0))
      BY <2>5
    <3>2. Serves("write", Asked("write", p, <<>>, w[1], w[2], 0))
      BY AskedFields DEF Serves, Labels, CreateLabels, TruncateLabels, WriteLabels, WritingAt, BlockLabels
    <3> QED
      BY <3>1, <3>2 DEF LooseLabels
  <2> QED
    BY <1>2, <2>1, <2>2, <2>3, <2>4, <2>5
<1>4. PICK l, r : l \in LooseLabels /\ Goto(h, l, r) /\ Serves(l, r)
  BY <1>3
<1>5. pc[h] \in LooseLabels
  BY <1>1 DEF LooseLabels, FreeLabels
<1> QED
  BY <1>1, <1>4, <1>5, LooseStep

\* A return that keeps the mutex of the table, taken a step before.
LEMMA KeepTablaKeeps ==
  ASSUME LockInv, NEW h \in Handlers, pc[h] \in LooseLabels,
         KeepTabla(h), Answer(h), UNCHANGED <<s_bitmap, diccionarioDeMutex, mutexes>>,
         s_tablaDeNodos = NONE
  PROVE  LockInv'
<1>1. Moves(h, "idle", Idle)
  BY IdleServes DEF Moves, Answer, KeepTabla, Place
<1>2. LeavesTabla(h, "idle") /\ LeavesBitmap(h) /\ LeavesDictionary
  BY DEF LeavesTabla, LeavesBitmap, LeavesDictionary, KeepTabla, LockInv, LocksTyped
<1>3. ASSUME NEW m \in MutexIds, mutexes[m] = h
      PROVE  <<"mutex", h>> \in kept'
  <2>1. ~Writing(h)
    BY LooseHoldsNothing, WritingIs
  <2> QED
    BY <1>3, <2>1, SacAssumption DEF LockInv, LocksAccounted, MutexIds, KeepTabla
<1>4. LeavesMutexes(h, "idle", Idle)
  BY <1>3 DEF LeavesMutexes, LockInv, LocksTyped
<1> QED
  BY <1>1, <1>2, <1>4, StepKeepsLockInv

LEMMA CreateKeeps ==
  ASSUME LockInv, NEW h \in Handlers, create(h)
  PROVE  LockInv'
<1>0. Place(h, pc[h], local[h], s_tablaDeNodos, mutexes)
  BY DEF LockInv, PlacesOK
<1>1. CASE TablaLlena(h)
  BY <1>1, KeepTablaKeeps DEF TablaLlena, At, LooseLabels, CreateLabels
<1>2. CASE YaExiste(h)
  BY <1>2, KeepTablaKeeps DEF YaExiste, At, LooseLabels, CreateLabels
<1>3. CASE crear_nuevo_nodo(h)
  <2>1. pc[h] = "crear" /\ UNCHANGED locks /\ kept' = kept
    BY <1>3 DEF crear_nuevo_nodo, At
  <2>2. local[h].op \in {"mknod", "mkdir"} /\ DOMAIN local[h] = Fields
    BY <1>0, <2>1 DEF Place, Serves, CreateLabels
  <2>3. CASE local[h].op = "mknod"
    <3> DEFINE r == [local[h] EXCEPT !.node = Min(Vacant)]
    <3>1. Goto(h, "bloque", r)
      BY <1>3, <2>3 DEF crear_nuevo_nodo
    <3>2. DOMAIN r = Fields /\ r.op = "mknod"
      BY <2>2, <2>3 DEF Fields, Idle
    <3> HIDE DEF r
    <3>3. Serves("bloque", r) /\ ~WritingAt("bloque", r)
      BY <3>2 DEF Serves, Labels, CreateLabels, TruncateLabels, WriteLabels, WritingAt, BlockLabels
    <3>4. ~WritingAt(pc[h], local[h])
      BY <2>1 DEF WritingAt, BlockLabels
    <3> QED
      BY <2>1, <3>1, <3>3, <3>4, QuietStep
  <2>4. CASE local[h].op # "mknod"
    <3>1. Goto(h, "idle", Idle)
      BY <1>3, <2>4 DEF crear_nuevo_nodo, Answer
    <3> QED
      BY <2>1, <3>1, IdleServes, LooseStep DEF LooseLabels, FreeLabels, CreateLabels
  <2> QED
    BY <2>3, <2>4
<1> QED
  BY <1>1, <1>2, <1>3 DEF create

LEMMA DeleteKeeps ==
  ASSUME LockInv, NEW h \in Handlers, delete(h)
  PROVE  LockInv'
<1>0. Place(h, pc[h], local[h], s_tablaDeNodos, mutexes)
  BY DEF LockInv, PlacesOK
<1>1. pc[h] \in FreeLabels /\ UNCHANGED locks /\ kept' = kept
  BY DEF delete, sac_server_unlink, sac_server_rmdir, borrar_contenido, borrar_archivo, borrar_directorio,
         At, FreeLabels, history
<1>2. DOMAIN local[h] = Fields
  BY <1>0 DEF Place, Serves
<1>3. ASSUME NEW w, Continue(h, w)
      PROVE  \E l \in FreeLabels : \E r : Goto(h, l, r) /\ DOMAIN r = Fields
  <2>1. CASE w = <<>>
    BY <1>3, <2>1 DEF Continue, Answer, Fields, FreeLabels
  <2>2. CASE w # <<>>
    <3> DEFINE r == [local[h] EXCEPT !.node = -1, !.walk = w]
    <3>1. DOMAIN r = Fields
      BY <1>2
    <3>2. Goto(h, "recorrer", r)
      BY <1>3, <2>2 DEF Continue
    <3> QED
      BY <3>1, <3>2 DEF FreeLabels
  <2> QED
    BY <2>1, <2>2
<1>4. ASSUME NEW n, NEW w, Borrar(h, n, w)
      PROVE  \E l \in FreeLabels : \E r : Goto(h, l, r) /\ DOMAIN r = Fields
  <2>1. CASE Continue(h, w)
    BY <1>3, <2>1
  <2>2. CASE ~Continue(h, w)
    <3> DEFINE r == [local[h] EXCEPT !.node = n, !.size = tablaDeNodos[n].file_size, !.walk = w]
               l == IF tablaDeNodos[n].file_size # 0 THEN "borrar" ELSE "marcar"
    <3>1. DOMAIN r = Fields /\ l \in FreeLabels
      BY <1>2 DEF FreeLabels
    <3>2. Goto(h, l, r)
      BY <1>4, <2>2 DEF Borrar
    <3> QED
      BY <3>1, <3>2
  <2> QED
    BY <2>1, <2>2
<1>5. \E l \in FreeLabels : \E r : Goto(h, l, r) /\ DOMAIN r = Fields
  <2>1. CASE sac_server_unlink(h)
    BY <2>1, <1>4 DEF sac_server_unlink
  <2>2. CASE sac_server_rmdir(h)
    BY <2>2, <1>4 DEF sac_server_rmdir
  <2>3. CASE borrar_contenido(h)
    BY <2>3, <1>2 DEF borrar_contenido, FreeLabels
  <2>4. CASE borrar_archivo(h)
    BY <2>4, <1>3 DEF borrar_archivo
  <2>5. CASE borrar_directorio(h)
    BY <2>5, <1>3, <1>4 DEF borrar_directorio
  <2> QED
    BY <2>1, <2>2, <2>3, <2>4, <2>5 DEF delete
<1>6. PICK l, r : l \in FreeLabels /\ Goto(h, l, r) /\ DOMAIN r = Fields
  BY <1>5
<1>7. l \in LooseLabels /\ pc[h] \in LooseLabels
  BY <1>1, <1>6 DEF LooseLabels
<1> QED
  BY <1>1, <1>6, <1>7, FreeServes, LooseStep

LEMMA RenameKeeps ==
  ASSUME LockInv, NEW h \in Handlers, rename(h)
  PROVE  LockInv'
<1>0. Place(h, pc[h], local[h], s_tablaDeNodos, mutexes)
  BY DEF LockInv, PlacesOK
<1>1. pc[h] \in FreeLabels /\ UNCHANGED locks /\ kept' = kept
  BY DEF rename, sac_server_rename, renombrar_archivo, At, FreeLabels, history
<1>2. \E l \in FreeLabels : \E r : Goto(h, l, r) /\ DOMAIN r = Fields
  <2>1. DOMAIN local[h] = Fields
    BY <1>0 DEF Place, Serves
  <2>2. ASSUME Answer(h)
        PROVE  \E l \in FreeLabels : \E r : Goto(h, l, r) /\ DOMAIN r = Fields
    BY <2>2 DEF Answer, Fields, FreeLabels
  <2>3. CASE sac_server_rename(h) /\ ~Answer(h)
    <3> DEFINE n == determine_nodo(local[h].path)
               parent == determine_nodo(Front(local[h].nuevo))
               r == [local[h] EXCEPT !.node = n, !.parent = parent]
    <3>1. Goto(h, "renombrar", r)
      BY <2>3 DEF sac_server_rename
    <3> HIDE DEF n, parent
    <3>2. DOMAIN r = Fields
      BY <2>1
    <3> QED
      BY <3>1, <3>2 DEF FreeLabels
  <2> QED
    BY <2>2, <2>3 DEF rename, renombrar_archivo
<1>3. PICK l, r : l \in FreeLabels /\ Goto(h, l, r) /\ DOMAIN r = Fields
  BY <1>2
<1>4. l \in LooseLabels /\ pc[h] \in LooseLabels
  BY <1>1, <1>3 DEF LooseLabels
<1> QED
  BY <1>1, <1>3, <1>4, FreeServes, LooseStep

\* A truncate stays one until it is answered, with no lock between its steps.
LEMMA TruncateKeeps ==
  ASSUME LockInv, NEW h \in Handlers, truncate(h)
  PROVE  LockInv'
<1>0. Place(h, pc[h], local[h], s_tablaDeNodos, mutexes)
  BY DEF LockInv, PlacesOK
<1>1. pc[h] \in TruncateLabels /\ UNCHANGED locks /\ kept' = kept
  BY DEF truncate, sac_server_truncate, delete_nodes_upto, get_new_space, SumarEspacio, SumarBloque,
         truncar_archivo, At, TruncateLabels, history
<1>2. DOMAIN local[h] = Fields /\ local[h].op = "truncate"
  BY <1>0, <1>1 DEF Place, Serves
<1> DEFINE Targets == TruncateLabels \cup {"bloque"}
<1>3. \/ Answer(h)
      \/ \E l \in Targets : \E r : Goto(h, l, r) /\ DOMAIN r = Fields /\ r.op = "truncate"
  <2>1. CASE sac_server_truncate(h)
    <3> DEFINE n == determine_nodo(local[h].path)
               r == [local[h] EXCEPT !.node = n]
               d == r.target - tablaDeNodos[n].file_size
    <3>1. Answer(h) \/ Goto(h, "espacio", [r EXCEPT !.size = d]) \/ Goto(h, "acortar", r)
      BY <2>1 DEF sac_server_truncate
    <3> HIDE DEF n
    <3>2. DOMAIN r = Fields /\ r.op = "truncate"
      BY <1>2 DEF Fields, Idle
    <3> HIDE DEF d, r
    <3>3. DOMAIN [r EXCEPT !.size = d] = Fields /\ [r EXCEPT !.size = d].op = "truncate"
      BY <3>2 DEF Fields, Idle
    <3> QED
      BY <3>1, <3>2, <3>3 DEF TruncateLabels
  <2>2. CASE delete_nodes_upto(h)
    BY <2>2, <1>2 DEF delete_nodes_upto, TruncateLabels
  <2>3. CASE get_new_space(h)
    <3> DEFINE l == IF EspacioInsuficiente(h) \/ SpaceForGrowth(Size(h)) >= local[h].size THEN "tamano" ELSE "sumar"
               space == SpaceForGrowth(Size(h))
               r == [local[h] EXCEPT !.space = space]
    <3>1. Goto(h, l, r)
      BY <2>3 DEF get_new_space
    <3>2. l \in Targets
      BY DEF TruncateLabels
    <3> HIDE DEF space, l
    <3>3. DOMAIN r = Fields /\ r.op = "truncate"
      BY <1>2 DEF Fields, Idle
    <3> QED
      BY <3>1, <3>2, <3>3
  <2>4. CASE SumarEspacio(h)
    BY <2>4, <1>2 DEF SumarEspacio
  <2>5. CASE SumarBloque(h)
    <3> DEFINE left == local[h].size - BLOQUE_SIZE
               l == IF left >= local[h].space \/ left < 0 THEN "bloque" ELSE "tamano"
               r == [local[h] EXCEPT !.size = left]
    <3>1. Goto(h, l, r)
      BY <2>5 DEF SumarBloque
    <3>2. l \in Targets
      BY DEF TruncateLabels
    <3> HIDE DEF left, l
    <3>3. DOMAIN r = Fields /\ r.op = "truncate"
      BY <1>2 DEF Fields, Idle
    <3> QED
      BY <3>1, <3>2, <3>3
  <2>6. CASE truncar_archivo(h)
    BY <2>6 DEF truncar_archivo
  <2> QED
    BY <2>1, <2>2, <2>3, <2>4, <2>5, <2>6 DEF truncate
<1>4. ~WritingAt(pc[h], local[h]) /\ pc[h] # "punteros" /\ pc[h] \in LooseLabels
  BY <1>1 DEF WritingAt, BlockLabels, TruncateLabels, LooseLabels
<1>5. CASE Answer(h)
  BY <1>1, <1>4, <1>5, IdleServes, LooseStep DEF Answer, LooseLabels, FreeLabels
<1>6. ASSUME NEW l \in Targets, NEW r, Goto(h, l, r), DOMAIN r = Fields, r.op = "truncate"
      PROVE  LockInv'
  <2>1. Serves(l, r) /\ ~WritingAt(l, r) /\ l # "punteros"
    BY <1>6 DEF Serves, Labels, CreateLabels, TruncateLabels, WriteLabels, WritingAt, BlockLabels
  <2> QED
    BY <2>1, <1>1, <1>4, <1>6, QuietStep
<1> QED
  BY <1>3, <1>5, <1>6

\* What the mutexes that a handler at label l holds say when it answers: only the one
\* of its write, which is then released.
LEMMA HeldByWriter ==
  ASSUME LockInv, NEW h \in Handlers, NEW m \in MutexIds, mutexes[m] = h
  PROVE  (WritingAt(pc[h], local[h]) /\ local[h].mutex = m) \/ <<"mutex", h>> \in kept
BY SacAssumption, WritingIs DEF LockInv, LocksAccounted, MutexIds

LEMMA MutexesUnchanged ==
  ASSUME LockInv, NEW h \in Handlers, NEW l, NEW r, UNCHANGED mutexes, kept \subseteq kept',
         WritingAt(pc[h], local[h]) => WritingAt(l, r) /\ r.mutex = local[h].mutex
  PROVE  LeavesMutexes(h, l, r)
<1>1. \A m \in MutexIds : mutexes[m] = h => (WritingAt(l, r) /\ r.mutex = m) \/ <<"mutex", h>> \in kept'
  BY HeldByWriter
<1> QED
  BY <1>1 DEF LeavesMutexes, LockInv, LocksTyped

\* The answer of a write releases its mutex.
LEMMA UnlockReleases ==
  ASSUME LockInv, NEW h \in Handlers, Unlock(h), kept \subseteq kept',
         WritingAt(pc[h], local[h]) => local[h].op = "write",
         local[h].op = "write" => WritingAt(pc[h], local[h])
  PROVE  LeavesMutexes(h, "idle", Idle)
<1>0. Place(h, pc[h], local[h], s_tablaDeNodos, mutexes)
  BY DEF LockInv, PlacesOK
<1>1. CASE local[h].op # "write"
  BY <1>1, MutexesUnchanged DEF Unlock
<1>2. CASE local[h].op = "write"
  <2> DEFINE m == local[h].mutex
  <2>1. m \in MutexIds /\ mutexes[m] = h
    BY <1>0, <1>2 DEF Place, Serves
  <2>2. mutexes' = [mutexes EXCEPT ![m] = NONE]
    BY <1>2 DEF Unlock
  <2>3. mutexes \in [MutexIds -> Holders]
    BY DEF LockInv, LocksTyped
  <2>4. mutexes' \in [MutexIds -> Holders]
    BY <2>2, <2>3 DEF Holders
  <2>5. ASSUME NEW k \in MutexIds
        PROVE  /\ mutexes'[k] = mutexes[k] \/ (mutexes[k] \in {NONE, h} /\ mutexes'[k] \in {NONE, h})
               /\ mutexes'[k] = h => <<"mutex", h>> \in kept'
    BY <2>1, <2>2, <2>3, HeldByWriter, SacAssumption
  <2> QED
    BY <2>4, <2>5 DEF LeavesMutexes
<1> QED
  BY <1>1, <1>2

\* After agregar_nodo a handler goes on, or answers and releases the mutex of its write.
LEMMA AfterAgregarGoesOn ==
  ASSUME LockInv, NEW h \in Handlers, pc[h] \in BlockLabels, kept \subseteq kept',
         NEW ok, AfterAgregar(h, ok)
  PROVE  \E l, r : /\ Goto(h, l, r) /\ Serves(l, r) /\ l # "punteros"
                   /\ LeavesMutexes(h, l, r)
                   /\ WritingAt(l, r) => mutexes'[r.mutex] = h
<1>0. Place(h, pc[h], local[h], s_tablaDeNodos, mutexes)
  BY DEF LockInv, PlacesOK
<1>1. DOMAIN local[h] = Fields
  BY <1>0 DEF Place, Serves
<1>2. WritingAt(pc[h], local[h]) <=> local[h].op = "write"
  BY DEF WritingAt, BlockLabels
<1>3. CASE local[h].op = "write" /\ ok
  <2>1. Goto(h, "escribir", local[h]) /\ UNCHANGED mutexes
    BY <1>3 DEF AfterAgregar
  <2>2. WritingAt("escribir", local[h])
    BY DEF WritingAt
  <2>3. local[h].mutex \in MutexIds /\ mutexes[local[h].mutex] = h
    BY <1>0, <1>2, <1>3 DEF Place, Serves
  <2>4. Serves("escribir", local[h])
    BY <1>1, <1>3, <2>3 DEF Serves, Labels, CreateLabels, TruncateLabels, WriteLabels, BlockLabels
  <2>5. LeavesMutexes(h, "escribir", local[h])
    BY <2>1, <2>2, MutexesUnchanged
  <2> QED
    BY <2>1, <2>3, <2>4, <2>5
<1>4. CASE local[h].op = "truncate"
  <2>1. Goto(h, "crecer", local[h]) /\ UNCHANGED mutexes
    BY <1>4 DEF AfterAgregar
  <2>2. ~WritingAt("crecer", local[h])
    BY DEF WritingAt, BlockLabels
  <2>3. Serves("crecer", local[h])
    BY <1>1, <1>4, <2>2 DEF Serves, Labels, CreateLabels, TruncateLabels, WriteLabels
  <2>4. LeavesMutexes(h, "crecer", local[h])
    BY <1>2, <1>4, <2>1, MutexesUnchanged
  <2> QED
    BY <2>1, <2>2, <2>3, <2>4
<1>5. CASE ~(local[h].op = "write" /\ ok) /\ local[h].op # "truncate"
  <2>1. Answer(h) /\ Unlock(h)
    BY <1>5 DEF AfterAgregar
  <2>2. LeavesMutexes(h, "idle", Idle)
    BY <1>2, <2>1, UnlockReleases
  <2>3. Goto(h, "idle", Idle)
    BY <2>1 DEF Answer
  <2> QED
    BY <2>2, <2>3, IdleServes
<1> QED
  BY <1>3, <1>4, <1>5

\* It keeps the invariant if the mutex of the table is not left behind unaccounted.
LEMMA AfterAgregarKeeps ==
  ASSUME LockInv, NEW h \in Handlers, pc[h] \in BlockLabels, kept \subseteq kept',
         NEW ok, AfterAgregar(h, ok),
         s_tablaDeNodos' = s_tablaDeNodos \/ (s_tablaDeNodos \in {NONE, h} /\ s_tablaDeNodos' \in {NONE, h}),
         s_tablaDeNodos' = h => <<"tabla", h>> \in kept',
         LeavesBitmap(h), UNCHANGED diccionarioDeMutex
  PROVE  LockInv'
<1>1. PICK l, r : /\ Goto(h, l, r) /\ Serves(l, r) /\ l # "punteros"
                  /\ LeavesMutexes(h, l, r)
                  /\ WritingAt(l, r) => mutexes'[r.mutex] = h
  BY AfterAgregarGoesOn
<1>2. Moves(h, l, r)
  BY <1>1 DEF Moves, Place
<1>3. LeavesTabla(h, l)
  BY DEF LeavesTabla
<1>4. LeavesDictionary
  BY DEF LeavesDictionary, LockInv, LocksTyped
<1> QED
  BY <1>1, <1>2, <1>3, <1>4, StepKeepsLockInv

\* Away from the label "punteros" a handler that holds the table has kept it.
LEMMA TablaIsKept ==
  ASSUME LockInv, NEW h \in Handlers, pc[h] # "punteros", s_tablaDeNodos = h
  PROVE  <<"tabla", h>> \in kept
BY SacAssumption DEF LockInv, LocksAccounted

LEMMA BlocksKeeps ==
  ASSUME LockInv, NEW h \in Handlers, blocks(h)
  PROVE  LockInv'
<1>0. /\ Place(h, pc[h], local[h], s_tablaDeNodos, mutexes)
      /\ h # NONE
  BY SacAssumption DEF LockInv, PlacesOK
<1>1. DOMAIN local[h] = Fields
  BY <1>0 DEF Place, Serves
<1>2. CASE get_bloque_vacio(h)
  <2> DEFINE b == Min(Free)
             r == [local[h] EXCEPT !.blk = b]
  <2>1. pc[h] = "bloque" /\ UNCHANGED locks /\ kept' = kept /\ Goto(h, "agregar", r)
    BY <1>2 DEF get_bloque_vacio, At, history
  <2> HIDE DEF b
  <2>2. DOMAIN r = Fields /\ r.op = local[h].op /\ r.mutex = local[h].mutex
    BY <1>1 DEF Fields, Idle
  <2> HIDE DEF r
  <2>3. WritingAt("agregar", r) <=> WritingAt(pc[h], local[h])
    BY <2>1, <2>2 DEF WritingAt, BlockLabels
  <2>4. Serves("agregar", r)
    BY <1>0, <2>2, <2>3 DEF Place, Serves, Labels, CreateLabels, TruncateLabels, WriteLabels
  <2> QED
    BY <2>1, <2>2, <2>3, <2>4, QuietStep
<1>3. CASE SinBloques(h)
  <2> DEFINE r == [local[h] EXCEPT !.blk = -1]
  <2>1. /\ pc[h] = "bloque" /\ s_bitmap' = h /\ kept' = kept \cup {<<"bitmap", h>>}
        /\ UNCHANGED <<s_tablaDeNodos, diccionarioDeMutex>>
    BY <1>3 DEF SinBloques, At
  <2>2. LeavesBitmap(h) /\ LeavesDictionary /\ kept \subseteq kept'
    BY <2>1 DEF LeavesBitmap, LeavesDictionary, LockInv, LocksTyped
  <2>3. s_tablaDeNodos' = h => <<"tabla", h>> \in kept'
    BY <2>1, <2>2, TablaIsKept
  <2>4. WritingAt(pc[h], local[h]) <=> local[h].op = "write"
    BY <2>1 DEF WritingAt, BlockLabels
  <2>5. CASE local[h].op = "write"
    <3>1. Answer(h) /\ Unlock(h)
      BY <1>3, <2>5 DEF SinBloques
    <3>2. Moves(h, "idle", Idle)
      BY <3>1, <2>2, IdleServes DEF Moves, Answer, Place
    <3>3. LeavesMutexes(h, "idle", Idle)
      BY <3>1, <2>2, <2>4, UnlockReleases
    <3>4. LeavesTabla(h, "idle")
      BY <2>1, <2>3 DEF LeavesTabla
    <3> QED
      BY <2>2, <3>2, <3>3, <3>4, StepKeepsLockInv
  <2>6. CASE local[h].op # "write"
    <3>1. Goto(h, "agregar", r) /\ UNCHANGED mutexes
      BY <1>3, <2>6 DEF SinBloques
    <3>2. DOMAIN r = Fields /\ r.op = local[h].op
      BY <1>1 DEF Fields, Idle
    <3> HIDE DEF r
    <3>3. Serves("agregar", r) /\ ~WritingAt("agregar", r)
      BY <2>6, <3>2 DEF Serves, Labels, CreateLabels, TruncateLabels, WriteLabels, WritingAt, BlockLabels
    <3>4. Moves(h, "agregar", r)
      BY <2>2, <3>1, <3>3 DEF Moves, Place
    <3>5. LeavesMutexes(h, "agregar", r)
      BY <2>2, <2>4, <2>6, <3>1, MutexesUnchanged
    <3>6. LeavesTabla(h, "agregar")
      BY <2>1, <2>3 DEF LeavesTabla
    <3> QED
      BY <2>2, <3>4, <3>5, <3>6, StepKeepsLockInv
  <2> QED
    BY <2>5, <2>6
<1>4. CASE agregar_nodo(h)
  <2>1. /\ pc[h] = "agregar" /\ kept' = kept /\ AfterAgregar(h, TRUE)
        /\ UNCHANGED <<s_tablaDeNodos, s_bitmap, diccionarioDeMutex>>
    BY <1>4 DEF agregar_nodo, At, history
  <2>2. s_tablaDeNodos' = h => <<"tabla", h>> \in kept'
    BY <2>1, TablaIsKept
  <2> QED
    BY <2>1, <2>2, AfterAgregarKeeps DEF BlockLabels, LeavesBitmap
<1>5. CASE ArchivoLleno(h)
  <2>1. /\ pc[h] = "agregar" /\ s_tablaDeNodos = NONE /\ KeepTabla(h) /\ AfterAgregar(h, FALSE)
        /\ UNCHANGED <<s_bitmap, diccionarioDeMutex>>
    BY <1>5 DEF ArchivoLleno, At
  <2> QED
    BY <2>1, AfterAgregarKeeps DEF BlockLabels, LeavesBitmap, KeepTabla
<1>6. CASE AgregarPunteros(h)
  <2>1. /\ pc[h] = "agregar" /\ s_tablaDeNodos = NONE /\ s_tablaDeNodos' = h /\ kept' = kept
        /\ Goto(h, "punteros", local[h]) /\ UNCHANGED <<s_bitmap, diccionarioDeMutex, mutexes>>
    BY <1>6 DEF AgregarPunteros, At, history
  <2>2. WritingAt("punteros", local[h]) <=> WritingAt(pc[h], local[h])
    BY <2>1 DEF WritingAt, BlockLabels
  <2>3. Serves("punteros", local[h])
    BY <1>0, <2>2 DEF Place, Serves, Labels, CreateLabels, TruncateLabels, WriteLabels
  <2>4. Moves(h, "punteros", local[h])
    BY <1>0, <2>1, <2>2, <2>3 DEF Moves, Place
  <2>5. LeavesMutexes(h, "punteros", local[h])
    BY <2>1, <2>2, MutexesUnchanged
  <2>6. LeavesTabla(h, "punteros") /\ LeavesBitmap(h) /\ LeavesDictionary
    BY <2>1 DEF LeavesTabla, LeavesBitmap, LeavesDictionary, LockInv, LocksTyped
  <2> QED
    BY <2>4, <2>5, <2>6, StepKeepsLockInv
<1>7. CASE BloqueDePunteros(h)
  <2>1. /\ pc[h] = "punteros" /\ s_tablaDeNodos' = NONE /\ kept' = kept /\ AfterAgregar(h, TRUE)
        /\ UNCHANGED <<s_bitmap, diccionarioDeMutex>>
    BY <1>7 DEF BloqueDePunteros, At, history
  <2>2. s_tablaDeNodos = h
    BY <1>0, <2>1 DEF Place
  <2> QED
    BY <1>0, <2>1, <2>2, AfterAgregarKeeps DEF BlockLabels, LeavesBitmap
<1>8. CASE SinBloqueDePunteros(h)
  <2>1. /\ pc[h] = "punteros" /\ UNCHANGED <<s_tablaDeNodos, diccionarioDeMutex>>
        /\ s_bitmap' = h /\ kept' = kept \cup {<<"bitmap", h>>, <<"tabla", h>>} /\ AfterAgregar(h, FALSE)
    BY <1>8 DEF SinBloqueDePunteros, At
  <2> QED
    BY <2>1, AfterAgregarKeeps DEF BlockLabels, LeavesBitmap
<1> QED
  BY <1>2, <1>3, <1>4, <1>5, <1>6, <1>7, <1>8 DEF blocks

LEMMA WriteKeeps ==
  ASSUME LockInv, NEW h \in Handlers, write(h)
  PROVE  LockInv'
<1>0. /\ Place(h, pc[h], local[h], s_tablaDeNodos, mutexes)
      /\ h # NONE
  BY SacAssumption DEF LockInv, PlacesOK
<1>1. pc[h] \in WriteLabels /\ kept \subseteq kept' /\ UNCHANGED <<s_tablaDeNodos, s_bitmap>>
  BY DEF write, escribir_archivo, PonerMutex, TomarMutex, ArchivoMuyLargo, DiscoLleno, PedirBloque, EscribirTrozo,
         At, WriteLabels, history, locks, KeepMutex
<1>2. DOMAIN local[h] = Fields /\ local[h].op = "write"
  BY <1>0, <1>1 DEF Place, Serves
<1>3. \A l : LeavesTabla(h, l) /\ LeavesBitmap(h)
  BY <1>1, TablaIsKept DEF LeavesTabla, LeavesBitmap, WriteLabels
<1>4. UNCHANGED diccionarioDeMutex => LeavesDictionary
  BY DEF LeavesDictionary, LockInv, LocksTyped
<1>5. \A m \in MutexIds : mutexes[m] \in Holders /\ DOMAIN mutexes = MutexIds
  BY DEF LockInv, LocksTyped
<1>6. CASE escribir_archivo(h)
  <2> DEFINE p == local[h].path
             n == determine_nodo(p)
             known == p \in DOMAIN diccionarioDeMutex
             m == IF known THEN diccionarioDeMutex[p] ELSE <<p, h>>
             l == IF known THEN "tomar" ELSE "poner"
             r == [local[h] EXCEPT !.node = n, !.mutex = m]
  <2>1. pc[h] = "write" /\ UNCHANGED locks /\ kept' = kept /\ Goto(h, l, r)
    BY <1>6 DEF escribir_archivo, At
  <2>2. p \in Paths /\ m \in MutexIds
    BY <1>0, <2>1 DEF Place, Serves, LockInv, LocksTyped, MutexIds
  <2>3. l \in {"tomar", "poner"}
    OBVIOUS
  <2> HIDE DEF n, m, l, known
  <2>4. DOMAIN r = Fields /\ r.op = "write" /\ r.path = p /\ r.mutex = m
    BY <1>2 DEF Fields, Idle
  <2> HIDE DEF r, p
  <2>5. Serves(l, r) /\ l \in LooseLabels /\ pc[h] \in LooseLabels
    BY <2>1, <2>2, <2>3, <2>4 DEF Serves, Labels, CreateLabels, TruncateLabels, WriteLabels, WritingAt, BlockLabels, LooseLabels
  <2> QED
    BY <2>1, <2>5, LooseStep
<1>7. CASE PonerMutex(h)
  <2>1. /\ pc[h] = "poner" /\ Goto(h, "tomar", local[h]) /\ UNCHANGED mutexes
        /\ diccionarioDeMutex' = [p \in DOMAIN diccionarioDeMutex \cup {local[h].path} |->
                                     IF p = local[h].path THEN local[h].mutex ELSE diccionarioDeMutex[p]]
    BY <1>7 DEF PonerMutex, At
  <2>2. ~WritingAt("tomar", local[h]) /\ ~WritingAt(pc[h], local[h])
    BY <2>1 DEF WritingAt, BlockLabels
  <2>3. local[h].mutex \in MutexIds
    BY <1>0, <2>1 DEF Place, Serves
  <2>4. LeavesDictionary
    BY <2>1, <2>3 DEF LeavesDictionary, LockInv, LocksTyped
  <2>5. Serves("tomar", local[h])
    BY <1>2, <2>2, <2>3 DEF Serves, Labels, CreateLabels, TruncateLabels
  <2>6. Moves(h, "tomar", local[h])
    BY <1>1, <2>1, <2>2, <2>5 DEF Moves, Place
  <2> QED
    BY <1>1, <1>3, <2>1, <2>2, <2>4, <2>6, MutexesUnchanged, StepKeepsLockInv
<1>8. ASSUME pc[h] = "tomar", NEW l, NEW r,
             mutexes[local[h].mutex] = NONE, mutexes' = [mutexes EXCEPT ![local[h].mutex] = h],
             Goto(h, l, r), Serves(l, r), l # "punteros", UNCHANGED diccionarioDeMutex,
             (WritingAt(l, r) /\ r.mutex = local[h].mutex) \/ (~WritingAt(l, r) /\ <<"mutex", h>> \in kept')
      PROVE  LockInv'
  <2> DEFINE m == local[h].mutex
  <2>1. m \in MutexIds /\ ~WritingAt(pc[h], local[h])
    BY <1>0, <1>8 DEF Place, Serves, WritingAt, BlockLabels
  <2>2. mutexes' \in [MutexIds -> Holders] /\ mutexes'[m] = h
        /\ \A k \in MutexIds \ {m} : mutexes'[k] = mutexes[k]
    BY <1>5, <1>8, <2>1 DEF Holders, LockInv, LocksTyped
  <2>3. \A k \in MutexIds \ {m} : mutexes[k] = h => <<"mutex", h>> \in kept'
    BY <1>1, <2>1, HeldByWriter
  <2>4. LeavesMutexes(h, l, r)
    BY <1>8, <2>2, <2>3 DEF LeavesMutexes
  <2>5. Moves(h, l, r)
    BY <1>1, <1>8, <2>2 DEF Moves, Place
  <2> QED
    BY <1>3, <1>4, <1>8, <2>4, <2>5, StepKeepsLockInv
<1>9. CASE TomarMutex(h)
  <2> DEFINE s == Size(h)
             r == [local[h] EXCEPT !.fsize = s]
  <2>1. /\ pc[h] = "tomar" /\ mutexes[local[h].mutex] = NONE /\ mutexes' = [mutexes EXCEPT ![local[h].mutex] = h]
        /\ Goto(h, "trozo", r) /\ UNCHANGED diccionarioDeMutex
    BY <1>9 DEF TomarMutex, At
  <2> HIDE DEF s
  <2>2. DOMAIN r = Fields /\ r.op = "write" /\ r.mutex = local[h].mutex
    BY <1>2 DEF Fields, Idle
  <2> HIDE DEF r
  <2>3. local[h].mutex \in MutexIds /\ WritingAt("trozo", r)
    BY <1>0, <2>1 DEF Place, Serves, WritingAt
  <2>4. Serves("trozo", r)
    BY <2>2, <2>3 DEF Serves, Labels, CreateLabels, TruncateLabels
  <2> QED
    BY <1>8, <2>1, <2>2, <2>3, <2>4
<1>10. CASE ArchivoMuyLargo(h)
  <2>1. /\ pc[h] = "tomar" /\ mutexes[local[h].mutex] = NONE /\ mutexes' = [mutexes EXCEPT ![local[h].mutex] = h]
        /\ Goto(h, "idle", Idle) /\ UNCHANGED diccionarioDeMutex /\ <<"mutex", h>> \in kept'
    BY <1>10 DEF ArchivoMuyLargo, At, KeepMutex, Answer
  <2> QED
    BY <1>8, <2>1, IdleServes
<1>11. CASE DiscoLleno(h)
  <2>1. Goto(h, "idle", Idle) /\ UNCHANGED <<mutexes, diccionarioDeMutex>> /\ <<"mutex", h>> \in kept'
    BY <1>11 DEF DiscoLleno, KeepMutex, Answer, locks
  <2>2. Moves(h, "idle", Idle)
    BY <1>1, <2>1, IdleServes DEF Moves, Place
  <2>3. LeavesMutexes(h, "idle", Idle)
    BY <1>5, <2>1 DEF LeavesMutexes, LockInv, LocksTyped
  <2> QED
    BY <1>3, <1>4, <2>1, <2>2, <2>3, StepKeepsLockInv
<1>12. CASE PedirBloque(h)
  <2>1. pc[h] = "trozo" /\ UNCHANGED locks /\ Goto(h, "bloque", local[h])
    BY <1>12 DEF PedirBloque, At
  <2>2. WritingAt("bloque", local[h]) /\ WritingAt(pc[h], local[h])
    BY <1>2, <2>1 DEF WritingAt, BlockLabels
  <2>3. Serves("bloque", local[h])
    BY <1>0, <1>2, <2>2 DEF Place, Serves, Labels, CreateLabels, TruncateLabels, WriteLabels
  <2> QED
    BY <1>1, <2>1, <2>2, <2>3, QuietStep
<1>13. CASE EscribirTrozo(h)
  <2> DEFINE c == Chunk(local[h], Size(h), IF pc[h] = "escribir" THEN BLOQUE_SIZE ELSE SpaceInBlock(local[h].fsize))
             r == [local[h] EXCEPT !.fsize = c.fsize, !.size = c.left, !.off = c.off]
  <2>1. /\ pc[h] \in {"trozo", "escribir"} /\ UNCHANGED <<s_tablaDeNodos, s_bitmap, diccionarioDeMutex>> /\ kept' = kept
        /\ (Answer(h) /\ Unlock(h)) \/ (Goto(h, "trozo", r) /\ UNCHANGED mutexes)
    BY <1>13 DEF EscribirTrozo, At, history
  <2> HIDE DEF c
  <2>2. WritingAt(pc[h], local[h])
    BY <2>1 DEF WritingAt
  <2>3. CASE Answer(h) /\ Unlock(h)
    <3>1. Moves(h, "idle", Idle)
      BY <1>1, <2>3, IdleServes DEF Moves, Answer, Place
    <3>2. LeavesMutexes(h, "idle", Idle)
      BY <1>1, <1>2, <2>2, <2>3, UnlockReleases
    <3> QED
      BY <1>3, <1>4, <2>1, <3>1, <3>2, StepKeepsLockInv
  <2>4. CASE Goto(h, "trozo", r) /\ UNCHANGED mutexes
    <3>1. DOMAIN r = Fields /\ r.op = "write" /\ r.mutex = local[h].mutex
      BY <1>2 DEF Fields, Idle
    <3> HIDE DEF r
    <3>2. WritingAt("trozo", r)
      BY DEF WritingAt
    <3>3. Serves("trozo", r)
      BY <1>0, <2>2, <3>1 DEF Place, Serves, Labels, CreateLabels, TruncateLabels
    <3>4. UNCHANGED locks
      BY <2>1, <2>4 DEF locks
    <3>5. pc[h] # "punteros"
      BY <2>1
    <3> QED
      BY <1>1, <2>2, <2>4, <3>1, <3>2, <3>3, <3>4, <3>5, QuietStep
  <2> QED
    BY <2>1, <2>3, <2>4
<1> QED
  BY <1>6, <1>7, <1>9, <1>10, <1>11, <1>12, <1>13 DEF write

(***************************************************************************)
(* The theorems.                                                           *)
(***************************************************************************)
LEMMA InitHolds == Init => LockInv
<1> SUFFICES ASSUME Init
             PROVE  LockInv
  OBVIOUS
<1>1. LocksTyped
  BY DEF Init, configurar_server, LocksTyped, Holders, MutexIds
<1>2. PlacesOK
  BY IdleServes DEF Init, PlacesOK, Place
<1>3. LocksAccounted
  BY DEF Init, LocksAccounted, MutexIds
<1> QED
  BY <1>1, <1>2, <1>3 DEF LockInv

LEMMA NextKeeps == LockInv /\ [Next]_vars => LockInv'
<1> SUFFICES ASSUME LockInv, [Next]_vars
             PROVE  LockInv'
  OBVIOUS
<1>1. CASE UNCHANGED vars
  BY <1>1 DEF vars, locks, history, LockInv, LocksTyped, PlacesOK, LocksAccounted, Writing
<1>2. ASSUME NEW h \in Handlers, Ask(h) \/ fuse_invoke_function(h)
      PROVE  LockInv'
  <2>1. CASE Ask(h)
    BY <2>1, AskKeeps
  <2>2. CASE GoWild(h)
    BY <2>2 DEF GoWild, locks, history, LockInv, LocksTyped, PlacesOK, LocksAccounted, Writing
  <2>3. CASE create(h)
    BY <2>3, CreateKeeps
  <2>4. CASE blocks(h)
    BY <2>4, BlocksKeeps
  <2>5. CASE delete(h)
    BY <2>5, DeleteKeeps
  <2>6. CASE rename(h)
    BY <2>6, RenameKeeps
  <2>7. CASE truncate(h)
    BY <2>7, TruncateKeeps
  <2>8. CASE write(h)
    BY <2>8, WriteKeeps
  <2> QED
    BY <1>2, <2>1, <2>2, <2>3, <2>4, <2>5, <2>6, <2>7, <2>8 DEF fuse_invoke_function
<1> QED
  BY <1>1, <1>2 DEF Next

\* Every step keeps the inductive invariant, for any number of clients.
THEOREM LockInvariance == Spec => []LockInv
BY InitHolds, NextKeeps, PTL DEF Spec

\* A mutex of the table, the bitmap or a path is held by a handler inside the stretch it
\* covers, or by one that came back from an error of agregar_nodo, crear_nuevo_nodo,
\* get_bloque_vacio or escribir_archivo, which return without the unlock.
THEOREM LocksAccountedHolds == Spec => []LocksAccounted
<1>1. LockInv => LocksAccounted
  BY DEF LockInv
<1> QED
  BY <1>1, LockInvariance, PTL

\* Two handlers never write under one mutex of the dictionary.
THEOREM WritersExclusiveHolds == Spec => []WritersExclusive
<1>1. LockInv => WritersExclusive
  <2> SUFFICES ASSUME LockInv, NEW g \in Handlers, NEW h \in Handlers,
                      g # h, Writing(g), Writing(h)
               PROVE  local[g].mutex # local[h].mutex
    BY DEF WritersExclusive
  <2>1. mutexes[local[g].mutex] = g /\ mutexes[local[h].mutex] = h
    BY WritingIs DEF LockInv, PlacesOK, Place
  <2> QED
    BY <2>1
<1> QED
  BY <1>1, LockInvariance, PTL

\* The three kinds of lock are taken in one order: who holds the mutex of a path may wait
\* for the table and then for the bitmap, and nobody waits the other way round.  So while
\* no error has kept a lock, some handler with a request can take its next step.
THEOREM NoDeadlockHolds == Spec => []NoDeadlock
<1>1. LockInv => NoDeadlock
  <2> SUFFICES ASSUME LockInv, kept = {}, NEW b \in Handlers, Busy(b)
               PROVE  \E h \in Handlers : Busy(h) /\ ~Blocked(h)
    BY DEF NoDeadlock
  <2>1. s_bitmap = NONE
    BY DEF LockInv, LocksAccounted
  <2>2. CASE s_tablaDeNodos # NONE
    <3>1. s_tablaDeNodos \in Handlers /\ pc[s_tablaDeNodos] = "punteros"
      BY <2>2 DEF LockInv, LocksTyped, LocksAccounted, Holders
    <3> QED
      BY <3>1, <2>1 DEF Busy, Blocked
  <2>3. CASE s_tablaDeNodos = NONE /\ Blocked(b)
    <3>1. pc[b] = "tomar" /\ mutexes[local[b].mutex] # NONE
      BY <2>1, <2>3 DEF Blocked
    <3> DEFINE m == local[b].mutex
    <3>2. m \in MutexIds
      BY <3>1 DEF LockInv, PlacesOK, Place, Serves
    <3>3. mutexes[m] \in Handlers
      BY <3>1, <3>2 DEF LockInv, LocksTyped, Holders
    <3>4. Writing(mutexes[m])
      BY <3>1, <3>2 DEF LockInv, LocksAccounted, MutexIds
    <3> QED
      BY <2>1, <2>3, <3>3, <3>4 DEF Writing, Busy, Blocked
  <2>4. CASE s_tablaDeNodos = NONE /\ ~Blocked(b)
    BY <2>4
  <2> QED
    BY <2>2, <2>3, <2>4
<1> QED
  BY <1>1, LockInvariance, PTL
=============================================================================
