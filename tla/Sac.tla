--------------------------------- MODULE Sac ---------------------------------
(***************************************************************************)
(* The server of the SAC file system (filesystem/sac_servidor.c and        *)
(* sac_handlers.c): the table of nodes, the bitmap, the blocks of pointers *)
(* of each file, and the handler threads that work on them, one per FUSE   *)
(* client.                                                                 *)
(*                                                                         *)
(* An action is what a handler does between two points where it waits for  *)
(* a lock; pc[h] names what it does next, local[h] holds its variables.    *)
(* Searches of the table take no lock and are one step each.  The bytes of *)
(* the files are abstracted, their sizes and blocks are not.               *)
(*                                                                         *)
(* The kernel asks for the attributes of a path before it sends another    *)
(* request, so a request is for a path that was there when it was asked.   *)
(***************************************************************************)
EXTENDS Integers, Sequences, FiniteSets, FiniteSetsExt, SequencesExt, Functions

CONSTANTS
  Handlers,                \* one per connected client
  NONE,                    \* a lock that is free, a handler that does nothing
  FilePaths, DirPaths,     \* the paths the clients use: sequences of names
  TruncateSizes,           \* the sizes they truncate to
  Writes,                  \* the <<size, offset>> they write
  Nodes,                   \* 0..MAX_NUMBER_OF_FILES - 1
  Blocks,                  \* the blocks of the bitmap from bloqueInicioBloquesDeDatos on
  BLOQUE_SIZE, PUNTEROS_A_BLOQUES_DATOS, BLKINDIRECT,
  MaxRequests              \* bound: requests asked

ASSUME SacAssumption ==
  /\ NONE \notin Handlers
  /\ \A p \in FilePaths \cup DirPaths : p \in Seq(Range(p)) /\ p # <<>>
  /\ TruncateSizes \subseteq Nat /\ Writes \subseteq (Nat \ {0}) \X Nat
  /\ Nodes \subseteq Nat
  /\ Blocks \subseteq Nat \ {0}
  /\ BLOQUE_SIZE \in Nat \ {0} /\ PUNTEROS_A_BLOQUES_DATOS \in Nat \ {0} /\ BLKINDIRECT \in Nat \ {0}
  /\ BLKINDIRECT * PUNTEROS_A_BLOQUES_DATOS > 1

VARIABLES
  tablaDeNodos,        \* the node of each file and directory
  punteros,            \* for each block, the pointers it holds if it is a block of pointers
  bitmap,              \* the blocks in use
  s_tablaDeNodos,      \* who holds the mutex of the table, or NONE
  s_bitmap,            \* who holds the mutex of the bitmap, or NONE
  diccionarioDeMutex,  \* the mutex of each path written to
  mutexes,             \* who holds each of these, or NONE
  pc, local,           \* where each handler is, and its variables
  wild,                \* a handler left the tables: nothing is known from here on
  kept,                \* history: locks that a return did not release
  raced,               \* history: two requests met on a node, or a path was gone
  hollow,              \* history: a file was made longer than its blocks
  spilled,             \* history: the clearing behind a full array met another node
  requests             \* history: requests asked, for the bound

disk == <<tablaDeNodos, punteros, bitmap>>
locks == <<s_tablaDeNodos, s_bitmap, diccionarioDeMutex, mutexes>>
history == <<kept, raced, hollow, spilled>>
vars == <<disk, locks, pc, local, wild, history, requests>>

-----------------------------------------------------------------------------
(* Nodes and paths.                                                        *)

Paths == FilePaths \cup DirPaths
FirstNodeBlock == 2   \* bloqueInicioTablaDeNodos
EFBIGSize == BLKINDIRECT * PUNTEROS_A_BLOQUES_DATOS * BLOQUE_SIZE

buscar_nodo_por_nombre(name, block) ==
  LET found == {n \in Nodes : tablaDeNodos[n].state # 0 /\ tablaDeNodos[n].parent = block
                                                        /\ tablaDeNodos[n].fname = name}
  IN IF found = {} THEN -1 ELSE Min(found)

\* The node of a path, -1 when it is missing.  Node 0 for the root, and a first name
\* that is missing is searched below block FirstNodeBlock - 1.
determine_nodo(path) ==
  LET below(block, name) ==
        LET n == buscar_nodo_por_nombre(name, block)
        IN IF block = -1 \/ (n = -1 /\ block # 0) THEN -1 ELSE n + FirstNodeBlock
      block == FoldLeft(below, 0, path)
  IN CASE path = <<>> -> 0
       [] block = -1  -> -1
       [] OTHER       -> block - FirstNodeBlock

Named(path) == {n \in Nodes : /\ tablaDeNodos[n].parent = determine_nodo(Front(path)) + FirstNodeBlock
                              /\ tablaDeNodos[n].fname = Last(path)}

\* Mutant: the check is not made.
NeverExists(path) == FALSE

\* A node that was deleted keeps its name and its parent and still counts.
validar_si_ya_existe_otro(path) == Named(path) # {}

validarSiExiste(path) == path = <<>> \/ determine_nodo(path) # -1
IsFile(path) == path # <<>> /\ validarSiExiste(path) /\ tablaDeNodos[determine_nodo(path)].state = 1
IsDir(path) == path = <<>> \/ (validarSiExiste(path) /\ ~IsFile(path))

\* The names a directory lists.
sac_server_readdir(block) == {n \in Nodes : tablaDeNodos[n].state # 0 /\ tablaDeNodos[n].parent = block}

-----------------------------------------------------------------------------
(* The blocks of a file.  0 is the mark of a pointer that is not set.       *)

\* Mutant: the search goes one bit too far.
OneTooMany == (Blocks \cup {1 + Max(Blocks)}) \ bitmap

Free == Blocks \ bitmap
cantidad_bloques_libres == Cardinality(Free)

PointerBlock == PUNTEROS_A_BLOQUES_DATOS * BLOQUE_SIZE  \* bytes behind one block of pointers
PointerPos(offset) == offset \div PointerBlock
DataPos(offset) == (offset % PointerBlock) \div BLOQUE_SIZE
setear_posicion(offset) == <<PointerPos(offset), DataPos(offset)>>
CeilDiv(a, b) == (a + b - 1) \div b

Indirect(n, i) == tablaDeNodos[n].indirect[i]

\* Dereferencing an index past the array or a pointer that is not set.
Unset(n, i) == IF i \in 0..(BLKINDIRECT - 1) THEN Indirect(n, i) = 0 ELSE TRUE

\* The positions borrar_contenido frees: the data in whole blocks of pointers and the
\* rest, by the size of the file.
DataOf(size) == {<<k \div PUNTEROS_A_BLOQUES_DATOS, k % PUNTEROS_A_BLOQUES_DATOS>> : k \in 0..(CeilDiv(size, BLOQUE_SIZE) - 1)}
PointersOf(size) == 0..PointerPos(size)

BlocksFreed(n, size) ==
  {punteros[Indirect(n, x[1])][x[2]] : x \in DataOf(size)}
    \cup {Indirect(n, i) : i \in {j \in PointersOf(size) : j < BLKINDIRECT}}

\* Where the last byte of a file is; before the first block when it is empty.
LastPos(size) ==
  IF size % PointerBlock = 0 THEN <<PointerPos(size) - 1, PUNTEROS_A_BLOQUES_DATOS - 1>>
  ELSE IF size % BLOQUE_SIZE = 0 THEN <<PointerPos(size), DataPos(size) - 1>>
  ELSE setear_posicion(size)

\* The data positions that are freed when a file is cut at upto: those behind upto in
\* the same block of pointers, and all but the first in the last block of a longer file.
DataCut(last, upto) == {<<last[1], j>> : j \in (1 + (IF last[1] = upto[1] THEN upto[2] ELSE 0))..last[2]}
PointersCut(last, upto) == IF last[1] < upto[1] THEN 0..last[1] ELSE (upto[1] + 1)..last[1]

\* The loop runs below the first pointer of a block, or reads a block that is not set.
CutGoesWild(n, last, upto) ==
  /\ last[1] >= 0
  /\ \/ last[1] = upto[1] /\ last[2] < upto[2]
     \/ last[1] > upto[1] /\ upto[2] # 0
     \/ DataCut(last, upto) # {} /\ Unset(n, last[1])
     \/ last # upto /\ last[1] >= BLKINDIRECT

-----------------------------------------------------------------------------
(* Handlers.                                                               *)

Idle == [op |-> NONE, path |-> <<>>, nuevo |-> <<>>, seen |-> -1, node |-> -1, parent |-> -1, blk |-> 0,
         size |-> 0, space |-> 0, fsize |-> 0, off |-> 0, target |-> 0, mutex |-> NONE, walk |-> <<>>]

EmptyNode == [state |-> 0, fname |-> NONE, parent |-> 0, file_size |-> 0,
              indirect |-> [i \in 0..(BLKINDIRECT - 1) |-> 0]]

\* configurar_server maps a disk on which no file was made yet.
configurar_server ==
  /\ tablaDeNodos = [n \in Nodes |-> EmptyNode]
  /\ punteros = [b \in Blocks |-> [j \in 0..(PUNTEROS_A_BLOQUES_DATOS - 1) |-> 0]]
  /\ bitmap = {}
  /\ diccionarioDeMutex = <<>>

Init ==
  /\ configurar_server
  /\ s_tablaDeNodos = NONE /\ s_bitmap = NONE
  /\ mutexes = [m \in Paths \X Handlers |-> NONE]
  /\ pc = [h \in Handlers |-> "idle"]
  /\ local = [h \in Handlers |-> Idle]
  /\ wild = FALSE /\ kept = {} /\ raced = FALSE /\ hollow = FALSE /\ spilled = FALSE
  /\ requests = 0

Goto(h, l, r) == pc' = [pc EXCEPT ![h] = l] /\ local' = [local EXCEPT ![h] = r]
Answer(h) == Goto(h, "idle", Idle)

\* What is left in the last block; a file of no bytes has a block already.
SpaceInBlock(fsize) == IF fsize = 0 THEN BLOQUE_SIZE ELSE (BLOQUE_SIZE - (fsize % BLOQUE_SIZE)) % BLOQUE_SIZE
NeedsBlock(r) == r.off >= r.fsize + SpaceInBlock(r.fsize) /\ r.fsize # 0

\* The block with a byte of the file, -1 when the way to it leaves the tables.
BlockOf(n, offset) ==
  IF Unset(n, PointerPos(offset)) THEN -1 ELSE punteros[Indirect(n, PointerPos(offset))][DataPos(offset)]

FileFull(size) == PointerPos(size) = BLKINDIRECT - 1 /\ DataPos(size) = PUNTEROS_A_BLOQUES_DATOS - 1

\* The handler is about to leave the tables.
Wild(h) ==
  LET r == local[h]
      fs == tablaDeNodos[r.node].file_size
  IN CASE pc[h] \in {"renombrar", "tomar"} -> r.node = -1
       [] pc[h] = "acortar"  -> CutGoesWild(r.node, LastPos(fs), setear_posicion(r.target))
       [] pc[h] = "borrar"   -> \E x \in DataOf(r.size) : Unset(r.node, x[1])
       [] pc[h] = "agregar"  -> /\ ~FileFull(fs)
                                /\ PointerPos(fs) >= BLKINDIRECT \/ (DataPos(fs) # 0 /\ Unset(r.node, PointerPos(fs)))
       [] pc[h] = "trozo"    -> ~NeedsBlock(r) /\ BlockOf(r.node, r.off) \notin Blocks
       [] OTHER -> FALSE

At(h, l) == ~wild /\ pc[h] = l /\ ~Wild(h)

GoWild(h) ==
  /\ ~wild /\ Wild(h)
  /\ wild' = TRUE
  /\ UNCHANGED <<disk, locks, pc, local, history, requests>>

\* The node is not the one the kernel saw, or another request is at work on it.  Two
\* writers are kept apart by the mutex of the path, when it is the same one.
Shares(h, n) ==
  n = -1 \/ \E g \in Handlers \ {h} :
              /\ pc[g] # "idle" /\ local[g].node = n
              /\ ~(local[h].op = "write" /\ local[g].op = "write"
                     /\ local[h].path \in DOMAIN diccionarioDeMutex
                     /\ local[g].mutex = diccionarioDeMutex[local[h].path])
Beside(h, ops) == \E g \in Handlers \ {h} : local[g].op \in ops

\* The kernel saw a file at the path, or a directory at it or above it;
\* for a rename a directory above the new one.
Still(r) == CASE r.op \in {"mknod", "mkdir"} -> IsDir(Front(r.path))
              [] r.op = "rmdir" -> IsDir(r.path)
              [] r.op = "rename" -> IsDir(Front(r.nuevo))
              [] OTHER -> IsFile(r.path)
Moved(h, n) == n # local[h].seen \/ ~Still(local[h])
Meets(h, n) == raced' = (raced \/ Shares(h, n) \/ Moved(h, n))

\* The kernel asked for the attributes of the path, or of its directory, before.
Asked(op, path, nuevo, size, off, target) ==
  [Idle EXCEPT !.op = op, !.path = path, !.nuevo = nuevo, !.size = size, !.off = off, !.target = target,
               !.seen = determine_nodo(IF op \in {"mknod", "mkdir"} THEN Front(path) ELSE path)]

Ask(h) ==
  /\ ~wild /\ pc[h] = "idle" /\ requests < MaxRequests
  /\ requests' = requests + 1
  /\ \E p \in Paths :
     \/ /\ ~validarSiExiste(p) /\ IsDir(Front(p))
        /\ \/ p \in FilePaths /\ Goto(h, "crear", Asked("mknod", p, <<>>, 0, 0, 0))
           \/ p \in DirPaths /\ Goto(h, "crear", Asked("mkdir", p, <<>>, 0, 0, 0))
     \/ IsFile(p) /\ Goto(h, "unlink", Asked("unlink", p, <<>>, 0, 0, 0))
     \/ IsDir(p) /\ Goto(h, "rmdir", Asked("rmdir", p, <<>>, 0, 0, 0))
     \/ \E q \in Paths \ {p} :
          /\ validarSiExiste(p) /\ IsDir(Front(q)) /\ ~IsPrefix(p, q)
          /\ validarSiExiste(q) => IsFile(p) /\ IsFile(q)
          /\ Goto(h, "rename", Asked("rename", p, q, 0, 0, 0))
     \/ \E size \in TruncateSizes : IsFile(p) /\ Goto(h, "truncar", Asked("truncate", p, <<>>, 0, 0, size))
     \/ \E w \in Writes : IsFile(p) /\ Goto(h, "write", Asked("write", p, <<>>, w[1], w[2], 0))
  /\ UNCHANGED <<disk, locks, wild, history>>

-----------------------------------------------------------------------------
(* mknod and mkdir.                                                        *)

Vacant == {n \in Nodes : tablaDeNodos[n].state = 0}

KeepTabla(h) == s_tablaDeNodos' = h /\ kept' = kept \cup {<<"tabla", h>>}

\* The table is full: the return leaves its mutex locked.
TablaLlena(h) ==
  /\ At(h, "crear") /\ s_tablaDeNodos = NONE
  /\ Vacant = {}
  /\ KeepTabla(h) /\ Answer(h)
  /\ UNCHANGED <<disk, s_bitmap, diccionarioDeMutex, mutexes, wild, raced, hollow, spilled, requests>>

\* So does the return for a name that is taken.
YaExiste(h) ==
  /\ At(h, "crear") /\ s_tablaDeNodos = NONE
  /\ Vacant # {} /\ validar_si_ya_existe_otro(local[h].path)
  /\ KeepTabla(h) /\ Answer(h)
  /\ UNCHANGED <<disk, s_bitmap, diccionarioDeMutex, mutexes, wild, raced, hollow, spilled, requests>>

\* The first deleted node is used; its array of blocks is left as it was.
crear_nuevo_nodo(h) ==
  LET p == local[h].path
      parent == determine_nodo(Front(p))
      n == Min(Vacant)
  IN /\ At(h, "crear") /\ s_tablaDeNodos = NONE
     /\ Vacant # {} /\ ~validar_si_ya_existe_otro(p)
     /\ tablaDeNodos' = [tablaDeNodos EXCEPT ![n] =
          [@ EXCEPT !.state = IF local[h].op = "mknod" THEN 1 ELSE 2, !.fname = Last(p), !.file_size = 0,
                    !.parent = IF Len(p) > 1 THEN parent + FirstNodeBlock ELSE 0]]
     /\ IF local[h].op = "mknod" THEN Goto(h, "bloque", [local[h] EXCEPT !.node = n]) ELSE Answer(h)
     /\ raced' = (raced \/ Shares(h, n) \/ Moved(h, parent) \/ Beside(h, {"rename"}))
     /\ UNCHANGED <<punteros, bitmap, locks, wild, kept, hollow, spilled, requests>>

-----------------------------------------------------------------------------
(* Blocks for mknod, truncate and write.                                   *)

\* Mutant: the mutex of the path is not released.
ForgetsUnlock(h) == UNCHANGED mutexes

\* The mutex of the path is released when a write ends.
Unlock(h) == mutexes' = IF local[h].op = "write" THEN [mutexes EXCEPT ![local[h].mutex] = NONE] ELSE mutexes

\* Where a handler goes on once agregar_nodo returned; only a write looks at the result.
AfterAgregar(h, ok) ==
  CASE local[h].op = "write" /\ ok  -> Goto(h, "escribir", local[h]) /\ UNCHANGED mutexes
    [] local[h].op = "truncate"     -> Goto(h, "crecer", local[h]) /\ UNCHANGED mutexes
    [] OTHER                        -> Answer(h) /\ Unlock(h)

\* Mutant: the block is not marked.
TakesUnmarked(h) ==
  /\ At(h, "bloque") /\ s_bitmap = NONE
  /\ Free # {}
  /\ Goto(h, "agregar", [local[h] EXCEPT !.blk = Min(Free)])
  /\ UNCHANGED <<disk, locks, wild, history, requests>>

get_bloque_vacio(h) ==
  /\ At(h, "bloque") /\ s_bitmap = NONE
  /\ Free # {}
  /\ bitmap' = bitmap \cup {Min(Free)}
  /\ Goto(h, "agregar", [local[h] EXCEPT !.blk = Min(Free)])
  /\ UNCHANGED <<tablaDeNodos, punteros, locks, wild, history, requests>>

\* With no block left the return keeps the mutex of the bitmap; only a write stops there.
SinBloques(h) ==
  /\ At(h, "bloque") /\ s_bitmap = NONE
  /\ Free = {}
  /\ s_bitmap' = h /\ kept' = kept \cup {<<"bitmap", h>>}
  /\ IF local[h].op = "write" THEN Answer(h) /\ Unlock(h)
     ELSE Goto(h, "agregar", [local[h] EXCEPT !.blk = -1]) /\ UNCHANGED mutexes
  /\ hollow' = (hollow \/ local[h].op # "write")
  /\ UNCHANGED <<disk, s_tablaDeNodos, diccionarioDeMutex, wild, raced, spilled, requests>>

Size(h) == tablaDeNodos[local[h].node].file_size

\* The file has as many blocks as it can: returned with the mutex of the table.
ArchivoLleno(h) ==
  /\ At(h, "agregar") /\ s_tablaDeNodos = NONE
  /\ FileFull(Size(h))
  /\ KeepTabla(h) /\ AfterAgregar(h, FALSE)
  /\ UNCHANGED <<disk, s_bitmap, diccionarioDeMutex, wild, raced, hollow, spilled, requests>>

\* The block goes behind the last one, in a block of pointers that is there.
agregar_nodo(h) ==
  LET size == Size(h) IN
  /\ At(h, "agregar") /\ s_tablaDeNodos = NONE
  /\ ~FileFull(size) /\ DataPos(size) # 0
  /\ punteros' = [punteros EXCEPT ![Indirect(local[h].node, PointerPos(size))][DataPos(size)] = local[h].blk]
  /\ AfterAgregar(h, TRUE)
  /\ UNCHANGED <<tablaDeNodos, bitmap, s_tablaDeNodos, s_bitmap, diccionarioDeMutex, wild, history, requests>>

\* The block is the first of a new block of pointers: that one is needed before.
AgregarPunteros(h) ==
  /\ At(h, "agregar") /\ s_tablaDeNodos = NONE
  /\ ~FileFull(Size(h)) /\ DataPos(Size(h)) = 0
  /\ s_tablaDeNodos' = h
  /\ Goto(h, "punteros", local[h])
  /\ UNCHANGED <<disk, s_bitmap, diccionarioDeMutex, mutexes, wild, history, requests>>

\* Mutant: the new pointer is cleared, not the one after it.
ClearsNew(n, i, b) ==
  [tablaDeNodos EXCEPT ![n].indirect = [k \in DOMAIN @ |-> IF k = i THEN 0 ELSE @[k]]]

\* Behind pointer i of node n is the next node.
LastPointer(n, i) == i = BLKINDIRECT - 1 /\ n + 1 \in Nodes

\* The pointer after the new one is cleared; behind the end of the array that is the
\* state and the name of the next node.
Linked(n, i, b) ==
  LET linked == [tablaDeNodos EXCEPT ![n].indirect =
                  [k \in DOMAIN @ |-> IF k = i THEN b ELSE IF k = i + 1 THEN 0 ELSE @[k]]]
  IN IF LastPointer(n, i)
     THEN [linked EXCEPT ![n + 1].state = 0, ![n + 1].fname = NONE] ELSE linked

\* Mutant: the new block of pointers is not marked as used.
LeavesUnmarked(h) ==
  /\ At(h, "punteros") /\ s_bitmap = NONE
  /\ Free # {}
  /\ punteros' = [punteros EXCEPT ![Min(Free)] = [j \in DOMAIN @ |-> IF j = 0 THEN local[h].blk ELSE 0]]
  /\ tablaDeNodos' = Linked(local[h].node, PointerPos(Size(h)), Min(Free))
  /\ s_tablaDeNodos' = NONE
  /\ AfterAgregar(h, TRUE)
  /\ spilled' = (spilled \/ LastPointer(local[h].node, PointerPos(Size(h))))
  /\ UNCHANGED <<bitmap, s_bitmap, diccionarioDeMutex, wild, kept, raced, hollow, requests>>

\* Mutant: the mutex of the table is not released.
ReturnsLocked(h) ==
  /\ At(h, "punteros") /\ s_bitmap = NONE
  /\ Free # {}
  /\ bitmap' = bitmap \cup {Min(Free)}
  /\ punteros' = [punteros EXCEPT ![Min(Free)] = [j \in DOMAIN @ |-> IF j = 0 THEN local[h].blk ELSE 0]]
  /\ tablaDeNodos' = Linked(local[h].node, PointerPos(Size(h)), Min(Free))
  /\ AfterAgregar(h, TRUE)
  /\ spilled' = (spilled \/ LastPointer(local[h].node, PointerPos(Size(h))))
  /\ UNCHANGED <<s_tablaDeNodos, s_bitmap, diccionarioDeMutex, wild, kept, raced, hollow, requests>>

\* The block of pointers is taken and the block is its first.
BloqueDePunteros(h) ==
  /\ At(h, "punteros") /\ s_bitmap = NONE
  /\ Free # {}
  /\ bitmap' = bitmap \cup {Min(Free)}
  /\ punteros' = [punteros EXCEPT ![Min(Free)] = [j \in DOMAIN @ |-> IF j = 0 THEN local[h].blk ELSE 0]]
  /\ tablaDeNodos' = Linked(local[h].node, PointerPos(Size(h)), Min(Free))
  /\ s_tablaDeNodos' = NONE
  /\ AfterAgregar(h, TRUE)
  /\ spilled' = (spilled \/ LastPointer(local[h].node, PointerPos(Size(h))))
  /\ UNCHANGED <<s_bitmap, diccionarioDeMutex, wild, kept, raced, hollow, requests>>

\* Both mutexes are kept when the disk is full here.
SinBloqueDePunteros(h) ==
  /\ At(h, "punteros") /\ s_bitmap = NONE
  /\ Free = {}
  /\ s_bitmap' = h /\ kept' = kept \cup {<<"bitmap", h>>, <<"tabla", h>>}
  /\ AfterAgregar(h, FALSE)
  /\ hollow' = (hollow \/ local[h].op # "write")
  /\ UNCHANGED <<disk, s_tablaDeNodos, diccionarioDeMutex, wild, raced, spilled, requests>>

-----------------------------------------------------------------------------
(* unlink and rmdir.                                                       *)

Deleted(n) == [tablaDeNodos EXCEPT ![n].state = 0, ![n].file_size = 0]

\* Where a handler goes on when a node is deleted: up the directories it is deleting.
Continue(h, w) ==
  IF w = <<>> THEN Answer(h) ELSE Goto(h, "recorrer", [local[h] EXCEPT !.node = -1, !.walk = w])

\* A directory is marked as deleted; the blocks of a file are freed before.
Borrar(h, n, w) ==
  IF n = -1 THEN Continue(h, w) /\ UNCHANGED tablaDeNodos
  ELSE IF tablaDeNodos[n].state = 2 THEN Continue(h, w) /\ tablaDeNodos' = Deleted(n)
  ELSE /\ Goto(h, IF tablaDeNodos[n].file_size # 0 THEN "borrar" ELSE "marcar",
                [local[h] EXCEPT !.node = n, !.size = tablaDeNodos[n].file_size, !.walk = w])
       /\ UNCHANGED tablaDeNodos

sac_server_unlink(h) ==
  LET n == determine_nodo(local[h].path) IN
  /\ At(h, "unlink")
  /\ Borrar(h, n, <<>>) /\ Meets(h, n)
  /\ UNCHANGED <<punteros, bitmap, locks, wild, kept, hollow, spilled, requests>>

sac_server_rmdir(h) ==
  LET n == determine_nodo(local[h].path) IN
  /\ At(h, "rmdir")
  /\ Borrar(h, n, <<[dir |-> n + FirstNodeBlock, next |-> 0]>>)
  /\ raced' = (raced \/ Shares(h, n) \/ Moved(h, n) \/ Beside(h, {"rename"}))
  /\ UNCHANGED <<punteros, bitmap, locks, wild, kept, hollow, spilled, requests>>

borrar_contenido(h) ==
  /\ At(h, "borrar") /\ s_bitmap = NONE
  /\ bitmap' = bitmap \ BlocksFreed(local[h].node, local[h].size)
  /\ Goto(h, "marcar", local[h])
  /\ UNCHANGED <<tablaDeNodos, punteros, locks, wild, history, requests>>

borrar_archivo(h) ==
  /\ At(h, "marcar")
  /\ tablaDeNodos' = Deleted(local[h].node)
  /\ Continue(h, local[h].walk)
  /\ UNCHANGED <<punteros, bitmap, locks, wild, history, requests>>

\* Mutant: the first node is skipped.
InsideAfter(top) == {n \in sac_server_readdir(top.dir) : n > top.next}

Inside(top) == {n \in sac_server_readdir(top.dir) : n >= top.next}

\* The next node of the directory on top, or back to the one above.
borrar_directorio(h) ==
  LET w == local[h].walk
      top == Last(w)
      inside == Inside(top)
      n == Min(inside)
      below == Append(Front(w), [top EXCEPT !.next = n + 1])
  IN /\ At(h, "recorrer")
     /\ IF inside = {} THEN Continue(h, Front(w)) /\ UNCHANGED <<tablaDeNodos, raced>>
        ELSE /\ Borrar(h, n, IF tablaDeNodos[n].state = 1 THEN below
                             ELSE Append(below, [dir |-> n + FirstNodeBlock, next |-> 0]))
             /\ raced' = (raced \/ Shares(h, n))
     /\ UNCHANGED <<punteros, bitmap, locks, wild, kept, hollow, spilled, requests>>

-----------------------------------------------------------------------------
(* rename.                                                                 *)

\* The old path, the new name and the new parent are looked up without the mutex.
sac_server_rename(h) ==
  LET r == local[h]
      n == determine_nodo(r.path)
      parent == determine_nodo(Front(r.nuevo))
  IN /\ At(h, "rename")
     /\ IF validar_si_ya_existe_otro(r.nuevo) \/ parent = -1 THEN Answer(h)
        ELSE Goto(h, "renombrar", [r EXCEPT !.node = n, !.parent = parent])
     /\ raced' = (raced \/ Shares(h, n) \/ Moved(h, n) \/ Beside(h, {"mknod", "mkdir", "rename", "rmdir"}))
     /\ UNCHANGED <<disk, locks, wild, kept, hollow, spilled, requests>>

\* A parent in node 0 is taken for the root.
renombrar_archivo(h) ==
  LET r == local[h] IN
  /\ At(h, "renombrar") /\ s_tablaDeNodos = NONE
  /\ tablaDeNodos' = [tablaDeNodos EXCEPT ![r.node].fname = Last(r.nuevo),
                        ![r.node].parent = IF r.parent = 0 THEN 0 ELSE r.parent + FirstNodeBlock]
  /\ Answer(h)
  /\ UNCHANGED <<punteros, bitmap, locks, wild, history, requests>>

-----------------------------------------------------------------------------
(* truncate.                                                               *)

SpaceForGrowth(size) == BLOQUE_SIZE - (size % BLOQUE_SIZE)

sac_server_truncate(h) ==
  LET n == determine_nodo(local[h].path)
      r == [local[h] EXCEPT !.node = n]
      grows == local[h].target > tablaDeNodos[n].file_size
  IN /\ At(h, "truncar")
     /\ IF n = -1 THEN Answer(h)
        ELSE IF grows THEN Goto(h, "espacio", [r EXCEPT !.size = r.target - tablaDeNodos[n].file_size])
        ELSE Goto(h, "acortar", r)
     /\ Meets(h, n)
     /\ UNCHANGED <<disk, locks, wild, kept, hollow, spilled, requests>>

\* The blocks behind the new size are freed one by one, each under the two mutexes.
delete_nodes_upto(h) ==
  LET r == local[h]
      last == LastPos(Size(h))
      upto == setear_posicion(r.target)
      data == IF last[1] < 0 THEN {} ELSE DataCut(last, upto)
      pointers == PointersCut(last, upto)
      b == Indirect(r.node, last[1])
  IN /\ At(h, "acortar") /\ s_tablaDeNodos = NONE /\ s_bitmap = NONE
     /\ bitmap' = bitmap \ ({punteros[b][x[2]] : x \in data} \cup {Indirect(r.node, i) : i \in pointers})
     /\ punteros' = IF data = {} THEN punteros
                    ELSE [punteros EXCEPT ![b] = [j \in DOMAIN @ |-> IF <<last[1], j>> \in data THEN 0 ELSE @[j]]]
     /\ tablaDeNodos' = [tablaDeNodos EXCEPT ![r.node].indirect =
                          [i \in DOMAIN @ |-> IF i \in pointers THEN 0 ELSE @[i]]]
     /\ hollow' = (hollow \/ (last[1] >= 0 /\ last[1] < upto[1]))
     /\ Goto(h, "tamano", r)
     /\ UNCHANGED <<locks, wild, kept, raced, spilled, requests>>

\* The difference is unsigned: growing by less than the space left is refused.
EspacioInsuficiente(h) ==
  \/ local[h].size < SpaceForGrowth(Size(h))
  \/ cantidad_bloques_libres * BLOQUE_SIZE < local[h].size - SpaceForGrowth(Size(h))

\* The new size needs blocks that the growth does not add: it was refused, or it
\* starts behind a full block, whose space is counted once more.
Hollows(h) ==
  \/ EspacioInsuficiente(h)
       /\ CeilDiv(local[h].target, BLOQUE_SIZE) > Max({1, CeilDiv(Size(h), BLOQUE_SIZE)})
  \/ ~EspacioInsuficiente(h) /\ Size(h) # 0 /\ Size(h) % BLOQUE_SIZE = 0

\* The free blocks are counted now and taken later.
get_new_space(h) ==
  LET r == local[h]
      space == SpaceForGrowth(Size(h))
  IN /\ At(h, "espacio") /\ s_bitmap = NONE
     /\ Goto(h, IF EspacioInsuficiente(h) \/ space >= r.size THEN "tamano" ELSE "sumar", [r EXCEPT !.space = space])
     /\ hollow' = (hollow \/ Hollows(h))
     /\ UNCHANGED <<disk, locks, wild, kept, raced, spilled, requests>>

Grow(h, n) == tablaDeNodos' = [tablaDeNodos EXCEPT ![local[h].node].file_size = @ + n]

SumarEspacio(h) ==
  /\ At(h, "sumar") /\ s_tablaDeNodos = NONE
  /\ Grow(h, local[h].space)
  /\ Goto(h, "bloque", local[h])
  /\ UNCHANGED <<punteros, bitmap, locks, wild, history, requests>>

\* Another block while the rest is at least the space that was left, or below 0.
SumarBloque(h) ==
  LET left == local[h].size - BLOQUE_SIZE
      more == left >= local[h].space \/ left < 0
  IN /\ At(h, "crecer") /\ s_tablaDeNodos = NONE
     /\ Grow(h, BLOQUE_SIZE)
     /\ Goto(h, IF more THEN "bloque" ELSE "tamano", [local[h] EXCEPT !.size = left])
     /\ UNCHANGED <<punteros, bitmap, locks, wild, history, requests>>

\* The size is the one asked for, whatever get_new_space returned.
truncar_archivo(h) ==
  /\ At(h, "tamano") /\ s_tablaDeNodos = NONE
  /\ tablaDeNodos' = [tablaDeNodos EXCEPT ![local[h].node].file_size = local[h].target]
  /\ Answer(h)
  /\ UNCHANGED <<punteros, bitmap, locks, wild, history, requests>>

-----------------------------------------------------------------------------
(* write and read.                                                         *)

\* The mutex of the path, or one of its own if the dictionary has none.
escribir_archivo(h) ==
  LET p == local[h].path
      n == determine_nodo(p)
  IN /\ At(h, "write")
     /\ IF p \in DOMAIN diccionarioDeMutex
        THEN Goto(h, "tomar", [local[h] EXCEPT !.node = n, !.mutex = diccionarioDeMutex[p]])
        ELSE Goto(h, "poner", [local[h] EXCEPT !.node = n, !.mutex = <<p, h>>])
     /\ Meets(h, n)
     /\ UNCHANGED <<disk, locks, wild, kept, hollow, spilled, requests>>

PonerMutex(h) ==
  /\ At(h, "poner")
  /\ diccionarioDeMutex' = [p \in DOMAIN diccionarioDeMutex \cup {local[h].path} |->
                               IF p = local[h].path THEN local[h].mutex ELSE diccionarioDeMutex[p]]
  /\ Goto(h, "tomar", local[h])
  /\ UNCHANGED <<disk, s_tablaDeNodos, s_bitmap, mutexes, wild, history, requests>>

TooLong(h) == Size(h) + local[h].size >= EFBIGSize

\* Mutant: the mutex of the path is not waited for.
TakesAnyway(h) ==
  /\ At(h, "tomar")
  /\ ~TooLong(h)
  /\ mutexes' = [mutexes EXCEPT ![local[h].mutex] = h]
  /\ Goto(h, "trozo", [local[h] EXCEPT !.fsize = Size(h)])
  /\ UNCHANGED <<disk, s_tablaDeNodos, s_bitmap, diccionarioDeMutex, wild, history, requests>>

TomarMutex(h) ==
  /\ At(h, "tomar") /\ mutexes[local[h].mutex] = NONE
  /\ ~TooLong(h)
  /\ mutexes' = [mutexes EXCEPT ![local[h].mutex] = h]
  /\ Goto(h, "trozo", [local[h] EXCEPT !.fsize = Size(h)])
  /\ UNCHANGED <<disk, s_tablaDeNodos, s_bitmap, diccionarioDeMutex, wild, history, requests>>

KeepMutex(h) == kept' = kept \cup {<<"mutex", h>>}

\* The returns for a file too long and for a full disk leave it locked.
ArchivoMuyLargo(h) ==
  /\ At(h, "tomar") /\ mutexes[local[h].mutex] = NONE
  /\ TooLong(h)
  /\ mutexes' = [mutexes EXCEPT ![local[h].mutex] = h]
  /\ KeepMutex(h) /\ Answer(h)
  /\ UNCHANGED <<disk, s_tablaDeNodos, s_bitmap, diccionarioDeMutex, wild, raced, hollow, spilled, requests>>

DiscoLleno(h) ==
  /\ At(h, "trozo") /\ NeedsBlock(local[h]) /\ s_bitmap = NONE
  /\ cantidad_bloques_libres = 0
  /\ KeepMutex(h) /\ Answer(h)
  /\ UNCHANGED <<disk, locks, wild, raced, hollow, spilled, requests>>

\* A write that leaves out the rest of the last block puts the new one in its place.
PedirBloque(h) ==
  /\ At(h, "trozo") /\ NeedsBlock(local[h]) /\ s_bitmap = NONE
  /\ cantidad_bloques_libres # 0
  /\ Goto(h, "bloque", local[h])
  /\ hollow' = (hollow \/ SpaceInBlock(local[h].fsize) # 0)
  /\ UNCHANGED <<disk, locks, wild, kept, raced, spilled, requests>>

\* The sizes after one block: of the file, of its copy in the handler, of the rest to
\* write and its offset. With no space left nothing is written.
Chunk(r, size, space) ==
  CASE r.size >= BLOQUE_SIZE ->
         LET longer == IF size <= r.off THEN size + BLOQUE_SIZE ELSE size IN
         [size |-> longer, fsize |-> IF size <= r.off THEN longer ELSE r.fsize,
          left |-> r.size - BLOQUE_SIZE, off |-> r.off + BLOQUE_SIZE]
    [] r.size < BLOQUE_SIZE /\ r.size <= space ->
         LET longer == IF size <= r.off THEN size + r.size ELSE Max({size, r.off + r.size}) IN
         [size |-> longer, fsize |-> longer, left |-> 0, off |-> r.off]
    [] OTHER -> [size |-> size + space, fsize |-> size + space, left |-> r.size - space, off |-> r.off + space]

\* A whole block is written behind the end of a file whose last block is not full: the
\* file is a block longer and has none more.
Overhangs(r, size) == r.size >= BLOQUE_SIZE /\ 0 < size /\ size <= r.off

EscribirTrozo(h) ==
  LET r == local[h]
      fresh == pc[h] = "escribir"
      c == Chunk(r, Size(h), IF fresh THEN BLOQUE_SIZE ELSE SpaceInBlock(r.fsize))
  IN /\ At(h, "escribir") \/ (At(h, "trozo") /\ ~NeedsBlock(r))
     /\ tablaDeNodos' = [tablaDeNodos EXCEPT ![r.node].file_size = c.size]
     /\ IF c.left = 0 THEN Answer(h) /\ Unlock(h)
        ELSE /\ Goto(h, "trozo", [r EXCEPT !.fsize = c.fsize, !.size = c.left, !.off = c.off])
             /\ UNCHANGED mutexes
     /\ hollow' = (hollow \/ (~fresh /\ Overhangs(r, Size(h))))
     /\ UNCHANGED <<punteros, bitmap, s_tablaDeNodos, s_bitmap, diccionarioDeMutex, wild, kept, raced, spilled, requests>>

\* The blocks a read of the whole file goes through, from its first byte.
leer_archivo(n) == {BlockOf(n, k * BLOQUE_SIZE) : k \in 0..(CeilDiv(tablaDeNodos[n].file_size, BLOQUE_SIZE) - 1)}

-----------------------------------------------------------------------------
create(h) == TablaLlena(h) \/ YaExiste(h) \/ crear_nuevo_nodo(h)
blocks(h) == \/ get_bloque_vacio(h) \/ SinBloques(h)
             \/ agregar_nodo(h) \/ ArchivoLleno(h) \/ AgregarPunteros(h)
             \/ BloqueDePunteros(h) \/ SinBloqueDePunteros(h)
delete(h) == \/ sac_server_unlink(h) \/ sac_server_rmdir(h)
             \/ borrar_contenido(h) \/ borrar_archivo(h) \/ borrar_directorio(h)
rename(h) == sac_server_rename(h) \/ renombrar_archivo(h)
truncate(h) == \/ sac_server_truncate(h) \/ delete_nodes_upto(h) \/ get_new_space(h)
               \/ SumarEspacio(h) \/ SumarBloque(h) \/ truncar_archivo(h)
write(h) == \/ escribir_archivo(h) \/ PonerMutex(h) \/ TomarMutex(h) \/ ArchivoMuyLargo(h)
            \/ DiscoLleno(h) \/ PedirBloque(h) \/ EscribirTrozo(h)

fuse_invoke_function(h) ==
  GoWild(h) \/ create(h) \/ blocks(h) \/ delete(h) \/ rename(h) \/ truncate(h) \/ write(h)

Next == \E h \in Handlers : Ask(h) \/ fuse_invoke_function(h)

Fairness == \A h \in Handlers : WF_vars(fuse_invoke_function(h))

Spec == Init /\ [][Next]_vars /\ Fairness

-----------------------------------------------------------------------------
(* Properties.                                                             *)

NodeType == [state : 0..2, fname : (UNION {Range(p) : p \in Paths}) \cup {NONE}, parent : Int,
             file_size : Int, indirect : [0..(BLKINDIRECT - 1) -> Blocks \cup {0}]]
Labels == {"idle", "crear", "bloque", "agregar", "punteros", "unlink", "rmdir", "borrar", "marcar", "recorrer",
           "rename", "renombrar", "truncar", "acortar", "espacio", "sumar", "crecer", "tamano",
           "write", "poner", "tomar", "trozo", "escribir"}

TypeOK ==
  /\ tablaDeNodos \in [Nodes -> NodeType]
  /\ punteros \in [Blocks -> [0..(PUNTEROS_A_BLOQUES_DATOS - 1) -> Blocks \cup {-1, 0}]]
  /\ bitmap \subseteq Blocks
  /\ s_tablaDeNodos \in Handlers \cup {NONE} /\ s_bitmap \in Handlers \cup {NONE}
  /\ mutexes \in [Paths \X Handlers -> Handlers \cup {NONE}]
  /\ pc \in [Handlers -> Labels]
  /\ \A h \in Handlers : local[h].node \in Nodes \cup {-1}

\* The stretch of a write that the mutex of its path covers.
Writing(h) == pc[h] \in {"trozo", "escribir"} \/ (pc[h] \in {"bloque", "agregar", "punteros"} /\ local[h].op = "write")

\* Two writers never hold one mutex at the same time.
WritersExclusive ==
  \A g, h \in Handlers : g # h /\ Writing(g) /\ Writing(h) => local[g].mutex # local[h].mutex

\* A lock is held by a handler between its lock and its unlock, or by one that came
\* back from an error without the unlock.
LocksAccounted ==
  /\ s_tablaDeNodos # NONE => pc[s_tablaDeNodos] = "punteros" \/ <<"tabla", s_tablaDeNodos>> \in kept
  /\ s_bitmap # NONE => <<"bitmap", s_bitmap>> \in kept
  /\ \A m \in Paths \X Handlers : mutexes[m] # NONE =>
       \/ Writing(mutexes[m]) /\ local[mutexes[m]].mutex = m
       \/ <<"mutex", mutexes[m]>> \in kept

Busy(h) == pc[h] # "idle"
Blocked(h) ==
  \/ s_tablaDeNodos # NONE /\ pc[h] \in {"crear", "agregar", "renombrar", "acortar", "sumar", "crecer", "tamano"}
  \/ s_bitmap # NONE /\ pc[h] \in {"bloque", "punteros", "borrar", "acortar", "espacio"}
  \/ s_bitmap # NONE /\ pc[h] = "trozo" /\ NeedsBlock(local[h])
  \/ pc[h] = "tomar" /\ mutexes[local[h].mutex] # NONE

\* Locks are taken in an order that never has every handler wait for another: until a
\* return keeps a lock, some handler that has a request can go on.
NoDeadlock ==
  kept = {} /\ (\E h \in Handlers : Busy(h)) => \E h \in Handlers : Busy(h) /\ ~Blocked(h)

Files == {n \in Nodes : tablaDeNodos[n].state = 1}

\* A file that mknod has not given its block yet, or whose blocks unlink has freed.
Unfinished(n) == \E h \in Handlers : local[h].node = n /\ (local[h].op = "mknod" \/ pc[h] = "marcar")

\* The blocks of pointers and of data that the size of a file covers, by position.
Positions(n) ==
  LET size == Max({1, tablaDeNodos[n].file_size}) IN
  {<<"pointers", i, 0>> : i \in 0..Min({BLKINDIRECT - 1, PointerPos(size - 1)})}
    \cup {<<"data", x[1], x[2]>> : x \in DataOf(size)}
BlockAt(n, x) == IF x[1] = "pointers" THEN Indirect(n, x[2])
                 ELSE BlockOf(n, x[2] * PointerBlock + x[3] * BLOQUE_SIZE)
Uses(n) == {BlockAt(n, x) : x \in Positions(n)} \ {-1, 0}
Owned == [n \in {m \in Files : ~Unfinished(m)} |-> Uses(n)]
Trusted == ~raced /\ ~hollow /\ ~wild

\* While no two requests met on a file and none was made longer than its blocks, no
\* block is in two files, or twice in one.
BlocksOwnedOnce ==
  Trusted => /\ \A n, m \in DOMAIN Owned : n # m => Owned[n] \cap Owned[m] = {}
             /\ \A n \in DOMAIN Owned : \A x, y \in Positions(n) :
                  x # y /\ BlockAt(n, x) \in Blocks => BlockAt(n, x) # BlockAt(n, y)

\* Then no block of a file can be given to another one.
BlocksMarked == Trusted => \A n \in DOMAIN Owned : Owned[n] \subseteq bitmap

\* Then a read of a file, at any moment but while a truncate works on it, goes through
\* blocks that are set and in use, for every byte of the size that the node tells.
ReadsGoThroughBlocks ==
  Trusted => \A n \in DOMAIN Owned :
    (\E h \in Handlers : local[h].op = "truncate" /\ local[h].node = n) \/ leer_archivo(n) \subseteq bitmap

\* Then a name is once in a directory other than the root, whoever creates and renames.
UniqueNames ==
  ~raced /\ ~wild => \A n, m \in Nodes :
    /\ n # m /\ 0 \notin {tablaDeNodos[n].state, tablaDeNodos[m].state, tablaDeNodos[n].parent}
    /\ tablaDeNodos[n].parent = tablaDeNodos[m].parent
    => tablaDeNodos[n].fname # tablaDeNodos[m].fname

\* Then what is in the table is in the root or in a directory, except while rmdir works,
\* until the clearing behind a full array of pointers deletes a directory.
TreeRooted ==
  ~raced /\ ~wild /\ ~spilled /\ ~(\E h \in Handlers : local[h].op = "rmdir") =>
    \A n \in Nodes : tablaDeNodos[n].state # 0 =>
      \/ tablaDeNodos[n].parent = 0
      \/ tablaDeNodos[n].parent - FirstNodeBlock \in {d \in Nodes : tablaDeNodos[d].state = 2}

\* The server leaves its tables only when requests met on a file, in a file longer than
\* its blocks, after a mknod that found no block, in a truncate that does not make the
\* file longer, or in a write to an empty file behind its one block.
WildOnlyAfter ==
  wild => \/ raced \/ hollow
          \/ \E h \in Handlers : pc[h] = "acortar" \/ (local[h].fsize = 0 /\ local[h].off >= BLOQUE_SIZE)

\* A piece of a block written over a file that ends with a full block: no space is seen,
\* nothing is written and the loop goes round.
Spins(h) ==
  LET r == local[h] IN
  pc[h] = "trozo" /\ r.size < BLOQUE_SIZE /\ SpaceInBlock(r.fsize) = 0 /\ r.off < r.fsize

\* Every request is answered, unless a return kept a lock, the server left its tables or
\* a write spins, which keeps the mutex of its path.
EveryRequestAnswered ==
  \A h \in Handlers : Busy(h) ~> ~Busy(h) \/ kept # {} \/ wild \/ \E g \in Handlers : Spins(g)

\* What the log of validar_si_ya_existe_otro says: a node is refused because there is
\* another of that name in the directory.
ExistsMeansLive ==
  [][\A h \in Handlers : YaExiste(h) =>
       \E n \in Named(local[h].path) : tablaDeNodos[n].state # 0]_vars
=============================================================================
