----------------------------- MODULE SuseProofs -----------------------------
(***************************************************************************)
(* Theorems about the SUSE scheduler, for any programs, threads,           *)
(* semaphores and degree of multiprogramming.                              *)
(***************************************************************************)
EXTENDS SuseProperties, SequenceTheorems, WellFoundedInduction, TLAPS

(***************************************************************************)
(* Sequences.                                                              *)
(***************************************************************************)
\* A set of naturals that is not empty has a least element (Min finds it).
LEMMA MinExists ==
  ASSUME NEW S \in SUBSET Nat, S # {}
  PROVE  Min(S) \in S
<1> DEFINE R == OpToRel(<, Nat)
<1>1. PICK x \in S : \A y \in S : <<y, x>> \notin R
  BY NatLessThanWellFounded, WFMin
<1>2. \A y, z \in Nat : y < z => <<y, z>> \in R
  BY DEF OpToRel
<1> HIDE DEF R
<1>3. ASSUME NEW y \in S
      PROVE  x =< y
  <2>1. x \in Nat /\ y \in Nat
    OBVIOUS
  <2>2. ~(y < x)
    BY <1>1, <1>2, <2>1
  <2> QED
    BY <2>1, <2>2
<1> QED
  BY <1>3 DEF Min

\* list_remove_by_condition returns a list of the same elements.
LEMMA RemoveFirstType ==
  ASSUME NEW T, NEW s \in Seq(T), NEW e
  PROVE  RemoveFirst(s, e) \in Seq(T)
<1>1. CASE \E i \in 1..Len(s) : s[i] = e
  <2> DEFINE I == {i \in 1..Len(s) : s[i] = e}
  <2>1. I \in SUBSET Nat /\ I # {}
    BY <1>1
  <2>2. Min(I) \in 1..Len(s)
    <3>1. Min(I) \in I
      BY <2>1, MinExists
    <3> QED
      BY <3>1
  <2>3. RemoveFirst(s, e) = RemoveAt(s, Min(I))
    BY <1>1, <2>1 DEF RemoveFirst, SelectInSeq
  <2>4. /\ SubSeq(s, 1, Min(I) - 1) \in Seq(T)
        /\ SubSeq(s, Min(I) + 1, Len(s)) \in Seq(T)
    <3> HIDE DEF I
    <3>1. \A i \in 1..Len(s) : s[i] \in T
      OBVIOUS
    <3>2. /\ Min(I) \in Int /\ Len(s) \in Int
          /\ 1..(Min(I) - 1) \subseteq 1..Len(s)
          /\ (Min(I) + 1)..Len(s) \subseteq 1..Len(s)
      BY <2>2
    <3> QED
      BY <3>1, <3>2, SubSeqProperties
  <2> QED
    BY <2>3, <2>4 DEF RemoveAt
<1>2. CASE ~ \E i \in 1..Len(s) : s[i] = e
  BY <1>2 DEF RemoveFirst
<1> QED
  BY <1>1, <1>2

(***************************************************************************)
(* Types.  TypeOK is not inductive: what a handler does next depends on    *)
(* the locals that its label promises are set.                             *)
(***************************************************************************)
UltLabels ==
  {"create", "ejecucion_a_bloqueado", "decrementar_semaforo",
   "ejecucion_a_bloqueado_por_semaforo", "desjoinear",
   "bloqueado_a_listo_join", "joiner_a_nuevo", "close_switch", "close_new",
   "close_blocked", "close_blocked_multiprog", "close_ready", "close_execute"}

HiloLabels == Transitions \cup {"joiner_a_nuevo"}

SemLabels ==
  {"decrementar_semaforo", "ejecucion_a_bloqueado_por_semaforo",
   "incrementar_semaforo", "bloqueado_a_listo_signal"}

JoinLabels == {"desjoinear", "bloqueado_a_listo_join", "joiner_a_nuevo"}

\* The locals r that a handler at label l is about to use have been set.
LocalsFor(l, r) ==
  /\ l \in UltLabels => r.ult \in Threads
  /\ l \in HiloLabels => r.hilo \in Threads
  /\ l \in SemLabels => r.sem \in Semaphores
  /\ l \in JoinLabels => r.i > 0

LocalsSet == \A p \in Programs : LocalsFor(pc[p], in[p])

ControlOK ==
  /\ pc \in [Programs -> Labels]
  /\ in \in [Programs -> Locals]
  /\ LocalsSet

ThreadLists == Seq(Threads)

\* Everything but the control of the handlers.
DataOK ==
  /\ process \in [Programs -> {"none", "alive", "destroyed"}]
  /\ ULTS \in SUBSET Threads
  /\ estado \in [Threads -> Estados]
  /\ EXEC_THREAD \in [Programs -> ULTorNull]
  /\ READY_LIST \in [Threads -> Nat]
  /\ semaforoReady \in [Programs -> Nat]
  /\ new_queue \in ThreadLists
  /\ blocked_queue \in [Threads -> Nat]
  /\ joinTo \in [Threads -> ThreadLists]
  /\ joinedBy \in [Threads -> ThreadLists]
  /\ VALUE \in [Semaphores -> Int]
  /\ BLOCKED_LIST \in [Semaphores -> ThreadLists]
  /\ ACTUAL_MULTIPROG \in Int
  /\ owner \in [Mutexes -> Programs \cup {NULL}]
  /\ running \in [Programs -> ULTorNull]
  /\ crashed \in BOOLEAN

TypeInv == DataOK /\ ControlOK

\* The invariant has TypeOK of SuseProperties as a part.
LEMMA TypeInvImpliesTypeOK == TypeInv => TypeOK
  BY DEF TypeInv, DataOK, ControlOK, TypeOK, ThreadLists

\* Counting one more keeps a function to the naturals.
LEMMA OneMore ==
  ASSUME NEW S, NEW f \in [S -> Nat], NEW x
  PROVE  [f EXCEPT ![x] = @ + 1] \in [S -> Nat]
<1>1. \A y \in S : f[y] + 1 \in Nat
  OBVIOUS
<1> QED
  BY <1>1

\* Writing one local keeps the record of locals.
LEMMA LocalsExcept ==
  ASSUME NEW r \in Locals, NEW h \in ULTorNull, NEW c \in Estados,
         NEW s \in Semaphores \cup {NULL}, NEW i \in Nat
  PROVE  /\ [r EXCEPT !.ult = h] \in Locals
         /\ [r EXCEPT !.hilo = h, !.cola = c] \in Locals
         /\ [r EXCEPT !.hilo = h] \in Locals
         /\ [r EXCEPT !.sem = s] \in Locals
         /\ [r EXCEPT !.ult = h, !.sem = s] \in Locals
         /\ [r EXCEPT !.ult = h, !.i = i] \in Locals
         /\ [r EXCEPT !.i = i] \in Locals
  BY DEF Locals

\* The locals of a handler between requests have their types.
LEMMA NoLocalsType == NoLocals \in Locals
  BY DEF Locals, NoLocals, ULTorNull, Estados

\* What LocalsFor asks of r at each label.
LEMMA LocalsWanted ==
  ASSUME NEW r
  PROVE
    /\ \A l \in {"idle", "done", "sem_wait", "pick", "obtener_ULT_ready_FIFO",
                 "listo_a_exit_wait", "metricas_semaforos", "metricas_multiprog"} :
         LocalsFor(l, r)
    /\ \A l \in {"nuevo_a_ejecucion", "nuevo_a_listo_create", "nuevo_a_listo_FIFO",
                 "nuevo_a_exit", "bloqueado_a_exit", "listo_a_exit",
                 "listo_a_ejecucion"} :
         LocalsFor(l, r) <=> r.hilo \in Threads
    /\ \A l \in {"create", "ejecucion_a_bloqueado", "close_switch", "close_new",
                 "close_blocked", "close_blocked_multiprog", "close_ready",
                 "close_execute"} :
         LocalsFor(l, r) <=> r.ult \in Threads
    /\ \A l \in {"decrementar_semaforo", "ejecucion_a_bloqueado_por_semaforo"} :
         LocalsFor(l, r) <=> (r.ult \in Threads /\ r.sem \in Semaphores)
    /\ LocalsFor("incrementar_semaforo", r) <=> (r.sem \in Semaphores)
    /\ LocalsFor("bloqueado_a_listo_signal", r) <=>
         (r.hilo \in Threads /\ r.sem \in Semaphores)
    /\ LocalsFor("desjoinear", r) <=> (r.ult \in Threads /\ r.i > 0)
    /\ \A l \in {"bloqueado_a_listo_join", "joiner_a_nuevo"} :
         LocalsFor(l, r) <=> (r.ult \in Threads /\ r.hilo \in Threads /\ r.i > 0)
  BY DEF LocalsFor, UltLabels, HiloLabels, SemLabels, JoinLabels, Transitions

\* The four ways in which a step moves a handler to its next label.  First, the
\* request ends.
LEMMA ReplyControl ==
  ASSUME ControlOK, NEW p \in Programs, Reply(p)
  PROVE  ControlOK'
<1>1. LocalsFor("idle", NoLocals)
  BY LocalsWanted
<1> QED
  BY <1>1, NoLocalsType DEF ControlOK, LocalsSet, Reply, GoTo, Labels

\* Its locals stay.
LEMMA GoToControl ==
  ASSUME ControlOK, NEW p \in Programs, NEW l \in Labels, GoTo(p, l), UNCHANGED in,
         LocalsFor(l, in[p])
  PROVE  ControlOK'
  BY DEF ControlOK, LocalsSet, GoTo

\* It sets some locals, to r as a whole.
LEMMA AssignControl ==
  ASSUME ControlOK, NEW p \in Programs, NEW l \in Labels, GoTo(p, l), NEW r \in Locals,
         in' = [in EXCEPT ![p] = r], LocalsFor(l, r)
  PROVE  ControlOK'
  BY DEF ControlOK, LocalsSet, GoTo

\* It goes on with the next thread that joined.
LEMMA NextJoinerControl ==
  ASSUME ControlOK, NEW p \in Programs, NextJoiner(p), in[p].ult \in Threads
  PROVE  ControlOK'
<1> DEFINE r == [in[p] EXCEPT !.i = @ + 1]
<1>1. in[p] \in Locals
  BY DEF ControlOK
<1>2. r \in Locals /\ r.ult = in[p].ult /\ r.i > 0
  BY <1>1 DEF Locals
<1>3. LocalsFor("desjoinear", r)
  BY <1>2, LocalsWanted
<1>4. in' = [in EXCEPT ![p] = r] /\ GoTo(p, "desjoinear")
  BY DEF NextJoiner
<1>5. "desjoinear" \in Labels
  BY DEF Labels
<1> QED
  BY <1>2, <1>3, <1>4, <1>5, AssignControl

\* It is about to take h out of its queue.
LEMMA MoveNextControl ==
  ASSUME ControlOK, estado \in [Threads -> Estados],
         NEW p \in Programs, NEW h \in Threads, NEW l \in Transitions, MoveNext(p, h, l),
         l = "bloqueado_a_listo_signal" => in[p].sem \in Semaphores,
         l = "bloqueado_a_listo_join" => in[p].ult \in Threads /\ in[p].i > 0
  PROVE  ControlOK'
<1> DEFINE r == [in[p] EXCEPT !.hilo = h, !.cola = estado[h]]
<1>1. r \in Locals
  BY DEF ControlOK, Locals, ULTorNull
<1>2. in' = [in EXCEPT ![p] = r]
  BY DEF MoveNext, ControlOK
<1>3. r.hilo = h /\ r.ult = in[p].ult /\ r.sem = in[p].sem /\ r.i = in[p].i
  BY DEF ControlOK, Locals
<1>4. LocalsFor(l, r)
  <2> HIDE DEF r
  <2> QED
    BY <1>3, LocalsWanted DEF Transitions
<1>5. l \in Labels /\ GoTo(p, l)
  BY DEF Transitions, Labels, MoveNext
<1> QED
  BY <1>1, <1>2, <1>4, <1>5, AssignControl

\* The scheduler starts with every variable of its type.
LEMMA TypeInit == Init => TypeInv
<1> SUFFICES ASSUME Init PROVE TypeInv
  OBVIOUS
<1>1. VALUE \in [Semaphores -> Int]
  BY SuseAssumption DEF Init
<1>2. /\ process \in [Programs -> {"none", "alive", "destroyed"}]
      /\ ULTS \in SUBSET Threads
      /\ estado \in [Threads -> Estados]
      /\ EXEC_THREAD \in [Programs -> ULTorNull]
      /\ running \in [Programs -> ULTorNull]
      /\ crashed \in BOOLEAN
  BY DEF Init, Estados, ULTorNull
<1>3. /\ READY_LIST \in [Threads -> Nat]
      /\ semaforoReady \in [Programs -> Nat]
      /\ new_queue \in ThreadLists
      /\ blocked_queue \in [Threads -> Nat]
      /\ joinTo \in [Threads -> ThreadLists]
      /\ joinedBy \in [Threads -> ThreadLists]
      /\ BLOCKED_LIST \in [Semaphores -> ThreadLists]
      /\ ACTUAL_MULTIPROG \in Int
      /\ owner \in [Mutexes -> Programs \cup {NULL}]
  BY DEF Init, ThreadLists
<1>4. pc \in [Programs -> Labels] /\ in \in [Programs -> Locals]
  BY NoLocalsType DEF Init, Labels
<1>5. LocalsFor("idle", NoLocals)
  BY LocalsWanted
<1>6. LocalsSet
  BY <1>5 DEF Init, LocalsSet
<1> QED
  BY <1>1, <1>2, <1>3, <1>4, <1>6 DEF TypeInv, DataOK, ControlOK

\* The removal half of a transition, and the mutexes.
LEMMA RemovalType ==
  ASSUME DataOK, NEW p \in Programs, hilo(p) \in Threads
  PROVE  /\ eliminar_ULT_cola_actual(p) =>
              new_queue' \in ThreadLists /\ blocked_queue' \in [Threads -> Nat]
         /\ SinListo(p) \in [Threads -> Nat]
         /\ SinExec(p) \in [Programs -> ULTorNull]
         /\ procesoId(hilo(p)) \in Programs
<1>1. \A b \in [Threads -> Nat] : Minus(b, hilo(p)) \in [Threads -> Nat]
  BY DEF Minus
<1>2. procesoId(hilo(p)) \in Programs
  BY DEF procesoId, Threads
<1>3. RemoveFirst(new_queue, hilo(p)) \in ThreadLists
  BY RemoveFirstType DEF DataOK, ThreadLists
<1> QED
  BY <1>1, <1>2, <1>3
     DEF DataOK, eliminar_ULT_cola_actual, SinListo, SinExec, ULTorNull

\* Operations on a list of threads.
LEMMA ListType ==
  ASSUME NEW l \in ThreadLists
  PROVE  /\ \A h \in Threads : Append(l, h) \in ThreadLists
         /\ \A h : RemoveFirst(l, h) \in ThreadLists
         /\ l # <<>> => Head(l) \in Threads /\ Tail(l) \in ThreadLists
         /\ \A i \in Nat : i > 0 /\ i <= Len(l) => l[i] \in Threads
  BY RemoveFirstType DEF ThreadLists

\* A mutex is owned by a handler or by nobody.
LEMMA OwnerType ==
  ASSUME DataOK, NEW p \in Programs
  PROVE  /\ UnlockAll(p) => owner' \in [Mutexes -> Programs \cup {NULL}]
         /\ \A m \in Mutexes : Lock(p, m) => owner' \in [Mutexes -> Programs \cup {NULL}]
  BY DEF DataOK, UnlockAll, Lock

\* The joiner that desjoinear is at is a thread.
LEMMA JoinerType ==
  ASSUME DataOK, NEW p \in Programs, in[p].ult \in Threads, in[p].i \in Nat,
         in[p].i > 0, in[p].i <= Len(joinedBy[in[p].ult])
  PROVE  joiner(p) \in Threads
  BY ListType DEF DataOK, joiner

\* A handler that is waking a thread found one waiting.
LEMMA SomebodyWaits ==
  ASSUME DataOK, ControlOK, SemaphoreAccounting,
         NEW p \in Programs, pc[p] = "bloqueado_a_listo_signal"
  PROVE  /\ in[p].sem \in Semaphores
         /\ BLOCKED_LIST[in[p].sem] # <<>>
<1>1. LocalsFor("bloqueado_a_listo_signal", in[p])
  BY DEF ControlOK, LocalsSet
<1>2. in[p].sem \in Semaphores
  BY <1>1, LocalsWanted
<1>3. Updating(in[p].sem) /\ VALUE[in[p].sem] \in Int
  BY <1>2 DEF Updating, Holds, DataOK
<1>4. Len(BLOCKED_LIST[in[p].sem]) > 0
  BY <1>2, <1>3 DEF SemaphoreAccounting, Negative
<1> QED
  BY <1>2, <1>4

\* Every step keeps the types of threads, queues, semaphores and mutexes.  The
\* removal of the first thread of BLOCKED_LIST needs SemaphoreAccounting.
LEMMA DataNext ==
  ASSUME TypeInv, SemaphoreAccounting, Next
  PROVE  DataOK'
<1> USE DEF threads, queues, joins, sems
<1>0. DataOK /\ ControlOK
  BY DEF TypeInv
<1>1. PICK p \in Programs : Request(p) \/ Handle(p) \/ Crash(p)
  BY DEF Next
<1>2. LocalsFor(pc[p], in[p]) /\ in[p] \in Locals
  BY <1>0 DEF ControlOK, LocalsSet
<1>3. \A t \in Tids : <<p, t>> \in Threads
  BY DEF Threads
<1>4. ASSUME CreateMain(p)
      PROVE  DataOK'
  BY <1>0, <1>4, <1>3, SuseAssumption, ListType DEF DataOK, CreateMain,
     ULT_create, ULTorNull, Estados
<1>5. ASSUME NEW t \in Tids, CreateUlt(p, t)
      PROVE  DataOK'
  BY <1>0, <1>5, <1>3, ListType DEF DataOK, CreateUlt, ULT_create, Estados
<1>6. ASSUME ScheduleNext(p)
      PROVE  DataOK'
  <2>1. EXEC_THREAD[p] # NULL => EXEC_THREAD[p] \in Threads
    BY <1>0 DEF DataOK, ULTorNull
  <2> QED
    BY <1>0, <1>6, <2>1 DEF DataOK, ScheduleNext, Plus, ULTorNull, Estados
<1>7. ASSUME CloseMain(p)
      PROVE  DataOK'
  BY <1>0, <1>7 DEF DataOK, CloseMain, Closable, ULTorNull, Estados
<1>8. ASSUME Disconnect(p)
      PROVE  DataOK'
  BY <1>0, <1>8 DEF DataOK, Disconnect, ULTorNull
<1>9. ASSUME NEW t \in Tids, Join(p, t)
      PROVE  DataOK'
  <2>1. EXEC_THREAD[p] # NULL => EXEC_THREAD[p] \in Threads
    BY <1>0 DEF DataOK, ULTorNull
  <2> QED
    BY <1>0, <1>9, <1>3, ListType, <2>1 DEF DataOK, Join, ULTorNull, Estados
<1>10. ASSUME NEW t \in Tids, JoinReturns(p, t)
      PROVE  DataOK'
  BY <1>0, <1>10 DEF DataOK, JoinReturns, ULTorNull
<1>11. ASSUME NEW t \in Tids, ReceiveClose(p, t)
      PROVE  DataOK'
  BY <1>0, <1>11 DEF DataOK, ReceiveClose, ULTorNull
<1>12. ASSUME NEW t \in Tids, CloseUnknown(p, t)
      PROVE  DataOK'
  BY <1>0, <1>12 DEF DataOK, CloseUnknown
<1>13. ASSUME NEW s \in Semaphores, ReceiveWait(p, s)
      PROVE  DataOK'
  BY <1>0, <1>13 DEF DataOK, ReceiveWait, ULTorNull
<1>14. ASSUME NEW s \in Semaphores, ReceiveSignal(p, s)
      PROVE  DataOK'
  BY <1>0, <1>14 DEF DataOK, ReceiveSignal
<1>15. ASSUME NotAdmitted(p)
      PROVE  DataOK'
  BY <1>0, <1>15 DEF DataOK, NotAdmitted
<1>16. ASSUME AdmitUlt(p)
      PROVE  DataOK'
  <2>1. in[p].ult \in Threads
    BY <1>16, <1>2, LocalsWanted DEF AdmitUlt, At
  <2> QED
    BY <1>0, <1>16, OwnerType, <2>1 DEF DataOK, AdmitUlt, nuevo_a_listo_add,
       Plus, Mutexes
<1>17. ASSUME AdmitMain(p)
      PROVE  DataOK'
  BY <1>0, <1>17, OwnerType DEF DataOK, AdmitMain, Mutexes
<1>18. ASSUME NuevoAListoCreate(p)
      PROVE  DataOK'
  <2>1. hilo(p) \in Threads
    BY <1>18, <1>2, LocalsWanted DEF NuevoAListoCreate, At, hilo
  <2> QED
    BY <1>0, <1>18, OwnerType, RemovalType, <2>1 DEF DataOK, NuevoAListoCreate,
       nuevo_a_listo, Estados
<1>19. ASSUME nuevo_a_ejecucion(p)
      PROVE  DataOK'
  <2>1. hilo(p) \in Threads
    BY <1>19, <1>2, LocalsWanted DEF nuevo_a_ejecucion, At, hilo
  <2> QED
    BY <1>0, <1>19, OwnerType, RemovalType, <2>1 DEF DataOK, nuevo_a_ejecucion,
       Estados, ULTorNull
<1>20. ASSUME ejecucion_a_bloqueado(p)
      PROVE  DataOK'
  <2>1. in[p].ult \in Threads
    BY <1>20, <1>2, LocalsWanted DEF ejecucion_a_bloqueado, At
  <2> QED
    BY <1>0, <1>20, <2>1 DEF DataOK, ejecucion_a_bloqueado, Plus
<1>21. ASSUME decrementar_semaforo(p)
      PROVE  DataOK'
  <2>1. in[p].sem \in Semaphores
    BY <1>21, <1>2, LocalsWanted DEF decrementar_semaforo, At
  <2> QED
    BY <1>0, <1>21, <2>1 DEF DataOK, decrementar_semaforo
<1>22. ASSUME BlockOnSemaphore(p)
      PROVE  DataOK'
  <2>1. in[p].ult \in Threads /\ in[p].sem \in Semaphores
    BY <1>22, <1>2, LocalsWanted DEF BlockOnSemaphore, At
  <2> QED
    BY <1>0, <1>22, OwnerType, ListType, <2>1 DEF DataOK, BlockOnSemaphore,
       Mutexes, ULTorNull, Estados
<1>23. ASSUME ejecucion_a_bloqueado_por_semaforo(p)
      PROVE  DataOK'
  <2>1. in[p].ult \in Threads /\ in[p].sem \in Semaphores
    BY <1>23, <1>2, LocalsWanted DEF ejecucion_a_bloqueado_por_semaforo, At
  <2> QED
    BY <1>0, <1>23, OwnerType, <2>1 DEF DataOK,
       ejecucion_a_bloqueado_por_semaforo, Plus
<1>24. ASSUME SignalAtMax(p)
      PROVE  DataOK'
  BY <1>0, <1>24 DEF DataOK, SignalAtMax
<1>25. ASSUME SignalNoWaiter(p)
      PROVE  DataOK'
  <2>1. in[p].sem \in Semaphores
    BY <1>25, <1>2, LocalsWanted DEF SignalNoWaiter, At
  <2> QED
    BY <1>0, <1>25, <2>1 DEF DataOK, SignalNoWaiter
<1>26. ASSUME desbloquear_hilos_semaforo(p)
      PROVE  DataOK'
  <2>1. in[p].sem \in Semaphores
    BY <1>26, <1>2, LocalsWanted DEF desbloquear_hilos_semaforo, At
  <2> QED
    BY <1>0, <1>26, OwnerType, ListType, <2>1 DEF DataOK,
       desbloquear_hilos_semaforo, Mutexes
<1>27. ASSUME BloqueadoAListoSignal(p)
      PROVE  DataOK'
  <2>1. BLOCKED_LIST[in[p].sem] # <<>> /\ hilo(p) \in Threads
    BY <1>0, SomebodyWaits, <1>27, <1>2, LocalsWanted DEF BloqueadoAListoSignal,
       At, hilo
  <2>2. BLOCKED_LIST' \in [Semaphores -> ThreadLists]
    BY <1>0, <1>27, <2>1, ListType DEF DataOK, BloqueadoAListoSignal
  <2>3. bloqueado_a_listo(p)
    BY <1>27 DEF BloqueadoAListoSignal
  <2>4. owner' \in [Mutexes -> Programs \cup {NULL}]
    BY <1>0, <2>3, OwnerType DEF DataOK, bloqueado_a_listo
  <2>5. /\ new_queue' \in ThreadLists /\ blocked_queue' \in [Threads -> Nat]
        /\ SinListo(p) \in [Threads -> Nat] /\ SinExec(p) \in [Programs -> ULTorNull]
    BY <1>0, <2>3, RemovalType, <2>1 DEF DataOK, bloqueado_a_listo
  <2>6. READY_LIST' \in [Threads -> Nat] /\ EXEC_THREAD' \in [Programs -> ULTorNull]
    BY <2>1, <2>3, <2>5 DEF bloqueado_a_listo, Plus
  <2>7. estado' \in [Threads -> Estados]
    BY <1>0, <2>1, <2>3 DEF DataOK, bloqueado_a_listo, Estados
  <2>8. semaforoReady' \in [Programs -> Nat]
    <3>1. semaforoReady \in [Programs -> Nat]
      BY <1>0 DEF DataOK
    <3>2. semaforoReady' = [semaforoReady EXCEPT ![procesoId(hilo(p))] = @ + 1]
      BY <2>3 DEF bloqueado_a_listo
    <3> QED
      BY <3>1, <3>2, OneMore
  <2>9. UNCHANGED <<process, ULTS, joins, VALUE, ACTUAL_MULTIPROG, running, crashed>>
    BY <2>3 DEF bloqueado_a_listo
  <2> QED
    BY <1>0, <2>2, <2>4, <2>5, <2>6, <2>7, <2>8, <2>9 DEF DataOK, joins
<1>28. ASSUME JoinerStillWaits(p)
      PROVE  DataOK'
  <2>1. in[p].ult \in Threads /\ joiner(p) \in Threads
    BY <1>0, <1>28, <1>2, LocalsWanted, JoinerType DEF JoinerStillWaits, At,
       Unjoin, Locals
  <2> QED
    BY <1>0, <1>28, ListType, <2>1 DEF DataOK, JoinerStillWaits, Unjoin,
       joinToLeft
<1>29. ASSUME JoinerReady(p)
      PROVE  DataOK'
  <2>1. in[p].ult \in Threads /\ joiner(p) \in Threads
    BY <1>0, <1>29, <1>2, LocalsWanted, JoinerType DEF JoinerReady, At, Unjoin,
       Locals
  <2> QED
    BY <1>0, <1>29, OwnerType, ListType, <2>1 DEF DataOK, JoinerReady, Unjoin,
       joinToLeft, Mutexes
<1>30. ASSUME JoinerNew(p)
      PROVE  DataOK'
  <2>1. in[p].ult \in Threads /\ joiner(p) \in Threads
    BY <1>0, <1>30, <1>2, LocalsWanted, JoinerType DEF JoinerNew, At, Unjoin,
       Locals
  <2> QED
    BY <1>0, <1>30, OwnerType, ListType, <2>1 DEF DataOK, JoinerNew, Unjoin,
       joinToLeft, Mutexes, Estados
<1>31. ASSUME BloqueadoAListoJoin(p)
      PROVE  DataOK'
  <2>1. hilo(p) \in Threads
    BY <1>31, <1>2, LocalsWanted DEF BloqueadoAListoJoin, At, hilo
  <2> QED
    BY <1>0, <1>31, OwnerType, RemovalType, <2>1 DEF DataOK,
       BloqueadoAListoJoin, bloqueado_a_listo, Plus, Estados
<1>32. ASSUME joiner_a_nuevo(p)
      PROVE  DataOK'
  <2>1. hilo(p) \in Threads
    BY <1>32, <1>2, LocalsWanted DEF joiner_a_nuevo, At, hilo
  <2> QED
    BY <1>0, <1>32, OwnerType, ListType, <2>1 DEF DataOK, joiner_a_nuevo
<1>33. ASSUME AllUnjoined(p)
      PROVE  DataOK'
  BY <1>0, <1>33 DEF DataOK, AllUnjoined
<1>34. ASSUME close_switch(p)
      PROVE  DataOK'
  BY <1>0, <1>34 DEF DataOK, close_switch
<1>35. ASSUME CloseNew(p)
      PROVE  DataOK'
  BY <1>0, <1>35, OwnerType DEF DataOK, CloseNew, Mutexes
<1>36. ASSUME nuevo_a_exit(p)
      PROVE  DataOK'
  <2>1. hilo(p) \in Threads
    BY <1>36, <1>2, LocalsWanted DEF nuevo_a_exit, At, hilo
  <2> QED
    BY <1>0, <1>36, OwnerType, RemovalType, <2>1 DEF DataOK, nuevo_a_exit,
       a_exit, Estados
<1>37. ASSUME CloseBlocked(p)
      PROVE  DataOK'
  BY <1>0, <1>37, OwnerType DEF DataOK, CloseBlocked, Mutexes
<1>38. ASSUME CloseBlockedMultiprog(p)
      PROVE  DataOK'
  BY <1>0, <1>38, OwnerType DEF DataOK, CloseBlockedMultiprog, LeaveMultiprog,
     Mutexes
<1>39. ASSUME bloqueado_a_exit(p)
      PROVE  DataOK'
  <2>1. hilo(p) \in Threads
    BY <1>39, <1>2, LocalsWanted DEF bloqueado_a_exit, At, hilo
  <2> QED
    BY <1>0, <1>39, RemovalType, <2>1 DEF DataOK, bloqueado_a_exit, a_exit,
       Estados
<1>40. ASSUME CloseReady(p)
      PROVE  DataOK'
  BY <1>0, <1>40, OwnerType DEF DataOK, CloseReady, LeaveMultiprog, Mutexes
<1>41. ASSUME listo_a_exit(p)
      PROVE  DataOK'
  <2>1. hilo(p) \in Threads
    BY <1>41, <1>2, LocalsWanted DEF listo_a_exit, At, hilo
  <2> QED
    BY <1>0, <1>41, RemovalType, <2>1 DEF DataOK, listo_a_exit, a_exit, Estados
<1>42. ASSUME ListoAExitWait(p)
      PROVE  DataOK'
  BY <1>0, <1>42 DEF DataOK, ListoAExitWait
<1>43. ASSUME CloseExecute(p)
      PROVE  DataOK'
  <2>1. in[p].ult \in Threads
    BY <1>43, <1>2, LocalsWanted DEF CloseExecute, At
  <2> QED
    BY <1>0, <1>43, OwnerType, <2>1 DEF DataOK, CloseExecute, Mutexes,
       ULTorNull, Estados
<1>44. ASSUME obtener_ULT_ready_FIFO(p)
      PROVE  DataOK'
  <2>1. Head(new_queue) \in Threads
    BY <1>0, <1>44, ListType DEF DataOK, obtener_ULT_ready_FIFO
  <2> QED
    BY <1>0, <1>44, ListType, <2>1 DEF DataOK, obtener_ULT_ready_FIFO,
       nuevo_a_listo_add, Plus
<1>45. ASSUME NobodyToAdmit(p)
      PROVE  DataOK'
  BY <1>0, <1>45, OwnerType DEF DataOK, NobodyToAdmit
<1>46. ASSUME NuevoAListoFIFO(p)
      PROVE  DataOK'
  <2>1. hilo(p) \in Threads
    BY <1>46, <1>2, LocalsWanted DEF NuevoAListoFIFO, At, hilo
  <2> QED
    BY <1>0, <1>46, OwnerType, RemovalType, <2>1 DEF DataOK, NuevoAListoFIFO,
       nuevo_a_listo, Estados
<1>47. ASSUME MetricasSemaforos(p)
      PROVE  DataOK'
  BY <1>0, <1>47 DEF DataOK, MetricasSemaforos
<1>48. ASSUME MetricasMultiprog(p)
      PROVE  DataOK'
  BY <1>0, <1>48 DEF DataOK, MetricasMultiprog
<1>49. ASSUME SemWait(p)
      PROVE  DataOK'
  BY <1>0, <1>49 DEF DataOK, SemWait
<1>50. ASSUME PickReady(p)
      PROVE  DataOK'
  BY <1>0, <1>50 DEF DataOK, PickReady
<1>51. ASSUME PickNone(p)
      PROVE  DataOK'
  BY <1>0, <1>51 DEF DataOK, PickNone
<1>52. ASSUME listo_a_ejecucion(p)
      PROVE  DataOK'
  <2>1. hilo(p) \in Threads
    BY <1>52, <1>2, LocalsWanted DEF listo_a_ejecucion, At, hilo
  <2> QED
    BY <1>0, <1>52, RemovalType, <2>1 DEF DataOK, listo_a_ejecucion, Estados,
       ULTorNull
<1>53. ASSUME Crash(p)
      PROVE  DataOK'
  BY <1>0, <1>53 DEF DataOK, Crash
<1> QED
  BY <1>1, <1>4, <1>5, <1>6, <1>7, <1>8, <1>9, <1>10, <1>11, <1>12, <1>13,
     <1>14, <1>15, <1>16, <1>17, <1>18, <1>19, <1>20, <1>21, <1>22, <1>23, <1>24,
     <1>25, <1>26, <1>27, <1>28, <1>29, <1>30, <1>31, <1>32, <1>33, <1>34, <1>35,
     <1>36, <1>37, <1>38, <1>39, <1>40, <1>41, <1>42, <1>43, <1>44, <1>45, <1>46,
     <1>47, <1>48, <1>49, <1>50, <1>51, <1>52, <1>53 DEF Request, Handle

\* Every step leaves each handler at a label whose locals are set.
LEMMA ControlNext ==
  ASSUME TypeInv, Next
  PROVE  ControlOK'
<1>0. DataOK /\ ControlOK
  BY DEF TypeInv
<1>1. PICK p \in Programs : Request(p) \/ Handle(p) \/ Crash(p)
  BY DEF Next
<1>2. LocalsFor(pc[p], in[p]) /\ in[p] \in Locals
  BY <1>0 DEF ControlOK, LocalsSet
<1>3. \A t \in Tids : <<p, t>> \in Threads
  BY DEF Threads
<1>4. ASSUME CreateMain(p)
      PROVE  ControlOK'
  <2> DEFINE r == [in[p] EXCEPT !.ult = <<p, 0>>]
  <2>1. r \in Locals
    BY <1>0, <1>4, <1>2, <1>3, SuseAssumption DEF CreateMain, At, Locals,
       ULTorNull
  <2>2. LocalsFor("create", r)
    BY <1>0, <1>4, <1>2, <1>3, SuseAssumption, LocalsWanted DEF CreateMain,
       At, Locals
  <2>3. in' = [in EXCEPT ![p] = r] /\ GoTo(p, "create")
    BY <1>0, <1>4 DEF CreateMain, ControlOK, ULT_create
  <2> QED
    BY <1>0, <2>1, <2>2, <2>3, AssignControl DEF Labels
<1>5. ASSUME NEW t \in Tids, CreateUlt(p, t)
      PROVE  ControlOK'
  <2> DEFINE r == [in[p] EXCEPT !.ult = <<p, t>>]
  <2>1. r \in Locals
    BY <1>0, <1>5, <1>2, <1>3, SuseAssumption DEF CreateUlt, At, Locals,
       ULTorNull
  <2>2. LocalsFor("create", r)
    BY <1>0, <1>5, <1>2, <1>3, SuseAssumption, LocalsWanted DEF CreateUlt, At,
       Locals
  <2>3. in' = [in EXCEPT ![p] = r] /\ GoTo(p, "create")
    BY <1>0, <1>5 DEF CreateUlt, ControlOK, ULT_create
  <2> QED
    BY <1>0, <2>1, <2>2, <2>3, AssignControl DEF Labels
<1>6. ASSUME ScheduleNext(p)
      PROVE  ControlOK'
  BY <1>0, <1>6, <1>2, LocalsWanted, GoToControl DEF ScheduleNext, At, Labels
<1>7. ASSUME CloseMain(p)
      PROVE  ControlOK'
  BY <1>0, <1>7, <1>2, LocalsWanted, GoToControl DEF CloseMain, At, Labels
<1>8. ASSUME Disconnect(p)
      PROVE  ControlOK'
  BY <1>0, <1>8, <1>2, LocalsWanted, GoToControl DEF Disconnect, At, Labels
<1>9. ASSUME NEW t \in Tids, Join(p, t)
      PROVE  ControlOK'
  <2> DEFINE r == [in[p] EXCEPT !.ult = EXEC_THREAD[p]]
  <2>1. r \in Locals
    BY <1>0, <1>9, <1>2 DEF Join, At, Locals, ULTorNull, DataOK
  <2>2. LocalsFor("ejecucion_a_bloqueado", r)
    BY <1>0, <1>9, <1>2, LocalsWanted DEF Join, At, Locals, DataOK, ULTorNull
  <2>3. in' = [in EXCEPT ![p] = r] /\ GoTo(p, "ejecucion_a_bloqueado")
    BY <1>0, <1>9 DEF Join, ControlOK
  <2> QED
    BY <1>0, <2>1, <2>2, <2>3, AssignControl DEF Labels
<1>10. ASSUME NEW t \in Tids, JoinReturns(p, t)
      PROVE  ControlOK'
  BY <1>0, <1>10 DEF JoinReturns, ControlOK, LocalsSet
<1>11. ASSUME NEW t \in Tids, ReceiveClose(p, t)
      PROVE  ControlOK'
  <2> DEFINE r == [in[p] EXCEPT !.ult = <<p, t>>, !.i = 1]
  <2>1. r \in Locals
    BY <1>2, <1>3 DEF Locals, ULTorNull
  <2>2. LocalsFor("close_switch", r) /\ LocalsFor("desjoinear", r)
    <3>1. r.ult \in Threads /\ r.i > 0
      BY <1>2, <1>3 DEF Locals
    <3> HIDE DEF r
    <3> QED
      BY <3>1, LocalsWanted
  <2>3. PICK l \in {"close_switch", "desjoinear"} : GoTo(p, l)
    BY <1>11 DEF ReceiveClose
  <2>4. in' = [in EXCEPT ![p] = r]
    BY <1>0, <1>11 DEF ReceiveClose, ControlOK
  <2>5. l \in Labels /\ LocalsFor(l, r)
    BY <2>2, <2>3 DEF Labels
  <2> HIDE DEF r
  <2> QED
    BY <1>0, <2>1, <2>3, <2>4, <2>5, AssignControl
<1>12. ASSUME NEW t \in Tids, CloseUnknown(p, t)
      PROVE  ControlOK'
  BY <1>0, <1>12 DEF CloseUnknown, ControlOK, LocalsSet
<1>13. ASSUME NEW s \in Semaphores, ReceiveWait(p, s)
      PROVE  ControlOK'
  <2> DEFINE r == [in[p] EXCEPT !.ult = running[p], !.sem = s]
  <2>1. r \in Locals
    BY <1>0, <1>13, <1>2 DEF ReceiveWait, At, Locals, ULTorNull, DataOK
  <2>2. LocalsFor("decrementar_semaforo", r)
    BY <1>0, <1>13, <1>2, LocalsWanted DEF ReceiveWait, At, Locals, DataOK,
       ULTorNull
  <2>3. in' = [in EXCEPT ![p] = r] /\ GoTo(p, "decrementar_semaforo")
    BY <1>0, <1>13 DEF ReceiveWait, ControlOK
  <2> QED
    BY <1>0, <2>1, <2>2, <2>3, AssignControl DEF Labels
<1>14. ASSUME NEW s \in Semaphores, ReceiveSignal(p, s)
      PROVE  ControlOK'
  <2> DEFINE r == [in[p] EXCEPT !.sem = s]
  <2>1. r \in Locals
    BY <1>0, <1>14, <1>2 DEF ReceiveSignal, At, Locals, ULTorNull
  <2>2. LocalsFor("incrementar_semaforo", r)
    BY <1>0, <1>14, <1>2, LocalsWanted DEF ReceiveSignal, At, Locals
  <2>3. in' = [in EXCEPT ![p] = r] /\ GoTo(p, "incrementar_semaforo")
    BY <1>0, <1>14 DEF ReceiveSignal, ControlOK
  <2> QED
    BY <1>0, <2>1, <2>2, <2>3, AssignControl DEF Labels
<1>15. ASSUME NotAdmitted(p)
      PROVE  ControlOK'
  BY <1>0, <1>15, ReplyControl DEF NotAdmitted
<1>16. ASSUME AdmitUlt(p)
      PROVE  ControlOK'
  <2>1. in[p].ult \in Threads
    BY <1>0, <1>16, <1>2, LocalsWanted DEF AdmitUlt, At, nuevo_a_listo_add
  <2>2. MoveNext(p, in[p].ult, "nuevo_a_listo_create")
    BY <1>16 DEF AdmitUlt, nuevo_a_listo_add
  <2> QED
    BY <1>0, <2>1, <2>2, MoveNextControl DEF Transitions, DataOK
<1>17. ASSUME AdmitMain(p)
      PROVE  ControlOK'
  <2>1. in[p].ult \in Threads
    BY <1>0, <1>17, <1>2, LocalsWanted DEF AdmitMain, At
  <2>2. MoveNext(p, in[p].ult, "nuevo_a_ejecucion")
    BY <1>17 DEF AdmitMain
  <2> QED
    BY <1>0, <2>1, <2>2, MoveNextControl DEF Transitions, DataOK
<1>18. ASSUME NuevoAListoCreate(p)
      PROVE  ControlOK'
  BY <1>0, <1>18, ReplyControl DEF NuevoAListoCreate
<1>19. ASSUME nuevo_a_ejecucion(p)
      PROVE  ControlOK'
  BY <1>0, <1>19, ReplyControl DEF nuevo_a_ejecucion
<1>20. ASSUME ejecucion_a_bloqueado(p)
      PROVE  ControlOK'
  BY <1>0, <1>20, ReplyControl DEF ejecucion_a_bloqueado
<1>21. ASSUME decrementar_semaforo(p)
      PROVE  ControlOK'
  BY <1>0, <1>21, ReplyControl DEF decrementar_semaforo
<1>22. ASSUME BlockOnSemaphore(p)
      PROVE  ControlOK'
  BY <1>0, <1>22, <1>2, LocalsWanted, GoToControl DEF BlockOnSemaphore, At,
     Labels
<1>23. ASSUME ejecucion_a_bloqueado_por_semaforo(p)
      PROVE  ControlOK'
  BY <1>0, <1>23, ReplyControl DEF ejecucion_a_bloqueado_por_semaforo
<1>24. ASSUME SignalAtMax(p)
      PROVE  ControlOK'
  BY <1>0, <1>24, ReplyControl DEF SignalAtMax
<1>25. ASSUME SignalNoWaiter(p)
      PROVE  ControlOK'
  BY <1>0, <1>25, ReplyControl DEF SignalNoWaiter
<1>26. ASSUME desbloquear_hilos_semaforo(p)
      PROVE  ControlOK'
  <2>1. Head(BLOCKED_LIST[in[p].sem]) \in Threads
    BY <1>0, <1>26, <1>2, LocalsWanted, ListType DEF
       desbloquear_hilos_semaforo, At, DataOK
  <2>2. MoveNext(p, Head(BLOCKED_LIST[in[p].sem]), "bloqueado_a_listo_signal")
    BY <1>26 DEF desbloquear_hilos_semaforo
  <2> QED
    BY <1>0, <2>1, <2>2, <1>26, <1>2, LocalsWanted, MoveNextControl DEF
       Transitions, DataOK, desbloquear_hilos_semaforo, At
<1>27. ASSUME BloqueadoAListoSignal(p)
      PROVE  ControlOK'
  BY <1>0, <1>27, ReplyControl DEF BloqueadoAListoSignal
<1>28. ASSUME JoinerStillWaits(p)
      PROVE  ControlOK'
  <2> DEFINE r == [in[p] EXCEPT !.i = @ + 1]
  <2>1. r \in Locals
    BY <1>0, <1>28, <1>2, LocalsWanted, JoinerType DEF JoinerStillWaits, At,
       Locals, ULTorNull, Unjoin
  <2>2. LocalsFor("desjoinear", r)
    BY <1>0, <1>28, <1>2, LocalsWanted, JoinerType DEF JoinerStillWaits, At,
       Locals, Unjoin
  <2>3. in' = [in EXCEPT ![p] = r] /\ GoTo(p, "desjoinear")
    BY <1>0, <1>28 DEF JoinerStillWaits, ControlOK, GoTo, Unjoin, At
  <2> QED
    BY <1>0, <2>1, <2>2, <2>3, AssignControl DEF Labels
<1>29. ASSUME JoinerReady(p)
      PROVE  ControlOK'
  <2>1. joiner(p) \in Threads
    BY <1>0, <1>29, <1>2, LocalsWanted, JoinerType DEF JoinerReady, At,
       Unjoin, Locals
  <2>2. MoveNext(p, joiner(p), "bloqueado_a_listo_join")
    BY <1>29 DEF JoinerReady, Unjoin
  <2> QED
    BY <1>0, <2>1, <2>2, <1>29, <1>2, LocalsWanted, MoveNextControl DEF
       Transitions, DataOK, JoinerReady, At, Unjoin
<1>30. ASSUME JoinerNew(p)
      PROVE  ControlOK'
  <2> DEFINE r == [in[p] EXCEPT !.hilo = joiner(p)]
  <2>1. r \in Locals
    BY <1>0, <1>30, <1>2, LocalsWanted, JoinerType DEF JoinerNew, At, Locals,
       ULTorNull, Unjoin
  <2>2. LocalsFor("joiner_a_nuevo", r)
    BY <1>0, <1>30, <1>2, LocalsWanted, JoinerType DEF JoinerNew, At, Locals,
       Unjoin
  <2>3. in' = [in EXCEPT ![p] = r] /\ GoTo(p, "joiner_a_nuevo")
    BY <1>0, <1>30 DEF JoinerNew, ControlOK, Unjoin
  <2> QED
    BY <1>0, <2>1, <2>2, <2>3, AssignControl DEF Labels
<1>31. ASSUME BloqueadoAListoJoin(p)
      PROVE  ControlOK'
  <2>1. in[p].ult \in Threads /\ NextJoiner(p)
    BY <1>31, <1>2, LocalsWanted DEF BloqueadoAListoJoin, At
  <2> QED
    BY <1>0, <2>1, NextJoinerControl
<1>32. ASSUME joiner_a_nuevo(p)
      PROVE  ControlOK'
  <2>1. in[p].ult \in Threads /\ NextJoiner(p)
    BY <1>32, <1>2, LocalsWanted DEF joiner_a_nuevo, At
  <2> QED
    BY <1>0, <2>1, NextJoinerControl
<1>33. ASSUME AllUnjoined(p)
      PROVE  ControlOK'
  BY <1>0, <1>33, <1>2, LocalsWanted, GoToControl DEF AllUnjoined, At, Labels
<1>34. ASSUME close_switch(p)
      PROVE  ControlOK'
  <2>1. PICK l \in {"close_new", "close_blocked", "close_ready", "close_execute",
                   "metricas_semaforos"} : GoTo(p, l)
    BY <1>0, <1>34 DEF close_switch, DataOK, Estados
  <2>2. in[p].ult \in Threads /\ UNCHANGED in
    BY <1>34, <1>2, LocalsWanted DEF close_switch, At
  <2>3. LocalsFor(l, in[p]) /\ l \in Labels
    BY <2>2, LocalsWanted DEF Labels
  <2> QED
    BY <1>0, <2>1, <2>2, <2>3, GoToControl
<1>35. ASSUME CloseNew(p)
      PROVE  ControlOK'
  <2>1. in[p].ult \in Threads
    BY <1>0, <1>35, <1>2, LocalsWanted DEF CloseNew, At
  <2>2. MoveNext(p, in[p].ult, "nuevo_a_exit")
    BY <1>35 DEF CloseNew
  <2> QED
    BY <1>0, <2>1, <2>2, MoveNextControl DEF Transitions, DataOK
<1>36. ASSUME nuevo_a_exit(p)
      PROVE  ControlOK'
  BY <1>0, <1>36, <1>2, LocalsWanted, GoToControl DEF nuevo_a_exit, At,
     Labels, a_exit
<1>37. ASSUME CloseBlocked(p)
      PROVE  ControlOK'
  BY <1>0, <1>37, <1>2, LocalsWanted, GoToControl DEF CloseBlocked, At, Labels
<1>38. ASSUME CloseBlockedMultiprog(p)
      PROVE  ControlOK'
  <2>1. in[p].ult \in Threads
    BY <1>0, <1>38, <1>2, LocalsWanted DEF CloseBlockedMultiprog, At,
       LeaveMultiprog
  <2>2. MoveNext(p, in[p].ult, "bloqueado_a_exit")
    BY <1>38 DEF CloseBlockedMultiprog, LeaveMultiprog
  <2> QED
    BY <1>0, <2>1, <2>2, MoveNextControl DEF Transitions, DataOK
<1>39. ASSUME bloqueado_a_exit(p)
      PROVE  ControlOK'
  BY <1>0, <1>39, <1>2, LocalsWanted, GoToControl DEF bloqueado_a_exit, At,
     Labels, a_exit
<1>40. ASSUME CloseReady(p)
      PROVE  ControlOK'
  <2>1. in[p].ult \in Threads
    BY <1>0, <1>40, <1>2, LocalsWanted DEF CloseReady, At, LeaveMultiprog
  <2>2. MoveNext(p, in[p].ult, "listo_a_exit")
    BY <1>40 DEF CloseReady, LeaveMultiprog
  <2> QED
    BY <1>0, <2>1, <2>2, MoveNextControl DEF Transitions, DataOK
<1>41. ASSUME listo_a_exit(p)
      PROVE  ControlOK'
  BY <1>0, <1>41, <1>2, LocalsWanted, GoToControl DEF listo_a_exit, At,
     Labels, a_exit
<1>42. ASSUME ListoAExitWait(p)
      PROVE  ControlOK'
  BY <1>0, <1>42, <1>2, LocalsWanted, GoToControl DEF ListoAExitWait, At,
     Labels
<1>43. ASSUME CloseExecute(p)
      PROVE  ControlOK'
  BY <1>0, <1>43, <1>2, LocalsWanted, GoToControl DEF CloseExecute, At, Labels
<1>44. ASSUME obtener_ULT_ready_FIFO(p)
      PROVE  ControlOK'
  <2>1. Head(new_queue) \in Threads
    BY <1>0, <1>44, <1>2, LocalsWanted, ListType DEF obtener_ULT_ready_FIFO,
       At, nuevo_a_listo_add, DataOK
  <2>2. MoveNext(p, Head(new_queue), "nuevo_a_listo_FIFO")
    BY <1>44 DEF obtener_ULT_ready_FIFO, nuevo_a_listo_add
  <2> QED
    BY <1>0, <2>1, <2>2, MoveNextControl DEF Transitions, DataOK
<1>45. ASSUME NobodyToAdmit(p)
      PROVE  ControlOK'
  BY <1>0, <1>45, <1>2, LocalsWanted, GoToControl DEF NobodyToAdmit, At,
     Labels
<1>46. ASSUME NuevoAListoFIFO(p)
      PROVE  ControlOK'
  BY <1>0, <1>46, <1>2, LocalsWanted, GoToControl DEF NuevoAListoFIFO, At,
     Labels
<1>47. ASSUME MetricasSemaforos(p)
      PROVE  ControlOK'
  BY <1>0, <1>47, <1>2, LocalsWanted, GoToControl DEF MetricasSemaforos, At,
     Labels
<1>48. ASSUME MetricasMultiprog(p)
      PROVE  ControlOK'
  BY <1>0, <1>48, ReplyControl DEF MetricasMultiprog
<1>49. ASSUME SemWait(p)
      PROVE  ControlOK'
  BY <1>0, <1>49, <1>2, LocalsWanted, GoToControl DEF SemWait, At, Labels
<1>50. ASSUME PickReady(p)
      PROVE  ControlOK'
  <2>1. PICK h \in Threads : MoveNext(p, h, "listo_a_ejecucion")
    BY <1>50 DEF PickReady
  <2> QED
    BY <1>0, <2>1, MoveNextControl DEF DataOK, Transitions
<1>51. ASSUME PickNone(p)
      PROVE  ControlOK'
  BY <1>0, <1>51, ReplyControl DEF PickNone
<1>52. ASSUME listo_a_ejecucion(p)
      PROVE  ControlOK'
  BY <1>0, <1>52, ReplyControl DEF listo_a_ejecucion
<1>53. ASSUME Crash(p)
      PROVE  ControlOK'
  BY <1>0, <1>53 DEF Crash, ControlOK, LocalsSet
<1> QED
  BY <1>1, <1>4, <1>5, <1>6, <1>7, <1>8, <1>9, <1>10, <1>11, <1>12, <1>13,
     <1>14, <1>15, <1>16, <1>17, <1>18, <1>19, <1>20, <1>21, <1>22, <1>23, <1>24,
     <1>25, <1>26, <1>27, <1>28, <1>29, <1>30, <1>31, <1>32, <1>33, <1>34, <1>35,
     <1>36, <1>37, <1>38, <1>39, <1>40, <1>41, <1>42, <1>43, <1>44, <1>45, <1>46,
     <1>47, <1>48, <1>49, <1>50, <1>51, <1>52, <1>53 DEF Request, Handle

(***************************************************************************)
(* Mutual exclusion.  The proof is about labels only: which mutexes a      *)
(* handler holds at each of them, and how a step passes between them.      *)
(***************************************************************************)
FreeLabels ==
  {"idle", "done", "create", "ejecucion_a_bloqueado", "decrementar_semaforo",
   "incrementar_semaforo", "desjoinear", "close_switch", "close_new",
   "close_blocked", "close_ready", "close_execute", "metricas_semaforos",
   "metricas_multiprog", "sem_wait", "pick", "listo_a_ejecucion"}

\* Every other handler stays where it is.
OthersStay(p) == \A q \in Programs \ {p} : pc'[q] = pc[q]

\* A handler moves itself and no other.
LEMMA StepOthersStay ==
  ASSUME ControlOK, NEW p \in Programs, NEW l, GoTo(p, l)
  PROVE  OthersStay(p) /\ pc'[p] = l
  BY DEF OthersStay, GoTo, ControlOK

\* A step outside all critical sections.
LEMMA FreeStep ==
  ASSUME MutualExclusion, NEW p \in Programs, OthersStay(p), UNCHANGED owner,
         pc[p] \in FreeLabels, pc'[p] \in FreeLabels
  PROVE  MutualExclusion'
<1>1. \A m \in Mutexes : pc[p] \notin MayHold(m) /\ pc'[p] \notin Holds(m)
  BY DEF FreeLabels, Holds, MayHold, Mutexes
<1> QED
  BY <1>1 DEF MutualExclusion, OthersStay

\* A step within a critical section.
LEMMA InsideStep ==
  ASSUME MutualExclusion, NEW p \in Programs, OthersStay(p), UNCHANGED owner,
         \A m \in Mutexes : /\ pc'[p] \in Holds(m) => pc[p] \in Holds(m)
                            /\ pc[p] \in MayHold(m) => pc'[p] \in MayHold(m)
  PROVE  MutualExclusion'
  BY DEF MutualExclusion, OthersStay

\* A step that takes the mutex n.
LEMMA LockStep ==
  ASSUME MutualExclusion, DataOK, NEW p \in Programs, OthersStay(p), NEW n \in Mutexes,
         Free(n), Lock(p, n), pc'[p] \in MayHold(n),
         \A m \in Mutexes \ {n} : /\ pc'[p] \in Holds(m) => pc[p] \in Holds(m)
                                  /\ pc[p] \in MayHold(m) => pc'[p] \in MayHold(m)
  PROVE  MutualExclusion'
<1>1. \A q \in Programs : q # NULL
  BY SuseAssumption
<1>2. owner'[n] = p /\ \A m \in Mutexes \ {n} : owner'[m] = owner[m]
  BY DEF Lock, DataOK
<1>3. \A q \in Programs : owner[n] # q
  BY <1>1 DEF Free
<1> QED
  BY <1>2, <1>3 DEF MutualExclusion, OthersStay

\* A step that releases everything.
LEMMA UnlockStep ==
  ASSUME MutualExclusion, NEW p \in Programs, OthersStay(p), UnlockAll(p),
         pc'[p] \in FreeLabels
  PROVE  MutualExclusion'
<1>1. \A m \in Mutexes : pc'[p] \notin Holds(m)
  BY DEF FreeLabels, Holds, Mutexes
<1>2. \A m \in Mutexes : owner'[m] # p
  BY SuseAssumption DEF UnlockAll
<1>3. \A m \in Mutexes, q \in Programs \ {p} : owner'[m] = q <=> owner[m] = q
  BY SuseAssumption DEF UnlockAll
<1> QED
  BY <1>1, <1>2, <1>3 DEF MutualExclusion, OthersStay

\* Every step keeps each mutex with the handler inside its critical section.
LEMMA MutexNext ==
  ASSUME TypeInv, MutualExclusion, Next
  PROVE  MutualExclusion'
<1>0. DataOK /\ ControlOK
  BY DEF TypeInv
<1>1. PICK p \in Programs : Request(p) \/ Handle(p) \/ Crash(p)
  BY DEF Next
<1>2. ASSUME CreateMain(p)
      PROVE  MutualExclusion'
  BY <1>0, <1>2, StepOthersStay, FreeStep DEF CreateMain, At, FreeLabels,
     ULT_create
<1>3. ASSUME NEW t \in Tids, CreateUlt(p, t)
      PROVE  MutualExclusion'
  BY <1>0, <1>3, StepOthersStay, FreeStep DEF CreateUlt, At, FreeLabels,
     ULT_create
<1>4. ASSUME ScheduleNext(p)
      PROVE  MutualExclusion'
  BY <1>0, <1>4, StepOthersStay, FreeStep DEF ScheduleNext, At, FreeLabels
<1>5. ASSUME CloseMain(p)
      PROVE  MutualExclusion'
  BY <1>0, <1>5, StepOthersStay, FreeStep DEF CloseMain, At, FreeLabels,
     Closable
<1>6. ASSUME Disconnect(p)
      PROVE  MutualExclusion'
  BY <1>0, <1>6, StepOthersStay, FreeStep DEF Disconnect, At, FreeLabels
<1>7. ASSUME NEW t \in Tids, Join(p, t)
      PROVE  MutualExclusion'
  BY <1>0, <1>7, StepOthersStay, FreeStep DEF Join, At, FreeLabels
<1>8. ASSUME NEW t \in Tids, JoinReturns(p, t)
      PROVE  MutualExclusion'
  BY <1>0, <1>8 DEF MutualExclusion, JoinReturns
<1>9. ASSUME NEW t \in Tids, ReceiveClose(p, t)
      PROVE  MutualExclusion'
  <2>1. PICK l \in {"close_switch", "desjoinear"} : GoTo(p, l)
    BY <1>0, <1>9 DEF ReceiveClose
  <2> QED
    BY <1>0, <1>9, <2>1, StepOthersStay, FreeStep DEF ReceiveClose, At,
       FreeLabels, Closable
<1>10. ASSUME NEW t \in Tids, CloseUnknown(p, t)
      PROVE  MutualExclusion'
  BY <1>0, <1>10 DEF MutualExclusion, CloseUnknown
<1>11. ASSUME NEW s \in Semaphores, ReceiveWait(p, s)
      PROVE  MutualExclusion'
  BY <1>0, <1>11, StepOthersStay, FreeStep DEF ReceiveWait, At, FreeLabels
<1>12. ASSUME NEW s \in Semaphores, ReceiveSignal(p, s)
      PROVE  MutualExclusion'
  BY <1>0, <1>12, StepOthersStay, FreeStep DEF ReceiveSignal, At, FreeLabels
<1>13. ASSUME NotAdmitted(p)
      PROVE  MutualExclusion'
  BY <1>0, <1>13, StepOthersStay, FreeStep DEF NotAdmitted, At, FreeLabels,
     Reply
<1>14. ASSUME AdmitUlt(p)
      PROVE  MutualExclusion'
  <2>1. GoTo(p, "nuevo_a_listo_create") /\ Free("multiprog") /\ Lock(p, "multiprog")
    BY <1>14 DEF AdmitUlt, nuevo_a_listo_add, MoveNext
  <2> QED
    BY <1>0, <1>14, <2>1, StepOthersStay, LockStep DEF AdmitUlt, At, Mutexes,
       Holds, MayHold
<1>15. ASSUME AdmitMain(p)
      PROVE  MutualExclusion'
  <2>1. GoTo(p, "nuevo_a_ejecucion") /\ Free("multiprog") /\ Lock(p, "multiprog")
    BY <1>15 DEF AdmitMain, MoveNext
  <2> QED
    BY <1>0, <1>15, <2>1, StepOthersStay, LockStep DEF AdmitMain, At, Mutexes,
       Holds, MayHold
<1>16. ASSUME NuevoAListoCreate(p)
      PROVE  MutualExclusion'
  BY <1>0, <1>16, StepOthersStay, UnlockStep DEF NuevoAListoCreate,
     FreeLabels, Reply, nuevo_a_listo
<1>17. ASSUME nuevo_a_ejecucion(p)
      PROVE  MutualExclusion'
  BY <1>0, <1>17, StepOthersStay, UnlockStep DEF nuevo_a_ejecucion,
     FreeLabels, Reply
<1>18. ASSUME ejecucion_a_bloqueado(p)
      PROVE  MutualExclusion'
  BY <1>0, <1>18, StepOthersStay, FreeStep DEF ejecucion_a_bloqueado, At,
     FreeLabels, Reply
<1>19. ASSUME decrementar_semaforo(p)
      PROVE  MutualExclusion'
  BY <1>0, <1>19, StepOthersStay, FreeStep DEF decrementar_semaforo, At,
     FreeLabels, Reply
<1>20. ASSUME BlockOnSemaphore(p)
      PROVE  MutualExclusion'
  <2>1. GoTo(p, "ejecucion_a_bloqueado_por_semaforo") /\ Free("semaforos") /\ Lock(p, "semaforos")
    BY <1>20 DEF BlockOnSemaphore
  <2> QED
    BY <1>0, <1>20, <2>1, StepOthersStay, LockStep DEF BlockOnSemaphore, At,
       Mutexes, Holds, MayHold
<1>21. ASSUME ejecucion_a_bloqueado_por_semaforo(p)
      PROVE  MutualExclusion'
  <2>1. GoTo(p, "idle") /\ UnlockAll(p)
    BY <1>21 DEF ejecucion_a_bloqueado_por_semaforo, Reply
  <2> QED
    BY <1>0, <2>1, StepOthersStay, UnlockStep DEF FreeLabels
<1>22. ASSUME SignalAtMax(p)
      PROVE  MutualExclusion'
  BY <1>0, <1>22, StepOthersStay, FreeStep DEF SignalAtMax, At, FreeLabels,
     Reply
<1>23. ASSUME SignalNoWaiter(p)
      PROVE  MutualExclusion'
  BY <1>0, <1>23, StepOthersStay, FreeStep DEF SignalNoWaiter, At, FreeLabels,
     Reply
<1>24. ASSUME desbloquear_hilos_semaforo(p)
      PROVE  MutualExclusion'
  <2>1. GoTo(p, "bloqueado_a_listo_signal") /\ Free("semaforos") /\ Lock(p, "semaforos")
    BY <1>24 DEF desbloquear_hilos_semaforo, MoveNext
  <2>2. pc[p] = "incrementar_semaforo"
    BY <1>24 DEF desbloquear_hilos_semaforo, At
  <2> QED
    BY <1>0, <2>1, <2>2, StepOthersStay, LockStep DEF Mutexes, Holds, MayHold
<1>25. ASSUME BloqueadoAListoSignal(p)
      PROVE  MutualExclusion'
  <2>1. GoTo(p, "idle") /\ UnlockAll(p)
    BY <1>25 DEF BloqueadoAListoSignal, Reply, bloqueado_a_listo
  <2> QED
    BY <1>0, <2>1, StepOthersStay, UnlockStep DEF FreeLabels
<1>26. ASSUME JoinerStillWaits(p)
      PROVE  MutualExclusion'
  BY <1>0, <1>26 DEF MutualExclusion, JoinerStillWaits
<1>27. ASSUME JoinerReady(p)
      PROVE  MutualExclusion'
  <2>1. GoTo(p, "bloqueado_a_listo_join") /\ Free("multiprog") /\ Lock(p, "multiprog")
    BY <1>27 DEF JoinerReady, MoveNext, Unjoin
  <2>2. pc[p] = "desjoinear"
    BY <1>27 DEF JoinerReady, Unjoin, At
  <2> QED
    BY <1>0, <2>1, <2>2, StepOthersStay, LockStep DEF Mutexes, Holds, MayHold
<1>28. ASSUME JoinerNew(p)
      PROVE  MutualExclusion'
  <2>1. GoTo(p, "joiner_a_nuevo") /\ Free("multiprog") /\ Lock(p, "multiprog")
    BY <1>28 DEF JoinerNew, Unjoin
  <2>2. pc[p] = "desjoinear"
    BY <1>28 DEF JoinerNew, Unjoin, At
  <2> QED
    BY <1>0, <2>1, <2>2, StepOthersStay, LockStep DEF Mutexes, Holds, MayHold
<1>29. ASSUME BloqueadoAListoJoin(p)
      PROVE  MutualExclusion'
  BY <1>0, <1>29, StepOthersStay, UnlockStep DEF BloqueadoAListoJoin,
     FreeLabels, NextJoiner, bloqueado_a_listo
<1>30. ASSUME joiner_a_nuevo(p)
      PROVE  MutualExclusion'
  BY <1>0, <1>30, StepOthersStay, UnlockStep DEF joiner_a_nuevo, FreeLabels,
     NextJoiner
<1>31. ASSUME AllUnjoined(p)
      PROVE  MutualExclusion'
  BY <1>0, <1>31, StepOthersStay, FreeStep DEF AllUnjoined, At, FreeLabels
<1>32. ASSUME close_switch(p)
      PROVE  MutualExclusion'
  <2>1. PICK l \in {"close_new", "close_blocked", "close_ready", "close_execute",
                   "metricas_semaforos"} : GoTo(p, l)
    BY <1>0, <1>32 DEF close_switch, DataOK, Estados
  <2> QED
    BY <1>0, <1>32, <2>1, StepOthersStay, FreeStep DEF close_switch, At,
       FreeLabels
<1>33. ASSUME CloseNew(p)
      PROVE  MutualExclusion'
  <2>1. GoTo(p, "nuevo_a_exit") /\ Free("new_queue") /\ Lock(p, "new_queue")
    BY <1>33 DEF CloseNew, MoveNext
  <2> QED
    BY <1>0, <1>33, <2>1, StepOthersStay, LockStep DEF CloseNew, At, Mutexes,
       Holds, MayHold
<1>34. ASSUME nuevo_a_exit(p)
      PROVE  MutualExclusion'
  BY <1>0, <1>34, StepOthersStay, UnlockStep DEF nuevo_a_exit, FreeLabels
<1>35. ASSUME CloseBlocked(p)
      PROVE  MutualExclusion'
  <2>1. GoTo(p, "close_blocked_multiprog") /\ Free("blocked_queue") /\ Lock(p, "blocked_queue")
    BY <1>35 DEF CloseBlocked
  <2> QED
    BY <1>0, <1>35, <2>1, StepOthersStay, LockStep DEF CloseBlocked, At,
       Mutexes, Holds, MayHold
<1>36. ASSUME CloseBlockedMultiprog(p)
      PROVE  MutualExclusion'
  <2>1. GoTo(p, "bloqueado_a_exit") /\ Free("multiprog") /\ Lock(p, "multiprog")
    BY <1>36 DEF CloseBlockedMultiprog, LeaveMultiprog, MoveNext
  <2> QED
    BY <1>0, <1>36, <2>1, StepOthersStay, LockStep DEF CloseBlockedMultiprog,
       At, Mutexes, Holds, MayHold
<1>37. ASSUME bloqueado_a_exit(p)
      PROVE  MutualExclusion'
  <2>1. GoTo(p, "obtener_ULT_ready_FIFO") /\ UNCHANGED owner
    BY <1>37 DEF bloqueado_a_exit
  <2> QED
    BY <1>0, <1>37, <2>1, StepOthersStay, InsideStep DEF bloqueado_a_exit, At,
       Mutexes, Holds, MayHold
<1>38. ASSUME CloseReady(p)
      PROVE  MutualExclusion'
  <2>1. GoTo(p, "listo_a_exit") /\ Free("multiprog") /\ Lock(p, "multiprog")
    BY <1>38 DEF CloseReady, LeaveMultiprog, MoveNext
  <2> QED
    BY <1>0, <1>38, <2>1, StepOthersStay, LockStep DEF CloseReady, At,
       Mutexes, Holds, MayHold
<1>39. ASSUME listo_a_exit(p)
      PROVE  MutualExclusion'
  <2>1. GoTo(p, "listo_a_exit_wait") /\ UNCHANGED owner
    BY <1>39 DEF listo_a_exit
  <2> QED
    BY <1>0, <1>39, <2>1, StepOthersStay, InsideStep DEF listo_a_exit, At,
       Mutexes, Holds, MayHold
<1>40. ASSUME ListoAExitWait(p)
      PROVE  MutualExclusion'
  <2>1. GoTo(p, "obtener_ULT_ready_FIFO") /\ UNCHANGED owner
    BY <1>40 DEF ListoAExitWait
  <2> QED
    BY <1>0, <1>40, <2>1, StepOthersStay, InsideStep DEF ListoAExitWait, At,
       Mutexes, Holds, MayHold
<1>41. ASSUME CloseExecute(p)
      PROVE  MutualExclusion'
  <2>1. GoTo(p, "obtener_ULT_ready_FIFO") /\ Free("multiprog") /\ Lock(p, "multiprog")
    BY <1>41 DEF CloseExecute
  <2> QED
    BY <1>0, <1>41, <2>1, StepOthersStay, LockStep DEF CloseExecute, At,
       Mutexes, Holds, MayHold
<1>42. ASSUME obtener_ULT_ready_FIFO(p)
      PROVE  MutualExclusion'
  <2>1. GoTo(p, "nuevo_a_listo_FIFO") /\ UNCHANGED owner
    BY <1>42 DEF obtener_ULT_ready_FIFO, nuevo_a_listo_add, MoveNext
  <2> QED
    BY <1>0, <1>42, <2>1, StepOthersStay, InsideStep DEF
       obtener_ULT_ready_FIFO, At, Mutexes, Holds, MayHold
<1>43. ASSUME NobodyToAdmit(p)
      PROVE  MutualExclusion'
  BY <1>0, <1>43, StepOthersStay, UnlockStep DEF NobodyToAdmit, FreeLabels
<1>44. ASSUME NuevoAListoFIFO(p)
      PROVE  MutualExclusion'
  BY <1>0, <1>44, StepOthersStay, UnlockStep DEF NuevoAListoFIFO, FreeLabels,
     nuevo_a_listo
<1>45. ASSUME MetricasSemaforos(p)
      PROVE  MutualExclusion'
  BY <1>0, <1>45, StepOthersStay, FreeStep DEF MetricasSemaforos, At,
     FreeLabels
<1>46. ASSUME MetricasMultiprog(p)
      PROVE  MutualExclusion'
  BY <1>0, <1>46, StepOthersStay, FreeStep DEF MetricasMultiprog, At,
     FreeLabels, Reply
<1>47. ASSUME SemWait(p)
      PROVE  MutualExclusion'
  BY <1>0, <1>47, StepOthersStay, FreeStep DEF SemWait, At, FreeLabels
<1>48. ASSUME PickReady(p)
      PROVE  MutualExclusion'
  BY <1>0, <1>48, StepOthersStay, FreeStep DEF PickReady, At, FreeLabels,
     MoveNext
<1>49. ASSUME PickNone(p)
      PROVE  MutualExclusion'
  BY <1>0, <1>49, StepOthersStay, FreeStep DEF PickNone, At, FreeLabels, Reply
<1>50. ASSUME listo_a_ejecucion(p)
      PROVE  MutualExclusion'
  BY <1>0, <1>50, StepOthersStay, FreeStep DEF listo_a_ejecucion, At,
     FreeLabels, Reply
<1>51. ASSUME Crash(p)
      PROVE  MutualExclusion'
  BY <1>0, <1>51 DEF MutualExclusion, Crash
<1> QED
  BY <1>1, <1>2, <1>3, <1>4, <1>5, <1>6, <1>7, <1>8, <1>9, <1>10, <1>11,
     <1>12, <1>13, <1>14, <1>15, <1>16, <1>17, <1>18, <1>19, <1>20, <1>21, <1>22,
     <1>23, <1>24, <1>25, <1>26, <1>27, <1>28, <1>29, <1>30, <1>31, <1>32, <1>33,
     <1>34, <1>35, <1>36, <1>37, <1>38, <1>39, <1>40, <1>41, <1>42, <1>43, <1>44,
     <1>45, <1>46, <1>47, <1>48, <1>49, <1>50, <1>51 DEF Request, Handle

(***************************************************************************)
(* Which steps touch the semaphores, and which the degree of            *)
(* multiprogramming.                                                       *)
(***************************************************************************)
Inside == Holds("semaforos")

\* Where a thread is about to be let in, its place having been checked.
Admitting == {"nuevo_a_listo_create", "nuevo_a_ejecucion", "nuevo_a_listo_FIFO"}

\* Every other handler keeps its place and its locals.
OthersKeep(p) ==
  \A q \in Programs \ {p} : pc'[q] = pc[q] /\ in'[q] = in[q]

SemaphoreAction(p) ==
  \/ \E s \in Semaphores : ReceiveWait(p, s) \/ ReceiveSignal(p, s)
  \/ decrementar_semaforo(p) \/ BlockOnSemaphore(p)
  \/ ejecucion_a_bloqueado_por_semaforo(p)
  \/ SignalAtMax(p) \/ SignalNoWaiter(p)
  \/ desbloquear_hilos_semaforo(p) \/ BloqueadoAListoSignal(p)

LeavesSemaphores(p) ==
  /\ OthersKeep(p)
  /\ UNCHANGED sems
  /\ \/ pc[p] \notin SemLabels /\ pc'[p] \notin SemLabels
     \/ UNCHANGED <<pc, in>>

DegreeAction(p) ==
  \/ AdmitUlt(p) \/ AdmitMain(p) \/ obtener_ULT_ready_FIFO(p)
  \/ NuevoAListoCreate(p) \/ nuevo_a_ejecucion(p) \/ NuevoAListoFIFO(p)
  \/ CloseBlockedMultiprog(p) \/ CloseReady(p) \/ CloseExecute(p)

LeavesDegree ==
  /\ UNCHANGED ACTUAL_MULTIPROG
  /\ \A q \in Programs : pc'[q] \in Admitting => pc[q] \in Admitting

\* Every step of the system, by what it does to the two.
LEMMA KindsOfSteps ==
  ASSUME TypeInv, Next
  PROVE  \E p \in Programs : /\ SemaphoreAction(p) \/ LeavesSemaphores(p)
                             /\ DegreeAction(p) \/ LeavesDegree
<1> DEFINE Kinds(p) == /\ SemaphoreAction(p) \/ LeavesSemaphores(p)
                       /\ DegreeAction(p) \/ LeavesDegree
<1>0. DataOK /\ ControlOK
  BY DEF TypeInv
<1>1. PICK p \in Programs : Request(p) \/ Handle(p) \/ Crash(p)
  BY DEF Next
<1> USE DEF sems
<1>2. ASSUME CreateMain(p)
      PROVE  Kinds(p)
  BY <1>0, <1>2 DEF CreateMain, At, GoTo, ControlOK, ULT_create,
     LeavesSemaphores, OthersKeep, SemLabels, LeavesDegree, Admitting
<1>3. ASSUME NEW t \in Tids, CreateUlt(p, t)
      PROVE  Kinds(p)
  BY <1>0, <1>3 DEF CreateUlt, At, GoTo, ControlOK, ULT_create,
     LeavesSemaphores, OthersKeep, SemLabels, LeavesDegree, Admitting
<1>4. ASSUME ScheduleNext(p)
      PROVE  Kinds(p)
  BY <1>0, <1>4 DEF ScheduleNext, At, GoTo, ControlOK, LeavesSemaphores,
     OthersKeep, SemLabels, LeavesDegree, Admitting
<1>5. ASSUME CloseMain(p)
      PROVE  Kinds(p)
  BY <1>0, <1>5 DEF CloseMain, At, GoTo, ControlOK, Closable,
     LeavesSemaphores, OthersKeep, SemLabels, LeavesDegree, Admitting
<1>6. ASSUME Disconnect(p)
      PROVE  Kinds(p)
  BY <1>0, <1>6 DEF Disconnect, At, GoTo, ControlOK, LeavesSemaphores,
     OthersKeep, SemLabels, LeavesDegree, Admitting
<1>7. ASSUME NEW t \in Tids, Join(p, t)
      PROVE  Kinds(p)
  BY <1>0, <1>7 DEF Join, At, GoTo, ControlOK, LeavesSemaphores, OthersKeep,
     SemLabels, LeavesDegree, Admitting
<1>8. ASSUME NEW t \in Tids, JoinReturns(p, t)
      PROVE  Kinds(p)
  BY <1>0, <1>8 DEF JoinReturns, At, GoTo, ControlOK, LeavesSemaphores,
     OthersKeep, SemLabels, LeavesDegree, Admitting
<1>9. ASSUME NEW t \in Tids, ReceiveClose(p, t)
      PROVE  Kinds(p)
  <2>1. PICK l \in {"close_switch", "desjoinear"} : GoTo(p, l)
    BY <1>0, <1>9 DEF ReceiveClose
  <2> QED
    BY <1>0, <1>9, <2>1 DEF ReceiveClose, At, GoTo, ControlOK,
       LeavesSemaphores, OthersKeep, SemLabels, LeavesDegree, Admitting, Closable
<1>10. ASSUME NEW t \in Tids, CloseUnknown(p, t)
      PROVE  Kinds(p)
  BY <1>0, <1>10 DEF CloseUnknown, At, GoTo, ControlOK, LeavesSemaphores,
     OthersKeep, SemLabels, LeavesDegree, Admitting
<1>11. ASSUME NEW s \in Semaphores, ReceiveWait(p, s)
      PROVE  Kinds(p)
  BY <1>0, <1>11 DEF ReceiveWait, At, GoTo, ControlOK, SemaphoreAction,
     LeavesDegree, Admitting
<1>12. ASSUME NEW s \in Semaphores, ReceiveSignal(p, s)
      PROVE  Kinds(p)
  BY <1>0, <1>12 DEF ReceiveSignal, At, GoTo, ControlOK, SemaphoreAction,
     LeavesDegree, Admitting
<1>13. ASSUME NotAdmitted(p)
      PROVE  Kinds(p)
  BY <1>0, <1>13 DEF NotAdmitted, At, GoTo, ControlOK, Reply,
     LeavesSemaphores, OthersKeep, SemLabels, LeavesDegree, Admitting
<1>14. ASSUME AdmitUlt(p)
      PROVE  Kinds(p)
  BY <1>0, <1>14 DEF AdmitUlt, At, GoTo, ControlOK, nuevo_a_listo_add,
     MoveNext, LeavesSemaphores, OthersKeep, SemLabels, DegreeAction
<1>15. ASSUME AdmitMain(p)
      PROVE  Kinds(p)
  BY <1>0, <1>15 DEF AdmitMain, At, GoTo, ControlOK, MoveNext,
     LeavesSemaphores, OthersKeep, SemLabels, DegreeAction
<1>16. ASSUME NuevoAListoCreate(p)
      PROVE  Kinds(p)
  BY <1>0, <1>16 DEF NuevoAListoCreate, At, GoTo, ControlOK, Reply,
     nuevo_a_listo, LeavesSemaphores, OthersKeep, SemLabels, DegreeAction
<1>17. ASSUME nuevo_a_ejecucion(p)
      PROVE  Kinds(p)
  BY <1>0, <1>17 DEF nuevo_a_ejecucion, At, GoTo, ControlOK, Reply,
     LeavesSemaphores, OthersKeep, SemLabels, DegreeAction
<1>18. ASSUME ejecucion_a_bloqueado(p)
      PROVE  Kinds(p)
  BY <1>0, <1>18 DEF ejecucion_a_bloqueado, At, GoTo, ControlOK, Reply,
     LeavesSemaphores, OthersKeep, SemLabels, LeavesDegree, Admitting
<1>19. ASSUME decrementar_semaforo(p)
      PROVE  Kinds(p)
  BY <1>0, <1>19 DEF decrementar_semaforo, At, GoTo, ControlOK, Reply,
     SemaphoreAction, LeavesDegree, Admitting
<1>20. ASSUME BlockOnSemaphore(p)
      PROVE  Kinds(p)
  BY <1>0, <1>20 DEF BlockOnSemaphore, At, GoTo, ControlOK, SemaphoreAction,
     LeavesDegree, Admitting
<1>21. ASSUME ejecucion_a_bloqueado_por_semaforo(p)
      PROVE  Kinds(p)
  BY <1>0, <1>21 DEF ejecucion_a_bloqueado_por_semaforo, At, GoTo, ControlOK,
     Reply, SemaphoreAction, LeavesDegree, Admitting
<1>22. ASSUME SignalAtMax(p)
      PROVE  Kinds(p)
  BY <1>0, <1>22 DEF SignalAtMax, At, GoTo, ControlOK, Reply, SemaphoreAction,
     LeavesDegree, Admitting
<1>23. ASSUME SignalNoWaiter(p)
      PROVE  Kinds(p)
  BY <1>0, <1>23 DEF SignalNoWaiter, At, GoTo, ControlOK, Reply,
     SemaphoreAction, LeavesDegree, Admitting
<1>24. ASSUME desbloquear_hilos_semaforo(p)
      PROVE  Kinds(p)
  BY <1>0, <1>24 DEF desbloquear_hilos_semaforo, At, GoTo, ControlOK,
     MoveNext, SemaphoreAction, LeavesDegree, Admitting
<1>25. ASSUME BloqueadoAListoSignal(p)
      PROVE  Kinds(p)
  BY <1>0, <1>25 DEF BloqueadoAListoSignal, At, GoTo, ControlOK, Reply,
     bloqueado_a_listo, SemaphoreAction, LeavesDegree, Admitting
<1>26. ASSUME JoinerStillWaits(p)
      PROVE  Kinds(p)
  BY <1>0, <1>26 DEF JoinerStillWaits, At, GoTo, ControlOK, Unjoin,
     LeavesSemaphores, OthersKeep, SemLabels, LeavesDegree, Admitting
<1>27. ASSUME JoinerReady(p)
      PROVE  Kinds(p)
  BY <1>0, <1>27 DEF JoinerReady, At, GoTo, ControlOK, MoveNext, Unjoin,
     LeavesSemaphores, OthersKeep, SemLabels, LeavesDegree, Admitting
<1>28. ASSUME JoinerNew(p)
      PROVE  Kinds(p)
  BY <1>0, <1>28 DEF JoinerNew, At, GoTo, ControlOK, Unjoin, LeavesSemaphores,
     OthersKeep, SemLabels, LeavesDegree, Admitting
<1>29. ASSUME BloqueadoAListoJoin(p)
      PROVE  Kinds(p)
  BY <1>0, <1>29 DEF BloqueadoAListoJoin, At, GoTo, ControlOK, NextJoiner,
     bloqueado_a_listo, LeavesSemaphores, OthersKeep, SemLabels, LeavesDegree,
     Admitting
<1>30. ASSUME joiner_a_nuevo(p)
      PROVE  Kinds(p)
  BY <1>0, <1>30 DEF joiner_a_nuevo, At, GoTo, ControlOK, NextJoiner,
     LeavesSemaphores, OthersKeep, SemLabels, LeavesDegree, Admitting
<1>31. ASSUME AllUnjoined(p)
      PROVE  Kinds(p)
  BY <1>0, <1>31 DEF AllUnjoined, At, GoTo, ControlOK, LeavesSemaphores,
     OthersKeep, SemLabels, LeavesDegree, Admitting
<1>32. ASSUME close_switch(p)
      PROVE  Kinds(p)
  <2>1. PICK l \in {"close_new", "close_blocked", "close_ready", "close_execute",
                   "metricas_semaforos"} : GoTo(p, l)
    BY <1>0, <1>32 DEF close_switch, DataOK, Estados
  <2> QED
    BY <1>0, <1>32, <2>1 DEF close_switch, At, GoTo, ControlOK,
       LeavesSemaphores, OthersKeep, SemLabels, LeavesDegree, Admitting
<1>33. ASSUME CloseNew(p)
      PROVE  Kinds(p)
  BY <1>0, <1>33 DEF CloseNew, At, GoTo, ControlOK, MoveNext,
     LeavesSemaphores, OthersKeep, SemLabels, LeavesDegree, Admitting
<1>34. ASSUME nuevo_a_exit(p)
      PROVE  Kinds(p)
  BY <1>0, <1>34 DEF nuevo_a_exit, At, GoTo, ControlOK, a_exit,
     LeavesSemaphores, OthersKeep, SemLabels, LeavesDegree, Admitting
<1>35. ASSUME CloseBlocked(p)
      PROVE  Kinds(p)
  BY <1>0, <1>35 DEF CloseBlocked, At, GoTo, ControlOK, LeavesSemaphores,
     OthersKeep, SemLabels, LeavesDegree, Admitting
<1>36. ASSUME CloseBlockedMultiprog(p)
      PROVE  Kinds(p)
  BY <1>0, <1>36 DEF CloseBlockedMultiprog, At, GoTo, ControlOK,
     LeaveMultiprog, MoveNext, LeavesSemaphores, OthersKeep, SemLabels,
     DegreeAction
<1>37. ASSUME bloqueado_a_exit(p)
      PROVE  Kinds(p)
  BY <1>0, <1>37 DEF bloqueado_a_exit, At, GoTo, ControlOK, a_exit,
     LeavesSemaphores, OthersKeep, SemLabels, LeavesDegree, Admitting
<1>38. ASSUME CloseReady(p)
      PROVE  Kinds(p)
  BY <1>0, <1>38 DEF CloseReady, At, GoTo, ControlOK, LeaveMultiprog,
     MoveNext, LeavesSemaphores, OthersKeep, SemLabels, DegreeAction
<1>39. ASSUME listo_a_exit(p)
      PROVE  Kinds(p)
  BY <1>0, <1>39 DEF listo_a_exit, At, GoTo, ControlOK, a_exit,
     LeavesSemaphores, OthersKeep, SemLabels, LeavesDegree, Admitting
<1>40. ASSUME ListoAExitWait(p)
      PROVE  Kinds(p)
  BY <1>0, <1>40 DEF ListoAExitWait, At, GoTo, ControlOK, LeavesSemaphores,
     OthersKeep, SemLabels, LeavesDegree, Admitting
<1>41. ASSUME CloseExecute(p)
      PROVE  Kinds(p)
  BY <1>0, <1>41 DEF CloseExecute, At, GoTo, ControlOK, LeavesSemaphores,
     OthersKeep, SemLabels, DegreeAction
<1>42. ASSUME obtener_ULT_ready_FIFO(p)
      PROVE  Kinds(p)
  BY <1>0, <1>42 DEF obtener_ULT_ready_FIFO, At, GoTo, ControlOK,
     nuevo_a_listo_add, MoveNext, LeavesSemaphores, OthersKeep, SemLabels,
     DegreeAction
<1>43. ASSUME NobodyToAdmit(p)
      PROVE  Kinds(p)
  BY <1>0, <1>43 DEF NobodyToAdmit, At, GoTo, ControlOK, LeavesSemaphores,
     OthersKeep, SemLabels, LeavesDegree, Admitting
<1>44. ASSUME NuevoAListoFIFO(p)
      PROVE  Kinds(p)
  BY <1>0, <1>44 DEF NuevoAListoFIFO, At, GoTo, ControlOK, nuevo_a_listo,
     LeavesSemaphores, OthersKeep, SemLabels, DegreeAction
<1>45. ASSUME MetricasSemaforos(p)
      PROVE  Kinds(p)
  BY <1>0, <1>45 DEF MetricasSemaforos, At, GoTo, ControlOK, LeavesSemaphores,
     OthersKeep, SemLabels, LeavesDegree, Admitting
<1>46. ASSUME MetricasMultiprog(p)
      PROVE  Kinds(p)
  BY <1>0, <1>46 DEF MetricasMultiprog, At, GoTo, ControlOK, Reply,
     LeavesSemaphores, OthersKeep, SemLabels, LeavesDegree, Admitting
<1>47. ASSUME SemWait(p)
      PROVE  Kinds(p)
  BY <1>0, <1>47 DEF SemWait, At, GoTo, ControlOK, LeavesSemaphores,
     OthersKeep, SemLabels, LeavesDegree, Admitting
<1>48. ASSUME PickReady(p)
      PROVE  Kinds(p)
  BY <1>0, <1>48 DEF PickReady, At, GoTo, ControlOK, MoveNext,
     LeavesSemaphores, OthersKeep, SemLabels, LeavesDegree, Admitting
<1>49. ASSUME PickNone(p)
      PROVE  Kinds(p)
  BY <1>0, <1>49 DEF PickNone, At, GoTo, ControlOK, Reply, LeavesSemaphores,
     OthersKeep, SemLabels, LeavesDegree, Admitting
<1>50. ASSUME listo_a_ejecucion(p)
      PROVE  Kinds(p)
  BY <1>0, <1>50 DEF listo_a_ejecucion, At, GoTo, ControlOK, Reply,
     LeavesSemaphores, OthersKeep, SemLabels, LeavesDegree, Admitting
<1>51. ASSUME Crash(p)
      PROVE  Kinds(p)
  BY <1>0, <1>51 DEF Crash, At, GoTo, ControlOK, LeavesSemaphores, OthersKeep,
     SemLabels, LeavesDegree, Admitting
<1> QED
  BY <1>1, <1>2, <1>3, <1>4, <1>5, <1>6, <1>7, <1>8, <1>9, <1>10, <1>11,
     <1>12, <1>13, <1>14, <1>15, <1>16, <1>17, <1>18, <1>19, <1>20, <1>21, <1>22,
     <1>23, <1>24, <1>25, <1>26, <1>27, <1>28, <1>29, <1>30, <1>31, <1>32, <1>33,
     <1>34, <1>35, <1>36, <1>37, <1>38, <1>39, <1>40, <1>41, <1>42, <1>43, <1>44,
     <1>45, <1>46, <1>47, <1>48, <1>49, <1>50, <1>51 DEF Request, Handle

(***************************************************************************)
(* Semaphores.  Only the handler that holds mutex_semaforos touches VALUE  *)
(* and BLOCKED_LIST, so outside its critical section the two agree.        *)
(***************************************************************************)
\* With p inside, or the mutex free, no other handler is inside.
LEMMA OthersOutside ==
  ASSUME MutualExclusion, NEW p \in Programs, pc[p] \in Inside \/ Free("semaforos")
  PROVE  \A q \in Programs \ {p} : pc[q] \notin Inside
<1>1. "semaforos" \in Mutexes /\ NULL \notin Programs
  BY SuseAssumption DEF Mutexes
<1> QED
  BY <1>1 DEF MutualExclusion, Free, Inside

\* Then p decides whether the semaphore of its request is being updated.
LEMMA WhoUpdates ==
  ASSUME NEW p \in Programs, \A q \in Programs \ {p} : pc[q] \notin Inside,
         in[p].sem \in Semaphores
  PROVE  Updating(in[p].sem) <=> pc[p] \in Inside
  BY DEF Updating, Inside

\* A step that is none of the semaphores' own.
LEMMA QuietStep ==
  ASSUME SemaphoreAccounting, NEW p \in Programs, LeavesSemaphores(p)
  PROVE  SemaphoreAccounting'
<1>1. \A s \in Semaphores : Updating(s)' <=> Updating(s)
  <2>1. CASE pc[p] \notin SemLabels /\ pc'[p] \notin SemLabels
    <3>1. pc[p] \notin Inside /\ pc'[p] \notin Inside
      BY <2>1 DEF Inside, Holds, SemLabels
    <3> QED
      BY <3>1 DEF LeavesSemaphores, OthersKeep, Updating, Inside, Holds
  <2>2. CASE UNCHANGED <<pc, in>>
    BY <2>2 DEF Updating, Holds
  <2> QED
    BY <2>1, <2>2 DEF LeavesSemaphores
<1> QED
  BY <1>1 DEF SemaphoreAccounting, LeavesSemaphores, sems

\* A step of p that changes semaphore s alone, with nobody else inside.
LEMMA SemaphoreStep ==
  ASSUME TypeInv, SemaphoreAccounting, NEW p \in Programs, NEW s \in Semaphores,
         OthersKeep(p), \A q \in Programs \ {p} : pc[q] \notin Inside,
         pc[p] \in Inside => in[p].sem = s,
         pc'[p] \in Inside => in'[p].sem = s,
         NEW v \in Int, NEW l \in ThreadLists,
         VALUE' = [VALUE EXCEPT ![s] = v],
         BLOCKED_LIST' = [BLOCKED_LIST EXCEPT ![s] = l],
         Len(l) = Negative(v) + (IF pc'[p] \in Inside THEN 1 ELSE 0),
         v <= SEM_MAX[s], pc'[p] \in Inside => v <= 0
  PROVE  SemaphoreAccounting'
<1>1. \A r \in Semaphores : Updating(r)' <=> (pc'[p] \in Inside /\ in'[p].sem = r)
  BY DEF OthersKeep, Updating, Inside, Holds
<1>2. \A r \in Semaphores \ {s} : ~Updating(r) /\ ~Updating(r)'
  BY <1>1 DEF Updating, Inside
<1>3. /\ VALUE'[s] = v /\ BLOCKED_LIST'[s] = l
      /\ \A r \in Semaphores \ {s} : VALUE'[r] = VALUE[r] /\ BLOCKED_LIST'[r] = BLOCKED_LIST[r]
  BY DEF TypeInv, DataOK
<1> QED
  BY <1>1, <1>2, <1>3 DEF SemaphoreAccounting

\* What a handler at one of the semaphore labels works on.
LEMMA AtSemaphore ==
  ASSUME TypeInv, SemaphoreAccounting, NEW p \in Programs, pc[p] \in SemLabels
  PROVE  /\ in[p].sem \in Semaphores
         /\ VALUE[in[p].sem] \in Int
         /\ BLOCKED_LIST[in[p].sem] \in ThreadLists
         /\ SEM_MAX[in[p].sem] \in Nat
         /\ VALUE[in[p].sem] <= SEM_MAX[in[p].sem]
         /\ (\A q \in Programs \ {p} : pc[q] \notin Inside) =>
              /\ Len(BLOCKED_LIST[in[p].sem]) =
                   Negative(VALUE[in[p].sem]) + (IF pc[p] \in Inside THEN 1 ELSE 0)
              /\ pc[p] \in Inside => VALUE[in[p].sem] <= 0
<1>1. LocalsFor(pc[p], in[p]) /\ DataOK
  BY DEF TypeInv, ControlOK, LocalsSet
<1>2. in[p].sem \in Semaphores
  BY <1>1 DEF LocalsFor
<1> QED
  BY <1>1, <1>2, WhoUpdates, SuseAssumption DEF SemaphoreAccounting, DataOK

\* SemaphoreAccounting is preserved: six steps change a semaphore.
LEMMA AccountingNext ==
  ASSUME TypeInv, MutualExclusion, SemaphoreAccounting, Next
  PROVE  SemaphoreAccounting'
<1>0. DataOK /\ ControlOK
  BY DEF TypeInv
<1>1. PICK p \in Programs : SemaphoreAction(p) \/ LeavesSemaphores(p)
  BY KindsOfSteps
<1> DEFINE s == in[p].sem
           v == VALUE[s]
           b == BLOCKED_LIST[s]
<1>2. ASSUME NEW sem \in Semaphores, ReceiveWait(p, sem) \/ ReceiveSignal(p, sem)
      PROVE  SemaphoreAccounting'
  <2>1. pc[p] \notin Inside /\ pc'[p] \notin Inside /\ OthersKeep(p) /\ UNCHANGED sems
    BY <1>0, <1>2 DEF ReceiveWait, ReceiveSignal, At, GoTo, ControlOK, OthersKeep,
       Inside, Holds
  <2>2. \A r \in Semaphores : Updating(r)' <=> Updating(r)
    BY <2>1 DEF OthersKeep, Updating, Inside, Holds
  <2> QED
    BY <2>1, <2>2 DEF SemaphoreAccounting, sems
<1>3. ASSUME SignalAtMax(p)
      PROVE  SemaphoreAccounting'
  <2>1. pc[p] \notin Inside /\ pc'[p] \notin Inside /\ OthersKeep(p) /\ UNCHANGED sems
    BY <1>0, <1>3 DEF SignalAtMax, At, GoTo, Reply, ControlOK, OthersKeep, Inside, Holds
  <2>2. \A r \in Semaphores : Updating(r)' <=> Updating(r)
    BY <2>1 DEF OthersKeep, Updating, Inside, Holds
  <2> QED
    BY <2>1, <2>2 DEF SemaphoreAccounting, sems
<1>4. ASSUME decrementar_semaforo(p)
      PROVE  SemaphoreAccounting'
  <2>1. pc[p] = "decrementar_semaforo" /\ Free("semaforos")
    BY <1>4 DEF decrementar_semaforo, At
  <2>2. /\ OthersKeep(p) /\ pc'[p] = "idle"
        /\ VALUE' = [VALUE EXCEPT ![s] = v - 1]
        /\ BLOCKED_LIST' = [BLOCKED_LIST EXCEPT ![s] = b]
    BY <1>0, <1>4 DEF decrementar_semaforo, OthersKeep, GoTo, ControlOK,
       DataOK, Reply
  <2>3. \A q \in Programs \ {p} : pc[q] \notin Inside
    BY <2>1, OthersOutside DEF Inside, Holds
  <2>4. /\ s \in Semaphores /\ v \in Int /\ b \in ThreadLists
        /\ SEM_MAX[s] \in Nat /\ v <= SEM_MAX[s]
        /\ Len(b) = Negative(v) + (IF pc[p] \in Inside THEN 1 ELSE 0)
        /\ pc[p] \in Inside => v <= 0
    BY <2>1, <2>3, AtSemaphore DEF SemLabels
  <2>6. b \in ThreadLists /\ v - 1 \in Int
    BY <2>4
  <2>7. /\ Len(b) = Negative(v - 1) + (IF pc'[p] \in Inside THEN 1 ELSE 0)
        /\ v - 1 <= SEM_MAX[s]
    BY <2>1, <2>2, <2>4, <1>4 DEF Negative, Inside, Holds,
       decrementar_semaforo
  <2> HIDE DEF s, v, b
  <2> QED
    BY <2>1, <2>2, <2>3, <2>4, <2>6, <2>7, SemaphoreStep DEF Inside, Holds, s
<1>5. ASSUME BlockOnSemaphore(p)
      PROVE  SemaphoreAccounting'
  <2>1. pc[p] = "decrementar_semaforo" /\ Free("semaforos")
    BY <1>5 DEF BlockOnSemaphore, At
  <2>2. /\ OthersKeep(p) /\ pc'[p] = "ejecucion_a_bloqueado_por_semaforo"
        /\ VALUE' = [VALUE EXCEPT ![s] = v]
        /\ BLOCKED_LIST' = [BLOCKED_LIST EXCEPT ![s] = Append(b, in[p].ult)]
    BY <1>0, <1>5 DEF BlockOnSemaphore, OthersKeep, GoTo, ControlOK, DataOK
  <2>3. \A q \in Programs \ {p} : pc[q] \notin Inside
    BY <2>1, OthersOutside DEF Inside, Holds
  <2>4. /\ s \in Semaphores /\ v \in Int /\ b \in ThreadLists
        /\ SEM_MAX[s] \in Nat /\ v <= SEM_MAX[s]
        /\ Len(b) = Negative(v) + (IF pc[p] \in Inside THEN 1 ELSE 0)
        /\ pc[p] \in Inside => v <= 0
    BY <2>1, <2>3, AtSemaphore DEF SemLabels
  <2>5. in[p].ult \in Threads
    BY <1>0, <2>1, LocalsWanted DEF ControlOK, LocalsSet
  <2>6. Append(b, in[p].ult) \in ThreadLists /\ v \in Int /\ in'[p].sem = s
    BY <1>0, <2>4, <2>5, <1>5, ListType DEF BlockOnSemaphore
  <2>7. /\ Len(Append(b, in[p].ult)) = Negative(v) + (IF pc'[p] \in Inside THEN 1 ELSE 0)
        /\ v <= SEM_MAX[s] /\ v <= 0
    BY <2>1, <2>2, <2>4, <1>5, <2>5 DEF Negative, Inside, Holds,
       BlockOnSemaphore, ThreadLists
  <2> HIDE DEF s, v, b
  <2> QED
    BY <2>1, <2>2, <2>3, <2>4, <2>6, <2>7, SemaphoreStep DEF Inside, Holds, s
<1>6. ASSUME ejecucion_a_bloqueado_por_semaforo(p)
      PROVE  SemaphoreAccounting'
  <2>1. pc[p] = "ejecucion_a_bloqueado_por_semaforo"
    BY <1>6 DEF ejecucion_a_bloqueado_por_semaforo, At
  <2>2. /\ OthersKeep(p) /\ pc'[p] = "idle"
        /\ VALUE' = [VALUE EXCEPT ![s] = v - 1]
        /\ BLOCKED_LIST' = [BLOCKED_LIST EXCEPT ![s] = b]
    BY <1>0, <1>6 DEF ejecucion_a_bloqueado_por_semaforo, OthersKeep, GoTo,
       ControlOK, DataOK, Reply
  <2>3. \A q \in Programs \ {p} : pc[q] \notin Inside
    BY <2>1, OthersOutside DEF Inside, Holds
  <2>4. /\ s \in Semaphores /\ v \in Int /\ b \in ThreadLists
        /\ SEM_MAX[s] \in Nat /\ v <= SEM_MAX[s]
        /\ Len(b) = Negative(v) + (IF pc[p] \in Inside THEN 1 ELSE 0)
        /\ pc[p] \in Inside => v <= 0
    BY <2>1, <2>3, AtSemaphore DEF SemLabels
  <2>6. b \in ThreadLists /\ v - 1 \in Int
    BY <2>4
  <2>7. /\ Len(b) = Negative(v - 1) + (IF pc'[p] \in Inside THEN 1 ELSE 0)
        /\ v - 1 <= SEM_MAX[s]
    BY <2>1, <2>2, <2>4, <1>6 DEF Negative, Inside, Holds,
       ejecucion_a_bloqueado_por_semaforo
  <2> HIDE DEF s, v, b
  <2> QED
    BY <2>1, <2>2, <2>3, <2>4, <2>6, <2>7, SemaphoreStep DEF Inside, Holds, s
<1>7. ASSUME SignalNoWaiter(p)
      PROVE  SemaphoreAccounting'
  <2>1. pc[p] = "incrementar_semaforo" /\ Free("semaforos")
    BY <1>7 DEF SignalNoWaiter, At
  <2>2. /\ OthersKeep(p) /\ pc'[p] = "idle"
        /\ VALUE' = [VALUE EXCEPT ![s] = v + 1]
        /\ BLOCKED_LIST' = [BLOCKED_LIST EXCEPT ![s] = b]
    BY <1>0, <1>7 DEF SignalNoWaiter, OthersKeep, GoTo, ControlOK, DataOK,
       Reply
  <2>3. \A q \in Programs \ {p} : pc[q] \notin Inside
    BY <2>1, OthersOutside DEF Inside, Holds
  <2>4. /\ s \in Semaphores /\ v \in Int /\ b \in ThreadLists
        /\ SEM_MAX[s] \in Nat /\ v <= SEM_MAX[s]
        /\ Len(b) = Negative(v) + (IF pc[p] \in Inside THEN 1 ELSE 0)
        /\ pc[p] \in Inside => v <= 0
    BY <2>1, <2>3, AtSemaphore DEF SemLabels
  <2>6. b \in ThreadLists /\ v + 1 \in Int
    BY <2>4
  <2>7. /\ Len(b) = Negative(v + 1) + (IF pc'[p] \in Inside THEN 1 ELSE 0)
        /\ v + 1 <= SEM_MAX[s]
    BY <2>1, <2>2, <2>4, <1>7 DEF Negative, Inside, Holds, SignalNoWaiter,
       ThreadLists
  <2> HIDE DEF s, v, b
  <2> QED
    BY <2>1, <2>2, <2>3, <2>4, <2>6, <2>7, SemaphoreStep DEF Inside, Holds, s
<1>8. ASSUME desbloquear_hilos_semaforo(p)
      PROVE  SemaphoreAccounting'
  <2>1. pc[p] = "incrementar_semaforo" /\ Free("semaforos")
    BY <1>8 DEF desbloquear_hilos_semaforo, At
  <2>2. /\ OthersKeep(p) /\ pc'[p] = "bloqueado_a_listo_signal"
        /\ VALUE' = [VALUE EXCEPT ![s] = v + 1]
        /\ BLOCKED_LIST' = [BLOCKED_LIST EXCEPT ![s] = b]
    BY <1>0, <1>8 DEF desbloquear_hilos_semaforo, OthersKeep, GoTo, ControlOK,
       DataOK, MoveNext
  <2>3. \A q \in Programs \ {p} : pc[q] \notin Inside
    BY <2>1, OthersOutside DEF Inside, Holds
  <2>4. /\ s \in Semaphores /\ v \in Int /\ b \in ThreadLists
        /\ SEM_MAX[s] \in Nat /\ v <= SEM_MAX[s]
        /\ Len(b) = Negative(v) + (IF pc[p] \in Inside THEN 1 ELSE 0)
        /\ pc[p] \in Inside => v <= 0
    BY <2>1, <2>3, AtSemaphore DEF SemLabels
  <2>6. b \in ThreadLists /\ v + 1 \in Int /\ in'[p].sem = s
    BY <1>0, <2>4, <1>8 DEF desbloquear_hilos_semaforo, MoveNext, ControlOK,
       Locals
  <2>7. /\ Len(b) = Negative(v + 1) + (IF pc'[p] \in Inside THEN 1 ELSE 0)
        /\ v + 1 <= SEM_MAX[s] /\ v + 1 <= 0
    BY <2>1, <2>2, <2>4, <1>8 DEF Negative, Inside, Holds,
       desbloquear_hilos_semaforo, ThreadLists
  <2> HIDE DEF s, v, b
  <2> QED
    BY <2>1, <2>2, <2>3, <2>4, <2>6, <2>7, SemaphoreStep DEF Inside, Holds, s
<1>9. ASSUME BloqueadoAListoSignal(p)
      PROVE  SemaphoreAccounting'
  <2>1. pc[p] = "bloqueado_a_listo_signal"
    BY <1>9 DEF BloqueadoAListoSignal, At
  <2>2. /\ OthersKeep(p) /\ pc'[p] = "idle"
        /\ VALUE' = [VALUE EXCEPT ![s] = v]
        /\ BLOCKED_LIST' = [BLOCKED_LIST EXCEPT ![s] = Tail(b)]
    BY <1>0, <1>9 DEF BloqueadoAListoSignal, OthersKeep, GoTo, ControlOK,
       DataOK, Reply, bloqueado_a_listo
  <2>3. \A q \in Programs \ {p} : pc[q] \notin Inside
    BY <2>1, OthersOutside DEF Inside, Holds
  <2>4. /\ s \in Semaphores /\ v \in Int /\ b \in ThreadLists
        /\ SEM_MAX[s] \in Nat /\ v <= SEM_MAX[s]
        /\ Len(b) = Negative(v) + (IF pc[p] \in Inside THEN 1 ELSE 0)
        /\ pc[p] \in Inside => v <= 0
    BY <2>1, <2>3, AtSemaphore DEF SemLabels
  <2>6. Tail(b) \in ThreadLists /\ v \in Int
    BY <1>0, <2>1, <2>4, ListType, SomebodyWaits
  <2>7. /\ Len(Tail(b)) = Negative(v) + (IF pc'[p] \in Inside THEN 1 ELSE 0)
        /\ v <= SEM_MAX[s]
    BY <1>0, <2>1, <2>2, <2>4, <1>9, SomebodyWaits DEF Negative, Inside,
       Holds, BloqueadoAListoSignal, ThreadLists
  <2> HIDE DEF s, v, b
  <2> QED
    BY <2>1, <2>2, <2>3, <2>4, <2>6, <2>7, SemaphoreStep DEF Inside, Holds, s
<1> QED
  BY <1>1, <1>2, <1>3, <1>4, <1>5, <1>6, <1>7, <1>8, <1>9, QuietStep DEF
     SemaphoreAction

(***************************************************************************)
(* Degree of multiprogramming.  The check of validar_grado_multiprogra-    *)
(* macion and the ACTUAL_MULTIPROG++ it allows are two steps; the place    *)
(* stays free in between because mutex_multiprog is held.                  *)
(***************************************************************************)
DegreeInv ==
  /\ DegreeBounded
  /\ \A p \in Programs : pc[p] \in Admitting => ACTUAL_MULTIPROG < MAX_MULTIPROG

\* DegreeInv is preserved.
LEMMA DegreeNext ==
  ASSUME TypeInv, MutualExclusion, DegreeInv, Next
  PROVE  DegreeInv'
<1>0. ACTUAL_MULTIPROG \in Int /\ MAX_MULTIPROG \in Int /\ ControlOK
  BY SuseAssumption DEF TypeInv, DataOK
<1>1. PICK p \in Programs : DegreeAction(p) \/ LeavesDegree
  BY KindsOfSteps
<1>2. CASE LeavesDegree
  BY <1>2 DEF DegreeInv, DegreeBounded, LeavesDegree
<1>3. ASSUME AdmitUlt(p) \/ AdmitMain(p) \/ obtener_ULT_ready_FIFO(p)
      PROVE  DegreeInv'
  <2>1. ACTUAL_MULTIPROG < MAX_MULTIPROG /\ UNCHANGED ACTUAL_MULTIPROG
    BY <1>0, <1>3 DEF AdmitUlt, AdmitMain, obtener_ULT_ready_FIFO, nuevo_a_listo_add,
       validar_grado_multiprogramacion
  <2> QED
    BY <1>0, <2>1 DEF DegreeInv, DegreeBounded
<1>4. ASSUME NuevoAListoCreate(p) \/ nuevo_a_ejecucion(p) \/ NuevoAListoFIFO(p)
      PROVE  DegreeInv'
  <2>1. pc[p] \in Admitting /\ pc'[p] \notin Admitting
    BY <1>0, <1>4 DEF NuevoAListoCreate, nuevo_a_ejecucion, NuevoAListoFIFO, At,
       Admitting, Reply, GoTo, ControlOK
  <2>2. ACTUAL_MULTIPROG' = ACTUAL_MULTIPROG + 1
    BY <1>4 DEF NuevoAListoCreate, nuevo_a_ejecucion, NuevoAListoFIFO, nuevo_a_listo
  <2>3. \A q \in Programs \ {p} : pc'[q] = pc[q]
    BY <1>0, <1>4 DEF NuevoAListoCreate, nuevo_a_ejecucion, NuevoAListoFIFO, Reply,
       GoTo, ControlOK
  <2>4. \A q \in Programs : pc[q] \in Admitting => owner["multiprog"] = q
    BY DEF MutualExclusion, Admitting, Holds, Mutexes
  <2> QED
    BY <1>0, <2>1, <2>2, <2>3, <2>4 DEF DegreeInv, DegreeBounded
<1>5. ASSUME CloseBlockedMultiprog(p) \/ CloseReady(p) \/ CloseExecute(p)
      PROVE  DegreeInv'
  <2>1. ACTUAL_MULTIPROG' = ACTUAL_MULTIPROG - 1
    BY <1>5 DEF CloseBlockedMultiprog, CloseReady, CloseExecute, LeaveMultiprog
  <2> QED
    BY <1>0, <2>1 DEF DegreeInv, DegreeBounded
<1> QED
  BY <1>1, <1>2, <1>3, <1>4, <1>5 DEF DegreeAction

(***************************************************************************)
(* The theorems.                                                           *)
(***************************************************************************)
SuseInv == TypeInv /\ MutualExclusion /\ SemaphoreAccounting /\ DegreeInv

\* The inductive invariant holds at the start.
LEMMA InvInit == Init => SuseInv
<1> SUFFICES ASSUME Init PROVE SuseInv
  OBVIOUS
<1>1. TypeInv
  BY TypeInit
<1>2. MutualExclusion
  BY SuseAssumption DEF Init, MutualExclusion, Holds, MayHold, Mutexes
<1>3. SemaphoreAccounting
  <2>1. \A s \in Semaphores : ~Updating(s)
    BY DEF Init, Updating, Holds
  <2>2. \A s \in Semaphores : VALUE[s] \in Nat /\ VALUE[s] <= SEM_MAX[s]
    BY SuseAssumption DEF Init
  <2>3. \A s \in Semaphores : Len(BLOCKED_LIST[s]) = 0
    BY DEF Init
  <2> QED
    BY <2>1, <2>2, <2>3 DEF SemaphoreAccounting, Negative
<1>4. DegreeInv
  BY SuseAssumption DEF Init, DegreeInv, DegreeBounded, Admitting
<1> QED
  BY <1>1, <1>2, <1>3, <1>4 DEF SuseInv

\* Every step preserves it.
LEMMA InvNext == SuseInv /\ [Next]_vars => SuseInv'
<1> SUFFICES ASSUME SuseInv, [Next]_vars PROVE SuseInv'
  OBVIOUS
<1>1. CASE Next
  BY <1>1, DataNext, ControlNext, MutexNext, AccountingNext, DegreeNext
     DEF SuseInv, TypeInv
<1>2. CASE UNCHANGED vars
  <2>1. TypeInv'
    BY <1>2 DEF SuseInv, TypeInv, DataOK, ControlOK, LocalsSet, vars, threads, queues,
       joins, sems
  <2>2. MutualExclusion'
    BY <1>2 DEF SuseInv, MutualExclusion, vars
  <2>3. SemaphoreAccounting'
    BY <1>2 DEF SuseInv, SemaphoreAccounting, Updating, vars, sems
  <2>4. DegreeInv'
    BY <1>2 DEF SuseInv, DegreeInv, DegreeBounded, vars
  <2> QED
    BY <2>1, <2>2, <2>3, <2>4 DEF SuseInv
<1> QED
  BY <1>1, <1>2

\* SuseInv is an invariant of the scheduler.
THEOREM Invariance == Spec => []SuseInv
  BY InvInit, InvNext, PTL DEF Spec

\* Every variable of the scheduler keeps its type, and semaforoReady, the
\* READY bags and the blocked bag never count below zero.
THEOREM TypeCorrect == Spec => []TypeOK
<1>1. SuseInv => TypeOK
  BY TypeInvImpliesTypeOK DEF SuseInv
<1> QED
  BY <1>1, Invariance, PTL

\* However many handlers interleave, a mutex of suse.c is held by exactly the
\* handler that is between its lock and its unlock.
THEOREM MutualExclusionHolds == Spec => []MutualExclusion
<1>1. SuseInv => MutualExclusion
  BY DEF SuseInv
<1> QED
  BY <1>1, Invariance, PTL

\* Between requests, a negative VALUE is the number of threads blocked on the
\* semaphore, and no signal carries VALUE beyond its maximum.
THEOREM SemaphoreAccountingHolds == Spec => []SemaphoreAccounting
<1>1. SuseInv => SemaphoreAccounting
  BY DEF SuseInv
<1> QED
  BY <1>1, Invariance, PTL

\* ACTUAL_MULTIPROG never passes the configured MAX_MULTIPROG, whichever of
\* create and close lets a thread in.
THEOREM DegreeBound == Spec => []DegreeBounded
<1>1. SuseInv => DegreeBounded
  BY DEF SuseInv, DegreeInv
<1> QED
  BY <1>1, Invariance, PTL

(***************************************************************************)
(* Refinement.  The units of the abstract semaphore are the positive part  *)
(* of VALUE, its waiting threads are BLOCKED_LIST, and a call is pending   *)
(* from its request until the handler has made the last list operation.    *)
(***************************************************************************)
CallLabels == {"decrementar_semaforo", "incrementar_semaforo", "bloqueado_a_listo_signal"}

\* A handler elsewhere is calling nothing.
LEMMA NoCall ==
  ASSUME NEW p \in Programs
  PROVE  /\ pc[p] \notin CallLabels => CallOf(p) = NULL
         /\ pc'[p] \notin CallLabels => CallOf(p)' = NULL
  BY DEF CallOf, CallLabels

\* What the abstract variables become when only p's call changes.
LEMMA CallingNext ==
  ASSUME NEW p \in Programs, OthersKeep(p)
  PROVE  [q \in Programs |-> CallOf(q)]' =
           [[q \in Programs |-> CallOf(q)] EXCEPT ![p] = CallOf(p)']
<1>1. \A q \in Programs \ {p} : CallOf(q)' = CallOf(q)
  BY DEF OthersKeep, CallOf
<1> QED
  BY <1>1

\* The initial states are the abstract ones.
LEMMA RefinesInit == Init => Sem!Init
<1> SUFFICES ASSUME Init PROVE Sem!Init
  OBVIOUS
<1>1. \A p \in Programs : CallOf(p) = NULL
  BY DEF Init, CallOf
<1>2. [s \in Semaphores |-> IF VALUE[s] > 0 THEN VALUE[s] ELSE 0] = SEM_INIT
  BY SuseAssumption DEF Init
<1> QED
  BY <1>1, <1>2 DEF Sem!Init, Init

\* A step of the handlers is a step of the abstract semaphores or none.
LEMMA RefinesNext ==
  ASSUME SuseInv, Next
  PROVE  [Sem!Next]_(Sem!vars)
<1> DEFINE Units == [s \in Semaphores |-> IF VALUE[s] > 0 THEN VALUE[s] ELSE 0]
           Calling == [q \in Programs |-> CallOf(q)]
<1>0. /\ DataOK /\ ControlOK /\ TypeInv
      /\ MutualExclusion /\ SemaphoreAccounting
  BY DEF SuseInv, TypeInv
<1>1. PICK p \in Programs : SemaphoreAction(p) \/ LeavesSemaphores(p)
  BY KindsOfSteps DEF SuseInv
<1> DEFINE s == in[p].sem
           v == VALUE[s]
           b == BLOCKED_LIST[s]
<1>2. CASE LeavesSemaphores(p)
  <2>1. CallOf(p)' = CallOf(p)
    <3>1. CASE pc[p] \notin SemLabels /\ pc'[p] \notin SemLabels
      <4>1. pc[p] \notin CallLabels /\ pc'[p] \notin CallLabels
        BY <3>1 DEF CallLabels, SemLabels
      <4> QED
        BY <4>1, NoCall
    <3>2. CASE UNCHANGED <<pc, in>>
      BY <3>2 DEF CallOf
    <3> QED
      BY <1>2, <3>1, <3>2 DEF LeavesSemaphores
  <2>2. Calling' = Calling
    BY <1>2, <2>1, CallingNext DEF LeavesSemaphores
  <2>3. UNCHANGED <<VALUE, BLOCKED_LIST>>
    BY <1>2 DEF LeavesSemaphores, sems
  <2> QED
    BY <2>2, <2>3 DEF Sem!vars
<1>3. ASSUME NEW sem \in Semaphores, ReceiveWait(p, sem)
      PROVE  Sem!Next
  <2>1. CallOf(p) = NULL /\ CallOf(p)' = [op |-> "wait", sem |-> sem]
    BY <1>0, <1>3 DEF ReceiveWait, At, GoTo, CallOf, ControlOK, Locals
  <2>2. OthersKeep(p) /\ UNCHANGED <<VALUE, BLOCKED_LIST>>
    BY <1>0, <1>3 DEF ReceiveWait, GoTo, OthersKeep, ControlOK, sems
  <2>3. [op |-> "wait", sem |-> sem] \in Sem!Calls
    BY DEF Sem!Calls
  <2>4. Calling[p] = NULL /\ Calling' = [Calling EXCEPT ![p] = CallOf(p)']
    BY <2>1, <2>2, CallingNext
  <2> QED
    BY <2>1, <2>2, <2>3, <2>4 DEF Sem!Next, Sem!Call
<1>4. ASSUME NEW sem \in Semaphores, ReceiveSignal(p, sem)
      PROVE  Sem!Next
  <2>1. CallOf(p) = NULL /\ CallOf(p)' = [op |-> "signal", sem |-> sem]
    BY <1>0, <1>4 DEF ReceiveSignal, At, GoTo, CallOf, ControlOK, Locals
  <2>2. OthersKeep(p) /\ UNCHANGED <<VALUE, BLOCKED_LIST>>
    BY <1>0, <1>4 DEF ReceiveSignal, GoTo, OthersKeep, ControlOK, sems
  <2>3. [op |-> "signal", sem |-> sem] \in Sem!Calls
    BY DEF Sem!Calls
  <2>4. Calling[p] = NULL /\ Calling' = [Calling EXCEPT ![p] = CallOf(p)']
    BY <2>1, <2>2, CallingNext
  <2> QED
    BY <2>1, <2>2, <2>3, <2>4 DEF Sem!Next, Sem!Call
<1>5. ASSUME decrementar_semaforo(p)
      PROVE  Sem!Next
  <2>1. pc[p] = "decrementar_semaforo" /\ Free("semaforos")
    BY <1>5 DEF decrementar_semaforo, At
  <2>2. /\ OthersKeep(p)
        /\ VALUE' = [VALUE EXCEPT ![s] = v - 1]
        /\ BLOCKED_LIST' = [BLOCKED_LIST EXCEPT ![s] = b]
    BY <1>0, <1>5 DEF decrementar_semaforo, OthersKeep, GoTo, ControlOK,
       DataOK, sems, Reply
  <2>3. \A q \in Programs \ {p} : pc[q] \notin Inside
    BY <1>0, <2>1, OthersOutside DEF Inside, Holds
  <2>4. /\ s \in Semaphores /\ v \in Int /\ b \in ThreadLists
        /\ SEM_MAX[s] \in Nat /\ v <= SEM_MAX[s]
        /\ Len(b) = Negative(v) + (IF pc[p] \in Inside THEN 1 ELSE 0)
        /\ pc[p] \in Inside => v <= 0
    BY <1>0, <2>1, <2>3, AtSemaphore DEF SemLabels
  <2>5. Calling[p] = [op |-> "wait", sem |-> s] /\ CallOf(p)' = NULL
    BY <1>0, <1>5, <2>1 DEF decrementar_semaforo, GoTo, CallOf, ControlOK,
       Reply
  <2>6. Calling' = [Calling EXCEPT ![p] = NULL]
    BY <2>2, <2>5, CallingNext
  <2>7. v > 0 /\ UNCHANGED BLOCKED_LIST
    BY <1>5 DEF decrementar_semaforo
  <2>8. VALUE \in [Semaphores -> Int]
    BY <1>0 DEF DataOK
  <2>9. Units[s] = v /\ \A x \in Semaphores : Units'[x] = IF x = s THEN v - 1 ELSE Units[x]
    BY <2>2, <2>4, <2>7, <2>8
  <2>10. Units[s] > 0 /\ Units' = [Units EXCEPT ![s] = @ - 1]
    BY <2>4, <2>7, <2>9
  <2> QED
    BY <2>4, <2>5, <2>6, <2>10, <2>7 DEF Sem!Next, Sem!WaitTakes, Sem!Ends
<1>6. ASSUME BlockOnSemaphore(p)
      PROVE  Sem!Next
  <2>1. pc[p] = "decrementar_semaforo" /\ Free("semaforos")
    BY <1>6 DEF BlockOnSemaphore, At
  <2>2. /\ OthersKeep(p)
        /\ VALUE' = [VALUE EXCEPT ![s] = v]
        /\ BLOCKED_LIST' = [BLOCKED_LIST EXCEPT ![s] = Append(b, in[p].ult)]
    BY <1>0, <1>6 DEF BlockOnSemaphore, OthersKeep, GoTo, ControlOK, DataOK,
       sems
  <2>3. \A q \in Programs \ {p} : pc[q] \notin Inside
    BY <1>0, <2>1, OthersOutside DEF Inside, Holds
  <2>4. /\ s \in Semaphores /\ v \in Int /\ b \in ThreadLists
        /\ SEM_MAX[s] \in Nat /\ v <= SEM_MAX[s]
        /\ Len(b) = Negative(v) + (IF pc[p] \in Inside THEN 1 ELSE 0)
        /\ pc[p] \in Inside => v <= 0
    BY <1>0, <2>1, <2>3, AtSemaphore DEF SemLabels
  <2>5. Calling[p] = [op |-> "wait", sem |-> s] /\ CallOf(p)' = NULL
    BY <1>0, <1>6, <2>1 DEF BlockOnSemaphore, GoTo, CallOf, ControlOK
  <2>6. Calling' = [Calling EXCEPT ![p] = NULL]
    BY <2>2, <2>5, CallingNext
  <2>7. Units[s] = 0 /\ UNCHANGED VALUE
    BY <2>4, <1>6 DEF BlockOnSemaphore
  <2>8. in[p].ult \in Threads
    BY <1>0, <2>1, LocalsWanted DEF ControlOK, LocalsSet
  <2> QED
    BY <1>0, <2>2, <2>4, <2>5, <2>6, <2>7, <2>8 DEF Sem!Next, Sem!WaitQueues,
       Sem!Ends
<1>7. ASSUME SignalAtMax(p)
      PROVE  Sem!Next
  <2>1. pc[p] = "incrementar_semaforo" /\ Free("semaforos")
    BY <1>7 DEF SignalAtMax, At
  <2>2. /\ OthersKeep(p)
        /\ VALUE' = [VALUE EXCEPT ![s] = v]
        /\ BLOCKED_LIST' = [BLOCKED_LIST EXCEPT ![s] = b]
    BY <1>0, <1>7 DEF SignalAtMax, OthersKeep, GoTo, ControlOK, DataOK, sems,
       Reply
  <2>3. \A q \in Programs \ {p} : pc[q] \notin Inside
    BY <1>0, <2>1, OthersOutside DEF Inside, Holds
  <2>4. /\ s \in Semaphores /\ v \in Int /\ b \in ThreadLists
        /\ SEM_MAX[s] \in Nat /\ v <= SEM_MAX[s]
        /\ Len(b) = Negative(v) + (IF pc[p] \in Inside THEN 1 ELSE 0)
        /\ pc[p] \in Inside => v <= 0
    BY <1>0, <2>1, <2>3, AtSemaphore DEF SemLabels
  <2>5. Calling[p] = [op |-> "signal", sem |-> s] /\ CallOf(p)' = NULL
    BY <1>0, <1>7, <2>1 DEF SignalAtMax, GoTo, CallOf, ControlOK, Reply
  <2>6. Calling' = [Calling EXCEPT ![p] = NULL]
    BY <2>2, <2>5, CallingNext
  <2>7. Len(b) = 0 /\ Units[s] = SEM_MAX[s] /\ UNCHANGED <<VALUE, BLOCKED_LIST>>
    BY <2>1, <2>4, <1>7 DEF SignalAtMax, sems, Negative, Inside, Holds
  <2>8. b = <<>>
    BY <2>4, <2>7 DEF ThreadLists
  <2>9. Sem!SignalIgnored(p, s)
    BY <2>4, <2>5, <2>6, <2>7, <2>8 DEF Sem!SignalIgnored, Sem!Ends
  <2> QED
    BY <2>4, <2>9 DEF Sem!Next
<1>8. ASSUME SignalNoWaiter(p)
      PROVE  Sem!Next
  <2>1. pc[p] = "incrementar_semaforo" /\ Free("semaforos")
    BY <1>8 DEF SignalNoWaiter, At
  <2>2. /\ OthersKeep(p)
        /\ VALUE' = [VALUE EXCEPT ![s] = v + 1]
        /\ BLOCKED_LIST' = [BLOCKED_LIST EXCEPT ![s] = b]
    BY <1>0, <1>8 DEF SignalNoWaiter, OthersKeep, GoTo, ControlOK, DataOK,
       sems, Reply
  <2>3. \A q \in Programs \ {p} : pc[q] \notin Inside
    BY <1>0, <2>1, OthersOutside DEF Inside, Holds
  <2>4. /\ s \in Semaphores /\ v \in Int /\ b \in ThreadLists
        /\ SEM_MAX[s] \in Nat /\ v <= SEM_MAX[s]
        /\ Len(b) = Negative(v) + (IF pc[p] \in Inside THEN 1 ELSE 0)
        /\ pc[p] \in Inside => v <= 0
    BY <1>0, <2>1, <2>3, AtSemaphore DEF SemLabels
  <2>5. Calling[p] = [op |-> "signal", sem |-> s] /\ CallOf(p)' = NULL
    BY <1>0, <1>8, <2>1 DEF SignalNoWaiter, GoTo, CallOf, ControlOK, Reply
  <2>6. Calling' = [Calling EXCEPT ![p] = NULL]
    BY <2>2, <2>5, CallingNext
  <2>7. b = <<>> /\ v >= 0 /\ v < SEM_MAX[s] /\ UNCHANGED BLOCKED_LIST
    BY <2>1, <2>4, <1>8 DEF SignalNoWaiter, Negative, Inside, Holds
  <2>8. Units[s] < SEM_MAX[s] /\ Units' = [Units EXCEPT ![s] = @ + 1]
    <3>1. Units[s] = v
      BY <2>4, <2>7
    <3>2. Units'[s] = v + 1
      BY <1>0, <2>2, <2>4, <2>7 DEF DataOK
    <3>3. \A r \in Semaphores \ {s} : Units'[r] = Units[r]
      BY <1>0, <2>2 DEF DataOK
    <3> QED
      BY <2>4, <2>7, <3>1, <3>2, <3>3
  <2> QED
    BY <2>4, <2>5, <2>6, <2>7, <2>8 DEF Sem!Next, Sem!SignalAdds, Sem!Ends
<1>9. ASSUME BloqueadoAListoSignal(p)
      PROVE  Sem!Next
  <2>1. pc[p] = "bloqueado_a_listo_signal"
    BY <1>9 DEF BloqueadoAListoSignal, At
  <2>2. /\ OthersKeep(p)
        /\ VALUE' = [VALUE EXCEPT ![s] = v]
        /\ BLOCKED_LIST' = [BLOCKED_LIST EXCEPT ![s] = Tail(b)]
    BY <1>0, <1>9 DEF BloqueadoAListoSignal, OthersKeep, GoTo, ControlOK,
       DataOK, sems, Reply, bloqueado_a_listo
  <2>3. \A q \in Programs \ {p} : pc[q] \notin Inside
    BY <1>0, <2>1, OthersOutside DEF Inside, Holds
  <2>4. /\ s \in Semaphores /\ v \in Int /\ b \in ThreadLists
        /\ SEM_MAX[s] \in Nat /\ v <= SEM_MAX[s]
        /\ Len(b) = Negative(v) + (IF pc[p] \in Inside THEN 1 ELSE 0)
        /\ pc[p] \in Inside => v <= 0
    BY <1>0, <2>1, <2>3, AtSemaphore DEF SemLabels
  <2>5. Calling[p] = [op |-> "signal", sem |-> s] /\ CallOf(p)' = NULL
    BY <1>0, <1>9, <2>1 DEF BloqueadoAListoSignal, GoTo, CallOf, ControlOK,
       Reply, bloqueado_a_listo
  <2>6. Calling' = [Calling EXCEPT ![p] = NULL]
    BY <2>2, <2>5, CallingNext
  <2>7. b # <<>> /\ UNCHANGED VALUE
    BY <1>0, <2>1, SomebodyWaits, <1>9 DEF BloqueadoAListoSignal,
       bloqueado_a_listo
  <2> QED
    BY <2>2, <2>4, <2>5, <2>6, <2>7 DEF Sem!Next, Sem!SignalWakes, Sem!Ends
<1>10. ASSUME ejecucion_a_bloqueado_por_semaforo(p)
      PROVE  UNCHANGED Sem!vars
  <2>1. pc[p] = "ejecucion_a_bloqueado_por_semaforo"
    BY <1>10 DEF ejecucion_a_bloqueado_por_semaforo, At
  <2>2. /\ OthersKeep(p)
        /\ VALUE' = [VALUE EXCEPT ![s] = v - 1]
        /\ BLOCKED_LIST' = [BLOCKED_LIST EXCEPT ![s] = b]
    BY <1>0, <1>10 DEF ejecucion_a_bloqueado_por_semaforo, OthersKeep, GoTo,
       ControlOK, DataOK, sems, Reply
  <2>3. \A q \in Programs \ {p} : pc[q] \notin Inside
    BY <1>0, <2>1, OthersOutside DEF Inside, Holds
  <2>4. /\ s \in Semaphores /\ v \in Int /\ b \in ThreadLists
        /\ SEM_MAX[s] \in Nat /\ v <= SEM_MAX[s]
        /\ Len(b) = Negative(v) + (IF pc[p] \in Inside THEN 1 ELSE 0)
        /\ pc[p] \in Inside => v <= 0
    BY <1>0, <2>1, <2>3, AtSemaphore DEF SemLabels
  <2>5. CallOf(p)' = CallOf(p)
    BY <1>0, <1>10, <2>1 DEF ejecucion_a_bloqueado_por_semaforo, GoTo, CallOf,
       ControlOK, Locals, Reply
  <2>6. Calling' = Calling
    BY <2>2, <2>5, CallingNext
  <2>7. v <= 0 /\ UNCHANGED BLOCKED_LIST
    BY <2>1, <2>4, <1>10 DEF ejecucion_a_bloqueado_por_semaforo, Inside, Holds
  <2>8. Units' = Units
    BY <1>0, <2>2, <2>4, <2>7 DEF DataOK
  <2> QED
    BY <2>6, <2>7, <2>8 DEF Sem!vars
<1>11. ASSUME desbloquear_hilos_semaforo(p)
      PROVE  UNCHANGED Sem!vars
  <2>1. pc[p] = "incrementar_semaforo" /\ Free("semaforos")
    BY <1>11 DEF desbloquear_hilos_semaforo, At
  <2>2. /\ OthersKeep(p)
        /\ VALUE' = [VALUE EXCEPT ![s] = v + 1]
        /\ BLOCKED_LIST' = [BLOCKED_LIST EXCEPT ![s] = b]
    BY <1>0, <1>11 DEF desbloquear_hilos_semaforo, OthersKeep, GoTo,
       ControlOK, DataOK, sems, MoveNext
  <2>3. \A q \in Programs \ {p} : pc[q] \notin Inside
    BY <1>0, <2>1, OthersOutside DEF Inside, Holds
  <2>4. /\ s \in Semaphores /\ v \in Int /\ b \in ThreadLists
        /\ SEM_MAX[s] \in Nat /\ v <= SEM_MAX[s]
        /\ Len(b) = Negative(v) + (IF pc[p] \in Inside THEN 1 ELSE 0)
        /\ pc[p] \in Inside => v <= 0
    BY <1>0, <2>1, <2>3, AtSemaphore DEF SemLabels
  <2>5. CallOf(p)' = CallOf(p)
    BY <1>0, <1>11, <2>1 DEF desbloquear_hilos_semaforo, GoTo, CallOf,
       ControlOK, Locals, MoveNext
  <2>6. Calling' = Calling
    BY <2>2, <2>5, CallingNext
  <2>7. v < 0 /\ UNCHANGED BLOCKED_LIST
    BY <2>1, <2>4, <1>11 DEF desbloquear_hilos_semaforo, Negative, Inside,
       Holds, ThreadLists
  <2>8. Units' = Units
    BY <1>0, <2>2, <2>4, <2>7 DEF DataOK
  <2> QED
    BY <2>6, <2>7, <2>8 DEF Sem!vars
<1> QED
  BY <1>1, <1>2, <1>3, <1>4, <1>5, <1>6, <1>7, <1>8, <1>9, <1>10, <1>11 DEF
     SemaphoreAction

\* wait and signal of SUSE implement the counting semaphore with a first come,
\* first served queue, for any number of programs, threads and semaphores.
THEOREM SemaphoresImplemented == Spec => ImplementsSemaphores
<1>1. SuseInv /\ [Next]_vars => [Sem!Next]_(Sem!vars)
  <2> SUFFICES ASSUME SuseInv, [Next]_vars PROVE [Sem!Next]_(Sem!vars)
    OBVIOUS
  <2>1. CASE UNCHANGED vars
    BY <2>1 DEF vars, sems, Sem!vars, CallOf
  <2> QED
    BY <2>1, RefinesNext
<1> QED
  BY <1>1, RefinesInit, Invariance, PTL DEF Spec, ImplementsSemaphores, Sem!Spec

(***************************************************************************)
(* The handlers never wait for each other in a circle when a program       *)
(* closes only the thread that runs.  A thread that closes itself is in    *)
(* READY or EXECUTE, so close_tid never takes the two paths that hold      *)
(* mutex_new_queue or mutex_blocked_queue.                                 *)
(***************************************************************************)
\* Where a handler can be while its client runs a thread.
RunsAt == {"idle", "create", "nuevo_a_listo_create", "nuevo_a_ejecucion",
           "incrementar_semaforo", "bloqueado_a_listo_signal"}

\* A close on its way to the transition.
Closing == {"desjoinear", "bloqueado_a_listo_join", "joiner_a_nuevo", "close_switch",
            "close_ready", "close_execute"}

\* The paths of a close that only another thread can take.
ClosesOther == {"close_new", "nuevo_a_exit", "close_blocked", "close_blocked_multiprog",
                "bloqueado_a_exit"}

OnProcessor(h) == estado[h] \in {"ready", "execute"}

\* What the handler of p and its client know of each other.
ClientOf(p) ==
  /\ process[p] = "none" => pc[p] = "idle" /\ EXEC_THREAD[p] = NULL /\ running[p] = NULL
  /\ process[p] = "alive" => estado[<<p, 0>>] # "none"
  /\ EXEC_THREAD[p] # NULL => procesoId(EXEC_THREAD[p]) = p
  /\ running[p] # NULL => /\ procesoId(running[p]) = p
                          /\ pc[p] \in RunsAt
                          /\ EXEC_THREAD[p] \in {NULL, running[p]}
                          /\ tid(running[p]) # 0 => OnProcessor(running[p])
  /\ pc[p] \in UltLabels => procesoId(in[p].ult) = p
  /\ pc[p] = "create" /\ tid(in[p].ult) = 0 => running[p] = in[p].ult
  /\ pc[p] = "nuevo_a_ejecucion" => running[p] = hilo(p)
  /\ pc[p] \in {"listo_a_ejecucion", "listo_a_exit"} => procesoId(hilo(p)) = p
  /\ pc[p] \in Closing => tid(in[p].ult) # 0 /\ OnProcessor(in[p].ult)
  /\ pc[p] \notin ClosesOther

\* A thread joins other threads of its program.
JoinsWithin ==
  \A h \in Threads : \A i \in DOMAIN joinedBy[h] :
    procesoId(joinedBy[h][i]) = procesoId(h) /\ joinedBy[h][i] # h

QueuesUnlocked == Free("new_queue") /\ Free("blocked_queue")

CloseInv == (\A p \in Programs : ClientOf(p)) /\ JoinsWithin /\ QueuesUnlocked

\* What a step of p may do to another program.
SparesOthers(p) ==
  /\ \A q \in Programs \ {p} :
       /\ process'[q] = process[q] /\ pc'[q] = pc[q] /\ in'[q] = in[q]
       /\ running'[q] = running[q] /\ EXEC_THREAD'[q] \in {EXEC_THREAD[q], NULL}
  /\ \A h \in Threads : procesoId(h) # p => estado'[h] \in {estado[h], "ready"}

KeepsClose(p) == ClientOf(p)' /\ SparesOthers(p) /\ JoinsWithin' /\ QueuesUnlocked'

\* Another program stays as it is, but for a thread that becomes READY.
LEMMA OthersClient ==
  ASSUME TypeInv, NEW p \in Programs, NEW q \in Programs, q # p, ClientOf(q), SparesOthers(p)
  PROVE  ClientOf(q)'
<1>1. LocalsFor(pc[q], in[q])
  BY DEF TypeInv, ControlOK, LocalsSet
<1>2. /\ running[q] \in Threads \cup {NULL} /\ <<q, 0>> \in Threads
      /\ pc[q] \in Closing => in[q].ult \in Threads /\ procesoId(in[q].ult) = q
  BY <1>1, SuseAssumption DEF TypeInv, DataOK, ULTorNull, Closing, LocalsFor, UltLabels, ClientOf, Threads
<1>3. \A h \in Threads : procesoId(h) = q => /\ estado[h] # "none" => estado'[h] # "none"
                                             /\ OnProcessor(h) => OnProcessor(h)'
  BY DEF SparesOthers, OnProcessor
<1>4. procesoId(<<q, 0>>) = q
  BY DEF procesoId
<1> QED
  BY <1>2, <1>3, <1>4 DEF ClientOf, SparesOthers, hilo

\* An element of Append(s, e) is e or an element of s.
LEMMA AppendMember ==
  ASSUME NEW S, NEW s \in Seq(S), NEW e \in S, NEW i \in DOMAIN Append(s, e)
  PROVE  Append(s, e)[i] = e \/ (i \in DOMAIN s /\ Append(s, e)[i] = s[i])
<1>1. Append(s, e) \in Seq(S) /\ Len(Append(s, e)) = Len(s) + 1
  OBVIOUS
<1>2. i = Len(s) + 1 \/ i \in 1..Len(s)
  BY <1>1
<1> QED
  BY <1>2

\* The thread that joins runs in the program of the thread it joins.
LEMMA JoinKeeps ==
  ASSUME DataOK, JoinsWithin, NEW p \in Programs, NEW t \in Tids, Join(p, t),
         EXEC_THREAD[p] \in Threads, procesoId(EXEC_THREAD[p]) = p, EXEC_THREAD[p] # <<p, t>>
  PROVE  JoinsWithin'
<1> DEFINE joined == <<p, t>>
           runs == EXEC_THREAD[p]
<1>1. joinedBy' = [joinedBy EXCEPT ![joined] = Append(joinedBy[joined], runs)]
  BY DEF Join
<1>2. joined \in Threads /\ procesoId(joined) = p
  BY DEF Threads, procesoId
<1>3. joinedBy \in [Threads -> Seq(Threads)] /\ joinedBy[joined] \in Seq(Threads)
  BY <1>2 DEF DataOK, ThreadLists
<1>4. joinedBy'[joined] = Append(joinedBy[joined], runs)
  BY <1>1, <1>2, <1>3
<1>5. \A h \in Threads \ {joined} : joinedBy'[h] = joinedBy[h]
  BY <1>1, <1>3
<1> HIDE DEF joined
<1>6. ASSUME NEW i \in DOMAIN joinedBy'[joined]
      PROVE  procesoId(joinedBy'[joined][i]) = p /\ joinedBy'[joined][i] # joined
  <2>1. joinedBy'[joined][i] = runs \/ (/\ i \in DOMAIN joinedBy[joined]
                                        /\ joinedBy'[joined][i] = joinedBy[joined][i])
    BY <1>3, <1>4, <1>6, AppendMember
  <2> QED
    BY <2>1, <1>2 DEF JoinsWithin, joined
<1> QED
  BY <1>2, <1>5, <1>6 DEF JoinsWithin

\* A step of p keeps ClientOf(p), leaves the other programs alone and never takes
\* one of the two queue mutexes.
LEMMA StepKeeps ==
  ASSUME TypeInv, CloseInv, ~CloseOthers, NEW p \in Programs, Request(p) \/ Handle(p) \/ Crash(p)
  PROVE  KeepsClose(p)
<1>0. /\ DataOK /\ ClientOf(p) /\ JoinsWithin /\ QueuesUnlocked
      /\ pc \in [Programs -> Labels] /\ in \in [Programs -> Locals]
  BY DEF TypeInv, CloseInv, ControlOK
<1>a. LocalsFor(pc[p], in[p])
  BY DEF TypeInv, ControlOK, LocalsSet
<1>b. /\ \A h \in Threads : procesoId(h) \in Programs /\ h = <<procesoId(h), tid(h)>>
      /\ \A t \in Tids : <<p, t>> \in Threads /\ procesoId(<<p, t>>) = p /\ tid(<<p, t>>) = t
      /\ 0 \in Tids /\ NULL \notin Programs /\ NULL \notin Threads
  BY SuseAssumption DEF Threads, procesoId, tid
<1> USE <1>0, <1>a, <1>b
<1> USE DEF KeepsClose, ClientOf, SparesOthers, JoinsWithin, QueuesUnlocked,
   DataOK, LocalsFor, threads, queues, joins, sems, At, Free, hilo, RunsAt,
   Closing, ClosesOther, OnProcessor, Mutexes, UltLabels, HiloLabels, Transitions,
   Labels, Locals, ULTorNull
<1>2. ASSUME CreateMain(p)
      PROVE  KeepsClose(p)
  BY <1>2 DEF CreateMain, ULT_create, GoTo
<1>3. ASSUME NEW t \in Tids, CreateUlt(p, t)
      PROVE  KeepsClose(p)
  <2>1. /\ pc'[p] = "create" /\ pc[p] = "idle" /\ in'[p].ult = <<p, t>>
        /\ estado' = [estado EXCEPT ![<<p, t>>] = "new"] /\ estado[<<p, t>>] = "none"
        /\ UNCHANGED <<process, EXEC_THREAD, running, joins, owner>>
        /\ process[p] = "alive"
    BY <1>3 DEF CreateUlt, ULT_create, GoTo
  <2>2. \A q \in Programs \ {p} : pc'[q] = pc[q] /\ in'[q] = in[q]
    BY <1>3 DEF CreateUlt, ULT_create, GoTo
  <2>3. t # 0 /\ estado'[<<p, 0>>] # "none"
    BY <2>1
  <2>4. running[p] # NULL /\ tid(running[p]) # 0 => OnProcessor(running[p])'
    BY <2>1
  <2>5. ClientOf(p)'
    BY <2>1, <2>3, <2>4
  <2>6. SparesOthers(p)
    BY <2>1, <2>2
  <2> QED
    BY <2>1, <2>5, <2>6
<1>4. ASSUME ScheduleNext(p)
      PROVE  KeepsClose(p)
  BY <1>4 DEF ScheduleNext, GoTo
<1>5. ASSUME CloseMain(p)
      PROVE  KeepsClose(p)
  BY <1>5 DEF CloseMain, Closable, GoTo
<1>6. ASSUME Disconnect(p)
      PROVE  KeepsClose(p)
  BY <1>6 DEF Disconnect, GoTo
<1>7. ASSUME NEW t \in Tids, Join(p, t)
      PROVE  KeepsClose(p)
  <2> DEFINE joined == <<p, t>>
             runs == EXEC_THREAD[p]
  <2>1. /\ process[p] = "alive" /\ running[p] \notin {NULL, joined} /\ runs # NULL
        /\ UNCHANGED <<process, owner>>
    BY <1>7 DEF Join
  <2>2. /\ estado' = [estado EXCEPT ![runs] = "blocked"]
        /\ EXEC_THREAD' = [EXEC_THREAD EXCEPT ![p] = NULL]
        /\ running' = [running EXCEPT ![p] = NULL]
    BY <1>7 DEF Join
  <2>3. /\ pc' = [pc EXCEPT ![p] = "ejecucion_a_bloqueado"]
        /\ in' = [in EXCEPT ![p].ult = runs]
    BY <1>7 DEF Join, GoTo
  <2>4. runs = running[p] /\ runs \in Threads /\ procesoId(runs) = p /\ runs # joined
    BY <2>1, <2>2
  <2>5. ClientOf(p)'
    BY <2>1, <2>2, <2>3, <2>4
  <2>6. SparesOthers(p)
    BY <2>1, <2>2, <2>3, <2>4
  <2>7. JoinsWithin'
    BY <1>7, <2>4, JoinKeeps
  <2>8. QueuesUnlocked'
    BY <2>1, <2>2
  <2> QED
    BY <2>5, <2>6, <2>7, <2>8
<1>8. ASSUME NEW t \in Tids, JoinReturns(p, t)
      PROVE  KeepsClose(p)
  BY <1>8 DEF JoinReturns
<1>9. ASSUME NEW t \in Tids, ReceiveClose(p, t)
      PROVE  KeepsClose(p)
  <2>1. /\ running[p] = <<p, t>> /\ t # 0 /\ pc[p] = "idle" /\ process[p] = "alive"
        /\ running' = [running EXCEPT ![p] = NULL]
        /\ pc'[p] \in {"close_switch", "desjoinear"}
        /\ in' = [in EXCEPT ![p].ult = <<p, t>>, ![p].i = 1]
        /\ UNCHANGED <<process, estado, EXEC_THREAD, joinedBy, owner>>
        /\ \A q \in Programs \ {p} : pc'[q] = pc[q]
    BY <1>9 DEF ReceiveClose, Closable, GoTo
  <2>2. OnProcessor(<<p, t>>)
    BY <2>1
  <2>3. in'[p].ult = <<p, t>> /\ \A q \in Programs \ {p} : in'[q] = in[q]
    BY <2>1
  <2>4. ClientOf(p)'
    BY <2>1, <2>2, <2>3
  <2> QED
    BY <2>1, <2>3, <2>4
<1>10. ASSUME NEW t \in Tids, CloseUnknown(p, t)
      PROVE  KeepsClose(p)
  BY <1>10 DEF CloseUnknown, Closable
<1>11. ASSUME NEW s \in Semaphores, ReceiveWait(p, s)
      PROVE  KeepsClose(p)
  BY <1>11 DEF ReceiveWait, GoTo
<1>12. ASSUME NEW s \in Semaphores, ReceiveSignal(p, s)
      PROVE  KeepsClose(p)
  BY <1>12 DEF ReceiveSignal, GoTo
<1>13. ASSUME NotAdmitted(p)
      PROVE  KeepsClose(p)
  BY <1>13 DEF NotAdmitted, Reply, GoTo
<1>14. ASSUME AdmitUlt(p)
      PROVE  KeepsClose(p)
  BY <1>14 DEF AdmitUlt, Lock, nuevo_a_listo_add, MoveNext, GoTo
<1>15. ASSUME AdmitMain(p)
      PROVE  KeepsClose(p)
  BY <1>15 DEF AdmitMain, Lock, MoveNext, GoTo
<1>16. ASSUME NuevoAListoCreate(p)
      PROVE  KeepsClose(p)
  BY <1>16 DEF NuevoAListoCreate, nuevo_a_listo, eliminar_ULT_cola_actual,
     SinListo, SinExec, UnlockAll, Reply, GoTo
<1>17. ASSUME nuevo_a_ejecucion(p)
      PROVE  KeepsClose(p)
  BY <1>17 DEF nuevo_a_ejecucion, eliminar_ULT_cola_actual, SinListo, UnlockAll,
     Reply, GoTo
<1>18. ASSUME ejecucion_a_bloqueado(p)
      PROVE  KeepsClose(p)
  BY <1>18 DEF ejecucion_a_bloqueado, Reply, GoTo
<1>19. ASSUME decrementar_semaforo(p)
      PROVE  KeepsClose(p)
  BY <1>19 DEF decrementar_semaforo, Reply, GoTo
<1>20. ASSUME BlockOnSemaphore(p)
      PROVE  KeepsClose(p)
  BY <1>20 DEF BlockOnSemaphore, Lock, GoTo
<1>21. ASSUME ejecucion_a_bloqueado_por_semaforo(p)
      PROVE  KeepsClose(p)
  BY <1>21 DEF ejecucion_a_bloqueado_por_semaforo, UnlockAll, Reply, GoTo
<1>22. ASSUME SignalAtMax(p)
      PROVE  KeepsClose(p)
  BY <1>22 DEF SignalAtMax, Reply, GoTo
<1>23. ASSUME SignalNoWaiter(p)
      PROVE  KeepsClose(p)
  BY <1>23 DEF SignalNoWaiter, Reply, GoTo
<1>24. ASSUME desbloquear_hilos_semaforo(p)
      PROVE  KeepsClose(p)
  BY <1>24 DEF desbloquear_hilos_semaforo, Lock, MoveNext, GoTo
<1>25. ASSUME BloqueadoAListoSignal(p)
      PROVE  KeepsClose(p)
  BY <1>25 DEF BloqueadoAListoSignal, bloqueado_a_listo, eliminar_ULT_cola_actual,
     SinListo, SinExec, UnlockAll, Reply, GoTo
<1>26. ASSUME JoinerStillWaits(p)
      PROVE  KeepsClose(p)
  BY <1>26 DEF JoinerStillWaits, Unjoin
<1>27. ASSUME JoinerReady(p)
      PROVE  KeepsClose(p)
  BY <1>27 DEF JoinerReady, Unjoin, Lock, MoveNext, GoTo
<1>28. ASSUME JoinerNew(p)
      PROVE  KeepsClose(p)
  <2>1. /\ pc[p] = "desjoinear" /\ in[p].i \in DOMAIN joinedBy[in[p].ult]
        /\ in[p].ult \in Threads
    <3>1. /\ pc[p] = "desjoinear" /\ in[p].i <= Len(joinedBy[in[p].ult])
          /\ in[p].ult \in Threads /\ in[p].i \in Nat /\ in[p].i > 0
      BY <1>28 DEF JoinerNew, Unjoin, JoinLabels
    <3>2. joinedBy[in[p].ult] \in Seq(Threads)
      BY <3>1 DEF ThreadLists
    <3> QED
      BY <3>1, <3>2
  <2>2. joiner(p) # in[p].ult /\ procesoId(joiner(p)) = p
    BY <2>1 DEF joiner
  <2>3. /\ estado' = [estado EXCEPT ![joiner(p)] = "new"]
        /\ in' = [in EXCEPT ![p].hilo = joiner(p)]
        /\ pc' = [pc EXCEPT ![p] = "joiner_a_nuevo"]
        /\ owner' = [owner EXCEPT !["multiprog"] = p]
        /\ UNCHANGED <<process, EXEC_THREAD, running, joinedBy>>
    BY <1>28 DEF JoinerNew, Unjoin, Lock, GoTo
  <2>4. ClientOf(p)'
    BY <2>1, <2>2, <2>3
  <2>5. SparesOthers(p)
    BY <2>2, <2>3
  <2> QED
    BY <2>3, <2>4, <2>5
<1>29. ASSUME BloqueadoAListoJoin(p)
      PROVE  KeepsClose(p)
  BY <1>29 DEF BloqueadoAListoJoin, bloqueado_a_listo, eliminar_ULT_cola_actual,
     SinListo, SinExec, UnlockAll, NextJoiner, GoTo
<1>30. ASSUME joiner_a_nuevo(p)
      PROVE  KeepsClose(p)
  BY <1>30 DEF joiner_a_nuevo, UnlockAll, NextJoiner, GoTo
<1>31. ASSUME AllUnjoined(p)
      PROVE  KeepsClose(p)
  BY <1>31 DEF AllUnjoined, GoTo
<1>32. ASSUME close_switch(p)
      PROVE  KeepsClose(p)
  BY <1>32 DEF close_switch, GoTo
<1>33. ASSUME CloseNew(p)
      PROVE  KeepsClose(p)
  BY <1>33 DEF CloseNew, Lock, MoveNext, GoTo
<1>34. ASSUME nuevo_a_exit(p)
      PROVE  KeepsClose(p)
  BY <1>34 DEF nuevo_a_exit, a_exit, eliminar_ULT_cola_actual, SinListo, SinExec,
     UnlockAll, GoTo
<1>35. ASSUME CloseBlocked(p)
      PROVE  KeepsClose(p)
  BY <1>35 DEF CloseBlocked, Lock, GoTo
<1>36. ASSUME CloseBlockedMultiprog(p)
      PROVE  KeepsClose(p)
  BY <1>36 DEF CloseBlockedMultiprog, LeaveMultiprog, Lock, MoveNext, GoTo
<1>37. ASSUME bloqueado_a_exit(p)
      PROVE  KeepsClose(p)
  BY <1>37 DEF bloqueado_a_exit, a_exit, eliminar_ULT_cola_actual, SinListo,
     SinExec, GoTo
<1>38. ASSUME CloseReady(p)
      PROVE  KeepsClose(p)
  BY <1>38 DEF CloseReady, LeaveMultiprog, Lock, MoveNext, GoTo
<1>39. ASSUME listo_a_exit(p)
      PROVE  KeepsClose(p)
  BY <1>39 DEF listo_a_exit, a_exit, eliminar_ULT_cola_actual, SinListo, SinExec,
     GoTo
<1>40. ASSUME ListoAExitWait(p)
      PROVE  KeepsClose(p)
  BY <1>40 DEF ListoAExitWait, GoTo
<1>41. ASSUME CloseExecute(p)
      PROVE  KeepsClose(p)
  BY <1>41 DEF CloseExecute, Lock, GoTo
<1>42. ASSUME obtener_ULT_ready_FIFO(p)
      PROVE  KeepsClose(p)
  BY <1>42 DEF obtener_ULT_ready_FIFO, nuevo_a_listo_add, MoveNext, GoTo
<1>43. ASSUME NobodyToAdmit(p)
      PROVE  KeepsClose(p)
  BY <1>43 DEF NobodyToAdmit, UnlockAll, GoTo
<1>44. ASSUME NuevoAListoFIFO(p)
      PROVE  KeepsClose(p)
  BY <1>44 DEF NuevoAListoFIFO, nuevo_a_listo, eliminar_ULT_cola_actual, SinListo,
     SinExec, UnlockAll, GoTo
<1>45. ASSUME MetricasSemaforos(p)
      PROVE  KeepsClose(p)
  BY <1>45 DEF MetricasSemaforos, GoTo
<1>46. ASSUME MetricasMultiprog(p)
      PROVE  KeepsClose(p)
  BY <1>46 DEF MetricasMultiprog, Reply, GoTo
<1>47. ASSUME SemWait(p)
      PROVE  KeepsClose(p)
  BY <1>47 DEF SemWait, GoTo
<1>48. ASSUME PickReady(p)
      PROVE  KeepsClose(p)
  BY <1>48 DEF PickReady, MoveNext, GoTo
<1>49. ASSUME PickNone(p)
      PROVE  KeepsClose(p)
  BY <1>49 DEF PickNone, Reply, GoTo
<1>50. ASSUME listo_a_ejecucion(p)
      PROVE  KeepsClose(p)
  BY <1>50 DEF listo_a_ejecucion, eliminar_ULT_cola_actual, SinListo, Reply, GoTo
<1>51. ASSUME Crash(p)
      PROVE  KeepsClose(p)
  BY <1>51 DEF Crash
<1> QED
  BY <1>2, <1>3, <1>4, <1>5, <1>6, <1>7, <1>8, <1>9, <1>10, <1>11, <1>12, <1>13,
     <1>14, <1>15, <1>16, <1>17, <1>18, <1>19, <1>20, <1>21, <1>22, <1>23, <1>24,
     <1>25, <1>26, <1>27, <1>28, <1>29, <1>30, <1>31, <1>32, <1>33, <1>34, <1>35,
     <1>36, <1>37, <1>38, <1>39, <1>40, <1>41, <1>42, <1>43, <1>44, <1>45, <1>46,
     <1>47, <1>48, <1>49, <1>50, <1>51 DEF Request, Handle

\* A program that has not sent anything yet fits ClientOf.
LEMMA CloseInit == Init => CloseInv
  BY DEF Init, CloseInv, ClientOf, JoinsWithin, QueuesUnlocked, Free, RunsAt, Closing,
     ClosesOther, UltLabels, Mutexes

\* CloseInv is preserved by every step.
LEMMA CloseNext ==
  ASSUME TypeInv, CloseInv, ~CloseOthers, [Next]_vars
  PROVE  CloseInv'
<1>1. CASE Next
  <2>1. PICK p \in Programs : Request(p) \/ Handle(p) \/ Crash(p)
    BY <1>1 DEF Next
  <2>2. KeepsClose(p)
    BY <2>1, StepKeeps
  <2>3. \A q \in Programs \ {p} : ClientOf(q)'
    BY <2>2, OthersClient DEF CloseInv, KeepsClose
  <2> QED
    BY <2>2, <2>3 DEF CloseInv, KeepsClose
<1>2. CASE UNCHANGED vars
  BY <1>2 DEF CloseInv, ClientOf, JoinsWithin, QueuesUnlocked, Free, OnProcessor, hilo,
     vars, threads, queues, joins, sems
<1> QED
  BY <1>1, <1>2

(***************************************************************************)
(* The theorem.  The queue mutexes are free, and whoever holds one of the  *)
(* other two waits for a queue mutex at most: a chain of waiting handlers  *)
(* has at most one link.                                                   *)
(***************************************************************************)
\* A handler that holds a mutex does not wait for another handler.
LEMMA HolderGoesOn ==
  ASSUME TypeInv, MutualExclusion, CloseInv, NEW p \in Programs, WaitsFor(p) # NULL
  PROVE  WaitsFor(p) \in Programs /\ WaitsFor(WaitsFor(p)) = NULL
<1> DEFINE q == WaitsFor(p)
           m == Wants(p)
<1>1. /\ owner["new_queue"] = NULL /\ owner["blocked_queue"] = NULL
      /\ owner \in [Mutexes -> Programs \cup {NULL}]
  BY DEF TypeInv, DataOK, CloseInv, QueuesUnlocked, Free
<1>2. m \in {"multiprog", "semaforos", "new_queue", "blocked_queue", NULL}
  BY DEF Wants
<1>3. m \in {"multiprog", "semaforos"} /\ q = owner[m]
  BY <1>1, <1>2 DEF WaitsFor
<1>4. q \in Programs
  BY <1>1, <1>3 DEF Mutexes
<1>5. pc[q] \in MayHold(m)
  <2> HIDE DEF q, m
  <2> QED
    BY <1>3, <1>4 DEF MutualExclusion, Mutexes
<1>6. Wants(q) \in {"new_queue", "blocked_queue", NULL}
  <2> HIDE DEF q, m
  <2> QED
    BY <1>3, <1>5 DEF Wants, MayHold, Holds, Transitions
<1> QED
  BY <1>1, <1>4, <1>6 DEF WaitsFor

\* In every group of handlers somebody does not wait for the group.
LEMMA CloseNoDeadlock ==
  ASSUME TypeInv, MutualExclusion, CloseInv
  PROVE  NoDeadlock
<1> SUFFICES ASSUME NEW G \in SUBSET Programs, G # {}
             PROVE  \E p \in G : WaitsFor(p) \notin G
  BY DEF NoDeadlock
<1>1. PICK p \in G : TRUE
  OBVIOUS
<1>2. NULL \notin G
  BY SuseAssumption
<1>3. CASE WaitsFor(p) \in G
  BY <1>2, <1>3, HolderGoesOn
<1> QED
  BY <1>1, <1>3

\* CloseInv is an invariant of a system whose programs close only the thread they
\* run: the library sends suse_close for a thread that ends.
THEOREM CloseInvariance == ~CloseOthers => (Spec => []CloseInv)
<1> SUFFICES ASSUME ~CloseOthers
             PROVE  Spec => []CloseInv
  OBVIOUS
<1>1. SuseInv /\ CloseInv /\ [Next]_vars => CloseInv'
  BY CloseNext DEF SuseInv
<1> QED
  BY CloseInit, <1>1, Invariance, PTL DEF Spec

\* With programs that close only the thread they run, no circle of handlers waits
\* for each other's mutexes, whatever their number and interleaving.  Closing a
\* blocked thread takes mutex_blocked_queue twice (suse.c:672, 1378) and is where
\* the hypothesis is needed.
THEOREM DeadlockFree == ~CloseOthers => (Spec => []NoDeadlock)
<1> SUFFICES ASSUME ~CloseOthers
             PROVE  Spec => []NoDeadlock
  OBVIOUS
<1>1. SuseInv /\ CloseInv => NoDeadlock
  BY CloseNoDeadlock DEF SuseInv
<1>2. Spec => []CloseInv
  BY CloseInvariance
<1> QED
  BY <1>1, <1>2, Invariance, PTL
=============================================================================
