--------------------------- MODULE SuseDegreeProofs ---------------------------
(***************************************************************************)
(* ACTUAL_MULTIPROG bounds the threads that compete for the processor, for *)
(* any programs and whatever threads they close.                           *)
(***************************************************************************)
EXTENDS SuseProofs, FiniteSetTheorems

(***************************************************************************)
(* A thread is let in once.  K is the set of threads the scheduler knows   *)
(* from having let them in: every list and every pointer but new_queue and *)
(* the ULTS lists leads into K, so a thread outside it is not in ready,    *)
(* execute or blocked.                                                     *)
(***************************************************************************)
\* The lists of threads of K.
Lists(K) == Seq(K)

Created == {h \in Threads : estado[h] # "none"}

\* Where hilo and where ult lead to a thread that has been let in.
KnownHilo == {"nuevo_a_listo_create", "nuevo_a_listo_FIFO", "bloqueado_a_listo_signal",
              "bloqueado_a_listo_join", "joiner_a_nuevo", "listo_a_ejecucion"}

KnownUlt == {"decrementar_semaforo", "close_blocked", "close_blocked_multiprog",
             "close_ready", "close_execute"}

Tracks(K) ==
  /\ \A h \in Threads : estado[h] \in {"ready", "execute", "blocked"} => h \in K
  /\ \A h \in Threads : READY_LIST[h] > 0 => h \in K
  /\ EXEC_THREAD \in [Programs -> K \cup {NULL}]
  /\ running \in [Programs -> K \cup {NULL}]
  /\ BLOCKED_LIST \in [Semaphores -> Lists(K)]
  /\ joinedBy \in [Threads -> Lists(K)]
  /\ \A p \in Programs : pc[p] \in KnownHilo => hilo(p) \in K
  /\ \A p \in Programs : pc[p] \in KnownUlt => in[p].ult \in K

(***************************************************************************)
(* S is the set of threads that ACTUAL_MULTIPROG counts, main threads      *)
(* apart.  Under mutex_multiprog it is one thread behind K: a thread that  *)
(* is being let in is not counted yet, a thread that leaves no longer is.  *)
(***************************************************************************)
InFlightAt == {"nuevo_a_listo_create", "nuevo_a_listo_FIFO"}
LeavingAt == {"bloqueado_a_exit", "listo_a_exit"}

InFlight(h) == \E p \in Programs : pc[p] \in InFlightAt /\ hilo(p) = h
Leaving(h) == \E p \in Programs : pc[p] \in LeavingAt /\ hilo(p) = h

Counts(K, S) ==
  /\ Cardinality(S) <= ACTUAL_MULTIPROG
  /\ \A h \in S : h \in ULTS /\ tid(h) # 0 /\ ~Leaving(h)
  /\ \A h \in K : h \in ULTS /\ tid(h) # 0 /\ ~Leaving(h) => h \in S \/ InFlight(h)

\* A close on its way to the transition, and at it.
CloseUlt == {"desjoinear", "bloqueado_a_listo_join", "joiner_a_nuevo", "close_switch",
             "close_new", "close_blocked", "close_blocked_multiprog", "close_ready",
             "close_execute"}

ExitAt == LeavingAt \cup {"nuevo_a_exit"}

\* What a handler knows of its locals: only its own program's threads are closed,
\* by itself, so the thread it closes stays in ULTS until it takes it out.
HandlerOf(p) ==
  /\ pc[p] = "create" => in[p].ult \in Created
  /\ pc[p] = "nuevo_a_ejecucion" => tid(hilo(p)) = 0 /\ hilo(p) \in Created
  /\ pc[p] \in CloseUlt => in[p].ult \in ULTS /\ tid(in[p].ult) # 0 /\ procesoId(in[p].ult) = p
  /\ pc[p] \in ExitAt => hilo(p) \in ULTS /\ procesoId(hilo(p)) = p

Locally == new_queue \in Lists(Created) /\ \A p \in Programs : HandlerOf(p)

CountInv ==
  /\ Locally
  /\ \E K \in SUBSET Created : Tracks(K) /\ \E S \in SUBSET K : Counts(K, S)

\* Operations on a list of threads of K.
LEMMA ListOf ==
  ASSUME NEW K, NEW l \in Lists(K)
  PROVE  /\ \A h \in K : Append(l, h) \in Lists(K)
         /\ \A h : RemoveFirst(l, h) \in Lists(K)
         /\ l # <<>> => Head(l) \in K /\ Tail(l) \in Lists(K)
         /\ \A i \in Nat : i > 0 /\ i <= Len(l) => l[i] \in K
  BY RemoveFirstType DEF Lists

\* A list over a set is a list over a larger one.
LEMMA ListsGrow ==
  ASSUME NEW A, NEW B, A \subseteq B
  PROVE  Lists(A) \subseteq Lists(B)
  BY DEF Lists

\* What a step of p leaves alone.
Frame(p) ==
  /\ \A q \in Programs \ {p} : pc'[q] = pc[q] /\ in'[q] = in[q]
  /\ \A h \in Threads : estado[h] # "none" => estado'[h] # "none"
  /\ \A h \in ULTS : procesoId(h) # p => h \in ULTS'

\* A step of p keeps what p knows of its locals, and new_queue has no thread that
\* was not created.
LEMMA LocalStep ==
  ASSUME TypeInv, Locally, NEW K \in SUBSET Created, Tracks(K), NEW p \in Programs,
         Request(p) \/ Handle(p) \/ Crash(p)
  PROVE  Frame(p) /\ HandlerOf(p)' /\ new_queue' \in Lists(Created')
<1>0. /\ DataOK /\ HandlerOf(p) /\ new_queue \in Lists(Created)
      /\ pc \in [Programs -> Labels] /\ in \in [Programs -> Locals] /\ LocalsFor(pc[p], in[p])
  BY DEF TypeInv, ControlOK, LocalsSet, Locally
<1>a. /\ \A h \in Threads : procesoId(h) \in Programs
      /\ \A t \in Tids : <<p, t>> \in Threads /\ procesoId(<<p, t>>) = p /\ tid(<<p, t>>) = t
      /\ 0 \in Tids
  BY SuseAssumption DEF Threads, procesoId, tid
<1>b. /\ \A h : RemoveFirst(new_queue, h) \in Lists(Created)
      /\ new_queue # <<>> => Head(new_queue) \in Created
      /\ \A h \in Created : Append(new_queue, h) \in Lists(Created)
  BY <1>0, ListOf
<1>c. /\ pc[p] = "joiner_a_nuevo" => hilo(p) \in Created
      /\ Created \subseteq Threads
  BY DEF Tracks, KnownHilo, Created
<1>d. Frame(p) => Lists(Created) \subseteq Lists(Created')
  <2>1. Frame(p) => Created \subseteq Created'
    BY DEF Frame, Created
  <2> QED
    BY <2>1, ListsGrow
<1> DEFINE Goal == Frame(p) /\ HandlerOf(p)' /\ new_queue' \in Lists(Created)
<1> USE <1>0, <1>a, <1>b, <1>c
<1> USE DEF Frame, HandlerOf, hilo, CloseUlt, ExitAt, LeavingAt, At, Labels,
   Estados, DataOK, Locals, threads, queues, joins, sems
<1>2. ASSUME CreateMain(p)
      PROVE  Frame(p) /\ HandlerOf(p)' /\ new_queue' \in Lists(Created')
  <2>1. Frame(p) /\ HandlerOf(p)'
    BY <1>2 DEF CreateMain, ULT_create, GoTo, Created
  <2>2. <<p, 0>> \in Created' /\ Created \subseteq Created'
    BY <1>2, <2>1 DEF CreateMain, ULT_create, Created
  <2>3. new_queue' = Append(new_queue, <<p, 0>>)
    BY <1>2 DEF CreateMain, ULT_create
  <2>4. new_queue \in Lists(Created')
    BY <2>2, ListsGrow
  <2> HIDE DEF DataOK
  <2>5. new_queue' \in Lists(Created')
    BY <2>2, <2>3, <2>4, ListOf
  <2> QED
    BY <2>1, <2>5
<1>3. ASSUME NEW t \in Tids, CreateUlt(p, t)
      PROVE  Frame(p) /\ HandlerOf(p)' /\ new_queue' \in Lists(Created')
  <2>1. Frame(p) /\ HandlerOf(p)'
    BY <1>3 DEF CreateUlt, ULT_create, GoTo, Created
  <2>2. <<p, t>> \in Created' /\ Created \subseteq Created'
    BY <1>3, <2>1 DEF CreateUlt, ULT_create, Created
  <2>3. new_queue' = Append(new_queue, <<p, t>>)
    BY <1>3 DEF CreateUlt, ULT_create
  <2>4. new_queue \in Lists(Created')
    BY <2>2, ListsGrow
  <2> HIDE DEF DataOK
  <2>5. new_queue' \in Lists(Created')
    BY <2>2, <2>3, <2>4, ListOf
  <2> QED
    BY <2>1, <2>5
<1>4. ASSUME ScheduleNext(p)
      PROVE  Goal
  BY <1>4 DEF ScheduleNext, GoTo, UltLabels, HiloLabels, Transitions
<1>5. ASSUME CloseMain(p)
      PROVE  Goal
  BY <1>5 DEF CloseMain, Closable, GoTo, UltLabels, HiloLabels, Transitions
<1>6. ASSUME Disconnect(p)
      PROVE  Goal
  BY <1>6 DEF Disconnect, GoTo, UltLabels, HiloLabels, Transitions
<1>7. ASSUME NEW t \in Tids, Join(p, t)
      PROVE  Goal
  BY <1>7 DEF Join, GoTo, UltLabels, HiloLabels, Transitions
<1>8. ASSUME NEW t \in Tids, JoinReturns(p, t)
      PROVE  Goal
  BY <1>8 DEF JoinReturns, UltLabels, HiloLabels, Transitions
<1>9. ASSUME NEW t \in Tids, ReceiveClose(p, t)
      PROVE  Goal
  BY <1>9 DEF ReceiveClose, Closable, GoTo, UltLabels, HiloLabels, Transitions
<1>10. ASSUME NEW t \in Tids, CloseUnknown(p, t)
      PROVE  Goal
  BY <1>10 DEF CloseUnknown, Closable, UltLabels, HiloLabels, Transitions
<1>11. ASSUME NEW s \in Semaphores, ReceiveWait(p, s)
      PROVE  Goal
  BY <1>11 DEF ReceiveWait, GoTo, UltLabels, HiloLabels, Transitions
<1>12. ASSUME NEW s \in Semaphores, ReceiveSignal(p, s)
      PROVE  Goal
  BY <1>12 DEF ReceiveSignal, GoTo, UltLabels, HiloLabels, Transitions
<1>13. ASSUME NotAdmitted(p)
      PROVE  Goal
  BY <1>13 DEF NotAdmitted, Reply, GoTo, UltLabels, HiloLabels, Transitions
<1>14. ASSUME AdmitUlt(p)
      PROVE  Goal
  BY <1>14 DEF AdmitUlt, Lock, nuevo_a_listo_add, MoveNext, GoTo, UltLabels,
     HiloLabels, Transitions
<1>15. ASSUME AdmitMain(p)
      PROVE  Goal
  BY <1>15 DEF AdmitMain, Lock, MoveNext, GoTo, UltLabels, HiloLabels, Transitions,
     Created
<1>16. ASSUME NuevoAListoCreate(p)
      PROVE  Goal
  BY <1>16 DEF NuevoAListoCreate, nuevo_a_listo, eliminar_ULT_cola_actual,
     SinListo, SinExec, UnlockAll, Reply, GoTo, UltLabels, HiloLabels, Transitions
<1>17. ASSUME nuevo_a_ejecucion(p)
      PROVE  Goal
  BY <1>17 DEF nuevo_a_ejecucion, eliminar_ULT_cola_actual, SinListo, UnlockAll,
     Reply, GoTo, UltLabels, HiloLabels, Transitions
<1>18. ASSUME ejecucion_a_bloqueado(p)
      PROVE  Goal
  BY <1>18 DEF ejecucion_a_bloqueado, Reply, GoTo, UltLabels, HiloLabels,
     Transitions
<1>19. ASSUME decrementar_semaforo(p)
      PROVE  Goal
  BY <1>19 DEF decrementar_semaforo, Reply, GoTo, UltLabels, HiloLabels,
     Transitions
<1>20. ASSUME BlockOnSemaphore(p)
      PROVE  Goal
  BY <1>20 DEF BlockOnSemaphore, Lock, GoTo, UltLabels, HiloLabels, Transitions
<1>21. ASSUME ejecucion_a_bloqueado_por_semaforo(p)
      PROVE  Goal
  BY <1>21 DEF ejecucion_a_bloqueado_por_semaforo, UnlockAll, Reply, GoTo,
     UltLabels, HiloLabels, Transitions
<1>22. ASSUME SignalAtMax(p)
      PROVE  Goal
  BY <1>22 DEF SignalAtMax, Reply, GoTo, UltLabels, HiloLabels, Transitions
<1>23. ASSUME SignalNoWaiter(p)
      PROVE  Goal
  BY <1>23 DEF SignalNoWaiter, Reply, GoTo, UltLabels, HiloLabels, Transitions
<1>24. ASSUME desbloquear_hilos_semaforo(p)
      PROVE  Goal
  BY <1>24 DEF desbloquear_hilos_semaforo, Lock, MoveNext, GoTo, UltLabels,
     HiloLabels, Transitions
<1>25. ASSUME BloqueadoAListoSignal(p)
      PROVE  Goal
  BY <1>25 DEF BloqueadoAListoSignal, bloqueado_a_listo, eliminar_ULT_cola_actual,
     SinListo, SinExec, UnlockAll, Reply, GoTo, UltLabels, HiloLabels, Transitions
<1>26. ASSUME JoinerStillWaits(p)
      PROVE  Goal
  BY <1>26 DEF JoinerStillWaits, Unjoin, UltLabels, HiloLabels, Transitions
<1>27. ASSUME JoinerReady(p)
      PROVE  Goal
  BY <1>27 DEF JoinerReady, Unjoin, Lock, MoveNext, GoTo, UltLabels, HiloLabels,
     Transitions
<1>28. ASSUME JoinerNew(p)
      PROVE  Goal
  BY <1>28 DEF JoinerNew, Unjoin, Lock, GoTo, UltLabels, HiloLabels, Transitions
<1>29. ASSUME BloqueadoAListoJoin(p)
      PROVE  Goal
  BY <1>29 DEF BloqueadoAListoJoin, bloqueado_a_listo, eliminar_ULT_cola_actual,
     SinListo, SinExec, UnlockAll, NextJoiner, GoTo, UltLabels, HiloLabels,
     Transitions
<1>30. ASSUME joiner_a_nuevo(p)
      PROVE  Goal
  BY <1>30 DEF joiner_a_nuevo, UnlockAll, NextJoiner, GoTo, UltLabels, HiloLabels,
     Transitions
<1>31. ASSUME AllUnjoined(p)
      PROVE  Goal
  BY <1>31 DEF AllUnjoined, GoTo, UltLabels, HiloLabels, Transitions
<1>32. ASSUME close_switch(p)
      PROVE  Goal
  BY <1>32 DEF close_switch, GoTo, UltLabels, HiloLabels, Transitions
<1>33. ASSUME CloseNew(p)
      PROVE  Goal
  BY <1>33 DEF CloseNew, Lock, MoveNext, GoTo, UltLabels, HiloLabels, Transitions
<1>34. ASSUME nuevo_a_exit(p)
      PROVE  Goal
  BY <1>34 DEF nuevo_a_exit, a_exit, eliminar_ULT_cola_actual, SinListo, SinExec,
     UnlockAll, GoTo, UltLabels, HiloLabels, Transitions
<1>35. ASSUME CloseBlocked(p)
      PROVE  Goal
  BY <1>35 DEF CloseBlocked, Lock, GoTo, UltLabels, HiloLabels, Transitions
<1>36. ASSUME CloseBlockedMultiprog(p)
      PROVE  Goal
  BY <1>36 DEF CloseBlockedMultiprog, LeaveMultiprog, Lock, MoveNext, GoTo,
     UltLabels, HiloLabels, Transitions
<1>37. ASSUME bloqueado_a_exit(p)
      PROVE  Goal
  BY <1>37 DEF bloqueado_a_exit, a_exit, eliminar_ULT_cola_actual, SinListo,
     SinExec, GoTo, UltLabels, HiloLabels, Transitions
<1>38. ASSUME CloseReady(p)
      PROVE  Goal
  BY <1>38 DEF CloseReady, LeaveMultiprog, Lock, MoveNext, GoTo, UltLabels,
     HiloLabels, Transitions
<1>39. ASSUME listo_a_exit(p)
      PROVE  Goal
  BY <1>39 DEF listo_a_exit, a_exit, eliminar_ULT_cola_actual, SinListo, SinExec,
     GoTo, UltLabels, HiloLabels, Transitions
<1>40. ASSUME ListoAExitWait(p)
      PROVE  Goal
  BY <1>40 DEF ListoAExitWait, GoTo, UltLabels, HiloLabels, Transitions
<1>41. ASSUME CloseExecute(p)
      PROVE  Goal
  BY <1>41 DEF CloseExecute, Lock, GoTo, UltLabels, HiloLabels, Transitions
<1>42. ASSUME obtener_ULT_ready_FIFO(p)
      PROVE  Goal
  BY <1>42 DEF obtener_ULT_ready_FIFO, nuevo_a_listo_add, MoveNext, GoTo,
     UltLabels, HiloLabels, Transitions
<1>43. ASSUME NobodyToAdmit(p)
      PROVE  Goal
  BY <1>43 DEF NobodyToAdmit, UnlockAll, GoTo, UltLabels, HiloLabels, Transitions
<1>44. ASSUME NuevoAListoFIFO(p)
      PROVE  Goal
  BY <1>44 DEF NuevoAListoFIFO, nuevo_a_listo, eliminar_ULT_cola_actual, SinListo,
     SinExec, UnlockAll, GoTo, UltLabels, HiloLabels, Transitions
<1>45. ASSUME MetricasSemaforos(p)
      PROVE  Goal
  BY <1>45 DEF MetricasSemaforos, GoTo, UltLabels, HiloLabels, Transitions
<1>46. ASSUME MetricasMultiprog(p)
      PROVE  Goal
  BY <1>46 DEF MetricasMultiprog, Reply, GoTo, UltLabels, HiloLabels, Transitions
<1>47. ASSUME SemWait(p)
      PROVE  Goal
  BY <1>47 DEF SemWait, GoTo, UltLabels, HiloLabels, Transitions
<1>48. ASSUME PickReady(p)
      PROVE  Goal
  BY <1>48 DEF PickReady, MoveNext, GoTo, UltLabels, HiloLabels, Transitions
<1>49. ASSUME PickNone(p)
      PROVE  Goal
  BY <1>49 DEF PickNone, Reply, GoTo, UltLabels, HiloLabels, Transitions
<1>50. ASSUME listo_a_ejecucion(p)
      PROVE  Goal
  BY <1>50 DEF listo_a_ejecucion, eliminar_ULT_cola_actual, SinListo, Reply, GoTo,
     UltLabels, HiloLabels, Transitions
<1>51. ASSUME Crash(p)
      PROVE  Goal
  BY <1>51 DEF Crash, Created
<1> HIDE DEF Frame, HandlerOf, DataOK
<1> QED
  BY <1>d, <1>2, <1>3, <1>4, <1>5, <1>6, <1>7, <1>8, <1>9, <1>10, <1>11, <1>12,
     <1>13, <1>14, <1>15, <1>16, <1>17, <1>18, <1>19, <1>20, <1>21, <1>22, <1>23,
     <1>24, <1>25, <1>26, <1>27, <1>28, <1>29, <1>30, <1>31, <1>32, <1>33, <1>34,
     <1>35, <1>36, <1>37, <1>38, <1>39, <1>40, <1>41, <1>42, <1>43, <1>44, <1>45,
     <1>46, <1>47, <1>48, <1>49, <1>50, <1>51 DEF Request, Handle

\* The threads that a step lets in are in K.
Enters(p, K) ==
  /\ CreateMain(p) => <<p, 0>> \in K
  /\ AdmitUlt(p) => in[p].ult \in K
  /\ nuevo_a_ejecucion(p) => hilo(p) \in K
  /\ obtener_ULT_ready_FIFO(p) => Head(new_queue) \in K

\* More threads than those that were let in can be in K.
LEMMA TracksMore ==
  ASSUME NEW K, NEW M, K \subseteq M, Tracks(K)
  PROVE  Tracks(M)
<1>1. Lists(K) \subseteq Lists(M)
  BY ListsGrow
<1> QED
  BY <1>1 DEF Tracks

\* No step leads from a list or a pointer to a thread outside K.
LEMMA TrackStep ==
  ASSUME TypeInv, SemaphoreAccounting, NEW K \in SUBSET Threads, Tracks(K), NEW p \in Programs,
         Enters(p, K), Request(p) \/ Handle(p) \/ Crash(p)
  PROVE  Tracks(K)'
<1>0. /\ DataOK /\ pc \in [Programs -> Labels] /\ in \in [Programs -> Locals]
      /\ LocalsFor(pc[p], in[p])
  BY DEF TypeInv, ControlOK, LocalsSet
<1>a. /\ \A t \in Tids : <<p, t>> \in Threads
      /\ NULL \notin Threads
  BY SuseAssumption DEF Threads
<1>b. \A s \in Semaphores : /\ \A h \in K : Append(BLOCKED_LIST[s], h) \in Lists(K)
                            /\ BLOCKED_LIST[s] # <<>> => /\ Head(BLOCKED_LIST[s]) \in K
                                                         /\ Tail(BLOCKED_LIST[s]) \in Lists(K)
  BY ListOf DEF Tracks
<1>c. \A g \in Threads, h \in K : Append(joinedBy[g], h) \in Lists(K)
  BY ListOf DEF Tracks
<1>d. pc[p] = "desjoinear" /\ in[p].i <= Len(joinedBy[in[p].ult]) => joiner(p) \in K
  <2>1. pc[p] = "desjoinear" => in[p].ult \in Threads /\ in[p].i \in Nat /\ in[p].i > 0
    BY <1>0 DEF LocalsFor, UltLabels, JoinLabels, Locals
  <2> QED
    BY <2>1, ListOf DEF Tracks, joiner
<1>e. pc[p] = "bloqueado_a_listo_signal" =>
        in[p].sem \in Semaphores /\ BLOCKED_LIST[in[p].sem] # <<>>
  BY SomebodyWaits DEF TypeInv
<1>f. \A h \in Threads : SinListo(p)[h] > 0 => h \in K
  BY <1>0 DEF SinListo, Minus, DataOK, Tracks
<1> USE <1>0, <1>a, <1>b, <1>c, <1>d, <1>e
<1> USE DEF Tracks, Enters, KnownHilo, KnownUlt, hilo, At, Labels, LocalsFor,
   UltLabels, HiloLabels, Transitions, SemLabels, Estados, DataOK, ULTorNull,
   Locals, threads, queues, joins, sems
<1>2. ASSUME CreateMain(p)
      PROVE  Tracks(K)'
  BY <1>2 DEF CreateMain, ULT_create, GoTo
<1>3. ASSUME NEW t \in Tids, CreateUlt(p, t)
      PROVE  Tracks(K)'
  BY <1>3 DEF CreateUlt, ULT_create, GoTo
<1>4. ASSUME ScheduleNext(p)
      PROVE  Tracks(K)'
  <2>1. /\ pc' = [pc EXCEPT ![p] = "sem_wait"] /\ in' = in
        /\ running' = [running EXCEPT ![p] = NULL]
        /\ BLOCKED_LIST' = BLOCKED_LIST /\ joinedBy' = joinedBy
    BY <1>4 DEF ScheduleNext, GoTo
  <2>2. CASE EXEC_THREAD[p] = NULL
    BY <1>4, <2>1, <2>2 DEF ScheduleNext
  <2>3. CASE EXEC_THREAD[p] # NULL
    <3>1. /\ READY_LIST' = [READY_LIST EXCEPT ![EXEC_THREAD[p]] = @ + 1]
          /\ estado' = [estado EXCEPT ![EXEC_THREAD[p]] = "ready"]
          /\ EXEC_THREAD' = [EXEC_THREAD EXCEPT ![p] = NULL]
      BY <1>4, <2>3 DEF ScheduleNext, Plus
    <3>2. EXEC_THREAD[p] \in K
      BY <2>3
    <3> QED
      BY <2>1, <3>1, <3>2
  <2> QED
    BY <2>2, <2>3
<1>5. ASSUME CloseMain(p)
      PROVE  Tracks(K)'
  BY <1>5 DEF CloseMain, Closable, GoTo
<1>6. ASSUME Disconnect(p)
      PROVE  Tracks(K)'
  BY <1>6 DEF Disconnect, GoTo
<1>7. ASSUME NEW t \in Tids, Join(p, t)
      PROVE  Tracks(K)'
  BY <1>7 DEF Join, GoTo
<1>8. ASSUME NEW t \in Tids, JoinReturns(p, t)
      PROVE  Tracks(K)'
  BY <1>8 DEF JoinReturns
<1>9. ASSUME NEW t \in Tids, ReceiveClose(p, t)
      PROVE  Tracks(K)'
  BY <1>9 DEF ReceiveClose, Closable, GoTo
<1>10. ASSUME NEW t \in Tids, CloseUnknown(p, t)
      PROVE  Tracks(K)'
  BY <1>10 DEF CloseUnknown, Closable
<1>11. ASSUME NEW s \in Semaphores, ReceiveWait(p, s)
      PROVE  Tracks(K)'
  BY <1>11 DEF ReceiveWait, GoTo
<1>12. ASSUME NEW s \in Semaphores, ReceiveSignal(p, s)
      PROVE  Tracks(K)'
  BY <1>12 DEF ReceiveSignal, GoTo
<1>13. ASSUME NotAdmitted(p)
      PROVE  Tracks(K)'
  BY <1>13 DEF NotAdmitted, Reply, GoTo
<1>14. ASSUME AdmitUlt(p)
      PROVE  Tracks(K)'
  BY <1>14 DEF AdmitUlt, Lock, nuevo_a_listo_add, MoveNext, GoTo, Plus, Minus
<1>15. ASSUME AdmitMain(p)
      PROVE  Tracks(K)'
  BY <1>15 DEF AdmitMain, Lock, MoveNext, GoTo
<1>16. ASSUME NuevoAListoCreate(p)
      PROVE  Tracks(K)'
  BY <1>16 DEF NuevoAListoCreate, nuevo_a_listo, eliminar_ULT_cola_actual,
     SinListo, SinExec, UnlockAll, Reply, GoTo, Plus, Minus
<1>17. ASSUME nuevo_a_ejecucion(p)
      PROVE  Tracks(K)'
  BY <1>17 DEF nuevo_a_ejecucion, eliminar_ULT_cola_actual, SinListo, UnlockAll,
     Reply, GoTo, Plus, Minus
<1>18. ASSUME ejecucion_a_bloqueado(p)
      PROVE  Tracks(K)'
  BY <1>18 DEF ejecucion_a_bloqueado, Reply, GoTo
<1>19. ASSUME decrementar_semaforo(p)
      PROVE  Tracks(K)'
  BY <1>19 DEF decrementar_semaforo, Reply, GoTo
<1>20. ASSUME BlockOnSemaphore(p)
      PROVE  Tracks(K)'
  BY <1>20 DEF BlockOnSemaphore, Lock, GoTo
<1>21. ASSUME ejecucion_a_bloqueado_por_semaforo(p)
      PROVE  Tracks(K)'
  BY <1>21 DEF ejecucion_a_bloqueado_por_semaforo, UnlockAll, Reply, GoTo
<1>22. ASSUME SignalAtMax(p)
      PROVE  Tracks(K)'
  BY <1>22 DEF SignalAtMax, Reply, GoTo
<1>23. ASSUME SignalNoWaiter(p)
      PROVE  Tracks(K)'
  BY <1>23 DEF SignalNoWaiter, Reply, GoTo
<1>24. ASSUME desbloquear_hilos_semaforo(p)
      PROVE  Tracks(K)'
  BY <1>24 DEF desbloquear_hilos_semaforo, Lock, MoveNext, GoTo
<1>25. ASSUME BloqueadoAListoSignal(p)
      PROVE  Tracks(K)'
  BY <1>25 DEF BloqueadoAListoSignal, bloqueado_a_listo, eliminar_ULT_cola_actual,
     SinListo, SinExec, UnlockAll, Reply, GoTo, Plus, Minus
<1>26. ASSUME JoinerStillWaits(p)
      PROVE  Tracks(K)'
  BY <1>26 DEF JoinerStillWaits, Unjoin
<1>27. ASSUME JoinerReady(p)
      PROVE  Tracks(K)'
  BY <1>27 DEF JoinerReady, Unjoin, Lock, MoveNext, GoTo
<1>28. ASSUME JoinerNew(p)
      PROVE  Tracks(K)'
  BY <1>28 DEF JoinerNew, Unjoin, Lock, GoTo
<1>29. ASSUME BloqueadoAListoJoin(p)
      PROVE  Tracks(K)'
  BY <1>29 DEF BloqueadoAListoJoin, bloqueado_a_listo, eliminar_ULT_cola_actual,
     SinListo, SinExec, UnlockAll, NextJoiner, GoTo, Plus, Minus
<1>30. ASSUME joiner_a_nuevo(p)
      PROVE  Tracks(K)'
  BY <1>30 DEF joiner_a_nuevo, UnlockAll, NextJoiner, GoTo
<1>31. ASSUME AllUnjoined(p)
      PROVE  Tracks(K)'
  BY <1>31 DEF AllUnjoined, GoTo
<1>32. ASSUME close_switch(p)
      PROVE  Tracks(K)'
  BY <1>32 DEF close_switch, GoTo
<1>33. ASSUME CloseNew(p)
      PROVE  Tracks(K)'
  BY <1>33 DEF CloseNew, Lock, MoveNext, GoTo
<1>34. ASSUME nuevo_a_exit(p)
      PROVE  Tracks(K)'
  BY <1>34, <1>f DEF nuevo_a_exit, a_exit, SinExec, GoTo
<1>35. ASSUME CloseBlocked(p)
      PROVE  Tracks(K)'
  BY <1>35 DEF CloseBlocked, Lock, GoTo
<1>36. ASSUME CloseBlockedMultiprog(p)
      PROVE  Tracks(K)'
  BY <1>36 DEF CloseBlockedMultiprog, LeaveMultiprog, Lock, MoveNext, GoTo
<1>37. ASSUME bloqueado_a_exit(p)
      PROVE  Tracks(K)'
  BY <1>37, <1>f DEF bloqueado_a_exit, a_exit, SinExec, GoTo
<1>38. ASSUME CloseReady(p)
      PROVE  Tracks(K)'
  BY <1>38 DEF CloseReady, LeaveMultiprog, Lock, MoveNext, GoTo
<1>39. ASSUME listo_a_exit(p)
      PROVE  Tracks(K)'
  BY <1>39, <1>f DEF listo_a_exit, a_exit, SinExec, GoTo
<1>40. ASSUME ListoAExitWait(p)
      PROVE  Tracks(K)'
  BY <1>40 DEF ListoAExitWait, GoTo
<1>41. ASSUME CloseExecute(p)
      PROVE  Tracks(K)'
  BY <1>41 DEF CloseExecute, Lock, GoTo
<1>42. ASSUME obtener_ULT_ready_FIFO(p)
      PROVE  Tracks(K)'
  BY <1>42 DEF obtener_ULT_ready_FIFO, nuevo_a_listo_add, MoveNext, GoTo, Plus,
     Minus
<1>43. ASSUME NobodyToAdmit(p)
      PROVE  Tracks(K)'
  BY <1>43 DEF NobodyToAdmit, UnlockAll, GoTo
<1>44. ASSUME NuevoAListoFIFO(p)
      PROVE  Tracks(K)'
  BY <1>44 DEF NuevoAListoFIFO, nuevo_a_listo, eliminar_ULT_cola_actual, SinListo,
     SinExec, UnlockAll, GoTo, Plus, Minus
<1>45. ASSUME MetricasSemaforos(p)
      PROVE  Tracks(K)'
  BY <1>45 DEF MetricasSemaforos, GoTo
<1>46. ASSUME MetricasMultiprog(p)
      PROVE  Tracks(K)'
  BY <1>46 DEF MetricasMultiprog, Reply, GoTo
<1>47. ASSUME SemWait(p)
      PROVE  Tracks(K)'
  BY <1>47 DEF SemWait, GoTo
<1>48. ASSUME PickReady(p)
      PROVE  Tracks(K)'
  BY <1>48 DEF PickReady, MoveNext, GoTo
<1>49. ASSUME PickNone(p)
      PROVE  Tracks(K)'
  BY <1>49 DEF PickNone, Reply, GoTo
<1>50. ASSUME listo_a_ejecucion(p)
      PROVE  Tracks(K)'
  BY <1>50 DEF listo_a_ejecucion, eliminar_ULT_cola_actual, SinListo, Reply, GoTo,
     Plus, Minus
<1>51. ASSUME Crash(p)
      PROVE  Tracks(K)'
  BY <1>51 DEF Crash
<1> HIDE DEF Tracks, DataOK
<1> QED
  BY <1>2, <1>3, <1>4, <1>5, <1>6, <1>7, <1>8, <1>9, <1>10, <1>11, <1>12, <1>13,
     <1>14, <1>15, <1>16, <1>17, <1>18, <1>19, <1>20, <1>21, <1>22, <1>23, <1>24,
     <1>25, <1>26, <1>27, <1>28, <1>29, <1>30, <1>31, <1>32, <1>33, <1>34, <1>35,
     <1>36, <1>37, <1>38, <1>39, <1>40, <1>41, <1>42, <1>43, <1>44, <1>45, <1>46,
     <1>47, <1>48, <1>49, <1>50, <1>51 DEF Request, Handle

(***************************************************************************)
(* Most steps let nobody in and nobody out.                                *)
(***************************************************************************)
BusyAt == InFlightAt \cup LeavingAt

CountsNothing(p) ==
  /\ ACTUAL_MULTIPROG <= ACTUAL_MULTIPROG'
  /\ \A h \in ULTS' : h \in ULTS \/ estado[h] = "none" \/ tid(h) = 0
  /\ \/ pc[p] \notin BusyAt /\ pc'[p] \notin BusyAt
     \/ UNCHANGED <<pc, in>>

Admits(p) == AdmitUlt(p) \/ obtener_ULT_ready_FIFO(p)
Counted(p) == NuevoAListoCreate(p) \/ NuevoAListoFIFO(p)
Leaves(p) == CloseBlockedMultiprog(p) \/ CloseReady(p)
Exits(p) == bloqueado_a_exit(p) \/ listo_a_exit(p)

\* Every step by what it does to the count.
LEMMA CountingSteps ==
  ASSUME TypeInv, NEW p \in Programs, Request(p) \/ Handle(p) \/ Crash(p)
  PROVE  Admits(p) \/ Counted(p) \/ Leaves(p) \/ Exits(p) \/ CloseExecute(p) \/ CountsNothing(p)
<1>0. ACTUAL_MULTIPROG \in Int /\ pc \in [Programs -> Labels]
  BY DEF TypeInv, DataOK, ControlOK
<1> USE <1>0
<1> USE DEF CountsNothing, BusyAt, InFlightAt, LeavingAt, At, threads
<1>2. ASSUME CreateMain(p)
      PROVE  CountsNothing(p)
  <2>1. ULTS' = ULTS \cup {<<p, 0>>} /\ tid(<<p, 0>>) = 0 /\ ACTUAL_MULTIPROG' = ACTUAL_MULTIPROG
    BY <1>2 DEF CreateMain, ULT_create, tid
  <2>2. pc[p] = "idle" /\ pc'[p] = "create"
    BY <1>2 DEF CreateMain, ULT_create, GoTo
  <2> QED
    BY <2>1, <2>2
<1>3. ASSUME NEW t \in Tids, CreateUlt(p, t)
      PROVE  CountsNothing(p)
  <2>1. ULTS' = ULTS \cup {<<p, t>>} /\ estado[<<p, t>>] = "none" /\ ACTUAL_MULTIPROG' = ACTUAL_MULTIPROG
    BY <1>3 DEF CreateUlt, ULT_create, tid
  <2>2. pc[p] = "idle" /\ pc'[p] = "create"
    BY <1>3 DEF CreateUlt, ULT_create, GoTo
  <2> QED
    BY <2>1, <2>2
<1>4. ASSUME ScheduleNext(p)
      PROVE  CountsNothing(p)
  BY <1>4 DEF ScheduleNext, GoTo
<1>5. ASSUME CloseMain(p)
      PROVE  CountsNothing(p)
  BY <1>5 DEF CloseMain, Closable, GoTo
<1>6. ASSUME Disconnect(p)
      PROVE  CountsNothing(p)
  BY <1>6 DEF Disconnect, GoTo
<1>7. ASSUME NEW t \in Tids, Join(p, t)
      PROVE  CountsNothing(p)
  BY <1>7 DEF Join, GoTo
<1>8. ASSUME NEW t \in Tids, JoinReturns(p, t)
      PROVE  CountsNothing(p)
  BY <1>8 DEF JoinReturns
<1>9. ASSUME NEW t \in Tids, ReceiveClose(p, t)
      PROVE  CountsNothing(p)
  BY <1>9 DEF ReceiveClose, Closable, GoTo
<1>10. ASSUME NEW t \in Tids, CloseUnknown(p, t)
      PROVE  CountsNothing(p)
  BY <1>10 DEF CloseUnknown, Closable
<1>11. ASSUME NEW s \in Semaphores, ReceiveWait(p, s)
      PROVE  CountsNothing(p)
  BY <1>11 DEF ReceiveWait, GoTo
<1>12. ASSUME NEW s \in Semaphores, ReceiveSignal(p, s)
      PROVE  CountsNothing(p)
  BY <1>12 DEF ReceiveSignal, GoTo
<1>13. ASSUME NotAdmitted(p)
      PROVE  CountsNothing(p)
  BY <1>13 DEF NotAdmitted, Reply, GoTo
<1>14. ASSUME AdmitMain(p)
      PROVE  CountsNothing(p)
  BY <1>14 DEF AdmitMain, MoveNext, GoTo
<1>15. ASSUME nuevo_a_ejecucion(p)
      PROVE  CountsNothing(p)
  BY <1>15 DEF nuevo_a_ejecucion, Reply, GoTo
<1>16. ASSUME ejecucion_a_bloqueado(p)
      PROVE  CountsNothing(p)
  BY <1>16 DEF ejecucion_a_bloqueado, Reply, GoTo
<1>17. ASSUME decrementar_semaforo(p)
      PROVE  CountsNothing(p)
  BY <1>17 DEF decrementar_semaforo, Reply, GoTo
<1>18. ASSUME BlockOnSemaphore(p)
      PROVE  CountsNothing(p)
  BY <1>18 DEF BlockOnSemaphore, GoTo
<1>19. ASSUME ejecucion_a_bloqueado_por_semaforo(p)
      PROVE  CountsNothing(p)
  BY <1>19 DEF ejecucion_a_bloqueado_por_semaforo, Reply, GoTo
<1>20. ASSUME SignalAtMax(p)
      PROVE  CountsNothing(p)
  BY <1>20 DEF SignalAtMax, Reply, GoTo
<1>21. ASSUME SignalNoWaiter(p)
      PROVE  CountsNothing(p)
  BY <1>21 DEF SignalNoWaiter, Reply, GoTo
<1>22. ASSUME desbloquear_hilos_semaforo(p)
      PROVE  CountsNothing(p)
  BY <1>22 DEF desbloquear_hilos_semaforo, MoveNext, GoTo
<1>23. ASSUME BloqueadoAListoSignal(p)
      PROVE  CountsNothing(p)
  BY <1>23 DEF BloqueadoAListoSignal, bloqueado_a_listo, Reply, GoTo
<1>24. ASSUME JoinerStillWaits(p)
      PROVE  CountsNothing(p)
  BY <1>24 DEF JoinerStillWaits, Unjoin
<1>25. ASSUME JoinerReady(p)
      PROVE  CountsNothing(p)
  BY <1>25 DEF JoinerReady, Unjoin, MoveNext, GoTo
<1>26. ASSUME JoinerNew(p)
      PROVE  CountsNothing(p)
  BY <1>26 DEF JoinerNew, Unjoin, GoTo
<1>27. ASSUME BloqueadoAListoJoin(p)
      PROVE  CountsNothing(p)
  BY <1>27 DEF BloqueadoAListoJoin, bloqueado_a_listo, NextJoiner, GoTo
<1>28. ASSUME joiner_a_nuevo(p)
      PROVE  CountsNothing(p)
  BY <1>28 DEF joiner_a_nuevo, NextJoiner, GoTo
<1>29. ASSUME AllUnjoined(p)
      PROVE  CountsNothing(p)
  BY <1>29 DEF AllUnjoined, GoTo
<1>30. ASSUME close_switch(p)
      PROVE  CountsNothing(p)
  BY <1>30 DEF close_switch, GoTo
<1>31. ASSUME CloseNew(p)
      PROVE  CountsNothing(p)
  BY <1>31 DEF CloseNew, MoveNext, GoTo
<1>32. ASSUME nuevo_a_exit(p)
      PROVE  CountsNothing(p)
  BY <1>32 DEF nuevo_a_exit, a_exit, GoTo
<1>33. ASSUME CloseBlocked(p)
      PROVE  CountsNothing(p)
  BY <1>33 DEF CloseBlocked, GoTo
<1>34. ASSUME ListoAExitWait(p)
      PROVE  CountsNothing(p)
  BY <1>34 DEF ListoAExitWait, GoTo
<1>35. ASSUME NobodyToAdmit(p)
      PROVE  CountsNothing(p)
  BY <1>35 DEF NobodyToAdmit, GoTo
<1>36. ASSUME MetricasSemaforos(p)
      PROVE  CountsNothing(p)
  BY <1>36 DEF MetricasSemaforos, GoTo
<1>37. ASSUME MetricasMultiprog(p)
      PROVE  CountsNothing(p)
  BY <1>37 DEF MetricasMultiprog, Reply, GoTo
<1>38. ASSUME SemWait(p)
      PROVE  CountsNothing(p)
  BY <1>38 DEF SemWait, GoTo
<1>39. ASSUME PickReady(p)
      PROVE  CountsNothing(p)
  BY <1>39 DEF PickReady, MoveNext, GoTo
<1>40. ASSUME PickNone(p)
      PROVE  CountsNothing(p)
  BY <1>40 DEF PickNone, Reply, GoTo
<1>41. ASSUME listo_a_ejecucion(p)
      PROVE  CountsNothing(p)
  BY <1>41 DEF listo_a_ejecucion, Reply, GoTo
<1>42. ASSUME Crash(p)
      PROVE  CountsNothing(p)
  BY <1>42 DEF Crash
<1> HIDE DEF CountsNothing
<1> QED
  BY <1>2, <1>3, <1>4, <1>5, <1>6, <1>7, <1>8, <1>9, <1>10, <1>11, <1>12, <1>13,
     <1>14, <1>15, <1>16, <1>17, <1>18, <1>19, <1>20, <1>21, <1>22, <1>23, <1>24,
     <1>25, <1>26, <1>27, <1>28, <1>29, <1>30, <1>31, <1>32, <1>33, <1>34, <1>35,
     <1>36, <1>37, <1>38, <1>39, <1>40, <1>41, <1>42 DEF Request, Handle, Admits,
     Counted, Leaves, Exits

\* Sets of threads are finite.
LEMMA ThreadsFinite == IsFiniteSet(Threads)
  BY SuseAssumption, FS_Product DEF Threads

\* Of two handlers, one at most lets a thread in or out, and none while
\* mutex_multiprog is free.
LEMMA OneBusy ==
  ASSUME MutualExclusion, NEW p \in Programs, pc[p] \in BusyAt
  PROVE  owner["multiprog"] = p
  BY DEF MutualExclusion, BusyAt, InFlightAt, LeavingAt, Holds, Mutexes

\* What a step of p changes of InFlight and Leaving is its own contribution.
LEMMA OthersFly ==
  ASSUME NEW p \in Programs, Frame(p), NEW h
  PROVE  /\ InFlight(h)' <=> \/ \E q \in Programs \ {p} : pc[q] \in InFlightAt /\ hilo(q) = h
                             \/ pc'[p] \in InFlightAt /\ hilo(p)' = h
         /\ Leaving(h)' <=> \/ \E q \in Programs \ {p} : pc[q] \in LeavingAt /\ hilo(q) = h
                            \/ pc'[p] \in LeavingAt /\ hilo(p)' = h
  BY DEF InFlight, Leaving, Frame, hilo

\* The step of p counts on, for the threads M with the set R of counted ones.
StillCounts(p, K, M, R) ==
  /\ K \subseteq M /\ M \subseteq Created' /\ Enters(p, M)
  /\ R \subseteq M /\ Counts(M, R)'

\* A step that lets nobody in or out counts the same threads, but for those that
\* have left ULTS.
LEMMA CountQuiet ==
  ASSUME TypeInv, Locally, NEW K \in SUBSET Created, Tracks(K), NEW S \in SUBSET K, Counts(K, S),
         NEW p \in Programs, Frame(p), CountsNothing(p), ~Admits(p), TypeInv'
  PROVE  \E M, R : StillCounts(p, K, M, R)
<1>a. PICK M : M = K \cup (IF CreateMain(p) THEN {<<p, 0>>} ELSE {})
                     \cup (IF nuevo_a_ejecucion(p) THEN {hilo(p)} ELSE {})
  OBVIOUS
<1>b. PICK R : R = S \cap ULTS'
  OBVIOUS
<1>1. M \subseteq Created' /\ \A h \in M \ K : tid(h) = 0
  <2>1. K \subseteq Created'
    BY DEF Frame, Created
  <2>2. CreateMain(p) => <<p, 0>> \in Created' /\ tid(<<p, 0>>) = 0
    BY SuseAssumption DEF CreateMain, ULT_create, Created, Threads, tid, TypeInv, DataOK
  <2>3. nuevo_a_ejecucion(p) => hilo(p) \in Created' /\ tid(hilo(p)) = 0
    BY DEF nuevo_a_ejecucion, At, Locally, HandlerOf, Created, Frame
  <2> QED
    BY <1>a, <2>1, <2>2, <2>3
<1>2. K \subseteq M /\ R \subseteq M
  BY <1>a, <1>b
<1>3. Enters(p, M)
  BY <1>a DEF Enters, Admits
<1>4. Cardinality(R) <= ACTUAL_MULTIPROG'
  <2>1. IsFiniteSet(S)
    BY ThreadsFinite, FS_Subset DEF Created
  <2>2. Cardinality(R) <= Cardinality(S) /\ Cardinality(S) \in Nat /\ Cardinality(R) \in Nat
    BY <1>b, <2>1, FS_Subset, FS_CardinalityType
  <2>3. ACTUAL_MULTIPROG \in Int /\ ACTUAL_MULTIPROG' \in Int
    BY DEF TypeInv, DataOK
  <2> QED
    BY <2>2, <2>3 DEF Counts, CountsNothing
<1>5. \A h : (InFlight(h)' <=> InFlight(h)) /\ (Leaving(h)' <=> Leaving(h))
  BY OthersFly DEF CountsNothing, InFlight, Leaving, BusyAt, hilo
<1>6. \A h \in K : h \in ULTS' /\ tid(h) # 0 => h \in ULTS
  BY DEF CountsNothing, Created
<1>7. \A h \in R : h \in ULTS' /\ tid(h) # 0 /\ ~Leaving(h)'
  BY <1>b, <1>5 DEF Counts
<1>8. \A h \in M : h \in ULTS' /\ tid(h) # 0 /\ ~Leaving(h)' => h \in R \/ InFlight(h)'
  BY <1>1, <1>b, <1>5, <1>6 DEF Counts
<1>9. Counts(M, R)'
  BY <1>4, <1>7, <1>8 DEF Counts
<1> QED
  BY <1>1, <1>2, <1>3, <1>9 DEF StillCounts

\* While the step of p takes or holds mutex_multiprog nobody else is busy.
LEMMA NobodyElseBusy ==
  ASSUME TypeInv, MutualExclusion, NEW p \in Programs, Free("multiprog") \/ pc[p] \in BusyAt
  PROVE  /\ \A q \in Programs \ {p} : pc[q] \notin BusyAt
         /\ Free("multiprog") => pc[p] \notin BusyAt
  BY OneBusy, SuseAssumption DEF Free

\* A thread is let in: it is known from now on, and in flight.
LEMMA CountAdmit ==
  ASSUME TypeInv, MutualExclusion, Locally, NEW K \in SUBSET Created, Tracks(K),
         NEW S \in SUBSET K, Counts(K, S), NEW p \in Programs, Frame(p), Admits(p)
  PROVE  \E M, R : StillCounts(p, K, M, R)
<1>0. pc \in [Programs -> Labels] /\ in \in [Programs -> Locals]
  BY DEF TypeInv, ControlOK
<1>1. PICK x \in Created : /\ AdmitUlt(p) => x = in[p].ult
                           /\ obtener_ULT_ready_FIFO(p) => x = Head(new_queue)
  <2>1. CASE AdmitUlt(p)
    <3>1. in[p].ult \in Created /\ pc[p] = "create"
      BY <2>1 DEF AdmitUlt, At, Locally, HandlerOf
    <3>2. ~obtener_ULT_ready_FIFO(p)
      BY <3>1 DEF obtener_ULT_ready_FIFO, At
    <3> QED
      BY <3>1, <3>2
  <2>2. CASE obtener_ULT_ready_FIFO(p)
    <3>1. Head(new_queue) \in Created /\ pc[p] # "create"
      BY <2>2, ListOf DEF obtener_ULT_ready_FIFO, At, Locally
    <3> QED
      BY <3>1 DEF AdmitUlt, At
  <2> QED
    BY <2>1, <2>2 DEF Admits
<1>2. /\ pc[p] \notin BusyAt /\ pc'[p] \in InFlightAt /\ hilo(p)' = x
      /\ ULTS' = ULTS /\ ACTUAL_MULTIPROG' = ACTUAL_MULTIPROG
  <2>1. CASE AdmitUlt(p)
    BY <1>0, <1>1, <2>1 DEF AdmitUlt, nuevo_a_listo_add, MoveNext, GoTo, At, BusyAt, InFlightAt,
       LeavingAt, hilo, threads, Locals
  <2>2. CASE obtener_ULT_ready_FIFO(p)
    BY <1>0, <1>1, <2>2 DEF obtener_ULT_ready_FIFO, nuevo_a_listo_add, MoveNext, GoTo, At,
       BusyAt, InFlightAt, LeavingAt, hilo, threads, Locals
  <2> QED
    BY <2>1, <2>2 DEF Admits
<1>3. PICK M : M = K \cup {x}
  OBVIOUS
<1>4. K \subseteq M /\ M \subseteq Created' /\ S \subseteq M
  BY <1>3 DEF Frame, Created
<1>5. ~CreateMain(p) /\ ~nuevo_a_ejecucion(p)
  <2>1. pc[p] \in {"create", "obtener_ULT_ready_FIFO"}
    BY DEF Admits, AdmitUlt, obtener_ULT_ready_FIFO, At
  <2> QED
    BY <2>1 DEF CreateMain, nuevo_a_ejecucion, At
<1>6. Enters(p, M)
  BY <1>1, <1>3, <1>5 DEF Enters
<1>7. \A h : /\ InFlight(h) \/ h = x => InFlight(h)'
             /\ Leaving(h)' <=> Leaving(h)
  BY <1>2, OthersFly DEF InFlight, Leaving, BusyAt, InFlightAt, LeavingAt
<1>8. Counts(M, S)'
  BY <1>2, <1>3, <1>7 DEF Counts
<1> QED
  BY <1>4, <1>6, <1>8 DEF StillCounts

\* Where the count changes, or the thread that is not counted leaves ULTS, no
\* thread becomes known.
LEMMA EntersNothing ==
  ASSUME NEW p \in Programs, NEW K \in SUBSET Created, Frame(p),
         Counted(p) \/ Leaves(p) \/ CloseExecute(p) \/ Exits(p)
  PROVE  Enters(p, K) /\ K \subseteq Created'
<1>1. pc[p] \in BusyAt \cup {"close_blocked_multiprog", "close_ready", "close_execute"}
  BY DEF Counted, Leaves, Exits, NuevoAListoCreate, NuevoAListoFIFO, CloseBlockedMultiprog,
     CloseReady, CloseExecute, bloqueado_a_exit, listo_a_exit, At, BusyAt, InFlightAt, LeavingAt
<1>2. Enters(p, K)
  BY <1>1 DEF Enters, CreateMain, AdmitUlt, nuevo_a_ejecucion, obtener_ULT_ready_FIFO, At,
     BusyAt, InFlightAt, LeavingAt
<1> QED
  BY <1>2 DEF Frame, Created

\* The thread that was let in is counted.
LEMMA CountIn ==
  ASSUME TypeInv, MutualExclusion, NEW K \in SUBSET Created, Tracks(K),
         NEW S \in SUBSET K, Counts(K, S), NEW p \in Programs, Frame(p), Counted(p)
  PROVE  \E M, R : StillCounts(p, K, M, R)
<1>0. pc \in [Programs -> Labels] /\ in \in [Programs -> Locals] /\ ACTUAL_MULTIPROG \in Int
  BY DEF TypeInv, ControlOK, DataOK
<1>1. /\ pc[p] \in InFlightAt /\ pc'[p] \notin BusyAt
      /\ ULTS' = ULTS /\ ACTUAL_MULTIPROG' = ACTUAL_MULTIPROG + 1
  BY <1>0 DEF Counted, NuevoAListoCreate, NuevoAListoFIFO, nuevo_a_listo, Reply, GoTo, At,
     BusyAt, InFlightAt, LeavingAt
<1>2. hilo(p) \in K
  BY <1>1 DEF Tracks, KnownHilo, InFlightAt
<1>3. \A q \in Programs \ {p} : pc[q] \notin BusyAt
  BY <1>1, NobodyElseBusy DEF BusyAt
<1>4. PICK R : R = IF hilo(p) \in ULTS /\ tid(hilo(p)) # 0 THEN S \cup {hilo(p)} ELSE S
  OBVIOUS
<1>5. \A h : ~Leaving(h) /\ ~Leaving(h)' /\ (InFlight(h) => h = hilo(p))
  BY <1>1, <1>3, OthersFly DEF InFlight, Leaving, BusyAt, InFlightAt, LeavingAt
<1>6. Cardinality(R) <= ACTUAL_MULTIPROG'
  <2>1. IsFiniteSet(S)
    BY ThreadsFinite, FS_Subset DEF Created
  <2>2. Cardinality(S) \in Nat /\ Cardinality(R) \in {Cardinality(S), Cardinality(S) + 1}
    BY <1>4, <2>1, FS_AddElement, FS_CardinalityType
  <2> QED
    BY <1>0, <1>1, <2>2 DEF Counts
<1>7. Counts(K, R)'
  BY <1>1, <1>4, <1>5, <1>6 DEF Counts
<1>8. R \subseteq K
  BY <1>2, <1>4
<1> QED
  BY <1>7, <1>8, EntersNothing DEF StillCounts

\* A close that takes its thread out of the degree takes a thread that is counted.
LEMMA CountOut ==
  ASSUME TypeInv, MutualExclusion, Locally, NEW K \in SUBSET Created, Tracks(K),
         NEW S \in SUBSET K, Counts(K, S), NEW p \in Programs, Frame(p),
         Leaves(p) \/ CloseExecute(p)
  PROVE  \E M, R : StillCounts(p, K, M, R)
<1>0. pc \in [Programs -> Labels] /\ in \in [Programs -> Locals] /\ ACTUAL_MULTIPROG \in Int
  BY DEF TypeInv, ControlOK, DataOK
<1> DEFINE x == in[p].ult
<1>1. /\ Free("multiprog") /\ ACTUAL_MULTIPROG' = ACTUAL_MULTIPROG - 1
      /\ pc[p] \in KnownUlt \cap CloseUlt /\ pc[p] \notin BusyAt
      /\ pc'[p] \notin InFlightAt
  BY <1>0 DEF Leaves, CloseBlockedMultiprog, CloseReady, LeaveMultiprog, CloseExecute, MoveNext,
     GoTo, At, KnownUlt, CloseUlt, BusyAt, InFlightAt, LeavingAt
<1>2. /\ ULTS' \subseteq ULTS
      /\ \/ ULTS' = ULTS /\ pc'[p] \in LeavingAt /\ hilo(p)' = x
         \/ ULTS' = ULTS \ {x} /\ pc'[p] \notin BusyAt
  <2>1. CASE Leaves(p)
    BY <1>0, <2>1 DEF Leaves, CloseBlockedMultiprog, CloseReady, LeaveMultiprog, MoveNext, GoTo,
       LeavingAt, hilo, threads, Locals
  <2>2. CASE CloseExecute(p)
    BY <1>0, <2>2 DEF CloseExecute, GoTo, BusyAt, InFlightAt, LeavingAt
  <2> QED
    BY <2>1, <2>2
<1>3. \A q \in Programs : pc[q] \notin BusyAt
  BY <1>1, NobodyElseBusy
<1>4. \A h : ~Leaving(h) /\ ~InFlight(h)
  BY <1>3 DEF Leaving, InFlight, BusyAt
<1>5. \A h : (Leaving(h)' => h = x) /\ (Leaving(h)' \/ h \in ULTS' => (h = x <=> Leaving(h)'))
  BY <1>1, <1>2, <1>3, OthersFly DEF BusyAt
<1>6. x \in S
  BY <1>1, <1>4 DEF Locally, HandlerOf, Tracks, Counts
<1>7. PICK R : R = S \ {x}
  OBVIOUS
<1>8. Cardinality(R) <= ACTUAL_MULTIPROG'
  <2>1. IsFiniteSet(S)
    BY ThreadsFinite, FS_Subset DEF Created
  <2>2. Cardinality(S) \in Nat /\ Cardinality(R) = Cardinality(S) - 1
    BY <1>6, <1>7, <2>1, FS_RemoveElement, FS_CardinalityType
  <2> QED
    BY <1>0, <1>1, <2>2 DEF Counts
<1>9. \A h \in R : h \in ULTS' /\ tid(h) # 0 /\ ~Leaving(h)'
  BY <1>2, <1>5, <1>7 DEF Counts
<1>10. \A h \in K : h \in ULTS' /\ tid(h) # 0 /\ ~Leaving(h)' => h \in R
  BY <1>2, <1>4, <1>5, <1>7 DEF Counts
<1>11. Counts(K, R)'
  BY <1>8, <1>9, <1>10 DEF Counts
<1> QED
  BY <1>7, <1>11, EntersNothing DEF StillCounts

\* The thread that was taken out of the degree leaves ULTS.
LEMMA CountExit ==
  ASSUME TypeInv, MutualExclusion, NEW K \in SUBSET Created, Tracks(K),
         NEW S \in SUBSET K, Counts(K, S), NEW p \in Programs, Frame(p), Exits(p)
  PROVE  \E M, R : StillCounts(p, K, M, R)
<1>0. pc \in [Programs -> Labels]
  BY DEF TypeInv, ControlOK
<1>1. /\ pc[p] \in LeavingAt /\ pc'[p] \notin BusyAt
      /\ ULTS' = ULTS \ {hilo(p)} /\ ACTUAL_MULTIPROG' = ACTUAL_MULTIPROG
  BY <1>0 DEF Exits, bloqueado_a_exit, listo_a_exit, a_exit, GoTo, At, BusyAt, InFlightAt,
     LeavingAt
<1>2. \A q \in Programs \ {p} : pc[q] \notin BusyAt
  BY <1>1, NobodyElseBusy DEF BusyAt
<1>3. \A h : /\ ~InFlight(h) /\ ~Leaving(h)'
             /\ Leaving(h) <=> h = hilo(p)
  BY <1>1, <1>2, OthersFly DEF InFlight, Leaving, BusyAt, InFlightAt, LeavingAt
<1>4. Counts(K, S)'
  BY <1>1, <1>3 DEF Counts
<1> QED
  BY <1>4, EntersNothing DEF StillCounts

(***************************************************************************)
(* The invariant and the theorem.                                          *)
(***************************************************************************)
\* At the start nothing is known and nothing counted.
LEMMA CountInit == Init => CountInv
<1> SUFFICES ASSUME Init PROVE CountInv
  OBVIOUS
<1>1. \A K : <<>> \in Lists(K)
  BY DEF Lists
<1>2. Locally
  BY <1>1 DEF Init, Locally, HandlerOf, CloseUlt, ExitAt, LeavingAt
<1>3. Tracks({})
  BY <1>1 DEF Init, Tracks, KnownHilo, KnownUlt
<1>4. Counts({}, {})
  BY FS_EmptySet DEF Init, Counts
<1> QED
  BY <1>2, <1>3, <1>4 DEF CountInv

\* Every step preserves CountInv.
LEMMA CountNext ==
  ASSUME SuseInv, SuseInv', CountInv, [Next]_vars
  PROVE  CountInv'
<1>0. TypeInv /\ MutualExclusion /\ SemaphoreAccounting /\ TypeInv' /\ Locally
  BY DEF SuseInv, CountInv
<1>a. PICK K \in SUBSET Created : Tracks(K) /\ \E S \in SUBSET K : Counts(K, S)
  BY DEF CountInv
<1>b. PICK S \in SUBSET K : Counts(K, S)
  BY <1>a
<1>1. CASE Next
  <2>1. PICK p \in Programs : Request(p) \/ Handle(p) \/ Crash(p)
    BY <1>1 DEF Next
  <2>2. Frame(p) /\ HandlerOf(p)' /\ new_queue' \in Lists(Created')
    BY <1>0, <1>a, <2>1, LocalStep
  <2>3. \A q \in Programs \ {p} : HandlerOf(q)'
    BY <1>0, <2>2 DEF Locally, HandlerOf, Frame, Created, hilo
  <2>4. PICK M, R : StillCounts(p, K, M, R)
    BY <1>0, <1>a, <1>b, <2>1, <2>2, CountingSteps, CountQuiet, CountAdmit, CountIn, CountOut,
       CountExit
  <2>5. Tracks(M)'
    <3>1. M \in SUBSET Threads /\ Tracks(M) /\ Enters(p, M)
      BY <1>a, <2>4, TracksMore DEF StillCounts, Created
    <3> QED
      BY <1>0, <2>1, <3>1, TrackStep
  <2> QED
    BY <2>2, <2>3, <2>4, <2>5 DEF CountInv, Locally, StillCounts
<1>2. CASE UNCHANGED vars
  <2>1. Locally'
    BY <1>0, <1>2 DEF Locally, HandlerOf, Created, hilo, vars, threads, queues
  <2>2. Tracks(K)' /\ Counts(K, S)' /\ K \subseteq Created'
    BY <1>2, <1>a, <1>b DEF Tracks, Counts, InFlight, Leaving, Created, hilo, vars, threads, queues,
       joins, sems
  <2> QED
    BY <2>1, <2>2 DEF CountInv
<1> QED
  BY <1>1, <1>2

\* With mutex_multiprog free nobody is between, and every admitted thread is
\* counted.
LEMMA CountBounds ==
  ASSUME SuseInv, CountInv
  PROVE  MultiprogBound
<1>0. TypeInv /\ MutualExclusion /\ DegreeBounded
  BY DEF SuseInv, DegreeInv
<1>1. SUFFICES ASSUME Free("multiprog")
               PROVE  Cardinality(Admitted) <= ACTUAL_MULTIPROG
  BY <1>0 DEF MultiprogBound
<1>2. PICK K \in SUBSET Created : Tracks(K) /\ \E S \in SUBSET K : Counts(K, S)
  BY DEF CountInv
<1>3. PICK S \in SUBSET K : Counts(K, S)
  BY <1>2
<1>4. \A p \in Programs : pc[p] \notin BusyAt
  BY <1>0, <1>1, NobodyElseBusy
<1>5. \A h : ~Leaving(h) /\ ~InFlight(h)
  BY <1>4 DEF Leaving, InFlight, BusyAt
<1>6. Admitted \subseteq S
  BY <1>0, <1>2, <1>3, <1>5 DEF Admitted, Tracks, Counts, TypeInv, DataOK
<1>7. IsFiniteSet(S)
  BY ThreadsFinite, FS_Subset DEF Created
<1>8. Cardinality(Admitted) <= Cardinality(S) /\ Cardinality(S) \in Nat
      /\ Cardinality(Admitted) \in Nat /\ ACTUAL_MULTIPROG \in Int
  BY <1>0, <1>6, <1>7, FS_Subset, FS_CardinalityType DEF TypeInv, DataOK
<1> QED
  BY <1>3, <1>8 DEF Counts

\* CountInv is an invariant of the scheduler.
THEOREM CountInvariance == Spec => []CountInv
<1>1. SuseInv /\ SuseInv' /\ CountInv /\ [Next]_vars => CountInv'
  BY CountNext
<1> QED
  BY CountInit, <1>1, Invariance, PTL DEF Spec

\* MAX_MULTIPROG bounds the threads in ready, execute and blocked, main threads
\* apart: ACTUAL_MULTIPROG never counts fewer, although nuevo_a_listo adds a
\* thread to READY before it counts it, close_tid takes one out of the count before
\* it leaves its queue (suse.c:675, 690), and a thread may be closed, by the
\* handler of its own program, while another handler is letting it in.
THEOREM DegreeCounted == Spec => []MultiprogBound
<1>1. SuseInv /\ CountInv => MultiprogBound
  BY CountBounds
<1> QED
  BY <1>1, Invariance, CountInvariance, PTL
=============================================================================
