--------------------------- MODULE SuseSingleProofs ---------------------------
(***************************************************************************)
(* What one program sees of SUSE when it is alone and closes only the      *)
(* thread it runs: every thread is in the queue its estado names, and      *)
(* semaforoReady counts READY_LIST.  With two programs both fail, as the   *)
(* same thread can be let in by the handlers of both.                      *)
(***************************************************************************)
EXTENDS SuseProofs, FiniteSetTheorems

\* One program, that closes only the thread it runs, and a place for its main
\* thread.
Alone ==
  /\ \A p, q \in Programs : p = q
  /\ ~CloseOthers
  /\ MAX_MULTIPROG > 0

Live == {"new", "ready", "execute", "blocked"}

\* Where a handler has added hilo to READY_LIST and not yet taken it out of
\* new_queue.
InFlightAt == {"nuevo_a_listo_create", "nuevo_a_listo_FIFO"}

WakesAt == {"bloqueado_a_listo_signal", "bloqueado_a_listo_join"}

BlocksAt == {"ejecucion_a_bloqueado", "ejecucion_a_bloqueado_por_semaforo"}

ClosesAt == {"desjoinear", "bloqueado_a_listo_join", "joiner_a_nuevo", "close_switch",
             "close_execute"}

\* A thread that runs is in execute, so no other path of close_tid is taken.
Unreached ==
  {"close_ready", "listo_a_exit", "listo_a_exit_wait", "close_new", "nuevo_a_exit",
   "close_blocked", "close_blocked_multiprog", "bloqueado_a_exit"}

\* The main thread has been created and is not yet in execute.
MainWaits(p) ==
  pc[p] = "nuevo_a_ejecucion" \/ (pc[p] = "create" /\ tid(in[p].ult) = 0)

\* ULTS and EXEC_THREAD say what estado says.
Threaded(p) ==
  /\ \A h \in Threads : h \in ULTS <=> estado[h] \in Live
  /\ \A h \in Threads : EXEC_THREAD[p] = h <=> estado[h] = "execute"
  /\ process[p] = "none" => /\ ACTUAL_MULTIPROG = 0 /\ pc[p] = "idle" /\ running[p] = NULL
                            /\ \A h \in Threads : estado[h] = "none"
  /\ process[p] = "alive" => estado[<<p, 0>>] # "none"

\* The locals of the handler are what it read, whatever it has done since.
Current(p) ==
  /\ pc[p] \notin Unreached
  /\ pc[p] = "create" => estado[in[p].ult] = "new" /\ (tid(in[p].ult) = 0 => ACTUAL_MULTIPROG = 0)
  /\ pc[p] \in InFlightAt \cup {"nuevo_a_ejecucion"} => estado[hilo(p)] = "new" /\ cola(p) = "new"
  /\ pc[p] \in WakesAt => estado[hilo(p)] = "blocked" /\ cola(p) = "blocked"
  /\ pc[p] = "joiner_a_nuevo" => estado[hilo(p)] = "new"
  /\ pc[p] = "listo_a_ejecucion" => estado[hilo(p)] = "ready" /\ cola(p) = "ready"
  /\ pc[p] \in BlocksAt => estado[in[p].ult] = "blocked"

\* The thread the client runs is the thread in execution.
Runs(p) ==
  /\ pc[p] \in {"sem_wait", "pick", "listo_a_ejecucion"} => EXEC_THREAD[p] = NULL
  /\ pc[p] \in ClosesAt \cup {"decrementar_semaforo"} =>
       EXEC_THREAD[p] = in[p].ult /\ running[p] = NULL
  /\ MainWaits(p) => running[p] = <<p, 0>> /\ EXEC_THREAD[p] = NULL
  /\ pc[p] = "nuevo_a_ejecucion" => hilo(p) = <<p, 0>>
  /\ running[p] # NULL /\ ~MainWaits(p) => EXEC_THREAD[p] = running[p]

\* READY_LIST has a thread once if it is in READY.
Readied(p) ==
  \A h \in Threads :
    READY_LIST[h] = IF estado[h] = "ready" \/ (pc[p] \in InFlightAt /\ hilo(p) = h) THEN 1 ELSE 0

\* new_queue has the threads in NEW, each of them once.
Queued(p) ==
  /\ IsInjective(new_queue)
  /\ \A h \in Threads :
       h \in Range(new_queue) <=> estado[h] = "new" /\ ~(pc[p] = "joiner_a_nuevo" /\ hilo(p) = h)

\* blocked_queue has the threads in BLOCKED.
Listed(p) ==
  \A h \in Threads : estado[h] = "blocked" =>
     blocked_queue[h] > 0 \/ (pc[p] \in BlocksAt /\ in[p].ult = h)

\* The close of g has already seen to the i-th thread that joined it.
Undone(p, g, i) ==
  /\ in[p].ult = g
  /\ \/ pc[p] = "desjoinear" /\ i < in[p].i
     \/ pc[p] \in {"bloqueado_a_listo_join", "joiner_a_nuevo"} /\ i <= in[p].i
     \/ pc[p] \in {"close_switch", "close_execute"}

\* The places in joinedBy of g that its close will see to.
Pending(p, g) == {i \in DOMAIN joinedBy[g] : g \in ULTS /\ ~Undone(p, g, i)}

\* A blocked thread waits in one place: in the list of a semaphore, once, or for
\* the close of one thread.
InSemaphores ==
  /\ \A s, r \in Semaphores : \A i \in DOMAIN BLOCKED_LIST[s], j \in DOMAIN BLOCKED_LIST[r] :
       BLOCKED_LIST[s][i] = BLOCKED_LIST[r][j] => s = r /\ i = j
  /\ \A s \in Semaphores : \A i \in DOMAIN BLOCKED_LIST[s] :
       estado[BLOCKED_LIST[s][i]] = "blocked" /\ joinTo[BLOCKED_LIST[s][i]] = <<>>

InJoins(p) ==
  /\ \A h \in Threads : estado[h] # "blocked" => joinTo[h] = <<>>
  /\ \A g \in Threads : estado[g] = "none" => joinedBy[g] = <<>>
  /\ \A g \in Threads : \A i \in Pending(p, g) :
       estado[joinedBy[g][i]] = "blocked" /\ joinTo[joinedBy[g][i]] = <<g>>
  /\ \A g \in Threads : \A i, j \in Pending(p, g) : joinedBy[g][i] = joinedBy[g][j] => i = j

Woken(p) ==
  /\ pc[p] = "bloqueado_a_listo_join" =>
       /\ joinTo[hilo(p)] = <<>>
       /\ \A s \in Semaphores : \A i \in DOMAIN BLOCKED_LIST[s] : BLOCKED_LIST[s][i] # hilo(p)
  /\ pc[p] = "bloqueado_a_listo_signal" =>
       BLOCKED_LIST[in[p].sem] # <<>> /\ hilo(p) = Head(BLOCKED_LIST[in[p].sem])

Waiting(p) == InSemaphores /\ InJoins(p) /\ Woken(p)

Counted(p) == ReadyCount(p) = semaforoReady[p] + InTransit(p)

AloneInv ==
  \A p \in Programs :
    IF process[p] = "destroyed" THEN pc[p] = "done" /\ ULTS = {}
    ELSE /\ Threaded(p) /\ Current(p) /\ Runs(p)
         /\ Readied(p) /\ Queued(p) /\ Listed(p) /\ Waiting(p) /\ Counted(p)

\* What every step of the only program p may use.
AloneAt(p) ==
  /\ Alone /\ TypeInv /\ process[p] # "destroyed"
  /\ Threaded(p) /\ Current(p) /\ Runs(p)

\* Every step but the close of the main thread.
Goes(p) == (Request(p) \/ Handle(p) \/ Crash(p)) /\ ~CloseMain(p)

\* Every thread is of the only program.
LEMMA OnlyOne ==
  ASSUME NEW p \in Programs, Alone
  PROVE  /\ \A h \in Threads : procesoId(h) = p
         /\ \A t \in Tids : <<p, t>> \in Threads
         /\ <<p, 0>> \in Threads /\ NULL \notin Threads
         /\ \A h \in Threads : tid(h) = 0 => h = <<p, 0>>
  BY SuseAssumption DEF Alone, Threads, procesoId, tid


(***************************************************************************)
(* What the handler knows of the threads.                                  *)
(***************************************************************************)
\* The thread that a wake or a close comes upon is blocked.
LEMMA FoundBlocked ==
  ASSUME NEW p \in Programs, AloneAt(p), Waiting(p)
  PROVE  /\ \A s \in Semaphores : BLOCKED_LIST[s] # <<>> =>
              /\ Head(BLOCKED_LIST[s]) \in Threads
              /\ estado[Head(BLOCKED_LIST[s])] = "blocked"
         /\ Unjoin(p) => joiner(p) \in Threads /\ estado[joiner(p)] = "blocked"
<1>0. DataOK /\ ControlOK /\ LocalsFor(pc[p], in[p]) /\ in[p] \in Locals
  BY DEF AloneAt, TypeInv, ControlOK, LocalsSet
<1>1. ASSUME NEW s \in Semaphores, BLOCKED_LIST[s] # <<>>
      PROVE  Head(BLOCKED_LIST[s]) \in Threads /\ estado[Head(BLOCKED_LIST[s])] = "blocked"
  <2>1. BLOCKED_LIST[s] \in Seq(Threads)
    BY <1>0 DEF DataOK, ThreadLists
  <2>2. 1 \in DOMAIN BLOCKED_LIST[s] /\ Head(BLOCKED_LIST[s]) = BLOCKED_LIST[s][1]
    BY <1>1, <2>1
  <2> QED
    BY <1>1, <2>1, <2>2, ListType DEF Waiting, InSemaphores, ThreadLists
<1>2. ASSUME Unjoin(p)
      PROVE  joiner(p) \in Threads /\ estado[joiner(p)] = "blocked"
  <2>1. /\ pc[p] = "desjoinear" /\ in[p].ult \in Threads /\ in[p].i \in Nat /\ in[p].i > 0
        /\ in[p].i <= Len(joinedBy[in[p].ult])
    BY <1>0, <1>2 DEF Unjoin, At, LocalsFor, UltLabels, JoinLabels, Locals
  <2>2. joinedBy[in[p].ult] \in Seq(Threads)
    BY <1>0, <2>1 DEF DataOK, ThreadLists
  <2>3. in[p].ult \in ULTS
    BY <2>1 DEF AloneAt, Threaded, Runs, ClosesAt, Live
  <2>4. in[p].i \in Pending(p, in[p].ult)
    BY <2>1, <2>2, <2>3 DEF Pending, Undone
  <2> QED
    BY <1>0, <2>1, <2>4, JoinerType DEF Waiting, InJoins, joiner
<1> QED
  BY <1>1, <1>2

\* The thread that a close lets in is new.
LEMMA HeadIsNew ==
  ASSUME NEW p \in Programs, AloneAt(p), Queued(p), new_queue # <<>>
  PROVE  Head(new_queue) \in Threads /\ estado[Head(new_queue)] = "new"
<1>1. new_queue \in Seq(Threads)
  BY DEF AloneAt, TypeInv, DataOK, ThreadLists
<1>2. Head(new_queue) \in Threads /\ Head(new_queue) \in Range(new_queue)
  BY <1>1 DEF Range
<1> QED
  BY <1>2 DEF Queued

\* The handler, its client and the thread lists keep in step.
LEMMA ThreadStep ==
  ASSUME NEW p \in Programs, AloneAt(p), Readied(p), Queued(p), Waiting(p),
         Goes(p)
  PROVE  process'[p] # "destroyed" /\ Threaded(p)' /\ Current(p)' /\ Runs(p)'
<1>0. /\ DataOK /\ pc \in [Programs -> Labels] /\ in \in [Programs -> Locals]
      /\ LocalsFor(pc[p], in[p]) /\ process[p] # "destroyed"
      /\ Threaded(p) /\ Current(p) /\ Runs(p) /\ ~CloseOthers /\ MAX_MULTIPROG > 0
      /\ MAX_MULTIPROG \in Nat
  BY SuseAssumption DEF AloneAt, Alone, TypeInv, ControlOK, LocalsSet
<1>a. /\ \A h \in Threads : procesoId(h) = p
      /\ \A t \in Tids : <<p, t>> \in Threads /\ tid(<<p, t>>) = t
      /\ <<p, 0>> \in Threads /\ NULL \notin Threads /\ 0 \in Tids
      /\ \A h \in Threads : tid(h) = 0 => h = <<p, 0>>
  BY OnlyOne, SuseAssumption DEF AloneAt, tid
<1>b. /\ \A s \in Semaphores : BLOCKED_LIST[s] # <<>> =>
           /\ Head(BLOCKED_LIST[s]) \in Threads
           /\ estado[Head(BLOCKED_LIST[s])] = "blocked"
      /\ Unjoin(p) => joiner(p) \in Threads /\ estado[joiner(p)] = "blocked"
  BY FoundBlocked
<1>c. new_queue # <<>> => Head(new_queue) \in Threads /\ estado[Head(new_queue)] = "new"
  BY HeadIsNew
<1>d. pc[p] = "pick" => \A h \in Threads : READY_LIST[h] > 0 => estado[h] = "ready"
  BY DEF Readied, InFlightAt
<1> DEFINE Goal == process'[p] # "destroyed" /\ Threaded(p)' /\ Current(p)' /\ Runs(p)'
<1> USE <1>0, <1>a, <1>b, <1>c, <1>d
<1> USE DEF Threaded, Current, Runs, MainWaits, Live, InFlightAt, WakesAt,
   BlocksAt, ClosesAt, Unreached, hilo, cola, At, Labels, LocalsFor, UltLabels,
   HiloLabels, SemLabels, JoinLabels, Transitions, Estados, DataOK, ULTorNull,
   Locals, threads, queues, joins, sems
<1>2. ASSUME CreateMain(p)
      PROVE  Goal
  BY <1>2 DEF CreateMain, ULT_create, GoTo
<1>3. ASSUME NEW t \in Tids, CreateUlt(p, t)
      PROVE  Goal
  <2>1. /\ estado' = [estado EXCEPT ![<<p, t>>] = "new"] /\ estado[<<p, t>>] = "none"
        /\ ULTS' = ULTS \cup {<<p, t>>} /\ running[p] # NULL
        /\ UNCHANGED <<process, EXEC_THREAD, running>> /\ process[p] = "alive"
    BY <1>3 DEF CreateUlt, ULT_create
  <2>2. pc[p] = "idle" /\ pc'[p] = "create" /\ in'[p].ult = <<p, t>>
    BY <1>3 DEF CreateUlt, ULT_create, GoTo
  <2>3. t # 0 /\ EXEC_THREAD[p] # <<p, t>>
    BY <2>1
  <2>4. Threaded(p)'
    BY <2>1, <2>3
  <2>5. Current(p)'
    BY <2>1, <2>2, <2>3
  <2>6. Runs(p)'
    BY <2>1, <2>2, <2>3
  <2> QED
    BY <2>1, <2>4, <2>5, <2>6
<1>4. ASSUME ScheduleNext(p)
      PROVE  Goal
  <2>1. /\ pc[p] = "idle" /\ pc'[p] = "sem_wait" /\ running'[p] = NULL /\ process[p] = "alive"
        /\ UNCHANGED <<process, ULTS>>
    BY <1>4 DEF ScheduleNext, GoTo
  <2>2. /\ EXEC_THREAD'[p] = NULL
        /\ \/ EXEC_THREAD[p] = NULL /\ estado' = estado
           \/ EXEC_THREAD[p] \in Threads /\ estado' = [estado EXCEPT ![EXEC_THREAD[p]] = "ready"]
    <3>1. EXEC_THREAD[p] # NULL => EXEC_THREAD[p] \in Threads
      OBVIOUS
    <3> QED
      BY <1>4, <3>1 DEF ScheduleNext
  <2>3. \A h \in Threads : estado'[h] = IF estado[h] = "execute" THEN "ready" ELSE estado[h]
    BY <2>2
  <2>4. Threaded(p)'
    BY <2>1, <2>2, <2>3
  <2>5. Current(p)' /\ Runs(p)'
    BY <2>1, <2>2
  <2> QED
    BY <2>1, <2>4, <2>5
<1>5. ASSUME Disconnect(p)
      PROVE  Goal
  BY <1>5 DEF Disconnect, GoTo
<1>6. ASSUME NEW t \in Tids, Join(p, t)
      PROVE  Goal
  BY <1>6 DEF Join, GoTo
<1>7. ASSUME NEW t \in Tids, JoinReturns(p, t)
      PROVE  Goal
  BY <1>7 DEF JoinReturns
<1>8. ASSUME NEW t \in Tids, ReceiveClose(p, t)
      PROVE  Goal
  BY <1>8 DEF ReceiveClose, Closable, GoTo
<1>9. ASSUME NEW t \in Tids, CloseUnknown(p, t)
      PROVE  Goal
  BY <1>9 DEF CloseUnknown, Closable
<1>10. ASSUME NEW s \in Semaphores, ReceiveWait(p, s)
      PROVE  Goal
  BY <1>10 DEF ReceiveWait, GoTo
<1>11. ASSUME NEW s \in Semaphores, ReceiveSignal(p, s)
      PROVE  Goal
  BY <1>11 DEF ReceiveSignal, GoTo
<1>12. ASSUME NotAdmitted(p)
      PROVE  Goal
  <2>1. ~MainWaits(p)
    BY <1>12 DEF NotAdmitted, validar_grado_multiprogramacion
  <2> QED
    BY <1>12, <2>1 DEF NotAdmitted, Reply, GoTo
<1>13. ASSUME AdmitUlt(p)
      PROVE  Goal
  BY <1>13 DEF AdmitUlt, Lock, nuevo_a_listo_add, MoveNext, GoTo
<1>14. ASSUME AdmitMain(p)
      PROVE  Goal
  BY <1>14 DEF AdmitMain, Lock, MoveNext, GoTo
<1>15. ASSUME NuevoAListoCreate(p)
      PROVE  Goal
  BY <1>15 DEF NuevoAListoCreate, nuevo_a_listo, eliminar_ULT_cola_actual,
     SinListo, SinExec, UnlockAll, Reply, GoTo
<1>16. ASSUME nuevo_a_ejecucion(p)
      PROVE  Goal
  <2>1. /\ pc[p] = "nuevo_a_ejecucion" /\ pc'[p] = "idle"
        /\ EXEC_THREAD' = [EXEC_THREAD EXCEPT ![p] = hilo(p)]
        /\ estado' = [estado EXCEPT ![hilo(p)] = "execute"]
        /\ UNCHANGED <<process, ULTS, running>>
    BY <1>16 DEF nuevo_a_ejecucion, Reply, GoTo
  <2>2. /\ hilo(p) = <<p, 0>> /\ estado[<<p, 0>>] = "new" /\ running[p] = <<p, 0>>
        /\ EXEC_THREAD[p] = NULL
    BY <2>1
  <2>3. /\ \A h \in Threads : estado[h] # "execute"
        /\ \A h \in Threads : estado'[h] = IF h = <<p, 0>> THEN "execute" ELSE estado[h]
        /\ EXEC_THREAD'[p] = <<p, 0>> /\ process'[p] # "none"
    BY <2>1, <2>2
  <2>4. Threaded(p)'
    <3>1. \A h \in Threads : h \in ULTS' <=> estado'[h] \in Live
      BY <2>1, <2>2, <2>3
    <3>2. \A h \in Threads : EXEC_THREAD'[p] = h <=> estado'[h] = "execute"
      BY <2>3
    <3>3. estado'[<<p, 0>>] # "none"
      BY <2>3
    <3> QED
      BY <2>3, <3>1, <3>2, <3>3
  <2>5. Current(p)' /\ Runs(p)'
    BY <2>1, <2>2
  <2> QED
    BY <2>1, <2>4, <2>5
<1>17. ASSUME ejecucion_a_bloqueado(p)
      PROVE  Goal
  BY <1>17 DEF ejecucion_a_bloqueado, Reply, GoTo
<1>18. ASSUME decrementar_semaforo(p)
      PROVE  Goal
  BY <1>18 DEF decrementar_semaforo, Reply, GoTo
<1>19. ASSUME BlockOnSemaphore(p)
      PROVE  Goal
  <2>1. /\ pc[p] = "decrementar_semaforo" /\ pc'[p] = "ejecucion_a_bloqueado_por_semaforo"
        /\ EXEC_THREAD' = [EXEC_THREAD EXCEPT ![p] = NULL]
        /\ estado' = [estado EXCEPT ![in[p].ult] = "blocked"]
        /\ UNCHANGED <<process, ULTS, in, running>>
    BY <1>19 DEF BlockOnSemaphore, GoTo
  <2>2. in[p].ult \in Threads /\ estado[in[p].ult] = "execute" /\ running[p] = NULL
    BY <2>1
  <2>3. Threaded(p)'
    BY <2>1, <2>2
  <2>4. Current(p)' /\ Runs(p)'
    BY <2>1, <2>2
  <2> QED
    BY <2>1, <2>3, <2>4
<1>20. ASSUME ejecucion_a_bloqueado_por_semaforo(p)
      PROVE  Goal
  BY <1>20 DEF ejecucion_a_bloqueado_por_semaforo, UnlockAll, Reply, GoTo
<1>21. ASSUME SignalAtMax(p)
      PROVE  Goal
  BY <1>21 DEF SignalAtMax, Reply, GoTo
<1>22. ASSUME SignalNoWaiter(p)
      PROVE  Goal
  BY <1>22 DEF SignalNoWaiter, Reply, GoTo
<1>23. ASSUME desbloquear_hilos_semaforo(p)
      PROVE  Goal
  BY <1>23 DEF desbloquear_hilos_semaforo, Lock, MoveNext, GoTo
<1>24. ASSUME BloqueadoAListoSignal(p)
      PROVE  Goal
  BY <1>24 DEF BloqueadoAListoSignal, bloqueado_a_listo, eliminar_ULT_cola_actual,
     SinListo, SinExec, UnlockAll, Reply, GoTo
<1>25. ASSUME JoinerStillWaits(p)
      PROVE  Goal
  BY <1>25 DEF JoinerStillWaits, Unjoin
<1>26. ASSUME JoinerReady(p)
      PROVE  Goal
  BY <1>26 DEF JoinerReady, Unjoin, Lock, MoveNext, GoTo
<1>27. ASSUME JoinerNew(p)
      PROVE  Goal
  BY <1>27 DEF JoinerNew, Unjoin, Lock, GoTo
<1>28. ASSUME BloqueadoAListoJoin(p)
      PROVE  Goal
  BY <1>28 DEF BloqueadoAListoJoin, bloqueado_a_listo, eliminar_ULT_cola_actual,
     SinListo, SinExec, UnlockAll, NextJoiner, GoTo
<1>29. ASSUME joiner_a_nuevo(p)
      PROVE  Goal
  BY <1>29 DEF joiner_a_nuevo, UnlockAll, NextJoiner, GoTo
<1>30. ASSUME AllUnjoined(p)
      PROVE  Goal
  BY <1>30 DEF AllUnjoined, GoTo
<1>31. ASSUME close_switch(p)
      PROVE  Goal
  BY <1>31 DEF close_switch, GoTo
<1>32. ASSUME CloseNew(p)
      PROVE  Goal
  BY <1>32 DEF CloseNew, Lock, MoveNext, GoTo
<1>33. ASSUME nuevo_a_exit(p)
      PROVE  Goal
  BY <1>33 DEF nuevo_a_exit, a_exit, eliminar_ULT_cola_actual, SinListo, SinExec,
     UnlockAll, GoTo
<1>34. ASSUME CloseBlocked(p)
      PROVE  Goal
  BY <1>34 DEF CloseBlocked, Lock, GoTo
<1>35. ASSUME CloseBlockedMultiprog(p)
      PROVE  Goal
  BY <1>35 DEF CloseBlockedMultiprog, LeaveMultiprog, Lock, MoveNext, GoTo
<1>36. ASSUME bloqueado_a_exit(p)
      PROVE  Goal
  BY <1>36 DEF bloqueado_a_exit, a_exit, eliminar_ULT_cola_actual, SinListo,
     SinExec, GoTo
<1>37. ASSUME CloseReady(p)
      PROVE  Goal
  BY <1>37 DEF CloseReady, LeaveMultiprog, Lock, MoveNext, GoTo
<1>38. ASSUME listo_a_exit(p)
      PROVE  Goal
  BY <1>38 DEF listo_a_exit, a_exit, eliminar_ULT_cola_actual, SinListo, SinExec,
     GoTo
<1>39. ASSUME ListoAExitWait(p)
      PROVE  Goal
  BY <1>39 DEF ListoAExitWait, GoTo
<1>40. ASSUME CloseExecute(p)
      PROVE  Goal
  <2>1. /\ pc[p] = "close_execute" /\ pc'[p] = "obtener_ULT_ready_FIFO"
        /\ EXEC_THREAD' = [EXEC_THREAD EXCEPT ![p] = NULL]
        /\ estado' = [estado EXCEPT ![in[p].ult] = "exit"] /\ ULTS' = ULTS \ {in[p].ult}
        /\ UNCHANGED <<process, in, running>>
    BY <1>40 DEF CloseExecute, GoTo
  <2>2. in[p].ult \in Threads /\ estado[in[p].ult] = "execute" /\ running[p] = NULL
    BY <2>1
  <2>3. Threaded(p)'
    BY <2>1, <2>2
  <2>4. Current(p)' /\ Runs(p)'
    BY <2>1, <2>2
  <2> QED
    BY <2>1, <2>3, <2>4
<1>41. ASSUME obtener_ULT_ready_FIFO(p)
      PROVE  Goal
  BY <1>41 DEF obtener_ULT_ready_FIFO, nuevo_a_listo_add, MoveNext, GoTo
<1>42. ASSUME NobodyToAdmit(p)
      PROVE  Goal
  BY <1>42 DEF NobodyToAdmit, UnlockAll, GoTo
<1>43. ASSUME NuevoAListoFIFO(p)
      PROVE  Goal
  BY <1>43 DEF NuevoAListoFIFO, nuevo_a_listo, eliminar_ULT_cola_actual, SinListo,
     SinExec, UnlockAll, GoTo
<1>44. ASSUME MetricasSemaforos(p)
      PROVE  Goal
  BY <1>44 DEF MetricasSemaforos, GoTo
<1>45. ASSUME MetricasMultiprog(p)
      PROVE  Goal
  BY <1>45 DEF MetricasMultiprog, Reply, GoTo
<1>46. ASSUME SemWait(p)
      PROVE  Goal
  BY <1>46 DEF SemWait, GoTo
<1>47. ASSUME PickReady(p)
      PROVE  Goal
  BY <1>47 DEF PickReady, MoveNext, GoTo
<1>48. ASSUME PickNone(p)
      PROVE  Goal
  BY <1>48 DEF PickNone, Reply, GoTo
<1>49. ASSUME listo_a_ejecucion(p)
      PROVE  Goal
  BY <1>49 DEF listo_a_ejecucion, eliminar_ULT_cola_actual, SinListo, Reply, GoTo
<1>50. ASSUME Crash(p)
      PROVE  Goal
  BY <1>50 DEF Crash
<1> HIDE DEF Threaded, Current, Runs, DataOK
<1> QED
  BY <1>2, <1>3, <1>4, <1>5, <1>6, <1>7, <1>8, <1>9, <1>10, <1>11, <1>12, <1>13,
     <1>14, <1>15, <1>16, <1>17, <1>18, <1>19, <1>20, <1>21, <1>22, <1>23, <1>24,
     <1>25, <1>26, <1>27, <1>28, <1>29, <1>30, <1>31, <1>32, <1>33, <1>34, <1>35,
     <1>36, <1>37, <1>38, <1>39, <1>40, <1>41, <1>42, <1>43, <1>44, <1>45, <1>46,
     <1>47, <1>48, <1>49, <1>50 DEF Goes, Request, Handle

(***************************************************************************)
(* Lists that have no thread twice.                                        *)
(***************************************************************************)
\* An element that is not in the list is added.
LEMMA AppendNew ==
  ASSUME NEW T, NEW s \in Seq(T), NEW e \in T, IsInjective(s), e \notin Range(s)
  PROVE  /\ IsInjective(Append(s, e))
         /\ Range(Append(s, e)) = Range(s) \cup {e}
<1> DEFINE l == Append(s, e)
           n == Len(s)
<1>1. /\ n \in Nat /\ l \in Seq(T) /\ Len(l) = n + 1 /\ l[n + 1] = e
      /\ \A i \in 1..n : l[i] = s[i]
  OBVIOUS
<1>2. DOMAIN s = 1..n
  OBVIOUS
<1> HIDE DEF l, n
<1>3. DOMAIN l = 1..(n + 1)
  BY <1>1
<1>4. \A i \in 1..(n + 1) : i = n + 1 \/ i \in 1..n
  BY <1>1
<1>5. n + 1 \in 1..(n + 1) /\ 1..n \subseteq 1..(n + 1)
  BY <1>1
<1>6. IsInjective(l)
  BY <1>1, <1>2, <1>3, <1>4 DEF IsInjective, Range
<1>7. Range(l) = Range(s) \cup {e}
  BY <1>1, <1>2, <1>3, <1>4, <1>5 DEF Range
<1> QED
  BY <1>6, <1>7 DEF l

\* The only occurrence of an element is removed.
LEMMA RemoveFirstInjective ==
  ASSUME NEW T, NEW s \in Seq(T), NEW e, IsInjective(s)
  PROVE  IsInjective(RemoveFirst(s, e)) /\ Range(RemoveFirst(s, e)) = Range(s) \ {e}
<1> DEFINE n == Len(s)
           r == RemoveFirst(s, e)
<1>0. n \in Nat /\ DOMAIN s = 1..n
  OBVIOUS
<1>1. CASE \E i \in 1..Len(s) : s[i] = e
  <2> DEFINE I == {i \in 1..Len(s) : s[i] = e}
             k == Min(I)
  <2>1. I \in SUBSET Nat /\ I # {}
    BY <1>1
  <2>2. k \in 1..n /\ s[k] = e
    <3>1. k \in I
      BY <2>1, MinExists
    <3> QED
      BY <3>1
  <2>3. r = SubSeq(s, 1, k - 1) \o SubSeq(s, k + 1, n)
    BY <1>1, <2>1 DEF RemoveFirst, SelectInSeq, RemoveAt
  <2> HIDE DEF k, r, I, n
  <2>4. /\ k \in Nat /\ k > 0 /\ k <= n
        /\ s \in Seq(T) /\ n = Len(s)
    BY <1>0, <2>2 DEF n
  <2>5. /\ SubSeq(s, 1, k - 1) \in Seq(T) /\ Len(SubSeq(s, 1, k - 1)) = k - 1
        /\ \A i \in 1..(k - 1) : SubSeq(s, 1, k - 1)[i] = s[i]
    BY <2>4
  <2>6. /\ SubSeq(s, k + 1, n) \in Seq(T) /\ Len(SubSeq(s, k + 1, n)) = n - k
        /\ \A i \in 1..(n - k) : SubSeq(s, k + 1, n)[i] = s[k + i]
    BY <2>4
  <2>7. /\ r \in Seq(T) /\ Len(r) = n - 1
        /\ \A i \in 1..(n - 1) : r[i] = IF i < k THEN s[i] ELSE s[i + 1]
    <3> DEFINE f == SubSeq(s, 1, k - 1)
               g == SubSeq(s, k + 1, n)
    <3> HIDE DEF f, g
    <3>1. f \in Seq(T) /\ g \in Seq(T) /\ Len(f) = k - 1 /\ Len(g) = n - k /\ r = f \o g
      BY <2>3, <2>5, <2>6 DEF f, g
    <3>2. /\ r \in Seq(T) /\ Len(r) = n - 1
          /\ \A i \in 1..(n - 1) : r[i] = IF i < k THEN f[i] ELSE g[i - (k - 1)]
      BY <2>4, <3>1
    <3>3. ASSUME NEW i \in 1..(n - 1)
          PROVE  r[i] = IF i < k THEN s[i] ELSE s[i + 1]
      <4>1. CASE i < k
        BY <2>4, <2>5, <3>2, <4>1 DEF f
      <4>2. CASE ~(i < k)
        <5>1. i - (k - 1) \in 1..(n - k) /\ k + (i - (k - 1)) = i + 1
          BY <2>4, <4>2
        <5> QED
          BY <2>6, <3>2, <4>2, <5>1 DEF g
      <4> QED
        BY <4>1, <4>2
    <3> QED
      BY <3>2, <3>3
  <2>8. IsInjective(r)
    <3> SUFFICES ASSUME NEW i \in 1..(n - 1), NEW j \in 1..(n - 1), r[i] = r[j]
                 PROVE  i = j
      BY <2>7 DEF IsInjective
    <3>1. \A a, b \in 1..n : s[a] = s[b] => a = b
      BY <1>0 DEF IsInjective
    <3>2. i \in 1..n /\ j \in 1..n /\ i + 1 \in 1..n /\ j + 1 \in 1..n
      BY <2>4
    <3> QED
      BY <2>4, <2>7, <3>1, <3>2
  <2>9. Range(r) = Range(s) \ {e}
    <3>1. ASSUME NEW i \in 1..(n - 1)
          PROVE  r[i] \in Range(s) \ {e}
      <4>1. PICK j \in 1..n : r[i] = s[j] /\ j # k
        BY <2>4, <2>7
      <4> QED
        BY <1>0, <2>2, <4>1 DEF Range, IsInjective
    <3>2. ASSUME NEW j \in 1..n, s[j] # e
          PROVE  \E i \in 1..(n - 1) : r[i] = s[j]
      <4>1. CASE j < k
        BY <2>4, <2>7, <4>1
      <4>2. CASE j > k
        <5>1. j - 1 \in 1..(n - 1) /\ ~(j - 1 < k) /\ (j - 1) + 1 = j
          BY <2>4, <4>2
        <5> QED
          BY <2>7, <5>1
      <4>3. j # k
        BY <2>2, <3>2
      <4> QED
        BY <2>4, <4>1, <4>2, <4>3
    <3>3. DOMAIN r = 1..(n - 1)
      BY <2>7
    <3> QED
      BY <1>0, <3>1, <3>2, <3>3 DEF Range
  <2> QED
    BY <2>8, <2>9 DEF r
<1>2. CASE ~ \E i \in 1..Len(s) : s[i] = e
  BY <1>0, <1>2 DEF RemoveFirst, Range
<1> QED
  BY <1>1, <1>2


(***************************************************************************)
(* The queues.                                                             *)
(***************************************************************************)
\* READY_LIST stays in step with estado.
LEMMA ReadiedStep ==
  ASSUME NEW p \in Programs, AloneAt(p), Readied(p), Queued(p), Waiting(p), Goes(p)
  PROVE  Readied(p)'
<1>0. /\ DataOK /\ pc \in [Programs -> Labels] /\ in \in [Programs -> Locals]
      /\ LocalsFor(pc[p], in[p])
      /\ Threaded(p) /\ Current(p) /\ Runs(p) /\ Readied(p) /\ ~CloseOthers
  BY DEF AloneAt, Alone, TypeInv, ControlOK, LocalsSet
<1>a. \A h \in Threads : procesoId(h) = p
  BY OnlyOne DEF AloneAt
<1>b. NULL \notin Threads
  BY OnlyOne DEF AloneAt
<1>c. /\ \A s \in Semaphores : BLOCKED_LIST[s] # <<>> =>
           /\ Head(BLOCKED_LIST[s]) \in Threads
           /\ estado[Head(BLOCKED_LIST[s])] = "blocked"
      /\ Unjoin(p) => joiner(p) \in Threads /\ estado[joiner(p)] = "blocked"
  BY FoundBlocked
<1>d. new_queue # <<>> => Head(new_queue) \in Threads /\ estado[Head(new_queue)] = "new"
  BY HeadIsNew
<1> USE <1>0, <1>a, <1>b, <1>c, <1>d
<1> USE DEF Readied, Threaded, Current, Runs, MainWaits, Live, InFlightAt, WakesAt,
   BlocksAt, ClosesAt, Unreached, hilo, cola, At, Labels, LocalsFor, UltLabels,
   HiloLabels, SemLabels, JoinLabels, Transitions, Estados, DataOK, ULTorNull,
   Locals, threads, queues, joins, sems, Plus, Minus
<1>2. ASSUME CreateMain(p)
      PROVE  Readied(p)'
  BY <1>2 DEF CreateMain, ULT_create, GoTo
<1>3. ASSUME NEW t \in Tids, CreateUlt(p, t)
      PROVE  Readied(p)'
  BY <1>3 DEF CreateUlt, ULT_create, GoTo
<1>4. ASSUME ScheduleNext(p)
      PROVE  Readied(p)'
  BY <1>4 DEF ScheduleNext, GoTo
<1>5. ASSUME Disconnect(p)
      PROVE  Readied(p)'
  BY <1>5 DEF Disconnect, GoTo
<1>6. ASSUME NEW t \in Tids, Join(p, t)
      PROVE  Readied(p)'
  BY <1>6 DEF Join, GoTo
<1>7. ASSUME NEW t \in Tids, JoinReturns(p, t)
      PROVE  Readied(p)'
  BY <1>7 DEF JoinReturns
<1>8. ASSUME NEW t \in Tids, ReceiveClose(p, t)
      PROVE  Readied(p)'
  BY <1>8 DEF ReceiveClose, Closable, GoTo
<1>9. ASSUME NEW t \in Tids, CloseUnknown(p, t)
      PROVE  Readied(p)'
  BY <1>9 DEF CloseUnknown, Closable
<1>10. ASSUME NEW s \in Semaphores, ReceiveWait(p, s)
      PROVE  Readied(p)'
  BY <1>10 DEF ReceiveWait, GoTo
<1>11. ASSUME NEW s \in Semaphores, ReceiveSignal(p, s)
      PROVE  Readied(p)'
  BY <1>11 DEF ReceiveSignal, GoTo
<1>12. ASSUME NotAdmitted(p)
      PROVE  Readied(p)'
  BY <1>12 DEF NotAdmitted, Reply, GoTo
<1>13. ASSUME AdmitUlt(p)
      PROVE  Readied(p)'
  BY <1>13 DEF AdmitUlt, Lock, nuevo_a_listo_add, MoveNext, GoTo
<1>14. ASSUME AdmitMain(p)
      PROVE  Readied(p)'
  BY <1>14 DEF AdmitMain, Lock, MoveNext, GoTo
<1>15. ASSUME NuevoAListoCreate(p)
      PROVE  Readied(p)'
  BY <1>15 DEF NuevoAListoCreate, nuevo_a_listo, eliminar_ULT_cola_actual,
     SinListo, SinExec, UnlockAll, Reply, GoTo
<1>16. ASSUME nuevo_a_ejecucion(p)
      PROVE  Readied(p)'
  BY <1>16 DEF nuevo_a_ejecucion, eliminar_ULT_cola_actual, SinListo, UnlockAll,
     Reply, GoTo
<1>17. ASSUME ejecucion_a_bloqueado(p)
      PROVE  Readied(p)'
  BY <1>17 DEF ejecucion_a_bloqueado, Reply, GoTo
<1>18. ASSUME decrementar_semaforo(p)
      PROVE  Readied(p)'
  BY <1>18 DEF decrementar_semaforo, Reply, GoTo
<1>19. ASSUME BlockOnSemaphore(p)
      PROVE  Readied(p)'
  BY <1>19 DEF BlockOnSemaphore, Lock, GoTo
<1>20. ASSUME ejecucion_a_bloqueado_por_semaforo(p)
      PROVE  Readied(p)'
  BY <1>20 DEF ejecucion_a_bloqueado_por_semaforo, UnlockAll, Reply, GoTo
<1>21. ASSUME SignalAtMax(p)
      PROVE  Readied(p)'
  BY <1>21 DEF SignalAtMax, Reply, GoTo
<1>22. ASSUME SignalNoWaiter(p)
      PROVE  Readied(p)'
  BY <1>22 DEF SignalNoWaiter, Reply, GoTo
<1>23. ASSUME desbloquear_hilos_semaforo(p)
      PROVE  Readied(p)'
  BY <1>23 DEF desbloquear_hilos_semaforo, Lock, MoveNext, GoTo
<1>24. ASSUME BloqueadoAListoSignal(p)
      PROVE  Readied(p)'
  BY <1>24 DEF BloqueadoAListoSignal, bloqueado_a_listo, eliminar_ULT_cola_actual,
     SinListo, SinExec, UnlockAll, Reply, GoTo
<1>25. ASSUME JoinerStillWaits(p)
      PROVE  Readied(p)'
  BY <1>25 DEF JoinerStillWaits, Unjoin
<1>26. ASSUME JoinerReady(p)
      PROVE  Readied(p)'
  BY <1>26 DEF JoinerReady, Unjoin, Lock, MoveNext, GoTo
<1>27. ASSUME JoinerNew(p)
      PROVE  Readied(p)'
  BY <1>27 DEF JoinerNew, Unjoin, Lock, GoTo
<1>28. ASSUME BloqueadoAListoJoin(p)
      PROVE  Readied(p)'
  BY <1>28 DEF BloqueadoAListoJoin, bloqueado_a_listo, eliminar_ULT_cola_actual,
     SinListo, SinExec, UnlockAll, NextJoiner, GoTo
<1>29. ASSUME joiner_a_nuevo(p)
      PROVE  Readied(p)'
  BY <1>29 DEF joiner_a_nuevo, UnlockAll, NextJoiner, GoTo
<1>30. ASSUME AllUnjoined(p)
      PROVE  Readied(p)'
  BY <1>30 DEF AllUnjoined, GoTo
<1>31. ASSUME close_switch(p)
      PROVE  Readied(p)'
  BY <1>31 DEF close_switch, GoTo
<1>32. ASSUME CloseNew(p)
      PROVE  Readied(p)'
  BY <1>32 DEF CloseNew, Lock, MoveNext, GoTo
<1>33. ASSUME nuevo_a_exit(p)
      PROVE  Readied(p)'
  BY <1>33 DEF nuevo_a_exit, a_exit, eliminar_ULT_cola_actual, SinListo, SinExec,
     UnlockAll, GoTo
<1>34. ASSUME CloseBlocked(p)
      PROVE  Readied(p)'
  BY <1>34 DEF CloseBlocked, Lock, GoTo
<1>35. ASSUME CloseBlockedMultiprog(p)
      PROVE  Readied(p)'
  BY <1>35 DEF CloseBlockedMultiprog, LeaveMultiprog, Lock, MoveNext, GoTo
<1>36. ASSUME bloqueado_a_exit(p)
      PROVE  Readied(p)'
  BY <1>36 DEF bloqueado_a_exit, a_exit, eliminar_ULT_cola_actual, SinListo,
     SinExec, GoTo
<1>37. ASSUME CloseReady(p)
      PROVE  Readied(p)'
  BY <1>37 DEF CloseReady, LeaveMultiprog, Lock, MoveNext, GoTo
<1>38. ASSUME listo_a_exit(p)
      PROVE  Readied(p)'
  BY <1>38 DEF listo_a_exit, a_exit, eliminar_ULT_cola_actual, SinListo, SinExec,
     GoTo
<1>39. ASSUME ListoAExitWait(p)
      PROVE  Readied(p)'
  BY <1>39 DEF ListoAExitWait, GoTo
<1>40. ASSUME CloseExecute(p)
      PROVE  Readied(p)'
  BY <1>40 DEF CloseExecute, Lock, GoTo
<1>41. ASSUME obtener_ULT_ready_FIFO(p)
      PROVE  Readied(p)'
  BY <1>41 DEF obtener_ULT_ready_FIFO, nuevo_a_listo_add, MoveNext, GoTo
<1>42. ASSUME NobodyToAdmit(p)
      PROVE  Readied(p)'
  BY <1>42 DEF NobodyToAdmit, UnlockAll, GoTo
<1>43. ASSUME NuevoAListoFIFO(p)
      PROVE  Readied(p)'
  BY <1>43 DEF NuevoAListoFIFO, nuevo_a_listo, eliminar_ULT_cola_actual, SinListo,
     SinExec, UnlockAll, GoTo
<1>44. ASSUME MetricasSemaforos(p)
      PROVE  Readied(p)'
  BY <1>44 DEF MetricasSemaforos, GoTo
<1>45. ASSUME MetricasMultiprog(p)
      PROVE  Readied(p)'
  BY <1>45 DEF MetricasMultiprog, Reply, GoTo
<1>46. ASSUME SemWait(p)
      PROVE  Readied(p)'
  BY <1>46 DEF SemWait, GoTo
<1>47. ASSUME PickReady(p)
      PROVE  Readied(p)'
  BY <1>47 DEF PickReady, MoveNext, GoTo
<1>48. ASSUME PickNone(p)
      PROVE  Readied(p)'
  BY <1>48 DEF PickNone, Reply, GoTo
<1>49. ASSUME listo_a_ejecucion(p)
      PROVE  Readied(p)'
  BY <1>49 DEF listo_a_ejecucion, eliminar_ULT_cola_actual, SinListo, Reply, GoTo
<1>50. ASSUME Crash(p)
      PROVE  Readied(p)'
  BY <1>50 DEF Crash
<1> HIDE DEF Readied, Threaded, Current, Runs, DataOK
<1> QED
  BY <1>2, <1>3, <1>4, <1>5, <1>6, <1>7, <1>8, <1>9, <1>10, <1>11, <1>12, <1>13,
     <1>14, <1>15, <1>16, <1>17, <1>18, <1>19, <1>20, <1>21, <1>22, <1>23, <1>24,
     <1>25, <1>26, <1>27, <1>28, <1>29, <1>30, <1>31, <1>32, <1>33, <1>34, <1>35,
     <1>36, <1>37, <1>38, <1>39, <1>40, <1>41, <1>42, <1>43, <1>44, <1>45, <1>46,
     <1>47, <1>48, <1>49, <1>50 DEF Goes, Request, Handle

\* new_queue has a thread more, the one that becomes new.
LEMMA NewComes ==
  ASSUME NEW h \in Threads, new_queue \in Seq(Threads), IsInjective(new_queue),
         h \notin Range(new_queue), new_queue' = Append(new_queue, h)
  PROVE  /\ IsInjective(new_queue')
         /\ \A k \in Threads : k \in Range(new_queue') <=> k \in Range(new_queue) \/ k = h
<1>1. /\ IsInjective(Append(new_queue, h))
      /\ Range(Append(new_queue, h)) = Range(new_queue) \cup {h}
  BY AppendNew
<1> QED
  BY <1>1

\* new_queue has a thread less, the one that is let in.
LEMMA NewLeaves ==
  ASSUME NEW h, new_queue \in Seq(Threads), IsInjective(new_queue),
         new_queue' = RemoveFirst(new_queue, h)
  PROVE  /\ IsInjective(new_queue')
         /\ \A k \in Threads : k \in Range(new_queue') <=> k \in Range(new_queue) /\ k # h
<1>1. /\ IsInjective(RemoveFirst(new_queue, h))
      /\ Range(RemoveFirst(new_queue, h)) = Range(new_queue) \ {h}
  BY RemoveFirstInjective
<1> QED
  BY <1>1

\* new_queue stays in step with estado.
LEMMA QueuedStep ==
  ASSUME NEW p \in Programs, AloneAt(p), Queued(p), Waiting(p), Goes(p)
  PROVE  Queued(p)'
<1>0. /\ DataOK /\ pc \in [Programs -> Labels] /\ in \in [Programs -> Locals]
      /\ LocalsFor(pc[p], in[p])
      /\ Threaded(p) /\ Current(p) /\ Runs(p) /\ ~CloseOthers
      /\ new_queue \in Seq(Threads)
  BY DEF AloneAt, Alone, TypeInv, ControlOK, LocalsSet, DataOK, ThreadLists
<1>a. \A h \in Threads : procesoId(h) = p
  BY OnlyOne DEF AloneAt
<1>b. NULL \notin Threads
  BY OnlyOne DEF AloneAt
<1>c. /\ \A s \in Semaphores : BLOCKED_LIST[s] # <<>> =>
           /\ Head(BLOCKED_LIST[s]) \in Threads
           /\ estado[Head(BLOCKED_LIST[s])] = "blocked"
      /\ Unjoin(p) => joiner(p) \in Threads /\ estado[joiner(p)] = "blocked"
  BY FoundBlocked
<1>d. new_queue # <<>> => Head(new_queue) \in Threads /\ estado[Head(new_queue)] = "new"
  BY HeadIsNew
<1>e. DOMAIN new_queue = 1..Len(new_queue)
  BY <1>0
<1>i. <<p, 0>> \in Threads /\ \A t \in Tids : <<p, t>> \in Threads
  BY OnlyOne DEF AloneAt
<1>f. /\ IsInjective(new_queue)
      /\ \A h \in Threads :
           h \in Range(new_queue) <=> estado[h] = "new" /\ ~(pc[p] = "joiner_a_nuevo" /\ hilo(p) = h)
  BY DEF Queued
<1>g. /\ IsInjective(new_queue')
      /\ \A h \in Threads :
           h \in Range(new_queue') <=> estado'[h] = "new"
                                       /\ ~(pc'[p] = "joiner_a_nuevo" /\ hilo(p)' = h)
      => Queued(p)'
  BY DEF Queued
<1> DEFINE Stays == /\ new_queue' = new_queue
                    /\ \A h \in Threads :
                         estado'[h] = "new" /\ ~(pc'[p] = "joiner_a_nuevo" /\ in'[p].hilo = h)
                         <=> estado[h] = "new" /\ ~(pc[p] = "joiner_a_nuevo" /\ in[p].hilo = h)
<1>h. Stays => Queued(p)'
  BY <1>f, <1>g DEF hilo
<1> HIDE DEF Stays
<1> USE <1>0, <1>a, <1>b, <1>c, <1>d
<1> USE DEF Threaded, Current, Runs, MainWaits, Live, InFlightAt, WakesAt,
   BlocksAt, ClosesAt, Unreached, hilo, cola, At, Labels, LocalsFor, UltLabels,
   HiloLabels, SemLabels, JoinLabels, Transitions, Estados, DataOK, ULTorNull,
   Locals, threads, queues, joins, sems
<1>2. ASSUME CreateMain(p)
      PROVE  Queued(p)'
  <2>1. /\ <<p, 0>> \in Threads /\ new_queue' = Append(new_queue, <<p, 0>>)
        /\ <<p, 0>> \notin Range(new_queue)
    BY <1>2, <1>f, <1>i DEF CreateMain, ULT_create, GoTo
  <2>2. /\ IsInjective(new_queue')
        /\ \A k \in Threads : k \in Range(new_queue') <=> k \in Range(new_queue) \/ k = <<p, 0>>
    BY <1>f, <2>1, NewComes
  <2>3. \A k \in Threads : estado'[k] = "new" /\ ~(pc'[p] = "joiner_a_nuevo" /\ in'[p].hilo = k)
          <=> (estado[k] = "new" /\ ~(pc[p] = "joiner_a_nuevo" /\ in[p].hilo = k)) \/ k = <<p, 0>>
    BY <1>2 DEF CreateMain, ULT_create, GoTo
  <2> QED
    BY <1>f, <1>g, <2>2, <2>3
<1>3. ASSUME NEW t \in Tids, CreateUlt(p, t)
      PROVE  Queued(p)'
  <2>1. /\ <<p, t>> \in Threads /\ new_queue' = Append(new_queue, <<p, t>>)
        /\ <<p, t>> \notin Range(new_queue)
    BY <1>3, <1>f, <1>i DEF CreateUlt, ULT_create, GoTo
  <2>2. /\ IsInjective(new_queue')
        /\ \A k \in Threads : k \in Range(new_queue') <=> k \in Range(new_queue) \/ k = <<p, t>>
    BY <1>f, <2>1, NewComes
  <2>3. \A k \in Threads : estado'[k] = "new" /\ ~(pc'[p] = "joiner_a_nuevo" /\ in'[p].hilo = k)
          <=> (estado[k] = "new" /\ ~(pc[p] = "joiner_a_nuevo" /\ in[p].hilo = k)) \/ k = <<p, t>>
    BY <1>3 DEF CreateUlt, ULT_create, GoTo
  <2> QED
    BY <1>f, <1>g, <2>2, <2>3
<1>4. ASSUME ScheduleNext(p)
      PROVE  Queued(p)'
  <2>1. Stays
    BY <1>4 DEF ScheduleNext, GoTo, Stays
  <2> QED
    BY <1>h, <2>1
<1>5. ASSUME Disconnect(p)
      PROVE  Queued(p)'
  <2>1. Stays
    BY <1>5 DEF Disconnect, GoTo, Stays
  <2> QED
    BY <1>h, <2>1
<1>6. ASSUME NEW t \in Tids, Join(p, t)
      PROVE  Queued(p)'
  <2>1. Stays
    BY <1>6 DEF Join, GoTo, Stays
  <2> QED
    BY <1>h, <2>1
<1>7. ASSUME NEW t \in Tids, JoinReturns(p, t)
      PROVE  Queued(p)'
  <2>1. Stays
    BY <1>7 DEF JoinReturns, Stays
  <2> QED
    BY <1>h, <2>1
<1>8. ASSUME NEW t \in Tids, ReceiveClose(p, t)
      PROVE  Queued(p)'
  <2>1. Stays
    BY <1>8 DEF ReceiveClose, Closable, GoTo, Stays
  <2> QED
    BY <1>h, <2>1
<1>9. ASSUME NEW t \in Tids, CloseUnknown(p, t)
      PROVE  Queued(p)'
  <2>1. Stays
    BY <1>9 DEF CloseUnknown, Closable, Stays
  <2> QED
    BY <1>h, <2>1
<1>10. ASSUME NEW s \in Semaphores, ReceiveWait(p, s)
      PROVE  Queued(p)'
  <2>1. Stays
    BY <1>10 DEF ReceiveWait, GoTo, Stays
  <2> QED
    BY <1>h, <2>1
<1>11. ASSUME NEW s \in Semaphores, ReceiveSignal(p, s)
      PROVE  Queued(p)'
  <2>1. Stays
    BY <1>11 DEF ReceiveSignal, GoTo, Stays
  <2> QED
    BY <1>h, <2>1
<1>12. ASSUME NotAdmitted(p)
      PROVE  Queued(p)'
  <2>1. Stays
    BY <1>12 DEF NotAdmitted, Reply, GoTo, Stays
  <2> QED
    BY <1>h, <2>1
<1>13. ASSUME AdmitUlt(p)
      PROVE  Queued(p)'
  <2>1. Stays
    BY <1>13 DEF AdmitUlt, Lock, nuevo_a_listo_add, MoveNext, GoTo, Stays
  <2> QED
    BY <1>h, <2>1
<1>14. ASSUME AdmitMain(p)
      PROVE  Queued(p)'
  <2>1. Stays
    BY <1>14 DEF AdmitMain, Lock, MoveNext, GoTo, Stays
  <2> QED
    BY <1>h, <2>1
<1>15. ASSUME NuevoAListoCreate(p)
      PROVE  Queued(p)'
  <2>1. /\ new_queue' = RemoveFirst(new_queue, hilo(p)) /\ hilo(p) \in Threads
    BY <1>15 DEF NuevoAListoCreate, nuevo_a_listo, Reply, GoTo, eliminar_ULT_cola_actual
  <2>2. /\ IsInjective(new_queue')
        /\ \A k \in Threads : k \in Range(new_queue') <=> k \in Range(new_queue) /\ k # hilo(p)
    BY <1>f, <2>1, NewLeaves
  <2>3. \A k \in Threads : estado'[k] = "new" /\ ~(pc'[p] = "joiner_a_nuevo" /\ in'[p].hilo = k)
          <=> (estado[k] = "new" /\ ~(pc[p] = "joiner_a_nuevo" /\ in[p].hilo = k)) /\ k # hilo(p)
    BY <1>15 DEF NuevoAListoCreate, nuevo_a_listo, Reply, GoTo, eliminar_ULT_cola_actual
  <2> QED
    BY <1>f, <1>g, <2>2, <2>3
<1>16. ASSUME nuevo_a_ejecucion(p)
      PROVE  Queued(p)'
  <2>1. /\ new_queue' = RemoveFirst(new_queue, hilo(p)) /\ hilo(p) \in Threads
    BY <1>16 DEF nuevo_a_ejecucion, Reply, GoTo, eliminar_ULT_cola_actual
  <2>2. /\ IsInjective(new_queue')
        /\ \A k \in Threads : k \in Range(new_queue') <=> k \in Range(new_queue) /\ k # hilo(p)
    BY <1>f, <2>1, NewLeaves
  <2>3. \A k \in Threads : estado'[k] = "new" /\ ~(pc'[p] = "joiner_a_nuevo" /\ in'[p].hilo = k)
          <=> (estado[k] = "new" /\ ~(pc[p] = "joiner_a_nuevo" /\ in[p].hilo = k)) /\ k # hilo(p)
    BY <1>16 DEF nuevo_a_ejecucion, Reply, GoTo, eliminar_ULT_cola_actual
  <2> QED
    BY <1>f, <1>g, <2>2, <2>3
<1>17. ASSUME ejecucion_a_bloqueado(p)
      PROVE  Queued(p)'
  <2>1. Stays
    BY <1>17 DEF ejecucion_a_bloqueado, Reply, GoTo, Stays
  <2> QED
    BY <1>h, <2>1
<1>18. ASSUME decrementar_semaforo(p)
      PROVE  Queued(p)'
  <2>1. Stays
    BY <1>18 DEF decrementar_semaforo, Reply, GoTo, Stays
  <2> QED
    BY <1>h, <2>1
<1>19. ASSUME BlockOnSemaphore(p)
      PROVE  Queued(p)'
  <2>1. Stays
    BY <1>19 DEF BlockOnSemaphore, Lock, GoTo, Stays
  <2> QED
    BY <1>h, <2>1
<1>20. ASSUME ejecucion_a_bloqueado_por_semaforo(p)
      PROVE  Queued(p)'
  <2>1. Stays
    BY <1>20 DEF ejecucion_a_bloqueado_por_semaforo, UnlockAll, Reply, GoTo, Stays
  <2> QED
    BY <1>h, <2>1
<1>21. ASSUME SignalAtMax(p)
      PROVE  Queued(p)'
  <2>1. Stays
    BY <1>21 DEF SignalAtMax, Reply, GoTo, Stays
  <2> QED
    BY <1>h, <2>1
<1>22. ASSUME SignalNoWaiter(p)
      PROVE  Queued(p)'
  <2>1. Stays
    BY <1>22 DEF SignalNoWaiter, Reply, GoTo, Stays
  <2> QED
    BY <1>h, <2>1
<1>23. ASSUME desbloquear_hilos_semaforo(p)
      PROVE  Queued(p)'
  <2>1. Stays
    BY <1>23 DEF desbloquear_hilos_semaforo, Lock, MoveNext, GoTo, Stays
  <2> QED
    BY <1>h, <2>1
<1>24. ASSUME BloqueadoAListoSignal(p)
      PROVE  Queued(p)'
  <2>1. Stays
    BY <1>24 DEF BloqueadoAListoSignal, bloqueado_a_listo, eliminar_ULT_cola_actual,
       SinListo, SinExec, UnlockAll, Reply, GoTo, Stays
  <2> QED
    BY <1>h, <2>1
<1>25. ASSUME JoinerStillWaits(p)
      PROVE  Queued(p)'
  <2>1. Stays
    BY <1>25 DEF JoinerStillWaits, Unjoin, Stays
  <2> QED
    BY <1>h, <2>1
<1>26. ASSUME JoinerReady(p)
      PROVE  Queued(p)'
  <2>1. Stays
    BY <1>26 DEF JoinerReady, Unjoin, Lock, MoveNext, GoTo, Stays
  <2> QED
    BY <1>h, <2>1
<1>27. ASSUME JoinerNew(p)
      PROVE  Queued(p)'
  <2>1. Stays
    BY <1>27 DEF JoinerNew, Unjoin, Lock, GoTo, Stays
  <2> QED
    BY <1>h, <2>1
<1>28. ASSUME BloqueadoAListoJoin(p)
      PROVE  Queued(p)'
  <2>1. Stays
    BY <1>28 DEF BloqueadoAListoJoin, bloqueado_a_listo, eliminar_ULT_cola_actual,
       SinListo, SinExec, UnlockAll, NextJoiner, GoTo, Stays
  <2> QED
    BY <1>h, <2>1
<1>29. ASSUME joiner_a_nuevo(p)
      PROVE  Queued(p)'
  <2>1. /\ hilo(p) \in Threads /\ new_queue' = Append(new_queue, hilo(p))
        /\ hilo(p) \notin Range(new_queue)
    BY <1>29, <1>f DEF joiner_a_nuevo, NextJoiner, GoTo
  <2>2. /\ IsInjective(new_queue')
        /\ \A k \in Threads : k \in Range(new_queue') <=> k \in Range(new_queue) \/ k = hilo(p)
    BY <1>f, <2>1, NewComes
  <2>3. \A k \in Threads : estado'[k] = "new" /\ ~(pc'[p] = "joiner_a_nuevo" /\ in'[p].hilo = k)
          <=> (estado[k] = "new" /\ ~(pc[p] = "joiner_a_nuevo" /\ in[p].hilo = k)) \/ k = hilo(p)
    BY <1>29 DEF joiner_a_nuevo, NextJoiner, GoTo
  <2> QED
    BY <1>f, <1>g, <2>2, <2>3
<1>30. ASSUME AllUnjoined(p)
      PROVE  Queued(p)'
  <2>1. Stays
    BY <1>30 DEF AllUnjoined, GoTo, Stays
  <2> QED
    BY <1>h, <2>1
<1>31. ASSUME close_switch(p)
      PROVE  Queued(p)'
  <2>1. Stays
    BY <1>31 DEF close_switch, GoTo, Stays
  <2> QED
    BY <1>h, <2>1
<1>32. ASSUME CloseNew(p)
      PROVE  Queued(p)'
  <2>1. Stays
    BY <1>32 DEF CloseNew, Lock, MoveNext, GoTo, Stays
  <2> QED
    BY <1>h, <2>1
<1>33. ASSUME nuevo_a_exit(p)
      PROVE  Queued(p)'
  <2>1. Stays
    BY <1>33 DEF nuevo_a_exit, a_exit, eliminar_ULT_cola_actual, SinListo, SinExec,
       UnlockAll, GoTo, Stays
  <2> QED
    BY <1>h, <2>1
<1>34. ASSUME CloseBlocked(p)
      PROVE  Queued(p)'
  <2>1. Stays
    BY <1>34 DEF CloseBlocked, Lock, GoTo, Stays
  <2> QED
    BY <1>h, <2>1
<1>35. ASSUME CloseBlockedMultiprog(p)
      PROVE  Queued(p)'
  <2>1. Stays
    BY <1>35 DEF CloseBlockedMultiprog, LeaveMultiprog, Lock, MoveNext, GoTo, Stays
  <2> QED
    BY <1>h, <2>1
<1>36. ASSUME bloqueado_a_exit(p)
      PROVE  Queued(p)'
  <2>1. Stays
    BY <1>36 DEF bloqueado_a_exit, a_exit, eliminar_ULT_cola_actual, SinListo,
       SinExec, GoTo, Stays
  <2> QED
    BY <1>h, <2>1
<1>37. ASSUME CloseReady(p)
      PROVE  Queued(p)'
  <2>1. Stays
    BY <1>37 DEF CloseReady, LeaveMultiprog, Lock, MoveNext, GoTo, Stays
  <2> QED
    BY <1>h, <2>1
<1>38. ASSUME listo_a_exit(p)
      PROVE  Queued(p)'
  <2>1. Stays
    BY <1>38 DEF listo_a_exit, a_exit, eliminar_ULT_cola_actual, SinListo, SinExec,
       GoTo, Stays
  <2> QED
    BY <1>h, <2>1
<1>39. ASSUME ListoAExitWait(p)
      PROVE  Queued(p)'
  <2>1. Stays
    BY <1>39 DEF ListoAExitWait, GoTo, Stays
  <2> QED
    BY <1>h, <2>1
<1>40. ASSUME CloseExecute(p)
      PROVE  Queued(p)'
  <2>1. Stays
    BY <1>40 DEF CloseExecute, Lock, GoTo, Stays
  <2> QED
    BY <1>h, <2>1
<1>41. ASSUME obtener_ULT_ready_FIFO(p)
      PROVE  Queued(p)'
  <2>1. Stays
    BY <1>41 DEF obtener_ULT_ready_FIFO, nuevo_a_listo_add, MoveNext, GoTo, Stays
  <2> QED
    BY <1>h, <2>1
<1>42. ASSUME NobodyToAdmit(p)
      PROVE  Queued(p)'
  <2>1. Stays
    BY <1>42 DEF NobodyToAdmit, UnlockAll, GoTo, Stays
  <2> QED
    BY <1>h, <2>1
<1>43. ASSUME NuevoAListoFIFO(p)
      PROVE  Queued(p)'
  <2>1. /\ new_queue' = RemoveFirst(new_queue, hilo(p)) /\ hilo(p) \in Threads
    BY <1>43 DEF NuevoAListoFIFO, nuevo_a_listo, GoTo, eliminar_ULT_cola_actual
  <2>2. /\ IsInjective(new_queue')
        /\ \A k \in Threads : k \in Range(new_queue') <=> k \in Range(new_queue) /\ k # hilo(p)
    BY <1>f, <2>1, NewLeaves
  <2>3. \A k \in Threads : estado'[k] = "new" /\ ~(pc'[p] = "joiner_a_nuevo" /\ in'[p].hilo = k)
          <=> (estado[k] = "new" /\ ~(pc[p] = "joiner_a_nuevo" /\ in[p].hilo = k)) /\ k # hilo(p)
    BY <1>43 DEF NuevoAListoFIFO, nuevo_a_listo, GoTo, eliminar_ULT_cola_actual
  <2> QED
    BY <1>f, <1>g, <2>2, <2>3
<1>44. ASSUME MetricasSemaforos(p)
      PROVE  Queued(p)'
  <2>1. Stays
    BY <1>44 DEF MetricasSemaforos, GoTo, Stays
  <2> QED
    BY <1>h, <2>1
<1>45. ASSUME MetricasMultiprog(p)
      PROVE  Queued(p)'
  <2>1. Stays
    BY <1>45 DEF MetricasMultiprog, Reply, GoTo, Stays
  <2> QED
    BY <1>h, <2>1
<1>46. ASSUME SemWait(p)
      PROVE  Queued(p)'
  <2>1. Stays
    BY <1>46 DEF SemWait, GoTo, Stays
  <2> QED
    BY <1>h, <2>1
<1>47. ASSUME PickReady(p)
      PROVE  Queued(p)'
  <2>1. Stays
    BY <1>47 DEF PickReady, MoveNext, GoTo, Stays
  <2> QED
    BY <1>h, <2>1
<1>48. ASSUME PickNone(p)
      PROVE  Queued(p)'
  <2>1. Stays
    BY <1>48 DEF PickNone, Reply, GoTo, Stays
  <2> QED
    BY <1>h, <2>1
<1>49. ASSUME listo_a_ejecucion(p)
      PROVE  Queued(p)'
  <2>1. Stays
    BY <1>49 DEF listo_a_ejecucion, eliminar_ULT_cola_actual, SinListo, Reply, GoTo,
       Stays
  <2> QED
    BY <1>h, <2>1
<1>50. ASSUME Crash(p)
      PROVE  Queued(p)'
  BY <1>h, <1>50 DEF Crash, Stays
<1> HIDE DEF Threaded, Current, Runs, DataOK
<1> QED
  BY <1>2, <1>3, <1>4, <1>5, <1>6, <1>7, <1>8, <1>9, <1>10, <1>11, <1>12, <1>13,
     <1>14, <1>15, <1>16, <1>17, <1>18, <1>19, <1>20, <1>21, <1>22, <1>23, <1>24,
     <1>25, <1>26, <1>27, <1>28, <1>29, <1>30, <1>31, <1>32, <1>33, <1>34, <1>35,
     <1>36, <1>37, <1>38, <1>39, <1>40, <1>41, <1>42, <1>43, <1>44, <1>45, <1>46,
     <1>47, <1>48, <1>49, <1>50 DEF Goes, Request, Handle

\* blocked_queue stays in step with estado, and exit is final.
LEMMA ListedStep ==
  ASSUME NEW p \in Programs, AloneAt(p), Queued(p), Listed(p), Waiting(p), Goes(p)
  PROVE  /\ Listed(p)'
         /\ \A h \in Threads : estado[h] = "exit" => estado'[h] = "exit"
<1>0. /\ DataOK /\ pc \in [Programs -> Labels] /\ in \in [Programs -> Locals]
      /\ LocalsFor(pc[p], in[p])
      /\ Threaded(p) /\ Current(p) /\ Runs(p) /\ ~CloseOthers
  BY DEF AloneAt, Alone, TypeInv, ControlOK, LocalsSet
<1>a. \A h \in Threads : procesoId(h) = p
  BY OnlyOne DEF AloneAt
<1>b. NULL \notin Threads
  BY OnlyOne DEF AloneAt
<1>c. /\ \A s \in Semaphores : BLOCKED_LIST[s] # <<>> =>
           /\ Head(BLOCKED_LIST[s]) \in Threads
           /\ estado[Head(BLOCKED_LIST[s])] = "blocked"
      /\ Unjoin(p) => joiner(p) \in Threads /\ estado[joiner(p)] = "blocked"
  BY FoundBlocked
<1>d. new_queue # <<>> => Head(new_queue) \in Threads /\ estado[Head(new_queue)] = "new"
  BY HeadIsNew
<1> DEFINE Goal == /\ Listed(p)'
                   /\ \A h \in Threads : estado[h] = "exit" => estado'[h] = "exit"
<1> USE <1>0, <1>a, <1>b, <1>c, <1>d
<1> USE DEF Listed, Threaded, Current, Runs, MainWaits, Live, InFlightAt, WakesAt,
   BlocksAt, ClosesAt, Unreached, hilo, cola, At, Labels, LocalsFor, UltLabels,
   HiloLabels, SemLabels, JoinLabels, Transitions, Estados, DataOK, ULTorNull,
   Locals, threads, queues, joins, sems, Plus, Minus
<1>2. ASSUME CreateMain(p)
      PROVE  Goal
  BY <1>2 DEF CreateMain, ULT_create, GoTo
<1>3. ASSUME NEW t \in Tids, CreateUlt(p, t)
      PROVE  Goal
  BY <1>3 DEF CreateUlt, ULT_create, GoTo
<1>4. ASSUME ScheduleNext(p)
      PROVE  Goal
  BY <1>4 DEF ScheduleNext, GoTo
<1>5. ASSUME Disconnect(p)
      PROVE  Goal
  BY <1>5 DEF Disconnect, GoTo
<1>6. ASSUME NEW t \in Tids, Join(p, t)
      PROVE  Goal
  BY <1>6 DEF Join, GoTo
<1>7. ASSUME NEW t \in Tids, JoinReturns(p, t)
      PROVE  Goal
  BY <1>7 DEF JoinReturns
<1>8. ASSUME NEW t \in Tids, ReceiveClose(p, t)
      PROVE  Goal
  BY <1>8 DEF ReceiveClose, Closable, GoTo
<1>9. ASSUME NEW t \in Tids, CloseUnknown(p, t)
      PROVE  Goal
  BY <1>9 DEF CloseUnknown, Closable
<1>10. ASSUME NEW s \in Semaphores, ReceiveWait(p, s)
      PROVE  Goal
  BY <1>10 DEF ReceiveWait, GoTo
<1>11. ASSUME NEW s \in Semaphores, ReceiveSignal(p, s)
      PROVE  Goal
  BY <1>11 DEF ReceiveSignal, GoTo
<1>12. ASSUME NotAdmitted(p)
      PROVE  Goal
  BY <1>12 DEF NotAdmitted, Reply, GoTo
<1>13. ASSUME AdmitUlt(p)
      PROVE  Goal
  BY <1>13 DEF AdmitUlt, Lock, nuevo_a_listo_add, MoveNext, GoTo
<1>14. ASSUME AdmitMain(p)
      PROVE  Goal
  BY <1>14 DEF AdmitMain, Lock, MoveNext, GoTo
<1>15. ASSUME NuevoAListoCreate(p)
      PROVE  Goal
  BY <1>15 DEF NuevoAListoCreate, nuevo_a_listo, eliminar_ULT_cola_actual,
     SinListo, SinExec, UnlockAll, Reply, GoTo
<1>16. ASSUME nuevo_a_ejecucion(p)
      PROVE  Goal
  BY <1>16 DEF nuevo_a_ejecucion, eliminar_ULT_cola_actual, SinListo, UnlockAll,
     Reply, GoTo
<1>17. ASSUME ejecucion_a_bloqueado(p)
      PROVE  Goal
  BY <1>17 DEF ejecucion_a_bloqueado, Reply, GoTo
<1>18. ASSUME decrementar_semaforo(p)
      PROVE  Goal
  BY <1>18 DEF decrementar_semaforo, Reply, GoTo
<1>19. ASSUME BlockOnSemaphore(p)
      PROVE  Goal
  BY <1>19 DEF BlockOnSemaphore, Lock, GoTo
<1>20. ASSUME ejecucion_a_bloqueado_por_semaforo(p)
      PROVE  Goal
  BY <1>20 DEF ejecucion_a_bloqueado_por_semaforo, UnlockAll, Reply, GoTo
<1>21. ASSUME SignalAtMax(p)
      PROVE  Goal
  BY <1>21 DEF SignalAtMax, Reply, GoTo
<1>22. ASSUME SignalNoWaiter(p)
      PROVE  Goal
  BY <1>22 DEF SignalNoWaiter, Reply, GoTo
<1>23. ASSUME desbloquear_hilos_semaforo(p)
      PROVE  Goal
  BY <1>23 DEF desbloquear_hilos_semaforo, Lock, MoveNext, GoTo
<1>24. ASSUME BloqueadoAListoSignal(p)
      PROVE  Goal
  BY <1>24 DEF BloqueadoAListoSignal, bloqueado_a_listo, eliminar_ULT_cola_actual,
     SinListo, SinExec, UnlockAll, Reply, GoTo
<1>25. ASSUME JoinerStillWaits(p)
      PROVE  Goal
  BY <1>25 DEF JoinerStillWaits, Unjoin
<1>26. ASSUME JoinerReady(p)
      PROVE  Goal
  BY <1>26 DEF JoinerReady, Unjoin, Lock, MoveNext, GoTo
<1>27. ASSUME JoinerNew(p)
      PROVE  Goal
  BY <1>27 DEF JoinerNew, Unjoin, Lock, GoTo
<1>28. ASSUME BloqueadoAListoJoin(p)
      PROVE  Goal
  BY <1>28 DEF BloqueadoAListoJoin, bloqueado_a_listo, eliminar_ULT_cola_actual,
     SinListo, SinExec, UnlockAll, NextJoiner, GoTo
<1>29. ASSUME joiner_a_nuevo(p)
      PROVE  Goal
  BY <1>29 DEF joiner_a_nuevo, UnlockAll, NextJoiner, GoTo
<1>30. ASSUME AllUnjoined(p)
      PROVE  Goal
  BY <1>30 DEF AllUnjoined, GoTo
<1>31. ASSUME close_switch(p)
      PROVE  Goal
  BY <1>31 DEF close_switch, GoTo
<1>32. ASSUME CloseNew(p)
      PROVE  Goal
  BY <1>32 DEF CloseNew, Lock, MoveNext, GoTo
<1>33. ASSUME nuevo_a_exit(p)
      PROVE  Goal
  BY <1>33 DEF nuevo_a_exit, a_exit, eliminar_ULT_cola_actual, SinListo, SinExec,
     UnlockAll, GoTo
<1>34. ASSUME CloseBlocked(p)
      PROVE  Goal
  BY <1>34 DEF CloseBlocked, Lock, GoTo
<1>35. ASSUME CloseBlockedMultiprog(p)
      PROVE  Goal
  BY <1>35 DEF CloseBlockedMultiprog, LeaveMultiprog, Lock, MoveNext, GoTo
<1>36. ASSUME bloqueado_a_exit(p)
      PROVE  Goal
  BY <1>36 DEF bloqueado_a_exit, a_exit, eliminar_ULT_cola_actual, SinListo,
     SinExec, GoTo
<1>37. ASSUME CloseReady(p)
      PROVE  Goal
  BY <1>37 DEF CloseReady, LeaveMultiprog, Lock, MoveNext, GoTo
<1>38. ASSUME listo_a_exit(p)
      PROVE  Goal
  BY <1>38 DEF listo_a_exit, a_exit, eliminar_ULT_cola_actual, SinListo, SinExec,
     GoTo
<1>39. ASSUME ListoAExitWait(p)
      PROVE  Goal
  BY <1>39 DEF ListoAExitWait, GoTo
<1>40. ASSUME CloseExecute(p)
      PROVE  Goal
  BY <1>40 DEF CloseExecute, Lock, GoTo
<1>41. ASSUME obtener_ULT_ready_FIFO(p)
      PROVE  Goal
  BY <1>41 DEF obtener_ULT_ready_FIFO, nuevo_a_listo_add, MoveNext, GoTo
<1>42. ASSUME NobodyToAdmit(p)
      PROVE  Goal
  BY <1>42 DEF NobodyToAdmit, UnlockAll, GoTo
<1>43. ASSUME NuevoAListoFIFO(p)
      PROVE  Goal
  BY <1>43 DEF NuevoAListoFIFO, nuevo_a_listo, eliminar_ULT_cola_actual, SinListo,
     SinExec, UnlockAll, GoTo
<1>44. ASSUME MetricasSemaforos(p)
      PROVE  Goal
  BY <1>44 DEF MetricasSemaforos, GoTo
<1>45. ASSUME MetricasMultiprog(p)
      PROVE  Goal
  BY <1>45 DEF MetricasMultiprog, Reply, GoTo
<1>46. ASSUME SemWait(p)
      PROVE  Goal
  BY <1>46 DEF SemWait, GoTo
<1>47. ASSUME PickReady(p)
      PROVE  Goal
  BY <1>47 DEF PickReady, MoveNext, GoTo
<1>48. ASSUME PickNone(p)
      PROVE  Goal
  BY <1>48 DEF PickNone, Reply, GoTo
<1>49. ASSUME listo_a_ejecucion(p)
      PROVE  Goal
  BY <1>49 DEF listo_a_ejecucion, eliminar_ULT_cola_actual, SinListo, Reply, GoTo
<1>50. ASSUME Crash(p)
      PROVE  Goal
  BY <1>50 DEF Crash
<1> HIDE DEF Listed, Threaded, Current, Runs, DataOK
<1> QED
  BY <1>2, <1>3, <1>4, <1>5, <1>6, <1>7, <1>8, <1>9, <1>10, <1>11, <1>12, <1>13,
     <1>14, <1>15, <1>16, <1>17, <1>18, <1>19, <1>20, <1>21, <1>22, <1>23, <1>24,
     <1>25, <1>26, <1>27, <1>28, <1>29, <1>30, <1>31, <1>32, <1>33, <1>34, <1>35,
     <1>36, <1>37, <1>38, <1>39, <1>40, <1>41, <1>42, <1>43, <1>44, <1>45, <1>46,
     <1>47, <1>48, <1>49, <1>50 DEF Goes, Request, Handle

(***************************************************************************)
(* The tokens of semaforoReady.                                            *)
(***************************************************************************)
\* The entries of a list with R[h] entries for each h in S, numbered.
Numbered(S, R) == UNION {{h} \X (1..R[h]) : h \in S}

\* What is an entry.
LEMMA NumberedEntry ==
  ASSUME NEW S, NEW R \in [S -> Nat], NEW e
  PROVE  e \in Numbered(S, R) <=> \E h \in S : \E k \in 1..R[h] : e = <<h, k>>
<1>1. e \in Numbered(S, R) <=> \E h \in S : e \in {h} \X (1..R[h])
  BY DEF Numbered
<1>2. \A h \in S : e \in {h} \X (1..R[h]) <=> \E k \in 1..R[h] : e = <<h, k>>
  OBVIOUS
<1> QED
  BY <1>1, <1>2

\* There are finitely many, and none if no thread has one.
LEMMA NumberedFinite ==
  ASSUME NEW S, IsFiniteSet(S), NEW R \in [S -> Nat]
  PROVE  /\ IsFiniteSet(Numbered(S, R))
         /\ (\A h \in S : R[h] = 0) => Cardinality(Numbered(S, R)) = 0
<1> DEFINE f == [h \in S |-> {h} \X (1..R[h])]
           I == {{h} \X (1..R[h]) : h \in S}
<1>1. IsFiniteSet(I)
  <2>1. f \in [S -> I] /\ \A T \in I : \E h \in S : f[h] = T
    OBVIOUS
  <2> HIDE DEF f, I
  <2>2. f \in Surjection(S, I)
    BY <2>1 DEF Surjection
  <2> QED
    BY <2>2, FS_Surjection
<1>2. ASSUME NEW h \in S
      PROVE  IsFiniteSet({h} \X (1..R[h]))
  <2>1. IsFiniteSet({h})
    BY FS_Singleton
  <2>2. R[h] \in Int /\ 1 \in Int
    OBVIOUS
  <2>3. IsFiniteSet(1..R[h])
    BY <2>2, FS_Interval
  <2> QED
    BY <2>1, <2>3, FS_Product
<1>3. \A T \in I : IsFiniteSet(T)
  BY <1>2
<1>4. Numbered(S, R) = UNION I
  BY DEF Numbered
<1>5. IsFiniteSet(Numbered(S, R))
  <2> HIDE DEF I
  <2> QED
    BY <1>1, <1>3, <1>4, FS_UNION
<1>6. ASSUME \A h \in S : R[h] = 0
      PROVE  Numbered(S, R) = {}
  <2>1. \A h \in S : 1..R[h] = {}
    BY <1>6
  <2> QED
    BY <2>1, NumberedEntry
<1> QED
  BY <1>5, <1>6, FS_EmptySet

\* list_add adds one.
LEMMA NumberedPlus ==
  ASSUME NEW S, IsFiniteSet(S), NEW R \in [S -> Nat], NEW h \in S
  PROVE  Cardinality(Numbered(S, [R EXCEPT ![h] = @ + 1])) = Cardinality(Numbered(S, R)) + 1
<1> DEFINE Q == [R EXCEPT ![h] = @ + 1]
           e == <<h, R[h] + 1>>
<1>1. Q \in [S -> Nat] /\ Q[h] = R[h] + 1 /\ \A k \in S : k # h => Q[k] = R[k]
  BY OneMore
<1>2. 1..Q[h] = 1..R[h] \cup {R[h] + 1} /\ R[h] + 1 \notin 1..R[h]
  BY <1>1
<1> HIDE DEF Q
<1>3. Numbered(S, Q) = Numbered(S, R) \cup {e}
  BY <1>1, <1>2, NumberedEntry
<1>4. e \notin Numbered(S, R)
  BY <1>2, NumberedEntry
<1> QED
  BY <1>3, <1>4, NumberedFinite, FS_AddElement DEF Q

\* list_remove takes one away.
LEMMA NumberedMinus ==
  ASSUME NEW S, IsFiniteSet(S), NEW R \in [S -> Nat], NEW h \in S, R[h] > 0
  PROVE  Cardinality(Numbered(S, [R EXCEPT ![h] = @ - 1])) = Cardinality(Numbered(S, R)) - 1
<1> DEFINE Q == [R EXCEPT ![h] = @ - 1]
<1>1. Q \in [S -> Nat]
  <2>1. R[h] - 1 \in Nat
    OBVIOUS
  <2> QED
    BY <2>1
<1>2. Q[h] \in Nat /\ Q[h] = R[h] - 1 /\ \A k \in S : k # h => Q[k] = R[k]
  OBVIOUS
<1> HIDE DEF Q
<1>3. [Q EXCEPT ![h] = @ + 1] = R
  <2>1. Q[h] + 1 = R[h]
    BY <1>2
  <2> QED
    BY <1>1, <1>2, <2>1
<1>4. Cardinality(Numbered(S, R)) = Cardinality(Numbered(S, Q)) + 1
  BY <1>1, <1>3, NumberedPlus
<1>5. Cardinality(Numbered(S, Q)) \in Nat
  BY <1>1, NumberedFinite, FS_CardinalityType
<1> QED
  BY <1>4, <1>5 DEF Q

\* The only handler counts at most once as between a list and its semaphore.
LEMMA OneInTransit ==
  ASSUME NEW p \in Programs, Alone, NEW c, NEW r,
         c[p] \in InFlightAt => procesoId(r[p].hilo) = p
  PROVE  Cardinality({q \in Programs :
            c[q] \in {"nuevo_a_listo_create", "nuevo_a_listo_FIFO"} /\ procesoId(r[q].hilo) = p})
         = IF c[p] \in InFlightAt THEN 1 ELSE 0
<1> DEFINE Q == {q \in Programs :
      c[q] \in {"nuevo_a_listo_create", "nuevo_a_listo_FIFO"} /\ procesoId(r[q].hilo) = p}
<1>1. Q = IF c[p] \in InFlightAt THEN {p} ELSE {}
  BY DEF Alone, InFlightAt
<1> HIDE DEF Q
<1> QED
  BY <1>1, FS_EmptySet, FS_Singleton DEF Q


\* Every post of semaforoReady goes with an entry of READY_LIST and every wait
\* with one taken out, by the time the handler is back.
LEMMA CountedStep ==
  ASSUME NEW p \in Programs, AloneAt(p), Readied(p), Queued(p), Waiting(p), Counted(p),
         Goes(p), TypeInv', Current(p)'
  PROVE  Counted(p)'
<1>0. /\ DataOK /\ pc \in [Programs -> Labels] /\ in \in [Programs -> Locals]
      /\ LocalsFor(pc[p], in[p])
      /\ Threaded(p) /\ Current(p) /\ Runs(p) /\ Readied(p) /\ ~CloseOthers
  BY DEF AloneAt, Alone, TypeInv, ControlOK, LocalsSet
<1>a. \A h \in Threads : procesoId(h) = p
  BY OnlyOne DEF AloneAt
<1>b. NULL \notin Threads
  BY OnlyOne DEF AloneAt
<1>c. /\ \A s \in Semaphores : BLOCKED_LIST[s] # <<>> =>
           /\ Head(BLOCKED_LIST[s]) \in Threads
           /\ estado[Head(BLOCKED_LIST[s])] = "blocked"
      /\ Unjoin(p) => joiner(p) \in Threads /\ estado[joiner(p)] = "blocked"
  BY FoundBlocked
<1>d. new_queue # <<>> => Head(new_queue) \in Threads /\ estado[Head(new_queue)] = "new"
  BY HeadIsNew
<1> DEFINE Within(l) == IF l \in InFlightAt \cup {"pick", "listo_a_ejecucion"} THEN 1 ELSE 0
           Same  == /\ READY_LIST' = READY_LIST
                    /\ semaforoReady'[p] + Within(pc'[p]) = semaforoReady[p] + Within(pc[p])
           Comes(h) ==
                    /\ READY_LIST' = [READY_LIST EXCEPT ![h] = @ + 1]
                    /\ semaforoReady'[p] + Within(pc'[p]) = semaforoReady[p] + Within(pc[p]) + 1
           Leaves(h) ==
                    /\ READY_LIST[h] > 0
                    /\ READY_LIST' = [READY_LIST EXCEPT ![h] = @ - 1]
                    /\ semaforoReady'[p] + Within(pc'[p]) = semaforoReady[p] + Within(pc[p]) - 1
<1>e. /\ ReadyCount(p) = Cardinality(Numbered(Threads, READY_LIST))
      /\ ReadyCount(p)' = Cardinality(Numbered(Threads, READY_LIST'))
  <2>1. Of(p) = Threads
    BY <1>a DEF Of
  <2> QED
    BY <2>1 DEF ReadyCount, Entries, Numbered, Of
<1>f. InTransit(p) = Within(pc[p])
  <2>1. pc[p] \in InFlightAt => procesoId(in[p].hilo) = p
    BY <1>0, <1>a DEF LocalsFor, HiloLabels, Transitions, InFlightAt
  <2>2. Cardinality({q \in Programs : pc[q] \in {"nuevo_a_listo_create", "nuevo_a_listo_FIFO"}
                                        /\ procesoId(hilo(q)) = p})
        = IF pc[p] \in InFlightAt THEN 1 ELSE 0
    BY <2>1, OneInTransit DEF AloneAt, hilo
  <2>3. pc[p] # "listo_a_exit_wait"
    BY <1>0 DEF Current, Unreached
  <2> QED
    BY <2>2, <2>3 DEF InTransit, InFlightAt
<1>g. InTransit(p)' = Within(pc'[p])
  <2>1. LocalsFor(pc'[p], in'[p])
    BY DEF TypeInv, ControlOK, LocalsSet
  <2>2. pc'[p] \in InFlightAt => procesoId(in'[p].hilo) = p
    BY <1>a, <2>1 DEF LocalsFor, HiloLabels, Transitions, InFlightAt
  <2>3. Cardinality({q \in Programs : pc'[q] \in {"nuevo_a_listo_create", "nuevo_a_listo_FIFO"}
                                        /\ procesoId(in'[q].hilo) = p})
        = IF pc'[p] \in InFlightAt THEN 1 ELSE 0
    BY <2>2, OneInTransit DEF AloneAt
  <2>4. pc'[p] # "listo_a_exit_wait"
    BY DEF Current, Unreached
  <2> QED
    BY <2>3, <2>4 DEF InTransit, InFlightAt, hilo, procesoId
<1>h. /\ READY_LIST \in [Threads -> Nat] /\ semaforoReady \in [Programs -> Nat]
      /\ IsFiniteSet(Threads)
  BY <1>0, SuseAssumption, FS_Product DEF DataOK, Threads
<1>i. semaforoReady'[p] \in Nat /\ Within(pc'[p]) \in Nat /\ Within(pc[p]) \in Nat
  BY DEF TypeInv, DataOK
<1>j. ReadyCount(p) \in Nat
  BY <1>e, <1>h, NumberedFinite, FS_CardinalityType
<1>k. pc[p] = "pick" => \E h \in Threads : procesoId(h) = p /\ READY_LIST[h] # 0
  <2> SUFFICES ASSUME pc[p] = "pick", \A h \in Threads : READY_LIST[h] = 0
               PROVE  FALSE
    BY <1>a
  <2>1. ReadyCount(p) = 0
    BY <1>e, <1>h, NumberedFinite
  <2> QED
    BY <1>f, <1>h, <2>1 DEF Counted
<1> DEFINE Goal == Same \/ \E h \in Threads : Comes(h) \/ Leaves(h)
<1>l. Goal => Counted(p)'
  <2>1. CASE Same
    BY <1>e, <1>f, <1>g, <2>1 DEF Counted
  <2>2. ASSUME NEW h \in Threads, Comes(h)
      PROVE  Counted(p)'
    <3>1. ReadyCount(p)' = ReadyCount(p) + 1
      <4>1. Cardinality(Numbered(Threads, [READY_LIST EXCEPT ![h] = @ + 1]))
            = Cardinality(Numbered(Threads, READY_LIST)) + 1
        BY <1>h, <2>2, NumberedPlus
      <4> QED
        BY <1>e, <2>2, <4>1
    <3> QED
      BY <1>f, <1>g, <1>h, <1>i, <1>j, <2>2, <3>1 DEF Counted
  <2>3. ASSUME NEW h \in Threads, Leaves(h)
      PROVE  Counted(p)'
    <3>1. ReadyCount(p)' = ReadyCount(p) - 1
      <4>1. Cardinality(Numbered(Threads, [READY_LIST EXCEPT ![h] = @ - 1]))
            = Cardinality(Numbered(Threads, READY_LIST)) - 1
        BY <1>h, <2>3, NumberedMinus
      <4> QED
        BY <1>e, <2>3, <4>1
    <3> QED
      BY <1>f, <1>g, <1>h, <1>i, <1>j, <2>3, <3>1 DEF Counted
  <2> QED
    BY <2>1, <2>2, <2>3
<1> USE <1>0, <1>a, <1>b, <1>c, <1>d, <1>h, <1>k
<1> USE DEF Readied, Threaded, Current, Runs, MainWaits, Live, InFlightAt, WakesAt,
   BlocksAt, ClosesAt, Unreached, hilo, cola, At, Labels, LocalsFor, UltLabels,
   HiloLabels, SemLabels, JoinLabels, Transitions, Estados, DataOK, ULTorNull,
   Locals, threads, queues, joins, sems, Plus, Minus
<1>2. ASSUME CreateMain(p)
      PROVE  Goal
  BY <1>2 DEF CreateMain, ULT_create, GoTo
<1>3. ASSUME NEW t \in Tids, CreateUlt(p, t)
      PROVE  Goal
  BY <1>3 DEF CreateUlt, ULT_create, GoTo
<1>4. ASSUME ScheduleNext(p)
      PROVE  Goal
  <2>1. CASE EXEC_THREAD[p] # NULL
    <3>1. EXEC_THREAD[p] \in Threads /\ Comes(EXEC_THREAD[p])
      BY <1>4, <2>1 DEF ScheduleNext, GoTo
    <3> QED
      BY <3>1
  <2>2. CASE EXEC_THREAD[p] = NULL
    <3>1. Same
      BY <1>4, <2>2 DEF ScheduleNext, GoTo
    <3> QED
      BY <3>1
  <2> QED
    BY <2>1, <2>2
<1>5. ASSUME Disconnect(p)
      PROVE  Goal
  BY <1>5 DEF Disconnect, GoTo
<1>6. ASSUME NEW t \in Tids, Join(p, t)
      PROVE  Goal
  BY <1>6 DEF Join, GoTo
<1>7. ASSUME NEW t \in Tids, JoinReturns(p, t)
      PROVE  Goal
  BY <1>7 DEF JoinReturns
<1>8. ASSUME NEW t \in Tids, ReceiveClose(p, t)
      PROVE  Goal
  BY <1>8 DEF ReceiveClose, Closable, GoTo
<1>9. ASSUME NEW t \in Tids, CloseUnknown(p, t)
      PROVE  Goal
  BY <1>9 DEF CloseUnknown, Closable
<1>10. ASSUME NEW s \in Semaphores, ReceiveWait(p, s)
      PROVE  Goal
  BY <1>10 DEF ReceiveWait, GoTo
<1>11. ASSUME NEW s \in Semaphores, ReceiveSignal(p, s)
      PROVE  Goal
  BY <1>11 DEF ReceiveSignal, GoTo
<1>12. ASSUME NotAdmitted(p)
      PROVE  Goal
  BY <1>12 DEF NotAdmitted, Reply, GoTo
<1>13. ASSUME AdmitUlt(p)
      PROVE  Goal
  <2>1. in[p].ult \in Threads /\ Comes(in[p].ult)
    BY <1>13 DEF AdmitUlt, nuevo_a_listo_add, MoveNext, GoTo
  <2> QED
    BY <2>1
<1>14. ASSUME AdmitMain(p)
      PROVE  Goal
  BY <1>14 DEF AdmitMain, Lock, MoveNext, GoTo
<1>15. ASSUME NuevoAListoCreate(p)
      PROVE  Goal
  BY <1>15 DEF NuevoAListoCreate, nuevo_a_listo, eliminar_ULT_cola_actual,
     SinListo, SinExec, UnlockAll, Reply, GoTo
<1>16. ASSUME nuevo_a_ejecucion(p)
      PROVE  Goal
  BY <1>16 DEF nuevo_a_ejecucion, eliminar_ULT_cola_actual, SinListo, UnlockAll,
     Reply, GoTo
<1>17. ASSUME ejecucion_a_bloqueado(p)
      PROVE  Goal
  BY <1>17 DEF ejecucion_a_bloqueado, Reply, GoTo
<1>18. ASSUME decrementar_semaforo(p)
      PROVE  Goal
  BY <1>18 DEF decrementar_semaforo, Reply, GoTo
<1>19. ASSUME BlockOnSemaphore(p)
      PROVE  Goal
  BY <1>19 DEF BlockOnSemaphore, Lock, GoTo
<1>20. ASSUME ejecucion_a_bloqueado_por_semaforo(p)
      PROVE  Goal
  BY <1>20 DEF ejecucion_a_bloqueado_por_semaforo, UnlockAll, Reply, GoTo
<1>21. ASSUME SignalAtMax(p)
      PROVE  Goal
  BY <1>21 DEF SignalAtMax, Reply, GoTo
<1>22. ASSUME SignalNoWaiter(p)
      PROVE  Goal
  BY <1>22 DEF SignalNoWaiter, Reply, GoTo
<1>23. ASSUME desbloquear_hilos_semaforo(p)
      PROVE  Goal
  BY <1>23 DEF desbloquear_hilos_semaforo, Lock, MoveNext, GoTo
<1>24. ASSUME BloqueadoAListoSignal(p)
      PROVE  Goal
  <2>1. hilo(p) \in Threads /\ procesoId(hilo(p)) = p /\ cola(p) = "blocked"
    BY <1>24 DEF BloqueadoAListoSignal
  <2>2. /\ READY_LIST' = Plus(READY_LIST, hilo(p))
        /\ semaforoReady' = [semaforoReady EXCEPT ![p] = @ + 1]
    BY <1>24, <2>1 DEF BloqueadoAListoSignal, bloqueado_a_listo, SinListo
  <2>3. Within(pc[p]) = 0 /\ Within(pc'[p]) = 0
    BY <1>24 DEF BloqueadoAListoSignal, Reply, GoTo
  <2>4. Comes(hilo(p))
    BY <2>2, <2>3
  <2> QED
    BY <2>1, <2>4
<1>25. ASSUME JoinerStillWaits(p)
      PROVE  Goal
  BY <1>25 DEF JoinerStillWaits, Unjoin
<1>26. ASSUME JoinerReady(p)
      PROVE  Goal
  BY <1>26 DEF JoinerReady, Unjoin, Lock, MoveNext, GoTo
<1>27. ASSUME JoinerNew(p)
      PROVE  Goal
  BY <1>27 DEF JoinerNew, Unjoin, Lock, GoTo
<1>28. ASSUME BloqueadoAListoJoin(p)
      PROVE  Goal
  <2>1. hilo(p) \in Threads /\ procesoId(hilo(p)) = p /\ cola(p) = "blocked"
    BY <1>28 DEF BloqueadoAListoJoin
  <2>2. /\ READY_LIST' = Plus(READY_LIST, hilo(p))
        /\ semaforoReady' = [semaforoReady EXCEPT ![p] = @ + 1]
    BY <1>28, <2>1 DEF BloqueadoAListoJoin, bloqueado_a_listo, SinListo
  <2>3. Within(pc[p]) = 0 /\ Within(pc'[p]) = 0
    BY <1>28 DEF BloqueadoAListoJoin, NextJoiner, GoTo
  <2>4. Comes(hilo(p))
    BY <2>2, <2>3
  <2> QED
    BY <2>1, <2>4
<1>29. ASSUME joiner_a_nuevo(p)
      PROVE  Goal
  BY <1>29 DEF joiner_a_nuevo, UnlockAll, NextJoiner, GoTo
<1>30. ASSUME AllUnjoined(p)
      PROVE  Goal
  BY <1>30 DEF AllUnjoined, GoTo
<1>31. ASSUME close_switch(p)
      PROVE  Goal
  BY <1>31 DEF close_switch, GoTo
<1>32. ASSUME CloseNew(p)
      PROVE  Goal
  BY <1>32 DEF CloseNew, Lock, MoveNext, GoTo
<1>33. ASSUME nuevo_a_exit(p)
      PROVE  Goal
  BY <1>33 DEF nuevo_a_exit, a_exit, eliminar_ULT_cola_actual, SinListo, SinExec,
     UnlockAll, GoTo
<1>34. ASSUME CloseBlocked(p)
      PROVE  Goal
  BY <1>34 DEF CloseBlocked, Lock, GoTo
<1>35. ASSUME CloseBlockedMultiprog(p)
      PROVE  Goal
  BY <1>35 DEF CloseBlockedMultiprog, LeaveMultiprog, Lock, MoveNext, GoTo
<1>36. ASSUME bloqueado_a_exit(p)
      PROVE  Goal
  BY <1>36 DEF bloqueado_a_exit, a_exit, eliminar_ULT_cola_actual, SinListo,
     SinExec, GoTo
<1>37. ASSUME CloseReady(p)
      PROVE  Goal
  BY <1>37 DEF CloseReady, LeaveMultiprog, Lock, MoveNext, GoTo
<1>38. ASSUME listo_a_exit(p)
      PROVE  Goal
  BY <1>38 DEF listo_a_exit, a_exit, eliminar_ULT_cola_actual, SinListo, SinExec,
     GoTo
<1>39. ASSUME ListoAExitWait(p)
      PROVE  Goal
  BY <1>39 DEF ListoAExitWait, GoTo
<1>40. ASSUME CloseExecute(p)
      PROVE  Goal
  BY <1>40 DEF CloseExecute, Lock, GoTo
<1>41. ASSUME obtener_ULT_ready_FIFO(p)
      PROVE  Goal
  <2>1. Head(new_queue) \in Threads /\ Comes(Head(new_queue))
    BY <1>41 DEF obtener_ULT_ready_FIFO, nuevo_a_listo_add, MoveNext, GoTo
  <2> QED
    BY <2>1
<1>42. ASSUME NobodyToAdmit(p)
      PROVE  Goal
  BY <1>42 DEF NobodyToAdmit, UnlockAll, GoTo
<1>43. ASSUME NuevoAListoFIFO(p)
      PROVE  Goal
  BY <1>43 DEF NuevoAListoFIFO, nuevo_a_listo, eliminar_ULT_cola_actual, SinListo,
     SinExec, UnlockAll, GoTo
<1>44. ASSUME MetricasSemaforos(p)
      PROVE  Goal
  BY <1>44 DEF MetricasSemaforos, GoTo
<1>45. ASSUME MetricasMultiprog(p)
      PROVE  Goal
  BY <1>45 DEF MetricasMultiprog, Reply, GoTo
<1>46. ASSUME SemWait(p)
      PROVE  Goal
  BY <1>46 DEF SemWait, GoTo
<1>47. ASSUME PickReady(p)
      PROVE  Goal
  BY <1>47 DEF PickReady, MoveNext, GoTo
<1>48. ASSUME PickNone(p)
      PROVE  Goal
  BY <1>48 DEF PickNone, Reply, GoTo
<1>49. ASSUME listo_a_ejecucion(p)
      PROVE  Goal
  <2>1. hilo(p) \in Threads /\ cola(p) = "ready" /\ READY_LIST[hilo(p)] > 0
    BY <1>49 DEF listo_a_ejecucion
  <2>2. Minus(READY_LIST, hilo(p)) = [READY_LIST EXCEPT ![hilo(p)] = @ - 1]
    BY <2>1
  <2>3. /\ READY_LIST' = Minus(READY_LIST, hilo(p)) /\ UNCHANGED semaforoReady
        /\ pc[p] = "listo_a_ejecucion" /\ pc'[p] = "idle"
    BY <1>49, <2>1 DEF listo_a_ejecucion, eliminar_ULT_cola_actual, SinListo, Reply, GoTo
  <2>4. Leaves(hilo(p))
    BY <2>1, <2>2, <2>3
  <2> QED
    BY <2>1, <2>4
<1>50. ASSUME Crash(p)
      PROVE  Goal
  BY <1>50 DEF Crash
<1> HIDE DEF Goal, Readied, Threaded, Current, Runs, DataOK
<1> QED
  BY <1>l, <1>2, <1>3, <1>4, <1>5, <1>6, <1>7, <1>8, <1>9, <1>10, <1>11, <1>12, <1>13,
     <1>14, <1>15, <1>16, <1>17, <1>18, <1>19, <1>20, <1>21, <1>22, <1>23, <1>24,
     <1>25, <1>26, <1>27, <1>28, <1>29, <1>30, <1>31, <1>32, <1>33, <1>34, <1>35,
     <1>36, <1>37, <1>38, <1>39, <1>40, <1>41, <1>42, <1>43, <1>44, <1>45, <1>46,
     <1>47, <1>48, <1>49, <1>50 DEF Goes, Request, Handle

(***************************************************************************)
(* The two places a blocked thread can wait in.                            *)
(***************************************************************************)
\* A step that blocks and wakes nobody.
LEMMA WaitingStays ==
  ASSUME NEW p \in Programs, Waiting(p), UNCHANGED <<joinTo, joinedBy, BLOCKED_LIST>>,
         DataOK,
         \A h \in Threads : estado'[h] = "blocked" <=> estado[h] = "blocked",
         \A h \in Threads : estado'[h] = "none" => estado[h] = "none",
         \A g \in Threads : g \in ULTS' => g \in ULTS \/ estado[g] = "none",
         \A g \in Threads : \A i \in DOMAIN joinedBy[g] :
           g \in ULTS' /\ Undone(p, g, i) => Undone(p, g, i)',
         Woken(p)'
  PROVE  Waiting(p)'
<1>1. InSemaphores'
  <2>1. \A s \in Semaphores : \A i \in DOMAIN BLOCKED_LIST[s] : BLOCKED_LIST[s][i] \in Threads
    BY DEF DataOK, ThreadLists
  <2> QED
    BY <2>1 DEF Waiting, InSemaphores
<1>2. \A g \in Threads : Pending(p, g)' \subseteq Pending(p, g)
  <2>1. \A g \in Threads : estado[g] = "none" => DOMAIN joinedBy[g] = {}
    BY DEF Waiting, InJoins
  <2> QED
    BY <2>1 DEF Pending
<1>3. \A g \in Threads : \A i \in Pending(p, g) : joinedBy[g][i] \in Threads
  BY DEF DataOK, ThreadLists, Pending
<1>4. InJoins(p)'
  BY <1>2, <1>3 DEF Waiting, InJoins
<1> QED
  BY <1>1, <1>4 DEF Waiting

\* The thread in execution blocks on a semaphore.
LEMMA WaitingOnSemaphore ==
  ASSUME NEW p \in Programs, AloneAt(p), Waiting(p), BlockOnSemaphore(p)
  PROVE  Waiting(p)'
<1> DEFINE u == in[p].ult
           s == in[p].sem
<1>0. /\ DataOK /\ u \in Threads /\ s \in Semaphores /\ estado[u] = "execute"
      /\ pc[p] = "decrementar_semaforo" /\ joinTo[u] = <<>>
  <2>1. DataOK /\ LocalsFor(pc[p], in[p]) /\ pc[p] = "decrementar_semaforo"
    BY DEF AloneAt, TypeInv, ControlOK, LocalsSet, BlockOnSemaphore, At
  <2>2. u \in Threads /\ s \in Semaphores /\ estado[u] = "execute"
    BY <2>1 DEF LocalsFor, UltLabels, SemLabels, AloneAt, Threaded, Runs, ClosesAt
  <2> QED
    BY <2>1, <2>2 DEF Waiting, InJoins
<1>1. /\ estado' = [estado EXCEPT ![u] = "blocked"]
      /\ BLOCKED_LIST' = [BLOCKED_LIST EXCEPT ![s] = Append(@, u)]
      /\ pc'[p] = "ejecucion_a_bloqueado_por_semaforo"
      /\ UNCHANGED <<joinTo, joinedBy, ULTS, in>>
  <2>1. pc \in [Programs -> Labels]
    BY DEF AloneAt, TypeInv, ControlOK
  <2> QED
    BY <2>1 DEF BlockOnSemaphore, GoTo, joins
<1>2. \A r \in Semaphores : BLOCKED_LIST[r] \in Seq(Threads)
  BY <1>0 DEF DataOK, ThreadLists
<1>3. \A r \in Semaphores : \A i \in DOMAIN BLOCKED_LIST[r] :
        /\ BLOCKED_LIST[r][i] \in Threads /\ BLOCKED_LIST[r][i] # u
        /\ estado[BLOCKED_LIST[r][i]] = "blocked" /\ joinTo[BLOCKED_LIST[r][i]] = <<>>
  BY <1>0, <1>2 DEF Waiting, InSemaphores
<1> DEFINE n == Len(BLOCKED_LIST[s]) + 1
<1>4. /\ DOMAIN BLOCKED_LIST'[s] = DOMAIN BLOCKED_LIST[s] \cup {n} /\ n \notin DOMAIN BLOCKED_LIST[s]
      /\ BLOCKED_LIST'[s][n] = u
      /\ \A i \in DOMAIN BLOCKED_LIST[s] : BLOCKED_LIST'[s][i] = BLOCKED_LIST[s][i]
      /\ \A r \in Semaphores : r # s => BLOCKED_LIST'[r] = BLOCKED_LIST[r]
  <2>1. BLOCKED_LIST'[s] = Append(BLOCKED_LIST[s], u)
    BY <1>0, <1>1 DEF DataOK
  <2>2. \A r \in Semaphores : r # s => BLOCKED_LIST'[r] = BLOCKED_LIST[r]
    BY <1>0, <1>1 DEF DataOK
  <2> QED
    BY <1>0, <1>2, <2>1, <2>2
<1> HIDE DEF n, u, s
<1>5. \A r \in Semaphores : \A i \in DOMAIN BLOCKED_LIST'[r] :
        \/ i \in DOMAIN BLOCKED_LIST[r] /\ BLOCKED_LIST'[r][i] = BLOCKED_LIST[r][i]
        \/ r = s /\ i = n /\ BLOCKED_LIST'[r][i] = u
  BY <1>4
<1>6. InSemaphores'
  <2>1. \A h \in Threads : h # u => estado'[h] = estado[h]
    BY <1>0, <1>1 DEF DataOK
  <2>2. estado'[u] = "blocked" /\ joinTo'[u] = <<>>
    BY <1>0, <1>1 DEF DataOK
  <2>3. \A r \in Semaphores : \A i \in DOMAIN BLOCKED_LIST'[r] :
          estado'[BLOCKED_LIST'[r][i]] = "blocked" /\ joinTo'[BLOCKED_LIST'[r][i]] = <<>>
    BY <1>1, <1>3, <1>5, <2>1, <2>2
  <2>4. ASSUME NEW r \in Semaphores, NEW q \in Semaphores,
               NEW i \in DOMAIN BLOCKED_LIST'[r], NEW j \in DOMAIN BLOCKED_LIST'[q],
               BLOCKED_LIST'[r][i] = BLOCKED_LIST'[q][j]
        PROVE  r = q /\ i = j
    BY <1>3, <1>5, <2>4 DEF Waiting, InSemaphores
  <2> QED
    BY <2>3, <2>4 DEF InSemaphores
<1>7. \A g \in Threads : Pending(p, g)' = Pending(p, g)
  BY <1>0, <1>1 DEF Pending, Undone
<1>8. \A g \in Threads : \A i \in Pending(p, g) :
        joinedBy[g][i] \in Threads /\ joinedBy[g][i] # u
  <2>1. \A g \in Threads : \A i \in Pending(p, g) : joinedBy[g][i] \in Threads
    BY <1>0 DEF DataOK, ThreadLists, Pending
  <2> QED
    BY <1>0, <2>1 DEF Waiting, InJoins
<1>9. InJoins(p)'
  <2>1. \A h \in Threads : estado'[h] = IF h = u THEN "blocked" ELSE estado[h]
    BY <1>0, <1>1 DEF DataOK
  <2> QED
    BY <1>0, <1>1, <1>7, <1>8, <2>1 DEF Waiting, InJoins
<1>10. Woken(p)'
  BY <1>1 DEF Woken
<1> QED
  BY <1>6, <1>9, <1>10 DEF Waiting

\* The thread in execution waits for the close of another.
LEMMA WaitingOnJoin ==
  ASSUME NEW p \in Programs, AloneAt(p), Waiting(p), NEW t \in Tids, Join(p, t)
  PROVE  Waiting(p)'
<1> DEFINE u == EXEC_THREAD[p]
           g == <<p, t>>
<1>0. /\ DataOK /\ u \in Threads /\ g \in Threads /\ g \in ULTS /\ estado[u] = "execute"
      /\ pc[p] = "idle" /\ joinTo[u] = <<>>
  <2>1. DataOK /\ pc[p] = "idle" /\ u # NULL /\ g \in ULTS
    BY DEF AloneAt, TypeInv, Join, At
  <2>2. u \in Threads /\ g \in Threads /\ estado[u] = "execute"
    BY <2>1 DEF DataOK, ULTorNull, AloneAt, Threaded
  <2> QED
    BY <2>1, <2>2 DEF Waiting, InJoins
<1>1. /\ estado' = [estado EXCEPT ![u] = "blocked"]
      /\ joinTo' = [joinTo EXCEPT ![u] = Append(@, g)]
      /\ joinedBy' = [joinedBy EXCEPT ![g] = Append(@, u)]
      /\ pc'[p] = "ejecucion_a_bloqueado" /\ UNCHANGED <<BLOCKED_LIST, ULTS>>
  <2>1. pc \in [Programs -> Labels]
    BY DEF AloneAt, TypeInv, ControlOK
  <2> QED
    BY <2>1 DEF Join, GoTo, sems
<1>2. /\ joinTo'[u] = <<g>> /\ \A h \in Threads : h # u => joinTo'[h] = joinTo[h]
      /\ joinedBy'[g] = Append(joinedBy[g], u) /\ joinedBy[g] \in Seq(Threads)
      /\ \A h \in Threads : h # g => joinedBy'[h] = joinedBy[h]
      /\ \A h \in Threads : estado'[h] = IF h = u THEN "blocked" ELSE estado[h]
  <2>1. joinTo'[u] = Append(<<>>, g)
    BY <1>0, <1>1 DEF DataOK
  <2>2. Append(<<>>, g) = <<g>>
    OBVIOUS
  <2> QED
    BY <1>0, <1>1, <2>1, <2>2 DEF DataOK, ThreadLists
<1> HIDE DEF u, g
<1>3. InSemaphores'
  <2>1. \A s \in Semaphores : \A i \in DOMAIN BLOCKED_LIST[s] :
          BLOCKED_LIST[s][i] \in Threads /\ BLOCKED_LIST[s][i] # u
    BY <1>0 DEF DataOK, ThreadLists, Waiting, InSemaphores
  <2> QED
    BY <1>1, <1>2, <2>1 DEF Waiting, InSemaphores
<1> DEFINE n == Len(joinedBy[g]) + 1
<1>4. /\ n \notin DOMAIN joinedBy[g] /\ joinedBy'[g][n] = u
      /\ DOMAIN joinedBy'[g] = DOMAIN joinedBy[g] \cup {n}
      /\ \A i \in DOMAIN joinedBy[g] : joinedBy'[g][i] = joinedBy[g][i]
  BY <1>2
<1> HIDE DEF n
<1>5. \A h \in Threads : \A i \in Pending(p, h)' :
        \/ i \in Pending(p, h) /\ joinedBy'[h][i] = joinedBy[h][i]
        \/ h = g /\ i = n /\ joinedBy'[h][i] = u
  BY <1>0, <1>1, <1>2, <1>4 DEF Pending, Undone
<1>6. \A h \in Threads : \A i \in Pending(p, h) :
        /\ joinedBy[h][i] \in Threads /\ joinedBy[h][i] # u
        /\ estado[joinedBy[h][i]] = "blocked" /\ joinTo[joinedBy[h][i]] = <<h>>
  <2>1. \A h \in Threads : \A i \in Pending(p, h) : joinedBy[h][i] \in Threads
    BY <1>0 DEF DataOK, ThreadLists, Pending
  <2> QED
    BY <1>0, <2>1 DEF Waiting, InJoins
<1>7. InJoins(p)'
  <2>1. \A h \in Threads : estado'[h] # "blocked" => joinTo'[h] = <<>>
    BY <1>0, <1>2 DEF Waiting, InJoins
  <2>2. \A h \in Threads : estado'[h] = "none" => joinedBy'[h] = <<>>
    <3>1. estado[g] # "none"
      BY <1>0 DEF AloneAt, Threaded, Live
    <3> QED
      BY <1>0, <1>2, <3>1 DEF Waiting, InJoins
  <2>3. \A h \in Threads : \A i \in Pending(p, h)' :
          estado'[joinedBy'[h][i]] = "blocked" /\ joinTo'[joinedBy'[h][i]] = <<h>>
    <3> SUFFICES ASSUME NEW h \in Threads, NEW i \in Pending(p, h)'
                 PROVE  /\ estado'[joinedBy'[h][i]] = "blocked"
                        /\ joinTo'[joinedBy'[h][i]] = <<h>>
      OBVIOUS
    <3>1. CASE i \in Pending(p, h) /\ joinedBy'[h][i] = joinedBy[h][i]
      BY <1>2, <1>6, <3>1
    <3>2. CASE h = g /\ joinedBy'[h][i] = u
      BY <1>0, <1>2, <3>2
    <3> QED
      BY <1>5, <3>1, <3>2
  <2>4. \A h \in Threads : \A i, j \in Pending(p, h)' :
          joinedBy'[h][i] = joinedBy'[h][j] => i = j
    BY <1>5, <1>6 DEF Waiting, InJoins
  <2> QED
    BY <2>1, <2>2, <2>3, <2>4 DEF InJoins
<1>8. Woken(p)'
  BY <1>1 DEF Woken
<1> QED
  BY <1>3, <1>7, <1>8 DEF Waiting


\* The close of g takes g out of what its next joiner waits for.
LEMMA WaitingUnjoined ==
  ASSUME NEW p \in Programs, AloneAt(p), Waiting(p), Unjoin(p)
  PROVE  /\ joinToLeft(p) = <<>>
         /\ (JoinerReady(p) \/ JoinerNew(p)) => Waiting(p)'
<1> DEFINE g == in[p].ult
           k == in[p].i
           j == joinedBy[g][k]
<1>0. /\ DataOK /\ pc[p] = "desjoinear" /\ g \in Threads /\ k \in Nat /\ k > 0
      /\ in \in [Programs -> Locals] /\ pc \in [Programs -> Labels]
      /\ k <= Len(joinedBy[g]) /\ joinedBy[g] \in Seq(Threads) /\ g \in ULTS
  <2>1. /\ DataOK /\ pc[p] = "desjoinear" /\ g \in Threads /\ k \in Nat /\ k > 0
        /\ in \in [Programs -> Locals] /\ pc \in [Programs -> Labels]
        /\ k <= Len(joinedBy[g])
    BY DEF Unjoin, At, AloneAt, TypeInv, ControlOK, LocalsSet, LocalsFor, UltLabels,
       JoinLabels, Locals
  <2>2. g \in ULTS
    BY <2>1 DEF AloneAt, Threaded, Runs, ClosesAt, Live
  <2> QED
    BY <2>1, <2>2 DEF DataOK, ThreadLists
<1>1. k \in Pending(p, g)
  BY <1>0 DEF Pending, Undone
<1>2. j \in Threads /\ estado[j] = "blocked" /\ joinTo[j] = <<g>>
  <2> HIDE DEF g, k
  <2>1. joinedBy[g][k] \in Threads
    BY <1>0
  <2>2. \A i \in Pending(p, g) :
          estado[joinedBy[g][i]] = "blocked" /\ joinTo[joinedBy[g][i]] = <<g>>
    BY <1>0 DEF Waiting, InJoins
  <2> QED
    BY <1>1, <2>1, <2>2
<1>3. joinToLeft(p) = RemoveFirst(<<g>>, g)
  BY <1>2 DEF joinToLeft, joiner
<1>4. joinToLeft(p) = <<>>
  <2>1. <<g>> \in Seq(Threads) /\ IsInjective(<<g>>) /\ Range(<<g>>) = {g}
    BY <1>0 DEF IsInjective, Range
  <2> DEFINE l == <<g>>
  <2>3. l \in Seq(Threads) /\ IsInjective(l) /\ Range(l) = {g}
    BY <2>1
  <2> HIDE DEF l
  <2>4. RemoveFirst(l, g) \in Seq(Threads) /\ Range(RemoveFirst(l, g)) = Range(l) \ {g}
    BY <2>3, RemoveFirstInjective, RemoveFirstType
  <2>2. joinToLeft(p) \in Seq(Threads) /\ Range(joinToLeft(p)) = {}
    BY <1>3, <2>3, <2>4 DEF l
  <2> QED
    BY <2>2 DEF Range
<1>5. ASSUME JoinerReady(p) \/ JoinerNew(p)
      PROVE  Waiting(p)'
  <2>1. /\ joinTo' = [joinTo EXCEPT ![j] = <<>>] /\ UNCHANGED <<joinedBy, BLOCKED_LIST, ULTS>>
        /\ pc'[p] \in {"bloqueado_a_listo_join", "joiner_a_nuevo"}
        /\ in'[p].ult = g /\ in'[p].i = k /\ in'[p].hilo = j
    BY <1>0, <1>4, <1>5 DEF JoinerReady, JoinerNew, Unjoin, joiner, MoveNext, GoTo, Locals,
       sems, threads
  <2>2. \A h \in Threads : h # j => estado'[h] = estado[h]
    BY <1>0, <1>5 DEF JoinerReady, JoinerNew, joiner, DataOK, threads
  <2>3. joinTo'[j] = <<>> /\ \A h \in Threads : h # j => joinTo'[h] = joinTo[h]
    BY <1>0, <1>2, <2>1 DEF DataOK
  <2>4. estado'[j] # "none"
    BY <1>0, <1>2, <1>5 DEF JoinerReady, JoinerNew, joiner, DataOK, threads
  <2> HIDE DEF g, k, j
  <2>5. \A s \in Semaphores : \A i \in DOMAIN BLOCKED_LIST[s] :
          BLOCKED_LIST[s][i] \in Threads /\ BLOCKED_LIST[s][i] # j
    <3>1. joinTo[j] # <<>>
      BY <1>2
    <3>2. \A s \in Semaphores : \A i \in DOMAIN BLOCKED_LIST[s] : BLOCKED_LIST[s][i] \in Threads
      BY <1>0 DEF DataOK, ThreadLists
    <3> QED
      BY <3>1, <3>2 DEF Waiting, InSemaphores
  <2>6. InSemaphores'
    BY <2>1, <2>2, <2>3, <2>5 DEF Waiting, InSemaphores
  <2>7. \A h \in Threads : Pending(p, h)' = IF h = g THEN Pending(p, h) \ {k} ELSE Pending(p, h)
    <3>1. \A h \in Threads : h # g => Pending(p, h)' = Pending(p, h)
      BY <1>0, <2>1 DEF Pending, Undone, g, k
    <3>2. ASSUME NEW h \in Threads, h = g
          PROVE  Pending(p, h)' = Pending(p, h) \ {k}
      <4>1. \A i \in DOMAIN joinedBy[h] : Undone(p, h, i)' <=> i <= k
        BY <2>1, <3>2 DEF Undone
      <4>2. \A i \in DOMAIN joinedBy[h] : Undone(p, h, i) <=> i < k
        BY <1>0, <3>2 DEF Undone, g, k
      <4>3. \A i \in DOMAIN joinedBy[h] : i <= k <=> i < k \/ i = k
        BY <1>0, <3>2
      <4> QED
        BY <1>0, <2>1, <3>2, <4>1, <4>2, <4>3 DEF Pending
    <3> QED
      BY <3>1, <3>2
  <2>8. \A h \in Threads : \A i \in Pending(p, h)' :
          /\ i \in Pending(p, h)
          /\ joinedBy[h][i] \in Threads /\ joinedBy[h][i] # j
    <3> SUFFICES ASSUME NEW h \in Threads, NEW i \in Pending(p, h)'
                 PROVE  /\ i \in Pending(p, h)
                        /\ joinedBy[h][i] \in Threads /\ joinedBy[h][i] # j
      OBVIOUS
    <3>1. i \in Pending(p, h) /\ joinedBy[h][i] \in Threads
      <4>1. joinedBy[h] \in Seq(Threads)
        BY <1>0 DEF DataOK, ThreadLists
      <4>2. i \in Pending(p, h)
        BY <2>7
      <4> QED
        BY <4>1, <4>2 DEF Pending
    <3>2. CASE h = g
      BY <1>1, <2>7, <3>1, <3>2 DEF Waiting, InJoins, j
    <3>3. CASE h # g
      <4>1. <<h>> # <<g>>
        BY <3>3
      <4> QED
        BY <1>2, <3>1, <4>1 DEF Waiting, InJoins
    <3> QED
      BY <3>1, <3>2, <3>3
  <2>9. InJoins(p)'
    <3>1. \A h \in Threads : estado'[h] # "blocked" => joinTo'[h] = <<>>
      BY <2>2, <2>3 DEF Waiting, InJoins
    <3>2. \A h \in Threads : estado'[h] = "none" => joinedBy'[h] = <<>>
      BY <2>1, <2>2, <2>4 DEF Waiting, InJoins
    <3>3. \A h \in Threads : \A i \in Pending(p, h)' :
            estado'[joinedBy'[h][i]] = "blocked" /\ joinTo'[joinedBy'[h][i]] = <<h>>
      BY <2>1, <2>2, <2>3, <2>8 DEF Waiting, InJoins
    <3>4. \A h \in Threads : \A a, b \in Pending(p, h)' :
            joinedBy'[h][a] = joinedBy'[h][b] => a = b
      BY <2>1, <2>8 DEF Waiting, InJoins
    <3> QED
      BY <3>1, <3>2, <3>3, <3>4 DEF InJoins
  <2>10. Woken(p)'
    BY <2>1, <2>3, <2>5 DEF Woken, hilo
  <2> QED
    BY <2>6, <2>9, <2>10 DEF Waiting
<1> QED
  BY <1>4, <1>5

\* The handler readies the joiner, or the first thread of a semaphore's list.
LEMMA WaitingWoken ==
  ASSUME NEW p \in Programs, AloneAt(p), Waiting(p),
         BloqueadoAListoJoin(p) \/ BloqueadoAListoSignal(p)
  PROVE  Waiting(p)'
<1> DEFINE u == hilo(p)
<1>0. /\ DataOK /\ u \in Threads /\ estado[u] = "blocked"
      /\ in \in [Programs -> Locals] /\ pc \in [Programs -> Labels]
      /\ pc[p] = "bloqueado_a_listo_signal" => in[p].sem \in Semaphores
  BY DEF BloqueadoAListoJoin, BloqueadoAListoSignal, At, AloneAt, TypeInv, ControlOK,
     LocalsSet, LocalsFor, HiloLabels, SemLabels, Transitions, Current, WakesAt, hilo
<1>1. joinTo[u] = <<>>
  <2>1. CASE BloqueadoAListoJoin(p)
    BY <2>1 DEF BloqueadoAListoJoin, At, Waiting, Woken
  <2>2. CASE BloqueadoAListoSignal(p)
    <3>1. /\ BLOCKED_LIST[in[p].sem] # <<>> /\ u = Head(BLOCKED_LIST[in[p].sem])
          /\ in[p].sem \in Semaphores
      BY <1>0, <2>2 DEF BloqueadoAListoSignal, At, Waiting, Woken
    <3>2. 1 \in DOMAIN BLOCKED_LIST[in[p].sem] /\ u = BLOCKED_LIST[in[p].sem][1]
      BY <1>0, <3>1 DEF DataOK, ThreadLists
    <3> QED
      BY <3>1, <3>2 DEF Waiting, InSemaphores
  <2> QED
    BY <2>1, <2>2
<1>a. InSemaphores
  BY DEF Waiting
<1>2. /\ estado' = [estado EXCEPT ![u] = "ready"] /\ UNCHANGED <<joinTo, joinedBy, ULTS>>
  BY DEF BloqueadoAListoJoin, BloqueadoAListoSignal, bloqueado_a_listo, joins
<1>3. \A h \in Threads : estado'[h] = IF h = u THEN "ready" ELSE estado[h]
  BY <1>0, <1>2 DEF DataOK
<1> HIDE DEF u
<1>4. InSemaphores'
  <2>1. CASE BloqueadoAListoJoin(p)
    <3>1. /\ UNCHANGED BLOCKED_LIST
          /\ \A s \in Semaphores : \A i \in DOMAIN BLOCKED_LIST[s] :
               BLOCKED_LIST[s][i] \in Threads /\ BLOCKED_LIST[s][i] # u
      BY <1>0, <2>1 DEF BloqueadoAListoJoin, At, Waiting, Woken, u, DataOK, ThreadLists
    <3> QED
      BY <1>2, <1>3, <3>1 DEF Waiting, InSemaphores
  <2>2. CASE BloqueadoAListoSignal(p)
    <3> DEFINE s == in[p].sem
    <3>1. /\ s \in Semaphores /\ BLOCKED_LIST[s] # <<>> /\ u = Head(BLOCKED_LIST[s])
          /\ BLOCKED_LIST' = [BLOCKED_LIST EXCEPT ![s] = Tail(@)]
      BY <1>0, <2>2 DEF BloqueadoAListoSignal, At, Waiting, Woken, u
    <3> HIDE DEF s
    <3>2. /\ BLOCKED_LIST'[s] = Tail(BLOCKED_LIST[s]) /\ BLOCKED_LIST[s] \in Seq(Threads)
          /\ \A r \in Semaphores : r # s => BLOCKED_LIST'[r] = BLOCKED_LIST[r]
      BY <1>0, <3>1 DEF DataOK, ThreadLists
    <3>3. 1 \in DOMAIN BLOCKED_LIST[s] /\ u = BLOCKED_LIST[s][1]
      BY <3>1, <3>2
    <3>4. \A i \in DOMAIN BLOCKED_LIST'[s] :
            /\ i + 1 \in DOMAIN BLOCKED_LIST[s] /\ i + 1 # 1 /\ i \in Nat
            /\ BLOCKED_LIST'[s][i] = BLOCKED_LIST[s][i + 1]
      <4> DEFINE l == BLOCKED_LIST[s]
                 m == Tail(l)
      <4>1. l \in Seq(Threads) /\ l # <<>> /\ BLOCKED_LIST'[s] = m
        BY <3>1, <3>2
      <4> HIDE DEF l
      <4>2. Len(m) = Len(l) - 1 /\ Len(l) \in Nat /\ m \in Seq(Threads)
        BY <4>1
      <4>3. \A i \in 1..Len(m) : m[i] = l[i + 1]
        BY <4>1
      <4> HIDE DEF m
      <4>4. DOMAIN m = 1..Len(m) /\ DOMAIN l = 1..Len(l)
        BY <4>1, <4>2
      <4> QED
        BY <4>1, <4>2, <4>3, <4>4 DEF l
    <3>5. \A r \in Semaphores : \A i \in DOMAIN BLOCKED_LIST'[r] :
            \E k \in DOMAIN BLOCKED_LIST[r] :
              /\ BLOCKED_LIST'[r][i] = BLOCKED_LIST[r][k] /\ ~(r = s /\ k = 1)
              /\ k = IF r = s THEN i + 1 ELSE i
      <4> SUFFICES ASSUME NEW r \in Semaphores, NEW i \in DOMAIN BLOCKED_LIST'[r]
                   PROVE  \E k \in DOMAIN BLOCKED_LIST[r] :
                            /\ BLOCKED_LIST'[r][i] = BLOCKED_LIST[r][k] /\ ~(r = s /\ k = 1)
                            /\ k = IF r = s THEN i + 1 ELSE i
        OBVIOUS
      <4>1. CASE r = s
        BY <3>4, <4>1
      <4>2. CASE r # s
        BY <3>2, <4>2
      <4> QED
        BY <4>1, <4>2
    <3>6. \A r \in Semaphores : \A i \in DOMAIN BLOCKED_LIST'[r] :
            /\ BLOCKED_LIST'[r][i] \in Threads /\ BLOCKED_LIST'[r][i] # u
            /\ estado[BLOCKED_LIST'[r][i]] = "blocked" /\ joinTo[BLOCKED_LIST'[r][i]] = <<>>
      <4> SUFFICES ASSUME NEW r \in Semaphores, NEW i \in DOMAIN BLOCKED_LIST'[r]
                   PROVE  /\ BLOCKED_LIST'[r][i] \in Threads /\ BLOCKED_LIST'[r][i] # u
                          /\ estado[BLOCKED_LIST'[r][i]] = "blocked"
                          /\ joinTo[BLOCKED_LIST'[r][i]] = <<>>
        OBVIOUS
      <4>1. PICK k \in DOMAIN BLOCKED_LIST[r] :
              BLOCKED_LIST'[r][i] = BLOCKED_LIST[r][k] /\ ~(r = s /\ k = 1)
        BY <3>5
      <4>2. BLOCKED_LIST[r][k] \in Threads
        BY <1>0 DEF DataOK, ThreadLists
      <4>3. /\ BLOCKED_LIST[r][k] # u /\ estado[BLOCKED_LIST[r][k]] = "blocked"
            /\ joinTo[BLOCKED_LIST[r][k]] = <<>>
        BY <1>a, <3>1, <3>3, <4>1 DEF InSemaphores
      <4> QED
        BY <4>1, <4>2, <4>3
    <3>7. ASSUME NEW r \in Semaphores, NEW q \in Semaphores,
                 NEW i \in DOMAIN BLOCKED_LIST'[r], NEW j \in DOMAIN BLOCKED_LIST'[q],
                 BLOCKED_LIST'[r][i] = BLOCKED_LIST'[q][j]
          PROVE  r = q /\ i = j
      <4>1. PICK k \in DOMAIN BLOCKED_LIST[r] :
              BLOCKED_LIST'[r][i] = BLOCKED_LIST[r][k] /\ k = IF r = s THEN i + 1 ELSE i
        BY <3>5
      <4>2. PICK l \in DOMAIN BLOCKED_LIST[q] :
              BLOCKED_LIST'[q][j] = BLOCKED_LIST[q][l] /\ l = IF q = s THEN j + 1 ELSE j
        BY <3>5
      <4>3. r = q /\ k = l
        <5>1. BLOCKED_LIST[r][k] = BLOCKED_LIST[q][l]
          BY <3>7, <4>1, <4>2
        <5> QED
          BY <1>a, <5>1 DEF InSemaphores
      <4> QED
        BY <3>4, <4>1, <4>2, <4>3
    <3> QED
      BY <1>2, <1>3, <3>6, <3>7 DEF InSemaphores
  <2> QED
    BY <2>1, <2>2
<1>5. \A g \in Threads : Pending(p, g)' \subseteq Pending(p, g)
  <2>1. CASE BloqueadoAListoJoin(p)
    <3>1. /\ pc[p] = "bloqueado_a_listo_join" /\ pc'[p] = "desjoinear"
          /\ in'[p].ult = in[p].ult /\ in'[p].i = in[p].i + 1 /\ in[p].i \in Nat
      BY <1>0, <2>1 DEF BloqueadoAListoJoin, At, NextJoiner, GoTo, Locals
    <3>2. \A g \in Threads : \A i \in DOMAIN joinedBy[g] : i \in Nat
      <4> SUFFICES ASSUME NEW g \in Threads
                   PROVE  \A i \in DOMAIN joinedBy[g] : i \in Nat
        OBVIOUS
      <4>1. joinedBy[g] \in Seq(Threads)
        BY <1>0 DEF DataOK, ThreadLists
      <4> QED
        BY <4>1
    <3> QED
      BY <1>2, <3>1, <3>2 DEF Pending, Undone
  <2>2. CASE BloqueadoAListoSignal(p)
    BY <1>0, <1>2, <2>2 DEF BloqueadoAListoSignal, At, Reply, GoTo, Pending, Undone
  <2> QED
    BY <2>1, <2>2
<1>6. \A g \in Threads : \A i \in Pending(p, g) :
        joinedBy[g][i] \in Threads /\ joinedBy[g][i] # u
  <2>1. \A g : <<g>> # <<>>
    OBVIOUS
  <2>2. \A g \in Threads : \A i \in Pending(p, g) : joinedBy[g][i] \in Threads
    BY <1>0 DEF DataOK, ThreadLists, Pending
  <2> QED
    BY <1>1, <2>1, <2>2 DEF Waiting, InJoins
<1>7. InJoins(p)'
  BY <1>1, <1>2, <1>3, <1>5, <1>6 DEF Waiting, InJoins
<1>8. Woken(p)'
  BY <1>0 DEF Woken, BloqueadoAListoJoin, BloqueadoAListoSignal, Reply, NextJoiner, GoTo
<1> QED
  BY <1>4, <1>7, <1>8 DEF Waiting


\* Every blocked thread keeps its one place.
LEMMA WaitStep ==
  ASSUME NEW p \in Programs, AloneAt(p), Queued(p), Waiting(p), Goes(p)
  PROVE  Waiting(p)'
<1>0. /\ DataOK /\ pc \in [Programs -> Labels] /\ in \in [Programs -> Locals]
      /\ LocalsFor(pc[p], in[p])
      /\ Threaded(p) /\ Current(p) /\ Runs(p) /\ ~CloseOthers
  BY DEF AloneAt, Alone, TypeInv, ControlOK, LocalsSet
<1>a. \A h \in Threads : procesoId(h) = p
  BY OnlyOne DEF AloneAt
<1>b. NULL \notin Threads
  BY OnlyOne DEF AloneAt
<1>c. /\ \A s \in Semaphores : BLOCKED_LIST[s] # <<>> =>
           /\ Head(BLOCKED_LIST[s]) \in Threads
           /\ estado[Head(BLOCKED_LIST[s])] = "blocked"
      /\ Unjoin(p) => joiner(p) \in Threads /\ estado[joiner(p)] = "blocked"
  BY FoundBlocked
<1>d. new_queue # <<>> => Head(new_queue) \in Threads /\ estado[Head(new_queue)] = "new"
  BY HeadIsNew
<1> DEFINE Stays ==
      /\ UNCHANGED <<joinTo, joinedBy, BLOCKED_LIST>>
      /\ \A h \in Threads : estado'[h] = "blocked" <=> estado[h] = "blocked"
      /\ \A h \in Threads : estado'[h] = "none" => estado[h] = "none"
      /\ \A g \in Threads : g \in ULTS' => g \in ULTS \/ estado[g] = "none"
      /\ \A g \in Threads : \A i \in DOMAIN joinedBy[g] :
           g \in ULTS' /\ Undone(p, g, i) => Undone(p, g, i)'
      /\ Woken(p)'
<1>e. Stays => Waiting(p)'
  BY <1>0, WaitingStays
<1>f. \A g \in Threads : \A i \in DOMAIN joinedBy[g] : i \in Nat /\ i <= Len(joinedBy[g])
  <2> SUFFICES ASSUME NEW g \in Threads
               PROVE  \A i \in DOMAIN joinedBy[g] : i \in Nat /\ i <= Len(joinedBy[g])
    OBVIOUS
  <2>1. joinedBy[g] \in Seq(Threads)
    BY <1>0 DEF DataOK, ThreadLists
  <2> QED
    BY <2>1
<1>g. Unjoin(p) => joinToLeft(p) = <<>>
  BY WaitingUnjoined
<1>h. Woken(p)
  BY DEF Waiting
<1> DEFINE Goal == Stays \/ Waiting(p)'
<1> USE <1>0, <1>a, <1>b, <1>c, <1>d, <1>f, <1>g
<1> USE DEF Undone, Woken, Threaded, Current, Runs, MainWaits, Live, InFlightAt,
   WakesAt, BlocksAt, ClosesAt, Unreached, hilo, cola, At, Labels, LocalsFor,
   UltLabels, HiloLabels, SemLabels, JoinLabels, Transitions, Estados, DataOK,
   ULTorNull, Locals, threads, queues, joins, sems
<1>2. ASSUME CreateMain(p)
      PROVE  Goal
  BY <1>2 DEF CreateMain, ULT_create, GoTo
<1>3. ASSUME NEW t \in Tids, CreateUlt(p, t)
      PROVE  Goal
  BY <1>3 DEF CreateUlt, ULT_create, GoTo
<1>4. ASSUME ScheduleNext(p)
      PROVE  Goal
  BY <1>4 DEF ScheduleNext, GoTo
<1>5. ASSUME Disconnect(p)
      PROVE  Goal
  BY <1>5 DEF Disconnect, GoTo
<1>6. ASSUME NEW t \in Tids, Join(p, t)
      PROVE  Goal
  BY <1>6, WaitingOnJoin
<1>7. ASSUME NEW t \in Tids, JoinReturns(p, t)
      PROVE  Goal
  BY <1>7 DEF JoinReturns
<1>8. ASSUME NEW t \in Tids, ReceiveClose(p, t)
      PROVE  Goal
  BY <1>8 DEF ReceiveClose, Closable, GoTo
<1>9. ASSUME NEW t \in Tids, CloseUnknown(p, t)
      PROVE  Goal
  BY <1>9 DEF CloseUnknown, Closable
<1>10. ASSUME NEW s \in Semaphores, ReceiveWait(p, s)
      PROVE  Goal
  BY <1>10 DEF ReceiveWait, GoTo
<1>11. ASSUME NEW s \in Semaphores, ReceiveSignal(p, s)
      PROVE  Goal
  BY <1>11 DEF ReceiveSignal, GoTo
<1>12. ASSUME NotAdmitted(p)
      PROVE  Goal
  BY <1>12 DEF NotAdmitted, Reply, GoTo
<1>13. ASSUME AdmitUlt(p)
      PROVE  Goal
  BY <1>13 DEF AdmitUlt, Lock, nuevo_a_listo_add, MoveNext, GoTo
<1>14. ASSUME AdmitMain(p)
      PROVE  Goal
  BY <1>14 DEF AdmitMain, Lock, MoveNext, GoTo
<1>15. ASSUME NuevoAListoCreate(p)
      PROVE  Goal
  BY <1>15 DEF NuevoAListoCreate, nuevo_a_listo, eliminar_ULT_cola_actual,
     SinListo, SinExec, UnlockAll, Reply, GoTo
<1>16. ASSUME nuevo_a_ejecucion(p)
      PROVE  Goal
  BY <1>16 DEF nuevo_a_ejecucion, eliminar_ULT_cola_actual, SinListo, UnlockAll,
     Reply, GoTo
<1>17. ASSUME ejecucion_a_bloqueado(p)
      PROVE  Goal
  BY <1>17 DEF ejecucion_a_bloqueado, Reply, GoTo
<1>18. ASSUME decrementar_semaforo(p)
      PROVE  Goal
  BY <1>18 DEF decrementar_semaforo, Reply, GoTo
<1>19. ASSUME BlockOnSemaphore(p)
      PROVE  Goal
  BY <1>19, WaitingOnSemaphore
<1>20. ASSUME ejecucion_a_bloqueado_por_semaforo(p)
      PROVE  Goal
  BY <1>20 DEF ejecucion_a_bloqueado_por_semaforo, UnlockAll, Reply, GoTo
<1>21. ASSUME SignalAtMax(p)
      PROVE  Goal
  BY <1>21 DEF SignalAtMax, Reply, GoTo
<1>22. ASSUME SignalNoWaiter(p)
      PROVE  Goal
  BY <1>22 DEF SignalNoWaiter, Reply, GoTo
<1>23. ASSUME desbloquear_hilos_semaforo(p)
      PROVE  Goal
  BY <1>23 DEF desbloquear_hilos_semaforo, Lock, MoveNext, GoTo
<1>24. ASSUME BloqueadoAListoSignal(p)
      PROVE  Goal
  BY <1>24, WaitingWoken
<1>25. ASSUME JoinerStillWaits(p)
      PROVE  Goal
  BY <1>25 DEF JoinerStillWaits, Unjoin
<1>26. ASSUME JoinerReady(p)
      PROVE  Goal
  BY <1>26, WaitingUnjoined DEF JoinerReady
<1>27. ASSUME JoinerNew(p)
      PROVE  Goal
  BY <1>27, WaitingUnjoined DEF JoinerNew
<1>28. ASSUME BloqueadoAListoJoin(p)
      PROVE  Goal
  BY <1>28, WaitingWoken
<1>29. ASSUME joiner_a_nuevo(p)
      PROVE  Goal
  BY <1>29 DEF joiner_a_nuevo, UnlockAll, NextJoiner, GoTo
<1>30. ASSUME AllUnjoined(p)
      PROVE  Goal
  BY <1>30 DEF AllUnjoined, GoTo
<1>31. ASSUME close_switch(p)
      PROVE  Goal
  BY <1>31 DEF close_switch, GoTo
<1>32. ASSUME CloseNew(p)
      PROVE  Goal
  BY <1>32 DEF CloseNew, Lock, MoveNext, GoTo
<1>33. ASSUME nuevo_a_exit(p)
      PROVE  Goal
  BY <1>33 DEF nuevo_a_exit, a_exit, eliminar_ULT_cola_actual, SinListo, SinExec,
     UnlockAll, GoTo
<1>34. ASSUME CloseBlocked(p)
      PROVE  Goal
  BY <1>34 DEF CloseBlocked, Lock, GoTo
<1>35. ASSUME CloseBlockedMultiprog(p)
      PROVE  Goal
  BY <1>35 DEF CloseBlockedMultiprog, LeaveMultiprog, Lock, MoveNext, GoTo
<1>36. ASSUME bloqueado_a_exit(p)
      PROVE  Goal
  BY <1>36 DEF bloqueado_a_exit, a_exit, eliminar_ULT_cola_actual, SinListo,
     SinExec, GoTo
<1>37. ASSUME CloseReady(p)
      PROVE  Goal
  BY <1>37 DEF CloseReady, LeaveMultiprog, Lock, MoveNext, GoTo
<1>38. ASSUME listo_a_exit(p)
      PROVE  Goal
  BY <1>38 DEF listo_a_exit, a_exit, eliminar_ULT_cola_actual, SinListo, SinExec,
     GoTo
<1>39. ASSUME ListoAExitWait(p)
      PROVE  Goal
  BY <1>39 DEF ListoAExitWait, GoTo
<1>40. ASSUME CloseExecute(p)
      PROVE  Goal
  BY <1>40 DEF CloseExecute, Lock, GoTo
<1>41. ASSUME obtener_ULT_ready_FIFO(p)
      PROVE  Goal
  BY <1>41 DEF obtener_ULT_ready_FIFO, nuevo_a_listo_add, MoveNext, GoTo
<1>42. ASSUME NobodyToAdmit(p)
      PROVE  Goal
  BY <1>42 DEF NobodyToAdmit, UnlockAll, GoTo
<1>43. ASSUME NuevoAListoFIFO(p)
      PROVE  Goal
  BY <1>43 DEF NuevoAListoFIFO, nuevo_a_listo, eliminar_ULT_cola_actual, SinListo,
     SinExec, UnlockAll, GoTo
<1>44. ASSUME MetricasSemaforos(p)
      PROVE  Goal
  BY <1>44 DEF MetricasSemaforos, GoTo
<1>45. ASSUME MetricasMultiprog(p)
      PROVE  Goal
  BY <1>45 DEF MetricasMultiprog, Reply, GoTo
<1>46. ASSUME SemWait(p)
      PROVE  Goal
  BY <1>46 DEF SemWait, GoTo
<1>47. ASSUME PickReady(p)
      PROVE  Goal
  BY <1>47 DEF PickReady, MoveNext, GoTo
<1>48. ASSUME PickNone(p)
      PROVE  Goal
  BY <1>48 DEF PickNone, Reply, GoTo
<1>49. ASSUME listo_a_ejecucion(p)
      PROVE  Goal
  BY <1>49 DEF listo_a_ejecucion, eliminar_ULT_cola_actual, SinListo, Reply, GoTo
<1>50. ASSUME Crash(p)
      PROVE  Goal
  BY <1>h, <1>50 DEF Crash
<1> HIDE DEF Stays, Undone, Woken, Threaded, Current, Runs, DataOK
<1> QED
  BY <1>e, <1>2, <1>3, <1>4, <1>5, <1>6, <1>7, <1>8, <1>9, <1>10, <1>11, <1>12, <1>13,
     <1>14, <1>15, <1>16, <1>17, <1>18, <1>19, <1>20, <1>21, <1>22, <1>23, <1>24,
     <1>25, <1>26, <1>27, <1>28, <1>29, <1>30, <1>31, <1>32, <1>33, <1>34, <1>35,
     <1>36, <1>37, <1>38, <1>39, <1>40, <1>41, <1>42, <1>43, <1>44, <1>45, <1>46,
     <1>47, <1>48, <1>49, <1>50 DEF Goes, Request, Handle

(***************************************************************************)
(* The invariant.                                                          *)
(***************************************************************************)
\* The close of the main thread leaves nothing of the program.
LEMMA ClosedMain ==
  ASSUME NEW p \in Programs, AloneAt(p), CloseMain(p)
  PROVE  /\ process'[p] = "destroyed" /\ pc'[p] = "done" /\ ULTS' = {}
         /\ \A h \in Threads : estado[h] = "exit" => estado'[h] = "exit"
<1>1. DataOK /\ pc \in [Programs -> Labels] /\ \A h \in Threads : procesoId(h) = p
  BY OnlyOne DEF AloneAt, TypeInv, ControlOK
<1>2. process'[p] = "destroyed" /\ pc'[p] = "done"
  BY <1>1 DEF CloseMain, GoTo, DataOK
<1>3. ULTS' = {}
  BY <1>1 DEF CloseMain, DataOK
<1>4. \A h \in Threads : estado[h] = "exit" => estado'[h] = "exit"
  BY <1>1 DEF CloseMain, AloneAt, Threaded, Live
<1> QED
  BY <1>2, <1>3, <1>4

\* The handler of a program that is gone has ended.
LEMMA GoneIsDone ==
  ASSUME NEW p \in Programs, process[p] = "destroyed", pc[p] = "done"
  PROVE  ~(Request(p) \/ Handle(p) \/ Crash(p))
  BY DEF Request, Handle, Crash, BadPointer, At, Closable, Unjoin, LeaveMultiprog,
     Transitions, CreateMain, CreateUlt, ScheduleNext, CloseMain, Disconnect, Join,
     JoinReturns, ReceiveClose, CloseUnknown, ReceiveWait, ReceiveSignal,
     NotAdmitted, AdmitUlt, AdmitMain, NuevoAListoCreate, nuevo_a_ejecucion,
     ejecucion_a_bloqueado, decrementar_semaforo, BlockOnSemaphore,
     ejecucion_a_bloqueado_por_semaforo, SignalAtMax, SignalNoWaiter,
     desbloquear_hilos_semaforo, BloqueadoAListoSignal, JoinerStillWaits,
     JoinerReady, JoinerNew, BloqueadoAListoJoin, joiner_a_nuevo, AllUnjoined,
     close_switch, CloseNew, nuevo_a_exit, CloseBlocked, CloseBlockedMultiprog,
     bloqueado_a_exit, CloseReady, listo_a_exit, ListoAExitWait, CloseExecute,
     obtener_ULT_ready_FIFO, NobodyToAdmit, NuevoAListoFIFO, MetricasSemaforos,
     MetricasMultiprog, SemWait, PickReady, PickNone, listo_a_ejecucion

\* Nothing is anywhere at the beginning.
LEMMA AloneInit ==
  ASSUME Alone, Init
  PROVE  AloneInv
<1> SUFFICES ASSUME NEW p \in Programs
             PROVE  /\ process[p] # "destroyed"
                    /\ Threaded(p) /\ Current(p) /\ Runs(p)
                    /\ Readied(p) /\ Queued(p) /\ Listed(p) /\ Waiting(p) /\ Counted(p)
  BY DEF AloneInv
<1>0. NULL \notin Threads /\ \A h \in Threads : procesoId(h) = p
  BY OnlyOne
<1>1. process[p] # "destroyed" /\ Threaded(p) /\ Current(p) /\ Runs(p) /\ Listed(p)
  BY <1>0 DEF Init, Threaded, Live, Current, Unreached, InFlightAt, WakesAt, BlocksAt,
     Runs, ClosesAt, MainWaits, Listed
<1>2. Readied(p) /\ Queued(p)
  BY DEF Init, Readied, InFlightAt, Queued, IsInjective, Range
<1>3. Waiting(p)
  BY DEF Init, Waiting, InSemaphores, InJoins, Pending, Woken
<1>4. Counted(p)
  <2>1. READY_LIST \in [Threads -> Nat] /\ \A h \in Threads : READY_LIST[h] = 0
    BY DEF Init
  <2>2. Of(p) = Threads /\ IsFiniteSet(Threads)
    BY <1>0, SuseAssumption, FS_Product DEF Of, Threads
  <2>3. ReadyCount(p) = Cardinality(Numbered(Threads, READY_LIST))
    BY <2>2 DEF ReadyCount, Entries, Numbered
  <2>4. ReadyCount(p) = 0
    BY <2>1, <2>2, <2>3, NumberedFinite
  <2>5. {q \in Programs : /\ pc[q] \in {"nuevo_a_listo_create", "nuevo_a_listo_FIFO"}
                          /\ procesoId(hilo(q)) = p} = {}
    BY DEF Init
  <2>6. InTransit(p) = 0
    BY <2>5, FS_EmptySet DEF InTransit, Init
  <2> QED
    BY <2>4, <2>6 DEF Counted, Init
<1> QED
  BY <1>1, <1>2, <1>3, <1>4

\* Every step keeps the invariant, and exit is final.
LEMMA AloneNext ==
  ASSUME Alone, TypeInv, TypeInv', AloneInv, Next
  PROVE  AloneInv' /\ \A h \in Threads : estado[h] = "exit" => estado'[h] = "exit"
<1>1. PICK p \in Programs : Request(p) \/ Handle(p) \/ Crash(p)
  BY DEF Next
<1>2. /\ process[p] # "destroyed" /\ AloneAt(p)
      /\ Readied(p) /\ Queued(p) /\ Listed(p) /\ Waiting(p) /\ Counted(p)
  BY <1>1, GoneIsDone DEF AloneInv, AloneAt
<1>3. \A q \in Programs : q = p
  BY DEF Alone
<1>4. CASE CloseMain(p)
  <2>1. /\ process'[p] = "destroyed" /\ pc'[p] = "done" /\ ULTS' = {}
        /\ \A h \in Threads : estado[h] = "exit" => estado'[h] = "exit"
    BY <1>2, <1>4, ClosedMain
  <2> QED
    BY <1>3, <2>1 DEF AloneInv
<1>5. CASE ~CloseMain(p)
  <2>1. Goes(p)
    BY <1>1, <1>5 DEF Goes
  <2>2. process'[p] # "destroyed" /\ Threaded(p)' /\ Current(p)' /\ Runs(p)'
    BY <1>2, <2>1, ThreadStep
  <2>3. Readied(p)'
    BY <1>2, <2>1, ReadiedStep
  <2>4. Queued(p)'
    BY <1>2, <2>1, QueuedStep
  <2>5. Listed(p)' /\ \A h \in Threads : estado[h] = "exit" => estado'[h] = "exit"
    BY <1>2, <2>1, ListedStep
  <2>6. Waiting(p)'
    BY <1>2, <2>1, WaitStep
  <2>7. Counted(p)'
    BY <1>2, <2>1, <2>2, CountedStep
  <2> QED
    BY <1>3, <2>2, <2>3, <2>4, <2>5, <2>6, <2>7 DEF AloneInv
<1> QED
  BY <1>4, <1>5

\* A step that changes nothing keeps it too.
LEMMA AloneStutter ==
  ASSUME AloneInv, UNCHANGED vars
  PROVE  AloneInv'
<1>1. UNCHANGED <<process, ULTS, estado, EXEC_THREAD, READY_LIST, semaforoReady, new_queue,
                  blocked_queue, joinTo, joinedBy, BLOCKED_LIST, ACTUAL_MULTIPROG, pc, in,
                  running>>
  BY DEF vars, threads, queues, joins, sems
<1>2. \A p \in Programs : Threaded(p)' = Threaded(p)
  BY <1>1 DEF Threaded
<1>3. \A p \in Programs : Current(p)' = Current(p) /\ Runs(p)' = Runs(p)
  BY <1>1 DEF Current, Runs, MainWaits, hilo, cola
<1>4. \A p \in Programs : /\ Readied(p)' = Readied(p) /\ Queued(p)' = Queued(p)
                          /\ Listed(p)' = Listed(p)
  BY <1>1 DEF Readied, Queued, Listed, hilo
<1>5. \A p \in Programs : Waiting(p)' = Waiting(p)
  <2>1. InSemaphores' = InSemaphores
    BY <1>1 DEF InSemaphores
  <2>2. \A p \in Programs : \A g : Pending(p, g)' = Pending(p, g)
    BY <1>1 DEF Pending, Undone
  <2>3. \A p \in Programs : InJoins(p)' = InJoins(p)
    BY <1>1, <2>2 DEF InJoins
  <2>4. \A p \in Programs : Woken(p)' = Woken(p)
    BY <1>1 DEF Woken, hilo
  <2> QED
    BY <2>1, <2>3, <2>4 DEF Waiting
<1>6. \A p \in Programs : Counted(p)' = Counted(p)
  <2>1. \A p \in Programs : ReadyCount(p)' = ReadyCount(p)
    BY <1>1 DEF ReadyCount, Entries
  <2>2. \A p \in Programs : InTransit(p)' = InTransit(p)
    BY <1>1 DEF InTransit, hilo
  <2> QED
    BY <1>1, <2>1, <2>2 DEF Counted
<1> QED
  BY <1>1, <1>2, <1>3, <1>4, <1>5, <1>6 DEF AloneInv

(***************************************************************************)
(* What the invariant says of the properties.                              *)
(***************************************************************************)
\* While schedule_next picks, READY_LIST has the thread it has waited for.
LEMMA AloneNextNeverEmpty ==
  ASSUME Alone, TypeInv, AloneInv
  PROVE  NextNeverEmpty
<1> SUFFICES ASSUME NEW p \in Programs, pc[p] = "pick"
             PROVE  ReadyCount(p) > 0
  BY DEF NextNeverEmpty
<1>1. Counted(p) /\ Current(p) /\ semaforoReady[p] \in Nat
  BY DEF AloneInv, TypeInv, DataOK
<1>2. {q \in Programs : /\ pc[q] \in {"nuevo_a_listo_create", "nuevo_a_listo_FIFO"}
                        /\ procesoId(hilo(q)) = p} = {}
  BY DEF Alone
<1>3. InTransit(p) = 1
  BY <1>2, FS_EmptySet DEF InTransit
<1> QED
  BY <1>1, <1>3 DEF Counted

\* An injective queue has each of its threads once.
LEMMA OnceInQueue ==
  ASSUME NEW h, new_queue \in Seq(Threads), IsInjective(new_queue)
  PROVE  Occurrences(h) = IF h \in Range(new_queue) THEN 1 ELSE 0
<1> DEFINE K == {k \in DOMAIN new_queue : new_queue[k] = h}
<1>1. CASE h \in Range(new_queue)
  <2>1. PICK k \in DOMAIN new_queue : new_queue[k] = h
    BY <1>1 DEF Range
  <2>2. K = {k}
    BY <2>1 DEF IsInjective
  <2> QED
    BY <1>1, <2>2, FS_Singleton DEF Occurrences
<1>2. CASE h \notin Range(new_queue)
  <2>1. K = {}
    BY <1>2 DEF Range
  <2> QED
    BY <1>2, <2>1, FS_EmptySet DEF Occurrences
<1> QED
  BY <1>1, <1>2

\* A thread that no handler is moving is in its queue.
LEMMA AloneOneQueue ==
  ASSUME Alone, TypeInv, AloneInv
  PROVE  OneQueue
<1> SUFFICES ASSUME NEW h \in ULTS, ~Moving(h)
             PROVE  /\ READY_LIST[h] = IF estado[h] = "ready" THEN 1 ELSE 0
                    /\ Occurrences(h) = IF estado[h] = "new" THEN 1 ELSE 0
                    /\ estado[h] = "blocked" => blocked_queue[h] > 0
                    /\ (EXEC_THREAD[procesoId(h)] = h) <=> estado[h] = "execute"
  BY DEF OneQueue
<1>1. h \in Threads /\ DataOK
  BY DEF TypeInv, DataOK
<1>2. PICK p \in Programs : procesoId(h) = p
  BY <1>1 DEF Threads, procesoId
<1>3. /\ Threaded(p) /\ Readied(p) /\ Queued(p) /\ Listed(p)
  BY DEF AloneInv
<1>4. /\ ~(pc[p] \in InFlightAt /\ hilo(p) = h)
      /\ ~(pc[p] = "joiner_a_nuevo" /\ hilo(p) = h)
      /\ ~(pc[p] \in BlocksAt /\ in[p].ult = h)
  BY DEF Moving, InFlightAt, BlocksAt, hilo
<1>5. Occurrences(h) = IF h \in Range(new_queue) THEN 1 ELSE 0
  BY <1>1, <1>3, OnceInQueue DEF Queued, DataOK, ThreadLists
<1> QED
  BY <1>1, <1>2, <1>3, <1>4, <1>5 DEF Threaded, Readied, Queued, Listed

(***************************************************************************)
(* Theorems.                                                               *)
(***************************************************************************)
\* AloneInv is an invariant of the system with one program.
THEOREM AloneInvariance == Alone => (Spec => []AloneInv)
<1> SUFFICES ASSUME Alone
             PROVE  Spec => []AloneInv
  OBVIOUS
<1>1. Init => AloneInv
  BY AloneInit
<1>2. SuseInv /\ SuseInv' /\ AloneInv /\ [Next]_vars => AloneInv'
  BY AloneNext, AloneStutter DEF SuseInv
<1> QED
  BY <1>1, <1>2, Invariance, PTL DEF Spec

\* With one program, schedule_next is never let in by semaforoReady to find
\* READY_LIST empty (suse.c:879).
THEOREM NextFindsReady == Alone => (Spec => []NextNeverEmpty)
<1> SUFFICES ASSUME Alone
             PROVE  Spec => []NextNeverEmpty
  OBVIOUS
<1>1. SuseInv /\ AloneInv => NextNeverEmpty
  BY AloneNextNeverEmpty DEF SuseInv
<1>2. Spec => []AloneInv
  BY AloneInvariance
<1> QED
  BY <1>1, <1>2, Invariance, PTL

\* With one program, semaforoReady counts READY_LIST exactly: every list_add has
\* its sem_post and every thread taken out its sem_wait.
THEOREM TokensCounted == Alone => (Spec => []ReadyTokens)
<1> SUFFICES ASSUME Alone
             PROVE  Spec => []ReadyTokens
  OBVIOUS
<1>1. AloneInv => ReadyTokens
  BY DEF AloneInv, ReadyTokens, Counted
<1>2. Spec => []AloneInv
  BY AloneInvariance
<1> QED
  BY <1>1, <1>2, PTL

\* With one program, a thread that no handler is moving is in the queue its estado
\* names, once, and in no other.
THEOREM InOneQueue == Alone => (Spec => []OneQueue)
<1> SUFFICES ASSUME Alone
             PROVE  Spec => []OneQueue
  OBVIOUS
<1>1. SuseInv /\ AloneInv => OneQueue
  BY AloneOneQueue DEF SuseInv
<1>2. Spec => []AloneInv
  BY AloneInvariance
<1> QED
  BY <1>1, <1>2, Invariance, PTL

\* With one program, no transition brings a thread back that has been closed.
THEOREM ClosedStaysClosed == Alone => (Spec => ExitIsFinal)
<1> SUFFICES ASSUME Alone
             PROVE  Spec => ExitIsFinal
  OBVIOUS
<1>1. SuseInv /\ SuseInv' /\ AloneInv /\ [Next]_vars
      => [\A h \in Threads : estado[h] = "exit" => estado'[h] = "exit"]_vars
  BY AloneNext DEF SuseInv
<1>2. Spec => []AloneInv
  BY AloneInvariance
<1> QED
  BY <1>1, <1>2, Invariance, PTL DEF Spec, ExitIsFinal
=============================================================================
