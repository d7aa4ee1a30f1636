-------------------------------- MODULE Suse --------------------------------
(***************************************************************************)
(* The SUSE scheduler of user-level threads (planificador/suse.c).         *)
(*                                                                         *)
(* One handler thread of the server serves one connected program.  The     *)
(* module follows each handler from a request to its reply, one action per *)
(* stretch of code between two points where another handler can get in: a  *)
(* mutex it has to take, a semaphore it has to wait on, or an access to a  *)
(* list that no mutex protects.  pc[p] names the function the handler of   *)
(* program p is about to continue in, in[p] holds its local variables.     *)
(*                                                                         *)
(* Abstracted: clocks and burst estimates (the SJF sort is "some READY     *)
(* thread comes first"), sockets, logs.  One operation of a commons list   *)
(* is atomic.  mutex_process_list and mutex_exit_queue are leaf locks held *)
(* for one list operation and are part of that operation.                  *)
(***************************************************************************)
EXTENDS Integers, SequencesExt

CONSTANTS
  Programs,       \* the connected programs; PROCESS_ID is the socket
  Tids,           \* the thread ids a program uses; 0 is its main thread
  Semaphores,     \* SEM_IDS of the configuration
  SEM_INIT,       \* initial value of each semaphore
  SEM_MAX,        \* maximal value of each semaphore
  MAX_MULTIPROG,  \* admitted degree of multiprogramming
  CloseOthers,    \* TRUE: a program also closes threads that are not running
  NULL            \* the null pointer, also "no program" and "no semaphore"

Threads == Programs \X Tids

ASSUME SuseAssumption ==
  /\ IsFiniteSet(Programs)
  /\ Tids \subseteq Nat /\ IsFiniteSet(Tids) /\ 0 \in Tids
  /\ SEM_INIT \in [Semaphores -> Nat]
  /\ SEM_MAX \in [Semaphores -> Nat]
  /\ \A s \in Semaphores : SEM_INIT[s] <= SEM_MAX[s]
  /\ MAX_MULTIPROG \in Nat
  /\ CloseOthers \in BOOLEAN
  /\ NULL \notin Programs \cup Semaphores \cup Threads

procesoId(h) == h[1]
tid(h) == h[2]

\* The values of t_suse_thread.estado, before malloc ("none") and after free.
Estados == {"none", "new", "ready", "execute", "blocked", "exit", "freed"}

Mutexes == {"new_queue", "blocked_queue", "multiprog", "semaforos"}

\* Where a handler can be: the function it is in, before its next step.
Labels ==
  {"idle", "done", "create", "nuevo_a_ejecucion", "nuevo_a_listo_create",
   "ejecucion_a_bloqueado",
   "decrementar_semaforo", "ejecucion_a_bloqueado_por_semaforo",
   "incrementar_semaforo", "bloqueado_a_listo_signal",
   "desjoinear", "bloqueado_a_listo_join", "joiner_a_nuevo",
   "close_switch", "close_new", "nuevo_a_exit",
   "close_blocked", "close_blocked_multiprog", "bloqueado_a_exit",
   "close_ready", "listo_a_exit", "listo_a_exit_wait", "close_execute",
   "obtener_ULT_ready_FIFO", "nuevo_a_listo_FIFO",
   "metricas_semaforos", "metricas_multiprog",
   "sem_wait", "pick", "listo_a_ejecucion"}

\* The functions that are about to call eliminar_ULT_cola_actual.
Transitions ==
  {"nuevo_a_ejecucion", "nuevo_a_listo_create", "nuevo_a_listo_FIFO",
   "bloqueado_a_listo_signal", "bloqueado_a_listo_join", "nuevo_a_exit",
   "bloqueado_a_exit", "listo_a_exit", "listo_a_ejecucion"}

VARIABLES
  process,           \* is p's t_process in configuracion_suse.process?
  ULTS,              \* the union of the ULTS lists of all processes
  estado,            \* t_suse_thread.estado
  EXEC_THREAD,       \* t_process.EXEC_THREAD
  READY_LIST,        \* READY_LIST of every process, as a bag of its threads
  semaforoReady,     \* the sem_t that counts a READY_LIST
  new_queue,         \* the global FIFO of threads not admitted yet
  blocked_queue,     \* the global list of blocked threads, as a bag
  joinTo, joinedBy,  \* the two join lists of a thread
  VALUE,             \* t_suse_semaforos.VALUE
  BLOCKED_LIST,      \* t_suse_semaforos.BLOCKED_LIST
  ACTUAL_MULTIPROG,  \* current degree of multiprogramming
  owner,             \* the handler that holds each mutex
  pc,                \* control point of each handler
  in,                \* locals: ult, hilo, cola, sem, i
  running,           \* the ULT whose code the client runs (hilolay)
  crashed            \* a null or freed pointer has been dereferenced

queues  == <<READY_LIST, semaforoReady, new_queue, blocked_queue>>
joins   == <<joinTo, joinedBy>>
sems    == <<VALUE, BLOCKED_LIST>>
threads == <<process, ULTS, estado, EXEC_THREAD>>
vars    == <<threads, queues, joins, sems, ACTUAL_MULTIPROG, owner, pc, in,
             running, crashed>>

(***************************************************************************)
(* Mutexes and control.                                                    *)
(***************************************************************************)
Free(m) == owner[m] = NULL

Lock(p, m) == owner' = [owner EXCEPT ![m] = p]

\* The handler unlocks every mutex it holds.
UnlockAll(p) ==
  owner' = [m \in Mutexes |-> IF owner[m] = p THEN NULL ELSE owner[m]]

At(p, l) == ~crashed /\ pc[p] = l

GoTo(p, l) == pc' = [pc EXCEPT ![p] = l]

NoLocals == [ult |-> NULL, hilo |-> NULL, cola |-> "none", sem |-> NULL, i |-> 0]

\* End of a request: the reply is sent, the handler waits for the next one.
Reply(p) ==
  /\ GoTo(p, "idle")
  /\ in' = [in EXCEPT ![p] = NoLocals]

\* h is about to be taken out of the queue its estado names (the switch of
\* eliminar_ULT_cola_actual).
MoveNext(p, h, l) ==
  /\ GoTo(p, l)
  /\ in' = [in EXCEPT ![p].hilo = h, ![p].cola = estado[h]]

(***************************************************************************)
(* Bags of threads, and the removal half of every transition.              *)
(***************************************************************************)
Plus(bag, h) == [bag EXCEPT ![h] = @ + 1]

\* list_remove_by_condition: one occurrence, nothing if there is none.
Minus(bag, h) == [bag EXCEPT ![h] = IF @ > 0 THEN @ - 1 ELSE 0]

hilo(p) == in[p].hilo
cola(p) == in[p].cola

SinListo(p) == IF cola(p) = "ready" THEN Minus(READY_LIST, hilo(p)) ELSE READY_LIST

SinExec(p) ==
  IF cola(p) = "execute" THEN [EXEC_THREAD EXCEPT ![procesoId(hilo(p))] = NULL]
  ELSE EXEC_THREAD

\* remover_ULT_nuevo and remover_ULT_bloqueado, each under the queue's mutex.
eliminar_ULT_cola_actual(p) ==
  /\ cola(p) = "new" => Free("new_queue")
  /\ cola(p) = "blocked" => Free("blocked_queue")
  /\ new_queue' = IF cola(p) = "new" THEN RemoveFirst(new_queue, hilo(p)) ELSE new_queue
  /\ blocked_queue' = IF cola(p) = "blocked" THEN Minus(blocked_queue, hilo(p))
                      ELSE blocked_queue

\* Mutant: the place of the thread that is being let in is not counted.
OnePlaceTooMany == MAX_MULTIPROG >= ACTUAL_MULTIPROG

validar_grado_multiprogramacion == MAX_MULTIPROG >= ACTUAL_MULTIPROG + 1

\* A pointer to h can still be followed to its process.
Usable(h) == estado[h] # "freed" /\ process[procesoId(h)] = "alive"

(***************************************************************************)
(* suse_create: handle_suse_create, ULT_create, handle_main_thread_create, *)
(* handle_ULT_create.                                                      *)
(***************************************************************************)
ULT_create(p, h) ==
  /\ ULTS' = ULTS \cup {h}
  /\ estado' = [estado EXCEPT ![h] = "new"]
  /\ new_queue' = Append(new_queue, h)        \* mutex_new_queue is not taken
  /\ in' = [in EXCEPT ![p].ult = h]
  /\ GoTo(p, "create")
  /\ UNCHANGED <<EXEC_THREAD, READY_LIST, semaforoReady, blocked_queue, joins,
                 sems, ACTUAL_MULTIPROG, owner, crashed>>

\* The first suse_create of a program creates its process and main thread.
CreateMain(p) ==
  /\ At(p, "idle")
  /\ process[p] = "none"
  /\ process' = [process EXCEPT ![p] = "alive"]
  /\ running' = [running EXCEPT ![p] = <<p, 0>>]
  /\ ULT_create(p, <<p, 0>>)

CreateUlt(p, t) ==
  /\ At(p, "idle")
  /\ process[p] = "alive"
  /\ running[p] # NULL
  /\ estado[<<p, t>>] = "none"
  /\ ULT_create(p, <<p, t>>)
  /\ UNCHANGED <<process, running>>

\* Locks mutex_multiprog; with no place left the thread stays in new_queue.
NotAdmitted(p) ==
  /\ At(p, "create")
  /\ Free("multiprog")
  /\ ~validar_grado_multiprogramacion
  /\ Reply(p)
  /\ UNCHANGED <<threads, queues, joins, sems, ACTUAL_MULTIPROG, owner,
                 running, crashed>>

\* The list_add of nuevo_a_listo, made before the thread leaves new_queue.
nuevo_a_listo_add(p, h, l) ==
  /\ READY_LIST' = Plus(READY_LIST, h)
  /\ MoveNext(p, h, l)
  /\ UNCHANGED <<threads, semaforoReady, new_queue, blocked_queue, joins, sems,
                 ACTUAL_MULTIPROG, running, crashed>>

AdmitUlt(p) ==
  /\ At(p, "create")
  /\ tid(in[p].ult) # 0
  /\ Free("multiprog")
  /\ validar_grado_multiprogramacion
  /\ Lock(p, "multiprog")
  /\ nuevo_a_listo_add(p, in[p].ult, "nuevo_a_listo_create")

AdmitMain(p) ==
  /\ At(p, "create")
  /\ tid(in[p].ult) = 0
  /\ Free("multiprog")
  /\ validar_grado_multiprogramacion
  /\ Lock(p, "multiprog")
  /\ MoveNext(p, in[p].ult, "nuevo_a_ejecucion")
  /\ UNCHANGED <<threads, queues, joins, sems, ACTUAL_MULTIPROG, running, crashed>>

\* The rest of nuevo_a_listo; the caller then unlocks.
nuevo_a_listo(p) ==
  /\ Usable(hilo(p))
  /\ eliminar_ULT_cola_actual(p)
  /\ READY_LIST' = SinListo(p)
  /\ EXEC_THREAD' = SinExec(p)
  /\ estado' = [estado EXCEPT ![hilo(p)] = "ready"]
  /\ ACTUAL_MULTIPROG' = ACTUAL_MULTIPROG + 1
  /\ semaforoReady' = [semaforoReady EXCEPT ![procesoId(hilo(p))] = @ + 1]
  /\ UnlockAll(p)
  /\ UNCHANGED <<process, ULTS, joins, sems, running, crashed>>

NuevoAListoCreate(p) ==
  /\ At(p, "nuevo_a_listo_create")
  /\ nuevo_a_listo(p)
  /\ Reply(p)

\* Mutant: the main thread is set executing and never taken out of new_queue.
StaysInNewQueue(p) ==
  /\ At(p, "nuevo_a_ejecucion")
  /\ EXEC_THREAD' = [EXEC_THREAD EXCEPT ![p] = hilo(p)]
  /\ estado' = [estado EXCEPT ![hilo(p)] = "execute"]
  /\ ACTUAL_MULTIPROG' = ACTUAL_MULTIPROG + 1
  /\ UnlockAll(p)
  /\ Reply(p)
  /\ UNCHANGED <<process, ULTS, queues, joins, sems, running, crashed>>

nuevo_a_ejecucion(p) ==
  /\ At(p, "nuevo_a_ejecucion")
  /\ eliminar_ULT_cola_actual(p)
  /\ READY_LIST' = SinListo(p)
  /\ EXEC_THREAD' = [EXEC_THREAD EXCEPT ![p] = hilo(p)]
  /\ estado' = [estado EXCEPT ![hilo(p)] = "execute"]
  /\ ACTUAL_MULTIPROG' = ACTUAL_MULTIPROG + 1
  /\ UnlockAll(p)
  /\ Reply(p)
  /\ UNCHANGED <<process, ULTS, semaforoReady, joins, sems, running, crashed>>

(***************************************************************************)
(* suse_join: join, ejecucion_a_bloqueado.                                 *)
(***************************************************************************)
\* The joined thread is closed or was never created, or nothing executes:
\* join returns 0 and changes nothing.
JoinReturns(p, t) ==
  /\ At(p, "idle")
  /\ process[p] = "alive"
  /\ running[p] \notin {NULL, <<p, t>>}
  /\ EXEC_THREAD[p] = NULL \/ <<p, t>> \notin ULTS
  /\ running' = [running EXCEPT ![p] = NULL]
  /\ UNCHANGED <<threads, queues, joins, sems, ACTUAL_MULTIPROG, owner, pc, in,
                 crashed>>

Join(p, t) ==
  /\ At(p, "idle")
  /\ process[p] = "alive"
  /\ running[p] \notin {NULL, <<p, t>>}
  /\ EXEC_THREAD[p] # NULL
  /\ <<p, t>> \in ULTS
  /\ LET joiner == EXEC_THREAD[p]
     IN /\ joinTo' = [joinTo EXCEPT ![joiner] = Append(@, <<p, t>>)]
        /\ joinedBy' = [joinedBy EXCEPT ![<<p, t>>] = Append(@, joiner)]
        /\ estado' = [estado EXCEPT ![joiner] = "blocked"]
        /\ in' = [in EXCEPT ![p].ult = joiner]
  /\ EXEC_THREAD' = [EXEC_THREAD EXCEPT ![p] = NULL]
  /\ running' = [running EXCEPT ![p] = NULL]
  /\ GoTo(p, "ejecucion_a_bloqueado")
  /\ UNCHANGED <<process, ULTS, queues, sems, ACTUAL_MULTIPROG, owner, crashed>>

ejecucion_a_bloqueado(p) ==
  /\ At(p, "ejecucion_a_bloqueado")
  /\ Free("blocked_queue")
  /\ blocked_queue' = Plus(blocked_queue, in[p].ult)
  /\ Reply(p)
  /\ UNCHANGED <<threads, READY_LIST, semaforoReady, new_queue, joins, sems,
                 ACTUAL_MULTIPROG, owner, running, crashed>>

(***************************************************************************)
(* wait and signal on a configured semaphore.  The client sends the tid it *)
(* runs; it cannot tell from the reply whether the wait blocked, so the    *)
(* next thing it does is schedule_next.                                    *)
(***************************************************************************)
ReceiveWait(p, s) ==
  /\ At(p, "idle")
  /\ process[p] = "alive"
  /\ running[p] # NULL
  /\ in' = [in EXCEPT ![p].ult = running[p], ![p].sem = s]
  /\ running' = [running EXCEPT ![p] = NULL]
  /\ GoTo(p, "decrementar_semaforo")
  /\ UNCHANGED <<threads, queues, joins, sems, ACTUAL_MULTIPROG, owner, crashed>>

\* Mutant: a wait at zero goes through.
WaitAtZero(p) ==
  /\ At(p, "decrementar_semaforo")
  /\ Free("semaforos")
  /\ VALUE[in[p].sem] >= 0
  /\ VALUE' = [VALUE EXCEPT ![in[p].sem] = @ - 1]
  /\ Reply(p)
  /\ UNCHANGED <<threads, queues, joins, BLOCKED_LIST, ACTUAL_MULTIPROG, owner,
                 running, crashed>>

decrementar_semaforo(p) ==
  /\ At(p, "decrementar_semaforo")
  /\ Free("semaforos")
  /\ VALUE[in[p].sem] > 0
  /\ VALUE' = [VALUE EXCEPT ![in[p].sem] = @ - 1]
  /\ Reply(p)
  /\ UNCHANGED <<threads, queues, joins, BLOCKED_LIST, ACTUAL_MULTIPROG, owner,
                 running, crashed>>

\* ejecucion_a_bloqueado_por_semaforo down to the lock of blocked_queue.  It
\* looks the thread up in ULTS, so a closed thread is a null pointer.
BlockOnSemaphore(p) ==
  /\ At(p, "decrementar_semaforo")
  /\ Free("semaforos")
  /\ VALUE[in[p].sem] <= 0
  /\ in[p].ult \in ULTS
  /\ Lock(p, "semaforos")
  /\ EXEC_THREAD' = [EXEC_THREAD EXCEPT ![p] = NULL]
  /\ estado' = [estado EXCEPT ![in[p].ult] = "blocked"]
  /\ BLOCKED_LIST' = [BLOCKED_LIST EXCEPT ![in[p].sem] = Append(@, in[p].ult)]
  /\ GoTo(p, "ejecucion_a_bloqueado_por_semaforo")
  /\ UNCHANGED <<process, ULTS, queues, joins, VALUE, ACTUAL_MULTIPROG, in,
                 running, crashed>>

\* Mutant: the path that blocks returns without unlocking mutex_semaforos.
BlocksLocked(p) ==
  /\ At(p, "ejecucion_a_bloqueado_por_semaforo")
  /\ Free("blocked_queue")
  /\ blocked_queue' = Plus(blocked_queue, in[p].ult)
  /\ VALUE' = [VALUE EXCEPT ![in[p].sem] = @ - 1]
  /\ Reply(p)
  /\ UNCHANGED <<threads, READY_LIST, semaforoReady, new_queue, joins,
                 BLOCKED_LIST, ACTUAL_MULTIPROG, owner, running, crashed>>

\* Its last list_add, then the VALUE-- of decrementar_semaforo.
ejecucion_a_bloqueado_por_semaforo(p) ==
  /\ At(p, "ejecucion_a_bloqueado_por_semaforo")
  /\ Free("blocked_queue")
  /\ blocked_queue' = Plus(blocked_queue, in[p].ult)
  /\ VALUE' = [VALUE EXCEPT ![in[p].sem] = @ - 1]
  /\ UnlockAll(p)
  /\ Reply(p)
  /\ UNCHANGED <<threads, READY_LIST, semaforoReady, new_queue, joins,
                 BLOCKED_LIST, ACTUAL_MULTIPROG, running, crashed>>

ReceiveSignal(p, s) ==
  /\ At(p, "idle")
  /\ process[p] = "alive"
  /\ running[p] # NULL
  /\ in' = [in EXCEPT ![p].sem = s]
  /\ GoTo(p, "incrementar_semaforo")
  /\ UNCHANGED <<threads, queues, joins, sems, ACTUAL_MULTIPROG, owner, running,
                 crashed>>

\* incrementar_semaforo when VALUE is MAX: -1, and nobody is woken.
SignalAtMax(p) ==
  /\ At(p, "incrementar_semaforo")
  /\ Free("semaforos")
  /\ VALUE[in[p].sem] = SEM_MAX[in[p].sem]
  /\ Reply(p)
  /\ UNCHANGED <<threads, queues, joins, sems, ACTUAL_MULTIPROG, owner, running,
                 crashed>>

SignalNoWaiter(p) ==
  /\ At(p, "incrementar_semaforo")
  /\ Free("semaforos")
  /\ VALUE[in[p].sem] # SEM_MAX[in[p].sem]
  /\ BLOCKED_LIST[in[p].sem] = <<>>
  /\ VALUE' = [VALUE EXCEPT ![in[p].sem] = @ + 1]
  /\ Reply(p)
  /\ UNCHANGED <<threads, queues, joins, BLOCKED_LIST, ACTUAL_MULTIPROG, owner,
                 running, crashed>>

\* incrementar_semaforo, then desbloquear_hilos_semaforo as far as the call of
\* bloqueado_a_listo for the first thread waiting, of whatever program.
desbloquear_hilos_semaforo(p) ==
  /\ At(p, "incrementar_semaforo")
  /\ Free("semaforos")
  /\ VALUE[in[p].sem] # SEM_MAX[in[p].sem]
  /\ BLOCKED_LIST[in[p].sem] # <<>>
  /\ Usable(Head(BLOCKED_LIST[in[p].sem]))
  /\ VALUE' = [VALUE EXCEPT ![in[p].sem] = @ + 1]
  /\ Lock(p, "semaforos")
  /\ MoveNext(p, Head(BLOCKED_LIST[in[p].sem]), "bloqueado_a_listo_signal")
  /\ UNCHANGED <<threads, queues, joins, BLOCKED_LIST, ACTUAL_MULTIPROG,
                 running, crashed>>

\* Mutant: estado becomes READY before the thread leaves its queue, so it is
\* taken out of the READY_LIST it has just been added to.
ReadyTooEarly(p) ==
  /\ Usable(hilo(p))
  /\ estado' = [estado EXCEPT ![hilo(p)] = "ready"]
  /\ semaforoReady' = [semaforoReady EXCEPT ![procesoId(hilo(p))] = @ + 1]
  /\ UnlockAll(p)
  /\ UNCHANGED <<process, ULTS, EXEC_THREAD, READY_LIST, new_queue,
                 blocked_queue, joins, VALUE, ACTUAL_MULTIPROG, running, crashed>>

\* Mutant: the semaphore of the handler's own program is posted.
PostsCaller(p) ==
  /\ Usable(hilo(p))
  /\ eliminar_ULT_cola_actual(p)
  /\ READY_LIST' = Plus(SinListo(p), hilo(p))
  /\ EXEC_THREAD' = SinExec(p)
  /\ estado' = [estado EXCEPT ![hilo(p)] = "ready"]
  /\ semaforoReady' = [semaforoReady EXCEPT ![p] = @ + 1]
  /\ UnlockAll(p)
  /\ UNCHANGED <<process, ULTS, joins, VALUE, ACTUAL_MULTIPROG, running, crashed>>

bloqueado_a_listo(p) ==
  /\ Usable(hilo(p))
  /\ eliminar_ULT_cola_actual(p)
  /\ READY_LIST' = Plus(SinListo(p), hilo(p))
  /\ EXEC_THREAD' = SinExec(p)
  /\ estado' = [estado EXCEPT ![hilo(p)] = "ready"]
  /\ semaforoReady' = [semaforoReady EXCEPT ![procesoId(hilo(p))] = @ + 1]
  /\ UnlockAll(p)
  /\ UNCHANGED <<process, ULTS, joins, VALUE, ACTUAL_MULTIPROG, running, crashed>>

\* Mutant: the thread that is woken is left in BLOCKED_LIST.
StaysInBlockedList(p) ==
  /\ At(p, "bloqueado_a_listo_signal")
  /\ bloqueado_a_listo(p)
  /\ Reply(p)
  /\ UNCHANGED BLOCKED_LIST

\* Mutant: the last thread of BLOCKED_LIST is removed instead of the first.
RemovesLast(p) ==
  /\ At(p, "bloqueado_a_listo_signal")
  /\ bloqueado_a_listo(p)
  /\ BLOCKED_LIST' = [BLOCKED_LIST EXCEPT ![in[p].sem] = Front(@)]
  /\ Reply(p)

BloqueadoAListoSignal(p) ==
  /\ At(p, "bloqueado_a_listo_signal")
  /\ bloqueado_a_listo(p)
  /\ BLOCKED_LIST' = [BLOCKED_LIST EXCEPT ![in[p].sem] = Tail(@)]
  /\ Reply(p)

(***************************************************************************)
(* suse_close: close_tid, desjoinear, the four *_a_exit transitions.       *)
(***************************************************************************)
Closable(p, t) ==
  /\ At(p, "idle")
  /\ process[p] = "alive"
  /\ running[p] # NULL
  /\ estado[<<p, t>>] # "none"
  /\ CloseOthers \/ running[p] = <<p, t>>

\* The closed thread is looked up in ULTS.
ReceiveClose(p, t) ==
  /\ Closable(p, t)
  /\ t # 0
  /\ <<p, t>> \in ULTS
  /\ in' = [in EXCEPT ![p].ult = <<p, t>>, ![p].i = 1]
  /\ running' = [running EXCEPT ![p] = IF @ = <<p, t>> THEN NULL ELSE @]
  /\ GoTo(p, IF joinedBy[<<p, t>>] = <<>> THEN "close_switch" ELSE "desjoinear")
  /\ UNCHANGED <<threads, queues, joins, sems, ACTUAL_MULTIPROG, owner, crashed>>

\* The thread is in no ULTS list any more: close_tid follows a null pointer.
CloseUnknown(p, t) ==
  /\ Closable(p, t)
  /\ <<p, t>> \notin ULTS
  /\ crashed' = TRUE
  /\ UNCHANGED <<threads, queues, joins, sems, ACTUAL_MULTIPROG, owner, pc, in,
                 running>>

\* Closing the main thread frees the process and all its threads, wherever
\* they are queued, and closes the socket: the handler ends.
CloseMain(p) ==
  /\ Closable(p, 0)
  /\ <<p, 0>> \in ULTS
  /\ LET freed == {h \in ULTS : procesoId(h) = p}
     IN /\ ULTS' = ULTS \ freed
        /\ estado' = [h \in Threads |-> IF h \in freed THEN "freed" ELSE estado[h]]
  /\ process' = [process EXCEPT ![p] = "destroyed"]
  /\ READY_LIST' = [h \in Threads |-> IF procesoId(h) = p THEN 0 ELSE READY_LIST[h]]
  /\ EXEC_THREAD' = [EXEC_THREAD EXCEPT ![p] = NULL]
  /\ running' = [running EXCEPT ![p] = NULL]
  /\ GoTo(p, "done")
  /\ UNCHANGED <<semaforoReady, new_queue, blocked_queue, joins, sems,
                 ACTUAL_MULTIPROG, owner, in, crashed>>

\* The joiner that desjoinear is at, and what joinTo keeps for it.
joiner(p) == joinedBy[in[p].ult][in[p].i]
joinToLeft(p) == RemoveFirst(joinTo[joiner(p)], in[p].ult)

Unjoin(p) ==
  /\ At(p, "desjoinear")
  /\ in[p].i <= Len(joinedBy[in[p].ult])
  /\ joinTo' = [joinTo EXCEPT ![joiner(p)] = joinToLeft(p)]
  /\ UNCHANGED joinedBy

JoinerStillWaits(p) ==
  /\ Unjoin(p)
  /\ joinToLeft(p) # <<>>
  /\ in' = [in EXCEPT ![p].i = @ + 1]
  /\ UNCHANGED <<threads, queues, sems, ACTUAL_MULTIPROG, owner, pc, running,
                 crashed>>

JoinerReady(p) ==
  /\ Unjoin(p)
  /\ joinToLeft(p) = <<>>
  /\ Free("multiprog")
  /\ validar_grado_multiprogramacion
  /\ Lock(p, "multiprog")
  /\ MoveNext(p, joiner(p), "bloqueado_a_listo_join")
  /\ UNCHANGED <<threads, queues, sems, ACTUAL_MULTIPROG, running, crashed>>

\* No place: the joiner, still counted in ACTUAL_MULTIPROG and still in
\* blocked_queue, goes back to new_queue.
JoinerNew(p) ==
  /\ Unjoin(p)
  /\ joinToLeft(p) = <<>>
  /\ Free("multiprog")
  /\ ~validar_grado_multiprogramacion
  /\ Lock(p, "multiprog")
  /\ estado' = [estado EXCEPT ![joiner(p)] = "new"]
  /\ in' = [in EXCEPT ![p].hilo = joiner(p)]
  /\ GoTo(p, "joiner_a_nuevo")
  /\ UNCHANGED <<process, ULTS, EXEC_THREAD, queues, sems, ACTUAL_MULTIPROG,
                 running, crashed>>

NextJoiner(p) ==
  /\ GoTo(p, "desjoinear")
  /\ in' = [in EXCEPT ![p].i = @ + 1]

BloqueadoAListoJoin(p) ==
  /\ At(p, "bloqueado_a_listo_join")
  /\ bloqueado_a_listo(p)
  /\ NextJoiner(p)
  /\ UNCHANGED BLOCKED_LIST

joiner_a_nuevo(p) ==
  /\ At(p, "joiner_a_nuevo")
  /\ Free("new_queue")
  /\ new_queue' = Append(new_queue, hilo(p))
  /\ UnlockAll(p)
  /\ NextJoiner(p)
  /\ UNCHANGED <<threads, READY_LIST, semaforoReady, blocked_queue, joins, sems,
                 ACTUAL_MULTIPROG, running, crashed>>

AllUnjoined(p) ==
  /\ At(p, "desjoinear")
  /\ in[p].i > Len(joinedBy[in[p].ult])
  /\ GoTo(p, "close_switch")
  /\ UNCHANGED <<threads, queues, joins, sems, ACTUAL_MULTIPROG, owner, in,
                 running, crashed>>

\* switch (thread->estado); a thread in exit matches no case.
close_switch(p) ==
  /\ At(p, "close_switch")
  /\ GoTo(p, CASE estado[in[p].ult] = "new"     -> "close_new"
               [] estado[in[p].ult] = "blocked" -> "close_blocked"
               [] estado[in[p].ult] = "ready"   -> "close_ready"
               [] estado[in[p].ult] = "execute" -> "close_execute"
               [] OTHER                         -> "metricas_semaforos")
  /\ UNCHANGED <<threads, queues, joins, sems, ACTUAL_MULTIPROG, owner, in,
                 running, crashed>>

CloseNew(p) ==
  /\ At(p, "close_new")
  /\ Free("new_queue")
  /\ Lock(p, "new_queue")
  /\ MoveNext(p, in[p].ult, "nuevo_a_exit")
  /\ UNCHANGED <<threads, queues, joins, sems, ACTUAL_MULTIPROG, running, crashed>>

CloseBlocked(p) ==
  /\ At(p, "close_blocked")
  /\ Free("blocked_queue")
  /\ Lock(p, "blocked_queue")
  /\ GoTo(p, "close_blocked_multiprog")
  /\ UNCHANGED <<threads, queues, joins, sems, ACTUAL_MULTIPROG, in, running,
                 crashed>>

\* mutex_multiprog, ACTUAL_MULTIPROG--, and into the transition l.
LeaveMultiprog(p, l) ==
  /\ Free("multiprog")
  /\ Lock(p, "multiprog")
  /\ ACTUAL_MULTIPROG' = ACTUAL_MULTIPROG - 1
  /\ MoveNext(p, in[p].ult, l)
  /\ UNCHANGED <<threads, queues, joins, sems, running, crashed>>

CloseBlockedMultiprog(p) ==
  /\ At(p, "close_blocked_multiprog")
  /\ LeaveMultiprog(p, "bloqueado_a_exit")

CloseReady(p) ==
  /\ At(p, "close_ready")
  /\ LeaveMultiprog(p, "listo_a_exit")

\* What nuevo_a_exit, bloqueado_a_exit and listo_a_exit have in common.
a_exit(p) ==
  /\ eliminar_ULT_cola_actual(p)
  /\ READY_LIST' = SinListo(p)
  /\ EXEC_THREAD' = SinExec(p)
  /\ ULTS' = ULTS \ {hilo(p)}
  /\ estado' = [estado EXCEPT ![hilo(p)] = "exit"]
  /\ UNCHANGED <<process, semaforoReady, joins, sems, ACTUAL_MULTIPROG, in,
                 running, crashed>>

\* nuevo_a_exit locks mutex_new_queue again when it finds the thread in new.
nuevo_a_exit(p) ==
  /\ At(p, "nuevo_a_exit")
  /\ a_exit(p)
  /\ UnlockAll(p)
  /\ GoTo(p, "metricas_semaforos")

\* bloqueado_a_exit locks mutex_blocked_queue again likewise.
bloqueado_a_exit(p) ==
  /\ At(p, "bloqueado_a_exit")
  /\ a_exit(p)
  /\ GoTo(p, "obtener_ULT_ready_FIFO")
  /\ UNCHANGED owner

listo_a_exit(p) ==
  /\ At(p, "listo_a_exit")
  /\ a_exit(p)
  /\ GoTo(p, "listo_a_exit_wait")
  /\ UNCHANGED owner

\* The sem_wait at the end of listo_a_exit, under mutex_multiprog.
ListoAExitWait(p) ==
  /\ At(p, "listo_a_exit_wait")
  /\ semaforoReady[p] > 0
  /\ semaforoReady' = [semaforoReady EXCEPT ![p] = @ - 1]
  /\ GoTo(p, "obtener_ULT_ready_FIFO")
  /\ UNCHANGED <<threads, READY_LIST, new_queue, blocked_queue, joins, sems,
                 ACTUAL_MULTIPROG, owner, in, running, crashed>>

\* case E_EXECUTE: ejecucion_a_exit whole, under mutex_multiprog.
CloseExecute(p) ==
  /\ At(p, "close_execute")
  /\ Free("multiprog")
  /\ Lock(p, "multiprog")
  /\ EXEC_THREAD' = [EXEC_THREAD EXCEPT ![p] = NULL]
  /\ ULTS' = ULTS \ {in[p].ult}
  /\ estado' = [estado EXCEPT ![in[p].ult] = "exit"]
  /\ ACTUAL_MULTIPROG' = ACTUAL_MULTIPROG - 1
  /\ GoTo(p, "obtener_ULT_ready_FIFO")
  /\ UNCHANGED <<process, queues, joins, sems, in, running, crashed>>

\* The head of new_queue, read without its mutex, is admitted to READY.
obtener_ULT_ready_FIFO(p) ==
  /\ At(p, "obtener_ULT_ready_FIFO")
  /\ validar_grado_multiprogramacion
  /\ new_queue # <<>>
  /\ Usable(Head(new_queue))
  /\ nuevo_a_listo_add(p, Head(new_queue), "nuevo_a_listo_FIFO")
  /\ UNCHANGED owner

\* Mutant: the path that admits nobody returns without unlocking.
ReturnsLocked(p) ==
  /\ At(p, "obtener_ULT_ready_FIFO")
  /\ validar_grado_multiprogramacion => new_queue = <<>>
  /\ GoTo(p, "metricas_semaforos")
  /\ UNCHANGED <<threads, queues, joins, sems, ACTUAL_MULTIPROG, owner, in,
                 running, crashed>>

NobodyToAdmit(p) ==
  /\ At(p, "obtener_ULT_ready_FIFO")
  /\ validar_grado_multiprogramacion => new_queue = <<>>
  /\ UnlockAll(p)
  /\ GoTo(p, "metricas_semaforos")
  /\ UNCHANGED <<threads, queues, joins, sems, ACTUAL_MULTIPROG, in, running,
                 crashed>>

NuevoAListoFIFO(p) ==
  /\ At(p, "nuevo_a_listo_FIFO")
  /\ nuevo_a_listo(p)
  /\ GoTo(p, "metricas_semaforos")
  /\ UNCHANGED in

\* metricas_sistema takes the two mutexes one after the other and only reads.
MetricasSemaforos(p) ==
  /\ At(p, "metricas_semaforos")
  /\ Free("semaforos")
  /\ GoTo(p, "metricas_multiprog")
  /\ UNCHANGED <<threads, queues, joins, sems, ACTUAL_MULTIPROG, owner, in,
                 running, crashed>>

MetricasMultiprog(p) ==
  /\ At(p, "metricas_multiprog")
  /\ Free("multiprog")
  /\ Reply(p)
  /\ UNCHANGED <<threads, queues, joins, sems, ACTUAL_MULTIPROG, owner, running,
                 crashed>>

(***************************************************************************)
(* schedule_next: handle_next_tid, obtener_proximo_ejecutar.               *)
(***************************************************************************)
\* Mutant: ejecucion_a_listo does not post semaforoReady.
NoPost(p) ==
  /\ At(p, "idle")
  /\ process[p] = "alive"
  /\ IF EXEC_THREAD[p] # NULL
     THEN /\ READY_LIST' = Plus(READY_LIST, EXEC_THREAD[p])
          /\ estado' = [estado EXCEPT ![EXEC_THREAD[p]] = "ready"]
          /\ EXEC_THREAD' = [EXEC_THREAD EXCEPT ![p] = NULL]
     ELSE UNCHANGED <<READY_LIST, estado, EXEC_THREAD>>
  /\ running' = [running EXCEPT ![p] = NULL]
  /\ GoTo(p, "sem_wait")
  /\ UNCHANGED <<process, ULTS, semaforoReady, new_queue, blocked_queue, joins,
                 sems, ACTUAL_MULTIPROG, owner, in, crashed>>

\* The thread in execution, if any, goes to the end of READY_LIST.
ScheduleNext(p) ==
  /\ At(p, "idle")
  /\ process[p] = "alive"
  /\ IF EXEC_THREAD[p] # NULL
     THEN /\ READY_LIST' = Plus(READY_LIST, EXEC_THREAD[p])
          /\ semaforoReady' = [semaforoReady EXCEPT ![p] = @ + 1]
          /\ estado' = [estado EXCEPT ![EXEC_THREAD[p]] = "ready"]
          /\ EXEC_THREAD' = [EXEC_THREAD EXCEPT ![p] = NULL]
     ELSE UNCHANGED <<READY_LIST, semaforoReady, estado, EXEC_THREAD>>
  /\ running' = [running EXCEPT ![p] = NULL]
  /\ GoTo(p, "sem_wait")
  /\ UNCHANGED <<process, ULTS, new_queue, blocked_queue, joins, sems,
                 ACTUAL_MULTIPROG, owner, in, crashed>>

\* Mutant: the handler does not wait.
NoSemWait(p) ==
  /\ At(p, "sem_wait")
  /\ semaforoReady' = [semaforoReady EXCEPT ![p] = @ - 1]
  /\ GoTo(p, "pick")
  /\ UNCHANGED <<threads, READY_LIST, new_queue, blocked_queue, joins, sems,
                 ACTUAL_MULTIPROG, owner, in, running, crashed>>

SemWait(p) ==
  /\ At(p, "sem_wait")
  /\ semaforoReady[p] > 0
  /\ semaforoReady' = [semaforoReady EXCEPT ![p] = @ - 1]
  /\ GoTo(p, "pick")
  /\ UNCHANGED <<threads, READY_LIST, new_queue, blocked_queue, joins, sems,
                 ACTUAL_MULTIPROG, owner, in, running, crashed>>

\* ordenar_cola_listos puts any of the READY threads first.
PickReady(p) ==
  /\ At(p, "pick")
  /\ \E h \in Threads :
       /\ procesoId(h) = p
       /\ READY_LIST[h] > 0
       /\ MoveNext(p, h, "listo_a_ejecucion")
  /\ UNCHANGED <<threads, queues, joins, sems, ACTUAL_MULTIPROG, owner, running,
                 crashed>>

\* READY_LIST is empty although semaforoReady let the handler in: -1.
PickNone(p) ==
  /\ At(p, "pick")
  /\ \A h \in Threads : procesoId(h) = p => READY_LIST[h] = 0
  /\ Reply(p)
  /\ UNCHANGED <<threads, queues, joins, sems, ACTUAL_MULTIPROG, owner, running,
                 crashed>>

listo_a_ejecucion(p) ==
  /\ At(p, "listo_a_ejecucion")
  /\ eliminar_ULT_cola_actual(p)
  /\ READY_LIST' = SinListo(p)
  /\ estado' = [estado EXCEPT ![hilo(p)] = "execute"]
  /\ EXEC_THREAD' = [EXEC_THREAD EXCEPT ![p] = hilo(p)]
  /\ running' = [running EXCEPT ![p] = hilo(p)]
  /\ Reply(p)
  /\ UNCHANGED <<process, ULTS, semaforoReady, joins, sems, ACTUAL_MULTIPROG,
                 owner, crashed>>

(***************************************************************************)
(* The client goes away, and the accesses that have no defined result.     *)
(***************************************************************************)
\* recibir returns no operation: the handler stops, the process stays.
Disconnect(p) ==
  /\ At(p, "idle")
  /\ process[p] = "alive"
  /\ running' = [running EXCEPT ![p] = NULL]
  /\ GoTo(p, "done")
  /\ UNCHANGED <<threads, queues, joins, sems, ACTUAL_MULTIPROG, owner, in, crashed>>

Freed(S) == \E h \in S : estado[h] = "freed"

\* The handler's next step follows a null pointer or a freed thread: a lookup
\* that finds nothing, a queue head whose process is gone, a search that
\* passes over a freed thread.  The search may also survive.
BadPointer(p) ==
  \/ /\ At(p, "decrementar_semaforo") /\ Free("semaforos")
     /\ VALUE[in[p].sem] <= 0 /\ in[p].ult \notin ULTS
  \/ /\ At(p, "incrementar_semaforo") /\ Free("semaforos")
     /\ VALUE[in[p].sem] # SEM_MAX[in[p].sem]
     /\ BLOCKED_LIST[in[p].sem] # <<>>
     /\ ~Usable(Head(BLOCKED_LIST[in[p].sem]))
  \/ /\ At(p, "obtener_ULT_ready_FIFO")
     /\ validar_grado_multiprogramacion
     /\ new_queue # <<>> /\ ~Usable(Head(new_queue))
  \/ /\ pc[p] \in {"nuevo_a_listo_create", "nuevo_a_listo_FIFO",
                   "bloqueado_a_listo_signal", "bloqueado_a_listo_join"}
     /\ ~Usable(hilo(p))
  \/ /\ pc[p] \in Transitions
     /\ cola(p) = "new" /\ Free("new_queue") /\ Freed(Range(new_queue))
  \/ /\ pc[p] \in Transitions
     /\ cola(p) = "blocked" /\ Free("blocked_queue")
     /\ Freed({h \in Threads : blocked_queue[h] > 0})

Crash(p) ==
  /\ ~crashed
  /\ BadPointer(p)
  /\ crashed' = TRUE
  /\ UNCHANGED <<threads, queues, joins, sems, ACTUAL_MULTIPROG, owner, pc, in,
                 running>>

(***************************************************************************)
(* Specification.                                                          *)
(***************************************************************************)
Init ==
  /\ process = [p \in Programs |-> "none"]
  /\ ULTS = {}
  /\ estado = [h \in Threads |-> "none"]
  /\ EXEC_THREAD = [p \in Programs |-> NULL]
  /\ READY_LIST = [h \in Threads |-> 0]
  /\ semaforoReady = [p \in Programs |-> 0]
  /\ new_queue = <<>>
  /\ blocked_queue = [h \in Threads |-> 0]
  /\ joinTo = [h \in Threads |-> <<>>]
  /\ joinedBy = [h \in Threads |-> <<>>]
  /\ VALUE = SEM_INIT
  /\ BLOCKED_LIST = [s \in Semaphores |-> <<>>]
  /\ ACTUAL_MULTIPROG = 0
  /\ owner = [m \in Mutexes |-> NULL]
  /\ pc = [p \in Programs |-> "idle"]
  /\ in = [p \in Programs |-> NoLocals]
  /\ running = [p \in Programs |-> NULL]
  /\ crashed = FALSE

\* What the client of p may do next.
Request(p) ==
  \/ CreateMain(p)
  \/ ScheduleNext(p)
  \/ CloseMain(p)
  \/ Disconnect(p)
  \/ \E t \in Tids : \/ CreateUlt(p, t) \/ Join(p, t) \/ JoinReturns(p, t)
                   \/ ReceiveClose(p, t) \/ CloseUnknown(p, t)
  \/ \E s \in Semaphores : ReceiveWait(p, s) \/ ReceiveSignal(p, s)

\* The steps that bring the handler of p from a request to its reply.
Handle(p) ==
  \/ NotAdmitted(p) \/ AdmitUlt(p) \/ AdmitMain(p)
  \/ NuevoAListoCreate(p) \/ nuevo_a_ejecucion(p)
  \/ ejecucion_a_bloqueado(p)
  \/ decrementar_semaforo(p) \/ BlockOnSemaphore(p)
  \/ ejecucion_a_bloqueado_por_semaforo(p)
  \/ SignalAtMax(p) \/ SignalNoWaiter(p)
  \/ desbloquear_hilos_semaforo(p) \/ BloqueadoAListoSignal(p)
  \/ JoinerStillWaits(p) \/ JoinerReady(p) \/ JoinerNew(p)
  \/ BloqueadoAListoJoin(p) \/ joiner_a_nuevo(p) \/ AllUnjoined(p)
  \/ close_switch(p) \/ CloseNew(p) \/ nuevo_a_exit(p)
  \/ CloseBlocked(p) \/ CloseBlockedMultiprog(p) \/ bloqueado_a_exit(p)
  \/ CloseReady(p) \/ listo_a_exit(p) \/ ListoAExitWait(p) \/ CloseExecute(p)
  \/ obtener_ULT_ready_FIFO(p) \/ NobodyToAdmit(p) \/ NuevoAListoFIFO(p)
  \/ MetricasSemaforos(p) \/ MetricasMultiprog(p)
  \/ SemWait(p) \/ PickReady(p) \/ PickNone(p) \/ listo_a_ejecucion(p)

Next == \E p \in Programs : Request(p) \/ Handle(p) \/ Crash(p)

Spec == Init /\ [][Next]_vars

\* The operating system runs every handler, and a mutex that is released
\* again and again is eventually granted.
FairSpec == Spec /\ \A p \in Programs : SF_vars(Handle(p) \/ Crash(p))
=============================================================================
