--------------------------- MODULE SuseProperties ---------------------------
(***************************************************************************)
(* What the SUSE scheduler promises, stated over the state of Suse.        *)
(***************************************************************************)
EXTENDS Suse

ULTorNull == Threads \cup {NULL}

Locals == [ult : ULTorNull, hilo : ULTorNull, cola : Estados,
           sem : Semaphores \cup {NULL}, i : Nat]

\* Every variable keeps its type; the counters of the ready semaphores never
\* go below zero.
TypeOK ==
  /\ process \in [Programs -> {"none", "alive", "destroyed"}]
  /\ ULTS \in SUBSET Threads
  /\ estado \in [Threads -> Estados]
  /\ EXEC_THREAD \in [Programs -> ULTorNull]
  /\ READY_LIST \in [Threads -> Nat]
  /\ semaforoReady \in [Programs -> Nat]
  /\ new_queue \in Seq(Threads)
  /\ blocked_queue \in [Threads -> Nat]
  /\ joinTo \in [Threads -> Seq(Threads)]
  /\ joinedBy \in [Threads -> Seq(Threads)]
  /\ VALUE \in [Semaphores -> Int]
  /\ BLOCKED_LIST \in [Semaphores -> Seq(Threads)]
  /\ ACTUAL_MULTIPROG \in Int
  /\ owner \in [Mutexes -> Programs \cup {NULL}]
  /\ pc \in [Programs -> Labels]
  /\ in \in [Programs -> Locals]
  /\ running \in [Programs -> ULTorNull]
  /\ crashed \in BOOLEAN

\* The handler waits for a request, has ended, or waits for a READY thread.
AtRest(p) == pc[p] \in {"idle", "done", "sem_wait"}

(***************************************************************************)
(* Mutexes.                                                                *)
(***************************************************************************)
\* Where a handler holds a mutex for certain, and where it may hold it.
Holds(m) ==
  CASE m = "new_queue"     -> {"nuevo_a_exit"}
    [] m = "blocked_queue" -> {"close_blocked_multiprog", "bloqueado_a_exit"}
    [] m = "semaforos"     -> {"ejecucion_a_bloqueado_por_semaforo",
                               "bloqueado_a_listo_signal"}
    [] m = "multiprog"     -> {"nuevo_a_listo_create", "nuevo_a_ejecucion",
                               "bloqueado_a_listo_join", "joiner_a_nuevo",
                               "bloqueado_a_exit", "listo_a_exit",
                               "listo_a_exit_wait", "obtener_ULT_ready_FIFO",
                               "nuevo_a_listo_FIFO"}

MayHold(m) ==
  IF m = "blocked_queue"
  THEN Holds(m) \cup {"obtener_ULT_ready_FIFO", "nuevo_a_listo_FIFO"}
  ELSE Holds(m)

\* Every mutex is held exactly by the handler inside its critical section, so
\* no two handlers are ever inside critical sections of the same mutex, and no
\* reply is sent with a mutex still locked.
MutualExclusion ==
  \A m \in Mutexes, p \in Programs :
    /\ pc[p] \in Holds(m) => owner[m] = p
    /\ owner[m] = p => pc[p] \in MayHold(m)

\* The mutex the next step of p has to take, NULL if there is none.
Wants(p) ==
  CASE pc[p] \in {"create", "close_blocked_multiprog", "close_ready",
                  "close_execute", "metricas_multiprog"} -> "multiprog"
    [] pc[p] = "desjoinear" /\ in[p].i <= Len(joinedBy[in[p].ult])
       /\ joinToLeft(p) = <<>> -> "multiprog"
    [] pc[p] \in {"decrementar_semaforo", "incrementar_semaforo",
                  "metricas_semaforos"} -> "semaforos"
    [] pc[p] \in {"ejecucion_a_bloqueado", "close_blocked",
                  "ejecucion_a_bloqueado_por_semaforo"} -> "blocked_queue"
    [] pc[p] \in {"joiner_a_nuevo", "close_new"} -> "new_queue"
    [] pc[p] \in Transitions ->
         IF cola(p) = "new" THEN "new_queue"
         ELSE IF cola(p) = "blocked" THEN "blocked_queue" ELSE NULL
    [] OTHER -> NULL

\* The handler that p waits for.
WaitsFor(p) == IF Wants(p) = NULL THEN NULL ELSE owner[Wants(p)]

\* The handlers take the four mutexes in compatible orders: in every group of
\* handlers somebody does not wait for a mutex held within the group.
NoDeadlock ==
  \A G \in SUBSET Programs : G # {} => \E p \in G : WaitsFor(p) \notin G

(***************************************************************************)
(* Semaphores.                                                             *)
(***************************************************************************)
Negative(v) == IF v < 0 THEN -v ELSE 0

\* A handler is between the two updates of semaphore s.
Updating(s) ==
  \E p \in Programs :
    /\ pc[p] \in Holds("semaforos")
    /\ in[p].sem = s

\* A negative VALUE counts the threads in BLOCKED_LIST: no signal is lost and
\* nobody waits on a semaphore that is open.  While wait or signal is half
\* done the list is one longer.
SemaphoreAccounting ==
  \A s \in Semaphores :
    /\ Len(BLOCKED_LIST[s]) = Negative(VALUE[s]) + (IF Updating(s) THEN 1 ELSE 0)
    /\ VALUE[s] <= SEM_MAX[s]
    /\ Updating(s) => VALUE[s] <= 0

\* The semaphore operation a handler has received and not yet carried out.
CallOf(p) ==
  CASE pc[p] = "decrementar_semaforo" -> [op |-> "wait", sem |-> in[p].sem]
    [] pc[p] \in {"incrementar_semaforo", "bloqueado_a_listo_signal"} ->
         [op |-> "signal", sem |-> in[p].sem]
    [] OTHER -> NULL

Sem == INSTANCE SemaphoreSpec WITH
  Initial <- SEM_INIT,
  Maximum <- SEM_MAX,
  None <- NULL,
  units <- [s \in Semaphores |-> IF VALUE[s] > 0 THEN VALUE[s] ELSE 0],
  waiting <- BLOCKED_LIST,
  calling <- [p \in Programs |-> CallOf(p)]

\* wait and signal of SUSE, with their lists, their negative VALUE and their
\* two updates under mutex_semaforos, are the counting semaphore with a first
\* come, first served queue that SemaphoreSpec states.
ImplementsSemaphores == Sem!Spec

(***************************************************************************)
(* Degree of multiprogramming.                                             *)
(***************************************************************************)
\* The threads, main threads apart, that have been let into ready, execute or
\* blocked and have not left.
Admitted == {h \in ULTS : tid(h) # 0 /\ estado[h] \in {"ready", "execute", "blocked"}}

\* The threads counted as admitted are at most the configured maximum.
DegreeBounded == ACTUAL_MULTIPROG <= MAX_MULTIPROG

\* ACTUAL_MULTIPROG never understates the admitted threads and never passes
\* the configured maximum, so the maximum bounds the threads of all programs
\* that compete for the processor (the main threads apart).
MultiprogBound ==
  /\ DegreeBounded
  /\ Free("multiprog") => Cardinality(Admitted) <= ACTUAL_MULTIPROG

\* ACTUAL_MULTIPROG is the degree of multiprogramming that metricas_sistema logs
\* as "Grado actual de multiprogramacion actual" (suse.c:274): with nobody in
\* the middle of a request it counts the threads in ready, execute and blocked.
ActualIsCurrent ==
  (\A p \in Programs : AtRest(p)) =>
    ACTUAL_MULTIPROG <=
      Cardinality({h \in ULTS : estado[h] \in {"ready", "execute", "blocked"}})

(***************************************************************************)
(* Ready lists and queues.                                                 *)
(***************************************************************************)
Of(p) == {h \in Threads : procesoId(h) = p}

\* The entries of p's READY_LIST, those of one thread numbered.
Entries(p) == UNION {{h} \X (1..READY_LIST[h]) : h \in Of(p)}

ReadyCount(p) == Cardinality(Entries(p))

\* schedule_next never comes back with -1: "Esto se soluciona con el semaforo"
\* (suse.c:879), semaforoReady lets it in only when READY_LIST has a thread.
NextNeverEmpty == \A p \in Programs : pc[p] = "pick" => ReadyCount(p) > 0

\* Threads appended to p's READY_LIST and not yet posted, or taken from it
\* and not yet waited for.
InTransit(p) ==
  Cardinality({q \in Programs :
     /\ pc[q] \in {"nuevo_a_listo_create", "nuevo_a_listo_FIFO"}
     /\ procesoId(hilo(q)) = p})
  + (IF pc[p] \in {"pick", "listo_a_ejecucion"} THEN 1 ELSE 0)
  - (IF pc[p] = "listo_a_exit_wait" THEN 1 ELSE 0)

\* semaforoReady counts READY_LIST exactly, whatever program or handler adds
\* to it: no READY thread is out of reach of schedule_next.
ReadyTokens ==
  \A p \in Programs :
    process[p] = "alive" => ReadyCount(p) = semaforoReady[p] + InTransit(p)

\* A handler is moving h from one queue to another.
Moving(h) ==
  \E p \in Programs :
    pc[p] \notin {"idle", "done", "sem_wait"} /\ h \in {in[p].ult, in[p].hilo}

Occurrences(h) == Cardinality({k \in DOMAIN new_queue : new_queue[k] = h})

\* A thread at rest is in the queue its estado names, once, and in no other.
\* The exception is blocked_queue, where a joiner that went back to new_queue
\* (suse.c:759-766) leaves an entry behind.
OneQueue ==
  \A h \in ULTS : ~Moving(h) =>
    /\ READY_LIST[h] = IF estado[h] = "ready" THEN 1 ELSE 0
    /\ Occurrences(h) = IF estado[h] = "new" THEN 1 ELSE 0
    /\ estado[h] = "blocked" => blocked_queue[h] > 0
    /\ (EXEC_THREAD[procesoId(h)] = h) <=> estado[h] = "execute"

\* A closed thread never comes back.
ExitIsFinal ==
  [][\A h \in Threads : estado[h] = "exit" => estado'[h] = "exit"]_vars

(***************************************************************************)
(* Liveness.                                                               *)
(***************************************************************************)
\* Every request gets its reply or reaches the wait for a READY thread.
EveryRequestAnswered ==
  \A p \in Programs : ~AtRest(p) ~> (AtRest(p) \/ crashed)

\* No schedule_next has taken a thread out of READY_LIST while nuevo_a_listo of
\* another handler, which adds it before it removes it from its old queue
\* (suse.c:1401), had not marked it READY: the removal then misses READY_LIST,
\* which keeps an entry that semaforoReady does not count.
PicksReady ==
  \A p \in Programs : pc[p] = "listo_a_ejecucion" => cola(p) = "ready"

\* p's schedule_next sleeps, and a thread of p has become READY.
SleepsWithReady(p) ==
  /\ pc[p] = "sem_wait"
  /\ \E h \in Of(p) : estado[h] = "ready" /\ READY_LIST[h] > 0

\* A READY thread wakes the schedule_next of its program, whoever made it READY:
\* the program itself, the signal of another one, or a close that gave its place
\* away.  The post must reach semaforoReady of the thread's program and nobody
\* may take it away.  It holds of the behaviours in which no schedule_next ran
\* a thread that another handler had not finished moving.
ReadyGetsScheduled ==
  []PicksReady =>
    \A p \in Programs : SleepsWithReady(p) ~> (pc[p] # "sem_wait" \/ crashed)

\* What the handler logs as "El tid %d paso de new a exit" (suse.c:1183),
\* "paso de bloqueado a exit" (1130) and "paso de ready a exit" (1158) comes
\* about: a close that has entered one of the three transitions finishes it.
CloseReachesExit ==
  \A p \in Programs :
    pc[p] \in {"nuevo_a_exit", "bloqueado_a_exit", "listo_a_exit"}
      ~> (pc[p] \in {"listo_a_exit_wait", "obtener_ULT_ready_FIFO",
                     "metricas_semaforos"} \/ crashed)
=============================================================================
