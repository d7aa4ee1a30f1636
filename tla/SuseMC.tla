------------------------------- MODULE SuseMC -------------------------------
(* Values of the constants of Suse for TLC. *)
EXTENDS SuseProperties

\* planificador.config: A starts closed with room for one, B starts open.
InitA == [s \in Semaphores |-> 0]
MaxA  == [s \in Semaphores |-> 1]

\* Bound: copies of one thread in a READY_LIST.
MaxCopies == 2
ReadyBound == \A h \in Threads : READY_LIST[h] <= MaxCopies

\* Bound: thread 2 exists in one program only, whose main thread then creates,
\* signals and closes without leaving the processor, while the other program
\* waits, joins and is scheduled with its main thread alone.  With a third
\* thread to leave, a main thread can be let in twice and join twice.
Helper == CHOOSE p \in Programs : TRUE

ThirdThread ==
  (\E p \in Programs : estado[<<p, 2>>] # "none") =>
    /\ \A p \in Programs : pc[p] # "done" /\ (p # Helper => estado[<<p, 2>>] = "none")
    /\ estado[<<Helper, 1>>] # "none"
    /\ pc[Helper] # "sem_wait"
    /\ \A h \in Of(Helper) : joinTo[h] = <<>> /\ estado[h] # "blocked"
    /\ \A h \in Threads \ Of(Helper) : tid(h) # 0 => estado[h] \in {"none", "new"}

\* FairSpec restricted to the steps that keep ReadyBound: a CONSTRAINT would
\* cut behaviours in the middle, which liveness must not see.
BoundedFairSpec ==
  /\ Init /\ [][Next /\ ReadyBound']_vars
  /\ \A p \in Programs : SF_vars(Handle(p) \/ Crash(p))
=============================================================================
