--------------------------- MODULE SemaphoreSpec ---------------------------
(***************************************************************************)
(* What SUSE promises of its semaphores, with no handler threads, mutexes  *)
(* or lists of threads by state: each wait and each signal takes effect at *)
(* one instant between its request and its reply.                          *)
(*                                                                         *)
(* A wait on an open semaphore takes one unit, on a closed one it queues   *)
(* the caller.  A signal wakes the thread that has waited longest, or adds *)
(* one unit when nobody waits, or has no effect at the maximum.            *)
(***************************************************************************)
EXTENDS Naturals, Sequences

CONSTANTS Programs, Semaphores, Threads, Initial, Maximum, None

VARIABLES
  units,     \* units left of each semaphore
  waiting,   \* the threads that wait on it, longest first
  calling    \* the operation each program has asked for, None if none

vars == <<units, waiting, calling>>

Calls == [op : {"wait", "signal"}, sem : Semaphores]

Init ==
  /\ units = Initial
  /\ waiting = [s \in Semaphores |-> <<>>]
  /\ calling = [p \in Programs |-> None]

Call(p, c) ==
  /\ calling[p] = None
  /\ calling' = [calling EXCEPT ![p] = c]
  /\ UNCHANGED <<units, waiting>>

\* The operation of p on s takes effect and its call ends.
Ends(p, op, s) ==
  /\ calling[p] = [op |-> op, sem |-> s]
  /\ calling' = [calling EXCEPT ![p] = None]

WaitTakes(p, s) ==
  /\ Ends(p, "wait", s)
  /\ units[s] > 0
  /\ units' = [units EXCEPT ![s] = @ - 1]
  /\ UNCHANGED waiting

WaitQueues(p, s, h) ==
  /\ Ends(p, "wait", s)
  /\ units[s] = 0
  /\ waiting' = [waiting EXCEPT ![s] = Append(@, h)]
  /\ UNCHANGED units

SignalWakes(p, s) ==
  /\ Ends(p, "signal", s)
  /\ waiting[s] # <<>>
  /\ waiting' = [waiting EXCEPT ![s] = Tail(@)]
  /\ UNCHANGED units

SignalAdds(p, s) ==
  /\ Ends(p, "signal", s)
  /\ waiting[s] = <<>>
  /\ units[s] < Maximum[s]
  /\ units' = [units EXCEPT ![s] = @ + 1]
  /\ UNCHANGED waiting

SignalIgnored(p, s) ==
  /\ Ends(p, "signal", s)
  /\ waiting[s] = <<>>
  /\ units[s] = Maximum[s]
  /\ UNCHANGED <<units, waiting>>

Next ==
  \E p \in Programs :
    \/ \E c \in Calls : Call(p, c)
    \/ \E s \in Semaphores :
         \/ WaitTakes(p, s) \/ SignalWakes(p, s)
         \/ SignalAdds(p, s) \/ SignalIgnored(p, s)
         \/ \E h \in Threads : WaitQueues(p, s, h)

Spec == Init /\ [][Next]_vars
=============================================================================
