------------------------------ MODULE TaskQueue ------------------------------
(***************************************************************************)
(* What Scheduler promises its users, with no threads, locks or wake-ups:  *)
(* the tasks submitted are started in the order of their submission, each  *)
(* one once, by at most as many workers as there are; a started task is    *)
(* finished; and the queue is closed only when nothing is left of it.      *)
(***************************************************************************)
EXTENDS Naturals, Sequences

CONSTANTS Worker, Task, NoTask

VARIABLES
  queue,    \* submitted and not started
  slot,     \* slot[w]: the task worker w is at, NoTask if none
  finished, \* tasks that were executed to the end
  closed    \* is the queue closed?

vars == <<queue, slot, finished, closed>>

Init ==
  /\ queue = <<>>
  /\ slot = [w \in Worker |-> NoTask]
  /\ finished = {}
  /\ closed = FALSE

Submit(t) ==
  /\ ~closed
  /\ queue' = Append(queue, t)
  /\ UNCHANGED <<slot, finished, closed>>

Begin(w) ==
  /\ queue # <<>> /\ slot[w] = NoTask
  /\ slot' = [slot EXCEPT ![w] = Head(queue)]
  /\ queue' = Tail(queue)
  /\ UNCHANGED <<finished, closed>>

Complete(w) ==
  /\ slot[w] # NoTask
  /\ finished' = finished \cup {slot[w]}
  /\ slot' = [slot EXCEPT ![w] = NoTask]
  /\ UNCHANGED <<queue, closed>>

Close ==
  /\ queue = <<>> /\ \A w \in Worker : slot[w] = NoTask
  /\ closed' = TRUE
  /\ UNCHANGED <<queue, slot, finished>>

Next ==
  \/ \E t \in Task : Submit(t)
  \/ \E w \in Worker : Begin(w) \/ Complete(w)
  \/ Close

Spec == Init /\ [][Next]_vars

\* Whatever is in the queue is started, whatever is started is finished.
FairSpec ==
  /\ Spec
  /\ WF_vars(\E w \in Worker : Begin(w))
  /\ \A w \in Worker : WF_vars(Complete(w))
=============================================================================
