------------------------------ MODULE Scheduler ------------------------------
(***************************************************************************)
(* TasksManager/Scheduler: the queue of commands between the client        *)
(* threads that dispatch them and the worker threads that execute them.    *)
(*                                                                         *)
(* Every access to tasks_ and stop_ is made under queue_mutex_, in a block *)
(* that never waits, except on the condition variable, which releases the  *)
(* mutex: each block is one step.  notify_one and notify_all are called    *)
(* after the block, by a thread that may be interrupted before the call:   *)
(* they are steps of their own.  The class has two callers: threads that   *)
(* enqueue, each holding a reference to the scheduler while it does, and   *)
(* the one that runs the destructor when no reference is left.             *)
(***************************************************************************)
EXTENDS Naturals, Sequences, FiniteSets

CONSTANTS
  Producer,   \* threads that enqueue tasks
  Worker,     \* worker_threads_, thread_count_ of them
  MaxTasks,   \* bound: tasks each producer enqueues
  NoTask      \* the empty task pointer

Task == Producer \X (1 .. MaxTasks)

ASSUME SchedulerAssumption ==
  /\ Worker # {} /\ IsFiniteSet(Worker)
  /\ IsFiniteSet(Producer)
  /\ MaxTasks \in Nat
  /\ NoTask \notin Task

VARIABLES
  tasks,      \* tasks_
  stop,       \* stop_
  wpc,        \* worker thread: before, in or after the wait
  task,       \* worker thread: the local variable task
  ppc,        \* producer: "idle", or between unlock and notify_one
  sent,       \* producer: tasks it has enqueued so far
  dpc,        \* the destructor: where deinit is
  finished,   \* history: tasks whose execute() has returned
  submitted,  \* history: tasks in the order they were pushed
  taken       \* history: tasks in the order they were popped

vars == <<tasks, stop, wpc, task, ppc, sent, dpc, finished, submitted, taken>>

worker    == <<wpc, task, finished, taken>>
producer  == <<ppc, sent, submitted>>

-----------------------------------------------------------------------------
(* std::condition_variable *)

Waiting == {w \in Worker : wpc[w] = "waiting"}

\* notify_one wakes one of the waiting threads, if there is one.
NotifyOne ==
  IF Waiting = {} THEN UNCHANGED wpc
  ELSE \E w \in Waiting : wpc' = [wpc EXCEPT ![w] = "ready"]

\* Variant: deinit wakes one thread.
NotifyAllOnlyOne == NotifyOne

NotifyAll ==
  wpc' = [w \in Worker |-> IF wpc[w] = "waiting" THEN "ready" ELSE wpc[w]]

\* A wait may return without a notification.
SpuriousWakeup(w) ==
  /\ wpc[w] = "waiting"
  /\ wpc' = [wpc EXCEPT ![w] = "ready"]
  /\ UNCHANGED <<tasks, stop, task, producer, dpc, finished, taken>>

-----------------------------------------------------------------------------
(* Producers: enqueueTask *)

\* Variant: notifies only when the queue was empty.
EnqueueTaskNotifyIfEmpty(p) ==
  LET t == <<p, sent[p] + 1>>
  IN  /\ dpc = "alive"
      /\ ppc[p] = "idle" /\ sent[p] < MaxTasks
      /\ tasks' = Append(tasks, t)
      /\ submitted' = Append(submitted, t)
      /\ sent' = [sent EXCEPT ![p] = @ + 1]
      /\ ppc' = IF tasks = <<>> THEN [ppc EXCEPT ![p] = "notify"] ELSE ppc
      /\ UNCHANGED <<stop, worker, dpc>>

EnqueueTask(p) ==
  LET t == <<p, sent[p] + 1>>
  IN  /\ dpc = "alive"
      /\ ppc[p] = "idle" /\ sent[p] < MaxTasks
      /\ tasks' = Append(tasks, t)
      /\ submitted' = Append(submitted, t)
      /\ sent' = [sent EXCEPT ![p] = @ + 1]
      /\ ppc' = [ppc EXCEPT ![p] = "notify"]
      /\ UNCHANGED <<stop, worker, dpc>>

EnqueueNotify(p) ==
  /\ ppc[p] = "notify"
  /\ NotifyOne
  /\ ppc' = [ppc EXCEPT ![p] = "idle"]
  /\ UNCHANGED <<tasks, stop, task, sent, submitted, dpc, finished, taken>>

-----------------------------------------------------------------------------
(* workerFunction.  A ready thread holds or is about to take queue_mutex_:   *)
(* it evaluates the predicate of the wait and does what follows.             *)

\* Variant: the predicate of the wait does not look at stop_.
WorkerWaitDespiteStop(w) ==
  /\ wpc[w] = "ready"
  /\ tasks = <<>>
  /\ wpc' = [wpc EXCEPT ![w] = "waiting"]
  /\ UNCHANGED <<tasks, stop, task, producer, dpc, finished, taken>>

WorkerWait(w) ==
  /\ wpc[w] = "ready"
  /\ ~(stop \/ tasks # <<>>)
  /\ wpc' = [wpc EXCEPT ![w] = "waiting"]
  /\ UNCHANGED <<tasks, stop, task, producer, dpc, finished, taken>>

\* Variant: returns on stop_ with tasks left.
WorkerReturnAtOnce(w) ==
  /\ wpc[w] = "ready"
  /\ stop
  /\ wpc' = [wpc EXCEPT ![w] = "returned"]
  /\ UNCHANGED <<tasks, stop, task, producer, dpc, finished, taken>>

WorkerReturn(w) ==
  /\ wpc[w] = "ready"
  /\ stop /\ tasks = <<>>
  /\ wpc' = [wpc EXCEPT ![w] = "returned"]
  /\ UNCHANGED <<tasks, stop, task, producer, dpc, finished, taken>>

\* Variant: the task is not popped.
WorkerTakeWithoutPop(w) ==
  /\ wpc[w] = "ready"
  /\ tasks # <<>>
  /\ task' = [task EXCEPT ![w] = Head(tasks)]
  /\ taken' = Append(taken, Head(tasks))
  /\ wpc' = [wpc EXCEPT ![w] = "executing"]
  /\ UNCHANGED <<tasks, stop, producer, dpc, finished>>

\* Variant: the newest task is taken.
WorkerTakeNewest(w) ==
  /\ wpc[w] = "ready"
  /\ tasks # <<>>
  /\ task' = [task EXCEPT ![w] = tasks[Len(tasks)]]
  /\ taken' = Append(taken, tasks[Len(tasks)])
  /\ tasks' = SubSeq(tasks, 1, Len(tasks) - 1)
  /\ wpc' = [wpc EXCEPT ![w] = "executing"]
  /\ UNCHANGED <<stop, producer, dpc, finished>>

WorkerTake(w) ==
  /\ wpc[w] = "ready"
  /\ tasks # <<>>
  /\ task' = [task EXCEPT ![w] = Head(tasks)]
  /\ taken' = Append(taken, Head(tasks))
  /\ tasks' = Tail(tasks)
  /\ wpc' = [wpc EXCEPT ![w] = "executing"]
  /\ UNCHANGED <<stop, producer, dpc, finished>>

\* Variant: executes after any wake-up, with or without a task.
WorkerExecuteAnyway(w) ==
  /\ wpc[w] \in {"executing", "ready"}
  /\ finished' = finished \cup {task[w]}
  /\ task' = [task EXCEPT ![w] = NoTask]
  /\ wpc' = [wpc EXCEPT ![w] = "ready"]
  /\ UNCHANGED <<tasks, stop, producer, dpc, taken>>

WorkerExecute(w) ==
  /\ wpc[w] = "executing"
  /\ finished' = finished \cup {task[w]}
  /\ task' = [task EXCEPT ![w] = NoTask]
  /\ wpc' = [wpc EXCEPT ![w] = "ready"]
  /\ UNCHANGED <<tasks, stop, producer, dpc, taken>>

-----------------------------------------------------------------------------
(* ~Scheduler: deinit.  No producer has a reference left. *)

DeinitStop ==
  /\ dpc = "alive" /\ \A p \in Producer : ppc[p] = "idle"
  /\ stop' = TRUE
  /\ dpc' = "notify"
  /\ UNCHANGED <<tasks, worker, producer>>

DeinitNotify ==
  /\ dpc = "notify"
  /\ NotifyAll
  /\ dpc' = "join"
  /\ UNCHANGED <<tasks, stop, task, producer, finished, taken>>

DeinitJoin ==
  /\ dpc = "join" /\ \A w \in Worker : wpc[w] = "returned"
  /\ dpc' = "destroyed"
  /\ UNCHANGED <<tasks, stop, worker, producer>>

-----------------------------------------------------------------------------
Init ==
  /\ tasks = <<>> /\ stop = FALSE
  /\ wpc = [w \in Worker |-> "ready"]
  /\ task = [w \in Worker |-> NoTask]
  /\ ppc = [p \in Producer |-> "idle"]
  /\ sent = [p \in Producer |-> 0]
  /\ dpc = "alive"
  /\ finished = {} /\ submitted = <<>> /\ taken = <<>>

WorkerStep(w) ==
  WorkerWait(w) \/ WorkerReturn(w) \/ WorkerTake(w) \/ WorkerExecute(w)

Deinit == DeinitStop \/ DeinitNotify \/ DeinitJoin

Next ==
  \/ \E p \in Producer : EnqueueTask(p) \/ EnqueueNotify(p)
  \/ \E w \in Worker : WorkerStep(w) \/ SpuriousWakeup(w)
  \/ Deinit

Spec == Init /\ [][Next]_vars

\* A thread that can run does; commands return.  Nothing makes a producer
\* enqueue or the last reference go away.
Fairness ==
  /\ \A p \in Producer : WF_vars(EnqueueNotify(p))
  /\ \A w \in Worker : WF_vars(WorkerStep(w))
  /\ WF_vars(DeinitNotify) /\ WF_vars(DeinitJoin)

FairSpec == Spec /\ Fairness

-----------------------------------------------------------------------------
\* Every variable keeps its type: the queue and the slots hold tasks only.
TypeOK ==
  /\ tasks \in Seq(Task)
  /\ stop \in BOOLEAN
  /\ wpc \in [Worker -> {"ready", "waiting", "executing", "returned"}]
  /\ task \in [Worker -> Task \cup {NoTask}]
  /\ ppc \in [Producer -> {"idle", "notify"}]
  /\ sent \in [Producer -> 0 .. MaxTasks]
  /\ dpc \in {"alive", "notify", "join", "destroyed"}
  /\ finished \subseteq Task
  /\ submitted \in Seq(Task) /\ taken \in Seq(Task)

Ready     == {w \in Worker : wpc[w] = "ready"}
Notifying == {p \in Producer : ppc[p] = "notify"}

\* No lost wake-up: while a worker sleeps, every task in the queue has a
\* worker that is up and will look at the queue, or a notification on its way,
\* although notify_one is called outside the mutex.
QueuedTasksAreCovered ==
  Waiting # {} => Len(tasks) <= Cardinality(Ready) + Cardinality(Notifying)

\* A worker that sleeps through stop_ has the notification still to come.
StopReachesSleepers == stop /\ Waiting # {} => dpc = "notify"

\* No task is lost, repeated or overtaken between push and pop.
FifoOnce == submitted = taken \o tasks

\* The destructor returns only when every task pushed was executed.
DestroyedIsDrained ==
  dpc = "destroyed" => finished = {submitted[i] : i \in 1 .. Len(submitted)}

\* What the invariants above rest on: deinit is the only writer of stop_ and
\* runs without producers, a worker returns only from an empty queue that was
\* stopped, and holds a task exactly while it executes.
StopMeansDeinit ==
  /\ stop <=> dpc # "alive"
  /\ stop => \A p \in Producer : ppc[p] = "idle"

ReturnedIsFinal ==
  /\ \A w \in Worker : wpc[w] = "returned" => stop /\ tasks = <<>>
  /\ dpc = "destroyed" => \A w \in Worker : wpc[w] = "returned"

TaskWhileExecuting ==
  \A w \in Worker : wpc[w] = "executing" <=> task[w] # NoTask

\* A popped task is finished or still in the hands of a worker.
TakenIsHeldOrFinished ==
  {taken[i] : i \in 1 .. Len(taken)} =
    finished \cup {task[w] : w \in {v \in Worker : wpc[v] = "executing"}}

IInv ==
  /\ TypeOK
  /\ StopMeansDeinit /\ ReturnedIsFinal /\ TaskWhileExecuting
  /\ StopReachesSleepers /\ FifoOnce /\ TakenIsHeldOrFinished

\* Once the destructor has begun it returns: no thread sleeps for ever.
DeinitTerminates == (dpc # "alive") ~> (dpc = "destroyed")

Queue ==
  INSTANCE TaskQueue WITH
    queue <- tasks, slot <- task, closed <- (dpc = "destroyed")

\* The scheduler does what TaskQueue promises; every task pushed is executed.
ImplementsTaskQueue == Queue!FairSpec
=============================================================================
