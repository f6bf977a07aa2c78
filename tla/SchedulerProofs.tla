--------------------------- MODULE SchedulerProofs ---------------------------
(* Theorems about Scheduler, for any number of producers, workers and tasks. *)
EXTENDS Scheduler, SequenceTheorems, FiniteSetTheorems, TLAPS

-----------------------------------------------------------------------------
(* Type correctness; a worker that executes has a task to put into finished. *)

TypeInv == TypeOK /\ TaskWhileExecuting

LEMMA TypeInit == Init => TypeInv
<1> SUFFICES ASSUME Init PROVE TypeInv
    OBVIOUS
<1>1. tasks \in Seq(Task) /\ submitted \in Seq(Task) /\ taken \in Seq(Task)
  BY EmptySeq DEF Init
<1>2. sent \in [Producer -> 0 .. MaxTasks]
  BY SchedulerAssumption DEF Init
<1>3. TaskWhileExecuting
  BY DEF Init, TaskWhileExecuting
<1>4. QED BY <1>1, <1>2, <1>3 DEF Init, TypeInv, TypeOK

LEMMA TypeStep == TypeInv /\ [Next]_vars => TypeInv'
<1> SUFFICES ASSUME TypeInv, [Next]_vars PROVE TypeInv'
    OBVIOUS
<1> USE SchedulerAssumption DEF TypeInv, TypeOK, TaskWhileExecuting
<1>1. ASSUME NEW p \in Producer, EnqueueTask(p) PROVE TypeInv'
  <2>1. <<p, sent[p] + 1>> \in Task
    BY <1>1 DEF EnqueueTask, Task
  <2>2. QED BY <1>1, <2>1 DEF EnqueueTask, worker
<1>2. ASSUME NEW p \in Producer, EnqueueNotify(p) PROVE TypeInv'
  BY <1>2 DEF EnqueueNotify, NotifyOne, Waiting
<1>3. ASSUME NEW w \in Worker, WorkerWait(w) PROVE TypeInv'
  BY <1>3 DEF WorkerWait, producer
<1>4. ASSUME NEW w \in Worker, WorkerReturn(w) PROVE TypeInv'
  BY <1>4 DEF WorkerReturn, producer
<1>5. ASSUME NEW w \in Worker, WorkerTake(w) PROVE TypeInv'
  <2>1. Head(tasks) \in Task /\ Tail(tasks) \in Seq(Task)
    BY <1>5, HeadTailProperties DEF WorkerTake
  <2>2. QED BY <1>5, <2>1 DEF WorkerTake, producer
<1>6. ASSUME NEW w \in Worker, WorkerExecute(w) PROVE TypeInv'
  BY <1>6 DEF WorkerExecute, producer
<1>7. ASSUME NEW w \in Worker, SpuriousWakeup(w) PROVE TypeInv'
  BY <1>7 DEF SpuriousWakeup, producer
<1>8. CASE DeinitStop
  BY <1>8 DEF DeinitStop, worker, producer
<1>9. CASE DeinitNotify
  BY <1>9 DEF DeinitNotify, NotifyAll, producer
<1>10. CASE DeinitJoin
  BY <1>10 DEF DeinitJoin, worker, producer
<1>11. CASE UNCHANGED vars
  BY <1>11 DEF vars
<1>12. QED
  BY <1>1, <1>2, <1>3, <1>4, <1>5, <1>6, <1>7, <1>8, <1>9, <1>10, <1>11
     DEF Next, WorkerStep, Deinit

\* The variables keep their types: the task a worker executes is a task that
\* was pushed into the queue, never the null pointer it starts with.
THEOREM TypeCorrect == Spec => []TypeOK
<1>1. Spec => []TypeInv
  BY TypeInit, TypeStep, PTL DEF Spec
<1>2. QED BY <1>1, PTL DEF TypeInv

-----------------------------------------------------------------------------
(* Control: how stop_, the sleeping workers and deinit relate. *)

ControlInv == StopMeansDeinit /\ ReturnedIsFinal /\ StopReachesSleepers

LEMMA ControlInit == Init => ControlInv
BY SchedulerAssumption
   DEF Init, ControlInv, StopMeansDeinit, ReturnedIsFinal, StopReachesSleepers, Waiting

LEMMA ControlStep == TypeInv /\ ControlInv /\ [Next]_vars => ControlInv'
<1> SUFFICES ASSUME TypeInv, ControlInv, [Next]_vars PROVE ControlInv'
    OBVIOUS
<1> USE SchedulerAssumption
    DEF TypeInv, TypeOK, ControlInv, StopMeansDeinit, ReturnedIsFinal,
        StopReachesSleepers, Waiting
<1>1. ASSUME NEW p \in Producer, EnqueueTask(p) PROVE ControlInv'
  BY <1>1 DEF EnqueueTask, worker
<1>2. ASSUME NEW p \in Producer, EnqueueNotify(p) PROVE ControlInv'
  BY <1>2 DEF EnqueueNotify, NotifyOne
<1>3. ASSUME NEW w \in Worker, WorkerWait(w) PROVE ControlInv'
  BY <1>3 DEF WorkerWait, producer
<1>4. ASSUME NEW w \in Worker, WorkerReturn(w) PROVE ControlInv'
  BY <1>4 DEF WorkerReturn, producer
<1>5. ASSUME NEW w \in Worker, WorkerTake(w) PROVE ControlInv'
  BY <1>5 DEF WorkerTake, producer
<1>6. ASSUME NEW w \in Worker, WorkerExecute(w) PROVE ControlInv'
  BY <1>6 DEF WorkerExecute, producer
<1>7. ASSUME NEW w \in Worker, SpuriousWakeup(w) PROVE ControlInv'
  BY <1>7 DEF SpuriousWakeup, producer
<1>8. CASE DeinitStop
  BY <1>8 DEF DeinitStop, worker, producer
<1>9. CASE DeinitNotify
  BY <1>9 DEF DeinitNotify, NotifyAll, producer
<1>10. CASE DeinitJoin
  BY <1>10 DEF DeinitJoin, worker, producer
<1>11. CASE UNCHANGED vars
  BY <1>11 DEF vars
<1>12. QED
  BY <1>1, <1>2, <1>3, <1>4, <1>5, <1>6, <1>7, <1>8, <1>9, <1>10, <1>11
     DEF Next, WorkerStep, Deinit

LEMMA ControlCorrect == Spec => [](TypeInv /\ ControlInv)
<1>1. Init => TypeInv /\ ControlInv
  BY TypeInit, ControlInit
<1>2. TypeInv /\ ControlInv /\ [Next]_vars => (TypeInv /\ ControlInv)'
  BY TypeStep, ControlStep
<1>3. QED BY <1>1, <1>2, PTL DEF Spec

\* No worker sleeps through the stop of the scheduler: one that is waiting
\* after stop_ was set is still to be notified.
THEOREM StopIsNotMissed == Spec => []StopReachesSleepers
<1>1. TypeInv /\ ControlInv => StopReachesSleepers
  BY DEF ControlInv
<1>2. QED BY <1>1, ControlCorrect, PTL

-----------------------------------------------------------------------------
(* Data: what was pushed is what was popped and what is in the queue. *)

DataInv == FifoOnce /\ TakenIsHeldOrFinished

\* The elements of a sequence after Append are its elements and the new one.
LEMMA AppendElements ==
  ASSUME NEW S, NEW s \in Seq(S), NEW e \in S
  PROVE  {Append(s, e)[i] : i \in 1 .. Len(Append(s, e))} =
           {s[i] : i \in 1 .. Len(s)} \cup {e}
<1>1. /\ Len(Append(s, e)) = Len(s) + 1
      /\ Len(s) \in Nat
      /\ \A i \in 1 .. Len(s) : Append(s, e)[i] = s[i]
      /\ Append(s, e)[Len(s) + 1] = e
  OBVIOUS
<1>2. 1 .. Len(s) + 1 = (1 .. Len(s)) \cup {Len(s) + 1}
  BY <1>1
<1>3. QED BY <1>1, <1>2

\* Popping moves the first element from one side of the queue to the other.
LEMMA MoveHead ==
  ASSUME NEW S, NEW s \in Seq(S), NEW t \in Seq(S), t # <<>>
  PROVE  s \o t = Append(s, Head(t)) \o Tail(t)
<1> DEFINE u == Append(s, Head(t)) \o Tail(t)
<1>1. /\ Head(t) \in S /\ Tail(t) \in Seq(S) /\ Append(s, Head(t)) \in Seq(S)
      /\ Len(Tail(t)) = Len(t) - 1 /\ Head(t) = t[1]
      /\ \A i \in 1 .. Len(Tail(t)) : Tail(t)[i] = t[i + 1]
  BY HeadTailProperties
<1>2. Len(s) \in Nat /\ Len(t) \in Nat /\ Len(t) >= 1
  BY LenProperties, EmptySeq
<1>3. u \in Seq(S) /\ s \o t \in Seq(S)
  BY <1>1, ConcatProperties
<1>4. Len(u) = Len(s) + Len(t) /\ Len(s \o t) = Len(s) + Len(t)
  BY <1>1, <1>2, ConcatProperties
<1>5. ASSUME NEW i \in 1 .. Len(s \o t) PROVE (s \o t)[i] = u[i]
  BY <1>1, <1>2, <1>4, ConcatProperties
<1>6. QED BY <1>3, <1>4, <1>5, SeqEqual

LEMMA DataInit == Init => DataInv
<1> SUFFICES ASSUME Init PROVE DataInv
    OBVIOUS
<1>1. FifoOnce
  BY DEF Init, FifoOnce
<1>2. TakenIsHeldOrFinished
  BY DEF Init, TakenIsHeldOrFinished
<1>3. QED BY <1>1, <1>2 DEF DataInv

LEMMA DataStep == TypeInv /\ DataInv /\ [Next]_vars => DataInv'
<1> SUFFICES ASSUME TypeInv, DataInv, [Next]_vars PROVE DataInv'
    OBVIOUS
<1> DEFINE Held == {task[w] : w \in {v \in Worker : wpc[v] = "executing"}}
<1>0. /\ submitted = taken \o tasks
      /\ {taken[i] : i \in 1 .. Len(taken)} = finished \cup Held
  BY DEF DataInv, FifoOnce, TakenIsHeldOrFinished
<1>a. ASSUME UNCHANGED <<tasks, submitted, taken>> PROVE FifoOnce'
  BY <1>a, <1>0 DEF FifoOnce
<1>b. ASSUME UNCHANGED <<taken, finished>>, Held' = Held PROVE TakenIsHeldOrFinished'
  BY <1>b, <1>0 DEF TakenIsHeldOrFinished
<1>1. ASSUME NEW p \in Producer, EnqueueTask(p) PROVE DataInv'
  <2>1. <<p, sent[p] + 1>> \in Task
    BY <1>1, SchedulerAssumption DEF EnqueueTask, Task, TypeInv, TypeOK
  <2>2. FifoOnce'
    <3>1. taken \in Seq(Task) /\ tasks \in Seq(Task)
      BY DEF TypeInv, TypeOK
    <3>2. ASSUME NEW e \in Task
          PROVE  Append(taken \o tasks, e) = taken \o Append(tasks, e)
      BY <3>1
    <3>3. QED BY <1>0, <1>1, <2>1, <3>2 DEF EnqueueTask, FifoOnce, worker
  <2>3. TakenIsHeldOrFinished'
    BY <1>b, <1>1 DEF EnqueueTask, worker
  <2>4. QED BY <2>2, <2>3 DEF DataInv
<1>2. ASSUME NEW p \in Producer, EnqueueNotify(p) PROVE DataInv'
  <2>1. Held' = Held
    BY <1>2 DEF EnqueueNotify, NotifyOne, Waiting, TypeInv, TypeOK
  <2>2. QED BY <1>a, <1>b, <1>2, <2>1 DEF EnqueueNotify, DataInv
<1>3. ASSUME NEW w \in Worker, WorkerWait(w) PROVE DataInv'
  <2>1. Held' = Held
    BY <1>3 DEF WorkerWait, TypeInv, TypeOK
  <2>2. QED BY <1>a, <1>b, <1>3, <2>1 DEF WorkerWait, producer, DataInv
<1>4. ASSUME NEW w \in Worker, WorkerReturn(w) PROVE DataInv'
  <2>1. Held' = Held
    BY <1>4 DEF WorkerReturn, TypeInv, TypeOK
  <2>2. QED BY <1>a, <1>b, <1>4, <2>1 DEF WorkerReturn, producer, DataInv
<1>5. ASSUME NEW w \in Worker, WorkerTake(w) PROVE DataInv'
  <2>1. Head(tasks) \in Task
    BY <1>5, HeadTailProperties DEF WorkerTake, TypeInv, TypeOK
  <2>2. FifoOnce'
    BY <1>0, <1>5, MoveHead DEF WorkerTake, FifoOnce, producer, TypeInv, TypeOK
  <2>3. {taken'[i] : i \in 1 .. Len(taken')} =
          {taken[i] : i \in 1 .. Len(taken)} \cup {Head(tasks)}
    BY <1>5, <2>1, AppendElements DEF WorkerTake, TypeInv, TypeOK
  <2>4. Held' = Held \cup {Head(tasks)}
    BY <1>5 DEF WorkerTake, TypeInv, TypeOK
  <2>5. finished' = finished
    BY <1>5 DEF WorkerTake
  <2>6. TakenIsHeldOrFinished'
    BY <1>0, <2>3, <2>4, <2>5 DEF TakenIsHeldOrFinished
  <2>7. QED BY <2>2, <2>6 DEF DataInv
<1>6. ASSUME NEW w \in Worker, WorkerExecute(w) PROVE DataInv'
  <2>1. finished' \cup Held' = finished \cup Held
    BY <1>6 DEF WorkerExecute, TypeInv, TypeOK
  <2>2. TakenIsHeldOrFinished'
    BY <1>0, <1>6, <2>1 DEF WorkerExecute, TakenIsHeldOrFinished
  <2>3. QED BY <1>a, <1>6, <2>2 DEF WorkerExecute, producer, DataInv
<1>7. ASSUME NEW w \in Worker, SpuriousWakeup(w) PROVE DataInv'
  <2>1. Held' = Held
    BY <1>7 DEF SpuriousWakeup, TypeInv, TypeOK
  <2>2. QED BY <1>a, <1>b, <1>7, <2>1 DEF SpuriousWakeup, producer, DataInv
<1>8. CASE DeinitStop
  BY <1>a, <1>b, <1>8 DEF DeinitStop, worker, producer, DataInv
<1>9. CASE DeinitNotify
  <2>1. Held' = Held
    BY <1>9 DEF DeinitNotify, NotifyAll, TypeInv, TypeOK
  <2>2. QED BY <1>a, <1>b, <1>9, <2>1 DEF DeinitNotify, producer, DataInv
<1>10. CASE DeinitJoin
  BY <1>a, <1>b, <1>10 DEF DeinitJoin, worker, producer, DataInv
<1>11. CASE UNCHANGED vars
  BY <1>a, <1>b, <1>11 DEF vars, DataInv
<1>12. QED
  BY <1>1, <1>2, <1>3, <1>4, <1>5, <1>6, <1>7, <1>8, <1>9, <1>10, <1>11
     DEF Next, WorkerStep, Deinit

LEMMA InvCorrect == Spec => [](TypeInv /\ ControlInv /\ DataInv)
<1>1. Init => DataInv
  BY DataInit
<1>2. TypeInv /\ DataInv /\ [Next]_vars => DataInv'
  BY DataStep
<1>3. QED BY <1>1, <1>2, ControlCorrect, PTL DEF Spec

\* Tasks leave the queue in the order they came, none lost and none twice.
THEOREM OrderIsKept == Spec => []FifoOnce
<1>1. TypeInv /\ ControlInv /\ DataInv => FifoOnce
  BY DEF DataInv
<1>2. QED BY <1>1, InvCorrect, PTL

\* When the destructor returns, every command that was enqueued was executed.
THEOREM DestructorDrains == Spec => []DestroyedIsDrained
<1>1. TypeInv /\ ControlInv /\ DataInv => DestroyedIsDrained
  <2> SUFFICES ASSUME TypeInv, ControlInv, DataInv, dpc = "destroyed"
               PROVE  finished = {submitted[i] : i \in 1 .. Len(submitted)}
      BY DEF DestroyedIsDrained
  <2>1. \A w \in Worker : wpc[w] = "returned"
    BY DEF ControlInv, ReturnedIsFinal
  <2>2. tasks = <<>>
    BY <2>1, SchedulerAssumption DEF ControlInv, ReturnedIsFinal
  <2>3. submitted = taken
    BY <2>2, ConcatEmptySeq DEF DataInv, FifoOnce, TypeInv, TypeOK
  <2>4. {w \in Worker : wpc[w] = "executing"} = {}
    BY <2>1
  <2>5. QED BY <2>3, <2>4 DEF DataInv, TakenIsHeldOrFinished
<1>2. QED BY <1>1, InvCorrect, PTL

-----------------------------------------------------------------------------
(* No lost wake-up, counted. *)

LEMMA Finite ==
  /\ IsFiniteSet(Ready) /\ IsFiniteSet(Notifying)
  /\ Cardinality(Ready) \in Nat /\ Cardinality(Notifying) \in Nat
<1>1. IsFiniteSet(Ready) /\ IsFiniteSet(Notifying)
  BY FS_Subset, SchedulerAssumption DEF Ready, Notifying
<1>2. QED BY <1>1, FS_CardinalityType

LEMMA FiniteNext ==
  /\ IsFiniteSet(Ready') /\ IsFiniteSet(Notifying')
  /\ Cardinality(Ready') \in Nat /\ Cardinality(Notifying') \in Nat
<1>1. IsFiniteSet(Ready') /\ IsFiniteSet(Notifying')
  BY FS_Subset, SchedulerAssumption DEF Ready, Notifying
<1>2. QED BY <1>1, FS_CardinalityType

LEMMA CoverStep == TypeInv /\ QueuedTasksAreCovered /\ [Next]_vars => QueuedTasksAreCovered'
<1> SUFFICES ASSUME TypeInv, QueuedTasksAreCovered, [Next]_vars, Waiting' # {}
             PROVE  Len(tasks') <= Cardinality(Ready') + Cardinality(Notifying')
    BY DEF QueuedTasksAreCovered
<1>0. Len(tasks) \in Nat
  BY DEF TypeInv, TypeOK
<1>a. ASSUME Waiting # {}
      PROVE  Len(tasks) <= Cardinality(Ready) + Cardinality(Notifying)
  BY <1>a DEF QueuedTasksAreCovered
<1>1. ASSUME NEW p \in Producer, EnqueueTask(p)
      PROVE  Len(tasks') <= Cardinality(Ready') + Cardinality(Notifying')
  <2>1. Waiting # {} /\ Ready' = Ready
    BY <1>1 DEF EnqueueTask, worker, Waiting, Ready
  <2>2. Notifying' = Notifying \cup {p} /\ p \notin Notifying
    BY <1>1 DEF EnqueueTask, Notifying, TypeInv, TypeOK
  <2>3. Cardinality(Notifying') = Cardinality(Notifying) + 1
    BY <2>2, Finite, FS_AddElement
  <2>4. Len(tasks') = Len(tasks) + 1
    BY <1>1 DEF EnqueueTask, TypeInv, TypeOK
  <2>5. QED BY <1>0, <1>a, <2>1, <2>3, <2>4, Finite
<1>2. ASSUME NEW p \in Producer, EnqueueNotify(p)
      PROVE  Len(tasks') <= Cardinality(Ready') + Cardinality(Notifying')
  <2>1. Waiting # {}
    BY <1>2 DEF EnqueueNotify, NotifyOne, Waiting
  <2>2. PICK w \in Waiting : wpc' = [wpc EXCEPT ![w] = "ready"]
    BY <1>2, <2>1 DEF EnqueueNotify, NotifyOne
  <2>3. Ready' = Ready \cup {w} /\ w \notin Ready
    BY <2>2 DEF Ready, Waiting, TypeInv, TypeOK
  <2>4. Notifying' = Notifying \ {p} /\ p \in Notifying
    BY <1>2 DEF EnqueueNotify, Notifying, TypeInv, TypeOK
  <2>5. Cardinality(Ready') = Cardinality(Ready) + 1
    BY <2>3, Finite, FS_AddElement
  <2>6. Cardinality(Notifying') = Cardinality(Notifying) - 1
    BY <2>4, Finite, FS_RemoveElement
  <2>7. tasks' = tasks
    BY <1>2 DEF EnqueueNotify
  <2>8. QED BY <1>0, <1>a, <2>1, <2>5, <2>6, <2>7, Finite
<1>3. ASSUME NEW w \in Worker, WorkerWait(w) \/ WorkerReturn(w)
      PROVE  Len(tasks') <= Cardinality(Ready') + Cardinality(Notifying')
  <2>1. tasks' = <<>>
    BY <1>3 DEF WorkerWait, WorkerReturn
  <2>2. Len(tasks') = 0
    BY <2>1, EmptySeq
  <2>3. QED BY <2>2, FiniteNext
<1>4. ASSUME NEW w \in Worker, WorkerTake(w)
      PROVE  Len(tasks') <= Cardinality(Ready') + Cardinality(Notifying')
  <2>1. Waiting # {} /\ Notifying' = Notifying
    BY <1>4 DEF WorkerTake, producer, Waiting, Notifying, TypeInv, TypeOK
  <2>2. Ready' = Ready \ {w} /\ w \in Ready
    BY <1>4 DEF WorkerTake, Ready, TypeInv, TypeOK
  <2>3. Cardinality(Ready') = Cardinality(Ready) - 1
    BY <2>2, Finite, FS_RemoveElement
  <2>4. Len(tasks') = Len(tasks) - 1
    BY <1>4, HeadTailProperties DEF WorkerTake, TypeInv, TypeOK
  <2>5. QED BY <1>0, <1>a, <2>1, <2>3, <2>4, Finite
<1>5. ASSUME NEW w \in Worker, WorkerExecute(w) \/ SpuriousWakeup(w)
      PROVE  Len(tasks') <= Cardinality(Ready') + Cardinality(Notifying')
  <2>1. Waiting # {} /\ Notifying' = Notifying
    BY <1>5 DEF WorkerExecute, SpuriousWakeup, producer, Waiting, Notifying, TypeInv, TypeOK
  <2>2. Ready' = Ready \cup {w}
    BY <1>5 DEF WorkerExecute, SpuriousWakeup, Ready, TypeInv, TypeOK
  <2>3. Cardinality(Ready') >= Cardinality(Ready)
    <3>1. Cardinality(Ready \cup {w}) =
            IF w \in Ready THEN Cardinality(Ready) ELSE Cardinality(Ready) + 1
      BY Finite, FS_AddElement
    <3>2. QED BY <2>2, <3>1, Finite
  <2>4. tasks' = tasks
    BY <1>5 DEF WorkerExecute, SpuriousWakeup
  <2>5. QED BY <1>0, <1>a, <2>1, <2>3, <2>4, Finite, FiniteNext
<1>6. ~DeinitNotify
  BY DEF DeinitNotify, NotifyAll, Waiting, TypeInv, TypeOK
<1>7. ASSUME DeinitStop \/ DeinitJoin \/ UNCHANGED vars
      PROVE  Len(tasks') <= Cardinality(Ready') + Cardinality(Notifying')
  <2>1. tasks' = tasks /\ wpc' = wpc /\ ppc' = ppc
    BY <1>7 DEF DeinitStop, DeinitJoin, vars, worker, producer
  <2>2. Waiting # {} /\ Ready' = Ready /\ Notifying' = Notifying
    BY <2>1 DEF Waiting, Ready, Notifying
  <2>3. QED BY <1>a, <2>1, <2>2
<1>8. QED
  BY <1>1, <1>2, <1>3, <1>4, <1>5, <1>6, <1>7 DEF Next, WorkerStep, Deinit

\* While a worker sleeps, every queued task has a worker about to look at the
\* queue or a notification about to be sent: notifying outside the mutex loses
\* no wake-up, with any number of producers and workers.
THEOREM NoLostWakeup == Spec => []QueuedTasksAreCovered
<1>1. Init => QueuedTasksAreCovered
  BY DEF Init, QueuedTasksAreCovered, Waiting
<1>2. Spec => []TypeInv
  BY TypeInit, TypeStep, PTL DEF Spec
<1>3. QED BY <1>1, <1>2, CoverStep, PTL DEF Spec

-----------------------------------------------------------------------------
(* Refinement of TaskQueue *)

LEMMA RefinementInit == Init => Queue!Init
BY DEF Init, Queue!Init

LEMMA RefinementStep ==
  TypeInv /\ ControlInv /\ [Next]_vars => [Queue!Next]_(Queue!vars)
<1> SUFFICES ASSUME TypeInv, ControlInv, [Next]_vars
             PROVE  [Queue!Next]_(Queue!vars)
    OBVIOUS
<1> USE DEF TypeInv, TypeOK, Queue!vars
<1>1. ASSUME NEW p \in Producer, EnqueueTask(p) PROVE Queue!Next
  <2>1. <<p, sent[p] + 1>> \in Task
    BY <1>1, SchedulerAssumption DEF EnqueueTask, Task
  <2>2. Queue!Submit(<<p, sent[p] + 1>>)
    BY <1>1 DEF EnqueueTask, Queue!Submit, worker
  <2>3. QED BY <2>1, <2>2 DEF Queue!Next
<1>2. ASSUME NEW p \in Producer, EnqueueNotify(p) PROVE UNCHANGED Queue!vars
  BY <1>2 DEF EnqueueNotify
<1>3. ASSUME NEW w \in Worker, WorkerWait(w) \/ WorkerReturn(w) \/ SpuriousWakeup(w)
      PROVE  UNCHANGED Queue!vars
  BY <1>3 DEF WorkerWait, WorkerReturn, SpuriousWakeup
<1>4. ASSUME NEW w \in Worker, WorkerTake(w) PROVE Queue!Next
  <2>1. task[w] = NoTask
    BY <1>4 DEF WorkerTake, TaskWhileExecuting
  <2>2. Queue!Begin(w)
    BY <1>4, <2>1 DEF WorkerTake, Queue!Begin
  <2>3. QED BY <2>2 DEF Queue!Next
<1>5. ASSUME NEW w \in Worker, WorkerExecute(w) PROVE Queue!Next
  <2>1. task[w] # NoTask
    BY <1>5 DEF WorkerExecute, TaskWhileExecuting
  <2>2. Queue!Complete(w)
    BY <1>5, <2>1 DEF WorkerExecute, Queue!Complete
  <2>3. QED BY <2>2 DEF Queue!Next
<1>6. CASE DeinitStop \/ DeinitNotify
  BY <1>6 DEF DeinitStop, DeinitNotify, worker
<1>7. CASE DeinitJoin
  <2>1. \A w \in Worker : wpc[w] = "returned"
    BY <1>7 DEF DeinitJoin
  <2>2. \A w \in Worker : task[w] = NoTask
    BY <2>1 DEF TaskWhileExecuting
  <2>3. tasks = <<>>
    BY <2>1, SchedulerAssumption DEF ControlInv, ReturnedIsFinal
  <2>4. Queue!Close
    BY <1>7, <2>2, <2>3 DEF DeinitJoin, Queue!Close, worker
  <2>5. QED BY <2>4 DEF Queue!Next
<1>8. CASE UNCHANGED vars
  BY <1>8 DEF vars
<1>9. QED
  BY <1>1, <1>2, <1>3, <1>4, <1>5, <1>6, <1>7, <1>8 DEF Next, WorkerStep, Deinit

\* Every behaviour of the threads, the mutex and the condition variable is one
\* of the plain queue.
THEOREM RefinesTaskQueue == Spec => Queue!Spec
<1>1. Spec => [](TypeInv /\ ControlInv)
  BY ControlCorrect
<1>2. QED
  BY <1>1, RefinementInit, RefinementStep, PTL DEF Spec, Queue!Spec
=============================================================================
