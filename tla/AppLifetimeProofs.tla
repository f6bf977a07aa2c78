-------------------------- MODULE AppLifetimeProofs --------------------------
(* Theorems about AppLifetime, for any number of client threads and requests. *)
EXTENDS AppLifetime, TLAPS

\* Main and worker threads, the client threads and "none" are different.
LEMMA Threads ==
  /\ Worker = {"worker"}
  /\ "main" \notin Client /\ "worker" \notin Client /\ NoThread \notin Client
  /\ NoThread # "main" /\ NoThread # "worker"
  /\ NoTask \notin Task
BY AppAssumption DEF Worker

-----------------------------------------------------------------------------
(* Type correctness *)

LEMMA TypeInit == Init => TypeOK
<1> SUFFICES ASSUME Init PROVE TypeOK
    OBVIOUS
<1>1. /\ received \in [Client -> 0 .. MaxRequests]
      /\ queue \in Seq(Task)
      /\ slot \in [Worker -> Task \cup {NoTask}]
      /\ slot["worker"] = NoTask
  BY AppAssumption DEF Init, Worker
<1>2. QED BY <1>1 DEF Init, TypeOK, Playing, Object

\* What the worker's steps and the client's dispatch do to the queue.
LEMMA QueueTypes ==
  ASSUME TypeOK
  PROVE  /\ \A t \in Task : Append(queue, t) \in Seq(Task)
         /\ queue # <<>> => Head(queue) \in Task /\ Tail(queue) \in Seq(Task)
BY DEF TypeOK

LEMMA TypeMain == TypeOK /\ Main => TypeOK'
<1> SUFFICES ASSUME TypeOK, Main PROVE TypeOK'
    OBVIOUS
<1> USE Threads DEF TypeOK, tasks, gst, client, shared, Playing, Object, Worker
<1>1. CASE MainCreate BY <1>1 DEF MainCreate
<1>2. CASE MainSetPlaying BY <1>2 DEF MainSetPlaying
<1>3. CASE MainNewLoop BY <1>3 DEF MainNewLoop
<1>4. CASE MainRun BY <1>4 DEF MainRun
<1>5. CASE MainBus BY <1>5 DEF MainBus, Quit
<1>6. CASE MainBusNull BY <1>6 DEF MainBusNull, SetNull
<1>7. CASE MainReturn BY <1>7 DEF MainReturn
<1>8. CASE MainDropServer
  <2>1. orderly' \in BOOLEAN
    BY <1>8 DEF MainDropServer, Orderly
  <2>2. QED BY <1>8, <2>1 DEF MainDropServer
<1>9. CASE MainDropDispatcher BY <1>9 DEF MainDropDispatcher
<1>10. CASE MainDropManager BY <1>10 DEF MainDropManager
<1>11. CASE MainDropScheduler BY <1>11 DEF MainDropScheduler
<1>12. CASE MainJoinWorker BY <1>12 DEF MainJoinWorker, Scheduler!Close
<1>13. QED
  BY <1>1, <1>2, <1>3, <1>4, <1>5, <1>6, <1>7, <1>8, <1>9, <1>10, <1>11, <1>12 DEF Main

\* When the destructor on the worker ends, the worker is in it and has no task.
LEMMA TypeDestroy == TypeOK /\ ServerKept /\ (Post \/ Destroy) => TypeOK'
<1> SUFFICES ASSUME TypeOK, ServerKept, Post \/ Destroy PROVE TypeOK'
    OBVIOUS
<1> USE Threads DEF TypeOK, tasks, gst, client, shared, Playing, Object, Worker
<1>1. CASE Post BY <1>1 DEF Post
<1>2. CASE DestroyServer
  <2>1. crashed' \in BOOLEAN
    BY <1>2 DEF DestroyServer
  <2>a. alive' \subseteq Object
    BY <1>2 DEF DestroyServer
  <2>2. /\ destroyer' = NoThread
        /\ mpc' \in {mpc, "drop_dispatcher"}
        /\ wpc' = IF destroyer = "worker" THEN "wait" ELSE wpc
        /\ UNCHANGED <<refs, gst, client, orderly, tasks>>
    BY <1>2 DEF DestroyServer
  <2>3. destroyer = "worker" => wpc = "destroying"
    BY DEF ServerKept
  <2>4. QED BY <2>1, <2>a, <2>2, <2>3
<1>3. CASE DestroyServerOnClient BY <1>3 DEF DestroyServerOnClient
<1>4. QED BY <1>1, <1>2, <1>3 DEF Destroy

LEMMA TypeClient ==
  ASSUME TypeOK, NEW c \in Client, ClientLoop(c) \/ ClientParse(c) \/ ClientDisconnect(c)
  PROVE  TypeOK'
<1> USE Threads DEF TypeOK, tasks, gst, client, shared, Playing, Object, Worker
<1>1. CASE ClientDispatch(c)
  <2>1. queue' \in Seq(Task) /\ UNCHANGED <<slot, finished, closed>>
    <3>1. CASE UNCHANGED tasks
      BY <3>1
    <3>2. CASE \E stop \in BOOLEAN : Scheduler!Submit([from |-> c, stop |-> stop])
      <4>1. PICK stop \in BOOLEAN : Scheduler!Submit([from |-> c, stop |-> stop])
        BY <3>2
      <4>2. [from |-> c, stop |-> stop] \in Task
        BY DEF Task
      <4>3. QED BY <4>1, <4>2, QueueTypes DEF Scheduler!Submit
    <3>3. QED BY <1>1, <3>1, <3>2 DEF ClientDispatch
  <2>2. QED BY <1>1, <2>1 DEF ClientDispatch
<1>2. CASE ClientRelease(c) BY <1>2 DEF ClientRelease
<1>3. CASE ClientCheck(c) BY <1>3 DEF ClientCheck
<1>4. CASE ClientTimeout(c) BY <1>4 DEF ClientTimeout
<1>5. CASE ClientParse(c)
  <2>1. received' \in [Client -> 0 .. MaxRequests]
    BY <1>5, AppAssumption DEF ClientParse
  <2>2. /\ cpc' \in [Client -> {"check", "read", "dispatch", "release", "closed"}]
        /\ crashed' \in BOOLEAN
    BY <1>5 DEF ClientParse
  <2>3. QED BY <1>5, <2>1, <2>2 DEF ClientParse
<1>6. CASE ClientDisconnect(c) BY <1>6 DEF ClientDisconnect
<1>7. QED BY <1>1, <1>2, <1>3, <1>4, <1>5, <1>6 DEF ClientLoop

LEMMA TypeWorker == TypeOK /\ WorkerStep => TypeOK'
<1> SUFFICES ASSUME TypeOK, WorkerStep PROVE TypeOK'
    OBVIOUS
<1> USE Threads DEF TypeOK, tasks, gst, client, shared, Playing, Object, Worker
<1>1. CASE WorkerBegin BY <1>1, QueueTypes DEF WorkerBegin, Scheduler!Begin
<1>2. CASE WorkerStop BY <1>2 DEF WorkerStop, Quit
<1>3. CASE WorkerSetNull BY <1>3 DEF WorkerSetNull, SetNull
<1>4. CASE WorkerOther BY <1>4 DEF WorkerOther
<1>5. CASE WorkerRelease BY <1>5 DEF WorkerRelease, Scheduler!Complete
<1>6. QED BY <1>1, <1>2, <1>3, <1>4, <1>5 DEF WorkerStep

LEMMA TypeStep == IInv /\ [Next]_vars => TypeOK'
<1> SUFFICES ASSUME IInv, [Next]_vars PROVE TypeOK'
    OBVIOUS
<1>1. CASE Next
  <2>1. TypeOK /\ ServerKept
    BY <1>1 DEF IInv, Next, Up
  <2>2. QED BY <1>1, <2>1, TypeMain, TypeDestroy, TypeClient, TypeWorker DEF Next
<1>2. CASE UNCHANGED vars
  BY <1>2 DEF IInv, TypeOK, vars, tasks, gst, client, shared
<1>3. QED BY <1>1, <1>2

-----------------------------------------------------------------------------
(* Ownership.  Owned is what IInv says of a process that has not crashed. *)

Owned == OwnersKeep /\ ServerKept /\ MainRefs

LEMMA OwnedInit == Init => Owned
BY Threads DEF Init, Owned, OwnersKeep, ServerKept, MainRefs, Requested, Object, Playing, Worker

LEMMA OwnedMain == TypeOK /\ Owned /\ Main => Owned'
<1> SUFFICES ASSUME TypeOK, Owned, Main PROVE Owned'
    OBVIOUS
<1> USE Threads DEF Owned, OwnersKeep, ServerKept, MainRefs, Requested, Playing, Object,
                    tasks, gst, client, shared
<1>1. CASE MainCreate BY <1>1 DEF MainCreate
<1>2. CASE MainSetPlaying BY <1>2 DEF MainSetPlaying
<1>3. CASE MainNewLoop BY <1>3 DEF MainNewLoop
<1>4. CASE MainRun BY <1>4 DEF MainRun
<1>5. CASE MainBus BY <1>5 DEF MainBus
<1>6. CASE MainBusNull BY <1>6 DEF MainBusNull
<1>7. CASE MainReturn BY <1>7 DEF MainReturn
<1>8. CASE MainDropServer BY <1>8 DEF MainDropServer
<1>9. CASE MainDropDispatcher BY <1>9 DEF MainDropDispatcher
<1>10. CASE MainDropManager BY <1>10 DEF MainDropManager
<1>11. CASE MainDropScheduler BY <1>11 DEF MainDropScheduler
<1>12. CASE MainJoinWorker BY <1>12 DEF MainJoinWorker, Scheduler!Close
<1>13. QED
  BY <1>1, <1>2, <1>3, <1>4, <1>5, <1>6, <1>7, <1>8, <1>9, <1>10, <1>11, <1>12 DEF Main

LEMMA OwnedDestroy == TypeOK /\ Owned /\ (Post \/ Destroy) /\ ~crashed' => Owned'
<1> SUFFICES ASSUME TypeOK, Owned, Post \/ Destroy, ~crashed' PROVE Owned'
    OBVIOUS
<1> USE Threads DEF Owned, OwnersKeep, ServerKept, MainRefs, Requested, Playing, Object,
                    tasks, gst, client, shared
<1>1. CASE Post BY <1>1 DEF Post
<1>2. CASE DestroyServer
  <2>1. /\ alive' = alive \ DestroyedWithServer
        /\ "scheduler" \notin DestroyedWithServer
        /\ destroyer \in {"main", "worker"} /\ destroyer' = NoThread
        /\ \A c \in Client : cpc'[c] = "closed"
        /\ mpc' = IF destroyer = "main" THEN "drop_dispatcher" ELSE mpc
        /\ wpc' = IF destroyer = "worker" THEN "wait" ELSE wpc
        /\ refs' = refs /\ queue' = queue /\ slot' = slot
    BY <1>2 DEF DestroyServer, Worker
  <2>2. "server" \notin refs /\ ~Requested
    BY <2>1
  <2>3. \/ DestroyedWithServer = {"server"} /\ "dispatcher" \in refs
        \/ /\ "dispatcher" \notin refs /\ "scheduler" \in refs
           /\ DestroyedWithServer = {"server", "dispatcher"} \cup ({"manager"} \ refs)
    BY <2>1 DEF DestroyedWithServer
  <2>4. OwnersKeep'
    BY <2>1, <2>2, <2>3
  <2>5. ServerKept'
    <3>1. ~Requested'
      BY <2>1, <2>2
    <3>2. "server" \notin refs'
      BY <2>1, <2>2
    <3>3. mpc' # "destroying" /\ wpc' # "destroying"
      BY <2>1
    <3>4. QED BY <2>1, <3>1, <3>2, <3>3
  <2>6. MainRefs'
    BY <2>1, <2>2, <2>3
  <2>7. QED BY <2>4, <2>5, <2>6
<1>3. CASE DestroyServerOnClient BY <1>3 DEF DestroyServerOnClient
<1>4. QED BY <1>1, <1>2, <1>3 DEF Destroy

LEMMA OwnedClient ==
  ASSUME TypeOK, Owned, ~crashed', NEW c \in Client,
         ClientLoop(c) \/ ClientParse(c) \/ ClientDisconnect(c)
  PROVE  Owned'
<1> USE Threads DEF Owned, OwnersKeep, ServerKept, MainRefs, Requested, Playing, Object,
                    tasks, gst, client, shared, TypeOK
<1>1. CASE ClientDispatch(c) BY <1>1 DEF ClientDispatch, Scheduler!Submit
<1>2. CASE ClientRelease(c) BY <1>2 DEF ClientRelease
<1>3. CASE ClientCheck(c) BY <1>3 DEF ClientCheck
<1>4. CASE ClientTimeout(c) BY <1>4 DEF ClientTimeout
<1>5. CASE ClientParse(c) BY <1>5 DEF ClientParse
<1>6. CASE ClientDisconnect(c) BY <1>6 DEF ClientDisconnect
<1>7. QED BY <1>1, <1>2, <1>3, <1>4, <1>5, <1>6 DEF ClientLoop

LEMMA OwnedWorker == TypeOK /\ Owned /\ WorkerStep => Owned'
<1> SUFFICES ASSUME TypeOK, Owned, WorkerStep PROVE Owned'
    OBVIOUS
<1> USE Threads DEF Owned, OwnersKeep, ServerKept, MainRefs, Requested, Playing, Object,
                    tasks, gst, client, shared, TypeOK
<1>1. CASE WorkerBegin BY <1>1 DEF WorkerBegin, Scheduler!Begin
<1>2. CASE WorkerStop BY <1>2 DEF WorkerStop
<1>3. CASE WorkerSetNull BY <1>3 DEF WorkerSetNull
<1>4. CASE WorkerOther BY <1>4 DEF WorkerOther
<1>5. CASE WorkerRelease BY <1>5 DEF WorkerRelease, Scheduler!Complete
<1>6. QED BY <1>1, <1>2, <1>3, <1>4, <1>5 DEF WorkerStep

LEMMA OwnedStep == IInv /\ [Next]_vars => IInv'
<1> SUFFICES ASSUME IInv, [Next]_vars PROVE IInv'
    OBVIOUS
<1>1. TypeOK' BY TypeStep
<1>2. ASSUME ~crashed' PROVE Owned'
  <2>1. CASE Next
    <3>1. TypeOK /\ Owned
      BY <2>1 DEF IInv, Owned, Next, Up
    <3>2. QED
      BY <1>2, <2>1, <3>1, OwnedMain, OwnedDestroy, OwnedClient, OwnedWorker DEF Next
  <2>2. CASE UNCHANGED vars
    BY <1>2, <2>2 DEF IInv, Owned, OwnersKeep, ServerKept, MainRefs, Requested,
                      vars, tasks, client, shared
  <2>3. QED BY <2>1, <2>2
<1>3. QED BY <1>1, <1>2 DEF IInv, Owned

LEMMA Inductive == Spec => []IInv
<1>1. Init => IInv BY TypeInit, OwnedInit DEF IInv, Owned
<1>2. IInv /\ [Next]_vars => IInv' BY OwnedStep
<1>3. QED BY <1>1, <1>2, PTL DEF Spec

\* Every variable keeps its type: in particular the worker has a task, never the
\* null pointer, when it executes a command.
THEOREM TypeCorrect == Spec => []TypeOK
<1>1. IInv => TypeOK BY DEF IInv
<1>2. QED BY <1>1, Inductive, PTL

\* With any number of clients, whatever the order in which main, the worker and
\* the client threads let go of their references, none of them uses an object
\* that was destroyed, up to the moment the process is terminated.
THEOREM NothingUsedAfterDestruction == Spec => []UsedIsAlive
<1>1. IInv => UsedIsAlive
  <2> SUFFICES ASSUME IInv, ~crashed PROVE UsedIsAlive
      BY DEF UsedIsAlive
  <2>1. "server" \in alive => Object \subseteq alive
    BY DEF IInv, OwnersKeep, Object
  <2>2. mpc \in Playing => "manager" \in alive
    BY DEF IInv, MainRefs, OwnersKeep, Object
  <2>3. \A c \in Client : cpc[c] # "closed" => "server" \in alive
    BY DEF IInv, ServerKept
  <2>4. wpc \in {"execute", "null"} \/ queue # <<>> => "server" \in alive
    BY DEF IInv, ServerKept, Requested, TypeOK
  <2>5. wpc # "returned" => "scheduler" \in alive
    BY DEF IInv, OwnersKeep
  <2>6. QED BY <2>1, <2>2, <2>3, <2>4, <2>5 DEF UsedIsAlive, Object
<1>2. QED BY <1>1, Inductive, PTL

-----------------------------------------------------------------------------
(* The way out *)

LEMMA StopInit == Init => StopBeforeReturn
BY DEF Init, StopBeforeReturn, Playing

LEMMA StopStep == TypeOK /\ StopBeforeReturn /\ ServerKept /\ Next => StopBeforeReturn'
<1> SUFFICES ASSUME TypeOK, StopBeforeReturn, ServerKept, Next PROVE StopBeforeReturn'
    OBVIOUS
<1> USE DEF StopBeforeReturn, Playing, tasks, gst, client, shared
<1>1. CASE Main
  <2>1. CASE MainCreate BY <2>1 DEF MainCreate
  <2>2. CASE MainSetPlaying BY <2>2 DEF MainSetPlaying
  <2>3. CASE MainNewLoop BY <2>3 DEF MainNewLoop
  <2>4. CASE MainRun BY <2>4 DEF MainRun
  <2>5. CASE MainBus BY <2>5 DEF MainBus, Quit
  <2>6. CASE MainBusNull BY <2>6 DEF MainBusNull, SetNull
  <2>7. CASE MainReturn BY <2>7 DEF MainReturn
  <2>8. CASE MainDropServer BY <2>8 DEF MainDropServer
  <2>9. CASE MainDropDispatcher \/ MainDropManager \/ MainDropScheduler
    BY <2>9 DEF MainDropDispatcher, MainDropManager, MainDropScheduler
  <2>10. CASE MainJoinWorker BY <2>10 DEF MainJoinWorker
  <2>11. QED
    BY <1>1, <2>1, <2>2, <2>3, <2>4, <2>5, <2>6, <2>7, <2>8, <2>9, <2>10 DEF Main
<1>2. CASE Post BY <1>2 DEF Post
<1>3. CASE Destroy
  <2>1. CASE DestroyServer BY <2>1 DEF DestroyServer, ServerKept
  <2>2. CASE DestroyServerOnClient BY <2>2 DEF DestroyServerOnClient
  <2>3. QED BY <1>3, <2>1, <2>2 DEF Destroy
<1>4. CASE WorkerStep
  <2>1. CASE WorkerBegin BY <2>1 DEF WorkerBegin
  <2>2. CASE WorkerStop BY <2>2 DEF WorkerStop, Quit
  <2>3. CASE WorkerSetNull BY <2>3 DEF WorkerSetNull, SetNull
  <2>4. CASE WorkerOther BY <2>4 DEF WorkerOther
  <2>5. CASE WorkerRelease BY <2>5 DEF WorkerRelease
  <2>6. QED BY <1>4, <2>1, <2>2, <2>3, <2>4, <2>5 DEF WorkerStep
<1>5. CASE \E c \in Client : ClientLoop(c) \/ ClientParse(c) \/ ClientDisconnect(c)
  <2>1. UNCHANGED <<mpc, loop, playing, wpc>>
    BY <1>5 DEF ClientLoop, ClientDispatch, ClientRelease, ClientCheck, ClientTimeout,
                ClientParse, ClientDisconnect
  <2>2. QED BY <2>1
<1>6. QED BY <1>1, <1>2, <1>3, <1>4, <1>5 DEF Next

\* Main lets go of the server.
LEMMA CleanDrop ==
  ASSUME TypeOK, Owned, StopBeforeReturn, MainDropServer, orderly'
  PROVE  CleanSoFar'
<1> USE DEF tasks, gst, client
<1>1. queue = <<>> /\ wpc = "wait" /\ slot["worker"] = NoTask
  BY DEF MainDropServer, Orderly, TypeOK
<1>2. ~Requested /\ ~Requested'
  BY <1>1 DEF MainDropServer, Orderly, Requested
<1>3. mpc = "drop_server" /\ mpc' = "destroying" /\ wpc' = "wait"
  BY <1>1, <1>2 DEF MainDropServer
<1>4. ~playing'
  BY <1>1, <1>3 DEF MainDropServer, StopBeforeReturn, Playing
<1>5. QED BY <1>2, <1>3, <1>4 DEF CleanSoFar, Playing

\* From then on.
LEMMA CleanStep ==
  ASSUME TypeOK, Owned, CleanSoFar, Next, ~crashed'
  PROVE  CleanSoFar'
<1> USE Threads DEF CleanSoFar, Playing, Requested, tasks, gst, client, shared
<1>1. CASE Main
  <2>1. CASE MainDropDispatcher BY <2>1 DEF MainDropDispatcher
  <2>2. CASE MainDropManager BY <2>2 DEF MainDropManager
  <2>3. CASE MainDropScheduler BY <2>3 DEF MainDropScheduler
  <2>4. CASE MainJoinWorker BY <2>4 DEF MainJoinWorker, Scheduler!Close
  <2>5. ~MainCreate /\ ~MainSetPlaying /\ ~MainNewLoop /\ ~MainRun /\ ~MainBus
          /\ ~MainBusNull /\ ~MainReturn /\ ~MainDropServer
    BY DEF MainCreate, MainSetPlaying, MainNewLoop, MainRun, MainBus, MainBusNull,
           MainReturn, MainDropServer
  <2>6. QED BY <1>1, <2>1, <2>2, <2>3, <2>4, <2>5 DEF Main
<1>2. CASE Post BY <1>2 DEF Post
<1>3. CASE Destroy
  <2>1. CASE DestroyServer
    <3>1. destroyer = "main" /\ mpc = "destroying" /\ mpc' = "drop_dispatcher"
      BY <2>1 DEF DestroyServer, Owned, ServerKept, Worker
    <3>2. "server" \notin alive' /\ wpc' = wpc
      BY <2>1, <3>1 DEF DestroyServer, DestroyedWithServer
    <3>3. QED BY <2>1, <3>1, <3>2 DEF DestroyServer
  <2>2. CASE DestroyServerOnClient BY <2>2 DEF DestroyServerOnClient
  <2>3. QED BY <1>3, <2>1, <2>2 DEF Destroy
<1>4. CASE WorkerStep
  BY <1>4 DEF WorkerStep, WorkerBegin, WorkerStop, WorkerSetNull, WorkerOther,
              WorkerRelease, Scheduler!Begin
<1>5. CASE \E c \in Client : ClientLoop(c) \/ ClientParse(c) \/ ClientDisconnect(c)
  <2>1. PICK c \in Client : ClientLoop(c) \/ ClientParse(c) \/ ClientDisconnect(c)
    BY <1>5
  <2>2. cpc[c] \notin {"dispatch", "release"}
    OBVIOUS
  <2>3. ~ClientParse(c)
    BY DEF ClientParse, Owned, ServerKept
  <2>4. ClientCheck(c) \/ ClientTimeout(c) \/ ClientDisconnect(c)
    BY <2>1, <2>2, <2>3 DEF ClientLoop, ClientDispatch, ClientRelease
  <2>5. /\ UNCHANGED <<mpc, alive, playing, wpc, queue, slot>>
        /\ \A d \in Client : cpc'[d] \notin {"dispatch", "release"}
    BY <2>4 DEF ClientCheck, ClientTimeout, ClientDisconnect, TypeOK
  <2>6. QED BY <2>5
<1>6. QED BY <1>1, <1>2, <1>3, <1>4, <1>5 DEF Next

LEMMA ExitStep == IInv /\ ExitInv /\ [Next]_vars => ExitInv'
<1> SUFFICES ASSUME IInv, ExitInv, [Next]_vars PROVE ExitInv'
    OBVIOUS
<1>1. CASE Next
  <2>1. TypeOK /\ Owned /\ StopBeforeReturn /\ ~crashed
    BY <1>1 DEF IInv, ExitInv, Owned, Next, Up
  <2>2. StopBeforeReturn'
    BY <1>1, <2>1, StopStep DEF Owned
  <2>3. ASSUME orderly', ~crashed' PROVE CleanSoFar'
    <3>1. CASE MainDropServer
      BY <2>1, <2>3, <3>1, CleanDrop
    <3>2. CASE ~MainDropServer
      <4>1. orderly' = orderly
        BY <1>1, <3>2 DEF Next, Main, Destroy, WorkerStep, ClientLoop,
             MainCreate, MainSetPlaying, MainNewLoop, MainRun, MainBus, MainBusNull,
             MainReturn, MainDropDispatcher, MainDropManager, MainDropScheduler,
             MainJoinWorker, Post, DestroyServer, DestroyServerOnClient, ClientDispatch,
             ClientRelease, ClientCheck, ClientTimeout, ClientParse, ClientDisconnect,
             WorkerBegin, WorkerStop, WorkerSetNull, WorkerOther, WorkerRelease
      <4>2. CleanSoFar
        BY <2>1, <2>3, <4>1 DEF ExitInv
      <4>3. QED BY <1>1, <2>1, <2>3, <4>2, CleanStep
    <3>3. QED BY <3>1, <3>2
  <2>4. QED BY <2>2, <2>3 DEF ExitInv
<1>2. CASE UNCHANGED vars
  BY <1>2 DEF ExitInv, StopBeforeReturn, CleanSoFar, Requested, vars, tasks, gst, client,
              shared
<1>3. QED BY <1>1, <1>2

\* When no request is under way as main lets go of the server, no destructor is
\* left to another thread: the process exits with the server, the dispatcher,
\* the manager and the scheduler destroyed and the pipeline stopped.
THEOREM QuietExitIsClean == Spec => []OrderlyExit
<1>1. Init => ExitInv
  BY StopInit DEF Init, ExitInv
<1>2. IInv /\ ExitInv /\ [Next]_vars => ExitInv'
  BY ExitStep
<1>3. IInv /\ ExitInv => OrderlyExit
  <2> SUFFICES ASSUME IInv, ExitInv, mpc = "exited", orderly, ~crashed
               PROVE  alive = {} /\ ~playing
      BY DEF OrderlyExit
  <2>1. CleanSoFar
    BY DEF ExitInv
  <2>2. alive \subseteq Object
    BY DEF IInv, TypeOK
  <2>3. QED BY <2>1, <2>2 DEF CleanSoFar, Object
<1>4. QED BY <1>1, <1>2, <1>3, Inductive, PTL DEF Spec
-----------------------------------------------------------------------------
(* What the scheduler asks of its users holds *)

\* What TaskQueue asks of its users, where the code does not ask: a client thread
\* enqueues without looking whether the scheduler still takes tasks, and the
\* destructor closes it without looking whether there are any.
ClosedIsGone == closed => "scheduler" \notin alive

SchedulerReady ==
  ~crashed =>
    /\ \A c \in Client : cpc[c] = "dispatch" => ~closed
    /\ mpc = "join" => queue = <<>> /\ slot["worker"] = NoTask

LEMMA ClosedStep == ClosedIsGone /\ [Next]_vars => ClosedIsGone'
<1> SUFFICES ASSUME ClosedIsGone, [Next]_vars PROVE ClosedIsGone'
    OBVIOUS
<1> USE DEF ClosedIsGone
<1>1. CASE MainJoinWorker
  BY <1>1 DEF MainJoinWorker
<1>2. CASE ~MainJoinWorker
  <2>1. alive' \subseteq alive
    BY <1>2 DEF Next, Main, Destroy, WorkerStep, ClientLoop, vars, shared,
         MainCreate, MainSetPlaying, MainNewLoop, MainRun, MainBus, MainBusNull,
         MainReturn, MainDropServer, MainDropDispatcher, MainDropManager, MainDropScheduler,
         Post, DestroyServer, DestroyServerOnClient, ClientDispatch,
         ClientRelease, ClientCheck, ClientTimeout, ClientParse, ClientDisconnect,
         WorkerBegin, WorkerStop, WorkerSetNull, WorkerOther, WorkerRelease
  <2>2. closed' = closed
    BY <1>2 DEF Next, Main, Destroy, WorkerStep, ClientLoop, vars, tasks,
         MainCreate, MainSetPlaying, MainNewLoop, MainRun, MainBus, MainBusNull,
         MainReturn, MainDropServer, MainDropDispatcher, MainDropManager, MainDropScheduler,
         Post, DestroyServer, DestroyServerOnClient, ClientDispatch,
         ClientRelease, ClientCheck, ClientTimeout, ClientParse, ClientDisconnect,
         WorkerBegin, WorkerStop, WorkerSetNull, WorkerOther, WorkerRelease,
         Scheduler!Submit, Scheduler!Begin, Scheduler!Complete
  <2>3. QED BY <2>1, <2>2
<1>3. QED BY <1>1, <1>2

\* No client thread dispatches to a scheduler that was closed, and ~Scheduler finds
\* no task left, whichever threads hold the last requests: the conditions that
\* TaskQueue puts on its users hold without the code testing them.
THEOREM SchedulerIsReady == Spec => []SchedulerReady
<1>1. Init => ClosedIsGone
  BY DEF Init, ClosedIsGone
<1>2. IInv /\ ClosedIsGone => SchedulerReady
  <2> SUFFICES ASSUME IInv, ClosedIsGone, ~crashed PROVE SchedulerReady
      BY DEF SchedulerReady
  <2>1. "server" \in alive => "dispatcher" \in alive /\ "scheduler" \in alive
    BY DEF IInv, OwnersKeep
  <2>2. ASSUME NEW c \in Client, cpc[c] = "dispatch" PROVE ~closed
    BY <2>1, <2>2 DEF IInv, ServerKept, Requested, ClosedIsGone
  <2>3. ASSUME mpc = "join" PROVE queue = <<>> /\ slot["worker"] = NoTask
    BY <2>1, <2>3 DEF IInv, MainRefs, ServerKept, Requested
  <2>4. QED BY <2>2, <2>3 DEF SchedulerReady
<1>3. QED BY <1>1, <1>2, ClosedStep, Inductive, PTL DEF Spec
=============================================================================
