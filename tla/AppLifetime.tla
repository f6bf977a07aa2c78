----------------------------- MODULE AppLifetime -----------------------------
(***************************************************************************)
(* The life of the program: App::run starts the scheduler and the server,  *)
(* PipelineManager::play runs until a stop command or a bus message quits  *)
(* its main loop, and then the references of App::run are dropped while    *)
(* requests may still hold some of the objects.                            *)
(*                                                                         *)
(* Ownership: main owns all four objects; a request (Requester) owns the   *)
(* server, the server the dispatcher, the dispatcher the scheduler and,    *)
(* through the commands, the manager.  Whichever thread drops the last     *)
(* reference runs the destructor.  Of the threads of the server only those *)
(* of connected clients are followed, and the scheduler has its default of *)
(* one worker, taken for what TaskQueue promises.                          *)
(***************************************************************************)
EXTENDS Naturals, Sequences

CONSTANTS
  Client,       \* client threads
  MaxRequests,  \* bound: messages read by each of them
  NoTask,       \* the empty task pointer
  NoThread      \* no thread

Worker == {"worker"}
Task   == [from : Client, stop : BOOLEAN]
Object == {"server", "dispatcher", "manager", "scheduler"}

ASSUME AppAssumption ==
  /\ MaxRequests \in Nat
  /\ NoTask \notin Task
  /\ "main" \notin Client /\ "worker" \notin Client
  /\ NoThread \notin Client \cup {"main", "worker"}

VARIABLES
  mpc,        \* main thread
  refs,       \* objects main has a reference to
  alive,      \* objects not destroyed
  loop,       \* gst_loop_: "none", "new" (not yet run), "running", "quit"
  playing,    \* is the pipeline in state PLAYING?
  bus,        \* messages on the pipeline's bus
  wpc,        \* worker thread, within execute()
  cpc,        \* client threads
  received,   \* messages each client thread has read
  destroyer,  \* thread that runs ~MessageServer
  crashed,    \* has std::terminate been called?
  orderly,    \* history: no request was under way when main let go of the server
  queue, slot, finished, closed  \* the scheduler: see TaskQueue

tasks  == <<queue, slot, finished, closed>>
gst    == <<loop, playing, bus>>
client == <<cpc, received>>
shared == <<alive, destroyer, crashed>>
vars   == <<mpc, refs, shared, gst, wpc, client, orderly, tasks>>

Scheduler == INSTANCE TaskQueue

Playing == {"create", "set_playing", "new_loop", "run", "running", "bus_null"}

\* The request of some thread, or of the queue, is a reference to the server.
Requested ==
  \/ queue # <<>> \/ slot["worker"] # NoTask
  \/ \E c \in Client : cpc[c] \in {"dispatch", "release"}

-----------------------------------------------------------------------------
(* Main thread: PipelineManager::play *)

MainCreate ==
  /\ mpc = "create"
  /\ mpc' \in {"set_playing", "drop_server"}
  /\ UNCHANGED <<refs, shared, gst, wpc, client, orderly, tasks>>

MainSetPlaying ==
  /\ mpc = "set_playing"
  /\ playing' = TRUE /\ mpc' = "new_loop"
  /\ UNCHANGED <<refs, shared, loop, bus, wpc, client, orderly, tasks>>

\* g_main_loop_new ends the process rather than return null, when memory runs out.
MainNewLoop ==
  /\ mpc = "new_loop"
  /\ loop' = "new" /\ mpc' = "run"
  /\ UNCHANGED <<refs, shared, playing, bus, wpc, client, orderly, tasks>>

\* g_main_loop_run forgets a g_main_loop_quit that came before it.
MainRun ==
  /\ mpc = "run"
  /\ loop' = "running" /\ mpc' = "running"
  /\ UNCHANGED <<refs, shared, playing, bus, wpc, client, orderly, tasks>>

\* Variant: stop sets the state and leaves the loop alone.
QuitNothing == UNCHANGED loop

Quit == loop' = IF loop = "running" THEN "quit" ELSE loop

\* gst_element_set_state(NULL) drops what is on the bus.
SetNull == playing' = FALSE /\ bus' = {}

\* handlePupelineBusSignal on EOS or ERROR is stop.
MainBus ==
  /\ mpc = "running" /\ loop = "running"
  /\ \E m \in bus : bus' = bus \ {m}
  /\ Quit
  /\ mpc' = "bus_null"
  /\ UNCHANGED <<refs, shared, playing, wpc, client, orderly, tasks>>

MainBusNull ==
  /\ mpc = "bus_null"
  /\ SetNull
  /\ mpc' = "running"
  /\ UNCHANGED <<refs, shared, loop, wpc, client, orderly, tasks>>

MainReturn ==
  /\ mpc = "running" /\ loop = "quit"
  /\ mpc' = "drop_server"
  /\ UNCHANGED <<refs, shared, gst, wpc, client, orderly, tasks>>

\* Streaming threads (external).
Post ==
  /\ playing
  /\ \E m \in {"eos", "error"} : bus' = bus \cup {m}
  /\ UNCHANGED <<mpc, refs, shared, loop, playing, wpc, client, orderly, tasks>>

-----------------------------------------------------------------------------
(* Main thread: the references of App::run, dropped in reverse order *)

Orderly ==
  /\ queue = <<>> /\ wpc = "wait"
  /\ \A c \in Client : cpc[c] \notin {"dispatch", "release"}

\* Variant: requests hold a plain pointer to the server.
MainDropServerAtOnce ==
  /\ mpc = "drop_server"
  /\ refs' = refs \ {"server"}
  /\ orderly' = Orderly
  /\ mpc' = "destroying" /\ destroyer' = "main"
  /\ UNCHANGED <<alive, crashed, gst, wpc, client, tasks>>

MainDropServer ==
  /\ mpc = "drop_server"
  /\ refs' = refs \ {"server"}
  /\ orderly' = Orderly
  /\ IF Requested THEN mpc' = "drop_dispatcher" /\ UNCHANGED destroyer
     ELSE mpc' = "destroying" /\ destroyer' = "main"
  /\ UNCHANGED <<alive, crashed, gst, wpc, client, tasks>>

MainDropDispatcher ==
  /\ mpc = "drop_dispatcher"
  /\ refs' = refs \ {"dispatcher"}
  /\ alive' = IF "server" \in alive THEN alive ELSE alive \ {"dispatcher"}
  /\ mpc' = "drop_manager"
  /\ UNCHANGED <<destroyer, crashed, gst, wpc, client, orderly, tasks>>

MainDropManager ==
  /\ mpc = "drop_manager"
  /\ refs' = refs \ {"manager"}
  /\ alive' = IF "dispatcher" \in alive THEN alive ELSE alive \ {"manager"}
  /\ mpc' = "drop_scheduler"
  /\ UNCHANGED <<destroyer, crashed, gst, wpc, client, orderly, tasks>>

\* With the last reference to the scheduler main joins the worker; otherwise
\* it returns, which ends the process.
MainDropScheduler ==
  /\ mpc = "drop_scheduler"
  /\ refs' = refs \ {"scheduler"}
  /\ mpc' = IF "dispatcher" \in alive THEN "exited" ELSE "join"
  /\ UNCHANGED <<shared, gst, wpc, client, orderly, tasks>>

MainJoinWorker ==
  /\ mpc = "join" /\ wpc = "wait"
  /\ Scheduler!Close
  /\ alive' = alive \ {"scheduler"}
  /\ wpc' = "returned" /\ mpc' = "exited"
  /\ UNCHANGED <<refs, destroyer, crashed, gst, client, orderly>>

-----------------------------------------------------------------------------
(* ~MessageServer.  It joins the client threads, so a client thread that     *)
(* runs it joins itself; it then releases the dispatcher, and that the       *)
(* scheduler, whose destructor joins the worker.  A thread that joins itself *)
(* throws out of a destructor: std::terminate.                               *)

DestroyedWithServer ==
  {"server"} \cup
  (IF "dispatcher" \in refs THEN {} ELSE {"dispatcher"} \cup ({"manager", "scheduler"} \ refs))

DestroyServer ==
  /\ destroyer \in Worker \cup {"main"}
  /\ \A c \in Client : cpc[c] = "closed"
  /\ alive' = alive \ DestroyedWithServer
  /\ crashed' = ("scheduler" \in DestroyedWithServer)
  /\ destroyer' = NoThread
  /\ mpc' = IF destroyer = "main" THEN "drop_dispatcher" ELSE mpc
  /\ wpc' = IF destroyer = "worker" THEN "wait" ELSE wpc
  /\ UNCHANGED <<refs, gst, client, orderly, tasks>>

DestroyServerOnClient ==
  /\ destroyer \in Client
  /\ crashed' = TRUE
  /\ UNCHANGED <<mpc, refs, alive, destroyer, gst, wpc, client, orderly, tasks>>

-----------------------------------------------------------------------------
(* Client threads: handleClient, parseMessage *)

\* shared_from_this throws when the server is being destroyed.
ClientParse(c) ==
  /\ cpc[c] = "read" /\ received[c] < MaxRequests
  /\ received' = [received EXCEPT ![c] = @ + 1]
  /\ IF destroyer = NoThread
     THEN cpc' = [cpc EXCEPT ![c] = "dispatch"] /\ UNCHANGED crashed
     ELSE crashed' = TRUE /\ UNCHANGED cpc
  /\ UNCHANGED <<mpc, refs, alive, destroyer, gst, wpc, orderly, tasks>>

\* A registered command is enqueued; anything else was answered with Nack.
ClientDispatch(c) ==
  /\ cpc[c] = "dispatch"
  /\ \/ \E stop \in BOOLEAN : Scheduler!Submit([from |-> c, stop |-> stop])
     \/ UNCHANGED tasks
  /\ cpc' = [cpc EXCEPT ![c] = "release"]
  /\ UNCHANGED <<mpc, refs, shared, gst, wpc, received, orderly>>

\* The thread's own reference to the request goes out of scope.
ClientRelease(c) ==
  /\ cpc[c] = "release"
  /\ cpc' = [cpc EXCEPT ![c] = "check"]
  /\ UNCHANGED <<mpc, refs, alive, crashed, gst, wpc, received, orderly, tasks>>
  /\ destroyer' = IF "server" \in refs \/ Requested' THEN destroyer ELSE c

\* Variant: the thread does not look at keep_running_.
ClientCheckAlways(c) ==
  /\ cpc[c] = "check" /\ destroyer # c
  /\ cpc' = [cpc EXCEPT ![c] = "read"]
  /\ UNCHANGED <<mpc, refs, shared, gst, wpc, received, orderly, tasks>>

ClientCheck(c) ==
  /\ cpc[c] = "check" /\ destroyer # c
  /\ cpc' = [cpc EXCEPT ![c] = IF destroyer = NoThread THEN "read" ELSE "closed"]
  /\ UNCHANGED <<mpc, refs, shared, gst, wpc, received, orderly, tasks>>

\* A read that times out.
ClientTimeout(c) ==
  /\ cpc[c] = "read"
  /\ cpc' = [cpc EXCEPT ![c] = "check"]
  /\ UNCHANGED <<mpc, refs, shared, gst, wpc, received, orderly, tasks>>

ClientDisconnect(c) ==
  /\ cpc[c] = "read"
  /\ cpc' = [cpc EXCEPT ![c] = "closed"]
  /\ UNCHANGED <<mpc, refs, shared, gst, wpc, received, orderly, tasks>>

-----------------------------------------------------------------------------
(* Worker thread: a command is answered and executed *)

WorkerBegin ==
  /\ wpc = "wait" /\ Scheduler!Begin("worker")
  /\ wpc' = "execute"
  /\ UNCHANGED <<mpc, refs, shared, gst, client, orderly>>

\* The answer, then stop: nothing without a loop.
WorkerStop ==
  /\ wpc = "execute" /\ slot["worker"].stop
  /\ IF loop = "none" THEN wpc' = "release" /\ UNCHANGED loop
     ELSE Quit /\ wpc' = "null"
  /\ UNCHANGED <<mpc, refs, shared, playing, bus, client, orderly, tasks>>

WorkerSetNull ==
  /\ wpc = "null"
  /\ SetNull
  /\ wpc' = "release"
  /\ UNCHANGED <<mpc, refs, shared, loop, client, orderly, tasks>>

WorkerOther ==
  /\ wpc = "execute" /\ ~slot["worker"].stop
  /\ wpc' = "release"
  /\ UNCHANGED <<mpc, refs, shared, gst, client, orderly, tasks>>

\* Variant: the task pointer keeps its value until the next task.
WorkerReleaseLate ==
  /\ wpc = "release"
  /\ wpc' = "wait"
  /\ UNCHANGED <<mpc, refs, shared, gst, client, orderly, tasks>>

WorkerRelease ==
  /\ wpc = "release"
  /\ UNCHANGED <<mpc, refs, alive, crashed, gst, client, orderly>>
  /\ Scheduler!Complete("worker")
  /\ IF "server" \in refs \/ Requested'
     THEN wpc' = "wait" /\ UNCHANGED destroyer
     ELSE wpc' = "destroying" /\ destroyer' = "worker"

-----------------------------------------------------------------------------
Init ==
  /\ mpc = "create" /\ refs = Object /\ alive = Object
  /\ loop = "none" /\ playing = FALSE /\ bus = {}
  /\ wpc = "wait"
  /\ cpc = [c \in Client |-> "check"]
  /\ received = [c \in Client |-> 0]
  /\ destroyer = NoThread /\ crashed = FALSE /\ orderly = FALSE
  /\ queue = <<>> /\ slot = [w \in Worker |-> NoTask]
  /\ finished = {} /\ closed = FALSE

Main ==
  \/ MainCreate \/ MainSetPlaying \/ MainNewLoop \/ MainRun
  \/ MainBus \/ MainBusNull \/ MainReturn
  \/ MainDropServer \/ MainDropDispatcher \/ MainDropManager
  \/ MainDropScheduler \/ MainJoinWorker

Destroy == DestroyServer \/ DestroyServerOnClient

ClientLoop(c) ==
  ClientDispatch(c) \/ ClientRelease(c) \/ ClientCheck(c) \/ ClientTimeout(c)

WorkerStep ==
  WorkerBegin \/ WorkerStop \/ WorkerSetNull \/ WorkerOther \/ WorkerRelease

Up == mpc # "exited" /\ ~crashed

Next ==
  /\ Up
  /\ \/ Main \/ Post \/ Destroy \/ WorkerStep
     \/ \E c \in Client : ClientLoop(c) \/ ClientParse(c) \/ ClientDisconnect(c)

Spec == Init /\ [][Next]_vars

\* Threads run, and a read returns within a second; that data, a disconnect or
\* a bus message comes is not assumed.
Fairness ==
  /\ WF_vars(Up /\ Main) /\ WF_vars(Up /\ Destroy) /\ WF_vars(Up /\ WorkerStep)
  /\ \A c \in Client : WF_vars(Up /\ ClientLoop(c))

FairSpec == Spec /\ Fairness

-----------------------------------------------------------------------------
\* Every variable keeps its type, and the worker has a task exactly while it
\* executes one.
TypeOK ==
  /\ mpc \in Playing \cup {"drop_server", "destroying", "drop_dispatcher",
                           "drop_manager", "drop_scheduler", "join", "exited"}
  /\ refs \subseteq Object /\ alive \subseteq Object
  /\ loop \in {"none", "new", "running", "quit"}
  /\ playing \in BOOLEAN /\ bus \subseteq {"eos", "error"}
  /\ wpc \in {"wait", "execute", "null", "release", "destroying", "returned"}
  /\ cpc \in [Client -> {"check", "read", "dispatch", "release", "closed"}]
  /\ received \in [Client -> 0 .. MaxRequests]
  /\ destroyer \in Client \cup Worker \cup {"main", NoThread}
  /\ crashed \in BOOLEAN /\ orderly \in BOOLEAN
  /\ queue \in Seq(Task) /\ slot \in [Worker -> Task \cup {NoTask}]
  /\ finished \subseteq Task /\ closed \in BOOLEAN
  /\ slot["worker"] # NoTask <=> wpc \in {"execute", "null", "release"}

\* No thread uses an object that is gone, in whatever order the threads let go
\* of theirs: play the manager, a client thread the server and, when it
\* dispatches, dispatcher and scheduler, a command all it was given.
UsedIsAlive ==
  ~crashed =>
    /\ mpc \in Playing => "manager" \in alive
    /\ \A c \in Client :
         /\ cpc[c] # "closed" => "server" \in alive
         /\ cpc[c] = "dispatch" => {"dispatcher", "scheduler"} \subseteq alive
    /\ wpc # "returned" => "scheduler" \in alive
    /\ wpc \in {"execute", "null"} => {"server", "manager"} \subseteq alive
    /\ queue # <<>> => {"server", "manager"} \subseteq alive

\* What UsedIsAlive rests on.  An owner keeps what it owns; whoever holds a
\* request keeps the server from being destroyed, which one thread does at most;
\* and main has dropped what its place says.
OwnersKeep ==
  /\ refs \subseteq alive
  /\ "server" \in alive => "dispatcher" \in alive
  /\ "dispatcher" \in alive => {"manager", "scheduler"} \subseteq alive
  /\ wpc # "returned" => "scheduler" \in alive

ServerKept ==
  /\ "server" \in refs \/ Requested => "server" \in alive /\ destroyer = NoThread
  /\ "server" \notin alive =>
       destroyer = NoThread /\ \A c \in Client : cpc[c] = "closed"
  /\ destroyer = "main" <=> mpc = "destroying"
  /\ destroyer = "worker" <=> wpc = "destroying"

MainRefs ==
  /\ mpc \in Playing \cup {"drop_server"} => refs = Object
  /\ mpc \in {"destroying", "drop_dispatcher"} => refs = Object \ {"server"}
  /\ mpc = "drop_manager" => refs = {"manager", "scheduler"}
  /\ mpc = "drop_scheduler" => refs = {"scheduler"}
  /\ mpc = "join" => refs = {} /\ "dispatcher" \notin alive

IInv == TypeOK /\ (~crashed => OwnersKeep /\ ServerKept /\ MainRefs)

\* When no request is under way as main lets go of the server, the program
\* exits with every object destroyed and the pipeline stopped.
OrderlyExit == mpc = "exited" /\ orderly /\ ~crashed => alive = {} /\ ~playing

\* What OrderlyExit rests on: play is not left without the pipeline stopped or
\* the worker stopping it, and from the moment main lets go of the server with no
\* request under way none comes up, and main's drops are the last ones.
StopBeforeReturn ==
  /\ mpc \in {"create", "set_playing", "new_loop"} => loop = "none"
  /\ mpc \in {"create", "set_playing"} => ~playing
  /\ mpc = "run" => loop = "new"
  /\ loop = "quit" => ~playing \/ wpc = "null" \/ mpc = "bus_null"
  /\ mpc \notin Playing => ~playing \/ wpc = "null"

CleanSoFar ==
  /\ mpc \notin Playing \cup {"drop_server"} /\ ~playing
  /\ ~Requested /\ wpc \in {"wait", "returned"}
  /\ "server" \in alive => mpc = "destroying"
  /\ "dispatcher" \in alive => mpc \in {"destroying", "drop_dispatcher"}
  /\ "manager" \in alive => mpc \in {"destroying", "drop_dispatcher", "drop_manager"}
  /\ "scheduler" \in alive => mpc # "exited"

ExitInv == StopBeforeReturn /\ (orderly /\ ~crashed => CleanSoFar)

\* A stop command that finds the loop running ends play, and so does a message
\* on the bus, unless a stop that came too early is just clearing the bus.
PlayEnds ==
  (/\ mpc = "running" /\ loop = "running"
   /\ \/ wpc = "execute" /\ slot["worker"].stop
      \/ bus # {} /\ wpc # "null")
  ~> (mpc \notin Playing)

\* Once play has returned the process ends: no destructor waits for ever.
ShutdownEnds == (mpc \notin Playing) ~> ~Up
=============================================================================
