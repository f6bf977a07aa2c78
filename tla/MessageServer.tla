---------------------------- MODULE MessageServer ----------------------------
(***************************************************************************)
(* The TCP command server: MessageServer with its server thread and one    *)
(* thread per connection, TcpNetworkManager below it and CommandDispatcher *)
(* between it and the scheduler, which is taken for what it promises       *)
(* (TaskQueue).  Each client makes one connection.                         *)
(*                                                                         *)
(* A message is two parts, so that the network can split it; a read takes  *)
(* what has arrived, up to several messages, and whatever it took is       *)
(* dispatched as one command.  Only a whole message, read alone, can be a  *)
(* registered command.  keep_running_ is cleared by deinit only:           *)
(* dpc = "alive" stands for it.  Requests and answers carry the client and *)
(* the number of the message as history; the code sends plain Ack or Nack. *)
(***************************************************************************)
EXTENDS Naturals, Sequences, FiniteSets

CONSTANTS
  Client,       \* remote clients
  Worker,       \* worker threads of the scheduler
  MaxMessages,  \* bound: messages each client sends
  Orderly,      \* do clients wait for each answer before the next message or
                \* the hang-up, do messages arrive whole and does
                \* select never fail?
  NoTask        \* the empty task pointer

NoFd == 0
Fd   == 1 .. Cardinality(Client)
Part == [num : 1 .. MaxMessages, known : BOOLEAN, half : {1, 2}]
Task == [from : Client, fd : Fd, num : 1 .. MaxMessages]

\* queued: answered by the worker, not by the dispatcher.
Answer == [from : Client, num : 0 .. MaxMessages, queued : BOOLEAN]

ASSUME ServerAssumption ==
  /\ IsFiniteSet(Client)
  /\ Worker # {}
  /\ MaxMessages \in Nat \ {0}
  /\ Orderly \in BOOLEAN
  /\ NoTask \notin Task

VARIABLES
  remote,     \* the client's end of its connection
  sent,       \* messages the client has sent
  stream,     \* parts on their way from the client
  replies,    \* answers the client has received
  listening,  \* is there a listening socket?
  spc,        \* server thread
  fd,         \* descriptor of the client's connection, NoFd when not open
  cpc,        \* client thread of the connection
  got,        \* client thread: the data read
  threads,    \* client_threads_
  joined,     \* those deinit has joined
  dpc,        \* the destructor: where deinit is
  crashed,    \* has the process ended by std::terminate or SIGPIPE?
  queue, slot, finished, closed  \* the scheduler: see TaskQueue

clients == <<remote, sent, stream>>
tasks   == <<queue, slot, finished, closed>>
deinit  == <<threads, joined, dpc>>
vars    == <<clients, replies, listening, spc, fd, cpc, got, deinit, crashed, tasks>>

Scheduler == INSTANCE TaskQueue

-----------------------------------------------------------------------------
(* Clients and the network (external) *)

Answered(c) == Len(replies[c]) >= sent[c]

Connect(c) ==
  /\ listening /\ remote[c] = "new"
  /\ remote' = [remote EXCEPT ![c] = "connected"]
  /\ UNCHANGED <<sent, stream, replies, listening, spc, fd, cpc, got, deinit, crashed, tasks>>

Send(c) ==
  /\ remote[c] = "connected" /\ sent[c] < MaxMessages
  /\ Orderly => Answered(c)
  /\ sent' = [sent EXCEPT ![c] = @ + 1]
  /\ \E known \in BOOLEAN :
       stream' = [stream EXCEPT ![c] = @ \o
         [h \in 1 .. 2 |-> [num |-> sent[c] + 1, known |-> known, half |-> h]]]
  /\ UNCHANGED <<remote, replies, listening, spc, fd, cpc, got, deinit, crashed, tasks>>

HangUp(c) ==
  /\ remote[c] = "connected"
  /\ Orderly => Answered(c)
  /\ remote' = [remote EXCEPT ![c] = "gone"]
  /\ UNCHANGED <<sent, stream, replies, listening, spc, fd, cpc, got, deinit, crashed, tasks>>

-----------------------------------------------------------------------------
(* sendResponse: to whichever connection has the descriptor by now.  Writing *)
(* to one the client has left is lost, or raises SIGPIPE.                    *)

SendResponse(f, answer) ==
  \/ /\ \E c \in Client : fd[c] = f /\ remote[c] = "connected"
          /\ replies' = [replies EXCEPT ![c] = Append(@, answer)]
     /\ UNCHANGED crashed
  \/ /\ \A c \in Client : fd[c] # f
     /\ UNCHANGED <<replies, crashed>>
  \/ /\ \E c \in Client : fd[c] = f /\ remote[c] = "gone"
     /\ crashed' \in BOOLEAN
     /\ UNCHANGED replies

-----------------------------------------------------------------------------
(* Server thread: runServer *)

ServerInit ==
  /\ spc = "init"
  /\ listening' \in BOOLEAN
  /\ spc' = "check"
  /\ UNCHANGED <<clients, replies, fd, cpc, got, deinit, crashed, tasks>>

ServerCheck ==
  /\ spc = "check"
  /\ spc' = IF dpc = "alive" THEN "accept" ELSE "returned"
  /\ UNCHANGED <<clients, replies, listening, fd, cpc, got, deinit, crashed, tasks>>

Backlog == IF listening
           THEN {c \in Client : remote[c] # "new" /\ cpc[c] = "none"} ELSE {}

\* The kernel gives out the lowest free descriptor.
IsLowestFree(f) ==
  /\ \A c \in Client : fd[c] # f
  /\ \A g \in 1 .. f - 1 : \E c \in Client : fd[c] = g

AcceptConnection ==
  /\ spc = "accept"
  /\ \E c \in Backlog, f \in Fd :
       /\ IsLowestFree(f)
       /\ fd' = [fd EXCEPT ![c] = f]
       /\ cpc' = [cpc EXCEPT ![c] = "check"]
       /\ threads' = threads \cup {c}
  /\ spc' = "check"
  /\ UNCHANGED <<clients, replies, listening, got, joined, dpc, crashed, tasks>>

AcceptNothing ==
  /\ spc = "accept" /\ Backlog = {}
  /\ spc' = "check"
  /\ UNCHANGED <<clients, replies, listening, fd, cpc, got, deinit, crashed, tasks>>

-----------------------------------------------------------------------------
(* Client threads: handleClient, readData, parseMessage, dispatchCommand *)

\* Variant: the threads do not look at keep_running_.
ClientCheckAlways(c) ==
  /\ cpc[c] = "check"
  /\ cpc' = [cpc EXCEPT ![c] = "read"]
  /\ UNCHANGED <<clients, replies, listening, spc, fd, got, deinit, crashed, tasks>>

ClientCheck(c) ==
  /\ cpc[c] = "check"
  /\ cpc' = [cpc EXCEPT ![c] = IF dpc = "alive" THEN "read" ELSE "close"]
  /\ UNCHANGED <<clients, replies, listening, spc, fd, got, deinit, crashed, tasks>>

\* Variant: a timeout is taken for a disconnect.
ReadTimeoutDisconnects(c) ==
  /\ cpc[c] = "read" /\ stream[c] = <<>>
  /\ cpc' = [cpc EXCEPT ![c] = "close"]
  /\ UNCHANGED <<clients, replies, listening, spc, fd, got, deinit, crashed, tasks>>

\* Nothing to read: a timeout after one second, or the client has hung up.
ReadNothing(c) ==
  /\ cpc[c] = "read" /\ stream[c] = <<>>
  /\ cpc' = [cpc EXCEPT ![c] = IF remote[c] = "gone" THEN "close" ELSE "check"]
  /\ UNCHANGED <<clients, replies, listening, spc, fd, got, deinit, crashed, tasks>>

\* When select fails, the buffer of zeros is returned as data: got is empty.
\* MaxMessages also bounds these failures.
ReadData(c) ==
  /\ cpc[c] = "read"
  /\ \E k \in 0 .. Len(stream[c]) :
       /\ Orderly => k = Len(stream[c]) /\ k > 0
       /\ k = 0 => Len(replies[c]) < MaxMessages
       /\ got' = [got EXCEPT ![c] = SubSeq(stream[c], 1, k)]
       /\ stream' = [stream EXCEPT ![c] = SubSeq(@, k + 1, Len(@))]
  /\ cpc' = [cpc EXCEPT ![c] = "parse"]
  /\ UNCHANGED <<remote, sent, replies, listening, spc, fd, deinit, crashed, tasks>>

IsCommand(data) ==
  /\ Len(data) = 2 /\ data[1].num = data[2].num
  /\ data[1].known

Request(c) == [from |-> c, fd |-> fd[c], num |-> got[c][1].num]

\* Variant: unknown commands are not answered.
ParseMessageNoNack(c) ==
  /\ cpc[c] = "parse"
  /\ cpc' = [cpc EXCEPT ![c] = "check"]
  /\ IF dpc # "alive" THEN crashed' = TRUE /\ UNCHANGED <<replies, tasks>>
     ELSE IF IsCommand(got[c])
     THEN Scheduler!Submit(Request(c)) /\ UNCHANGED <<replies, crashed>>
     ELSE UNCHANGED <<replies, crashed, tasks>>
  /\ got' = [got EXCEPT ![c] = <<>>]
  /\ UNCHANGED <<clients, listening, spc, fd, deinit>>

\* Variant: the socket is closed before the request is dispatched.
ParseMessageAfterClose(c) ==
  /\ cpc[c] = "parse"
  /\ cpc' = [cpc EXCEPT ![c] = "check"]
  /\ fd' = [fd EXCEPT ![c] = NoFd]
  /\ IF dpc # "alive" THEN crashed' = TRUE /\ UNCHANGED <<replies, tasks>>
     ELSE IF IsCommand(got[c])
     THEN Scheduler!Submit([Request(c) EXCEPT !.fd = fd'[c]]) /\ UNCHANGED <<replies, crashed>>
     ELSE UNCHANGED <<replies, crashed, tasks>>
  /\ got' = [got EXCEPT ![c] = <<>>]
  /\ UNCHANGED <<clients, listening, spc, deinit>>

\* shared_from_this() throws once the destructor runs, and nothing catches it.
\* Otherwise the data is looked up: a registered command is enqueued, anything
\* else answered with Nack at once.
ParseMessage(c) ==
  /\ cpc[c] = "parse"
  /\ cpc' = [cpc EXCEPT ![c] = "check"]
  /\ IF dpc # "alive" THEN crashed' = TRUE /\ UNCHANGED <<replies, tasks>>
     ELSE IF IsCommand(got[c])
     THEN Scheduler!Submit(Request(c)) /\ UNCHANGED <<replies, crashed>>
     ELSE /\ SendResponse(fd[c], [from |-> c, queued |-> FALSE,
                                  num |-> IF got[c] = <<>> THEN 0 ELSE got[c][1].num])
          /\ UNCHANGED tasks
  /\ got' = [got EXCEPT ![c] = <<>>]
  /\ UNCHANGED <<clients, listening, spc, fd, deinit>>

CloseClient(c) ==
  /\ cpc[c] = "close"
  /\ fd' = [fd EXCEPT ![c] = NoFd]
  /\ cpc' = [cpc EXCEPT ![c] = "done"]
  /\ UNCHANGED <<clients, replies, listening, spc, got, deinit, crashed, tasks>>

-----------------------------------------------------------------------------
(* The scheduler's workers: a command is executed and answered *)

\* Variant: the newest task is taken.
BeginNewest(w) ==
  /\ queue # <<>> /\ slot[w] = NoTask
  /\ slot' = [slot EXCEPT ![w] = queue[Len(queue)]]
  /\ queue' = SubSeq(queue, 1, Len(queue) - 1)
  /\ UNCHANGED <<finished, closed, clients, replies, listening, spc, fd, cpc, got,
                 deinit, crashed>>

Begin(w) ==
  /\ Scheduler!Begin(w)
  /\ UNCHANGED <<clients, replies, listening, spc, fd, cpc, got, deinit, crashed>>

Execute(w) ==
  /\ Scheduler!Complete(w)
  /\ SendResponse(slot[w].fd, [from |-> slot[w].from, num |-> slot[w].num, queued |-> TRUE])
  /\ UNCHANGED <<clients, listening, spc, fd, cpc, got, deinit>>

-----------------------------------------------------------------------------
(* ~MessageServer: deinit.  No request holds a reference to the server, and  *)
(* client_threads_ is read without client_threads_mutex_.                    *)

DeinitStop ==
  /\ dpc = "alive"
  /\ queue = <<>> /\ \A w \in Worker : slot[w] = NoTask
  /\ dpc' = "stopping"
  /\ UNCHANGED <<clients, replies, listening, spc, fd, cpc, got, threads, joined, crashed, tasks>>

\* stopAllClientThreads: nothing to do for an empty list.
DeinitEmpty ==
  /\ dpc = "stopping"
  /\ dpc' = IF threads = {} THEN "closing" ELSE "join"
  /\ UNCHANGED <<clients, replies, listening, spc, fd, cpc, got, threads, joined, crashed, tasks>>

\* Variant: the client threads are not joined.
DeinitJoinNone ==
  /\ dpc = "join"
  /\ joined' = threads
  /\ dpc' = "clear"
  /\ UNCHANGED <<clients, replies, listening, spc, fd, cpc, got, threads, crashed, tasks>>

\* The loop over the list ends when it has joined all there are by then.
DeinitJoin ==
  /\ dpc = "join" /\ \A c \in threads : cpc[c] = "done"
  /\ joined' = threads
  /\ dpc' = "clear"
  /\ UNCHANGED <<clients, replies, listening, spc, fd, cpc, got, threads, crashed, tasks>>

\* Destroying a thread that was not joined ends the process.
DeinitClear ==
  /\ dpc = "clear"
  /\ crashed' = (threads # joined)
  /\ threads' = {}
  /\ dpc' = "closing"
  /\ UNCHANGED <<clients, replies, listening, spc, fd, cpc, got, joined, tasks>>

DeinitClose ==
  /\ dpc = "closing"
  /\ listening' = FALSE
  /\ dpc' = "wait"
  /\ UNCHANGED <<clients, replies, spc, fd, cpc, got, threads, joined, crashed, tasks>>

DeinitWait ==
  /\ dpc = "wait" /\ spc = "returned"
  /\ crashed' = (threads # {})
  /\ dpc' = "destroyed"
  /\ UNCHANGED <<clients, replies, listening, spc, fd, cpc, got, threads, joined, tasks>>

\* ~Scheduler, when App::run returns: the server goes first, and with it the
\* last requests that could be enqueued.
SchedulerClose ==
  /\ dpc = "destroyed"
  /\ Scheduler!Close
  /\ UNCHANGED <<clients, replies, listening, spc, fd, cpc, got, deinit, crashed>>

-----------------------------------------------------------------------------
Init ==
  /\ remote = [c \in Client |-> "new"]
  /\ sent = [c \in Client |-> 0]
  /\ stream = [c \in Client |-> <<>>]
  /\ replies = [c \in Client |-> <<>>]
  /\ listening = FALSE /\ spc = "init"
  /\ fd = [c \in Client |-> NoFd]
  /\ cpc = [c \in Client |-> "none"]
  /\ got = [c \in Client |-> <<>>]
  /\ threads = {} /\ joined = {} /\ dpc = "alive" /\ crashed = FALSE
  /\ queue = <<>> /\ finished = {} /\ closed = FALSE
  /\ slot = [w \in Worker |-> NoTask]

RemoteStep == \E c \in Client : Connect(c) \/ Send(c) \/ HangUp(c)

ServerStep == ServerInit \/ ServerCheck \/ AcceptConnection \/ AcceptNothing

ClientStep(c) ==
  \/ ClientCheck(c) \/ ReadNothing(c) \/ ReadData(c)
  \/ ParseMessage(c) \/ CloseClient(c)

WorkerStep(w) == Begin(w) \/ Execute(w)

DeinitStep ==
  \/ DeinitEmpty \/ DeinitJoin \/ DeinitClear \/ DeinitClose \/ DeinitWait
  \/ ~closed /\ SchedulerClose

Running ==
  \/ RemoteStep \/ ServerStep \/ DeinitStop \/ DeinitStep
  \/ \E c \in Client : ClientStep(c)
  \/ \E w \in Worker : WorkerStep(w)

Next == ~crashed /\ Running

Spec == Init /\ [][Next]_vars

\* Every thread of the server runs; the clients and the main thread, which
\* drops the last reference, do what they do when they do it.
Fairness ==
  /\ WF_vars(~crashed /\ ServerStep)
  /\ \A c \in Client : WF_vars(~crashed /\ ClientStep(c))
  /\ \A w \in Worker : WF_vars(~crashed /\ WorkerStep(w))
  /\ WF_vars(~crashed /\ DeinitStep)

FairSpec == Spec /\ Fairness

-----------------------------------------------------------------------------
\* Every variable keeps its type; what is queued or executed answers to an open
\* descriptor number, never to NoFd.
TypeOK ==
  /\ remote \in [Client -> {"new", "connected", "gone"}]
  /\ sent \in [Client -> 0 .. MaxMessages]
  /\ stream \in [Client -> Seq(Part)]
  /\ replies \in [Client -> Seq(Answer)]
  /\ listening \in BOOLEAN
  /\ spc \in {"init", "check", "accept", "returned"}
  /\ fd \in [Client -> Fd \cup {NoFd}]
  /\ cpc \in [Client -> {"none", "check", "read", "parse", "close", "done"}]
  /\ got \in [Client -> Seq(Part)]
  /\ threads \subseteq Client /\ joined \subseteq Client
  /\ dpc \in {"alive", "stopping", "join", "clear", "closing", "wait", "destroyed"}
  /\ crashed \in BOOLEAN
  /\ queue \in Seq(Task)
  /\ slot \in [Worker -> Task \cup {NoTask}]
  /\ finished \subseteq Task /\ closed \in BOOLEAN

\* The i-th answer a client receives is the one to its i-th message: none is
\* lost on the way, given twice or sent to another client, although answers go
\* to a descriptor number that is reused.
AnswersMatchRequests ==
  \A c \in Client : \A i \in 1 .. Len(replies[c]) :
    replies[c][i].from = c /\ replies[c][i].num = i

\* However clients behave, the commands of one client that are executed are
\* answered in the order they were sent, each at most once.
AnswersInOrder ==
  \A c \in Client : \A i, j \in 1 .. Len(replies[c]) :
    LET a == replies[c][i]
        b == replies[c][j]
    IN  i < j /\ a.queued /\ b.queued /\ a.from = b.from => a.num < b.num

\* When the destructor has returned, nothing of the server runs, no connection
\* is open and no task will answer to it.
DestroyedIsQuiet ==
  dpc = "destroyed" /\ ~crashed =>
    /\ spc = "returned"
    /\ \A c \in Client : cpc[c] \in {"none", "done"} /\ fd[c] = NoFd
    /\ queue = <<>> /\ \A w \in Worker : slot[w] = NoTask

\* While the server lives, a message that was sent is answered.
RequestsAnswered ==
  \A c \in Client : (sent[c] > 0) ~> (Answered(c) \/ dpc # "alive")

\* Once the destructor has begun it returns, unless the process ends.
DeinitTerminates == (dpc # "alive") ~> (dpc = "destroyed" \/ crashed)
=============================================================================
