-------------------------- MODULE MessageServerProofs --------------------------
(* Theorems about MessageServer, for any clients, workers and messages, clients *)
(* that wait for their answers or not.                                          *)
EXTENDS MessageServer, FiniteSetTheorems, SequenceTheorems, TLAPS

Up == {"check", "read", "parse", "close"}

\* The invariant.  A connection is open exactly while its thread runs, whose
\* thread is in the list until it has been joined; the destructor begins with
\* an idle scheduler, and from then on nothing is submitted; it ends after the
\* server thread, which alone adds to the list.
OpenWhileUp   == \A c \in Client : fd[c] # NoFd <=> cpc[c] \in Up
JoinedIsDone  == \A c \in joined : cpc[c] = "done"
UpIsListed    == ~crashed => \A c \in Client : cpc[c] \in Up => c \in threads
NothingQueued == dpc # "alive" => queue = <<>> /\ \A w \in Worker : slot[w] = NoTask
EndsLast      == dpc = "destroyed" => spc = "returned" /\ (~crashed => threads = {})

IInv == TypeOK /\ OpenWhileUp /\ JoinedIsDone /\ UpIsListed /\ NothingQueued /\ EndsLast

-----------------------------------------------------------------------------
(* Types of the data *)

LEMMA Constants ==
  /\ MaxMessages \in Nat \ {0} /\ Orderly \in BOOLEAN /\ NoTask \notin Task
  /\ NoFd = 0 /\ NoFd \notin Fd
<1>1. Cardinality(Client) \in Nat
  BY ServerAssumption, FS_CardinalityType
<1>2. QED BY <1>1, ServerAssumption DEF NoFd, Fd

\* Sending adds two parts to a stream, reading takes some away.
LEMMA StreamTypes ==
  ASSUME NEW s \in Seq(Part)
  PROVE  /\ \A n \in 1 .. MaxMessages, known \in BOOLEAN :
              s \o [h \in 1 .. 2 |-> [num |-> n, known |-> known, half |-> h]] \in Seq(Part)
         /\ \A k \in 0 .. Len(s) :
              SubSeq(s, 1, k) \in Seq(Part) /\ SubSeq(s, k + 1, Len(s)) \in Seq(Part)
<1>1. ASSUME NEW n \in 1 .. MaxMessages, NEW known \in BOOLEAN
      PROVE  s \o [h \in 1 .. 2 |-> [num |-> n, known |-> known, half |-> h]] \in Seq(Part)
  <2> DEFINE p == [h \in 1 .. 2 |-> [num |-> n, known |-> known, half |-> h]]
  <2>1. p \in [1 .. 2 -> Part]
    BY DEF Part
  <2>2. p \in Seq(Part)
    BY <2>1, IsASeq
  <2>3. QED BY <2>2, ConcatProperties
<1>2. ASSUME NEW k \in 0 .. Len(s)
      PROVE  SubSeq(s, 1, k) \in Seq(Part) /\ SubSeq(s, k + 1, Len(s)) \in Seq(Part)
  <2>1. Len(s) \in Nat /\ \A i \in 1 .. Len(s) : s[i] \in Part
    BY ElementOfSeq, LenProperties
  <2>2. SubSeq(s, 1, k) \in Seq(Part)
    BY <2>1, SubSeqProperties
  <2>3. SubSeq(s, k + 1, Len(s)) \in Seq(Part)
    BY <2>1, SubSeqProperties
  <2>4. QED BY <2>2, <2>3
<1>3. QED BY <1>1, <1>2

LEMMA Responded ==
  ASSUME TypeOK, NEW f, NEW answer \in Answer, SendResponse(f, answer)
  PROVE  replies' \in [Client -> Seq(Answer)] /\ crashed' \in BOOLEAN
<1>1. \A s \in Seq(Answer) : Append(s, answer) \in Seq(Answer)
  BY AppendProperties
<1>2. replies' \in [Client -> Seq(Answer)]
  <2>1. CASE UNCHANGED replies
    BY <2>1 DEF TypeOK
  <2>2. CASE \E c \in Client : replies' = [replies EXCEPT ![c] = Append(@, answer)]
    BY <1>1, <2>2 DEF TypeOK
  <2>3. QED BY <2>1, <2>2 DEF SendResponse
<1>3. crashed' \in BOOLEAN
  BY DEF SendResponse, TypeOK
<1>4. QED BY <1>2, <1>3

\* The request and the answer made of what was read.
LEMMA Requested ==
  ASSUME IInv, NEW c \in Client, cpc[c] = "parse"
  PROVE  /\ IsCommand(got[c]) => Request(c) \in Task
         /\ [from |-> c, queued |-> FALSE,
             num |-> IF got[c] = <<>> THEN 0 ELSE got[c][1].num] \in Answer
<1>1. fd[c] \in Fd
  BY DEF IInv, TypeOK, OpenWhileUp, Up
<1>2. got[c] # <<>> => got[c][1].num \in 1 .. MaxMessages
  <2>1. got[c] \in Seq(Part)
    BY DEF IInv, TypeOK
  <2>2. got[c] # <<>> => got[c][1] \in Part
    BY <2>1, ElementOfSeq, EmptySeq, LenProperties
  <2>3. QED BY <2>2 DEF Part
<1>3. IsCommand(got[c]) => got[c] # <<>>
  BY DEF IsCommand
<1>4. QED BY <1>1, <1>2, <1>3, Constants DEF Request, Task, Answer

-----------------------------------------------------------------------------
(* The steps *)

LEMMA IInit == Init => IInv
<1> SUFFICES ASSUME Init PROVE IInv
    OBVIOUS
<1>1. <<>> \in Seq(Part) /\ <<>> \in Seq(Answer) /\ <<>> \in Seq(Task)
  BY EmptySeq
<1>2. TypeOK
  <2>1. sent \in [Client -> 0 .. MaxMessages]
    BY Constants DEF Init
  <2>2. /\ stream \in [Client -> Seq(Part)] /\ got \in [Client -> Seq(Part)]
        /\ replies \in [Client -> Seq(Answer)] /\ queue \in Seq(Task)
    BY <1>1 DEF Init
  <2>3. fd \in [Client -> Fd \cup {NoFd}] /\ slot \in [Worker -> Task \cup {NoTask}]
    BY DEF Init
  <2>4. /\ remote \in [Client -> {"new", "connected", "gone"}]
        /\ cpc \in [Client -> {"none", "check", "read", "parse", "close", "done"}]
    BY DEF Init
  <2>5. QED BY <2>1, <2>2, <2>3, <2>4 DEF Init, TypeOK
<1>3. OpenWhileUp /\ JoinedIsDone /\ UpIsListed /\ NothingQueued /\ EndsLast
  BY DEF Init, OpenWhileUp, JoinedIsDone, UpIsListed, NothingQueued, EndsLast, Up
<1>4. QED BY <1>2, <1>3 DEF IInv

\* The rest of the invariant is about these variables only.
Rest == <<fd, cpc, threads, joined, dpc, spc, crashed, queue, slot>>

LEMMA RestStays == IInv /\ UNCHANGED Rest =>
  OpenWhileUp' /\ JoinedIsDone' /\ UpIsListed' /\ NothingQueued' /\ EndsLast'
BY DEF IInv, Rest, OpenWhileUp, JoinedIsDone, UpIsListed, NothingQueued, EndsLast

LEMMA IRemote ==
  ASSUME IInv, NEW c \in Client, Connect(c) \/ Send(c) \/ HangUp(c)
  PROVE  IInv'
<1>1. TypeOK'
  <2> USE DEF IInv, TypeOK, clients, deinit, tasks
  <2>1. CASE Connect(c)
    BY <2>1 DEF Connect
  <2>2. CASE Send(c)
    <3>1. sent' \in [Client -> 0 .. MaxMessages] /\ sent[c] + 1 \in 1 .. MaxMessages
      BY <2>2, Constants DEF Send
    <3>2. stream' \in [Client -> Seq(Part)]
      BY <2>2, <3>1, StreamTypes DEF Send
    <3>3. QED BY <2>2, <3>1, <3>2 DEF Send
  <2>3. CASE HangUp(c)
    BY <2>3 DEF HangUp
  <2>4. QED BY <2>1, <2>2, <2>3
<1>2. UNCHANGED Rest
  BY DEF Rest, Connect, Send, HangUp, clients, deinit, tasks
<1>3. QED BY <1>1, <1>2, RestStays DEF IInv

LEMMA IServer ==
  ASSUME IInv, ~crashed, ServerStep
  PROVE  IInv'
<1> USE DEF IInv, clients, deinit, tasks
<1>1. CASE ServerInit \/ ServerCheck \/ AcceptNothing
  <2>1. TypeOK'
    BY <1>1 DEF ServerInit, ServerCheck, AcceptNothing, TypeOK
  <2>2. EndsLast'
    BY <1>1 DEF ServerInit, ServerCheck, AcceptNothing, EndsLast
  <2>3. OpenWhileUp' /\ JoinedIsDone' /\ UpIsListed' /\ NothingQueued'
    BY <1>1 DEF ServerInit, ServerCheck, AcceptNothing, OpenWhileUp, JoinedIsDone, UpIsListed,
                NothingQueued
  <2>4. QED BY <2>1, <2>2, <2>3
<1>2. CASE AcceptConnection
  <2>1. PICK c \in Backlog, f \in Fd : /\ fd' = [fd EXCEPT ![c] = f]
                                       /\ cpc' = [cpc EXCEPT ![c] = "check"]
                                       /\ threads' = threads \cup {c}
    BY <1>2 DEF AcceptConnection
  <2>2. c \in Client /\ cpc[c] = "none"
    BY DEF Backlog
  <2>3. /\ spc = "accept" /\ spc' = "check"
        /\ UNCHANGED <<clients, replies, listening, got, joined, dpc, crashed, tasks>>
    BY <1>2 DEF AcceptConnection
  <2>4. TypeOK'
    BY <2>1, <2>2, <2>3 DEF TypeOK
  <2>5. OpenWhileUp'
    BY <2>1, <2>2, Constants DEF TypeOK, OpenWhileUp, Up
  <2>6. JoinedIsDone'
    BY <2>1, <2>2, <2>3 DEF TypeOK, JoinedIsDone
  <2>7. UpIsListed'
    BY <2>1, <2>2, <2>3 DEF TypeOK, UpIsListed
  <2>8. NothingQueued' /\ EndsLast'
    BY <2>3 DEF NothingQueued, EndsLast
  <2>9. QED BY <2>4, <2>5, <2>6, <2>7, <2>8
<1>3. QED BY <1>1, <1>2 DEF ServerStep

\* A client thread that goes on from one place to another, with its connection.
LEMMA GoesOn ==
  ASSUME IInv, NEW c \in Client, cpc[c] \in Up, NEW p \in Up,
         cpc' = [cpc EXCEPT ![c] = p], UNCHANGED <<fd, threads, joined>>,
         crashed => crashed'
  PROVE  /\ cpc' \in [Client -> {"none", "check", "read", "parse", "close", "done"}]
         /\ OpenWhileUp' /\ JoinedIsDone' /\ UpIsListed'
<1>1. cpc' \in [Client -> {"none", "check", "read", "parse", "close", "done"}]
  BY DEF IInv, TypeOK, Up
<1>2. \A d \in Client : cpc'[d] \in Up <=> cpc[d] \in Up
  BY DEF IInv, TypeOK
<1>3. OpenWhileUp' /\ UpIsListed'
  BY <1>2 DEF IInv, OpenWhileUp, UpIsListed, TypeOK
<1>4. JoinedIsDone'
  BY DEF IInv, TypeOK, JoinedIsDone, Up
<1>5. QED BY <1>1, <1>3, <1>4

LEMMA IClient ==
  ASSUME IInv, ~crashed, NEW c \in Client, ClientStep(c)
  PROVE  IInv'
<1> USE DEF clients, deinit, tasks
<1>1. CASE ClientCheck(c) \/ ReadNothing(c) \/ ReadData(c)
  <2>1. cpc[c] \in Up /\ \E p \in Up : cpc' = [cpc EXCEPT ![c] = p]
    BY <1>1 DEF ClientCheck, ReadNothing, ReadData, Up
  <2>2. UNCHANGED <<remote, sent, replies, listening, spc, fd, deinit, crashed, tasks>>
    BY <1>1 DEF ClientCheck, ReadNothing, ReadData
  <2>3. /\ cpc' \in [Client -> {"none", "check", "read", "parse", "close", "done"}]
        /\ OpenWhileUp' /\ JoinedIsDone' /\ UpIsListed'
    BY <2>1, <2>2, GoesOn
  <2>4. stream' \in [Client -> Seq(Part)] /\ got' \in [Client -> Seq(Part)]
    <3>1. CASE ClientCheck(c) \/ ReadNothing(c)
      BY <3>1 DEF ClientCheck, ReadNothing, IInv, TypeOK
    <3>2. CASE ReadData(c)
      <4>1. PICK k \in 0 .. Len(stream[c]) :
              /\ got' = [got EXCEPT ![c] = SubSeq(stream[c], 1, k)]
              /\ stream' = [stream EXCEPT ![c] = SubSeq(@, k + 1, Len(@))]
        BY <3>2 DEF ReadData
      <4>2. QED BY <4>1, StreamTypes DEF IInv, TypeOK
    <3>3. QED BY <1>1, <3>1, <3>2
  <2>5. TypeOK'
    BY <2>2, <2>3, <2>4 DEF IInv, TypeOK
  <2>6. NothingQueued' /\ EndsLast'
    BY <2>2 DEF IInv, NothingQueued, EndsLast
  <2>7. QED BY <2>3, <2>5, <2>6 DEF IInv
<1>2. CASE ParseMessage(c)
  <2>1. cpc[c] = "parse" /\ cpc' = [cpc EXCEPT ![c] = "check"]
    BY <1>2 DEF ParseMessage
  <2>2. got' = [got EXCEPT ![c] = <<>>] /\ UNCHANGED <<clients, listening, spc, fd, deinit>>
    BY <1>2 DEF ParseMessage
  <2>3. /\ cpc' \in [Client -> {"none", "check", "read", "parse", "close", "done"}]
        /\ OpenWhileUp' /\ JoinedIsDone' /\ UpIsListed'
    BY <2>1, <2>2, GoesOn DEF Up
  <2>4. got' \in [Client -> Seq(Part)]
    BY <2>2, EmptySeq DEF IInv, TypeOK
  <2>5. /\ replies' \in [Client -> Seq(Answer)] /\ crashed' \in BOOLEAN
        /\ queue' \in Seq(Task) /\ UNCHANGED <<slot, finished, closed>>
        /\ dpc # "alive" => crashed' /\ UNCHANGED queue
    <3>1. CASE dpc # "alive"
      BY <1>2, <3>1 DEF ParseMessage, IInv, TypeOK
    <3>2. CASE dpc = "alive" /\ IsCommand(got[c])
      <4>1. Scheduler!Submit(Request(c)) /\ UNCHANGED <<replies, crashed>>
        BY <1>2, <3>2 DEF ParseMessage
      <4>2. queue' \in Seq(Task)
        BY <2>1, <3>2, <4>1, Requested, AppendProperties DEF Scheduler!Submit, IInv, TypeOK
      <4>3. QED BY <3>2, <4>1, <4>2 DEF Scheduler!Submit, IInv, TypeOK
    <3>3. CASE dpc = "alive" /\ ~IsCommand(got[c])
      <4>1. /\ SendResponse(fd[c], [from |-> c, queued |-> FALSE,
                                    num |-> IF got[c] = <<>> THEN 0 ELSE got[c][1].num])
            /\ UNCHANGED tasks
        BY <1>2, <3>3 DEF ParseMessage
      <4>2. QED BY <2>1, <3>3, <4>1, Requested, Responded DEF IInv, TypeOK
    <3>4. QED BY <3>1, <3>2, <3>3
  <2>6. TypeOK'
    BY <2>2, <2>3, <2>4, <2>5 DEF IInv, TypeOK
  <2>7. NothingQueued' /\ EndsLast'
    BY <2>2, <2>5 DEF IInv, NothingQueued, EndsLast
  <2>8. QED BY <2>3, <2>6, <2>7 DEF IInv
<1>3. CASE CloseClient(c)
  <2>1. /\ cpc[c] = "close" /\ fd' = [fd EXCEPT ![c] = NoFd]
        /\ cpc' = [cpc EXCEPT ![c] = "done"]
        /\ UNCHANGED <<clients, replies, listening, spc, got, deinit, crashed, tasks>>
    BY <1>3 DEF CloseClient
  <2>2. TypeOK'
    BY <2>1 DEF IInv, TypeOK
  <2>3. OpenWhileUp' /\ JoinedIsDone' /\ UpIsListed'
    BY <2>1 DEF IInv, TypeOK, OpenWhileUp, JoinedIsDone, UpIsListed, Up
  <2>4. NothingQueued' /\ EndsLast'
    BY <2>1 DEF IInv, NothingQueued, EndsLast
  <2>5. QED BY <2>2, <2>3, <2>4 DEF IInv
<1>4. QED BY <1>1, <1>2, <1>3 DEF ClientStep

\* What the connections and the deinitialization are made of.
Server == <<fd, cpc, threads, joined, dpc, spc>>

LEMMA IWorker ==
  ASSUME IInv, ~crashed, NEW w \in Worker, WorkerStep(w)
  PROVE  IInv'
<1> USE DEF clients, deinit
<1>1. UNCHANGED <<remote, sent, stream, listening, got, Server>>
  BY DEF WorkerStep, Begin, Execute, Server
<1>2. OpenWhileUp' /\ JoinedIsDone' /\ UpIsListed' /\ EndsLast'
  BY <1>1 DEF IInv, Server, OpenWhileUp, JoinedIsDone, UpIsListed, EndsLast
<1>3. CASE Begin(w)
  <2>1. /\ queue # <<>> /\ slot' = [slot EXCEPT ![w] = Head(queue)]
        /\ queue' = Tail(queue) /\ UNCHANGED <<replies, crashed, finished, closed>>
    BY <1>3 DEF Begin, Scheduler!Begin
  <2>2. Head(queue) \in Task /\ Tail(queue) \in Seq(Task)
    BY <2>1, HeadTailProperties DEF IInv, TypeOK
  <2>3. TypeOK'
    BY <1>1, <2>1, <2>2 DEF IInv, TypeOK, Server
  <2>4. NothingQueued'
    BY <1>1, <2>1 DEF IInv, NothingQueued, Server
  <2>5. QED BY <1>2, <2>3, <2>4 DEF IInv
<1>4. CASE Execute(w)
  <2>1. /\ slot[w] # NoTask /\ slot' = [slot EXCEPT ![w] = NoTask]
        /\ finished' = finished \cup {slot[w]} /\ UNCHANGED <<queue, closed>>
        /\ SendResponse(slot[w].fd,
                        [from |-> slot[w].from, num |-> slot[w].num, queued |-> TRUE])
    BY <1>4 DEF Execute, Scheduler!Complete
  <2>2. slot[w] \in Task
    BY <2>1 DEF IInv, TypeOK
  <2>3. [from |-> slot[w].from, num |-> slot[w].num, queued |-> TRUE] \in Answer
    BY <2>2, Constants DEF Task, Answer
  <2>4. replies' \in [Client -> Seq(Answer)] /\ crashed' \in BOOLEAN
    BY <2>1, <2>3, Responded DEF IInv
  <2>5. TypeOK'
    BY <1>1, <2>1, <2>2, <2>4 DEF IInv, TypeOK, Server
  <2>6. NothingQueued'
    BY <1>1, <2>1 DEF IInv, NothingQueued, TypeOK, Server
  <2>7. QED BY <1>2, <2>5, <2>6 DEF IInv
<1>5. QED BY <1>3, <1>4 DEF WorkerStep

LEMMA IDeinit ==
  ASSUME IInv, ~crashed, DeinitStop \/ DeinitStep
  PROVE  IInv'
<1> USE DEF IInv, clients, tasks
<1>1. TypeOK'
  BY DEF TypeOK, deinit, DeinitStop, DeinitStep, DeinitEmpty, DeinitJoin, DeinitClear, DeinitClose,
         DeinitWait, SchedulerClose, Scheduler!Close
<1>2. NothingQueued'
  <2>1. /\ UNCHANGED <<queue, slot>>
        /\ dpc = "alive" => DeinitStop \/ UNCHANGED dpc
        /\ DeinitStop => queue = <<>> /\ \A w \in Worker : slot[w] = NoTask
    BY DEF deinit, DeinitStop, DeinitStep, DeinitEmpty, DeinitJoin, DeinitClear, DeinitClose,
           DeinitWait, SchedulerClose, Scheduler!Close
  <2>2. QED BY <2>1 DEF NothingQueued
<1>3. UNCHANGED <<fd, cpc, spc>>
  BY DEF deinit, DeinitStop, DeinitStep, DeinitEmpty, DeinitJoin, DeinitClear, DeinitClose,
         DeinitWait, SchedulerClose
<1>4. OpenWhileUp'
  BY <1>3 DEF OpenWhileUp
<1>5. CASE DeinitStop \/ DeinitEmpty \/ DeinitClose \/ SchedulerClose
  <2>1. UNCHANGED <<threads, joined, crashed>> /\ (dpc' = "destroyed" => dpc = "destroyed")
    BY <1>5 DEF deinit, DeinitStop, DeinitEmpty, DeinitClose, SchedulerClose
  <2>2. JoinedIsDone' /\ UpIsListed' /\ EndsLast'
    BY <1>3, <2>1 DEF JoinedIsDone, UpIsListed, EndsLast
  <2>3. QED BY <1>1, <1>2, <1>4, <2>2
<1>6. CASE DeinitJoin
  <2>1. /\ \A c \in threads : cpc[c] = "done"
        /\ joined' = threads /\ dpc' = "clear" /\ UNCHANGED <<threads, crashed>>
    BY <1>6 DEF DeinitJoin
  <2>2. JoinedIsDone' /\ UpIsListed' /\ EndsLast'
    BY <1>3, <2>1 DEF JoinedIsDone, UpIsListed, EndsLast
  <2>3. QED BY <1>1, <1>2, <1>4, <2>2
<1>7. CASE DeinitClear
  <2>1. /\ crashed' = (threads # joined) /\ threads' = {} /\ dpc' = "closing"
        /\ UNCHANGED joined
    BY <1>7 DEF DeinitClear
  <2>2. JoinedIsDone' /\ EndsLast'
    BY <1>3, <2>1 DEF JoinedIsDone, EndsLast
  <2>3. UpIsListed'
    <3>1. ~crashed' => \A c \in Client : ~(cpc[c] \in Up)
      BY <2>1 DEF UpIsListed, JoinedIsDone, Up
    <3>2. QED BY <1>3, <3>1 DEF UpIsListed
  <2>4. QED BY <1>1, <1>2, <1>4, <2>2, <2>3
<1>8. CASE DeinitWait
  <2>1. /\ spc = "returned" /\ crashed' = (threads # {}) /\ UNCHANGED <<threads, joined>>
    BY <1>8 DEF DeinitWait
  <2>2. JoinedIsDone' /\ UpIsListed' /\ EndsLast'
    BY <1>3, <2>1 DEF JoinedIsDone, UpIsListed, EndsLast
  <2>3. QED BY <1>1, <1>2, <1>4, <2>2
<1>9. QED BY <1>5, <1>6, <1>7, <1>8 DEF DeinitStep

LEMMA INext == IInv /\ [Next]_vars => IInv'
<1> SUFFICES ASSUME IInv, [Next]_vars PROVE IInv'
    OBVIOUS
<1>1. CASE UNCHANGED vars
  <2>1. TypeOK'
    BY <1>1 DEF vars, clients, deinit, tasks, IInv, TypeOK
  <2>2. UNCHANGED Rest
    BY <1>1 DEF vars, clients, deinit, tasks, Rest
  <2>3. QED BY <2>1, <2>2, RestStays DEF IInv
<1>2. CASE Next
  BY <1>2, IRemote, IServer, IClient, IWorker, IDeinit DEF Next, Running, RemoteStep
<1>3. QED BY <1>1, <1>2

LEMMA Invariance == Spec => []IInv
BY IInit, INext, PTL DEF Spec

-----------------------------------------------------------------------------
(* Theorems *)

\* Every variable keeps its type: whatever the clients send and whenever they
\* hang up, only requests to an open descriptor are queued, executed and answered.
THEOREM TypeCorrect == Spec => []TypeOK
<1>1. IInv => TypeOK
  BY DEF IInv
<1>2. QED BY <1>1, Invariance, PTL

\* ~MessageServer leaves nothing behind: when it has returned, the server thread
\* and every client thread have ended, every connection is closed and no task
\* that would use the server is queued or executed.
THEOREM DestroyedQuiet == Spec => []DestroyedIsQuiet
<1>1. IInv => DestroyedIsQuiet
  <2> SUFFICES ASSUME IInv, dpc = "destroyed", ~crashed
               PROVE  /\ spc = "returned"
                      /\ \A c \in Client : cpc[c] \in {"none", "done"} /\ fd[c] = NoFd
                      /\ queue = <<>> /\ \A w \in Worker : slot[w] = NoTask
      BY DEF DestroyedIsQuiet
  <2>1. spc = "returned" /\ threads = {}
    BY DEF IInv, EndsLast
  <2>2. \A c \in Client : ~(cpc[c] \in Up)
    BY <2>1 DEF IInv, UpIsListed
  <2>3. \A c \in Client : cpc[c] \in {"none", "done"} /\ fd[c] = NoFd
    BY <2>2 DEF IInv, TypeOK, OpenWhileUp, Up
  <2>4. QED BY <2>1, <2>3 DEF IInv, NothingQueued
<1>2. QED BY <1>1, Invariance, PTL
-----------------------------------------------------------------------------
(* The scheduler is used as TaskQueue says *)

\* What does not concern the scheduler leaves it as it is.
LEMMA SchedulerAside ==
  ASSUME ServerStep \/ RemoteStep \/ DeinitStop \/ (DeinitStep /\ ~SchedulerClose)
         \/ UNCHANGED vars
  PROVE  UNCHANGED Scheduler!vars
<1> USE DEF tasks, Scheduler!vars
<1>1. CASE ServerStep
  BY <1>1 DEF ServerStep, ServerInit, ServerCheck, AcceptConnection, AcceptNothing
<1>2. CASE RemoteStep
  BY <1>2 DEF RemoteStep, Connect, Send, HangUp
<1>3. CASE DeinitStop
  BY <1>3 DEF DeinitStop
<1>4. CASE DeinitStep /\ ~SchedulerClose
  BY <1>4 DEF DeinitStep, DeinitEmpty, DeinitJoin, DeinitClear, DeinitClose, DeinitWait
<1>5. CASE UNCHANGED vars
  BY <1>5 DEF vars
<1>6. QED BY <1>1, <1>2, <1>3, <1>4, <1>5

\* A client thread submits what it read from an open connection, or nothing.
LEMMA ClientSubmits ==
  ASSUME IInv, NEW c \in Client, ClientStep(c)
  PROVE  UNCHANGED Scheduler!vars \/ \E t \in Task : Scheduler!Submit(t)
<1> USE DEF tasks, Scheduler!vars
<1>1. CASE ClientCheck(c) \/ ReadNothing(c) \/ ReadData(c) \/ CloseClient(c)
  BY <1>1 DEF ClientCheck, ReadNothing, ReadData, CloseClient
<1>2. CASE ParseMessage(c)
  <2>1. CASE dpc # "alive" \/ ~IsCommand(got[c])
    BY <1>2, <2>1 DEF ParseMessage
  <2>2. CASE dpc = "alive" /\ IsCommand(got[c])
    <3>1. cpc[c] = "parse" /\ Scheduler!Submit(Request(c))
      BY <1>2, <2>2 DEF ParseMessage
    <3>2. Request(c) \in Task
      BY <2>2, <3>1, Requested
    <3>3. QED BY <3>1, <3>2
  <2>3. QED BY <2>1, <2>2
<1>3. QED BY <1>1, <1>2 DEF ClientStep

LEMMA SchedulerStep == IInv /\ [Next]_vars => [Scheduler!Next]_(Scheduler!vars)
<1> SUFFICES ASSUME IInv, [Next]_vars
             PROVE  Scheduler!Next \/ UNCHANGED Scheduler!vars
    OBVIOUS
<1>1. CASE ServerStep \/ RemoteStep \/ DeinitStop \/ UNCHANGED vars
  BY <1>1, SchedulerAside
<1>2. CASE \E c \in Client : ClientStep(c)
  BY <1>2, ClientSubmits DEF Scheduler!Next
<1>3. CASE \E w \in Worker : WorkerStep(w)
  BY <1>3 DEF WorkerStep, Begin, Execute, Scheduler!Next
<1>4. CASE DeinitStep /\ ~SchedulerClose
  BY <1>4, SchedulerAside
<1>5. CASE SchedulerClose
  BY <1>5 DEF SchedulerClose, Scheduler!Next
<1>6. QED BY <1>1, <1>2, <1>3, <1>4, <1>5 DEF Next, Running

\* What TaskQueue asks of its users, where the code does not ask.
ClosedLast == closed => dpc = "destroyed"

SchedulerReady ==
  /\ \A c \in Client : cpc[c] = "parse" /\ dpc = "alive" => ~closed
  /\ dpc = "destroyed" => queue = <<>> /\ \A w \in Worker : slot[w] = NoTask

LEMMA ClosedStep == ClosedLast /\ [Next]_vars => ClosedLast'
<1> SUFFICES ASSUME ClosedLast, [Next]_vars PROVE ClosedLast'
    OBVIOUS
<1> USE DEF ClosedLast
<1>1. CASE SchedulerClose
  BY <1>1 DEF SchedulerClose, deinit
<1>2. CASE UNCHANGED vars
  BY <1>2 DEF vars, deinit, tasks
<1>3. CASE ServerStep \/ RemoteStep
  BY <1>3 DEF ServerStep, ServerInit, ServerCheck, AcceptConnection, AcceptNothing,
              RemoteStep, Connect, Send, HangUp, deinit, tasks
<1>4. CASE DeinitStop \/ (DeinitStep /\ ~SchedulerClose)
  BY <1>4 DEF DeinitStop, DeinitStep, DeinitEmpty, DeinitJoin, DeinitClear, DeinitClose,
              DeinitWait, tasks
<1>5. ASSUME NEW c \in Client, ClientStep(c) PROVE ClosedLast'
  BY <1>5 DEF ClientStep, ClientCheck, ReadNothing, ReadData, ParseMessage, CloseClient,
              Scheduler!Submit, deinit, tasks
<1>6. ASSUME NEW w \in Worker, WorkerStep(w) PROVE ClosedLast'
  BY <1>6 DEF WorkerStep, Begin, Execute, Scheduler!Begin, Scheduler!Complete, deinit
<1>7. QED BY <1>1, <1>2, <1>3, <1>4, <1>5, <1>6 DEF Next, Running

\* No client thread enqueues a request after ~Scheduler, and ~Scheduler finds no
\* task left: the conditions that TaskQueue puts on its users hold without the
\* code testing them.
THEOREM SchedulerIsReady == Spec => []SchedulerReady
<1>1. Init => ClosedLast
  BY DEF Init, ClosedLast
<1>2. IInv /\ ClosedLast => SchedulerReady
  BY DEF IInv, NothingQueued, ClosedLast, SchedulerReady
<1>3. QED BY <1>1, <1>2, ClosedStep, Invariance, PTL DEF Spec

\* The server and its clients use the scheduler as TaskQueue says it is to be used:
\* whatever the clients do and whenever the server is destroyed, what is submitted
\* is a request of an open connection.
THEOREM UsesSchedulerAsPromised == Spec => Scheduler!Spec
<1>1. Init => Scheduler!Init
  BY DEF Init, Scheduler!Init
<1>2. QED
  BY <1>1, Invariance, SchedulerStep, PTL DEF Spec, Scheduler!Spec
=============================================================================
