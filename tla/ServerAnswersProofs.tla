-------------------------- MODULE ServerAnswersProofs --------------------------
(* Theorems about the answers MessageServer gives: which message they are to    *)
(* when every client waits for its answer, with any workers, and their order    *)
(* when it does not, with the one worker the scheduler has by default.          *)
EXTENDS MessageServerProofs

\* Two open connections have different descriptors.
FdsDiffer == \A c, d \in Client : fd[c] = fd[d] /\ fd[c] # NoFd => c = d

-----------------------------------------------------------------------------
(* The message a client waits for is in one place *)

TheRequest(c) == [from |-> c, fd |-> fd[c], num |-> sent[c]]
NoneQueued(c) == \A i \in 1 .. Len(queue) : queue[i].from # c
NoneHeld(c)   == \A w \in Worker : slot[w] # NoTask => slot[w].from # c
Whole(s, n)   == Len(s) = 2 /\ s[1].num = n /\ s[2].num = n

\* Every message of c has been answered, and nothing of it is anywhere.
Settled(c) ==
  /\ Len(replies[c]) = sent[c]
  /\ stream[c] = <<>> /\ got[c] = <<>> /\ cpc[c] # "parse"
  /\ NoneQueued(c) /\ NoneHeld(c)

\* The last message of c is on its way, read, queued or executed.
InStream(c) ==
  /\ Whole(stream[c], sent[c])
  /\ got[c] = <<>> /\ cpc[c] # "parse" /\ NoneQueued(c) /\ NoneHeld(c)

InThread(c) ==
  /\ cpc[c] = "parse" /\ Whole(got[c], sent[c])
  /\ stream[c] = <<>> /\ NoneQueued(c) /\ NoneHeld(c)

InQueue(c) ==
  /\ \E i \in 1 .. Len(queue) :
       /\ queue[i] = TheRequest(c)
       /\ \A j \in 1 .. Len(queue) : queue[j].from = c => j = i
  /\ stream[c] = <<>> /\ got[c] = <<>> /\ cpc[c] \in {"check", "read"} /\ NoneHeld(c)

InWorker(c) ==
  /\ \E w \in Worker :
       /\ slot[w] # NoTask /\ slot[w] = TheRequest(c)
       /\ \A v \in Worker : slot[v] # NoTask /\ slot[v].from = c => v = w
  /\ stream[c] = <<>> /\ got[c] = <<>> /\ cpc[c] \in {"check", "read"} /\ NoneQueued(c)

Pending(c) ==
  /\ remote[c] = "connected" /\ sent[c] > 0 /\ Len(replies[c]) = sent[c] - 1
  /\ InStream(c) \/ InThread(c) \/ InQueue(c) \/ InWorker(c)

OneAtATime == ~crashed => \A c \in Client : Settled(c) \/ Pending(c)

-----------------------------------------------------------------------------
(* Descriptors *)

LEMMA FdsStayDifferent == IInv /\ FdsDiffer /\ [Next]_vars => FdsDiffer'
<1> SUFFICES ASSUME IInv, FdsDiffer, [Next]_vars PROVE FdsDiffer'
    OBVIOUS
<1> USE DEF clients, deinit, tasks
<1>1. CASE UNCHANGED fd
  BY <1>1 DEF FdsDiffer
<1>2. CASE AcceptConnection
  <2>1. PICK c \in Backlog, f \in Fd : IsLowestFree(f) /\ fd' = [fd EXCEPT ![c] = f]
    BY <1>2 DEF AcceptConnection
  <2>2. c \in Client /\ f # NoFd /\ \A d \in Client : fd[d] # f
    BY <2>1, Constants DEF Backlog, IsLowestFree
  <2>3. QED BY <2>1, <2>2 DEF FdsDiffer, IInv, TypeOK
<1>3. CASE \E c \in Client : CloseClient(c)
  BY <1>3 DEF CloseClient, FdsDiffer, IInv, TypeOK
<1>4. QED
  <2>1. ASSUME Next, ~AcceptConnection, ~\E c \in Client : CloseClient(c) PROVE UNCHANGED fd
    BY <2>1 DEF Next, Running, RemoteStep, Connect, Send, HangUp, ServerStep, ServerInit,
       ServerCheck, AcceptNothing, ClientStep, ClientCheck, ReadNothing, ReadData, ParseMessage,
       WorkerStep, Begin, Execute, DeinitStop, DeinitStep, DeinitEmpty, DeinitJoin, DeinitClear,
       DeinitClose, DeinitWait, SchedulerClose
  <2>2. UNCHANGED vars => UNCHANGED fd
    BY DEF vars
  <2>3. QED BY <1>1, <1>2, <1>3, <2>1, <2>2

\* An answer to the open descriptor of a client that is there reaches it.
LEMMA Delivered ==
  ASSUME IInv, FdsDiffer, NEW c \in Client, remote[c] = "connected", fd[c] # NoFd,
         NEW answer, SendResponse(fd[c], answer)
  PROVE  replies' = [replies EXCEPT ![c] = Append(@, answer)] /\ UNCHANGED crashed
BY DEF FdsDiffer, SendResponse

-----------------------------------------------------------------------------
(* Clients that wait for their answers *)

\* What the place of c's message depends on, except the scheduler.
Connection(c) == <<remote[c], sent[c], stream[c], replies[c], fd[c], cpc[c], got[c]>>

LEMMA PlaceStays ==
  ASSUME NEW c \in Client, UNCHANGED <<Connection(c), queue, slot>>, Settled(c) \/ Pending(c)
  PROVE  (Settled(c) \/ Pending(c))'
BY DEF Connection, Settled, Pending, InStream, InThread, InQueue, InWorker, TheRequest, NoneQueued,
       NoneHeld, Whole

\* Another client's request goes into the queue.
LEMMA PlaceStaysOnSubmit ==
  ASSUME IInv, NEW c \in Client, NEW t \in Task, t.from # c, queue' = Append(queue, t),
         UNCHANGED <<Connection(c), slot>>, Settled(c) \/ Pending(c)
  PROVE  (Settled(c) \/ Pending(c))'
<1>1. /\ queue \in Seq(Task) /\ Len(queue) \in Nat /\ Len(queue') = Len(queue) + 1
      /\ \A i \in 1 .. Len(queue) : queue'[i] = queue[i]
      /\ queue'[Len(queue) + 1] = t
  BY AppendProperties, LenProperties DEF IInv, TypeOK
<1>2. NoneQueued(c) => NoneQueued(c)'
  BY <1>1 DEF NoneQueued
<1>3. NoneHeld(c) => NoneHeld(c)'
  BY DEF NoneHeld
<1>4. InQueue(c) => InQueue(c)'
  <2> SUFFICES ASSUME InQueue(c) PROVE InQueue(c)'
      OBVIOUS
  <2>1. PICK i \in 1 .. Len(queue) : /\ queue[i] = TheRequest(c)
                                     /\ \A j \in 1 .. Len(queue) : queue[j].from = c => j = i
    BY DEF InQueue
  <2>2. TheRequest(c)' = TheRequest(c)
    BY DEF TheRequest, Connection
  <2>3. i \in 1 .. Len(queue') /\ queue'[i] = TheRequest(c)'
    BY <1>1, <2>1, <2>2
  <2>4. \A j \in 1 .. Len(queue') : queue'[j].from = c => j = i
    BY <1>1, <2>1
  <2>5. QED BY <1>3, <2>3, <2>4 DEF InQueue, Connection
<1>5. InWorker(c) => InWorker(c)'
  BY <1>2 DEF InWorker, TheRequest, Connection
<1>6. QED BY <1>2, <1>3, <1>4, <1>5 DEF Connection, Settled, Pending, InStream, InThread, Whole

\* The worker takes the request at the head of the queue.
LEMMA PlaceOnBegin ==
  ASSUME IInv, NEW c \in Client, NEW w \in Worker, Begin(w), Settled(c) \/ Pending(c)
  PROVE  (Settled(c) \/ Pending(c))'
<1>1. UNCHANGED Connection(c)
  BY DEF Begin, clients, Connection
<1>2. /\ queue # <<>> /\ slot[w] = NoTask /\ slot' = [slot EXCEPT ![w] = queue[1]]
      /\ queue' = Tail(queue) /\ queue \in Seq(Task) /\ Len(queue) \in Nat
  BY LenProperties DEF Begin, Scheduler!Begin, IInv, TypeOK
<1>3. /\ Len(queue) > 0 /\ Len(queue') = Len(queue) - 1
      /\ \A i \in 1 .. Len(queue') : queue'[i] = queue[i + 1]
  BY <1>2, HeadTailProperties, EmptySeq, LenProperties
<1>4. queue[1] \in Task /\ slot'[w] = queue[1]
  BY <1>2, <1>3, ElementOfSeq DEF IInv, TypeOK
<1>5. \A v \in Worker : v # w => slot'[v] = slot[v]
  BY <1>2 DEF IInv, TypeOK
<1>6. TheRequest(c)' = TheRequest(c)
  BY <1>1 DEF TheRequest, Connection
<1>7. NoneQueued(c) => NoneQueued(c)'
  BY <1>3 DEF NoneQueued
<1>8. CASE queue[1].from # c
  <2>1. NoneHeld(c) => NoneHeld(c)'
    BY <1>4, <1>5, <1>8 DEF NoneHeld
  <2>2. InQueue(c) => InQueue(c)'
    <3> SUFFICES ASSUME InQueue(c) PROVE InQueue(c)'
        OBVIOUS
    <3>1. PICK i \in 1 .. Len(queue) : /\ queue[i] = TheRequest(c)
                                       /\ \A j \in 1 .. Len(queue) : queue[j].from = c => j = i
      BY DEF InQueue
    <3>2. i # 1
      BY <1>8, <3>1 DEF TheRequest
    <3>3. i - 1 \in 1 .. Len(queue') /\ queue'[i - 1] = TheRequest(c)'
      BY <1>2, <1>3, <1>6, <3>1, <3>2
    <3>4. \A j \in 1 .. Len(queue') : queue'[j].from = c => j = i - 1
      BY <1>2, <1>3, <3>1
    <3>5. QED BY <1>1, <2>1, <3>3, <3>4 DEF InQueue, Connection
  <2>3. InWorker(c) => InWorker(c)'
    <3> SUFFICES ASSUME InWorker(c) PROVE InWorker(c)'
        OBVIOUS
    <3>1. PICK v \in Worker : /\ slot[v] # NoTask /\ slot[v] = TheRequest(c)
                              /\ \A u \in Worker : slot[u] # NoTask /\ slot[u].from = c => u = v
      BY DEF InWorker
    <3>2. NoneQueued(c)' /\ UNCHANGED <<stream[c], got[c], cpc[c]>>
      BY <1>1, <1>7 DEF InWorker, Connection
    <3>3. slot'[v] # NoTask /\ slot'[v] = TheRequest(c)'
      BY <1>2, <1>5, <1>6, <3>1
    <3>4. \A u \in Worker : slot'[u] # NoTask /\ slot'[u].from = c => u = v
      BY <1>4, <1>5, <1>8, <3>1
    <3>5. QED BY <3>2, <3>3, <3>4 DEF InWorker
  <2>4. QED BY <1>1, <1>7, <2>1, <2>2, <2>3
            DEF Connection, Settled, Pending, InStream, InThread, Whole
<1>9. CASE queue[1].from = c
  <2>1. InQueue(c)
    BY <1>2, <1>3, <1>9 DEF Settled, Pending, InStream, InThread, InWorker, NoneQueued
  <2>2. PICK i \in 1 .. Len(queue) : /\ queue[i] = TheRequest(c)
                                     /\ \A j \in 1 .. Len(queue) : queue[j].from = c => j = i
    BY <2>1 DEF InQueue
  <2>3. i = 1
    BY <1>2, <1>3, <1>9, <2>2
  <2>4. slot'[w] # NoTask /\ slot'[w] = TheRequest(c)'
    BY <1>4, <1>6, <2>2, <2>3, Constants
  <2>5. \A v \in Worker : slot'[v] # NoTask /\ slot'[v].from = c => v = w
    BY <1>5, <2>1 DEF InQueue, NoneHeld
  <2>6. NoneQueued(c)'
    <3>1. ASSUME NEW j \in 1 .. Len(queue'), queue'[j].from = c PROVE FALSE
      <4>1. j + 1 \in 1 .. Len(queue) /\ queue[j + 1].from = c
        BY <1>2, <1>3, <3>1
      <4>2. j + 1 = 1
        BY <2>2, <2>3, <4>1
      <4>3. QED BY <4>2
    <3>2. QED BY <3>1 DEF NoneQueued
  <2>7. InWorker(c)'
    BY <1>1, <2>1, <2>4, <2>5, <2>6 DEF InWorker, InQueue, Connection
  <2>8. QED BY <1>1, <1>3, <1>9, <2>7 DEF Pending, Settled, NoneQueued, Connection
<1>10. QED BY <1>8, <1>9

\* An answer that continues the count of its client.
LEMMA NextAnswer ==
  ASSUME IInv, AnswersMatchRequests, NEW c \in Client, NEW answer,
         replies' = [replies EXCEPT ![c] = Append(@, answer)],
         answer.from = c, answer.num = Len(replies[c]) + 1
  PROVE  AnswersMatchRequests' /\ Len(replies'[c]) = Len(replies[c]) + 1
<1>1. replies \in [Client -> Seq(Answer)] /\ Len(replies[c]) \in Nat
  BY LenProperties DEF IInv, TypeOK
<1>2. replies'[c] = Append(replies[c], answer) /\ \A d \in Client : d # c => replies'[d] = replies[d]
  BY <1>1
<1>3. /\ Len(replies'[c]) = Len(replies[c]) + 1
      /\ \A i \in 1 .. Len(replies[c]) : replies'[c][i] = replies[c][i]
      /\ replies'[c][Len(replies[c]) + 1] = answer
  BY <1>1, <1>2
<1>4. ASSUME NEW d \in Client, NEW i \in 1 .. Len(replies'[d])
      PROVE  replies'[d][i].from = d /\ replies'[d][i].num = i
  <2>1. CASE d # c
    BY <1>2, <2>1 DEF AnswersMatchRequests
  <2>2. CASE d = c /\ i \in 1 .. Len(replies[c])
    BY <1>3, <2>2 DEF AnswersMatchRequests
  <2>3. CASE d = c /\ i = Len(replies[c]) + 1
    BY <1>3, <2>3
  <2>4. QED BY <1>1, <1>3, <2>1, <2>2, <2>3
<1>5. QED BY <1>3, <1>4 DEF AnswersMatchRequests

\* The invariant, and its steps.
AInv == FdsDiffer /\ OneAtATime /\ AnswersMatchRequests

LEMMA AInit == Init => AInv
<1> SUFFICES ASSUME Init PROVE AInv
    OBVIOUS
<1>1. \A c \in Client : Settled(c)
  BY EmptySeq, Constants DEF Init, Settled, NoneQueued, NoneHeld
<1>2. \A c \in Client : Len(replies[c]) = 0
  BY EmptySeq DEF Init
<1>3. FdsDiffer /\ AnswersMatchRequests
  BY <1>2 DEF Init, FdsDiffer, AnswersMatchRequests
<1>4. QED BY <1>1, <1>3 DEF AInv, OneAtATime

\* The server thread has opened the connection of c.
Accepted(c) ==
  /\ AcceptConnection /\ cpc[c] = "none"
  /\ fd' = [fd EXCEPT ![c] = fd'[c]] /\ cpc' = [cpc EXCEPT ![c] = "check"]

LEMMA AStep ==
  ASSUME Orderly, IInv, AInv, ~crashed, Next
  PROVE  /\ ~crashed' => \A c \in Client : Settled(c)' \/ Pending(c)'
         /\ AnswersMatchRequests'
<1>1. \A c \in Client : Settled(c) \/ Pending(c)
  BY DEF AInv, OneAtATime
<1>2. FdsDiffer /\ AnswersMatchRequests
  BY DEF AInv
<1>3. UNCHANGED replies => AnswersMatchRequests'
  BY <1>2 DEF AnswersMatchRequests
<1>4. TypeOK
  BY DEF IInv
<1> USE DEF clients, deinit, tasks
<1>5. CASE ServerInit \/ ServerCheck \/ AcceptNothing \/ DeinitStop \/ DeinitStep
  <2>1. UNCHANGED <<remote, sent, stream, replies, fd, cpc, got, queue, slot>>
    BY <1>5 DEF ServerInit, ServerCheck, AcceptNothing, DeinitStop, DeinitStep, DeinitEmpty,
       DeinitJoin, DeinitClear, DeinitClose, DeinitWait, SchedulerClose, Scheduler!Close
  <2>2. \A c \in Client : UNCHANGED Connection(c)
    BY <2>1 DEF Connection
  <2>3. QED BY <1>1, <1>3, <2>1, <2>2, PlaceStays
<1>6. CASE \E w \in Worker : Begin(w)
  <2>1. UNCHANGED replies
    BY <1>6 DEF Begin
  <2>2. QED BY <1>1, <1>3, <1>6, <2>1, PlaceOnBegin
<1>7. ASSUME NEW w \in Worker, Execute(w)
      PROVE  /\ \A c \in Client : Settled(c)' \/ Pending(c)'
             /\ AnswersMatchRequests'
  <2>1. /\ slot[w] # NoTask /\ slot' = [slot EXCEPT ![w] = NoTask] /\ UNCHANGED queue
        /\ SendResponse(slot[w].fd,
                        [from |-> slot[w].from, num |-> slot[w].num, queued |-> TRUE])
        /\ UNCHANGED <<remote, sent, stream, fd, cpc, got>>
    BY <1>7 DEF Execute, Scheduler!Complete
  <2>2. PICK c \in Client : c = slot[w].from
    BY <1>4, <2>1 DEF TypeOK, Task
  <2>3. Pending(c) /\ InWorker(c)
    BY <1>1, <2>1, <2>2 DEF Settled, Pending, InStream, InThread, InQueue, NoneHeld
  <2>4. slot[w] = TheRequest(c) /\ \A v \in Worker : v # w => (slot[v] # NoTask => slot[v].from # c)
    BY <2>1, <2>2, <2>3 DEF InWorker
  <2>5. fd[c] # NoFd
    BY <2>3 DEF InWorker, IInv, OpenWhileUp, Up
  <2> DEFINE answer == [from |-> slot[w].from, num |-> slot[w].num, queued |-> TRUE]
  <2>6. answer.from = c /\ answer.num = sent[c] /\ slot[w].fd = fd[c]
    BY <2>2, <2>4 DEF TheRequest
  <2>7. replies' = [replies EXCEPT ![c] = Append(@, answer)]
    BY <1>2, <2>1, <2>3, <2>5, <2>6, Delivered DEF Pending
  <2>8. Len(replies[c]) + 1 = sent[c]
    BY <1>4, <2>3, Constants DEF Pending, TypeOK
  <2>9. AnswersMatchRequests' /\ Len(replies'[c]) = sent[c]
    BY <1>2, <2>6, <2>7, <2>8, NextAnswer
  <2>10. Settled(c)'
    <3>1. NoneHeld(c)'
      BY <1>4, <2>1, <2>4 DEF NoneHeld, TypeOK
    <3>2. QED BY <2>1, <2>3, <2>9, <3>1 DEF Settled, InWorker, NoneQueued
  <2>11. ASSUME NEW d \in Client, d # c PROVE Settled(d)' \/ Pending(d)'
    <3>1. UNCHANGED Connection(d)
      BY <1>4, <2>1, <2>7, <2>11 DEF Connection, TypeOK
    <3>2. NoneHeld(d) => NoneHeld(d)'
      BY <1>4, <2>1 DEF NoneHeld, TypeOK
    <3>3. InWorker(d) => InWorker(d)'
      <4> SUFFICES ASSUME InWorker(d) PROVE InWorker(d)'
          OBVIOUS
      <4>1. PICK v \in Worker : /\ slot[v] # NoTask /\ slot[v] = TheRequest(d)
                                /\ \A u \in Worker : slot[u] # NoTask /\ slot[u].from = d => u = v
        BY DEF InWorker
      <4>2. v # w
        BY <2>2, <2>11, <4>1 DEF TheRequest
      <4>3. TheRequest(d)' = TheRequest(d)
        BY <3>1 DEF Connection, TheRequest
      <4>4. slot'[v] # NoTask /\ slot'[v] = TheRequest(d)'
        BY <1>4, <2>1, <4>1, <4>2, <4>3 DEF TypeOK
      <4>5. \A u \in Worker : slot'[u] # NoTask /\ slot'[u].from = d => u = v
        BY <1>4, <2>1, <4>1 DEF TypeOK
      <4>6. NoneQueued(d)' /\ UNCHANGED <<stream[d], got[d], cpc[d]>>
        BY <2>1, <3>1 DEF InWorker, NoneQueued, Connection
      <4>7. QED BY <4>4, <4>5, <4>6 DEF InWorker
    <3>4. UNCHANGED queue
      BY <2>1
    <3>5. InQueue(d) => InQueue(d)'
      BY <3>1, <3>2, <3>4 DEF InQueue, Connection, TheRequest
    <3>6. NoneQueued(d) => NoneQueued(d)'
      BY <3>4 DEF NoneQueued
    <3>7. QED BY <1>1, <3>1, <3>2, <3>3, <3>5, <3>6
              DEF Connection, Settled, Pending, InStream, InThread, Whole
  <2>12. QED BY <2>9, <2>10, <2>11
<1>8. ASSUME NEW c \in Client,
             Connect(c) \/ Send(c) \/ HangUp(c) \/ ClientCheck(c) \/ ReadNothing(c) \/ ReadData(c)
               \/ CloseClient(c) \/ Accepted(c)
      PROVE  Settled(c)' \/ Pending(c)'
  <2>1. UNCHANGED <<replies, queue, slot>>
    BY <1>8 DEF Connect, Send, HangUp, ClientCheck, ReadNothing, ReadData, CloseClient,
       Accepted, AcceptConnection
  <2>2. UNCHANGED <<NoneQueued(c), NoneHeld(c)>>
    BY <2>1 DEF NoneQueued, NoneHeld
  <2>3. dpc # "alive" => ~InQueue(c) /\ ~InWorker(c)
    <3>1. ASSUME dpc # "alive" PROVE queue = <<>> /\ \A w \in Worker : slot[w] = NoTask
      BY <3>1 DEF IInv, NothingQueued
    <3>2. ASSUME dpc # "alive" PROVE ~InQueue(c) /\ ~InWorker(c)
      BY <3>1, <3>2, EmptySeq DEF InQueue, InWorker
    <3>3. QED BY <3>2
  <2>4. CASE Connect(c)
    <3>1. Settled(c)
      BY <1>1, <2>4 DEF Connect, Pending
    <3>2. QED BY <2>1, <2>2, <2>4, <3>1 DEF Connect, Settled
  <2>5. CASE HangUp(c)
    <3>1. Settled(c)
      BY <1>1, <1>4, <2>5, Constants DEF HangUp, Answered, Pending, TypeOK
    <3>2. QED BY <2>1, <2>2, <2>5, <3>1 DEF HangUp, Settled
  <2>6. CASE Send(c)
    <3>1. Settled(c)
      BY <1>1, <1>4, <2>6, Constants DEF Send, Answered, Pending, TypeOK
    <3>2. PICK known \in BOOLEAN :
            stream' = [stream EXCEPT ![c] = @ \o
              [h \in 1 .. 2 |-> [num |-> sent[c] + 1, known |-> known, half |-> h]]]
      BY <2>6 DEF Send
    <3> DEFINE p == [h \in 1 .. 2 |-> [num |-> sent[c] + 1, known |-> known, half |-> h]]
    <3>3. Whole(p, sent[c] + 1)
      BY DEF Whole
    <3>4. stream'[c] = <<>> \o p
      BY <1>4, <3>1, <3>2 DEF TypeOK, Settled
    <3>5. Whole(stream'[c], sent[c] + 1)
      BY <3>3, <3>4, EmptySeq DEF Whole
    <3>6. /\ sent'[c] = sent[c] + 1 /\ sent[c] \in Nat /\ remote[c] = "connected"
          /\ UNCHANGED <<remote, cpc, got>>
      BY <1>4, <2>6, Constants DEF Send, TypeOK
    <3>7. InStream(c)'
      BY <2>2, <3>1, <3>5, <3>6 DEF InStream, Settled, Whole
    <3>8. QED BY <2>1, <3>1, <3>6, <3>7 DEF Pending, Settled
  <2>7. CASE ClientCheck(c) \/ ReadNothing(c)
    <3>1. /\ cpc[c] \in {"check", "read"} /\ cpc'[c] # "parse"
          /\ UNCHANGED <<remote, sent, stream, replies, fd, got>>
      BY <1>4, <2>7 DEF ClientCheck, ReadNothing, TypeOK
    <3>2. dpc = "alive" /\ remote[c] # "gone" => cpc'[c] \in {"check", "read"}
      BY <1>4, <2>7 DEF ClientCheck, ReadNothing, TypeOK
    <3>3. Settled(c) => Settled(c)'
      BY <2>1, <2>2, <3>1 DEF Settled
    <3>4. InStream(c) => InStream(c)'
      BY <2>1, <2>2, <3>1 DEF InStream, Whole
    <3>5. ~InThread(c)
      BY <3>1 DEF InThread
    <3>6. TheRequest(c)' = TheRequest(c)
      BY <3>1 DEF TheRequest
    <3>7. Pending(c) /\ InQueue(c) => InQueue(c)'
      BY <2>1, <2>2, <2>3, <3>1, <3>2, <3>6 DEF Pending, InQueue
    <3>8. Pending(c) /\ InWorker(c) => InWorker(c)'
      BY <2>1, <2>2, <2>3, <3>1, <3>2, <3>6 DEF Pending, InWorker
    <3>9. QED BY <1>1, <2>1, <3>1, <3>3, <3>4, <3>5, <3>7, <3>8 DEF Pending
  <2>8. CASE ReadData(c)
    <3>1. PICK k \in 0 .. Len(stream[c]) :
            /\ k = Len(stream[c]) /\ k > 0
            /\ got' = [got EXCEPT ![c] = SubSeq(stream[c], 1, k)]
            /\ stream' = [stream EXCEPT ![c] = SubSeq(@, k + 1, Len(@))]
      BY <2>8 DEF ReadData
    <3>2. /\ cpc'[c] = "parse" /\ UNCHANGED <<remote, sent, replies>> /\ stream[c] \in Seq(Part)
          /\ got'[c] = SubSeq(stream[c], 1, Len(stream[c]))
          /\ stream'[c] = SubSeq(stream[c], Len(stream[c]) + 1, Len(stream[c]))
      BY <1>4, <2>8, <3>1 DEF ReadData, TypeOK
    <3>3. Pending(c) /\ InStream(c)
      BY <1>1, <2>8, <3>1, EmptySeq DEF ReadData, Settled, Pending, InThread, InQueue, InWorker
    <3>4. got'[c] = stream[c] /\ stream'[c] = <<>>
      BY <3>2, SubSeqProperties, EmptySeq, LenProperties
    <3>5. InThread(c)'
      BY <2>2, <3>2, <3>3, <3>4 DEF InThread, InStream, Whole
    <3>6. QED BY <3>2, <3>3, <3>5 DEF Pending
  <2>9. CASE CloseClient(c) \/ Accepted(c)
    <3>1. /\ cpc[c] \in {"none", "close"} /\ cpc'[c] # "parse"
          /\ UNCHANGED <<remote, sent, stream, replies, got>>
      BY <1>4, <2>9 DEF CloseClient, Accepted, AcceptConnection, TypeOK
    <3>2. Settled(c) \/ (Pending(c) /\ InStream(c))
      BY <1>1, <3>1 DEF Pending, InThread, InQueue, InWorker
    <3>3. Settled(c) => Settled(c)'
      BY <2>2, <3>1 DEF Settled
    <3>4. InStream(c) => InStream(c)'
      BY <2>2, <3>1 DEF InStream, Whole
    <3>5. QED BY <3>1, <3>2, <3>3, <3>4 DEF Pending
  <2>10. QED BY <1>8, <2>4, <2>5, <2>6, <2>7, <2>8, <2>9
<1>9. ASSUME NEW c \in Client, ParseMessage(c)
      PROVE  /\ ~crashed' => Settled(c)' \/ Pending(c)'
             /\ AnswersMatchRequests'
  <2>1. Pending(c) /\ InThread(c)
    BY <1>1, <1>9 DEF ParseMessage, Settled, Pending, InStream, InQueue, InWorker
  <2>2. fd[c] # NoFd
    BY <2>1 DEF InThread, IInv, OpenWhileUp, Up
  <2>3. /\ UNCHANGED <<remote, sent, stream, fd, slot>>
        /\ cpc'[c] = "check" /\ got'[c] = <<>>
    BY <1>4, <1>9 DEF ParseMessage, SendResponse, Scheduler!Submit, TypeOK
  <2>4. got[c] # <<>> /\ got[c][1].num = sent[c]
    BY <2>1 DEF InThread, Whole
  <2>5. UNCHANGED NoneHeld(c)
    BY <2>3 DEF NoneHeld
  <2>6. CASE dpc = "alive" /\ IsCommand(got[c])
    <3>1. queue' = Append(queue, Request(c)) /\ UNCHANGED replies
      BY <1>9, <2>6 DEF ParseMessage, Scheduler!Submit
    <3>2. queue \in Seq(Task) /\ Request(c) \in Task /\ Request(c) = TheRequest(c)'
      BY <1>4, <1>9, <2>3, <2>4, <2>6, Requested DEF ParseMessage, Request, TheRequest, TypeOK
    <3>3. /\ Len(queue') = Len(queue) + 1 /\ Len(queue) \in Nat
          /\ \A i \in 1 .. Len(queue) : queue'[i] = queue[i]
          /\ queue'[Len(queue) + 1] = TheRequest(c)'
      BY <3>1, <3>2, AppendProperties, LenProperties
    <3>4. \A j \in 1 .. Len(queue') : queue'[j].from = c => j = Len(queue) + 1
      BY <2>1, <3>3 DEF InThread, NoneQueued
    <3>5. InQueue(c)'
      BY <2>1, <2>3, <2>5, <3>3, <3>4 DEF InQueue, InThread
    <3>6. QED BY <1>3, <2>1, <2>3, <3>1, <3>5 DEF Pending
  <2>7. CASE dpc = "alive" /\ ~IsCommand(got[c])
    <3> DEFINE answer == [from |-> c, queued |-> FALSE,
                          num |-> IF got[c] = <<>> THEN 0 ELSE got[c][1].num]
    <3>1. SendResponse(fd[c], answer) /\ UNCHANGED queue
      BY <1>9, <2>7 DEF ParseMessage
    <3>2. replies' = [replies EXCEPT ![c] = Append(@, answer)]
      BY <1>2, <2>1, <2>2, <3>1, Delivered DEF Pending
    <3>3. answer.from = c /\ answer.num = Len(replies[c]) + 1 /\ Len(replies[c]) + 1 = sent[c]
      BY <1>4, <2>1, <2>4, Constants DEF Pending, TypeOK
    <3>4. AnswersMatchRequests' /\ Len(replies'[c]) = sent[c]
      BY <1>2, <3>2, <3>3, NextAnswer
    <3>5. Settled(c)'
      BY <2>1, <2>3, <2>5, <3>1, <3>4 DEF Settled, InThread, NoneQueued
    <3>6. QED BY <3>4, <3>5
  <2>8. CASE dpc # "alive"
    BY <1>3, <1>9, <2>8 DEF ParseMessage
  <2>9. QED BY <2>6, <2>7, <2>8
<1>10. ASSUME NEW c \in Client, NEW d \in Client, d # c,
              \/ Connect(c) \/ Send(c) \/ HangUp(c) \/ ClientStep(c)
              \/ Accepted(c)
       PROVE  Settled(d)' \/ Pending(d)'
  <2>1. UNCHANGED slot
    BY <1>10 DEF Connect, Send, HangUp, ClientStep, ClientCheck, ReadNothing, ReadData,
       ParseMessage, CloseClient, Accepted, AcceptConnection, Scheduler!Submit
  <2>2. UNCHANGED <<remote[d], sent[d], stream[d], fd[d], cpc[d], got[d]>>
    BY <1>4, <1>10 DEF Connect, Send, HangUp, ClientStep, ClientCheck, ReadNothing, ReadData,
       ParseMessage, CloseClient, Accepted, AcceptConnection, TypeOK
  <2>3. CASE UNCHANGED queue /\ UNCHANGED replies[d]
    BY <1>1, <2>1, <2>2, <2>3, PlaceStays DEF Connection
  <2>4. CASE ParseMessage(c) /\ dpc = "alive" /\ IsCommand(got[c])
    <3>1. queue' = Append(queue, Request(c)) /\ UNCHANGED replies
      BY <2>4 DEF ParseMessage, Scheduler!Submit
    <3>2. Request(c) \in Task /\ Request(c).from # d
      BY <1>10, <2>4, Requested DEF ParseMessage, Request
    <3>3. QED BY <1>1, <2>1, <2>2, <3>1, <3>2, PlaceStaysOnSubmit DEF Connection
  <2>5. CASE ParseMessage(c) /\ dpc = "alive" /\ ~IsCommand(got[c])
    <3>1. Pending(c) /\ InThread(c) /\ UNCHANGED queue
      BY <1>1, <2>5 DEF ParseMessage, Settled, Pending, InStream, InQueue, InWorker
    <3>2. fd[c] # NoFd /\ remote[c] = "connected"
      BY <3>1 DEF Pending, InThread, IInv, OpenWhileUp, Up
    <3>3. PICK answer : SendResponse(fd[c], answer)
      BY <2>5 DEF ParseMessage
    <3>4. UNCHANGED replies[d]
      BY <1>2, <1>4, <1>10, <3>2, <3>3, Delivered DEF TypeOK
    <3>5. QED BY <2>3, <3>1, <3>4
  <2>6. CASE ~ParseMessage(c)
    <3>1. UNCHANGED <<queue, replies>>
      BY <1>10, <2>6 DEF Connect, Send, HangUp, ClientStep, ClientCheck, ReadNothing, ReadData,
         CloseClient, Accepted, AcceptConnection
    <3>2. QED BY <2>3, <3>1
  <2>7. CASE ParseMessage(c) /\ dpc # "alive"
    BY <2>3, <2>7 DEF ParseMessage
  <2>8. QED BY <2>4, <2>5, <2>6, <2>7
<1>11. CASE RemoteStep \/ \E c \in Client : ClientStep(c)
  <2>1. PICK c \in Client : Connect(c) \/ Send(c) \/ HangUp(c) \/ ClientStep(c)
    BY <1>11 DEF RemoteStep
  <2>2. CASE ParseMessage(c)
    BY <1>9, <1>10, <2>1, <2>2
  <2>3. CASE ~ParseMessage(c)
    <3>1. Settled(c)' \/ Pending(c)'
      BY <1>8, <2>1, <2>3 DEF ClientStep
    <3>2. UNCHANGED replies
      BY <2>1, <2>3 DEF Connect, Send, HangUp, ClientStep, ClientCheck, ReadNothing, ReadData,
         CloseClient
    <3>3. QED BY <1>3, <1>10, <2>1, <3>1, <3>2
  <2>4. QED BY <2>2, <2>3
<1>12. CASE AcceptConnection
  <2>1. PICK c \in Backlog, f \in Fd : /\ fd' = [fd EXCEPT ![c] = f]
                                       /\ cpc' = [cpc EXCEPT ![c] = "check"]
    BY <1>12 DEF AcceptConnection
  <2>2. c \in Client /\ cpc[c] = "none"
    BY DEF Backlog
  <2>3. Accepted(c)
    BY <1>4, <1>12, <2>1, <2>2 DEF Accepted, TypeOK
  <2>4. UNCHANGED replies
    BY <1>12 DEF AcceptConnection
  <2>5. QED BY <1>3, <1>8, <1>10, <2>2, <2>3, <2>4
<1>13. QED
  BY <1>5, <1>6, <1>7, <1>11, <1>12 DEF Next, Running, ServerStep, WorkerStep

LEMMA ANext == Orderly /\ IInv /\ AInv /\ [Next]_vars => AInv'
<1> SUFFICES ASSUME Orderly, IInv, AInv, [Next]_vars PROVE AInv'
    OBVIOUS
<1>1. FdsDiffer'
  BY FdsStayDifferent DEF AInv
<1>2. CASE UNCHANGED vars
  <2>1. UNCHANGED <<remote, sent, stream, replies, fd, cpc, got, queue, slot, crashed>>
    BY <1>2 DEF vars, clients, tasks
  <2>2. \A c \in Client : UNCHANGED Connection(c)
    BY <2>1 DEF Connection
  <2>3. OneAtATime'
    BY <2>1, <2>2, PlaceStays DEF AInv, OneAtATime
  <2>4. QED BY <1>1, <2>1, <2>3 DEF AInv, AnswersMatchRequests
<1>3. CASE Next
  <2>1. ~crashed
    BY <1>3 DEF Next
  <2>2. QED BY <1>1, <1>3, <2>1, AStep DEF AInv, OneAtATime
<1>4. QED BY <1>2, <1>3

\* Clients that wait for each answer before they send the next message get the
\* answer to their i-th message as their i-th answer: handleClient, the queue, the
\* workers and sendResponse lose none, double none and give none to another
\* client, although a request is answered on a descriptor number that is reused.
THEOREM AnswersMatch == ASSUME Orderly = TRUE PROVE Spec => []AnswersMatchRequests
<1>1. AInv => AnswersMatchRequests
  BY DEF AInv
<1>2. IInv /\ AInv /\ [Next]_vars => AInv'
  BY ANext
<1>3. QED BY <1>1, <1>2, AInit, Invariance, PTL DEF Spec

-----------------------------------------------------------------------------
(* Clients that do not wait, and one worker *)

\* The parts of c that were read come before those on their way, in the order in
\* which they were sent.
Pos(p) == 2 * p.num + p.half
Ordered(s) == \A i, j \in 1 .. Len(s) : i < j => Pos(s[i]) < Pos(s[j])

PartsInOrder ==
  \A c \in Client :
    /\ Ordered(got[c]) /\ Ordered(stream[c])
    /\ \A i \in 1 .. Len(got[c]), j \in 1 .. Len(stream[c]) : Pos(got[c][i]) < Pos(stream[c][j])
    /\ \A i \in 1 .. Len(got[c]) : got[c][i].num <= sent[c]
    /\ \A j \in 1 .. Len(stream[c]) : stream[c][j].num <= sent[c]

\* What is left of c comes after its n-th message: what was not dispatched, what
\* is queued and what is executed.
Dispatched(c, n) ==
  /\ n <= sent[c]
  /\ \A i \in 1 .. Len(got[c]) : n < got[c][i].num
  /\ \A j \in 1 .. Len(stream[c]) : n < stream[c][j].num
Begun(c, n)    == \A j \in 1 .. Len(queue) : queue[j].from = c => n < queue[j].num
Executed(c, n) == \A w \in Worker : slot[w] # NoTask /\ slot[w].from = c => n < slot[w].num

QueueInOrder ==
  \A i \in 1 .. Len(queue) :
    /\ Dispatched(queue[i].from, queue[i].num)
    /\ \A j \in 1 .. Len(queue) :
         i < j /\ queue[j].from = queue[i].from => queue[i].num < queue[j].num

SlotsInOrder ==
  \A w \in Worker : slot[w] # NoTask =>
    Dispatched(slot[w].from, slot[w].num) /\ Begun(slot[w].from, slot[w].num)

AnsweredInOrder ==
  \A c \in Client : \A i \in 1 .. Len(replies[c]) : replies[c][i].queued =>
    /\ Dispatched(replies[c][i].from, replies[c][i].num)
    /\ Begun(replies[c][i].from, replies[c][i].num)
    /\ Executed(replies[c][i].from, replies[c][i].num)

OInv == PartsInOrder /\ QueueInOrder /\ SlotsInOrder /\ AnsweredInOrder /\ AnswersInOrder

LEMMA OInit == Init => OInv
<1> SUFFICES ASSUME Init PROVE OInv
    OBVIOUS
<1>1. /\ \A c \in Client : Len(got[c]) = 0 /\ Len(stream[c]) = 0 /\ Len(replies[c]) = 0
      /\ Len(queue) = 0 /\ \A w \in Worker : slot[w] = NoTask
  BY EmptySeq DEF Init
<1>2. PartsInOrder
  BY <1>1 DEF PartsInOrder, Ordered
<1>3. QueueInOrder /\ SlotsInOrder
  BY <1>1 DEF QueueInOrder, SlotsInOrder
<1>4. AnsweredInOrder /\ AnswersInOrder
  BY <1>1 DEF AnsweredInOrder, AnswersInOrder
<1>5. QED BY <1>2, <1>3, <1>4 DEF OInv

\* The parts of an earlier message come before those of a later one.
LEMMA EarlierMessage ==
  ASSUME NEW p, NEW q, p.num \in Nat, q.num \in Nat, p.num < q.num,
         p.half \in {1, 2}, q.half \in {1, 2}
  PROVE  Pos(p) < Pos(q)
BY DEF Pos

\* The parts of a client, one by one.
LEMMA PartTypes ==
  ASSUME IInv, NEW c \in Client
  PROVE  /\ stream[c] \in Seq(Part) /\ got[c] \in Seq(Part) /\ sent[c] \in Nat
         /\ Len(stream[c]) \in Nat /\ Len(got[c]) \in Nat
         /\ \A i \in 1 .. Len(stream[c]) : stream[c][i].num \in Nat /\ stream[c][i].half \in {1, 2}
         /\ \A i \in 1 .. Len(got[c]) : got[c][i].num \in Nat /\ got[c][i].half \in {1, 2}
<1>1. stream[c] \in Seq(Part) /\ got[c] \in Seq(Part) /\ sent[c] \in Nat
  BY Constants DEF IInv, TypeOK
<1>2. Len(stream[c]) \in Nat /\ Len(got[c]) \in Nat
  BY <1>1, LenProperties
<1>3. \A p \in Part : p.num \in Nat /\ p.half \in {1, 2}
  BY Constants DEF Part
<1>4. QED BY <1>1, <1>2, <1>3, ElementOfSeq

LEMMA SendParts ==
  ASSUME IInv, NEW c \in Client, Send(c)
  PROVE  /\ sent'[c] = sent[c] + 1 /\ got'[c] = got[c]
         /\ \A d \in Client : d # c => UNCHANGED <<sent[d], got[d], stream[d]>>
         /\ Len(stream'[c]) = Len(stream[c]) + 2
         /\ \A i \in 1 .. Len(stream'[c]) :
              \/ i \in 1 .. Len(stream[c]) /\ stream'[c][i] = stream[c][i]
              \/ /\ i > Len(stream[c]) /\ stream'[c][i].num = sent[c] + 1
                 /\ stream'[c][i].half = i - Len(stream[c])
<1>1. PICK known \in BOOLEAN :
        stream' = [stream EXCEPT ![c] = @ \o
          [h \in 1 .. 2 |-> [num |-> sent[c] + 1, known |-> known, half |-> h]]]
  BY DEF Send
<1> DEFINE p == [h \in 1 .. 2 |-> [num |-> sent[c] + 1, known |-> known, half |-> h]]
<1>2. sent[c] + 1 \in 1 .. MaxMessages
  BY Constants DEF Send, IInv, TypeOK
<1>3. p \in Seq(Part) /\ Len(p) = 2
  <2>1. p \in [1 .. 2 -> Part]
    BY <1>2 DEF Part
  <2>2. QED BY <2>1, IsASeq
<1>4. /\ stream'[c] = stream[c] \o p
      /\ \A d \in Client : d # c => stream'[d] = stream[d]
  BY <1>1 DEF IInv, TypeOK
<1>5. \A h \in 1 .. 2 : p[h].num = sent[c] + 1 /\ p[h].half = h
  OBVIOUS
<1> HIDE DEF p
<1>6. stream[c] \in Seq(Part) /\ Len(stream[c]) \in Nat
  BY PartTypes
<1>7. /\ Len(stream'[c]) = Len(stream[c]) + 2
      /\ \A i \in 1 .. Len(stream[c]) : stream'[c][i] = stream[c][i]
      /\ \A i \in 1 .. Len(stream'[c]) :
           i > Len(stream[c]) => stream'[c][i] = p[i - Len(stream[c])]
  <2>1. /\ Len(stream[c] \o p) = Len(stream[c]) + Len(p)
        /\ \A i \in 1 .. Len(stream[c]) + Len(p) :
             (stream[c] \o p)[i] = IF i <= Len(stream[c]) THEN stream[c][i] ELSE p[i - Len(stream[c])]
    BY <1>3, <1>6, ConcatProperties
  <2>2. QED BY <1>3, <1>4, <1>6, <2>1
<1>8. ASSUME NEW i \in 1 .. Len(stream'[c])
      PROVE  \/ i \in 1 .. Len(stream[c]) /\ stream'[c][i] = stream[c][i]
             \/ /\ i > Len(stream[c]) /\ stream'[c][i].num = sent[c] + 1
                /\ stream'[c][i].half = i - Len(stream[c])
  <2>1. CASE i > Len(stream[c])
    <3>1. i - Len(stream[c]) \in 1 .. 2
      BY <1>7, <1>6, <2>1
    <3>2. QED BY <1>5, <1>7, <2>1, <3>1
  <2>2. CASE ~(i > Len(stream[c]))
    BY <1>7, <1>6, <2>2
  <2>3. QED BY <2>1, <2>2
<1>9. /\ sent'[c] = sent[c] + 1 /\ got'[c] = got[c]
      /\ \A d \in Client : d # c => UNCHANGED <<sent[d], got[d]>>
  BY DEF Send, IInv, TypeOK
<1>10. QED BY <1>4, <1>7, <1>8, <1>9

LEMMA ReadParts ==
  ASSUME IInv, NEW c \in Client, ReadData(c)
  PROVE  /\ UNCHANGED sent
         /\ \A d \in Client : d # c => stream'[d] = stream[d] /\ got'[d] = got[d]
         /\ \E k \in 0 .. Len(stream[c]) :
              /\ Len(got'[c]) = k /\ Len(stream'[c]) = Len(stream[c]) - k
              /\ \A i \in 1 .. k : got'[c][i] = stream[c][i]
              /\ \A i \in 1 .. Len(stream[c]) - k : stream'[c][i] = stream[c][k + i]
<1>1. PICK k \in 0 .. Len(stream[c]) :
        /\ got' = [got EXCEPT ![c] = SubSeq(stream[c], 1, k)]
        /\ stream' = [stream EXCEPT ![c] = SubSeq(@, k + 1, Len(@))]
  BY DEF ReadData
<1>2. /\ got'[c] = SubSeq(stream[c], 1, k)
      /\ stream'[c] = SubSeq(stream[c], k + 1, Len(stream[c]))
      /\ \A d \in Client : d # c => stream'[d] = stream[d] /\ got'[d] = got[d]
  BY <1>1 DEF IInv, TypeOK
<1>3. /\ Len(got'[c]) = k /\ Len(stream'[c]) = Len(stream[c]) - k
      /\ \A i \in 1 .. k : got'[c][i] = stream[c][i]
      /\ \A i \in 1 .. Len(stream[c]) - k : stream'[c][i] = stream[c][k + i]
  BY <1>2, PartTypes, SubSeqProperties
<1>4. QED BY <1>2, <1>3 DEF ReadData

LEMMA ParseParts ==
  ASSUME IInv, NEW c \in Client, ParseMessage(c)
  PROVE  /\ UNCHANGED <<sent, stream>> /\ Len(got'[c]) = 0
         /\ \A d \in Client : d # c => got'[d] = got[d]
BY EmptySeq DEF ParseMessage, clients, IInv, TypeOK

LEMMA OtherParts ==
  ASSUME Next, ~\E c \in Client : Send(c) \/ ReadData(c) \/ ParseMessage(c)
  PROVE  UNCHANGED <<sent, stream, got>>
BY DEF Next, Running, RemoteStep, Connect, HangUp, ServerStep, ServerInit, ServerCheck,
   AcceptConnection, AcceptNothing, ClientStep, ClientCheck, ReadNothing, CloseClient, WorkerStep,
   Begin, Execute, DeinitStop, DeinitStep, DeinitEmpty, DeinitJoin, DeinitClear, DeinitClose,
   DeinitWait, SchedulerClose, clients

LEMMA PartsStayInOrder ==
  ASSUME IInv, PartsInOrder, Next
  PROVE  PartsInOrder'
<1>1. ASSUME NEW c \in Client, Send(c)
      PROVE  PartsInOrder'
  <2>1. \A i \in 1 .. Len(stream'[c]) :
          \/ i \in 1 .. Len(stream[c]) /\ stream'[c][i] = stream[c][i]
          \/ /\ i > Len(stream[c]) /\ stream'[c][i].num = sent[c] + 1
             /\ stream'[c][i].half = i - Len(stream[c])
    BY <1>1, SendParts
  <2>2. /\ \A d \in Client : d # c => UNCHANGED <<sent[d], got[d], stream[d]>>
        /\ sent'[c] = sent[c] + 1 /\ got'[c] = got[c]
        /\ Len(stream'[c]) = Len(stream[c]) + 2 /\ Len(stream'[c]) \in Nat
    BY <1>1, SendParts, PartTypes
  <2>3. ASSUME NEW i \in 1 .. Len(stream'[c]), NEW j \in 1 .. Len(stream'[c]), i < j
        PROVE  Pos(stream'[c][i]) < Pos(stream'[c][j])
    <3>1. CASE j \in 1 .. Len(stream[c]) /\ stream'[c][j] = stream[c][j]
      <4>1. i \in 1 .. Len(stream[c]) /\ stream'[c][i] = stream[c][i]
        BY <2>1, <2>2, <2>3, <3>1, PartTypes
      <4>2. QED BY <2>3, <3>1, <4>1 DEF PartsInOrder, Ordered
    <3>2. CASE /\ j > Len(stream[c]) /\ stream'[c][j].num = sent[c] + 1
               /\ stream'[c][j].half = j - Len(stream[c])
      <4>1. CASE i \in 1 .. Len(stream[c]) /\ stream'[c][i] = stream[c][i]
        <5>1. /\ stream[c][i].num <= sent[c] /\ stream[c][i].num \in Nat
              /\ stream[c][i].half \in {1, 2}
          BY <4>1, PartTypes DEF PartsInOrder
        <5>2. /\ stream'[c][j].half \in {1, 2} /\ stream'[c][j].num \in Nat
              /\ stream[c][i].num < stream'[c][j].num
          BY <2>2, <3>2, <5>1, PartTypes
        <5>3. QED BY <4>1, <5>1, <5>2, EarlierMessage
      <4>2. CASE /\ stream'[c][i].num = sent[c] + 1
                 /\ stream'[c][i].half = i - Len(stream[c])
        BY <2>3, <3>2, <4>2, PartTypes DEF Pos
      <4>3. QED BY <2>1, <4>1, <4>2
    <3>3. QED BY <2>1, <3>1, <3>2
  <2>4. ASSUME NEW i \in 1 .. Len(got[c]), NEW j \in 1 .. Len(stream'[c])
        PROVE  Pos(got[c][i]) < Pos(stream'[c][j])
    <3>1. CASE j \in 1 .. Len(stream[c]) /\ stream'[c][j] = stream[c][j]
      BY <3>1 DEF PartsInOrder
    <3>2. CASE /\ j > Len(stream[c]) /\ stream'[c][j].num = sent[c] + 1
               /\ stream'[c][j].half = j - Len(stream[c])
      <4>1. got[c][i].num <= sent[c] /\ got[c][i].num \in Nat /\ got[c][i].half \in {1, 2}
        BY PartTypes DEF PartsInOrder
      <4>2. sent[c] \in Nat /\ Len(stream[c]) \in Nat
        BY PartTypes
      <4>3. /\ stream'[c][j].half \in {1, 2} /\ stream'[c][j].num \in Nat
            /\ got[c][i].num < stream'[c][j].num
        <5>1. j - Len(stream[c]) \in {1, 2}
          BY <2>2, <3>2, <4>2
        <5>2. sent[c] + 1 \in Nat /\ got[c][i].num < sent[c] + 1
          BY <4>1, <4>2
        <5>3. QED BY <3>2, <5>1, <5>2
      <4>4. QED BY <4>1, <4>3, EarlierMessage
    <3>3. QED BY <2>1, <3>1, <3>2
  <2>5. /\ \A i \in 1 .. Len(got[c]) : got[c][i].num <= sent[c] + 1
        /\ \A j \in 1 .. Len(stream'[c]) : stream'[c][j].num <= sent[c] + 1
    <3>1. sent[c] \in Nat
      BY PartTypes
    <3>2. \A n \in Nat : n <= sent[c] \/ n = sent[c] + 1 => n <= sent[c] + 1
      BY <3>1
    <3>3. ASSUME NEW i \in 1 .. Len(got[c]) PROVE got[c][i].num <= sent[c] + 1
      <4>1. got[c][i].num \in Nat
        BY PartTypes
      <4>2. got[c][i].num <= sent[c]
        BY DEF PartsInOrder
      <4>3. QED BY <3>2, <4>1, <4>2
    <3>4. ASSUME NEW j \in 1 .. Len(stream'[c]) PROVE stream'[c][j].num <= sent[c] + 1
      <4>1. CASE stream'[c][j].num = sent[c] + 1
        BY <3>1, <4>1
      <4>2. CASE j \in 1 .. Len(stream[c]) /\ stream'[c][j] = stream[c][j]
        <5>1. stream[c][j].num \in Nat
          BY <4>2, PartTypes
        <5>2. stream[c][j].num <= sent[c]
          BY <4>2 DEF PartsInOrder
        <5>3. QED BY <3>2, <4>2, <5>1, <5>2
      <4>3. QED BY <2>1, <4>1, <4>2
    <3>5. QED BY <3>3, <3>4
  <2>6. QED BY <2>2, <2>3, <2>4, <2>5 DEF PartsInOrder, Ordered
<1>2. ASSUME NEW c \in Client, ReadData(c)
      PROVE  PartsInOrder'
  <2>1. \A d \in Client : UNCHANGED sent[d] /\ (d # c => UNCHANGED <<got[d], stream[d]>>)
    BY <1>2, ReadParts
  <2>2. PICK k \in 0 .. Len(stream[c]) :
          /\ Len(got'[c]) = k /\ Len(stream'[c]) = Len(stream[c]) - k
          /\ \A i \in 1 .. k : got'[c][i] = stream[c][i]
          /\ \A i \in 1 .. Len(stream[c]) - k : stream'[c][i] = stream[c][k + i]
    BY <1>2, ReadParts
  <2>3. Len(stream[c]) \in Nat
    BY PartTypes
  <2>4. /\ \A i, j \in 1 .. Len(stream[c]) : i < j => Pos(stream[c][i]) < Pos(stream[c][j])
        /\ \A i \in 1 .. Len(stream[c]) : stream[c][i].num <= sent[c]
    BY DEF PartsInOrder, Ordered
  <2>5. \A i \in 1 .. Len(got'[c]) : i \in 1 .. Len(stream[c]) /\ got'[c][i] = stream[c][i]
    BY <2>2, <2>3
  <2>6. \A j \in 1 .. Len(stream'[c]) :
          k + j \in 1 .. Len(stream[c]) /\ stream'[c][j] = stream[c][k + j]
    BY <2>2, <2>3
  <2>7. /\ \A i, j \in 1 .. Len(got'[c]) : i < j => Pos(got'[c][i]) < Pos(got'[c][j])
        /\ \A i \in 1 .. Len(got'[c]) : got'[c][i].num <= sent[c]
    BY <2>4, <2>5
  <2>8. /\ \A i, j \in 1 .. Len(stream'[c]) : i < j => Pos(stream'[c][i]) < Pos(stream'[c][j])
        /\ \A j \in 1 .. Len(stream'[c]) : stream'[c][j].num <= sent[c]
    <3>1. Len(stream'[c]) \in Nat /\ \A i, j \in 1 .. Len(stream'[c]) : i < j => k + i < k + j
      BY <2>2, <2>3
    <3>2. QED BY <2>4, <2>6, <3>1
  <2>9. \A i \in 1 .. Len(got'[c]), j \in 1 .. Len(stream'[c]) :
          Pos(got'[c][i]) < Pos(stream'[c][j])
    <3>1. \A i \in 1 .. Len(got'[c]), j \in 1 .. Len(stream'[c]) : i < k + j
      BY <2>2, <2>3
    <3>2. QED BY <2>4, <2>5, <2>6, <3>1
  <2>10. QED BY <2>1, <2>7, <2>8, <2>9 DEF PartsInOrder, Ordered
<1>3. ASSUME NEW c \in Client, ParseMessage(c)
      PROVE  PartsInOrder'
  BY <1>3, ParseParts DEF PartsInOrder, Ordered
<1>4. CASE UNCHANGED <<sent, stream, got>>
  BY <1>4 DEF PartsInOrder, Ordered
<1>5. QED BY <1>1, <1>2, <1>3, <1>4, OtherParts

\* What has been dispatched stays behind what has not.
LEMMA DispatchedStays ==
  ASSUME IInv, Next, NEW c \in Client, NEW n \in Nat, Dispatched(c, n)
  PROVE  Dispatched(c, n)'
<1>1. ASSUME NEW d \in Client, Send(d)
      PROVE  Dispatched(c, n)'
  <2>1. CASE d # c
    BY <1>1, <2>1, SendParts DEF Dispatched
  <2>2. CASE d = c
    <3>1. /\ sent'[c] = sent[c] + 1 /\ got'[c] = got[c]
          /\ \A i \in 1 .. Len(stream'[c]) :
               \/ i \in 1 .. Len(stream[c]) /\ stream'[c][i] = stream[c][i]
               \/ stream'[c][i].num = sent[c] + 1
      BY <1>1, <2>2, SendParts
    <3>2. sent[c] \in Nat /\ n <= sent[c] /\ n < sent[c] + 1
      BY PartTypes DEF Dispatched
    <3>3. QED BY <3>1, <3>2 DEF Dispatched
  <2>3. QED BY <2>1, <2>2
<1>2. ASSUME NEW d \in Client, ReadData(d)
      PROVE  Dispatched(c, n)'
  <2>1. CASE d # c
    <3>1. UNCHANGED <<sent[c], got[c], stream[c]>>
      BY <1>2, <2>1, ReadParts
    <3>2. QED BY <3>1 DEF Dispatched
  <2>2. CASE d = c
    <3>1. PICK k \in 0 .. Len(stream[c]) :
            /\ Len(got'[c]) = k /\ Len(stream'[c]) = Len(stream[c]) - k
            /\ \A i \in 1 .. k : got'[c][i] = stream[c][i]
            /\ \A i \in 1 .. Len(stream[c]) - k : stream'[c][i] = stream[c][k + i]
      BY <1>2, <2>2, ReadParts
    <3>2. UNCHANGED sent[c]
      BY <1>2, ReadParts
    <3>3. \A i \in 1 .. Len(stream'[c]) : n < stream'[c][i].num
      BY <3>1, PartTypes DEF Dispatched
    <3>4. \A i \in 1 .. Len(got'[c]) : n < got'[c][i].num
      BY <3>1, PartTypes DEF Dispatched
    <3>5. QED BY <3>2, <3>3, <3>4 DEF Dispatched
  <2>3. QED BY <2>1, <2>2
<1>3. ASSUME NEW d \in Client, ParseMessage(d)
      PROVE  Dispatched(c, n)'
  BY <1>3, ParseParts DEF Dispatched
<1>4. CASE UNCHANGED <<sent, stream, got>>
  BY <1>4 DEF Dispatched
<1>5. QED BY <1>1, <1>2, <1>3, <1>4, OtherParts

\* What a response adds to the answers.
LEMMA Appended ==
  ASSUME IInv, NEW f, NEW answer, SendResponse(f, answer)
  PROVE  \A c \in Client : \A i \in 1 .. Len(replies'[c]) :
           \/ i \in 1 .. Len(replies[c]) /\ replies'[c][i] = replies[c][i]
           \/ i = Len(replies[c]) + 1 /\ replies'[c][i] = answer
<1> SUFFICES ASSUME NEW c \in Client, NEW i \in 1 .. Len(replies'[c])
             PROVE  \/ i \in 1 .. Len(replies[c]) /\ replies'[c][i] = replies[c][i]
                    \/ i = Len(replies[c]) + 1 /\ replies'[c][i] = answer
    OBVIOUS
<1>1. replies[c] \in Seq(Answer) /\ Len(replies[c]) \in Nat
  BY LenProperties DEF IInv, TypeOK
<1>2. CASE UNCHANGED replies
  BY <1>2
<1>3. CASE \E d \in Client : replies' = [replies EXCEPT ![d] = Append(@, answer)]
  <2>1. replies'[c] = replies[c] \/ replies'[c] = Append(replies[c], answer)
    BY <1>3 DEF IInv, TypeOK
  <2>2. QED BY <1>1, <2>1
<1>4. QED BY <1>2, <1>3 DEF SendResponse

\* Numbers and senders of tasks and answers.
LEMMA TaskTypes ==
  ASSUME IInv
  PROVE  /\ queue \in Seq(Task) /\ Len(queue) \in Nat
         /\ \A i \in 1 .. Len(queue) : queue[i].from \in Client /\ queue[i].num \in Nat
         /\ \A w \in Worker : slot[w] # NoTask => slot[w].from \in Client /\ slot[w].num \in Nat
         /\ \A c \in Client : \A i \in 1 .. Len(replies[c]) :
              replies[c][i].from \in Client /\ replies[c][i].num \in Nat
<1>1. /\ \A t \in Task : t.from \in Client /\ t.num \in Nat
      /\ \A a \in Answer : a.from \in Client /\ a.num \in Nat
  BY Constants DEF Task, Answer
<1>2. queue \in Seq(Task) /\ Len(queue) \in Nat
  BY LenProperties DEF IInv, TypeOK
<1>3. \A i \in 1 .. Len(queue) : queue[i] \in Task
  BY <1>2, ElementOfSeq
<1>4. \A w \in Worker : slot[w] # NoTask => slot[w] \in Task
  BY DEF IInv, TypeOK
<1>5. \A c \in Client : \A i \in 1 .. Len(replies[c]) : replies[c][i] \in Answer
  BY ElementOfSeq DEF IInv, TypeOK
<1>6. QED BY <1>1, <1>2, <1>3, <1>4, <1>5

LEMMA OStep ==
  ASSUME NEW one, Worker = {one}, IInv, OInv, Next
  PROVE  OInv'
<1> USE DEF OInv
<1>1. PartsInOrder'
  BY PartsStayInOrder
<1>2. \A c \in Client, n \in Nat : Dispatched(c, n) => Dispatched(c, n)'
  BY DispatchedStays
<1>3. CASE UNCHANGED <<queue, slot, replies>>
  <2>1. QueueInOrder'
    BY <1>2, <1>3, TaskTypes DEF QueueInOrder
  <2>2. SlotsInOrder'
    BY <1>2, <1>3, TaskTypes DEF SlotsInOrder, Begun
  <2>3. AnsweredInOrder'
    BY <1>2, <1>3, TaskTypes DEF AnsweredInOrder, Begun, Executed
  <2>4. AnswersInOrder'
    BY <1>3 DEF AnswersInOrder
  <2>5. QED BY <1>1, <2>1, <2>2, <2>3, <2>4
<1>4. CASE Begin(one)
  <2>1. /\ queue # <<>> /\ slot[one] = NoTask /\ slot' = [slot EXCEPT ![one] = queue[1]]
        /\ queue' = Tail(queue) /\ UNCHANGED replies
    BY <1>4 DEF Begin, Scheduler!Begin
  <2>2. /\ Len(queue) > 0 /\ Len(queue) \in Nat /\ Len(queue') = Len(queue) - 1
        /\ \A i \in 1 .. Len(queue') : queue'[i] = queue[i + 1]
    BY <2>1, TaskTypes, HeadTailProperties, EmptySeq, LenProperties
  <2>3. \A i \in 1 .. Len(queue') : i + 1 \in 1 .. Len(queue) /\ queue'[i] = queue[i + 1]
    BY <2>2
  <2>4. slot'[one] = queue[1] /\ \A w \in Worker : w = one
    BY <2>1 DEF IInv, TypeOK
  <2>5. \A c \in Client, n \in Nat : Begun(c, n) => Begun(c, n)'
    BY <2>2, <2>3 DEF Begun
  <2>6. QueueInOrder'
    <3>1. ASSUME NEW i \in 1 .. Len(queue')
          PROVE  Dispatched(queue[i].from, queue[i].num)'
      <4>1. PICK c \in Client, n \in Nat : c = queue[i + 1].from /\ n = queue[i + 1].num
        BY <2>3, TaskTypes
      <4>2. Dispatched(c, n)
        BY <2>3, <4>1 DEF QueueInOrder
      <4>3. Dispatched(c, n)'
        BY <1>2, <4>2
      <4>4. queue'[i].from = c /\ queue'[i].num = n
        BY <2>3, <4>1
      <4>5. QED BY <4>3, <4>4
    <3>2. \A i, j \in 1 .. Len(queue') :
            i < j /\ queue'[j].from = queue'[i].from => queue'[i].num < queue'[j].num
      <4> SUFFICES ASSUME NEW i \in 1 .. Len(queue'), NEW j \in 1 .. Len(queue'), i < j,
                          queue'[j].from = queue'[i].from
                   PROVE  queue'[i].num < queue'[j].num
          OBVIOUS
      <4>1. i + 1 < j + 1
        BY <2>2
      <4>2. i + 1 \in 1 .. Len(queue) /\ j + 1 \in 1 .. Len(queue)
        BY <2>3
      <4>3. queue[j + 1].from = queue[i + 1].from
        BY <2>3
      <4>4. queue[i + 1].num < queue[j + 1].num
        BY <4>1, <4>2, <4>3 DEF QueueInOrder
      <4>5. QED BY <2>3, <4>4
    <3>3. QED BY <3>1, <3>2 DEF QueueInOrder
  <2>7. SlotsInOrder'
    <3>1. PICK c \in Client, n \in Nat : c = queue[1].from /\ n = queue[1].num
      BY <2>2, TaskTypes
    <3>2. Dispatched(c, n)'
      BY <1>2, <2>2, <3>1 DEF QueueInOrder
    <3>3. Begun(c, n)'
      BY <2>2, <2>3, <3>1 DEF QueueInOrder, Begun
    <3>4. slot'[one].from = c /\ slot'[one].num = n
      BY <2>4, <3>1
    <3>5. QED BY <2>4, <3>2, <3>3, <3>4 DEF SlotsInOrder
  <2>8. AnsweredInOrder'
    <3>1. ASSUME NEW c \in Client, NEW i \in 1 .. Len(replies'[c]), replies'[c][i].queued
          PROVE  /\ Dispatched(replies[c][i].from, replies[c][i].num)'
                 /\ Begun(replies[c][i].from, replies[c][i].num)'
                 /\ Executed(replies[c][i].from, replies[c][i].num)'
      <4>1. PICK d \in Client, n \in Nat : d = replies[c][i].from /\ n = replies[c][i].num
        BY <2>1, TaskTypes
      <4>2. Dispatched(d, n) /\ Begun(d, n)
        BY <2>1, <3>1, <4>1 DEF AnsweredInOrder
      <4>3. Executed(d, n)'
        BY <2>2, <2>4, <4>2 DEF Executed, Begun
      <4>4. Dispatched(d, n)' /\ Begun(d, n)'
        BY <1>2, <2>5, <4>2
      <4>5. replies'[c][i].from = d /\ replies'[c][i].num = n
        BY <2>1, <4>1
      <4>6. QED BY <4>3, <4>4, <4>5
    <3>2. QED BY <3>1 DEF AnsweredInOrder
  <2>9. AnswersInOrder'
    BY <2>1 DEF AnswersInOrder
  <2>10. QED BY <1>1, <2>6, <2>7, <2>8, <2>9
<1>5. CASE Execute(one)
  <2> DEFINE answer == [from |-> slot[one].from, num |-> slot[one].num, queued |-> TRUE]
  <2>1. /\ slot[one] # NoTask /\ slot' = [slot EXCEPT ![one] = NoTask] /\ UNCHANGED queue
        /\ SendResponse(slot[one].fd, answer)
    BY <1>5 DEF Execute, Scheduler!Complete
  <2>2. PICK d \in Client, n \in Nat : slot[one].from = d /\ slot[one].num = n
    BY <2>1, TaskTypes
  <2>3. Dispatched(d, n) /\ Begun(d, n)
    BY <2>1, <2>2 DEF SlotsInOrder
  <2>4. answer.from = d /\ answer.num = n
    BY <2>2
  <2> HIDE DEF answer
  <2>5. \A w \in Worker : slot'[w] = NoTask
    BY <2>1 DEF IInv, TypeOK
  <2>6. /\ \A e \in Client, m \in Nat : Executed(e, m)'
        /\ \A e \in Client, m \in Nat : Begun(e, m) => Begun(e, m)'
    BY <2>1, <2>5 DEF Executed, Begun
  <2>7. QueueInOrder'
    BY <1>2, <2>1, TaskTypes DEF QueueInOrder
  <2>8. SlotsInOrder'
    BY <2>5 DEF SlotsInOrder
  <2>9. \A c \in Client : \A i \in 1 .. Len(replies'[c]) :
          \/ i \in 1 .. Len(replies[c]) /\ replies'[c][i] = replies[c][i]
          \/ i = Len(replies[c]) + 1 /\ replies'[c][i] = answer
    BY <2>1, Appended
  <2>10. AnsweredInOrder'
    <3>1. ASSUME NEW c \in Client, NEW i \in 1 .. Len(replies'[c]), replies'[c][i].queued
          PROVE  /\ Dispatched(replies[c][i].from, replies[c][i].num)'
                 /\ Begun(replies[c][i].from, replies[c][i].num)'
                 /\ Executed(replies[c][i].from, replies[c][i].num)'
      <4>1. PICK e \in Client, m \in Nat :
              replies'[c][i].from = e /\ replies'[c][i].num = m /\ Dispatched(e, m) /\ Begun(e, m)
        <5>1. CASE i \in 1 .. Len(replies[c]) /\ replies'[c][i] = replies[c][i]
          BY <3>1, <5>1, TaskTypes DEF AnsweredInOrder
        <5>2. CASE replies'[c][i] = answer
          BY <2>3, <2>4, <5>2
        <5>3. QED BY <2>9, <5>1, <5>2
      <4>2. Dispatched(e, m)' /\ Begun(e, m)' /\ Executed(e, m)'
        BY <1>2, <2>6, <4>1
      <4>3. QED BY <4>1, <4>2
    <3>2. QED BY <3>1 DEF AnsweredInOrder
  <2>11. AnswersInOrder'
    <3>1. ASSUME NEW c \in Client, NEW i \in 1 .. Len(replies'[c]), NEW j \in 1 .. Len(replies'[c]),
                 i < j, replies'[c][i].queued, replies'[c][j].queued,
                 replies'[c][i].from = replies'[c][j].from
          PROVE  replies'[c][i].num < replies'[c][j].num
      <4>1. Len(replies[c]) \in Nat
        BY LenProperties DEF IInv, TypeOK
      <4>2. i \in 1 .. Len(replies[c]) /\ replies'[c][i] = replies[c][i]
        BY <2>9, <3>1, <4>1
      <4>3. CASE j \in 1 .. Len(replies[c]) /\ replies'[c][j] = replies[c][j]
        BY <3>1, <4>2, <4>3 DEF AnswersInOrder
      <4>4. CASE replies'[c][j] = answer
        <5>1. Executed(replies[c][i].from, replies[c][i].num)
          BY <3>1, <4>2 DEF AnsweredInOrder
        <5>2. replies[c][i].num < slot[one].num
          BY <2>1, <2>2, <2>4, <3>1, <4>2, <4>4, <5>1 DEF Executed
        <5>3. QED BY <2>2, <2>4, <4>2, <4>4, <5>2
      <4>5. QED BY <2>9, <4>3, <4>4
    <3>2. QED BY <3>1 DEF AnswersInOrder
  <2>12. QED BY <1>1, <2>7, <2>8, <2>10, <2>11
<1>6. ASSUME NEW c \in Client, ParseMessage(c), dpc = "alive", IsCommand(got[c])
      PROVE  OInv'
  <2>1. /\ queue' = Append(queue, Request(c)) /\ UNCHANGED <<replies, slot, sent, stream>>
        /\ got'[c] = <<>> /\ cpc[c] = "parse"
    BY <1>6 DEF ParseMessage, Scheduler!Submit, clients, IInv, TypeOK
  <2>2. PICK n \in Nat : n = got[c][1].num
    BY <1>6, PartTypes DEF IsCommand
  <2>3. Request(c) \in Task /\ Request(c).from = c /\ Request(c).num = n
    BY <1>6, <2>1, <2>2, Requested DEF Request
  <2>4. \A d \in Client, m \in Nat : Dispatched(d, m) => (d = c => m < n)
    BY <1>6, <2>2 DEF Dispatched, IsCommand
  <2>5. Dispatched(c, n)'
    <3>1. /\ got[c][1].half \in {1, 2} /\ got[c][2].half \in {1, 2}
          /\ got[c][1].num = n /\ got[c][2].num = n /\ n <= sent[c]
      BY <1>6, <2>2, PartTypes DEF IsCommand, PartsInOrder
    <3>2. Pos(got[c][1]) < Pos(got[c][2])
      BY <1>6 DEF IsCommand, PartsInOrder, Ordered
    <3>3. got[c][2].half = 2
      BY <3>1, <3>2 DEF Pos
    <3>4. ASSUME NEW j \in 1 .. Len(stream[c])
          PROVE  n < stream[c][j].num
      <4>1. Pos(got[c][2]) < Pos(stream[c][j])
        BY <1>6 DEF IsCommand, PartsInOrder
      <4>2. stream[c][j].num \in Nat /\ stream[c][j].half \in {1, 2}
        BY PartTypes
      <4>3. QED BY <3>1, <3>3, <4>1, <4>2 DEF Pos
    <3>5. QED BY <2>1, <3>1, <3>4, EmptySeq DEF Dispatched
  <2>6. /\ Len(queue) \in Nat /\ Len(queue') = Len(queue) + 1
        /\ \A i \in 1 .. Len(queue') :
             \/ i \in 1 .. Len(queue) /\ queue'[i] = queue[i]
             \/ i = Len(queue) + 1 /\ queue'[i] = Request(c)
    BY <2>1, <2>3, TaskTypes, AppendProperties
  <2>7. \A d \in Client, m \in Nat : Dispatched(d, m) /\ Begun(d, m) => Begun(d, m)'
    BY <2>3, <2>4, <2>6 DEF Begun
  <2>8. \A d \in Client, m \in Nat : Executed(d, m) => Executed(d, m)'
    BY <2>1 DEF Executed
  <2>9. QueueInOrder'
    <3>1. ASSUME NEW i \in 1 .. Len(queue')
          PROVE  Dispatched(queue[i].from, queue[i].num)'
      <4>1. CASE i \in 1 .. Len(queue) /\ queue'[i] = queue[i]
        BY <1>2, <4>1, TaskTypes DEF QueueInOrder
      <4>2. CASE queue'[i] = Request(c)
        BY <2>3, <2>5, <4>2
      <4>3. QED BY <2>6, <4>1, <4>2
    <3>2. ASSUME NEW i \in 1 .. Len(queue'), NEW j \in 1 .. Len(queue'), i < j,
                 queue'[j].from = queue'[i].from
          PROVE  queue'[i].num < queue'[j].num
      <4>1. i \in 1 .. Len(queue) /\ queue'[i] = queue[i]
        BY <2>6, <3>2
      <4>2. CASE j \in 1 .. Len(queue) /\ queue'[j] = queue[j]
        BY <3>2, <4>1, <4>2 DEF QueueInOrder
      <4>3. CASE queue'[j] = Request(c)
        BY <2>3, <2>4, <3>2, <4>1, <4>3, TaskTypes DEF QueueInOrder
      <4>4. QED BY <2>6, <4>2, <4>3
    <3>3. QED BY <3>1, <3>2 DEF QueueInOrder
  <2>10. SlotsInOrder'
    BY <1>2, <2>1, <2>7, TaskTypes DEF SlotsInOrder
  <2>11. AnsweredInOrder'
    BY <1>2, <2>1, <2>7, <2>8, TaskTypes DEF AnsweredInOrder
  <2>12. AnswersInOrder'
    BY <2>1 DEF AnswersInOrder
  <2>13. QED BY <1>1, <2>9, <2>10, <2>11, <2>12
<1>7. ASSUME NEW c \in Client, ParseMessage(c), dpc = "alive", ~IsCommand(got[c])
      PROVE  OInv'
  <2> DEFINE answer == [from |-> c, queued |-> FALSE,
                        num |-> IF got[c] = <<>> THEN 0 ELSE got[c][1].num]
  <2>1. SendResponse(fd[c], answer) /\ UNCHANGED <<queue, slot>>
    BY <1>7 DEF ParseMessage, tasks
  <2>2. \A d \in Client : \A i \in 1 .. Len(replies'[d]) :
          \/ i \in 1 .. Len(replies[d]) /\ replies'[d][i] = replies[d][i]
          \/ i = Len(replies[d]) + 1 /\ replies'[d][i] = answer
    BY <2>1, Appended
  <2>3. ~answer.queued
    OBVIOUS
  <2> HIDE DEF answer
  <2>4. \A d \in Client : \A i \in 1 .. Len(replies'[d]) : replies'[d][i].queued =>
          i \in 1 .. Len(replies[d]) /\ replies'[d][i] = replies[d][i]
    BY <2>2, <2>3
  <2>5. QueueInOrder'
    BY <1>2, <2>1, TaskTypes DEF QueueInOrder
  <2>6. SlotsInOrder'
    BY <1>2, <2>1, TaskTypes DEF SlotsInOrder, Begun
  <2>7. /\ \A e \in Client, m \in Nat : Executed(e, m) => Executed(e, m)'
        /\ \A e \in Client, m \in Nat : Begun(e, m) => Begun(e, m)'
    BY <2>1 DEF Executed, Begun
  <2>8. AnsweredInOrder'
    <3>1. ASSUME NEW d \in Client, NEW i \in 1 .. Len(replies'[d]), replies'[d][i].queued
          PROVE  /\ Dispatched(replies[d][i].from, replies[d][i].num)'
                 /\ Begun(replies[d][i].from, replies[d][i].num)'
                 /\ Executed(replies[d][i].from, replies[d][i].num)'
      <4>1. i \in 1 .. Len(replies[d]) /\ replies'[d][i] = replies[d][i]
        BY <2>4, <3>1
      <4>2. PICK e \in Client, m \in Nat : replies[d][i].from = e /\ replies[d][i].num = m
        BY <4>1, TaskTypes
      <4>3. Dispatched(e, m) /\ Begun(e, m) /\ Executed(e, m)
        BY <3>1, <4>1, <4>2 DEF AnsweredInOrder
      <4>4. Dispatched(e, m)' /\ Begun(e, m)' /\ Executed(e, m)'
        BY <1>2, <2>7, <4>3
      <4>5. QED BY <4>1, <4>2, <4>4
    <3>2. QED BY <3>1 DEF AnsweredInOrder
  <2>9. AnswersInOrder'
    BY <2>4 DEF AnswersInOrder
  <2>10. QED BY <1>1, <2>5, <2>6, <2>8, <2>9
<1>8. ASSUME ~Begin(one), ~Execute(one),
             ~\E c \in Client : ParseMessage(c) /\ dpc = "alive"
      PROVE  UNCHANGED <<queue, slot, replies>>
  <2>1. CASE \E c \in Client : ParseMessage(c)
    BY <1>8, <2>1 DEF ParseMessage, tasks
  <2>2. CASE ~\E c \in Client : ParseMessage(c)
    BY <1>8, <2>2 DEF Next, Running, RemoteStep, Connect, Send, HangUp, ServerStep, ServerInit,
       ServerCheck, AcceptConnection, AcceptNothing, ClientStep, ClientCheck, ReadNothing, ReadData,
       CloseClient, WorkerStep, DeinitStop, DeinitStep, DeinitEmpty, DeinitJoin, DeinitClear,
       DeinitClose, DeinitWait, SchedulerClose, Scheduler!Close, tasks
  <2>3. QED BY <2>1, <2>2
<1>9. QED BY <1>3, <1>4, <1>5, <1>6, <1>7, <1>8

LEMMA ONext == ASSUME NEW one, Worker = {one} PROVE IInv /\ OInv /\ [Next]_vars => OInv'
<1> SUFFICES ASSUME IInv, OInv, [Next]_vars PROVE OInv'
    OBVIOUS
<1>1. CASE UNCHANGED vars
  BY <1>1 DEF vars, clients, tasks, OInv, PartsInOrder, Ordered, QueueInOrder, SlotsInOrder,
     AnsweredInOrder, AnswersInOrder, Dispatched, Begun, Executed
<1>2. CASE Next
  BY <1>2, OStep
<1>3. QED BY <1>1, <1>2

\* With the one worker thread the scheduler has by default, the commands of a
\* client are answered in the order in which it sent them, each at most once,
\* whether it waits for answers or not and however its messages are cut up: none
\* overtakes another between handleClient and sendResponse.
THEOREM AnswersOrdered ==
  ASSUME NEW one, Worker = {one} PROVE Spec => []AnswersInOrder
<1>1. OInv => AnswersInOrder
  BY DEF OInv
<1>2. IInv /\ OInv /\ [Next]_vars => OInv'
  BY ONext
<1>3. QED BY <1>1, <1>2, OInit, Invariance, PTL DEF Spec
=============================================================================
