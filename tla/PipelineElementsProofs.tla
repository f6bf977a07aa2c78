----------------------- MODULE PipelineElementsProofs -----------------------
(* Theorems about PipelineElements, for a pipeline file of any length and    *)
(* any choice of optional, missing and incompatible elements, with commands  *)
(* allowed at any time.                                                      *)
EXTENDS PipelineElements, TLAPS

LEMMA ElemFacts == /\ Elem \subseteq Nat /\ 1 \in Elem /\ NoElem \notin Elem
                   /\ \A e \in Elem : e < N => e + 1 \in Elem
BY PipelineAssumption DEF Elem, NoElem

LEMMA ElemBefore ==
  ASSUME NEW a \in Elem, NEW b \in Elem, NEW c \in Elem, a < b, b < c
  PROVE  a < c
BY ElemFacts

-----------------------------------------------------------------------------
(* Type correctness *)

LEMMA TypeInit == Init => TypeOK
<1> SUFFICES ASSUME Init PROVE TypeOK
    OBVIOUS
<1>1. pc \in [Thread -> Label]
  BY DEF Init, Label
<1>2. nb \in [Thread -> [prev : Elem \cup {NoElem}, next : Elem \cup {NoElem}]]
  BY DEF Init, Nobody
<1>3. probes \in [Elem -> [Elem -> Nat]]
  BY DEF Init, NoProbe
<1>4. QED BY <1>1, <1>2, <1>3, ElemFacts DEF Init, TypeOK

\* linkGstElement, entered by either thread.
LEMMA TypeLink ==
  ASSUME TypeOK, NEW t \in Thread, LinkGstElement(t)
  PROVE  /\ peer' \in [Elem -> Elem \cup {NoElem}]
         /\ linked' \in [Elem -> BOOLEAN]
         /\ pc' \in [Thread -> Label]
         /\ nb' \in [Thread -> [prev : Elem \cup {NoElem}, next : Elem \cup {NoElem}]]
<1> USE DEF TypeOK, Goto, Return, Label
<1>1. PICK next, prev \in Elem \cup {NoElem} :
        IF next # NoElem /\ ~linked[next] THEN LinkToNext(t, next)
        ELSE IF next # NoElem /\ prev # NoElem THEN UnlinkNeighbours(t, prev, next)
        ELSE NothingToLink(t)
  BY DEF LinkGstElement
<1>2. CASE next # NoElem /\ LinkToNext(t, next)
  <2>1. next \in Elem /\ at[t] \in Elem
    BY <1>2
  <2>2. PICK ok \in BOOLEAN :
          /\ peer' \in {peer, [peer EXCEPT ![at[t]] = next]}
          /\ linked' = IF ok THEN [linked EXCEPT ![at[t]] = TRUE] ELSE linked
          /\ pc' = [pc EXCEPT ![t] = IF ok THEN "link_ok" ELSE "link_failed"]
          /\ nb' = nb
    BY <1>2 DEF LinkToNext
  <2>3. peer' \in [Elem -> Elem \cup {NoElem}]
    BY <2>1, <2>2
  <2>4. linked' \in [Elem -> BOOLEAN]
    BY <2>1, <2>2
  <2>5. pc' \in [Thread -> Label]
    BY <2>2
  <2>6. QED BY <2>2, <2>3, <2>4, <2>5
<1>3. CASE UnlinkNeighbours(t, prev, next)
  BY <1>3 DEF UnlinkNeighbours
<1>4. CASE NothingToLink(t)
  BY <1>4 DEF NothingToLink
<1>5. QED BY <1>1, <1>2, <1>3, <1>4

\* The two links of gst_element_link_many.
LEMMA TypeBetween ==
  ASSUME TypeOK, NEW t \in Thread, LinkPrevious(t) \/ LinkFollowing(t)
  PROVE  TypeOK'
<1>1. at[t] \in Elem
  BY DEF TypeOK
<1>2. nb[t].prev \in Elem \cup {NoElem} /\ nb[t].next \in Elem \cup {NoElem}
  BY DEF TypeOK
<1>3. [nb EXCEPT ![t] = Nobody] \in
        [Thread -> [prev : Elem \cup {NoElem}, next : Elem \cup {NoElem}]]
  BY DEF TypeOK, Nobody
<1>4. \A label \in Label : [pc EXCEPT ![t] = label] \in [Thread -> Label]
  BY DEF TypeOK
<1>5. \A a \in Elem \cup {NoElem}, b \in Elem \cup {NoElem} :
        [peer EXCEPT ![a] = b] \in [Elem -> Elem \cup {NoElem}]
  BY DEF TypeOK
<1>6. {"link_next", "link_ok", "link_failed"} \subseteq Label
  BY DEF Label
<1>7. CASE LinkPrevious(t)
  <2>1. pc' \in [Thread -> Label]
    BY <1>4, <1>6, <1>7 DEF LinkPrevious, Goto, Return
  <2>2. peer' \in [Elem -> Elem \cup {NoElem}]
    BY <1>1, <1>2, <1>5, <1>7 DEF LinkPrevious, TypeOK
  <2>3. nb' \in [Thread -> [prev : Elem \cup {NoElem}, next : Elem \cup {NoElem}]]
    BY <1>3, <1>7 DEF LinkPrevious, TypeOK
  <2>4. QED BY <1>7, <2>1, <2>2, <2>3 DEF LinkPrevious, TypeOK, flags
<1>8. CASE LinkFollowing(t)
  <2>1. pc' \in [Thread -> Label]
    BY <1>4, <1>6, <1>8 DEF LinkFollowing, Goto, Return
  <2>2. /\ peer' \in {peer, [peer EXCEPT ![at[t]] = nb[t].next]}
        /\ linked' \in {linked, [linked EXCEPT ![at[t]] = TRUE]}
    BY <1>8 DEF LinkFollowing
  <2>a. peer' \in [Elem -> Elem \cup {NoElem}]
    BY <1>1, <1>2, <1>5, <2>2 DEF TypeOK
  <2>b. linked' \in [Elem -> BOOLEAN]
    BY <1>1, <2>2 DEF TypeOK
  <2>3. nb' \in [Thread -> [prev : Elem \cup {NoElem}, next : Elem \cup {NoElem}]]
    BY <1>3, <1>8 DEF LinkFollowing
  <2>4. QED BY <1>8, <2>1, <2>a, <2>b, <2>3 DEF LinkFollowing, TypeOK
<1>9. QED BY <1>7, <1>8

LEMMA TypeMainNext ==
  ASSUME TypeOK, NEW ok, NEW again \in Label, NEW next \in Label,
         MainNext(ok, again, next)
  PROVE  pc' \in [Thread -> Label] /\ at' \in [Thread -> Elem]
<1>1. at["main"] \in Elem
  BY DEF TypeOK, Thread
<1>2. at["main"] < N => at["main"] + 1 \in Elem
  BY <1>1, ElemFacts
<1>3. \A e \in Elem : [at EXCEPT !["main"] = e] \in [Thread -> Elem]
  BY DEF TypeOK
<1>4. \A label \in Label : [pc EXCEPT !["main"] = label] \in [Thread -> Label]
  BY DEF TypeOK
<1>5. "failed" \in Label
  BY DEF Label
<1>6. CASE ~ok
  BY <1>4, <1>5, <1>6 DEF MainNext, Goto, TypeOK
<1>7. CASE ok /\ at["main"] < N
  <2>1. pc' = [pc EXCEPT !["main"] = again] /\ at' = [at EXCEPT !["main"] = at["main"] + 1]
    BY <1>7 DEF MainNext, Goto
  <2>2. QED BY <1>2, <1>3, <1>4, <1>7, <2>1
<1>8. CASE ok /\ ~(at["main"] < N)
  <2>1. pc' = [pc EXCEPT !["main"] = next] /\ at' = [at EXCEPT !["main"] = 1]
    BY <1>8 DEF MainNext, Goto
  <2>2. QED BY <1>3, <1>4, <2>1, ElemFacts
<1>9. QED BY <1>6, <1>7, <1>8

LEMMA TypeMain == TypeOK /\ Main => TypeOK'
<1> SUFFICES ASSUME TypeOK, Main PROVE TypeOK'
    OBVIOUS
<1>a. {"create", "link", "playing"} \subseteq Label
  BY DEF Label
<1>1. CASE MainCreate
  <2>1. pc' \in [Thread -> Label] /\ at' \in [Thread -> Elem]
    BY <1>1, <1>a, TypeMainNext DEF MainCreate
  <2>2. initialized' \in [Elem -> BOOLEAN] /\ bin' \subseteq Elem
    <3>1. at["main"] \in Elem
      BY DEF TypeOK, Thread
    <3>2. QED BY <1>1, <3>1 DEF TypeOK, MainCreate, CreateGstElement
  <2>3. QED BY <1>1, <2>1, <2>2 DEF TypeOK, MainCreate
<1>2. CASE MainLink
  <2>1. CASE initialized[at["main"]]
    BY <1>2, <2>1, TypeLink DEF TypeOK, MainLink, Thread
  <2>2. CASE ~initialized[at["main"]]
    <3>1. pc' \in [Thread -> Label] /\ at' \in [Thread -> Elem]
      BY <1>2, <2>2, <1>a, TypeMainNext DEF MainLink
    <3>2. QED BY <1>2, <2>2, <3>1 DEF TypeOK, MainLink
  <2>3. QED BY <2>1, <2>2
<1>3. CASE MainLinked
  <2>1. pc' \in [Thread -> Label] /\ at' \in [Thread -> Elem]
    BY <1>3, <1>a, TypeMainNext DEF MainLinked
  <2>2. QED BY <1>3, <2>1 DEF TypeOK, MainLinked, flags, gst
<1>4. ASSUME NEW t \in Thread, LinkPrevious(t) \/ LinkFollowing(t) PROVE TypeOK'
  BY <1>4, TypeBetween
<1>5. QED BY <1>1, <1>2, <1>3, <1>4 DEF Main, Thread

LEMMA TypeReceive == TypeOK /\ Receive => TypeOK'
<1> SUFFICES ASSUME TypeOK, Receive PROVE TypeOK'
    OBVIOUS
<1> USE ElemFacts, PipelineAssumption
    DEF TypeOK, Start, Finish, Goto, Label, Thread, flags, gst
<1>1. ASSUME NEW e \in Optional, EnableOptionalPipelineElement(e) PROVE TypeOK'
  BY <1>1 DEF EnableOptionalPipelineElement
<1>2. ASSUME NEW e \in Optional, DisableOptionalPipelineElement(e) PROVE TypeOK'
  BY <1>2 DEF DisableOptionalPipelineElement
<1>3. CASE EnableAllOptionalPipelineElements
  BY <1>3 DEF EnableAllOptionalPipelineElements
<1>4. CASE DisableAllOptionalPipelineElements
  BY <1>4 DEF DisableAllOptionalPipelineElements
<1>5. QED BY <1>1, <1>2, <1>3, <1>4 DEF Receive

LEMMA TypeNext ==
  ASSUME TypeOK, NEW again \in Label, NEW next \in Label, WorkerNext(again, next)
  PROVE  /\ pc' \in [Thread -> Label]
         /\ at' \in [Thread -> Elem]
         /\ reply' \in {"none", "Ack", "Nack"}
<1>1. at["worker"] \in Elem
  BY DEF TypeOK, Thread
<1>2. at["worker"] < N => at["worker"] + 1 \in Elem
  BY <1>1, ElemFacts
<1>3. QED
  BY <1>1, <1>2, ElemFacts DEF TypeOK, WorkerNext, Finish, Goto, Label, Thread

LEMMA TypeUnlink ==
  ASSUME TypeOK, NEW a \in Elem, CallbackUnlink(a)
  PROVE  /\ bin' \subseteq Elem
         /\ peer' \in [Elem -> Elem \cup {NoElem}]
         /\ calls' \subseteq CallRec
<1> DEFINE b == peer[a]
<1>1. CASE b = NoElem
  BY <1>1 DEF CallbackUnlink, TypeOK
<1>2. CASE b # NoElem /\ b = N
  BY <1>2 DEF CallbackUnlink, TypeOK, RemovedFromBin
<1>3. CASE b # NoElem /\ b # N /\ peer[b] = NoElem
  BY <1>3 DEF CallbackUnlink, TypeOK
<1>4. CASE b # NoElem /\ b # N /\ peer[b] # NoElem
  <2>1. b \in Elem /\ peer[b] \in Elem
    BY <1>4 DEF TypeOK
  <2>2. [pad |-> a, elem |-> b, down |-> peer[b]] \in CallRec
    BY <2>1 DEF CallRec
  <2>3. QED BY <1>4, <2>1, <2>2 DEF CallbackUnlink, TypeOK
<1>5. QED BY <1>1, <1>2, <1>3, <1>4

LEMMA TypeWorker == TypeOK /\ Worker => TypeOK'
<1> SUFFICES ASSUME TypeOK, Worker PROVE TypeOK'
    OBVIOUS
<1>a. at["worker"] \in Elem /\ pc["worker"] \in Label
  BY DEF TypeOK, Thread
<1>b. {"create", "link", "idle", "find_pad"} \subseteq Label
  BY DEF Label
<1>1. CASE WorkerSkip
  <2>1. \E again, next \in Label : WorkerNext(again, next)
    BY <1>1, <1>a, <1>b DEF WorkerSkip
  <2>2. QED BY <1>1, <2>1, TypeNext DEF TypeOK, WorkerSkip, flags, gst
<1>2. CASE WorkerCreate
  <2>1. initialized' \in [Elem -> BOOLEAN] /\ bin' \subseteq Elem
    BY <1>2, <1>a DEF TypeOK, WorkerCreate, CreateGstElement
  <2>2. CASE WorkerNext("create", "link")
    BY <1>2, <1>b, <2>1, <2>2, TypeNext DEF TypeOK, WorkerCreate
  <2>3. CASE UNCHANGED at /\ (Finish(FALSE) \/ (Goto("worker", "link") /\ UNCHANGED reply))
    BY <1>2, <2>1, <2>3 DEF TypeOK, WorkerCreate, Finish, Goto, Label
  <2>4. QED BY <1>2, <2>2, <2>3 DEF WorkerCreate
<1>3. CASE WorkerLink
  BY <1>3, TypeLink DEF TypeOK, WorkerLink, Thread
<1>4. CASE WorkerLinked
  <2>1. CASE WorkerNext("link", "idle")
    BY <1>4, <1>b, <2>1, TypeNext DEF TypeOK, WorkerLinked, flags, gst
  <2>2. CASE UNCHANGED at /\ \E ok \in BOOLEAN : Finish(ok)
    BY <1>4, <2>2 DEF TypeOK, WorkerLinked, Finish, Goto, Label, flags, gst
  <2>3. QED BY <1>4, <2>1, <2>2 DEF WorkerLinked
<1>5. ASSUME NEW t \in Thread, LinkPrevious(t) \/ LinkFollowing(t) PROVE TypeOK'
  BY <1>5, TypeBetween
<1>6. CASE WorkerFindPad
  <2>1. CASE WorkerNext("find_pad", "idle") /\ UNCHANGED pad
    BY <1>6, <1>b, <2>1, TypeNext DEF TypeOK, WorkerFindPad, flags, gst
  <2>2. CASE UNCHANGED <<at, pad>> /\ \E ok \in BOOLEAN : Finish(ok)
    BY <1>6, <2>2 DEF TypeOK, WorkerFindPad, Finish, Goto, Label, flags, gst
  <2>3. CASE Goto("worker", "terminated") /\ UNCHANGED <<at, pad, reply>>
    BY <1>6, <2>3 DEF TypeOK, WorkerFindPad, Goto, Label, flags, gst
  <2>4. CASE Goto("worker", "add_probe") /\ UNCHANGED <<at, reply>> /\ pad' \in Elem
    BY <1>6, <2>4 DEF TypeOK, WorkerFindPad, Goto, Label, flags, gst
  <2>5. QED BY <1>6, <2>1, <2>2, <2>3, <2>4 DEF WorkerFindPad
<1>7. CASE WorkerAddProbe
  <2>1. pad \in Elem
    BY DEF TypeOK
  <2>2. CASE CallbackUnlink(pad) /\ UNCHANGED probes
    BY <1>7, <2>1, <2>2, TypeUnlink DEF TypeOK, WorkerAddProbe, Goto, Label, flags
  <2>3. CASE /\ probes' = [probes EXCEPT ![pad][at["worker"]] = @ + 1]
             /\ Goto("worker", "clear_flags")
             /\ UNCHANGED <<bin, peer, calls>>
    <3>1. probes' \in [Elem -> [Elem -> Nat]]
      BY <1>a, <2>1, <2>3 DEF TypeOK
    <3>2. QED BY <1>7, <2>3, <3>1 DEF TypeOK, WorkerAddProbe, Goto, Label, flags
  <2>4. QED BY <1>7, <2>2, <2>3 DEF WorkerAddProbe
<1>8. CASE WorkerClearFlags
  <2>1. initialized' \in [Elem -> BOOLEAN] /\ linked' \in [Elem -> BOOLEAN]
    BY <1>8 DEF TypeOK, WorkerClearFlags
  <2>2. CASE WorkerNext("find_pad", "idle")
    BY <1>8, <1>b, <2>1, <2>2, TypeNext DEF TypeOK, WorkerClearFlags, gst
  <2>3. CASE Finish(TRUE) /\ UNCHANGED at
    BY <1>8, <2>1, <2>3 DEF TypeOK, WorkerClearFlags, Finish, Goto, Label, gst
  <2>4. QED BY <1>8, <2>2, <2>3 DEF WorkerClearFlags
<1>9. QED
  BY <1>1, <1>2, <1>3, <1>4, <1>5, <1>6, <1>7, <1>8 DEF Worker, Thread

LEMMA TypeStreaming == TypeOK /\ Streaming => TypeOK'
<1> SUFFICES ASSUME TypeOK, Streaming PROVE TypeOK'
    OBVIOUS
<1>1. ASSUME NEW a \in Elem, NEW e \in Elem, FireProbe(a, e) PROVE TypeOK'
  <2>1. probes' \in [Elem -> [Elem -> Nat]]
    BY <1>1 DEF FireProbe, TypeOK
  <2>2. QED BY <1>1, <2>1, TypeUnlink DEF FireProbe, TypeOK, flags
<1>2. ASSUME NEW c \in calls, FinishCallback(c) PROVE TypeOK'
  <2>1. c.pad \in Elem /\ c.elem \in Elem /\ c.down \in Elem
    BY DEF TypeOK, CallRec
  <2>2. probes' \in [Elem -> [Elem -> Nat]]
    BY <1>2, <2>1 DEF FinishCallback, CallbackRelink, TypeOK, NoProbe
  <2>3. peer' \in [Elem -> Elem \cup {NoElem}]
    BY <1>2, <2>1 DEF FinishCallback, CallbackRelink, RemovedFromBin, TypeOK
  <2>4. pc' \in [Thread -> Label]
    BY <1>2 DEF FinishCallback, TypeOK, Label
  <2>5. QED BY <1>2, <2>2, <2>3, <2>4 DEF FinishCallback, CallbackRelink, TypeOK, flags
<1>3. QED BY <1>1, <1>2 DEF Streaming

LEMMA TypeStep == TypeOK /\ [Next]_vars => TypeOK'
<1>1. TypeOK /\ UNCHANGED vars => TypeOK'
  BY DEF TypeOK, vars
<1>2. QED BY <1>1, TypeMain, TypeReceive, TypeWorker, TypeStreaming DEF Next

\* Every variable keeps its type, whatever the commands and callbacks do.
THEOREM TypeCorrect == Spec => []TypeOK
BY TypeInit, TypeStep, PTL DEF Spec

-----------------------------------------------------------------------------
(* The links lead forward: LinksForward is inductive only with what the      *)
(* threads and callbacks in progress plan to link (PlannedLinksForward).     *)

Forward(p, B) ==
  /\ \A a \in Elem : p[a] # NoElem => a < p[a] /\ a \in B /\ p[a] \in B
  /\ \A a, b \in Elem : p[a] = p[b] /\ p[a] # NoElem => a = b

Links == [Elem -> Elem \cup {NoElem}]

Between(t) == /\ nb[t].prev \in Elem /\ nb[t].next \in Elem
              /\ nb[t].prev < at[t] /\ at[t] < nb[t].next

Linking(t) == pc[t] \in {"link_prev", "link_next"} => Between(t)

CallsForward == \A c \in calls : c.pad < c.elem /\ c.elem < c.down

LEMMA Parts ==
  /\ LinksForward <=> Forward(peer, bin)
  /\ PlannedLinksForward <=> CallsForward /\ \A t \in Thread : Linking(t)
BY DEF LinksForward, Forward, PlannedLinksForward, CallsForward, Linking, Between

\* A new link between two free pads keeps the order.
LEMMA JoinForward ==
  ASSUME NEW p \in Links, NEW B, Forward(p, B),
         NEW a \in Elem, NEW b \in Elem, a < b, a \in B, b \in B,
         \A x \in Elem : p[x] # b
  PROVE  [p EXCEPT ![a] = b] \in Links /\ Forward([p EXCEPT ![a] = b], B)
<1> DEFINE q == [p EXCEPT ![a] = b]
<1>1. q \in Links /\ q[a] = b /\ \A x \in Elem \ {a} : q[x] = p[x]
  BY DEF Links
<1>2. \A x \in Elem : q[x] # NoElem => x < q[x] /\ x \in B /\ q[x] \in B
  BY <1>1 DEF Forward
<1>3. \A x, y \in Elem : q[x] = q[y] /\ q[x] # NoElem => x = y
  BY <1>1 DEF Forward
<1>4. QED BY <1>1, <1>2, <1>3 DEF Forward

\* Unlinking keeps the order of the links that remain.
LEMMA ShrinkForward ==
  ASSUME NEW p, NEW B, Forward(p, B), NEW q, NEW C,
         \A x \in Elem : q[x] \in {p[x], NoElem},
         \A x \in Elem : q[x] # NoElem => x \in C /\ q[x] \in C
  PROVE  Forward(q, C)
BY DEF Forward

\* More elements in the bin do not disturb it.
LEMMA GrowForward ==
  ASSUME NEW p, NEW B, Forward(p, B), NEW C, B \subseteq C
  PROVE  Forward(p, C)
BY DEF Forward

\* A step of thread t that does not leave it linking between two neighbours.
LEMMA OtherPlansKept ==
  ASSUME TypeOK, \A u \in Thread : Linking(u), NEW t \in Thread,
         NEW label \in Label \ {"link_prev", "link_next"},
         pc' = [pc EXCEPT ![t] = label],
         \A u \in Thread \ {t} : at'[u] = at[u] /\ nb'[u] = nb[u]
  PROVE  \A u \in Thread : Linking(u)'
<1>1. pc'[t] = label /\ \A u \in Thread \ {t} : pc'[u] = pc[u]
  BY DEF TypeOK
<1>2. QED BY <1>1 DEF Linking, Between

LEMMA ForwardInit == Init => LinksForward /\ PlannedLinksForward
BY DEF Init, LinksForward, PlannedLinksForward, Thread

\* linkGstElement links forward at once, or plans to.
LEMMA ForwardLink ==
  ASSUME IInv, NEW t \in Thread, LinkGstElement(t), at' = at, bin' = bin
  PROVE  LinksForward' /\ \A u \in Thread : Linking(u)'
<1>a. TypeOK /\ Forward(peer, bin) /\ \A u \in Thread : Linking(u)
  BY Parts DEF IInv
<1>b. at[t] \in Elem /\ peer \in Links
  BY <1>a DEF TypeOK, Links
<1>c. {"link_ok", "link_failed"} \subseteq Label \ {"link_prev", "link_next"}
  BY DEF Label
<1>1. PICK next, prev \in Elem \cup {NoElem} :
        /\ IsNextEnabled(at[t], next) /\ IsPreviousEnabled(at[t], prev)
        /\ IF next # NoElem /\ ~linked[next] THEN LinkToNext(t, next)
           ELSE IF next # NoElem /\ prev # NoElem THEN UnlinkNeighbours(t, prev, next)
           ELSE NothingToLink(t)
  BY DEF LinkGstElement
<1>2. /\ next # NoElem => next \in Elem /\ at[t] < next
      /\ prev # NoElem => prev \in Elem /\ prev < at[t]
  BY <1>1, <1>b, ElemFacts DEF IsNextEnabled, IsPreviousEnabled, NoElem
<1>3. CASE next # NoElem /\ LinkToNext(t, next)
  <2>1. PICK ok \in BOOLEAN : nb' = nb /\ Return(t, ok)
    BY <1>3 DEF LinkToNext
  <2>2. PICK label \in Label \ {"link_prev", "link_next"} : pc' = [pc EXCEPT ![t] = label]
    BY <1>c, <2>1 DEF Return, Goto
  <2>3. \A u \in Thread : Linking(u)'
    BY <1>a, <2>1, <2>2, OtherPlansKept
  <2>4. CASE Linkable(at[t], next)
    <3>1. peer' = [peer EXCEPT ![at[t]] = next]
      BY <1>3, <2>4 DEF LinkToNext
    <3>2. next \in bin /\ at[t] \in bin /\ \A x \in Elem : peer[x] # next
      BY <2>4 DEF Linkable
    <3>3. Forward([peer EXCEPT ![at[t]] = next], bin)
      BY <1>2, <1>3, <1>a, <1>b, <3>2, JoinForward
    <3>4. QED BY <2>3, <3>1, <3>3 DEF LinksForward, Forward
  <2>5. CASE ~Linkable(at[t], next)
    <3>1. peer' = peer
      BY <1>3, <2>5 DEF LinkToNext
    <3>2. QED BY <2>3, <3>1, <1>a DEF LinksForward, Forward
  <2>6. QED BY <2>4, <2>5
<1>4. CASE next # NoElem /\ prev # NoElem /\ UnlinkNeighbours(t, prev, next)
  <2>1. \A x \in Elem : peer'[x] \in {peer[x], NoElem}
    BY <1>2, <1>4, <1>b DEF UnlinkNeighbours, Links
  <2>2. Forward(peer', bin')
    <3>1. \A x \in Elem : peer'[x] # NoElem => x \in bin' /\ peer'[x] \in bin'
      BY <1>a, <2>1 DEF Forward
    <3>2. QED BY <1>a, <2>1, <3>1, ShrinkForward
  <2>3. Between(t)'
    <3>1. nb'[t] = [prev |-> prev, next |-> next]
      BY <1>4, <1>a DEF UnlinkNeighbours, TypeOK
    <3>2. QED BY <1>2, <1>4, <3>1 DEF Between
  <2>4. \A u \in Thread \ {t} : Linking(u)'
    <3>1. \A u \in Thread \ {t} : pc'[u] = pc[u] /\ nb'[u] = nb[u]
      BY <1>4, <1>a DEF UnlinkNeighbours, Goto, TypeOK
    <3>2. QED BY <1>a, <3>1 DEF Linking, Between
  <2>5. QED BY <2>2, <2>3, <2>4 DEF Linking, LinksForward, Forward
<1>5. CASE NothingToLink(t)
  <2>1. peer' = peer /\ nb' = nb /\ Return(t, TRUE)
    BY <1>5 DEF NothingToLink
  <2>2. pc' = [pc EXCEPT ![t] = "link_ok"]
    BY <2>1 DEF Return, Goto
  <2>3. \A u \in Thread : Linking(u)'
    BY <1>a, <1>c, <2>1, <2>2, OtherPlansKept
  <2>4. QED BY <1>a, <2>1, <2>3 DEF LinksForward, Forward
<1>6. QED BY <1>1, <1>3, <1>4, <1>5

\* The two halves of linking an element between its neighbours.
LEMMA ForwardBetween ==
  ASSUME IInv, NEW t \in Thread, LinkPrevious(t) \/ LinkFollowing(t)
  PROVE  LinksForward' /\ PlannedLinksForward'
<1>a. /\ TypeOK /\ Forward(peer, bin) /\ CallsForward
      /\ \A u \in Thread : Linking(u)
  BY Parts DEF IInv
<1>b. at[t] \in Elem /\ peer \in Links
  BY <1>a DEF TypeOK, Links
<1>c. {"link_ok", "link_failed"} \subseteq Label \ {"link_prev", "link_next"}
  BY DEF Label
<1>d. Between(t)
  BY <1>a DEF Linking, LinkPrevious, LinkFollowing
<1>e. calls' = calls /\ at' = at /\ bin' = bin
  BY DEF LinkPrevious, LinkFollowing, flags
<1>f. CallsForward'
  BY <1>a, <1>e DEF CallsForward
<1>1. CASE LinkPrevious(t)
  <2>1. CASE Linkable(nb[t].prev, at[t])
    <3>1. /\ peer' = [peer EXCEPT ![nb[t].prev] = at[t]]
          /\ pc' = [pc EXCEPT ![t] = "link_next"] /\ nb' = nb
      BY <1>1, <2>1 DEF LinkPrevious, Goto
    <3>2. Forward(peer', bin')
      <4>1. Forward([peer EXCEPT ![nb[t].prev] = at[t]], bin)
        BY <1>a, <1>b, <1>d, <2>1, JoinForward DEF Linkable, Between
      <4>2. QED BY <1>e, <3>1, <4>1
    <3>3. \A u \in Thread : Linking(u)'
      <4>1. \A u \in Thread \ {t} : pc'[u] = pc[u]
        BY <1>a, <3>1 DEF TypeOK
      <4>2. QED BY <1>a, <1>d, <1>e, <3>1, <4>1 DEF Linking, Between
    <3>4. QED BY <1>f, <3>2, <3>3
              DEF LinksForward, Forward, PlannedLinksForward, CallsForward, Linking, Between
  <2>2. CASE ~Linkable(nb[t].prev, at[t])
    <3>1. peer' = peer /\ nb' = [nb EXCEPT ![t] = Nobody]
      BY <1>1, <2>2 DEF LinkPrevious
    <3>2. PICK label \in Label \ {"link_prev", "link_next"} : pc' = [pc EXCEPT ![t] = label]
      BY <1>1, <1>c, <2>2 DEF LinkPrevious, Goto, Return
    <3>3. \A u \in Thread \ {t} : nb'[u] = nb[u]
      BY <1>a, <3>1 DEF TypeOK
    <3>4. \A u \in Thread : Linking(u)'
      BY <1>a, <1>e, <3>2, <3>3, OtherPlansKept
    <3>5. QED BY <1>a, <1>e, <1>f, <3>1, <3>4
              DEF LinksForward, Forward, PlannedLinksForward, CallsForward, Linking, Between
  <2>3. QED BY <2>1, <2>2
<1>2. CASE LinkFollowing(t)
  <2>1. nb' = [nb EXCEPT ![t] = Nobody]
    BY <1>2 DEF LinkFollowing
  <2>2. PICK label \in Label \ {"link_prev", "link_next"} : pc' = [pc EXCEPT ![t] = label]
    BY <1>2, <1>c DEF LinkFollowing, Goto, Return
  <2>3. \A u \in Thread \ {t} : nb'[u] = nb[u]
    BY <1>a, <2>1 DEF TypeOK
  <2>4. \A u \in Thread : Linking(u)'
    BY <1>a, <1>e, <2>2, <2>3, OtherPlansKept
  <2>5. Forward(peer', bin')
    <3>1. CASE Linkable(at[t], nb[t].next)
      <4>1. peer' = [peer EXCEPT ![at[t]] = nb[t].next]
        BY <1>2, <3>1 DEF LinkFollowing
      <4>2. Forward([peer EXCEPT ![at[t]] = nb[t].next], bin)
        BY <1>a, <1>b, <1>d, <3>1, JoinForward DEF Linkable, Between
      <4>3. QED BY <1>e, <4>1, <4>2
    <3>2. CASE ~Linkable(at[t], nb[t].next)
      BY <1>2, <1>a, <1>e, <3>2 DEF LinkFollowing
    <3>3. QED BY <3>1, <3>2
  <2>6. QED BY <1>f, <2>4, <2>5
            DEF LinksForward, Forward, PlannedLinksForward, CallsForward, Linking, Between
<1>3. QED BY <1>1, <1>2

\* What the callback unlinks, it plans to join in order.
LEMMA ForwardUnlink ==
  ASSUME TypeOK, Forward(peer, bin), CallsForward, NEW a \in Elem, CallbackUnlink(a)
  PROVE  Forward(peer', bin') /\ CallsForward'
<1> DEFINE b == peer[a]
<1>1. CASE b = NoElem
  BY <1>1 DEF CallbackUnlink, CallsForward
<1>2. CASE b # NoElem /\ b = N
  <2>1. bin' = bin \ {b} /\ calls' = calls /\ peer' = RemovedFromBin(peer, b)
    BY <1>2 DEF CallbackUnlink
  <2>2. \A x \in Elem : /\ peer'[x] \in {peer[x], NoElem}
                        /\ peer'[x] # NoElem => x # b /\ peer[x] # b
    BY <2>1 DEF RemovedFromBin
  <2>3. \A x \in Elem : peer'[x] # NoElem => x \in bin' /\ peer'[x] \in bin'
    BY <2>1, <2>2 DEF Forward
  <2>4. QED BY <2>1, <2>2, <2>3, ShrinkForward DEF CallsForward
<1>3. CASE b # NoElem /\ b # N /\ peer[b] = NoElem
  BY <1>3 DEF CallbackUnlink, CallsForward
<1>4. CASE b # NoElem /\ b # N /\ peer[b] # NoElem
  <2>1. /\ peer' = [peer EXCEPT ![a] = NoElem, ![b] = NoElem] /\ bin' = bin
        /\ calls' = calls \cup {[pad |-> a, elem |-> b, down |-> peer[b]]}
    BY <1>4 DEF CallbackUnlink
  <2>2. b \in Elem /\ a < b /\ b < peer[b]
    BY <1>4 DEF TypeOK, Forward
  <2>3. CallsForward'
    BY <2>1, <2>2 DEF CallsForward
  <2>4. \A x \in Elem : peer'[x] \in {peer[x], NoElem}
    BY <2>1, <2>2 DEF TypeOK
  <2>5. \A x \in Elem : peer'[x] # NoElem => x \in bin' /\ peer'[x] \in bin'
    <3>1. bin' = bin
      BY <2>1
    <3>2. QED BY <2>4, <3>1 DEF Forward
  <2>6. QED BY <2>3, <2>4, <2>5, ShrinkForward
<1>5. QED BY <1>1, <1>2, <1>3, <1>4

\* The callback joins the neighbours and removes the element between them.
LEMMA ForwardRelink ==
  ASSUME TypeOK, Forward(peer, bin), CallsForward, NEW c \in calls, CallbackRelink(c)
  PROVE  Forward(peer', bin') /\ CallsForward'
<1> DEFINE joined == IF Linkable(c.pad, c.down)
                     THEN [peer EXCEPT ![c.pad] = c.down] ELSE peer
<1>1. /\ peer' = RemovedFromBin(joined, c.elem)
      /\ bin' = bin \ {c.elem} /\ calls' = calls \ {c}
  BY DEF CallbackRelink
<1>2. /\ c.pad \in Elem /\ c.elem \in Elem /\ c.down \in Elem
      /\ c.pad < c.elem /\ c.elem < c.down /\ peer \in Links
  BY DEF TypeOK, CallRec, CallsForward, Links
<1>3. joined \in Links /\ Forward(joined, bin)
  <2>1. CASE Linkable(c.pad, c.down)
    <3>1. c.pad < c.down
      BY <1>2, ElemBefore
    <3>2. QED BY <1>2, <2>1, <3>1, JoinForward DEF Linkable
  <2>2. CASE ~Linkable(c.pad, c.down)
    BY <1>2, <2>2
  <2>3. QED BY <2>1, <2>2
<1>4. \A x \in Elem : /\ peer'[x] \in {joined[x], NoElem}
                      /\ peer'[x] # NoElem => x # c.elem /\ joined[x] # c.elem
  BY <1>1 DEF RemovedFromBin
<1>5. \A x \in Elem : peer'[x] # NoElem => x \in bin' /\ peer'[x] \in bin'
  BY <1>1, <1>3, <1>4 DEF Forward
<1>6. Forward(peer', bin')
  BY <1>3, <1>4, <1>5, ShrinkForward
<1>7. QED BY <1>1, <1>6 DEF CallsForward

\* Steps that make no link and no plan: the bin may grow.
LEMMA ForwardElsewhere ==
  ASSUME IInv, peer' = peer, calls' = calls, nb' = nb, bin \subseteq bin',
         NEW t \in Thread, NEW label \in Label \ {"link_prev", "link_next"},
         pc' = [pc EXCEPT ![t] = label],
         \A u \in Thread \ {t} : at'[u] = at[u]
  PROVE  LinksForward' /\ PlannedLinksForward'
<1>1. /\ TypeOK /\ Forward(peer, bin) /\ CallsForward
      /\ \A u \in Thread : Linking(u)
  BY Parts DEF IInv
<1>2. Forward(peer', bin') /\ CallsForward'
  BY <1>1, GrowForward DEF CallsForward
<1>3. \A u \in Thread \ {t} : at'[u] = at[u] /\ nb'[u] = nb[u]
  OBVIOUS
<1>4. \A u \in Thread : Linking(u)'
  BY <1>1, <1>3, OtherPlansKept
<1>5. QED BY <1>2, <1>4
          DEF LinksForward, Forward, PlannedLinksForward, CallsForward, Linking, Between

PlainLabel == Label \ {"link_prev", "link_next"}

LEMMA PlainLabels ==
  {"create", "link", "link_ok", "link_failed", "playing", "failed", "idle",
   "find_pad", "add_probe", "callback", "clear_flags", "terminated"} \subseteq PlainLabel
BY DEF PlainLabel, Label

\* The thread goes to a plain label, the other stays at its element.
Leaves(t) == /\ \E label \in PlainLabel : pc' = [pc EXCEPT ![t] = label]
             /\ \A u \in Thread \ {t} : at'[u] = at[u]

LEMMA MainNextLeaves ==
  ASSUME TypeOK, NEW ok, NEW again \in PlainLabel, NEW next \in PlainLabel,
         MainNext(ok, again, next)
  PROVE  Leaves("main")
<1>1. \E label \in PlainLabel : pc' = [pc EXCEPT !["main"] = label]
  <2>1. "failed" \in PlainLabel
    BY PlainLabels
  <2>2. QED BY <2>1 DEF MainNext, Goto
<1>2. at' = at \/ \E e : at' = [at EXCEPT !["main"] = e]
  BY DEF MainNext
<1>3. \A u \in Thread \ {"main"} : at'[u] = at[u]
  BY <1>2 DEF TypeOK
<1>4. QED BY <1>1, <1>3 DEF Leaves

LEMMA WorkerNextLeaves ==
  ASSUME TypeOK, NEW again \in PlainLabel, NEW next \in PlainLabel,
         WorkerNext(again, next)
  PROVE  Leaves("worker")
<1>1. \E label \in PlainLabel : pc' = [pc EXCEPT !["worker"] = label]
  <2>1. "idle" \in PlainLabel
    BY PlainLabels
  <2>2. QED BY <2>1 DEF WorkerNext, Goto, Finish
<1>2. \E e : at' = [at EXCEPT !["worker"] = e]
  BY DEF WorkerNext
<1>3. \A u \in Thread \ {"worker"} : at'[u] = at[u]
  BY <1>2 DEF TypeOK
<1>4. QED BY <1>1, <1>3 DEF Leaves

LEMMA ForwardLeaves ==
  ASSUME IInv, peer' = peer, calls' = calls, nb' = nb, bin \subseteq bin',
         NEW t \in Thread, Leaves(t)
  PROVE  LinksForward' /\ PlannedLinksForward'
<1>1. PICK label \in Label \ {"link_prev", "link_next"} : pc' = [pc EXCEPT ![t] = label]
  BY DEF Leaves, PlainLabel
<1>2. \A u \in Thread \ {t} : at'[u] = at[u]
  BY DEF Leaves
<1>3. QED BY <1>1, <1>2, ForwardElsewhere

\* A step of linkGstElement disturbs no callback.
LEMMA ForwardLinkStep ==
  ASSUME IInv, NEW t \in Thread, LinkGstElement(t),
         at' = at, bin' = bin, calls' = calls
  PROVE  LinksForward' /\ PlannedLinksForward'
<1>1. LinksForward' /\ \A u \in Thread : Linking(u)'
  BY ForwardLink
<1>2. CallsForward'
  BY Parts DEF IInv, CallsForward
<1>3. QED BY <1>1, <1>2 DEF PlannedLinksForward, CallsForward, Linking, Between

LEMMA ForwardMain == IInv /\ Main => LinksForward' /\ PlannedLinksForward'
<1> SUFFICES ASSUME IInv, Main PROVE LinksForward' /\ PlannedLinksForward'
    OBVIOUS
<1>a. TypeOK /\ "main" \in Thread
  BY DEF IInv, Thread
<1>1. CASE MainCreate
  <2>1. \E ok : MainNext(ok, "create", "link")
    BY <1>1 DEF MainCreate
  <2>2. Leaves("main")
    BY <1>a, <2>1, MainNextLeaves, PlainLabels
  <2>3. bin \subseteq bin'
    BY <1>1 DEF MainCreate, CreateGstElement
  <2>4. peer' = peer /\ calls' = calls /\ nb' = nb
    BY <1>1 DEF MainCreate
  <2>5. QED BY <1>a, <2>2, <2>3, <2>4, ForwardLeaves
<1>2. CASE MainLink
  <2>1. CASE initialized[at["main"]]
    <3>1. LinkGstElement("main") /\ at' = at /\ bin' = bin /\ calls' = calls
      BY <1>2, <2>1 DEF MainLink
    <3>2. QED BY <1>a, <3>1, ForwardLinkStep
  <2>2. CASE ~initialized[at["main"]]
    <3>1. MainNext(TRUE, "link", "playing")
      BY <1>2, <2>2 DEF MainLink
    <3>2. Leaves("main")
      BY <1>a, <3>1, MainNextLeaves, PlainLabels
    <3>3. peer' = peer /\ calls' = calls /\ nb' = nb /\ bin' = bin
      BY <1>2, <2>2 DEF MainLink
    <3>4. QED BY <1>a, <3>2, <3>3, ForwardLeaves
  <2>3. QED BY <2>1, <2>2
<1>3. CASE MainLinked
  <2>1. \E ok : MainNext(ok, "link", "playing")
    BY <1>3 DEF MainLinked
  <2>2. Leaves("main")
    BY <1>a, <2>1, MainNextLeaves, PlainLabels
  <2>3. peer' = peer /\ calls' = calls /\ nb' = nb /\ bin' = bin
    BY <1>3 DEF MainLinked, gst
  <2>4. QED BY <1>a, <2>2, <2>3, ForwardLeaves
<1>4. CASE LinkPrevious("main") \/ LinkFollowing("main")
  BY <1>4, <1>a, ForwardBetween
<1>5. QED BY <1>1, <1>2, <1>3, <1>4 DEF Main

LEMMA StartLeaves ==
  ASSUME TypeOK, NEW command, NEW e, NEW label \in PlainLabel, Start(command, e, label)
  PROVE  Leaves("worker")
<1>1. pc' = [pc EXCEPT !["worker"] = label] /\ at' = [at EXCEPT !["worker"] = e]
  BY DEF Start, Goto
<1>2. \A u \in Thread \ {"worker"} : at'[u] = at[u]
  BY <1>1 DEF TypeOK
<1>3. QED BY <1>1, <1>2 DEF Leaves

LEMMA ForwardReceive == IInv /\ Receive => LinksForward' /\ PlannedLinksForward'
<1> SUFFICES ASSUME IInv, Receive PROVE LinksForward' /\ PlannedLinksForward'
    OBVIOUS
<1>a. TypeOK /\ "worker" \in Thread
  BY DEF IInv, Thread
<1>b. peer' = peer /\ calls' = calls /\ nb' = nb /\ bin' = bin
  BY DEF Receive, EnableOptionalPipelineElement, DisableOptionalPipelineElement,
         EnableAllOptionalPipelineElements, DisableAllOptionalPipelineElements, gst
<1>1. ASSUME NEW e \in Optional, NEW command, NEW ok,
             Finish(ok), at' = [at EXCEPT !["worker"] = e]
      PROVE  Leaves("worker")
  <2>1. pc' = [pc EXCEPT !["worker"] = "idle"]
    BY <1>1 DEF Finish, Goto
  <2>2. \A u \in Thread \ {"worker"} : at'[u] = at[u]
    BY <1>1, <1>a DEF TypeOK
  <2>3. QED BY <2>1, <2>2, PlainLabels DEF Leaves
<1>2. Leaves("worker")
  <2>1. ASSUME NEW e \in Optional, EnableOptionalPipelineElement(e)
        PROVE  Leaves("worker")
    BY <2>1, <1>1, <1>a, StartLeaves, PlainLabels DEF EnableOptionalPipelineElement
  <2>2. ASSUME NEW e \in Optional, DisableOptionalPipelineElement(e)
        PROVE  Leaves("worker")
    BY <2>2, <1>1, <1>a, StartLeaves, PlainLabels DEF DisableOptionalPipelineElement
  <2>3. CASE EnableAllOptionalPipelineElements
    BY <2>3, <1>a, StartLeaves, PlainLabels DEF EnableAllOptionalPipelineElements
  <2>4. CASE DisableAllOptionalPipelineElements
    BY <2>4, <1>a, StartLeaves, PlainLabels DEF DisableAllOptionalPipelineElements
  <2>5. QED BY <2>1, <2>2, <2>3, <2>4 DEF Receive
<1>3. QED BY <1>a, <1>b, <1>2, ForwardLeaves

LEMMA FinishLeaves ==
  ASSUME TypeOK, NEW ok, Finish(ok), at' = at
  PROVE  Leaves("worker")
<1>1. pc' = [pc EXCEPT !["worker"] = "idle"]
  BY DEF Finish, Goto
<1>2. QED BY <1>1, PlainLabels DEF Leaves

LEMMA GotoLeaves ==
  ASSUME TypeOK, NEW t \in Thread, NEW label \in PlainLabel, Goto(t, label), at' = at
  PROVE  Leaves(t)
BY DEF Leaves, Goto

\* The steps of the worker that touch neither links nor plans.
LEMMA WorkerLeaves ==
  ASSUME TypeOK, \/ WorkerSkip \/ WorkerCreate \/ WorkerLinked
                 \/ WorkerFindPad \/ WorkerClearFlags
  PROVE  /\ Leaves("worker") /\ bin \subseteq bin'
         /\ peer' = peer /\ calls' = calls /\ nb' = nb
<1>1. CASE WorkerSkip
  <2>1. \E again, next \in PlainLabel : WorkerNext(again, next)
    BY <1>1, PlainLabels DEF WorkerSkip
  <2>2. QED BY <1>1, <2>1, WorkerNextLeaves DEF WorkerSkip, gst
<1>2. CASE WorkerCreate
  <2>1. /\ bin \subseteq bin' /\ peer' = peer /\ calls' = calls /\ nb' = nb
    BY <1>2 DEF WorkerCreate, CreateGstElement
  <2>2. CASE Finish(FALSE) /\ UNCHANGED at
    BY <2>1, <2>2, FinishLeaves
  <2>3. CASE Goto("worker", "link") /\ UNCHANGED at
    BY <2>1, <2>3, GotoLeaves, PlainLabels DEF Thread
  <2>4. CASE WorkerNext("create", "link")
    BY <2>1, <2>4, WorkerNextLeaves, PlainLabels
  <2>5. QED BY <1>2, <2>2, <2>3, <2>4 DEF WorkerCreate
<1>3. CASE WorkerLinked
  <2>1. peer' = peer /\ calls' = calls /\ nb' = nb /\ bin' = bin
    BY <1>3 DEF WorkerLinked, gst
  <2>2. CASE WorkerNext("link", "idle")
    BY <2>1, <2>2, WorkerNextLeaves, PlainLabels
  <2>3. CASE UNCHANGED at /\ \E ok \in BOOLEAN : Finish(ok)
    BY <2>1, <2>3, FinishLeaves
  <2>4. QED BY <1>3, <2>2, <2>3 DEF WorkerLinked
<1>4. CASE WorkerFindPad
  <2>1. peer' = peer /\ calls' = calls /\ nb' = nb /\ bin' = bin
    BY <1>4 DEF WorkerFindPad, gst
  <2>2. CASE WorkerNext("find_pad", "idle")
    BY <2>1, <2>2, WorkerNextLeaves, PlainLabels
  <2>3. CASE UNCHANGED at /\ \E ok \in BOOLEAN : Finish(ok)
    BY <2>1, <2>3, FinishLeaves
  <2>4. CASE UNCHANGED at /\ (Goto("worker", "terminated") \/ Goto("worker", "add_probe"))
    BY <2>1, <2>4, GotoLeaves, PlainLabels DEF Thread
  <2>5. QED BY <1>4, <2>2, <2>3, <2>4 DEF WorkerFindPad
<1>5. CASE WorkerClearFlags
  <2>1. peer' = peer /\ calls' = calls /\ nb' = nb /\ bin' = bin
    BY <1>5 DEF WorkerClearFlags, gst
  <2>2. CASE WorkerNext("find_pad", "idle")
    BY <2>1, <2>2, WorkerNextLeaves, PlainLabels
  <2>3. CASE Finish(TRUE) /\ UNCHANGED at
    BY <2>1, <2>3, FinishLeaves
  <2>4. QED BY <1>5, <2>2, <2>3 DEF WorkerClearFlags
<1>6. QED BY <1>1, <1>2, <1>3, <1>4, <1>5

LEMMA ForwardWorker == IInv /\ Worker => LinksForward' /\ PlannedLinksForward'
<1> SUFFICES ASSUME IInv, Worker PROVE LinksForward' /\ PlannedLinksForward'
    OBVIOUS
<1>a. /\ TypeOK /\ "worker" \in Thread /\ Forward(peer, bin) /\ CallsForward
      /\ \A u \in Thread : Linking(u)
  BY Parts DEF IInv, Thread
<1>1. CASE \/ WorkerSkip \/ WorkerCreate \/ WorkerLinked
           \/ WorkerFindPad \/ WorkerClearFlags
  BY <1>1, <1>a, WorkerLeaves, ForwardLeaves
<1>2. CASE WorkerLink
  <2>1. LinkGstElement("worker") /\ at' = at /\ bin' = bin /\ calls' = calls
    BY <1>2 DEF WorkerLink
  <2>2. QED BY <1>a, <2>1, ForwardLinkStep
<1>3. CASE LinkPrevious("worker") \/ LinkFollowing("worker")
  BY <1>3, <1>a, ForwardBetween
<1>4. CASE WorkerAddProbe
  <2>1. at' = at /\ nb' = nb /\ pad \in Elem
    BY <1>4, <1>a DEF WorkerAddProbe, TypeOK
  <2>2. PICK label \in Label \ {"link_prev", "link_next"} :
          pc' = [pc EXCEPT !["worker"] = label]
    <3>1. {"clear_flags", "callback"} \subseteq Label \ {"link_prev", "link_next"}
      BY DEF Label
    <3>2. QED BY <1>4, <3>1 DEF WorkerAddProbe, Goto
  <2>3. \A u \in Thread : Linking(u)'
    BY <1>a, <2>1, <2>2, OtherPlansKept
  <2>4. Forward(peer', bin') /\ CallsForward'
    <3>1. CASE CallbackUnlink(pad)
      BY <1>a, <2>1, <3>1, ForwardUnlink
    <3>2. CASE UNCHANGED <<bin, peer, calls>>
      BY <1>a, <3>2 DEF CallsForward
    <3>3. QED BY <1>4, <3>1, <3>2 DEF WorkerAddProbe
  <2>5. QED BY <2>3, <2>4
            DEF LinksForward, Forward, PlannedLinksForward, CallsForward, Linking, Between
<1>5. QED BY <1>1, <1>2, <1>3, <1>4 DEF Worker

LEMMA ForwardStreaming == IInv /\ Streaming => LinksForward' /\ PlannedLinksForward'
<1> SUFFICES ASSUME IInv, Streaming PROVE LinksForward' /\ PlannedLinksForward'
    OBVIOUS
<1>a. /\ TypeOK /\ Forward(peer, bin) /\ CallsForward
      /\ \A u \in Thread : Linking(u)
  BY Parts DEF IInv
<1>1. ASSUME NEW a \in Elem, NEW e \in Elem, FireProbe(a, e)
      PROVE  LinksForward' /\ PlannedLinksForward'
  <2>1. Forward(peer', bin') /\ CallsForward'
    BY <1>1, <1>a, ForwardUnlink DEF FireProbe
  <2>2. \A u \in Thread : Linking(u)'
    BY <1>1, <1>a DEF FireProbe, Linking, Between
  <2>3. QED BY <2>1, <2>2
            DEF LinksForward, Forward, PlannedLinksForward, CallsForward, Linking, Between
<1>2. ASSUME NEW c \in calls, FinishCallback(c)
      PROVE  LinksForward' /\ PlannedLinksForward'
  <2>1. Forward(peer', bin') /\ CallsForward'
    BY <1>2, <1>a, ForwardRelink DEF FinishCallback
  <2>2. at' = at /\ nb' = nb
    BY <1>2 DEF FinishCallback
  <2>3. \A u \in Thread : Linking(u)'
    <3>1. CASE pc' = pc
      BY <1>a, <2>2, <3>1 DEF Linking, Between
    <3>2. CASE pc' = [pc EXCEPT !["worker"] = "clear_flags"]
      <4>1. "clear_flags" \in Label \ {"link_prev", "link_next"} /\ "worker" \in Thread
        BY DEF Label, Thread
      <4>2. QED BY <1>a, <2>2, <3>2, <4>1, OtherPlansKept
    <3>3. QED BY <1>2, <3>1, <3>2 DEF FinishCallback
  <2>4. QED BY <2>1, <2>3
            DEF LinksForward, Forward, PlannedLinksForward, CallsForward, Linking, Between
<1>3. QED BY <1>1, <1>2 DEF Streaming

\* The inductive invariant holds of the specification.
LEMMA Inductive == Spec => []IInv
<1>1. Init => IInv
  BY TypeInit, ForwardInit DEF IInv
<1>2. IInv /\ [Next]_vars => IInv'
  <2>1. IInv /\ UNCHANGED vars => LinksForward' /\ PlannedLinksForward'
    BY DEF IInv, LinksForward, PlannedLinksForward, vars
  <2>2. QED
    BY <2>1, TypeStep, ForwardMain, ForwardReceive, ForwardWorker, ForwardStreaming
    DEF IInv, Next
<1>3. QED BY <1>1, <1>2, PTL DEF Spec

\* No sequence of commands, creations and callbacks, whenever they come, makes
\* a cycle or a merge of the elements or links one that is not in the pipeline.
THEOREM StreamGoesForward == Spec => []LinksForward
<1>1. IInv => LinksForward
  BY DEF IInv
<1>2. QED BY <1>1, Inductive, PTL
=============================================================================
