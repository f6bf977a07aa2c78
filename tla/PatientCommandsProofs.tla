------------------------- MODULE PatientCommandsProofs -------------------------
(* Theorems about PipelineElements when commands wait for play() and for each   *)
(* other's callbacks, for any pipeline file; and, when the optional elements of *)
(* the file also stand apart, that the stream is whole after each of them.      *)
EXTENDS PipelineElementsProofs

-----------------------------------------------------------------------------
(* The invariant *)

Enabling  == {"create", "link", "link_prev", "link_next", "link_ok", "link_failed"}
Disabling == {"find_pad", "add_probe", "callback", "clear_flags"}

\* Commands wait for play() and for each other's callbacks.
OneAtATime ==
  /\ pc["main"] # "playing" => Settled /\ pc["worker"] = "idle"
  /\ pc["worker"] \in Enabling => Settled /\ op \in {"enable", "enable_all"}
  /\ pc["worker"] \in Disabling => op \in {"disable", "disable_all"}

\* Under way to be taken out: a probe is pending, or its callback has begun.
Leaving(e) ==
  \/ \E a \in Elem : probes[a][e] > 0
  \/ \E c \in calls : c.elem = e

BeingUnlinked(a) == \E c \in calls : c.elem = a

\* disable_elements goes through the elements in order, each of them once.
LeavingInOrder ==
  /\ pc["worker"] \in {"find_pad", "add_probe"} =>
       \A e \in Elem : Leaving(e) => e < at["worker"]
  /\ pc["worker"] \in {"callback", "clear_flags"} =>
       \A e \in Elem : Leaving(e) => e <= at["worker"]

\* A callback between its two steps has cut its three elements from each other
\* and no other callback is about any of the links.
CallsApart ==
  /\ \A c \in calls :
       /\ peer[c.pad] = NoElem /\ peer[c.elem] = NoElem
       /\ \A x \in Elem : peer[x] # c.elem /\ peer[x] # c.down
  /\ \A c, d \in calls : c # d =>
       /\ c.pad # d.pad /\ c.elem # d.elem /\ c.down # d.down
       /\ c.pad # d.elem /\ c.elem # d.down

\* An element has one probe, on the pad it is linked to, until that pad's own
\* element is being taken out.
ProbesApart ==
  /\ \A a, e \in Elem : probes[a][e] > 0 =>
       /\ probes[a][e] = 1
       /\ peer[a] = e \/ BeingUnlinked(a)
       /\ ~BeingUnlinked(e)
  /\ \A a, b, e \in Elem : probes[a][e] > 0 /\ probes[b][e] > 0 => a = b

Removals == CallsApart /\ ProbesApart

\* So it is with the pad the worker has found.
PadFound ==
  pc["worker"] = "add_probe" =>
    \/ peer[pad] = at["worker"]
    \/ BeingUnlinked(pad)
    \/ pad \notin bin /\ peer[pad] = NoElem

\* The commands are about optional elements only.
OptionalLeave ==
  /\ op \in {"enable", "disable"} => at["worker"] \in Optional
  /\ pc["worker"] \in {"add_probe", "callback", "clear_flags"} => at["worker"] \in Optional
  /\ \A e \in Elem : Leaving(e) => e \in Optional

\* play() creates the elements in order.
Mandatory == Elem \ (Optional \cup Unavailable)

MandatoryCreated ==
  /\ pc["main"] = "create" => \A e \in Mandatory : e < at["main"] => e \in bin
  /\ MandatoryStay

PInv == /\ IInv
        /\ OneAtATime /\ LeavingInOrder /\ Removals /\ PadFound
        /\ OptionalLeave /\ MandatoryCreated

-----------------------------------------------------------------------------
(* What a callback does to the others *)

LEMMA NothingLeaves ==
  ASSUME Settled
  PROVE  Removals /\ \A e \in Elem : ~Leaving(e)
<1>1. calls = {} /\ \A a, e \in Elem : probes[a][e] = 0
  BY DEF Settled, NoProbe
<1>2. QED BY <1>1 DEF Removals, CallsApart, ProbesApart, Leaving

LEMMA NothingLeavesNext ==
  ASSUME Settled, UNCHANGED <<probes, calls>>
  PROVE  Settled' /\ Removals' /\ \A e \in Elem : ~Leaving(e)'
<1>1. calls' = {} /\ \A a, e \in Elem : probes'[a][e] = 0
  BY DEF Settled, NoProbe
<1>2. QED BY <1>1 DEF Settled, Removals, CallsApart, ProbesApart, Leaving

LEMMA RemovalsKept ==
  ASSUME Removals, UNCHANGED <<peer, probes, calls>>
  PROVE  Removals' /\ \A e \in Elem : Leaving(e)' <=> Leaving(e)
BY DEF Removals, CallsApart, ProbesApart, Leaving, BeingUnlinked

\* Unlinking on pad a what its probe for e finds.
LEMMA UnlinkApart ==
  ASSUME TypeOK, LinksForward, Removals, NEW a \in Elem, NEW e \in Elem,
         CallbackUnlink(a), peer[a] \in {e, NoElem}, ~BeingUnlinked(e),
         \A x \in Elem : probes'[x][e] = 0,
         \A x, f \in Elem : f # e => probes'[x][f] = probes[x][f]
  PROVE  /\ Removals'
         /\ \A f \in Elem : Leaving(f)' => Leaving(f) \/ f = e
         /\ \A x \in Elem : BeingUnlinked(x) => BeingUnlinked(x)'
         /\ \A x, f \in Elem : peer[x] = f /\ f # e => peer'[x] = f \/ BeingUnlinked(x)'
         /\ \A x \in Elem : x \notin bin => x \notin bin' /\ peer'[x] = NoElem
         /\ bin \ {e} \subseteq bin' /\ (bin' # bin => peer[a] = e)
<1> DEFINE b == peer[a]
<1>a. \A x \in Elem : /\ peer[x] \in Elem \cup {NoElem}
                      /\ x \notin bin => peer[x] = NoElem
                      /\ peer[x] # NoElem => x # peer[x] /\ peer[x] \in Elem
  <2>1. \A x \in Elem : x \in Nat
    BY ElemFacts
  <2>2. \A x \in Elem : /\ peer[x] \in Elem \cup {NoElem}
                        /\ peer[x] # NoElem => x < peer[x] /\ x \in bin
    BY DEF TypeOK, LinksForward
  <2>3. QED BY <2>1, <2>2
<1>b. \A x, y \in Elem : peer[x] = peer[y] /\ peer[x] # NoElem => x = y
  BY DEF LinksForward
<1>c. \A c \in calls : c.pad \in Elem /\ c.elem \in Elem /\ c.down \in Elem
  BY DEF TypeOK, CallRec
<1>d. NoElem \notin Elem
  BY ElemFacts
<1>1. CASE UNCHANGED <<bin, peer, calls>>
  <2>1. CallsApart'
    BY <1>1 DEF Removals, CallsApart
  <2>2. ProbesApart'
    BY <1>1 DEF Removals, ProbesApart, BeingUnlinked
  <2>3. QED BY <1>1, <1>a, <2>1, <2>2 DEF Removals, Leaving, BeingUnlinked
<1>2. CASE b # NoElem /\ b = N
  <2>1. bin' = bin \ {b} /\ calls' = calls /\ peer' = RemovedFromBin(peer, b) /\ b = e
    BY <1>2 DEF CallbackUnlink
  <2>2. \A x \in Elem : peer'[x] = IF x = e \/ peer[x] = e THEN NoElem ELSE peer[x]
    BY <2>1 DEF RemovedFromBin
  <2>3. CallsApart'
    BY <1>a, <1>c, <1>d, <2>1, <2>2 DEF Removals, CallsApart
  <2>4. \A x, f \in Elem : peer[x] = f /\ f # e => peer'[x] = f \/ BeingUnlinked(x)'
    <3>1. e = N /\ peer[e] = NoElem
      BY <1>a, <2>1, <1>2 DEF LinksForward, Elem
    <3>2. QED BY <1>d, <2>2, <3>1
  <2>5. ProbesApart'
    BY <2>1, <2>4 DEF Removals, ProbesApart, BeingUnlinked
  <2>6. QED BY <1>a, <2>1, <2>2, <2>3, <2>4, <2>5 DEF Removals, Leaving, BeingUnlinked
<1>3. CASE b # NoElem /\ b # N /\ peer[b] # NoElem
  <2> DEFINE n == [pad |-> a, elem |-> b, down |-> peer[b]]
  <2>1. /\ peer' = [peer EXCEPT ![a] = NoElem, ![b] = NoElem] /\ bin' = bin
        /\ calls' = calls \cup {n} /\ b = e
    BY <1>3 DEF CallbackUnlink
  <2>2. n.pad = a /\ n.elem = e /\ n.down = peer[e]
    BY <2>1
  <2>a. /\ peer[a] = e /\ peer[e] # NoElem /\ peer[e] \in Elem
        /\ a # e /\ e # peer[e]
    BY <1>3, <1>a, <2>1
  <2> HIDE DEF n, b
  <2>3. \A x \in Elem : peer'[x] = IF x = a \/ x = e THEN NoElem ELSE peer[x]
    BY <2>1 DEF TypeOK
  <2>4. \A x \in Elem : BeingUnlinked(x)' <=> BeingUnlinked(x) \/ x = e
    BY <2>1, <2>2 DEF BeingUnlinked
  <2>5. \A c \in calls : /\ c.pad # a /\ c.pad # e /\ c.elem # a /\ c.elem # e
                         /\ c.down # e /\ c.down # peer[e]
    BY <1>d, <2>a DEF Removals, CallsApart
  <2>6. CallsApart'
    <3>1. \A c \in calls' : /\ peer'[c.pad] = NoElem /\ peer'[c.elem] = NoElem
                            /\ \A x \in Elem : peer'[x] # c.elem /\ peer'[x] # c.down
      <4>1. \A x \in Elem : peer'[x] # e /\ peer'[x] # peer[e]
        BY <1>b, <1>d, <2>a, <2>3
      <4>2. \A c \in calls : /\ peer[c.pad] = NoElem /\ peer[c.elem] = NoElem
                             /\ \A x \in Elem : peer[x] # c.elem /\ peer[x] # c.down
        BY DEF Removals, CallsApart
      <4>3. \A c \in calls : /\ peer'[c.pad] = NoElem /\ peer'[c.elem] = NoElem
                             /\ \A x \in Elem : peer'[x] # c.elem /\ peer'[x] # c.down
        BY <1>c, <1>d, <2>3, <4>2
      <4>4. /\ peer'[n.pad] = NoElem /\ peer'[n.elem] = NoElem
            /\ \A x \in Elem : peer'[x] # n.elem /\ peer'[x] # n.down
        BY <2>a, <2>2, <2>3, <4>1
      <4>5. \A c : c \in calls' => c \in calls \/ c = n
        BY <2>1
      <4>6. QED BY <4>3, <4>4, <4>5
    <3>2. \A c, d \in calls' : c # d =>
            /\ c.pad # d.pad /\ c.elem # d.elem /\ c.down # d.down
            /\ c.pad # d.elem /\ c.elem # d.down
      <4>1. n.pad # n.elem /\ n.elem # n.down
        BY <2>a, <2>2
      <4>2. \A c \in calls : n.elem # c.down /\ n.down # c.elem
        BY <2>a, <2>2 DEF Removals, CallsApart
      <4>3. QED BY <2>1, <2>2, <2>5, <4>1, <4>2 DEF Removals, CallsApart
    <3>3. QED BY <3>1, <3>2 DEF CallsApart
  <2>7. \A x, f \in Elem : peer[x] = f /\ f # e => peer'[x] = f \/ BeingUnlinked(x)'
    BY <2>1, <2>3, <2>4
  <2>8. ProbesApart'
    <3>1. ASSUME NEW x \in Elem, NEW f \in Elem, probes'[x][f] > 0
          PROVE  /\ probes'[x][f] = 1 /\ f # e /\ probes[x][f] > 0
                 /\ peer'[x] = f \/ BeingUnlinked(x)'
                 /\ ~BeingUnlinked(f)'
      <4>1. f # e /\ probes'[x][f] = probes[x][f]
        BY <3>1
      <4>2. probes[x][f] = 1 /\ (peer[x] = f \/ BeingUnlinked(x)) /\ ~BeingUnlinked(f)
        BY <3>1, <4>1 DEF Removals, ProbesApart
      <4>3. QED BY <2>4, <2>7, <4>1, <4>2
    <3>2. QED BY <3>1 DEF Removals, ProbesApart
  <2>9. \A f \in Elem : Leaving(f)' => Leaving(f) \/ f = e
    BY <2>1, <2>2 DEF Leaving
  <2>10. \A x \in Elem : x \notin bin => x \notin bin' /\ peer'[x] = NoElem
    BY <1>a, <2>1, <2>3
  <2>11. bin \ {e} \subseteq bin' /\ (bin' # bin => peer[a] = e)
    BY <2>1
  <2>12. QED BY <2>4, <2>6, <2>7, <2>8, <2>9, <2>10, <2>11 DEF Removals
<1>4. QED BY <1>1, <1>2, <1>3 DEF CallbackUnlink

\* Joining the neighbours of what a callback takes out.
LEMMA RelinkApart ==
  ASSUME IInv, Removals, NEW c \in calls, CallbackRelink(c)
  PROVE  /\ Removals' /\ bin' = bin \ {c.elem}
         /\ \A f \in Elem : Leaving(f)' => Leaving(f)
         /\ \A x, f \in Elem : peer[x] = f => peer'[x] = f
         /\ \A x \in Elem : BeingUnlinked(x) =>
              BeingUnlinked(x)' \/ (x \notin bin' /\ peer'[x] = NoElem)
         /\ \A x \in Elem : x \notin bin => x \notin bin' /\ peer'[x] = NoElem
<1> DEFINE joined == IF Linkable(c.pad, c.down)
                     THEN [peer EXCEPT ![c.pad] = c.down] ELSE peer
<1>1. /\ peer' = RemovedFromBin(joined, c.elem) /\ bin' = bin \ {c.elem}
      /\ calls' = calls \ {c} /\ probes' = [probes EXCEPT ![c.elem] = NoProbe]
  BY DEF CallbackRelink
<1>2. c.pad \in Elem /\ c.elem \in Elem /\ c.down \in Elem /\ NoElem \notin Elem
  BY ElemFacts DEF IInv, TypeOK, CallRec
<1>3. /\ peer[c.pad] = NoElem /\ peer[c.elem] = NoElem
      /\ \A x \in Elem : peer[x] # c.elem /\ peer[x] # c.down
  BY DEF Removals, CallsApart
<1>4. \A d \in calls \ {c} : /\ d.pad # c.pad /\ d.elem # c.elem /\ d.down # c.down
                             /\ d.pad # c.elem /\ c.pad # d.elem
                             /\ d.elem # c.down /\ c.elem # d.down
                             /\ d.pad \in Elem /\ d.elem \in Elem
  BY DEF Removals, CallsApart, IInv, TypeOK, CallRec
<1>5. \A x \in Elem : /\ peer'[x] \in {peer[x], NoElem, c.down}
                      /\ x # c.pad => peer'[x] = peer[x]
                      /\ x = c.pad => peer'[x] \in {NoElem, c.down}
                      /\ x = c.pad /\ x \notin bin => peer'[x] = NoElem
  <2>1. \A x \in Elem : joined[x] = IF x = c.pad /\ Linkable(c.pad, c.down) THEN c.down ELSE peer[x]
    BY <1>2 DEF IInv, TypeOK
  <2> HIDE DEF joined
  <2>2. \A x \in Elem : peer'[x] = IF x = c.elem \/ joined[x] = c.elem THEN NoElem ELSE joined[x]
    BY <1>1 DEF RemovedFromBin
  <2>3. Linkable(c.pad, c.down) => c.pad \in bin
    BY DEF Linkable
  <2>4. QED BY <1>2, <1>3, <2>1, <2>2, <2>3
<1>6. CallsApart'
  <2>1. \A d \in calls' : /\ peer'[d.pad] = NoElem /\ peer'[d.elem] = NoElem
                          /\ \A x \in Elem : peer'[x] # d.elem /\ peer'[x] # d.down
    <3>1. \A d \in calls' : d \in calls \ {c} /\ d.down \in Elem
      BY <1>1 DEF IInv, TypeOK, CallRec
    <3>2. QED BY <1>2, <1>4, <1>5, <3>1 DEF Removals, CallsApart
  <2>2. QED BY <1>1, <2>1 DEF Removals, CallsApart
<1>7. \A x, f \in Elem : probes'[x][f] > 0 => x # c.elem /\ probes'[x][f] = probes[x][f]
  BY <1>1, <1>2 DEF IInv, TypeOK, NoProbe
<1>8. \A x \in Elem : /\ BeingUnlinked(x)' => BeingUnlinked(x)
                      /\ BeingUnlinked(x) => BeingUnlinked(x)' \/ x = c.elem
  BY <1>1 DEF BeingUnlinked
<1>9. \A x, f \in Elem : peer[x] = f => peer'[x] = f
  BY <1>2, <1>3, <1>5
<1>10. ProbesApart'
  <2>1. ASSUME NEW x \in Elem, NEW f \in Elem, probes'[x][f] > 0
        PROVE  /\ probes[x][f] > 0 /\ probes'[x][f] = 1
               /\ peer'[x] = f \/ BeingUnlinked(x)'
               /\ ~BeingUnlinked(f)'
    <3>1. x # c.elem /\ probes'[x][f] = probes[x][f]
      BY <1>7, <2>1
    <3>2. probes[x][f] = 1 /\ (peer[x] = f \/ BeingUnlinked(x)) /\ ~BeingUnlinked(f)
      BY <2>1, <3>1 DEF Removals, ProbesApart
    <3>3. QED BY <1>8, <1>9, <2>1, <3>1, <3>2
  <2>2. QED BY <2>1 DEF Removals, ProbesApart
<1>11. \A f \in Elem : Leaving(f)' => Leaving(f)
  BY <1>1, <1>7 DEF Leaving
<1>12. \A x \in Elem : x \notin bin => peer[x] = NoElem
  BY DEF IInv, LinksForward
<1>13. \A x \in Elem : x \notin bin => x \notin bin' /\ peer'[x] = NoElem
  BY <1>1, <1>5, <1>12
<1>14. c.elem \notin bin' /\ peer'[c.elem] = NoElem
  <2>1. c.pad # c.elem
    <3>1. c.pad < c.elem
      BY DEF IInv, PlannedLinksForward
    <3>2. c.pad \in Nat /\ c.elem \in Nat
      BY <1>2, ElemFacts
    <3>3. QED BY <3>1, <3>2
  <2>2. QED BY <1>1, <1>2, <1>3, <1>5, <2>1
<1>15. QED BY <1>1, <1>6, <1>8, <1>9, <1>10, <1>11, <1>13, <1>14 DEF Removals

-----------------------------------------------------------------------------
(* The steps *)

LEMMA ForwardStep == IInv /\ [Next]_vars => IInv'
<1>1. IInv /\ UNCHANGED vars => LinksForward' /\ PlannedLinksForward'
  BY DEF IInv, LinksForward, PlannedLinksForward, vars
<1>2. QED
  BY <1>1, TypeStep, ForwardMain, ForwardReceive, ForwardWorker, ForwardStreaming DEF IInv, Next

\* What the steps of one thread leave to the other.
LEMMA Other ==
  ASSUME TypeOK
  PROVE  /\ \A l : [pc EXCEPT !["main"] = l]["worker"] = pc["worker"]
         /\ \A l : [pc EXCEPT !["main"] = l]["main"] = l
         /\ \A l : [pc EXCEPT !["worker"] = l]["main"] = pc["main"]
         /\ \A l : [pc EXCEPT !["worker"] = l]["worker"] = l
         /\ \A e : [at EXCEPT !["main"] = e]["worker"] = at["worker"]
         /\ \A e : [at EXCEPT !["main"] = e]["main"] = e
         /\ \A e : [at EXCEPT !["worker"] = e]["main"] = at["main"]
         /\ \A e : [at EXCEPT !["worker"] = e]["worker"] = e
         /\ at["worker"] \in Elem /\ at["main"] \in Elem
BY DEF TypeOK, Thread

LEMMA LinkLeaves ==
  ASSUME TypeOK, NEW t \in Thread, LinkGstElement(t)
  PROVE  \E label \in {"link_ok", "link_failed", "link_prev"} : pc' = [pc EXCEPT ![t] = label]
BY DEF LinkGstElement, LinkToNext, UnlinkNeighbours, NothingToLink, Return, Goto

LEMMA BetweenLeaves ==
  ASSUME NEW t \in Thread, LinkPrevious(t) \/ LinkFollowing(t)
  PROVE  /\ \E label \in {"link_ok", "link_failed", "link_next"} : pc' = [pc EXCEPT ![t] = label]
         /\ pc[t] \in {"link_prev", "link_next"}
         /\ UNCHANGED <<bin, probes, calls, at, op>>
BY DEF LinkPrevious, LinkFollowing, Return, Goto

\* The main thread.
LEMMA MainLeaves ==
  ASSUME TypeOK, Main
  PROVE  /\ UNCHANGED <<probes, calls, op>>
         /\ pc'["worker"] = pc["worker"] /\ at'["worker"] = at["worker"]
         /\ pc["main"] # "playing" /\ bin \subseteq bin'
<1>1. CASE MainCreate
  <2>1. bin \subseteq bin'
    BY <1>1 DEF MainCreate, CreateGstElement
  <2>2. QED BY <1>1, <2>1, Other DEF MainCreate, MainNext, Goto
<1>2. CASE MainLink
  <2>1. CASE initialized[at["main"]]
    <3>1. LinkGstElement("main") /\ at' = at
      BY <1>2, <2>1 DEF MainLink
    <3>2. "main" \in Thread
      BY DEF Thread
    <3>3. pc'["worker"] = pc["worker"]
      BY <3>1, <3>2, LinkLeaves, Other
    <3>4. QED BY <1>2, <3>1, <3>3 DEF MainLink
  <2>2. CASE ~initialized[at["main"]]
    BY <1>2, <2>2, Other DEF MainLink, MainNext, Goto
  <2>3. QED BY <2>1, <2>2
<1>3. CASE MainLinked
  BY <1>3, Other DEF MainLinked, MainNext, Goto, gst
<1>4. CASE LinkPrevious("main") \/ LinkFollowing("main")
  <2>1. "main" \in Thread
    BY DEF Thread
  <2>2. QED BY <1>4, <2>1, BetweenLeaves, Other
<1>5. QED BY <1>1, <1>2, <1>3, <1>4 DEF Main

LEMMA MainCreates ==
  ASSUME TypeOK, MandatoryCreated, Main
  PROVE  MandatoryCreated'
<1>1. CASE MainCreate
  <2>1. PICK ok \in BOOLEAN :
          /\ IF at["main"] \in Optional
             THEN ok /\ UNCHANGED <<initialized, bin>>
             ELSE CreateGstElement(at["main"], ok)
          /\ MainNext(ok, "create", "link")
    BY <1>1 DEF MainCreate
  <2>2. bin \subseteq bin' /\ (at["main"] \in Mandatory => at["main"] \in bin')
    BY <2>1 DEF CreateGstElement, Mandatory
  <2>3. \A e \in Mandatory : e < at["main"] => e \in bin'
    BY <1>1, <2>2 DEF MainCreate, MandatoryCreated
  <2>4. \A e \in Elem : e \in Nat /\ (e < at["main"] + 1 => e < at["main"] \/ e = at["main"])
    <3>1. at["main"] \in Nat /\ \A e \in Elem : e \in Nat
      BY ElemFacts, Other
    <3>2. QED BY <3>1
  <2>5. CASE ~ok
    <3>1. pc'["main"] = "failed"
      BY <2>1, <2>5, Other DEF MainNext, Goto
    <3>2. QED BY <3>1 DEF MandatoryCreated, MandatoryStay
  <2>6. CASE ok /\ at["main"] < N
    <3>1. pc'["main"] = "create" /\ at'["main"] = at["main"] + 1
      BY <2>1, <2>6, Other DEF MainNext, Goto
    <3>2. \A e \in Mandatory : e < at'["main"] => e \in bin'
      BY <2>2, <2>3, <2>4, <3>1 DEF Mandatory
    <3>3. QED BY <3>1, <3>2 DEF MandatoryCreated, MandatoryStay
  <2>7. CASE ok /\ ~(at["main"] < N)
    <3>1. pc'["main"] = "link"
      BY <2>1, <2>7, Other DEF MainNext, Goto
    <3>2. \A e \in Elem : e < at["main"] \/ e = at["main"]
      BY <2>7, Other, PipelineAssumption DEF Elem
    <3>3. Mandatory \subseteq bin'
      BY <2>2, <2>3, <3>2 DEF Mandatory
    <3>4. QED BY <3>1, <3>3 DEF MandatoryCreated, MandatoryStay, Mandatory
  <2>8. QED BY <2>5, <2>6, <2>7
<1>2. CASE ~MainCreate
  <2>1. pc["main"] \notin {"create", "failed"}
    BY <1>2 DEF Main, MainLink, MainLinked, LinkPrevious, LinkFollowing
  <2>2. pc'["main"] # "create"
    <3>1. "main" \in Thread
      BY DEF Thread
    <3>2. CASE MainLink
      BY <3>1, <3>2, LinkLeaves, Other DEF MainLink, MainNext, Goto
    <3>3. CASE MainLinked
      BY <3>3, Other DEF MainLinked, MainNext, Goto
    <3>4. CASE LinkPrevious("main") \/ LinkFollowing("main")
      BY <3>1, <3>4, BetweenLeaves, Other
    <3>5. QED BY <1>2, <3>2, <3>3, <3>4 DEF Main
  <2>3. bin \subseteq bin'
    BY MainLeaves
  <2>4. QED BY <2>1, <2>2, <2>3 DEF MandatoryCreated, MandatoryStay
<1>3. QED BY <1>1, <1>2

\* The bin grows and the main thread stays.
LEMMA CreatedStay ==
  ASSUME MandatoryCreated, pc'["main"] = pc["main"], at'["main"] = at["main"],
         NEW S, S \cap Mandatory = {}, bin \ S \subseteq bin'
  PROVE  MandatoryCreated'
BY DEF MandatoryCreated, MandatoryStay, Mandatory

LEMMA PatientMain ==
  ASSUME PInv, IInv', Main
  PROVE  PInv'
<1>1. TypeOK /\ Settled /\ pc["worker"] = "idle"
  BY MainLeaves DEF PInv, IInv, OneAtATime
<1>2. /\ UNCHANGED <<probes, calls, op>>
      /\ pc'["worker"] = "idle" /\ at'["worker"] = at["worker"]
  BY <1>1, MainLeaves
<1>3. Settled' /\ Removals' /\ \A e \in Elem : ~Leaving(e)'
  BY <1>1, <1>2, NothingLeavesNext
<1>4. OneAtATime' /\ LeavingInOrder' /\ PadFound'
  BY <1>2, <1>3 DEF OneAtATime, LeavingInOrder, PadFound, Enabling, Disabling
<1>5. OptionalLeave'
  BY <1>2, <1>3 DEF PInv, OptionalLeave
<1>6. MandatoryCreated'
  BY <1>1, MainCreates DEF PInv
<1>7. QED BY <1>3, <1>4, <1>5, <1>6 DEF PInv

\* A command begins only when the one before it has settled.
LEMMA PatientReceive ==
  ASSUME EarlyCommands = FALSE, Overlap = FALSE, PInv, IInv', Receive
  PROVE  PInv'
<1>1. /\ Settled /\ pc["main"] = "playing" /\ TypeOK /\ UNCHANGED gst
  BY DEF PInv, IInv, Receive, CommandAllowed, EnableOptionalPipelineElement,
         DisableOptionalPipelineElement, EnableAllOptionalPipelineElements,
         DisableAllOptionalPipelineElements
<1> DEFINE Begun ==
      /\ pc'["main"] = "playing" /\ at'["main"] = at["main"]
      /\ \/ pc'["worker"] = "idle"
         \/ pc'["worker"] = "create" /\ op' \in {"enable", "enable_all"}
         \/ pc'["worker"] = "find_pad" /\ op' \in {"disable", "disable_all"}
      /\ op' \in {"enable", "disable"} => at'["worker"] \in Optional
<1>2. Begun
  <2>1. ASSUME NEW e \in Optional, EnableOptionalPipelineElement(e)
        PROVE  Begun
    BY <1>1, <2>1, Other DEF EnableOptionalPipelineElement, Start, Finish, Goto
  <2>2. ASSUME NEW e \in Optional, DisableOptionalPipelineElement(e)
        PROVE  Begun
    BY <1>1, <2>2, Other DEF DisableOptionalPipelineElement, Start, Finish, Goto
  <2>3. CASE EnableAllOptionalPipelineElements
    BY <1>1, <2>3, Other DEF EnableAllOptionalPipelineElements, Start, Goto
  <2>4. CASE DisableAllOptionalPipelineElements
    BY <1>1, <2>4, Other DEF DisableAllOptionalPipelineElements, Start, Goto
  <2>5. QED BY <2>1, <2>2, <2>3, <2>4 DEF Receive
<1>3. Settled' /\ Removals' /\ \A e \in Elem : ~Leaving(e)'
  BY <1>1, NothingLeavesNext DEF gst
<1>4. OneAtATime' /\ LeavingInOrder' /\ PadFound'
  BY <1>2, <1>3 DEF OneAtATime, LeavingInOrder, PadFound, Enabling, Disabling
<1>5. OptionalLeave'
  BY <1>2, <1>3 DEF OptionalLeave
<1>6. MandatoryCreated'
  <2>1. bin \ {} \subseteq bin' /\ {} \cap Mandatory = {}
    BY <1>1 DEF gst
  <2>2. pc'["main"] = pc["main"] /\ at'["main"] = at["main"] /\ MandatoryCreated
    BY <1>1, <1>2 DEF PInv
  <2>3. QED BY <2>1, <2>2, CreatedStay
<1>7. QED BY <1>3, <1>4, <1>5, <1>6 DEF PInv

\* The steps of an enable command, while nothing leaves.
LEMMA EnablingLeaves ==
  ASSUME PInv, Worker, pc["worker"] \in Enabling
  PROVE  /\ UNCHANGED <<probes, calls, op>> /\ bin \subseteq bin'
         /\ pc'["main"] = pc["main"] /\ at'["main"] = at["main"]
         /\ pc'["worker"] \in Enabling \cup {"idle"}
         /\ op \in {"enable", "disable"} => at'["worker"] = at["worker"]
<1>1. TypeOK /\ "worker" \in Thread /\ op \in {"enable", "enable_all"}
  BY DEF PInv, IInv, OneAtATime, Thread
<1>2. CASE WorkerSkip
  BY <1>1, <1>2, Other DEF WorkerSkip, Selected, WorkerNext, Finish, Goto, gst, Enabling
<1>3. CASE WorkerCreate
  <2>1. bin \subseteq bin'
    BY <1>3 DEF WorkerCreate, CreateGstElement
  <2>2. QED BY <1>1, <1>3, <2>1, Other DEF WorkerCreate, WorkerNext, Finish, Goto, Enabling
<1>4. CASE WorkerLink
  <2>1. LinkGstElement("worker")
    BY <1>4 DEF WorkerLink
  <2>2. PICK label \in {"link_ok", "link_failed", "link_prev"} : pc' = [pc EXCEPT !["worker"] = label]
    BY <1>1, <2>1, LinkLeaves
  <2>3. QED BY <1>1, <1>4, <2>2, Other DEF WorkerLink, Enabling
<1>5. CASE WorkerLinked
  BY <1>1, <1>5, Other DEF WorkerLinked, WorkerNext, Finish, Goto, gst, Enabling
<1>6. CASE LinkPrevious("worker") \/ LinkFollowing("worker")
  <2>1. PICK label \in {"link_ok", "link_failed", "link_next"} : pc' = [pc EXCEPT !["worker"] = label]
    BY <1>1, <1>6, BetweenLeaves
  <2>2. UNCHANGED <<bin, probes, calls, at, op>>
    BY <1>1, <1>6, BetweenLeaves
  <2>3. QED BY <1>1, <2>1, <2>2, Other DEF Enabling
<1>7. CASE WorkerFindPad \/ WorkerAddProbe \/ WorkerClearFlags
  BY <1>7 DEF WorkerFindPad, WorkerAddProbe, WorkerClearFlags, Enabling
<1>8. QED BY <1>2, <1>3, <1>4, <1>5, <1>6, <1>7 DEF Worker

LEMMA PatientEnabling ==
  ASSUME PInv, IInv', Worker, pc["worker"] \in Enabling
  PROVE  PInv'
<1>1. TypeOK /\ Settled /\ op \in {"enable", "enable_all"}
  BY DEF PInv, IInv, OneAtATime
<1>2. /\ UNCHANGED <<probes, calls, op>> /\ bin \subseteq bin'
      /\ pc'["main"] = pc["main"] /\ at'["main"] = at["main"]
      /\ pc'["worker"] \in Enabling \cup {"idle"}
      /\ op \in {"enable", "disable"} => at'["worker"] = at["worker"]
  BY EnablingLeaves
<1>3. Settled' /\ Removals' /\ \A e \in Elem : ~Leaving(e)'
  BY <1>1, <1>2, NothingLeavesNext
<1>4. pc["main"] = "playing"
  BY DEF PInv, OneAtATime, Enabling
<1>5. OneAtATime' /\ LeavingInOrder' /\ PadFound'
  BY <1>1, <1>2, <1>3, <1>4 DEF OneAtATime, LeavingInOrder, PadFound, Enabling, Disabling
<1>6. OptionalLeave'
  BY <1>2, <1>3 DEF PInv, OptionalLeave, Enabling
<1>7. MandatoryCreated'
  <2>1. bin \ {} \subseteq bin' /\ {} \cap Mandatory = {}
    BY <1>2
  <2>2. QED BY <1>2, <2>1, CreatedStay DEF PInv
<1>8. QED BY <1>3, <1>5, <1>6, <1>7 DEF PInv

\* The steps of a disable command that take nothing out.
LEMMA DisablingLeaves ==
  ASSUME PInv, pc["worker"] \in Disabling, WorkerSkip \/ WorkerFindPad \/ WorkerClearFlags
  PROVE  /\ UNCHANGED <<bin, peer, probes, calls, op>>
         /\ pc'["main"] = pc["main"] /\ at'["main"] = at["main"]
         /\ \/ pc'["worker"] \in {"idle", "terminated"}
            \/ pc'["worker"] = "find_pad" /\ at'["worker"] = at["worker"] + 1
            \/ /\ pc["worker"] = "find_pad" /\ pc'["worker"] = "add_probe"
               /\ at'["worker"] = at["worker"] /\ peer[pad'] = at["worker"]
               /\ at["worker"] \in Optional
         /\ pc["worker"] \in {"find_pad", "clear_flags"}
         /\ op \in {"enable", "disable"} => at'["worker"] = at["worker"]
<1>1. TypeOK /\ op \in {"disable", "disable_all"}
  BY DEF PInv, IInv, OneAtATime
<1>2. CASE WorkerSkip
  BY <1>1, <1>2, Other DEF WorkerSkip, Selected, WorkerNext, Finish, Goto, gst, Disabling
<1>3. CASE WorkerFindPad
  <2>1. /\ pc["worker"] = "find_pad" /\ UNCHANGED <<bin, peer, probes, calls, op>>
    BY <1>3 DEF WorkerFindPad, gst
  <2>2. CASE UNCHANGED at /\ ((\E ok \in BOOLEAN : Finish(ok)) \/ Goto("worker", "terminated"))
    BY <1>1, <2>1, <2>2, Other DEF Finish, Goto
  <2>3. CASE op # "disable" /\ WorkerNext("find_pad", "idle")
    BY <1>1, <2>1, <2>3, Other DEF WorkerNext, Finish, Goto
  <2>4. CASE /\ \E a \in Elem : peer[a] = at["worker"] /\ pad' = a
             /\ Goto("worker", "add_probe") /\ UNCHANGED at
    <3>1. at["worker"] \in Optional
      BY <1>1, <1>3 DEF WorkerFindPad, Selected, PInv, OptionalLeave
    <3>2. QED BY <1>1, <2>1, <2>4, <3>1, Other DEF Goto
  <2>5. QED BY <1>3, <2>2, <2>3, <2>4 DEF WorkerFindPad
<1>4. CASE WorkerClearFlags
  BY <1>1, <1>4, Other DEF WorkerClearFlags, WorkerNext, Finish, Goto, gst
<1>5. QED BY <1>2, <1>3, <1>4

LEMMA PatientDisabling ==
  ASSUME PInv, IInv', pc["worker"] \in Disabling,
         WorkerSkip \/ WorkerFindPad \/ WorkerClearFlags
  PROVE  PInv'
<1>1. /\ UNCHANGED <<bin, peer, probes, calls, op>>
      /\ pc'["main"] = pc["main"] /\ at'["main"] = at["main"]
      /\ \/ pc'["worker"] \in {"idle", "terminated"}
         \/ pc'["worker"] = "find_pad" /\ at'["worker"] = at["worker"] + 1
         \/ /\ pc["worker"] = "find_pad" /\ pc'["worker"] = "add_probe"
            /\ at'["worker"] = at["worker"] /\ peer[pad'] = at["worker"]
            /\ at["worker"] \in Optional
      /\ pc["worker"] \in {"find_pad", "clear_flags"}
      /\ op \in {"enable", "disable"} => at'["worker"] = at["worker"]
  BY DisablingLeaves
<1>2. Removals' /\ \A e \in Elem : Leaving(e)' <=> Leaving(e)
  BY <1>1, RemovalsKept DEF PInv
<1>3. TypeOK /\ pc["main"] = "playing" /\ op \in {"disable", "disable_all"}
      /\ \A e \in Elem : Leaving(e) => e <= at["worker"]
  <2>1. TypeOK /\ pc["main"] = "playing" /\ op \in {"disable", "disable_all"}
    BY DEF PInv, IInv, OneAtATime, Disabling
  <2>2. \A e \in Elem : e \in Nat /\ at["worker"] \in Nat
    BY <2>1, ElemFacts, Other
  <2>3. QED BY <1>1, <2>1, <2>2 DEF PInv, LeavingInOrder
<1>4. OneAtATime'
  BY <1>1, <1>3 DEF OneAtATime, Enabling, Disabling
<1>5. LeavingInOrder'
  <2>1. \A e \in Elem : e \in Nat /\ at["worker"] \in Nat
    BY <1>3, ElemFacts, Other
  <2>2. QED BY <1>1, <1>2, <1>3, <2>1 DEF PInv, LeavingInOrder
<1>6. PadFound'
  BY <1>1 DEF PadFound
<1>7. OptionalLeave'
  BY <1>1, <1>2 DEF PInv, OptionalLeave
<1>8. MandatoryCreated'
  <2>1. bin \ {} \subseteq bin' /\ {} \cap Mandatory = {}
    BY <1>1
  <2>2. QED BY <1>1, <2>1, CreatedStay DEF PInv
<1>9. QED BY <1>2, <1>4, <1>5, <1>6, <1>7, <1>8 DEF PInv

\* The probe, or the callback at once.
LEMMA PatientAddProbe ==
  ASSUME PInv, IInv', WorkerAddProbe
  PROVE  PInv'
<1> DEFINE e == at["worker"]
<1>1. /\ TypeOK /\ LinksForward /\ Removals /\ pc["worker"] = "add_probe"
      /\ e \in Elem /\ pad \in Elem /\ e \in Optional /\ NoElem \notin Elem
  BY ElemFacts, Other DEF PInv, IInv, WorkerAddProbe, OptionalLeave, TypeOK
<1>2. ~Leaving(e) /\ \A f \in Elem : Leaving(f) => f <= e
  <2>1. \A f \in Elem : f \in Nat
    BY ElemFacts
  <2>2. QED BY <1>1, <2>1 DEF PInv, LeavingInOrder
<1>3. ~BeingUnlinked(e) /\ \A x \in Elem : probes[x][e] = 0
  BY <1>1, <1>2 DEF Leaving, BeingUnlinked, TypeOK
<1>4. BeingUnlinked(pad) => peer[pad] = NoElem
  BY DEF PInv, Removals, CallsApart, BeingUnlinked
<1>5. /\ UNCHANGED <<op, pad, at>> /\ pc'["main"] = pc["main"]
      /\ pc'["worker"] \in {"clear_flags", "callback"}
  BY <1>1, Other DEF WorkerAddProbe, Goto
<1>6. /\ Removals' /\ bin \ {e} \subseteq bin'
      /\ \A f \in Elem : Leaving(f)' => Leaving(f) \/ f = e
  <2>1. CASE /\ pad \in bin /\ UNCHANGED <<bin, peer, calls>>
             /\ probes' = [probes EXCEPT ![pad][e] = @ + 1]
    <3>1. \A x, f \in Elem : probes'[x][f] = IF x = pad /\ f = e THEN 1 ELSE probes[x][f]
      BY <1>1, <1>3, <2>1 DEF TypeOK
    <3>2. \A x \in Elem : BeingUnlinked(x)' <=> BeingUnlinked(x)
      BY <2>1 DEF BeingUnlinked
    <3>3. peer[pad] = e \/ BeingUnlinked(pad)
      BY <1>1, <2>1 DEF PInv, PadFound
    <3>4. CallsApart'
      BY <1>1, <2>1 DEF Removals, CallsApart
    <3>5. ProbesApart'
      <4>1. ASSUME NEW x \in Elem, NEW f \in Elem, probes'[x][f] > 0
            PROVE  /\ probes'[x][f] = 1 /\ (peer[x] = f \/ BeingUnlinked(x)) /\ ~BeingUnlinked(f)
                   /\ (x = pad /\ f = e) \/ (f # e /\ probes[x][f] > 0)
        BY <1>1, <1>3, <3>1, <3>3, <4>1 DEF Removals, ProbesApart
      <4>2. \A x, y, f \in Elem : probes'[x][f] > 0 /\ probes'[y][f] > 0 => x = y
        BY <1>1, <4>1 DEF Removals, ProbesApart
      <4>3. QED BY <2>1, <3>2, <4>1, <4>2 DEF ProbesApart
    <3>6. \A f \in Elem : Leaving(f)' => Leaving(f) \/ f = e
      BY <2>1, <3>1 DEF Leaving
    <3>7. QED BY <2>1, <3>4, <3>5, <3>6 DEF Removals
  <2>2. CASE CallbackUnlink(pad) /\ UNCHANGED probes
    <3>1. peer[pad] \in {e, NoElem}
      BY <1>1, <1>4 DEF PInv, PadFound
    <3>2. /\ \A x \in Elem : probes'[x][e] = 0
          /\ \A x, f \in Elem : f # e => probes'[x][f] = probes[x][f]
      BY <1>3, <2>2
    <3> HIDE DEF e
    <3>3. QED BY <1>1, <1>3, <2>2, <3>1, <3>2, UnlinkApart
  <2>3. QED BY <2>1, <2>2 DEF WorkerAddProbe
<1>7. LeavingInOrder'
  <2>1. e \in Nat
    BY <1>1, ElemFacts
  <2>2. \A f \in Elem : Leaving(f)' => f <= e
    BY <1>2, <1>6, <2>1
  <2>3. QED BY <1>5, <2>2 DEF LeavingInOrder
<1>8. OneAtATime'
  BY <1>1, <1>5 DEF PInv, OneAtATime, Enabling, Disabling
<1>9. OptionalLeave' /\ PadFound'
  BY <1>1, <1>5, <1>6 DEF PInv, OptionalLeave, PadFound
<1>10. MandatoryCreated'
  <2>1. {e} \cap Mandatory = {}
    BY <1>1 DEF Mandatory
  <2>2. MandatoryCreated /\ pc'["main"] = pc["main"] /\ at'["main"] = at["main"]
    BY <1>5 DEF PInv
  <2>3. QED BY <1>6, <2>1, <2>2, CreatedStay
<1>11. QED BY <1>6, <1>7, <1>8, <1>9, <1>10 DEF PInv

\* A pad becomes idle.
LEMMA PatientFire ==
  ASSUME PInv, IInv', NEW a \in Elem, NEW e \in Elem, FireProbe(a, e)
  PROVE  PInv'
<1>1. /\ TypeOK /\ LinksForward /\ Removals /\ probes[a][e] = 1 /\ ~BeingUnlinked(e)
      /\ peer[a] = e \/ BeingUnlinked(a)
      /\ \A x \in Elem \ {a} : probes[x][e] = 0
  <2>1. probes[a][e] > 0 /\ TypeOK /\ LinksForward /\ Removals
    BY DEF FireProbe, PInv, IInv
  <2>2. \A x \in Elem : probes[x][e] \in Nat
    BY <2>1 DEF TypeOK
  <2>3. \A x \in Elem \ {a} : ~(probes[x][e] > 0)
    BY <2>1 DEF Removals, ProbesApart
  <2>4. QED BY <2>1, <2>2, <2>3 DEF Removals, ProbesApart
<1>2. peer[a] \in {e, NoElem}
  BY <1>1 DEF Removals, CallsApart, BeingUnlinked
<1>3. probes' = [probes EXCEPT ![a][e] = @ - 1]
  BY DEF FireProbe
<1>4. /\ \A x \in Elem : probes'[x][e] = 0
      /\ \A x, f \in Elem : f # e => probes'[x][f] = probes[x][f]
  BY <1>1, <1>3 DEF TypeOK
<1>5. Leaving(e)
  BY <1>1 DEF Leaving
<1>6. CallbackUnlink(a) /\ UNCHANGED <<pc, at, op, pad>>
  BY DEF FireProbe
<1>7. /\ Removals'
      /\ \A f \in Elem : Leaving(f)' => Leaving(f) \/ f = e
      /\ \A x \in Elem : BeingUnlinked(x) => BeingUnlinked(x)'
      /\ \A x, f \in Elem : peer[x] = f /\ f # e => peer'[x] = f \/ BeingUnlinked(x)'
      /\ \A x \in Elem : x \notin bin => x \notin bin' /\ peer'[x] = NoElem
      /\ bin \ {e} \subseteq bin'
  BY <1>1, <1>2, <1>4, <1>6, UnlinkApart
<1>8. \A f \in Elem : Leaving(f)' => Leaving(f)
  BY <1>5, <1>7
<1>9. ~Settled
  <2>1. NoProbe[e] = 0
    BY DEF NoProbe
  <2>2. QED BY <1>1, <2>1 DEF Settled
<1>10. OneAtATime'
  BY <1>6, <1>9 DEF PInv, OneAtATime
<1>11. LeavingInOrder'
  BY <1>6, <1>8 DEF PInv, LeavingInOrder
<1>12. PadFound'
  <2> SUFFICES ASSUME pc["worker"] = "add_probe", NEW p \in Elem, p = pad
               PROVE  \/ peer'[p] = at["worker"] \/ BeingUnlinked(p)'
                      \/ p \notin bin' /\ peer'[p] = NoElem
    BY <1>1, <1>6 DEF PadFound, BeingUnlinked, TypeOK
  <2>1. at["worker"] \in Elem
    BY <1>1, Other
  <2>2. e # at["worker"]
    <3>1. e < at["worker"] /\ e \in Nat /\ at["worker"] \in Nat
      BY <1>5, <2>1, ElemFacts DEF PInv, LeavingInOrder
    <3>2. QED BY <3>1
  <2>3. peer[p] = at["worker"] \/ BeingUnlinked(p) \/ p \notin bin
    BY DEF PInv, PadFound
  <2>4. QED BY <1>7, <2>1, <2>2, <2>3
<1>13. OptionalLeave' /\ e \in Optional
  BY <1>5, <1>6, <1>8 DEF PInv, OptionalLeave
<1>14. MandatoryCreated'
  <2>1. {e} \cap Mandatory = {} /\ MandatoryCreated /\ pc' = pc /\ at' = at
    BY <1>6, <1>13 DEF Mandatory, PInv
  <2>2. QED BY <1>7, <2>1, CreatedStay
<1>15. QED BY <1>7, <1>10, <1>11, <1>12, <1>13, <1>14 DEF PInv

LEMMA PatientFinish ==
  ASSUME PInv, IInv', NEW c \in calls, FinishCallback(c)
  PROVE  PInv'
<1>1. IInv /\ TypeOK /\ Removals /\ c.elem \in Elem
  BY DEF PInv, IInv, TypeOK, CallRec
<1>2. CallbackRelink(c) /\ UNCHANGED <<at, op, pad>>
      /\ \/ pc' = pc
         \/ pc["worker"] = "callback" /\ pc' = [pc EXCEPT !["worker"] = "clear_flags"]
  BY DEF FinishCallback
<1>3. /\ Removals' /\ bin' = bin \ {c.elem}
      /\ \A f \in Elem : Leaving(f)' => Leaving(f)
      /\ \A x, f \in Elem : peer[x] = f => peer'[x] = f
      /\ \A x \in Elem : BeingUnlinked(x) =>
           BeingUnlinked(x)' \/ (x \notin bin' /\ peer'[x] = NoElem)
      /\ \A x \in Elem : x \notin bin => x \notin bin' /\ peer'[x] = NoElem
  BY <1>1, <1>2, RelinkApart
<1>4. ~Settled /\ Leaving(c.elem)
  BY DEF Settled, Leaving
<1>5. /\ pc'["main"] = pc["main"]
      /\ \/ pc'["worker"] = pc["worker"]
         \/ pc["worker"] = "callback" /\ pc'["worker"] = "clear_flags"
  BY <1>1, <1>2, Other
<1>6. OneAtATime'
  BY <1>2, <1>4, <1>5 DEF PInv, OneAtATime, Enabling, Disabling
<1>7. LeavingInOrder'
  BY <1>2, <1>3, <1>5 DEF PInv, LeavingInOrder
<1>8. PadFound'
  <2> SUFFICES ASSUME pc["worker"] = "add_probe", NEW p \in Elem, p = pad
               PROVE  \/ peer'[p] = at["worker"] \/ BeingUnlinked(p)'
                      \/ p \notin bin' /\ peer'[p] = NoElem
    BY <1>1, <1>2, <1>5 DEF PadFound, BeingUnlinked, TypeOK
  <2>1. at["worker"] \in Elem
    BY <1>1, Other
  <2>2. peer[p] = at["worker"] \/ BeingUnlinked(p) \/ p \notin bin
    BY DEF PInv, PadFound
  <2>3. QED BY <1>3, <2>1, <2>2
<1>9. OptionalLeave' /\ c.elem \in Optional
  BY <1>1, <1>2, <1>3, <1>4, <1>5 DEF PInv, OptionalLeave
<1>10. MandatoryCreated'
  <2>1. {c.elem} \cap Mandatory = {} /\ MandatoryCreated /\ at' = at
    BY <1>2, <1>9 DEF Mandatory, PInv
  <2>2. QED BY <1>3, <1>5, <2>1, CreatedStay
<1>11. QED BY <1>3, <1>6, <1>7, <1>8, <1>9, <1>10 DEF PInv

LEMMA PatientStay ==
  ASSUME PInv, UNCHANGED vars
  PROVE  PInv'
<1>1. IInv'
  BY ForwardStep DEF PInv
<1>2. UNCHANGED <<bin, peer, probes, calls, pc, at, op, pad>>
  BY DEF vars
<1>3. Removals' /\ \A e \in Elem : Leaving(e)' <=> Leaving(e)
  BY <1>2, RemovalsKept DEF PInv
<1>4. OneAtATime' /\ LeavingInOrder' /\ PadFound' /\ OptionalLeave' /\ MandatoryCreated'
  BY <1>2, <1>3 DEF PInv, OneAtATime, Settled, LeavingInOrder, PadFound, BeingUnlinked,
                    OptionalLeave, MandatoryCreated, MandatoryStay
<1>5. QED BY <1>1, <1>3, <1>4 DEF PInv

LEMMA PatientInit == Init => PInv
<1> SUFFICES ASSUME Init PROVE PInv
    OBVIOUS
<1>1. IInv
  BY TypeInit, ForwardInit DEF IInv
<1>2. /\ pc["main"] = "create" /\ pc["worker"] = "idle" /\ at["main"] = 1 /\ op = "none"
  BY DEF Init, Thread
<1>3. Settled
  BY DEF Init, Settled
<1>4. Removals /\ \A e \in Elem : ~Leaving(e)
  BY <1>3, NothingLeaves
<1>5. MandatoryCreated
  <2>1. \A e \in Elem : e \in Nat /\ e >= 1
    BY PipelineAssumption DEF Elem
  <2>2. \A e \in Elem : ~(e < 1)
    BY <2>1
  <2>3. QED BY <1>2, <2>2 DEF MandatoryCreated, MandatoryStay, Mandatory
<1>6. QED BY <1>1, <1>2, <1>3, <1>4, <1>5
          DEF PInv, OneAtATime, LeavingInOrder, PadFound, OptionalLeave, Enabling, Disabling

LEMMA PatientNext ==
  ASSUME EarlyCommands = FALSE, Overlap = FALSE
  PROVE  PInv /\ [Next]_vars => PInv'
<1> SUFFICES ASSUME PInv, [Next]_vars PROVE PInv'
    OBVIOUS
<1>1. IInv'
  BY ForwardStep DEF PInv
<1>2. CASE Worker
  <2>1. CASE pc["worker"] \in Enabling
    BY <1>1, <1>2, <2>1, PatientEnabling
  <2>2. CASE WorkerAddProbe
    BY <1>1, <2>2, PatientAddProbe
  <2>3. CASE (WorkerSkip \/ WorkerFindPad \/ WorkerClearFlags) /\ pc["worker"] \notin Enabling
    <3>1. pc["worker"] \in Disabling
      BY <2>3 DEF WorkerSkip, WorkerFindPad, WorkerClearFlags, Enabling, Disabling
    <3>2. QED BY <1>1, <2>3, <3>1, PatientDisabling
  <2>4. \/ pc["worker"] \in Enabling \/ WorkerAddProbe
        \/ WorkerSkip \/ WorkerFindPad \/ WorkerClearFlags
    BY <1>2 DEF Worker, WorkerCreate, WorkerLink, WorkerLinked, LinkPrevious, LinkFollowing, Enabling
  <2>5. QED BY <2>1, <2>2, <2>3, <2>4
<1>3. CASE Streaming
  BY <1>1, <1>3, PatientFire, PatientFinish DEF Streaming
<1>4. QED BY <1>1, <1>2, <1>3, PatientMain, PatientReceive, PatientStay DEF Next

\* If commands come one at a time, once the pipeline plays, a callback takes
\* out the element its probe was added for or none: for any pipeline file, any
\* optional elements, adjacent or at the end, missing plugins, refused links.
THEOREM ProbesHit ==
  ASSUME EarlyCommands = FALSE, Overlap = FALSE
  PROVE  Spec => []ProbeHitsItsTarget
<1>1. PInv => ProbeHitsItsTarget
  BY DEF PInv, Removals, ProbesApart, CallsApart, BeingUnlinked, ProbeHitsItsTarget
<1>2. Init => PInv
  BY PatientInit
<1>3. PInv /\ [Next]_vars => PInv'
  BY PatientNext
<1>4. QED BY <1>1, <1>2, <1>3, PTL DEF Spec

\* If commands come one at a time, once the pipeline plays, no mandatory element
\* leaves the pipeline: whatever is missing, refused or disabled.
THEOREM MandatoryElementsStay ==
  ASSUME EarlyCommands = FALSE, Overlap = FALSE
  PROVE  Spec => []MandatoryStay
<1>1. PInv => MandatoryStay
  BY DEF PInv, MandatoryCreated
<1>2. Init => PInv
  BY PatientInit
<1>3. PInv /\ [Next]_vars => PInv'
  BY PatientNext
<1>4. QED BY <1>1, <1>2, <1>3, PTL DEF Spec

-----------------------------------------------------------------------------
(* Optional elements that are not adjacent, and caps that fit: what a        *)
(* command does to one of them concerns its own links and those of its two   *)
(* neighbours, which are never taken out.  Every optional element is in one  *)
(* of a few states, and the worker knows which one its own is in.            *)

Sparse ==
  /\ \A e \in Optional : 1 < e /\ e < N /\ e + 1 \notin Optional
  /\ Unavailable = {}
  /\ \A a, b \in Elem :
       b = a + 1 \/ (b = a + 2 /\ a + 1 \in Optional) => <<a, b>> \notin Incompatible

\* The pipeline play() makes, up to element k.
Successor(e) == IF e = N THEN NoElem ELSE IF e + 1 \in Optional THEN e + 2 ELSE e + 1

Created(k) ==
  \A e \in Elem : /\ initialized[e] <=> (e \notin Optional /\ e < k)
                  /\ e \in bin <=> (e \notin Optional /\ e < k)
                  /\ ~linked[e] /\ peer[e] = NoElem

Built(k) ==
  \A e \in Elem : /\ initialized[e] <=> e \notin Optional
                  /\ e \in bin <=> e \notin Optional
                  /\ linked[e] <=> (e \notin Optional /\ e < k)
                  /\ peer[e] = IF e \notin Optional /\ e < k THEN Successor(e) ELSE NoElem

PlayBuilds ==
  \/ pc["main"] = "create" /\ Created(at["main"])
  \/ pc["main"] = "link" /\ Built(at["main"])
  \/ pc["main"] = "link_ok" /\ Built(at["main"] + 1)
  \/ pc["main"] = "playing"

\* What no command touches.
Skeleton ==
  \A e \in Elem : e \notin Optional =>
    /\ initialized[e] /\ linked[e] /\ e \in bin
    /\ e + 1 \notin Optional => peer[e] = Successor(e)

\* The links around an optional element.
Inside(e)  == e \in bin /\ peer[e - 1] = e /\ peer[e] = e + 1
Outside(e) == e \notin bin /\ peer[e - 1] = e + 1 /\ peer[e] = NoElem
Fresh(e)   == e \in bin /\ peer[e - 1] = e + 1 /\ peer[e] = NoElem
Open(e)    == e \in bin /\ peer[e - 1] = NoElem /\ peer[e] = NoElem
Half(e)    == e \in bin /\ peer[e - 1] = e /\ peer[e] = NoElem

Up(e)   == initialized[e] /\ linked[e]
Down(e) == ~initialized[e] /\ ~linked[e]
Mid(e)  == initialized[e] /\ ~linked[e]

\* Its removal has not reached the callback, or the callback is under way.
Pending(e) == probes[e - 1][e] > 0 /\ Inside(e)
Cut(e)     == [pad |-> e - 1, elem |-> e, down |-> e + 1] \in calls /\ Open(e)

Enabled(e)  == Inside(e) /\ Up(e) /\ ~Leaving(e)
Disabled(e) == Outside(e) /\ Down(e) /\ ~Leaving(e)
Disowned(e) == (Pending(e) \/ Cut(e)) /\ Down(e)
Waiting(e)  == Fresh(e) /\ Mid(e) /\ ~Leaving(e)
Opened(e)   == Open(e) /\ Mid(e) /\ ~Leaving(e)
Joined(e)   == Half(e) /\ Mid(e) /\ ~Leaving(e)
Removed(e)  == Up(e) /\ (Pending(e) \/ Cut(e) \/ (Outside(e) /\ ~Leaving(e)))

\* enable_elements creates all its elements before it links the first.
MayWait(e) ==
  \/ pc["worker"] = "create" /\ op = "enable_all" /\ e < at["worker"]
  \/ pc["worker"] = "link" /\ (e = at["worker"] \/ (op = "enable_all" /\ e > at["worker"]))
  \/ pc["worker"] \in {"link_prev", "link_next", "link_ok"} /\ op = "enable_all" /\ e > at["worker"]

\* What the worker knows of the element it is at.
AtWork(e) ==
  /\ pc["worker"] = "create" /\ op = "enable" => Disabled(e)
  /\ pc["worker"] = "link" /\ op = "enable" => Waiting(e)
  /\ pc["worker"] = "link_prev" => Opened(e)
  /\ pc["worker"] = "link_next" => Joined(e)
  /\ pc["worker"] = "link_ok" => Enabled(e)
  /\ pc["worker"] = "find_pad" /\ op = "disable" => Enabled(e)
  /\ pc["worker"] = "add_probe" => Enabled(e) /\ pad = e - 1
  /\ pc["worker"] = "callback" => Cut(e) /\ Up(e) /\ pad = e - 1
  /\ pc["worker"] = "clear_flags" => Removed(e)
  /\ pc["worker"] = "idle" /\ op = "enable" /\ reply = "Ack" => Enabled(e)

Engaged(e) ==
  e = at["worker"] /\ pc["worker"] \in {"link_prev", "link_next", "callback", "clear_flags"}

Rest(e) == Enabled(e) \/ Disabled(e) \/ Disowned(e)

Slot(e) ==
  /\ ~Engaged(e) => Rest(e) \/ (Waiting(e) /\ MayWait(e))
  /\ e = at["worker"] => AtWork(e)

Neighbours ==
  nb["worker"] = IF pc["worker"] \in {"link_prev", "link_next"}
                 THEN [prev |-> at["worker"] - 1, next |-> at["worker"] + 1] ELSE Nobody

Slots ==
  /\ Skeleton
  /\ \A e \in Optional : Slot(e)
  /\ pc["worker"] \notin {"link_failed", "terminated"}
  /\ pc["worker"] \in {"link_prev", "link_next", "link_ok"} => at["worker"] \in Optional
  /\ Neighbours

SInv == /\ PInv /\ PlayBuilds
        /\ pc["main"] # "playing" => op = "none" /\ nb["worker"] = Nobody
        /\ pc["main"] = "playing" => Slots

-----------------------------------------------------------------------------
(* What happens around one optional element does not concern the others *)

LEMMA Around ==
  ASSUME Sparse, NEW e \in Optional
  PROVE  /\ e \in Elem /\ e - 1 \in Elem /\ e + 1 \in Elem
         /\ e - 1 \notin Optional /\ e + 1 \notin Optional
         /\ e # NoElem /\ e - 1 # NoElem /\ e + 1 # NoElem
         /\ e - 1 # e /\ e + 1 # e /\ e - 1 # e + 1 /\ e # N
         /\ e - 1 < e /\ e < e + 1 /\ (e - 1) + 1 = e
<1>1. e \in 1 .. N /\ 1 < e /\ e < N /\ e + 1 \notin Optional /\ N \in Nat
  BY PipelineAssumption DEF Sparse, Elem
<1>2. e - 1 \in 1 .. N /\ e + 1 \in 1 .. N /\ (e - 1) + 1 = e
  BY <1>1
<1>3. e - 1 \notin Optional
  BY <1>2 DEF Sparse
<1>4. QED BY <1>1, <1>2, <1>3 DEF Elem, NoElem

LEMMA Apart ==
  ASSUME Sparse, NEW e \in Optional, NEW f \in Optional, f # e
  PROVE  /\ f - 1 # e - 1 /\ f - 1 # e /\ f # e - 1
         /\ f # e + 1 /\ f + 1 # e /\ f + 1 # e + 1
<1>1. e \in Nat /\ f \in Nat
  BY PipelineAssumption DEF Elem
<1>2. e + 1 \notin Optional /\ f + 1 \notin Optional
  BY DEF Sparse
<1>3. QED BY <1>1, <1>2

\* A step that is about element e only, or about none of the optional ones.
Same(f) ==
  /\ f \in bin' <=> f \in bin
  /\ peer'[f - 1] = peer[f - 1] /\ peer'[f] = peer[f]
  /\ initialized'[f] <=> initialized[f]
  /\ linked'[f] <=> linked[f]
  /\ \A a \in Elem : probes'[a][f] = probes[a][f]
  /\ \A c \in CallRec : c.elem = f => (c \in calls' <=> c \in calls)

Elsewhere(e) ==
  /\ \A x \in Elem \ {e - 1, e} : peer'[x] = peer[x]
  /\ \A x \in Elem \ {e} : /\ x \in bin' <=> x \in bin
                           /\ initialized'[x] <=> initialized[x]
                           /\ linked'[x] <=> linked[x]
                           /\ \A a \in Elem : probes'[a][x] = probes[a][x]
  /\ \A c \in CallRec : c.elem # e => (c \in calls' <=> c \in calls)

LEMMA ElsewhereSame ==
  ASSUME Sparse, NEW e \in Optional, Elsewhere(e), NEW f \in Optional, f # e
  PROVE  Same(f)
<1>1. f \in Elem /\ f - 1 \in Elem
  BY Around
<1>2. f - 1 \notin {e - 1, e} /\ f \notin {e - 1, e}
  BY Apart
<1>3. QED BY <1>1, <1>2 DEF Elsewhere, Same

LEMMA StillSame ==
  ASSUME UNCHANGED <<flags, gst>>, NEW f
  PROVE  Same(f)
BY DEF flags, gst, Same

LEMMA SkeletonKept ==
  ASSUME Sparse, Skeleton, NEW e \in Optional, Elsewhere(e)
  PROVE  Skeleton'
<1> SUFFICES ASSUME NEW x \in Elem, x \notin Optional
             PROVE  /\ initialized'[x] /\ linked'[x] /\ x \in bin'
                    /\ x + 1 \notin Optional => peer'[x] = Successor(x)
    BY DEF Skeleton, Successor
<1>1. initialized'[x] /\ linked'[x] /\ x \in bin' /\ x # e
  BY DEF Elsewhere, Skeleton
<1>2. ASSUME x + 1 \notin Optional
      PROVE  peer'[x] = Successor(x)
  <2>1. x # e - 1
    BY <1>2, Around
  <2>2. QED BY <1>1, <1>2, <2>1 DEF Elsewhere, Skeleton
<1>3. QED BY <1>1, <1>2

\* An element's own state depends on nothing else.
LEMMA Frame ==
  ASSUME Sparse, TypeOK, TypeOK', NEW f \in Optional, Same(f)
  PROVE  /\ (Enabled(f) => Enabled(f)') /\ (Waiting(f) => Waiting(f)')
         /\ (Opened(f) => Opened(f)') /\ (Joined(f) => Joined(f)')
         /\ (Rest(f) => Rest(f)') /\ (Disabled(f) => Disabled(f)')
         /\ (Cut(f) => Cut(f)') /\ (Up(f) => Up(f)') /\ (Removed(f) => Removed(f)')
<1>1. f \in Elem /\ f - 1 \in Elem /\ f + 1 \in Elem
  BY Around
<1>2. (Inside(f)' <=> Inside(f)) /\ (Outside(f)' <=> Outside(f)) /\ (Fresh(f)' <=> Fresh(f))
      /\ (Open(f)' <=> Open(f)) /\ (Half(f)' <=> Half(f))
  BY DEF Same, Inside, Outside, Fresh, Open, Half
<1>3. (Up(f)' <=> Up(f)) /\ (Down(f)' <=> Down(f)) /\ (Mid(f)' <=> Mid(f))
  BY DEF Same, Up, Down, Mid
<1>4. Leaving(f)' <=> Leaving(f)
  <2>1. calls \subseteq CallRec /\ calls' \subseteq CallRec
    BY DEF TypeOK
  <2>2. (\E c \in calls' : c.elem = f) <=> (\E c \in calls : c.elem = f)
    BY <2>1 DEF Same
  <2>3. (\E a \in Elem : probes'[a][f] > 0) <=> (\E a \in Elem : probes[a][f] > 0)
    BY DEF Same
  <2>4. QED BY <2>2, <2>3 DEF Leaving
<1>5. Pending(f)' <=> Pending(f)
  BY <1>1, <1>2 DEF Same, Pending
<1>6. Cut(f)' <=> Cut(f)
  <2> DEFINE c == [pad |-> f - 1, elem |-> f, down |-> f + 1]
  <2>1. c \in CallRec /\ c.elem = f
    BY <1>1 DEF CallRec
  <2> HIDE DEF c
  <2>2. c \in calls' <=> c \in calls
    BY <2>1 DEF Same
  <2>3. QED BY <1>2, <2>2 DEF Cut, c
<1>7. QED
  BY <1>2, <1>3, <1>4, <1>5, <1>6
  DEF Enabled, Disabled, Waiting, Opened, Joined, Disowned, Rest, Removed

\* The worker acts on its own element.
LEMMA WorkerOthers ==
  ASSUME Sparse, TypeOK, TypeOK', Slots, NEW e \in Optional, Elsewhere(e),
         e = at["worker"],
         \A f \in Optional \ {e} : MayWait(f) => MayWait(f)',
         \/ at'["worker"] = e
         \/ /\ op' \notin {"enable", "disable"}
            /\ pc'["worker"] \in {"create", "link", "find_pad", "idle"}
  PROVE  Skeleton' /\ \A f \in Optional \ {e} : Slot(f)'
<1> SUFFICES ASSUME NEW f \in Optional, f # e PROVE Slot(f)'
    BY SkeletonKept DEF Slots
<1>1. Same(f) /\ ~Engaged(f)
  BY ElsewhereSame DEF Engaged
<1>2. Rest(f) \/ (Waiting(f) /\ MayWait(f))
  BY <1>1 DEF Slots, Slot
<1>3. Rest(f)' \/ (Waiting(f)' /\ MayWait(f)')
  BY <1>1, <1>2, Frame
<1>4. f = at'["worker"] => AtWork(f)'
  BY DEF AtWork
<1>5. QED BY <1>3, <1>4 DEF Slot

\* A streaming thread acts on element e; the worker may be waiting for it.
LEMMA StreamingOthers ==
  ASSUME Sparse, TypeOK, TypeOK', Slots, NEW e \in Optional, Elsewhere(e),
         UNCHANGED <<at, op, pad, reply>>,
         \/ pc' = pc
         \/ e = at["worker"] /\ pc["worker"] = "callback" /\ pc'["worker"] = "clear_flags"
  PROVE  Skeleton' /\ \A f \in Optional \ {e} : Slot(f)'
<1> SUFFICES ASSUME NEW f \in Optional, f # e PROVE Slot(f)'
    BY SkeletonKept DEF Slots
<1>1. Same(f) /\ Slot(f)
  BY ElsewhereSame DEF Slots
<1>2. CASE pc' = pc
  <2>1. (Engaged(f)' <=> Engaged(f)) /\ (MayWait(f) => MayWait(f)')
    BY <1>2 DEF Engaged, MayWait
  <2>2. f = at["worker"] => (AtWork(f) => AtWork(f)')
    BY <1>1, <1>2, Frame DEF AtWork
  <2>3. QED BY <1>1, <2>1, <2>2, Frame DEF Slot
<1>3. CASE e = at["worker"] /\ pc["worker"] = "callback" /\ pc'["worker"] = "clear_flags"
  <2>1. ~MayWait(f) /\ ~Engaged(f)
    BY <1>3 DEF MayWait, Engaged
  <2>2. Rest(f)'
    BY <1>1, <2>1, Frame DEF Slot
  <2>3. QED BY <1>3, <2>2 DEF Slot
<1>4. QED BY <1>2, <1>3

-----------------------------------------------------------------------------
(* The commands *)

LEMMA Forward1 ==
  ASSUME TypeOK, LinksForward, NEW a \in Elem, NEW b \in Elem, NEW e \in Elem,
         peer[a] = e, peer[b] = e
  PROVE  a = b
<1>1. e # NoElem
  BY ElemFacts
<1>2. QED BY <1>1 DEF LinksForward

\* Where an element's src pad may be linked to.
LEMMA Sinks ==
  ASSUME Sparse, Slots, NEW x \in Elem
  PROVE  \/ peer[x] \in {NoElem, x + 1}
         \/ x + 1 \in Optional /\ peer[x] = x + 2
<1>1. CASE x \notin Optional /\ x + 1 \notin Optional
  BY <1>1 DEF Slots, Skeleton, Successor
<1>2. ASSUME NEW f \in Optional
      PROVE  /\ peer[f] \in {NoElem, f + 1}
             /\ peer[f - 1] \in {NoElem, f, f + 1}
  <2>1. CASE ~Engaged(f)
    BY <2>1 DEF Slots, Slot, Rest, Enabled, Disabled, Disowned, Waiting, Pending, Cut,
                Inside, Outside, Fresh, Open
  <2>2. CASE Engaged(f)
    BY <2>2 DEF Slots, Slot, Engaged, AtWork, Opened, Joined, Removed, Pending, Cut,
                Inside, Outside, Open, Half
  <2>3. QED BY <2>1, <2>2
<1>3. CASE x \in Optional
  BY <1>2, <1>3
<1>4. CASE x + 1 \in Optional
  <2>1. x \in Nat
    BY ElemFacts
  <2>2. (x + 1) - 1 = x /\ (x + 1) + 1 = x + 2
    BY <2>1
  <2>3. QED BY <1>2, <1>4, <2>2
<1>5. QED BY <1>1, <1>3, <1>4

\* Between the neighbours of an optional element nothing else is linked.
LEMMA Free ==
  ASSUME Sparse, Slots, NEW e \in Optional, NEW x \in Elem
  PROVE  /\ peer[x] = e => x = e - 1
         /\ peer[x] = e + 1 => x = e \/ (x = e - 1)
<1>1. x \in Nat /\ e \in Nat /\ e > 1 /\ e + 1 \notin Optional
  BY ElemFacts, PipelineAssumption DEF Sparse
<1>2. \/ peer[x] \in {NoElem, x + 1}
      \/ x + 1 \in Optional /\ peer[x] = x + 2
  BY Sinks
<1>3. CASE peer[x] \in {NoElem, x + 1}
  BY <1>1, <1>3 DEF NoElem
<1>4. CASE x + 1 \in Optional /\ peer[x] = x + 2
  <2>1. (x + 1) + 1 \notin Optional
    BY <1>4 DEF Sparse
  <2>2. (x + 1) + 1 = x + 2
    BY <1>1
  <2>3. x + 2 # e
    BY <2>1, <2>2
  <2>4. QED BY <1>1, <1>4, <2>3
<1>5. QED BY <1>2, <1>3, <1>4

\* Both neighbours are in the pipeline, and no caps stand between.
LEMMA Neighbourhood ==
  ASSUME Sparse, Slots, NEW e \in Optional
  PROVE  /\ e - 1 \in bin /\ e + 1 \in bin
         /\ initialized[e - 1] /\ initialized[e + 1] /\ linked[e + 1]
         /\ <<e - 1, e>> \notin Incompatible /\ <<e, e + 1>> \notin Incompatible
         /\ <<e - 1, e + 1>> \notin Incompatible
<1>1. /\ e \in Elem /\ e - 1 \in Elem /\ e + 1 \in Elem
      /\ e - 1 \notin Optional /\ e + 1 \notin Optional /\ (e - 1) + 1 = e
  BY Around
<1>2. e + 1 = (e - 1) + 2
  BY <1>1, ElemFacts
<1>3. /\ <<e - 1, e>> \notin Incompatible /\ <<e, e + 1>> \notin Incompatible
      /\ <<e - 1, e + 1>> \notin Incompatible
  BY <1>1, <1>2 DEF Sparse
<1>4. QED BY <1>1, <1>3 DEF Slots, Skeleton

LEMMA AtRest ==
  ASSUME Sparse, Settled, NEW f \in Optional, Rest(f)
  PROVE  Enabled(f) \/ Disabled(f)
<1>1. f \in Elem /\ f - 1 \in Elem
  BY Around
<1>2. ~Disowned(f)
  BY <1>1 DEF Settled, NoProbe, Disowned, Pending, Cut
<1>3. QED BY <1>2 DEF Rest

\* A step that changes neither pipeline nor flags.
LEMMA StillSlots ==
  ASSUME Sparse, TypeOK, TypeOK', Slots, UNCHANGED <<flags, gst>>, UNCHANGED nb,
         \A f \in Optional : Rest(f) \/ (Waiting(f) /\ MayWait(f)'),
         \A f \in Optional : f = at'["worker"] => AtWork(f)',
         pc["worker"] \notin {"link_prev", "link_next"},
         pc'["worker"] \in {"create", "link", "find_pad", "add_probe", "idle"}
  PROVE  Slots'
<1>1. \A f \in Optional : Rest(f)' \/ (Waiting(f)' /\ MayWait(f)')
  BY StillSame, Frame
<1>2. Skeleton'
  BY DEF Slots, Skeleton, flags, gst, Successor
<1>3. Neighbours'
  BY DEF Slots, Neighbours
<1>4. QED BY <1>1, <1>2, <1>3 DEF Slots, Slot

LEMMA StillStates ==
  ASSUME Sparse, TypeOK, TypeOK', UNCHANGED <<flags, gst>>, NEW f \in Optional
  PROVE  (Enabled(f) => Enabled(f)') /\ (Disabled(f) => Disabled(f)')
BY StillSame, Frame

Fits ==
  /\ pc["worker"] \in {"create", "find_pad", "idle"}
  /\ \A f \in Optional : f = at["worker"] => AtWork(f)

LEMMA SlotsReceive ==
  ASSUME Sparse, Overlap = FALSE, TypeOK, TypeOK', Slots, Receive
  PROVE  Slots'
<1>1. /\ pc["worker"] = "idle" /\ Settled
      /\ UNCHANGED <<flags, gst>> /\ UNCHANGED nb
  BY DEF Receive, CommandAllowed, EnableOptionalPipelineElement,
         DisableOptionalPipelineElement, EnableAllOptionalPipelineElements,
         DisableAllOptionalPipelineElements
<1>2. \A f \in Optional : Rest(f)
  BY <1>1 DEF Slots, Slot, Engaged, MayWait
<1>3. \A f \in Optional : /\ Enabled(f) \/ Disabled(f)
                          /\ Enabled(f) => Enabled(f)'
                          /\ Disabled(f) => Disabled(f)'
  BY <1>1, <1>2, AtRest, StillStates
<1>4. ASSUME NEW e \in Optional, EnableOptionalPipelineElement(e) PROVE Fits'
  <2>1. op' = "enable" /\ at'["worker"] = e
    BY <1>4, Other DEF EnableOptionalPipelineElement, Start
  <2>2. CASE initialized[e] /\ linked[e]
    <3>1. Enabled(e)
      BY <1>3, <2>2 DEF Disabled, Down
    <3>2. pc'["worker"] = "idle"
      BY <1>4, <2>2, Other DEF EnableOptionalPipelineElement, Finish, Goto
    <3>3. QED BY <1>3, <2>1, <3>1, <3>2 DEF Fits, AtWork
  <2>3. CASE ~(initialized[e] /\ linked[e])
    <3>1. Disabled(e)
      BY <1>3, <2>3 DEF Enabled, Up
    <3>2. pc'["worker"] = "create"
      BY <1>4, <2>3, Other DEF EnableOptionalPipelineElement, Start, Goto
    <3>3. QED BY <1>3, <2>1, <3>1, <3>2 DEF Fits, AtWork
  <2>4. QED BY <2>2, <2>3
<1>5. ASSUME NEW e \in Optional, DisableOptionalPipelineElement(e) PROVE Fits'
  <2>1. op' = "disable" /\ at'["worker"] = e
    BY <1>5, Other DEF DisableOptionalPipelineElement, Start
  <2>2. CASE ~initialized[e] /\ ~linked[e]
    <3>1. pc'["worker"] = "idle"
      BY <1>5, <2>2, Other DEF DisableOptionalPipelineElement, Finish, Goto
    <3>2. QED BY <2>1, <3>1 DEF Fits, AtWork
  <2>3. CASE ~(~initialized[e] /\ ~linked[e])
    <3>1. Enabled(e)
      BY <1>3, <2>3 DEF Disabled, Down
    <3>2. pc'["worker"] = "find_pad"
      BY <1>5, <2>3, Other DEF DisableOptionalPipelineElement, Start, Goto
    <3>3. QED BY <1>3, <2>1, <3>1, <3>2 DEF Fits, AtWork
  <2>4. QED BY <2>2, <2>3
<1>6. ASSUME EnableAllOptionalPipelineElements PROVE Fits'
  <2>1. op' = "enable_all" /\ pc'["worker"] = "create"
    BY <1>6, Other DEF EnableAllOptionalPipelineElements, Start, Goto
  <2>2. QED BY <2>1 DEF Fits, AtWork
<1>7. ASSUME DisableAllOptionalPipelineElements PROVE Fits'
  <2>1. op' = "disable_all" /\ pc'["worker"] = "find_pad"
    BY <1>7, Other DEF DisableAllOptionalPipelineElements, Start, Goto
  <2>2. QED BY <2>1 DEF Fits, AtWork
<1>8. Fits'
  BY <1>4, <1>5, <1>6, <1>7 DEF Receive
<1>9. pc'["worker"] \in {"create", "find_pad", "idle"}
  BY <1>8 DEF Fits
<1>10. \A f \in Optional : f = at'["worker"] => AtWork(f)'
  BY <1>8 DEF Fits
<1>11. QED BY <1>1, <1>2, <1>9, <1>10, StillSlots

-----------------------------------------------------------------------------
(* The worker *)

LEMMA NextElement ==
  ASSUME TypeOK, NEW again, NEW next, WorkerNext(again, next)
  PROVE  /\ at["worker"] < N => pc'["worker"] = again /\ at'["worker"] = at["worker"] + 1
         /\ ~(at["worker"] < N) => pc'["worker"] = next /\ at'["worker"] = 1
BY Other DEF WorkerNext, Finish, Goto

LEMMA SlotsSkip ==
  ASSUME Sparse, PInv, TypeOK', Slots, WorkerSkip
  PROVE  Slots'
<1> DEFINE w == at["worker"]
<1>1. /\ pc["worker"] \in {"create", "link", "find_pad"} /\ ~Selected
      /\ UNCHANGED <<flags, gst>> /\ UNCHANGED nb /\ op' = op
      /\ WorkerNext(pc["worker"], IF pc["worker"] = "create" THEN "link" ELSE "idle")
      /\ TypeOK /\ (pc["worker"] = "link" => op \in {"enable", "enable_all"})
  BY DEF WorkerSkip, PInv, IInv, OneAtATime, Enabling
<1>2. op \in {"enable_all", "disable_all"}
  BY <1>1 DEF Selected, TypeOK
<1>3. w \in 1 .. N /\ Optional \subseteq 1 .. N /\ N \in Nat
  BY <1>1, Other, PipelineAssumption DEF Elem
<1>4. /\ w < N => pc'["worker"] = pc["worker"] /\ at'["worker"] = w + 1
      /\ ~(w < N) => /\ at'["worker"] = 1
                     /\ pc'["worker"] = IF pc["worker"] = "create" THEN "link" ELSE "idle"
  BY <1>1, NextElement
<1>5. ASSUME NEW f \in Optional
      PROVE  Rest(f) \/ (Waiting(f) /\ MayWait(f)')
  <2>1. ~Engaged(f)
    BY <1>1 DEF Engaged
  <2>2. CASE Waiting(f) /\ MayWait(f)
    <3>1. CASE pc["worker"] = "create"
      <4>1. op = "enable_all" /\ f < w
        BY <2>2, <3>1 DEF MayWait
      <4>2. CASE w < N
        BY <1>1, <1>3, <1>4, <2>2, <3>1, <4>1, <4>2 DEF MayWait
      <4>3. CASE ~(w < N)
        BY <1>1, <1>3, <1>4, <2>2, <3>1, <4>1, <4>3 DEF MayWait
      <4>4. QED BY <4>2, <4>3
    <3>2. CASE pc["worker"] = "link"
      <4>1. op = "enable_all" /\ (f = w \/ f > w)
        <5>1. f = w \/ (op = "enable_all" /\ f > w)
          BY <2>2, <3>2 DEF MayWait
        <5>2. f # w \/ op = "enable_all"
          BY <1>1, <1>2, <3>2, <2>2 DEF Selected
        <5>3. QED BY <5>1, <5>2
      <4>2. f # w
        BY <1>1, <2>2, <3>2, <4>1 DEF Selected, Waiting, Mid, TypeOK
      <4>3. w < N /\ w + 1 <= f
        BY <1>3, <4>1, <4>2
      <4>4. QED BY <1>1, <1>3, <1>4, <2>2, <3>2, <4>1, <4>3 DEF MayWait
    <3>3. QED BY <1>1, <2>2, <3>1, <3>2 DEF MayWait
  <2>3. QED BY <2>1, <2>2 DEF Slots, Slot
<1>6. \A f \in Optional : f = at'["worker"] => AtWork(f)'
  BY <1>1, <1>2, <1>4 DEF AtWork
<1>7. pc'["worker"] \in {"create", "link", "find_pad", "idle"}
  BY <1>1, <1>4
<1>8. QED BY <1>1, <1>5, <1>6, <1>7, StillSlots

\* The worker's element is created, and waits to be linked.
LEMMA SlotsCreate ==
  ASSUME Sparse, PInv, TypeOK', Slots, WorkerCreate
  PROVE  Slots'
<1>e. PICK e : e = at["worker"]
  OBVIOUS
<1> USE <1>e
<1>1. /\ TypeOK /\ Settled /\ op \in {"enable", "enable_all"} /\ pc["worker"] = "create"
      /\ Selected /\ UNCHANGED <<linked, peer, probes, calls, nb, op, pad>>
  BY DEF PInv, IInv, OneAtATime, Enabling, WorkerCreate
<1>2. e \in Optional /\ e \in Elem
  BY <1>1, Other DEF Selected, PInv, OptionalLeave
<1>3. Disabled(e)
  <2>1. CASE op = "enable"
    BY <1>1, <1>2, <2>1 DEF Slots, Slot, AtWork
  <2>2. CASE op = "enable_all"
    <3>1. ~linked[e] /\ ~initialized[e]
      BY <1>1, <2>2 DEF Selected
    <3>2. Rest(e)
      BY <1>1, <1>2, <3>1 DEF Slots, Slot, Engaged, Waiting, Mid
    <3>3. QED BY <1>1, <1>2, <3>1, <3>2, AtRest DEF Enabled, Up
  <2>3. QED BY <1>1, <2>1, <2>2
<1>4. /\ bin' = bin \cup {e} /\ initialized' = [initialized EXCEPT ![e] = TRUE]
      /\ IF op = "enable" THEN Goto("worker", "link") /\ UNCHANGED <<at, reply>>
         ELSE WorkerNext("create", "link")
  <2>1. e \notin bin /\ e \notin Unavailable
    BY <1>3 DEF Disabled, Outside, Sparse
  <2>2. QED BY <2>1 DEF WorkerCreate, CreateGstElement
<1>5. Elsewhere(e)
  BY <1>1, <1>2, <1>4 DEF Elsewhere, TypeOK
<1>6. Waiting(e)'
  <2>1. ~Leaving(e)'
    BY <1>1, <1>3 DEF Disabled, Leaving
  <2>2. e \in bin' /\ initialized'[e]
    BY <1>1, <1>2, <1>4 DEF TypeOK
  <2>3. Fresh(e)' /\ Mid(e)'
    BY <1>1, <1>3, <2>2 DEF Disabled, Outside, Down, Fresh, Mid
  <2>4. QED BY <2>1, <2>3 DEF Waiting
<1>7. /\ MayWait(e)' /\ \A f \in Optional \ {e} : MayWait(f) => MayWait(f)'
      /\ \/ at'["worker"] = e
         \/ op' \notin {"enable", "disable"} /\ pc'["worker"] = "create"
      /\ pc'["worker"] = (IF op = "enable" THEN "link" ELSE "create") /\ op' = op
  <2>1. CASE op = "enable"
    <3>1. pc'["worker"] = "link" /\ at' = at /\ op' = op
      BY <1>1, <1>4, <2>1, Other DEF Goto
    <3>2. QED BY <1>1, <2>1, <3>1 DEF MayWait
  <2>2. CASE op = "enable_all"
    <3>1. e < N /\ e \in Nat /\ \A f \in Optional : f \in Nat
      BY <1>2, PipelineAssumption DEF Sparse, Elem
    <3>2. pc'["worker"] = "create" /\ at'["worker"] = e + 1 /\ op' = op
      BY <1>1, <1>4, <2>2, <3>1, NextElement
    <3>3. QED BY <1>1, <2>2, <3>1, <3>2 DEF MayWait
  <2>3. QED BY <1>1, <2>1, <2>2
<1>8. Skeleton' /\ \A f \in Optional \ {e} : Slot(f)'
  BY <1>1, <1>2, <1>5, <1>7, WorkerOthers
<1>9. Slot(e)'
  BY <1>1, <1>6, <1>7 DEF Slot, AtWork
<1>10. Neighbours'
  BY <1>1, <1>7 DEF Slots, Neighbours
<1>11. QED BY <1>7, <1>8, <1>9, <1>10 DEF Slots

\* linkGstElement opens the link between its neighbours,
LEMMA SlotsLink ==
  ASSUME Sparse, PInv, TypeOK', Slots, WorkerLink
  PROVE  Slots'
<1>e. PICK e : e = at["worker"]
  OBVIOUS
<1> USE <1>e
<1>1. /\ TypeOK /\ Settled /\ op \in {"enable", "enable_all"} /\ pc["worker"] = "link"
      /\ Selected /\ LinkGstElement("worker")
      /\ UNCHANGED <<initialized, bin, probes, calls, at, op, pad, reply>>
  BY DEF PInv, IInv, OneAtATime, Enabling, WorkerLink
<1>2. e \in Optional /\ e \in Elem /\ e - 1 \in Elem /\ e + 1 \in Elem /\ e - 1 # e
  BY <1>1, Other, Around DEF Selected, PInv, OptionalLeave
<1>3. Waiting(e)
  <2>1. CASE op = "enable"
    BY <1>1, <1>2, <2>1 DEF Slots, Slot, AtWork
  <2>2. CASE op = "enable_all"
    <3>1. ~linked[e] /\ initialized[e]
      BY <1>1, <2>2 DEF Selected
    <3>2. QED BY <1>1, <1>2, <3>1
              DEF Slots, Slot, Engaged, Rest, Enabled, Up, Disabled, Disowned, Down
  <2>3. QED BY <1>1, <2>1, <2>2
<1>4. UnlinkNeighbours("worker", e - 1, e + 1)
  <2>1. PICK next, prev \in Elem \cup {NoElem} :
          /\ IsNextEnabled(e, next) /\ IsPreviousEnabled(e, prev)
          /\ IF next # NoElem /\ ~linked[next] THEN LinkToNext("worker", next)
             ELSE IF next # NoElem /\ prev # NoElem THEN UnlinkNeighbours("worker", prev, next)
             ELSE NothingToLink("worker")
    BY <1>1 DEF LinkGstElement
  <2>2. \A i \in Elem : i \in Nat
    BY ElemFacts
  <2>3. next = e + 1
    <3>1. initialized[e + 1]
      BY <1>2, Neighbourhood
    <3>2. e < e + 1 /\ \A i \in Elem : ~(e < i /\ i < e + 1)
      BY <1>2, <2>2
    <3>3. next \in Elem /\ next > e /\ initialized[next]
      BY <1>2, <2>1, <3>1, <3>2 DEF IsNextEnabled
    <3>4. ~(e + 1 < next)
      BY <1>2, <2>1, <3>1, <3>2, <3>3, ElemFacts DEF IsNextEnabled
    <3>5. QED BY <1>2, <2>2, <3>3, <3>4
  <2>4. prev = e - 1
    <3>1. initialized[e - 1]
      BY <1>2, Neighbourhood
    <3>2. e - 1 < e /\ \A i \in Elem : ~(e - 1 < i /\ i < e)
      BY <1>2, <2>2
    <3>3. prev \in Elem /\ prev < e /\ initialized[prev]
      BY <1>2, <2>1, <3>1, <3>2 DEF IsPreviousEnabled
    <3>4. ~(prev < e - 1)
      BY <1>2, <2>1, <3>1, <3>2, <3>3, ElemFacts DEF IsPreviousEnabled
    <3>5. QED BY <1>2, <2>2, <3>3, <3>4
  <2>5. linked[e + 1] /\ e + 1 # NoElem /\ e - 1 # NoElem
    BY <1>2, Neighbourhood, Around
  <2>6. QED BY <2>1, <2>3, <2>4, <2>5
<1>5. /\ peer' = [peer EXCEPT ![e - 1] = NoElem] /\ linked' = linked
      /\ nb' = [nb EXCEPT !["worker"] = [prev |-> e - 1, next |-> e + 1]]
      /\ pc'["worker"] = "link_prev"
  BY <1>1, <1>3, <1>4, Other DEF UnlinkNeighbours, Goto, Waiting, Fresh
<1>6. Elsewhere(e)
  BY <1>1, <1>2, <1>5 DEF Elsewhere, TypeOK
<1>7. Opened(e)'
  <2>1. ~Leaving(e)' /\ Mid(e)'
    BY <1>1, <1>3, <1>5 DEF Waiting, Leaving, Mid
  <2>2. peer'[e - 1] = NoElem /\ peer'[e] = NoElem
    BY <1>1, <1>2, <1>3, <1>5 DEF Waiting, Fresh, TypeOK
  <2>3. QED BY <1>1, <1>3, <2>1, <2>2 DEF Waiting, Fresh, Opened, Open
<1>8. \A f \in Optional \ {e} : MayWait(f) => MayWait(f)'
  BY <1>1, <1>5 DEF MayWait
<1>9. Skeleton' /\ \A f \in Optional \ {e} : Slot(f)'
  BY <1>1, <1>2, <1>6, <1>8, WorkerOthers
<1>10. Slot(e)'
  BY <1>1, <1>5, <1>7 DEF Slot, AtWork, Engaged
<1>11. Neighbours'
  BY <1>1, <1>5 DEF Neighbours, TypeOK, Thread
<1>12. QED BY <1>1, <1>2, <1>5, <1>9, <1>10, <1>11 DEF Slots

\* links it to the one before
LEMMA SlotsLinkPrevious ==
  ASSUME Sparse, PInv, TypeOK', Slots, LinkPrevious("worker")
  PROVE  Slots'
<1>e. PICK e : e = at["worker"]
  OBVIOUS
<1> USE <1>e
<1>1. /\ TypeOK /\ Settled /\ pc["worker"] = "link_prev"
      /\ UNCHANGED <<flags, bin, probes, calls, at, op, pad, reply>>
  BY DEF PInv, IInv, OneAtATime, Enabling, LinkPrevious
<1>2. e \in Optional /\ e \in Elem /\ e - 1 \in Elem /\ e + 1 \in Elem /\ e - 1 # e
  BY <1>1, Around DEF Slots
<1>3. /\ Opened(e) /\ nb["worker"] = [prev |-> e - 1, next |-> e + 1]
  BY <1>1, <1>2 DEF Slots, Slot, AtWork, Neighbours
<1>4. Linkable(e - 1, e)
  <2>1. peer[e - 1] = NoElem /\ e \in bin
    BY <1>3 DEF Opened, Open
  <2>2. \A x \in Elem : peer[x] # e
    BY <1>2, <2>1, Free, ElemFacts
  <2>3. QED BY <1>2, <2>1, <2>2, Neighbourhood DEF Linkable
<1>5. peer' = [peer EXCEPT ![e - 1] = e] /\ pc'["worker"] = "link_next" /\ nb' = nb
  BY <1>1, <1>3, <1>4, Other DEF LinkPrevious, Goto
<1>6. Elsewhere(e)
  BY <1>1, <1>2, <1>5 DEF Elsewhere, TypeOK, flags
<1>7. Joined(e)'
  <2>1. ~Leaving(e)' /\ Mid(e)'
    BY <1>1, <1>3 DEF Opened, Leaving, Mid, flags
  <2>2. peer'[e - 1] = e /\ peer'[e] = NoElem
    BY <1>1, <1>2, <1>3, <1>5 DEF Opened, Open, TypeOK
  <2>3. QED BY <1>1, <1>3, <2>1, <2>2 DEF Opened, Open, Joined, Half
<1>8. \A f \in Optional \ {e} : MayWait(f) => MayWait(f)'
  BY <1>1, <1>5 DEF MayWait
<1>9. Skeleton' /\ \A f \in Optional \ {e} : Slot(f)'
  BY <1>1, <1>2, <1>6, <1>8, WorkerOthers
<1>10. Slot(e)'
  BY <1>1, <1>5, <1>7 DEF Slot, AtWork, Engaged
<1>11. Neighbours'
  BY <1>1, <1>3, <1>5 DEF Neighbours
<1>12. QED BY <1>1, <1>2, <1>5, <1>9, <1>10, <1>11 DEF Slots

\* and to the one after it: it is in the stream.
LEMMA SlotsLinkFollowing ==
  ASSUME Sparse, PInv, TypeOK', Slots, LinkFollowing("worker")
  PROVE  Slots'
<1>e. PICK e : e = at["worker"]
  OBVIOUS
<1> USE <1>e
<1>1. /\ TypeOK /\ Settled /\ pc["worker"] = "link_next"
      /\ UNCHANGED <<initialized, bin, probes, calls, at, op, pad, reply>>
  BY DEF PInv, IInv, OneAtATime, Enabling, LinkFollowing
<1>2. e \in Optional /\ e \in Elem /\ e - 1 \in Elem /\ e + 1 \in Elem /\ e - 1 # e
  BY <1>1, Around DEF Slots
<1>3. /\ Joined(e) /\ nb["worker"] = [prev |-> e - 1, next |-> e + 1]
  BY <1>1, <1>2 DEF Slots, Slot, AtWork, Neighbours
<1>4. Linkable(e, e + 1)
  <2>1. peer[e - 1] = e /\ peer[e] = NoElem /\ e \in bin
    BY <1>3 DEF Joined, Half
  <2>2. \A x \in Elem : peer[x] # e + 1
    BY <1>2, <2>1, Free, Around
  <2>3. QED BY <1>2, <2>1, <2>2, Neighbourhood DEF Linkable
<1>5. /\ peer' = [peer EXCEPT ![e] = e + 1] /\ linked' = [linked EXCEPT ![e] = TRUE]
      /\ pc'["worker"] = "link_ok" /\ nb' = [nb EXCEPT !["worker"] = Nobody]
  BY <1>1, <1>3, <1>4, Other DEF LinkFollowing, Return, Goto
<1>6. Elsewhere(e)
  BY <1>1, <1>2, <1>5 DEF Elsewhere, TypeOK
<1>7. Enabled(e)'
  <2>1. ~Leaving(e)'
    BY <1>1, <1>3 DEF Joined, Leaving
  <2>2. peer'[e - 1] = e /\ peer'[e] = e + 1
    BY <1>1, <1>2, <1>3, <1>5 DEF Joined, Half, TypeOK
  <2>3. initialized'[e] /\ linked'[e]
    BY <1>1, <1>2, <1>3, <1>5 DEF Joined, Mid, TypeOK
  <2>4. QED BY <1>1, <1>3, <2>1, <2>2, <2>3 DEF Joined, Half, Enabled, Inside, Up
<1>8. \A f \in Optional \ {e} : MayWait(f) => MayWait(f)'
  BY <1>1, <1>5 DEF MayWait
<1>9. Skeleton' /\ \A f \in Optional \ {e} : Slot(f)'
  BY <1>1, <1>2, <1>6, <1>8, WorkerOthers
<1>10. Slot(e)'
  BY <1>1, <1>5, <1>7 DEF Slot, AtWork, Rest
<1>11. Neighbours'
  BY <1>1, <1>5 DEF Neighbours, TypeOK, Thread
<1>12. QED BY <1>1, <1>2, <1>5, <1>9, <1>10, <1>11 DEF Slots

LEMMA SlotsLinked ==
  ASSUME Sparse, PInv, TypeOK', Slots, WorkerLinked
  PROVE  Slots'
<1>e. PICK e : e = at["worker"]
  OBVIOUS
<1> USE <1>e
<1>1. /\ TypeOK /\ pc["worker"] = "link_ok" /\ op \in {"enable", "enable_all"}
      /\ UNCHANGED <<flags, gst>> /\ UNCHANGED nb /\ op' = op
  BY DEF PInv, IInv, OneAtATime, Enabling, WorkerLinked, Slots
<1>2. e \in Optional /\ e \in Nat /\ N \in Nat /\ e < N /\ Optional \subseteq Nat
  BY <1>1, ElemFacts, PipelineAssumption DEF Slots, Sparse
<1>3. Enabled(e) /\ Enabled(e)'
  BY <1>1, <1>2, StillStates DEF Slots, Slot, AtWork
<1>4. \/ op = "enable" /\ pc'["worker"] = "idle" /\ at'["worker"] = e
      \/ op = "enable_all" /\ pc'["worker"] = "link" /\ at'["worker"] = e + 1
  <2>1. CASE op = "enable"
    BY <1>1, <2>1, Other DEF WorkerLinked, Finish, Goto
  <2>2. CASE op = "enable_all"
    BY <1>1, <1>2, <2>2, NextElement DEF WorkerLinked
  <2>3. QED BY <1>1, <2>1, <2>2
<1>5. ASSUME NEW f \in Optional
      PROVE  Rest(f) \/ (Waiting(f) /\ MayWait(f)')
  <2>1. CASE f = e
    BY <1>3, <2>1 DEF Rest
  <2>2. CASE f # e
    <3>1. Rest(f) \/ (Waiting(f) /\ MayWait(f))
      BY <1>1, <2>2 DEF Slots, Slot, Engaged
    <3>2. CASE MayWait(f)
      <4>1. op = "enable_all" /\ f > e /\ f \in Nat
        BY <1>1, <1>2, <3>2 DEF MayWait
      <4>2. f = e + 1 \/ f > e + 1
        BY <1>2, <4>1
      <4>3. MayWait(f)'
        BY <1>1, <1>4, <4>1, <4>2 DEF MayWait
      <4>4. QED BY <3>1, <4>3
    <3>3. QED BY <3>1, <3>2
  <2>3. QED BY <2>1, <2>2
<1>6. \A f \in Optional : f = at'["worker"] => AtWork(f)'
  BY <1>1, <1>3, <1>4 DEF AtWork
<1>7. QED BY <1>1, <1>4, <1>5, <1>6, StillSlots

\* disableOptionalElement finds the element's own upstream,
LEMMA SlotsFindPad ==
  ASSUME Sparse, PInv, TypeOK', Slots, WorkerFindPad
  PROVE  Slots'
<1>e. PICK e : e = at["worker"]
  OBVIOUS
<1> USE <1>e
<1>1. /\ TypeOK /\ LinksForward /\ pc["worker"] = "find_pad" /\ Selected
      /\ op \in {"disable", "disable_all"}
      /\ UNCHANGED <<flags, gst>> /\ UNCHANGED <<nb, op>>
  BY DEF PInv, IInv, OneAtATime, Disabling, WorkerFindPad
<1>2. e \in Optional /\ e \in Elem /\ e - 1 \in Elem
  BY <1>1, Other, Around DEF Selected, PInv, OptionalLeave
<1>3. \A f \in Optional : Rest(f)
  BY <1>1 DEF Slots, Slot, Engaged, MayWait
<1>4. Enabled(e)
  <2>1. CASE op = "disable"
    BY <1>1, <1>2, <2>1 DEF Slots, Slot, AtWork
  <2>2. CASE op = "disable_all"
    BY <1>1, <1>2, <1>3, <2>2 DEF Selected, Rest, Disabled, Disowned, Down
  <2>3. QED BY <1>1, <2>1, <2>2
<1>5. /\ pad' = e - 1 /\ pc'["worker"] = "add_probe" /\ at' = at
  <2>1. peer[e - 1] = e
    BY <1>4 DEF Enabled, Inside
  <2>2. /\ \E a \in Elem : peer[a] = e /\ pad' = a
        /\ Goto("worker", "add_probe") /\ UNCHANGED <<at, reply>>
    BY <1>2, <2>1 DEF WorkerFindPad, Sparse
  <2>3. pad' = e - 1
    BY <1>1, <1>2, <2>1, <2>2, Forward1
  <2>4. QED BY <1>1, <2>2, <2>3, Other DEF Goto
<1>6. Enabled(e)'
  BY <1>1, <1>2, <1>4, StillStates
<1>7. \A f \in Optional : f = at'["worker"] => AtWork(f)'
  BY <1>5, <1>6 DEF AtWork
<1>8. QED BY <1>1, <1>3, <1>5, <1>7, StillSlots

\* whose probe is called at once, or is pending when the flags are cleared.
LEMMA SlotsAddProbe ==
  ASSUME Sparse, PInv, TypeOK', Slots, WorkerAddProbe
  PROVE  Slots'
<1>e. PICK e : e = at["worker"]
  OBVIOUS
<1> USE <1>e
<1>1. /\ TypeOK /\ pc["worker"] = "add_probe" /\ UNCHANGED <<flags, at, nb, op, pad, reply>>
  BY DEF PInv, IInv, WorkerAddProbe
<1>2. e \in Optional /\ e \in Elem
  BY <1>1, Other DEF PInv, OptionalLeave
<1>3. Enabled(e) /\ pad = e - 1
  BY <1>1, <1>2 DEF Slots, Slot, AtWork
<1>4. /\ e - 1 \in Elem /\ e + 1 \in Elem /\ e - 1 # e /\ e # N
      /\ e # NoElem /\ e + 1 # NoElem
  BY <1>2, Around
<1> DEFINE c == [pad |-> e - 1, elem |-> e, down |-> e + 1]
<1>c. c \in CallRec /\ c.elem = e
  BY <1>2, <1>4 DEF CallRec
<1>5. \/ /\ probes' = [probes EXCEPT ![e - 1][e] = @ + 1] /\ UNCHANGED <<bin, peer, calls>>
         /\ pc'["worker"] = "clear_flags"
      \/ /\ peer' = [peer EXCEPT ![e - 1] = NoElem, ![e] = NoElem]
         /\ calls' = calls \cup {c} /\ UNCHANGED <<bin, probes>>
         /\ pc'["worker"] = "callback"
  <2>1. CASE /\ probes' = [probes EXCEPT ![pad][at["worker"]] = @ + 1]
             /\ Goto("worker", "clear_flags") /\ UNCHANGED <<bin, peer, calls>>
    BY <1>1, <1>3, <2>1, Other DEF Goto
  <2>2. CASE /\ CallbackUnlink(pad) /\ UNCHANGED probes
             /\ Goto("worker", IF calls' = calls THEN "clear_flags" ELSE "callback")
    <3>1. peer[e - 1] = e /\ peer[e] = e + 1 /\ c \notin calls
      BY <1>c, <1>3 DEF Enabled, Inside, Leaving
    <3>2. /\ peer' = [peer EXCEPT ![e - 1] = NoElem, ![e] = NoElem]
          /\ calls' = calls \cup {c} /\ UNCHANGED bin
      BY <1>3, <1>4, <2>2, <3>1 DEF CallbackUnlink
    <3>3. calls' # calls
      BY <3>1, <3>2
    <3>4. QED BY <1>1, <2>2, <3>2, <3>3, Other DEF Goto
  <2>3. QED BY <2>1, <2>2 DEF WorkerAddProbe
<1>6. Elsewhere(e)
  <2>1. \A d \in CallRec : d.elem # e => (d \in calls' <=> d \in calls)
    BY <1>c, <1>5
  <2> HIDE DEF c
  <2>a. probes' = probes \/ probes' = [probes EXCEPT ![e - 1][e] = @ + 1]
    BY <1>5
  <2>2. \A x \in Elem \ {e} : \A a \in Elem : probes'[a][x] = probes[a][x]
    BY <1>1, <1>2, <1>4, <2>a DEF TypeOK
  <2>3. \A x \in Elem \ {e - 1, e} : peer'[x] = peer[x]
    BY <1>1, <1>2, <1>4, <1>5 DEF TypeOK
  <2>4. QED BY <1>1, <1>5, <2>1, <2>2, <2>3 DEF Elsewhere, flags
<1>7. Up(e)'
  BY <1>1, <1>3 DEF Enabled, Up, flags
<1>8. \/ pc'["worker"] = "clear_flags" /\ Pending(e)'
      \/ pc'["worker"] = "callback" /\ Cut(e)'
  <2>1. CASE /\ probes' = [probes EXCEPT ![e - 1][e] = @ + 1] /\ UNCHANGED <<bin, peer, calls>>
             /\ pc'["worker"] = "clear_flags"
    <3>1. probes'[e - 1][e] > 0
      BY <1>1, <1>2, <1>4, <2>1 DEF TypeOK
    <3>2. Inside(e)'
      BY <1>3, <2>1 DEF Enabled, Inside
    <3>3. QED BY <2>1, <3>1, <3>2 DEF Pending
  <2>2. CASE /\ peer' = [peer EXCEPT ![e - 1] = NoElem, ![e] = NoElem]
             /\ calls' = calls \cup {c} /\ UNCHANGED <<bin, probes>>
             /\ pc'["worker"] = "callback"
    <3>1. Open(e)'
      BY <1>1, <1>2, <1>3, <1>4, <2>2 DEF Enabled, Inside, Open, TypeOK
    <3>2. QED BY <2>2, <3>1 DEF Cut
  <2>3. QED BY <1>5, <2>1, <2>2
<1>9. \A f \in Optional \ {e} : MayWait(f) => MayWait(f)'
  BY <1>1 DEF MayWait
<1>10. Skeleton' /\ \A f \in Optional \ {e} : Slot(f)'
  BY <1>1, <1>2, <1>6, <1>9, WorkerOthers
<1>11. Slot(e)'
  BY <1>1, <1>3, <1>7, <1>8 DEF Slot, AtWork, Engaged, Removed
<1>12. Neighbours'
  BY <1>1, <1>8 DEF Slots, Neighbours
<1>13. QED BY <1>8, <1>10, <1>11, <1>12 DEF Slots

LEMMA SlotsClearFlags ==
  ASSUME Sparse, PInv, TypeOK', Slots, WorkerClearFlags
  PROVE  Slots'
<1>e. PICK e : e = at["worker"]
  OBVIOUS
<1> USE <1>e
<1>1. /\ TypeOK /\ pc["worker"] = "clear_flags" /\ op \in {"disable", "disable_all"}
      /\ UNCHANGED <<gst, nb, op, pad>>
      /\ initialized' = [initialized EXCEPT ![e] = FALSE]
      /\ linked' = [linked EXCEPT ![e] = FALSE]
  BY DEF PInv, IInv, OneAtATime, Disabling, WorkerClearFlags
<1>2. e \in Optional /\ e \in Elem /\ e < N
  BY <1>1, Other DEF PInv, OptionalLeave, Sparse
<1>3. Removed(e)
  BY <1>1, <1>2 DEF Slots, Slot, AtWork
<1>4. Elsewhere(e)
  BY <1>1, <1>2 DEF Elsewhere, TypeOK, gst
<1>5. Rest(e)'
  <2>1. Down(e)'
    BY <1>1, <1>2 DEF Down, TypeOK
  <2>2. /\ Pending(e)' <=> Pending(e)
        /\ Cut(e)' <=> Cut(e)
        /\ Outside(e)' <=> Outside(e)
        /\ Leaving(e)' <=> Leaving(e)
    BY <1>1 DEF gst, Pending, Inside, Cut, Open, Outside, Leaving
  <2>3. QED BY <1>3, <2>1, <2>2 DEF Rest, Disabled, Disowned, Removed
<1>6. \/ op = "disable" /\ pc'["worker"] = "idle" /\ at'["worker"] = e
      \/ op = "disable_all" /\ pc'["worker"] = "find_pad" /\ at'["worker"] = e + 1
  <2>1. CASE op = "disable"
    BY <1>1, <2>1, Other DEF WorkerClearFlags, Finish, Goto
  <2>2. CASE op = "disable_all"
    BY <1>1, <1>2, <2>2, NextElement DEF WorkerClearFlags
  <2>3. QED BY <1>1, <2>1, <2>2
<1>7. \A f \in Optional \ {e} : MayWait(f) => MayWait(f)'
  BY <1>1 DEF MayWait
<1>8. Skeleton' /\ \A f \in Optional \ {e} : Slot(f)'
  BY <1>1, <1>2, <1>4, <1>6, <1>7, WorkerOthers
<1>9. Slot(e)'
  BY <1>1, <1>5, <1>6 DEF Slot, AtWork
<1>10. Neighbours'
  BY <1>1, <1>6 DEF Slots, Neighbours
<1>11. QED BY <1>6, <1>8, <1>9, <1>10 DEF Slots

-----------------------------------------------------------------------------
(* The streaming threads *)

\* What is being taken out is the optional element and no other.
LEMMA LeavingSlot ==
  ASSUME Sparse, PInv, Slots, NEW e \in Elem, Leaving(e)
  PROVE  /\ e \in Optional /\ (Pending(e) \/ Cut(e))
         /\ \/ Down(e) /\ e # at["worker"]
            \/ Down(e) /\ pc["worker"] \notin {"callback", "clear_flags"}
            \/ Up(e) /\ e = at["worker"] /\ pc["worker"] \in {"callback", "clear_flags"}
         /\ e = at["worker"] => (pc["worker"] = "callback" => Cut(e) /\ pad = e - 1)
<1>1. e \in Optional
  BY DEF PInv, OptionalLeave
<1>2. ~Enabled(e) /\ ~Disabled(e) /\ ~Waiting(e) /\ ~Opened(e) /\ ~Joined(e)
  BY DEF Enabled, Disabled, Waiting, Opened, Joined
<1>3. CASE ~Engaged(e)
  BY <1>1, <1>2, <1>3 DEF Slots, Slot, Rest, Disowned, Engaged
<1>4. CASE Engaged(e)
  BY <1>1, <1>2, <1>4 DEF Slots, Slot, AtWork, Engaged, Removed
<1>5. QED BY <1>1, <1>3, <1>4

\* The element is still on its way out.
LEMMA StreamingOwn ==
  ASSUME Slots, NEW e \in Optional, UNCHANGED <<at, op, pad, reply, flags>>, Leaving(e),
         Down(e) \/ Up(e),
         \/ Down(e) /\ e # at["worker"]
         \/ Down(e) /\ pc["worker"] \notin {"callback", "clear_flags"}
         \/ Up(e) /\ e = at["worker"] /\ pc'["worker"] = "clear_flags",
         \/ pc' = pc
         \/ e = at["worker"] /\ pc["worker"] = "callback" /\ pc'["worker"] = "clear_flags",
         Cut(e)' \/ (Outside(e)' /\ ~Leaving(e)')
  PROVE  Slot(e)'
<1>1. (Down(e)' <=> Down(e)) /\ (Up(e)' <=> Up(e)) /\ ~(Up(e) /\ Down(e))
  BY DEF flags, Down, Up
<1>2. CASE Up(e)
  BY <1>1, <1>2 DEF Slot, Engaged, AtWork, Removed
<1>3. CASE Down(e)
  <2>1. Rest(e)'
    BY <1>1, <1>3 DEF Rest, Disowned, Disabled
  <2>2. ~Enabled(e) /\ ~Disabled(e) /\ ~Waiting(e) /\ ~Opened(e) /\ ~Joined(e) /\ ~Removed(e)
    BY <1>1, <1>3 DEF Enabled, Disabled, Waiting, Opened, Joined, Removed
  <2>3. e = at["worker"] => AtWork(e) /\ pc' = pc
    BY <1>1, <1>3 DEF Slots, Slot
  <2>4. e = at["worker"] => AtWork(e)'
    BY <1>1, <1>3, <2>2, <2>3 DEF AtWork
  <2>5. QED BY <2>1, <2>4 DEF Slot
<1>4. QED BY <1>2, <1>3

LEMMA SlotsFire ==
  ASSUME Sparse, PInv, TypeOK', Slots, NEW a \in Elem, NEW e \in Elem, FireProbe(a, e)
  PROVE  Slots'
<1>1. /\ TypeOK /\ probes[a][e] > 0 /\ Leaving(e) /\ CallbackUnlink(a)
      /\ probes' = [probes EXCEPT ![a][e] = @ - 1]
      /\ UNCHANGED <<flags, pc, at, nb, op, pad, reply>>
  BY DEF PInv, IInv, FireProbe, Leaving
<1>2. /\ probes[a][e] = 1 /\ ~BeingUnlinked(e)
      /\ \A x \in Elem : probes[x][e] > 0 => x = a
  BY <1>1 DEF PInv, Removals, ProbesApart
<1>3. ~Cut(e)
  BY <1>2 DEF Cut, BeingUnlinked
<1>4. e \in Optional /\ Pending(e)
  BY <1>1, <1>3, LeavingSlot
<1>5. /\ e - 1 \in Elem /\ e + 1 \in Elem /\ e - 1 # e /\ e # N
      /\ e # NoElem /\ e + 1 # NoElem
  BY <1>4, Around
<1>6. a = e - 1 /\ Inside(e)
  BY <1>2, <1>4, <1>5 DEF Pending
<1> DEFINE c == [pad |-> e - 1, elem |-> e, down |-> e + 1]
<1>c. c \in CallRec /\ c.elem = e
  BY <1>4, <1>5 DEF CallRec
<1>7. /\ peer' = [peer EXCEPT ![e - 1] = NoElem, ![e] = NoElem]
      /\ calls' = calls \cup {c} /\ UNCHANGED bin
  <2>1. peer[a] = e /\ peer[e] = e + 1
    BY <1>6 DEF Inside
  <2>2. QED BY <1>1, <1>5, <1>6, <2>1 DEF CallbackUnlink
<1>8. Elsewhere(e)
  <2>1. \A d \in CallRec : d.elem # e => (d \in calls' <=> d \in calls)
    BY <1>c, <1>7
  <2> HIDE DEF c
  <2>2. \A x \in Elem \ {e} : \A y \in Elem : probes'[y][x] = probes[y][x]
    BY <1>1 DEF TypeOK
  <2>3. \A x \in Elem \ {e - 1, e} : peer'[x] = peer[x]
    BY <1>1, <1>4, <1>5, <1>7 DEF TypeOK
  <2>4. QED BY <1>1, <1>7, <2>1, <2>2, <2>3 DEF Elsewhere, flags
<1>9. Cut(e)'
  <2>1. Open(e)'
    BY <1>1, <1>4, <1>5, <1>6, <1>7 DEF Inside, Open, TypeOK
  <2>2. QED BY <1>7, <2>1 DEF Cut
<1>10. Skeleton' /\ \A f \in Optional \ {e} : Slot(f)'
  BY <1>1, <1>4, <1>8, StreamingOthers
<1>11. Slot(e)'
  <2>1. \/ Down(e) /\ e # at["worker"]
        \/ Down(e) /\ pc["worker"] \notin {"callback", "clear_flags"}
        \/ Up(e) /\ e = at["worker"] /\ pc'["worker"] = "clear_flags"
    BY <1>1, <1>3, LeavingSlot
  <2>2. QED BY <1>1, <1>4, <1>9, <2>1, StreamingOwn
<1>12. Neighbours'
  BY <1>1 DEF Slots, Neighbours
<1>13. QED BY <1>1, <1>10, <1>11, <1>12 DEF Slots

LEMMA SlotsFinish ==
  ASSUME Sparse, PInv, TypeOK', Slots, NEW c \in calls, FinishCallback(c)
  PROVE  Slots'
<1>e. PICK e : e = c.elem
  OBVIOUS
<1>1. /\ TypeOK /\ c \in CallRec /\ e \in Elem /\ CallbackRelink(c)
      /\ pc' = (IF pc["worker"] = "callback" /\ c.pad = pad
                THEN [pc EXCEPT !["worker"] = "clear_flags"] ELSE pc)
      /\ UNCHANGED <<flags, at, nb, op, pad, reply>>
  BY <1>e DEF PInv, IInv, TypeOK, CallRec, FinishCallback
<1>2. Leaving(e) /\ BeingUnlinked(e)
  BY <1>e DEF Leaving, BeingUnlinked
<1>3. \A x \in Elem : probes[x][e] = 0
  <2>1. \A x \in Elem : probes[x][e] \in Nat /\ ~(probes[x][e] > 0)
    BY <1>1, <1>2 DEF PInv, Removals, ProbesApart, TypeOK
  <2>2. QED BY <2>1
<1>4. /\ e \in Optional /\ e - 1 \in Elem /\ e + 1 \in Elem /\ e - 1 # e /\ e + 1 # e
      /\ e - 1 # NoElem /\ e + 1 # NoElem /\ e # NoElem /\ e - 1 # e + 1
      /\ e + 1 \notin Optional
  BY <1>1, <1>2, LeavingSlot, Around
<1>5. Cut(e)
  <2>1. ~Pending(e)
    BY <1>3, <1>4 DEF Pending
  <2>2. QED BY <1>1, <1>2, <2>1, LeavingSlot
<1>6. c = [pad |-> e - 1, elem |-> e, down |-> e + 1]
  BY <1>e, <1>5 DEF Cut, PInv, Removals, CallsApart
<1>7. Linkable(e - 1, e + 1)
  <2>1. peer[e - 1] = NoElem /\ peer[e] = NoElem
    BY <1>5 DEF Cut, Open
  <2>2. \A x \in Elem : peer[x] # e + 1
    BY <1>4, <2>1, Free
  <2>3. QED BY <1>4, <2>1, <2>2, Neighbourhood DEF Linkable
<1>8. /\ peer' = RemovedFromBin([peer EXCEPT ![e - 1] = e + 1], e)
      /\ bin' = bin \ {e} /\ probes' = [probes EXCEPT ![e] = NoProbe]
      /\ calls' = calls \ {c}
  BY <1>1, <1>6, <1>7 DEF CallbackRelink
<1>9. /\ peer'[e - 1] = e + 1 /\ peer'[e] = NoElem
      /\ \A x \in Elem \ {e - 1, e} : peer'[x] = peer[x]
  <2>1. \A x \in Elem : peer[x] # e
    BY <1>2 DEF PInv, Removals, CallsApart, BeingUnlinked
  <2> DEFINE q == [peer EXCEPT ![e - 1] = e + 1]
  <2>2. q[e - 1] = e + 1 /\ \A x \in Elem \ {e - 1} : q[x] = peer[x]
    BY <1>1, <1>4 DEF TypeOK
  <2>3. \A x \in Elem : peer'[x] = IF x = e \/ q[x] = e THEN NoElem ELSE q[x]
    BY <1>8 DEF RemovedFromBin
  <2> HIDE DEF q
  <2>4. QED BY <1>1, <1>4, <2>1, <2>2, <2>3
<1>10. \A x, y \in Elem : probes'[y][x] = probes[y][x]
  <2>1. ASSUME NEW x \in Elem PROVE probes[e][x] = 0
    <3>1. probes[e][x] \in Nat
      BY <1>1 DEF TypeOK
    <3>2. CASE probes[e][x] > 0
      <4>1. x \in Optional /\ (Pending(x) \/ Cut(x))
        BY <1>1, <3>2, LeavingSlot DEF Leaving
      <4>2. ~Cut(x)
        BY <1>1, <3>2 DEF PInv, Removals, ProbesApart, Cut, BeingUnlinked
      <4>3. probes[x - 1][x] > 0 /\ x - 1 \in Elem /\ x - 1 # e
        BY <1>4, <4>1, <4>2, Around DEF Pending
      <4>4. QED BY <1>1, <3>2, <4>3 DEF PInv, Removals, ProbesApart
    <3>3. QED BY <3>1, <3>2
  <2>2. QED BY <1>1, <1>8, <2>1 DEF TypeOK, NoProbe
<1>11. Elsewhere(e)
  <2>1. \A d \in CallRec : d.elem # e => (d \in calls' <=> d \in calls)
    BY <1>e, <1>8
  <2>2. QED BY <1>1, <1>8, <1>9, <1>10, <2>1 DEF Elsewhere, flags
<1>12. Outside(e)' /\ ~Leaving(e)'
  <2>1. \A d \in calls' : d.elem # e
    BY <1>e, <1>8 DEF PInv, Removals, CallsApart
  <2>2. \A x \in Elem : ~(probes'[x][e] > 0)
    BY <1>1, <1>3, <1>10
  <2>3. QED BY <1>8, <1>9, <2>1, <2>2 DEF Outside, Leaving
<1>13. /\ \/ pc' = pc
          \/ e = at["worker"] /\ pc["worker"] = "callback" /\ pc'["worker"] = "clear_flags"
       /\ e = at["worker"] /\ pc["worker"] = "callback" => pc'["worker"] = "clear_flags"
  <2>1. CASE pc["worker"] = "callback" /\ c.pad = pad
    <3>1. pc'["worker"] = "clear_flags"
      BY <1>1, <2>1, Other
    <3>2. at["worker"] \in Optional /\ pad = at["worker"] - 1
      BY <2>1 DEF Slots, Slot, AtWork, PInv, OptionalLeave
    <3>3. e = at["worker"]
      BY <1>4, <1>6, <2>1, <3>2, Apart
    <3>4. QED BY <2>1, <3>1, <3>3
  <2>2. CASE pc["worker"] = "callback" /\ c.pad # pad
    <3>1. e # at["worker"]
      BY <1>1, <1>2, <1>6, <2>2, LeavingSlot
    <3>2. QED BY <1>1, <2>2, <3>1
  <2>3. CASE pc["worker"] # "callback"
    BY <1>1, <2>3
  <2>4. QED BY <2>1, <2>2, <2>3
<1>14. Skeleton' /\ \A f \in Optional \ {e} : Slot(f)'
  BY <1>1, <1>4, <1>11, <1>13, StreamingOthers
<1>15. Slot(e)'
  <2>1. \/ Down(e) /\ e # at["worker"]
        \/ Down(e) /\ pc["worker"] \notin {"callback", "clear_flags"}
        \/ Up(e) /\ e = at["worker"] /\ pc'["worker"] = "clear_flags"
    BY <1>1, <1>2, <1>13, LeavingSlot
  <2>2. QED BY <1>1, <1>2, <1>4, <1>12, <1>13, <2>1, StreamingOwn
<1>16. Neighbours' /\ pc'["worker"] \notin {"link_failed", "terminated"}
  BY <1>1, <1>13 DEF Slots, Neighbours
<1>17. pc'["worker"] \in {"link_prev", "link_next", "link_ok"} => at'["worker"] \in Optional
  BY <1>1, <1>13 DEF Slots
<1>18. QED BY <1>14, <1>15, <1>16, <1>17 DEF Slots

-----------------------------------------------------------------------------
(* play() *)

LEMMA SparseSuccessor ==
  ASSUME Sparse, NEW k \in Elem, k \notin Optional, k # N
  PROVE  /\ Successor(k) \in Elem /\ Successor(k) \notin Optional /\ k < Successor(k)
         /\ \A i \in Elem : k < i /\ i < Successor(k) => i \in Optional
         /\ <<k, Successor(k)>> \notin Incompatible
         /\ \A x \in Elem : x \notin Optional /\ x # N /\ x < k => Successor(x) # Successor(k)
<1>1. \A i \in Elem : i \in Nat /\ 1 <= i /\ i <= N
  BY PipelineAssumption DEF Elem
<1>2. k < N /\ k + 1 \in Elem /\ k \in Nat /\ N \in Nat
  BY <1>1, ElemFacts, PipelineAssumption
<1>3. \A i \in Optional : i \in Elem /\ i < N /\ i + 1 \notin Optional
  BY PipelineAssumption DEF Sparse
<1>4. CASE k + 1 \in Optional
  <2>1. Successor(k) = k + 2 /\ k + 2 = (k + 1) + 1
    BY <1>2, <1>4 DEF Successor
  <2>2. k + 2 \in Elem /\ k + 2 \notin Optional
    BY <1>3, <1>4, <2>1, ElemFacts
  <2>3. \A i \in Elem : k < i /\ i < k + 2 => i = k + 1
    BY <1>1, <1>2
  <2>4. <<k, k + 2>> \notin Incompatible
    BY <1>4, <2>2 DEF Sparse
  <2>5. \A x \in Elem : x < k => x + 1 # k + 2 /\ x + 2 # k + 2
    BY <1>1, <1>2
  <2>6. QED BY <1>1, <1>2, <1>4, <2>1, <2>2, <2>3, <2>4, <2>5 DEF Successor
<1>5. CASE k + 1 \notin Optional
  <2>1. Successor(k) = k + 1
    BY <1>2, <1>5 DEF Successor
  <2>2. \A i \in Elem : ~(k < i /\ i < k + 1)
    BY <1>1, <1>2
  <2>3. <<k, k + 1>> \notin Incompatible
    BY <1>2 DEF Sparse
  <2>4. ASSUME NEW x \in Elem, x \notin Optional, x # N, x < k PROVE Successor(x) # k + 1
    <3>1. CASE x + 1 \in Optional
      <4>1. x + 1 # k
        BY <3>1
      <4>2. QED BY <1>1, <1>2, <2>4, <3>1, <4>1 DEF Successor
    <3>2. CASE x + 1 \notin Optional
      BY <1>1, <1>2, <2>4, <3>2 DEF Successor
    <3>3. QED BY <3>1, <3>2
  <2>5. QED BY <1>1, <1>2, <1>5, <2>1, <2>2, <2>3, <2>4
<1>6. QED BY <1>4, <1>5

LEMMA MainNextOk ==
  ASSUME TypeOK, NEW again, NEW next, MainNext(TRUE, again, next)
  PROVE  /\ at["main"] < N => pc'["main"] = again /\ at'["main"] = at["main"] + 1
         /\ ~(at["main"] < N) => pc'["main"] = next /\ at'["main"] = 1
BY Other DEF MainNext, Goto

\* When it is done, every optional element is out of the pipeline.
LEMMA AllBuilt ==
  ASSUME Sparse, TypeOK, Settled, NEW k \in Elem, ~(k < N), Built(k + 1),
         pc["worker"] = "idle", op = "none", nb["worker"] = Nobody
  PROVE  Slots
<1>1. \A e \in Elem : e < k + 1
  BY PipelineAssumption DEF Elem
<1>2. Skeleton
  BY <1>1 DEF Built, Skeleton
<1>3. ASSUME NEW e \in Optional PROVE Disabled(e)
  <2>1. /\ e \in Elem /\ e - 1 \in Elem /\ e - 1 \notin Optional
        /\ (e - 1) + 1 = e /\ e - 1 < e /\ e # N
    BY Around
  <2>2. e \in Nat /\ N \in Nat /\ e <= N
    BY PipelineAssumption DEF Elem
  <2>3. Successor(e - 1) = e + 1
    BY <2>1, <2>2 DEF Successor
  <2>4. Outside(e) /\ Down(e)
    BY <1>1, <2>1, <2>3 DEF Built, Outside, Down
  <2>5. QED BY <2>1, <2>4, NothingLeaves DEF Disabled
<1>4. QED BY <1>2, <1>3 DEF Slots, Slot, Rest, AtWork, Neighbours

Building == pc["main"] \in {"create", "link", "link_ok"} /\ PlayBuilds

LEMMA PlayCreate ==
  ASSUME Sparse, TypeOK, PlayBuilds, MainCreate
  PROVE  Building' /\ nb' = nb
<1>k. PICK k : k = at["main"]
  OBVIOUS
<1>1. k \in Elem /\ Created(k) /\ pc["main"] = "create"
  BY <1>k, Other DEF MainCreate, PlayBuilds
<1>2. \A e \in Elem : e < k + 1 <=> e < k \/ e = k
  BY <1>1 DEF Elem
<1>3. PICK ok \in BOOLEAN :
        /\ IF k \in Optional THEN ok /\ UNCHANGED <<initialized, bin>>
           ELSE CreateGstElement(k, ok)
        /\ MainNext(ok, "create", "link")
  BY <1>k DEF MainCreate
<1>4. ok /\ UNCHANGED <<linked, peer, nb>>
  <2>1. k \notin bin
    BY <1>1, ElemFacts DEF Created
  <2>2. QED BY <1>3, <2>1 DEF CreateGstElement, Sparse, MainCreate
<1>5. Created(k + 1)'
  <2>1. CASE k \in Optional
    BY <1>1, <1>2, <1>3, <1>4, <2>1 DEF Created
  <2>2. CASE k \notin Optional
    <3>1. k \notin bin
      BY <1>1, ElemFacts DEF Created
    <3>2. bin' = bin \cup {k} /\ initialized' = [initialized EXCEPT ![k] = TRUE]
      BY <1>3, <2>2, <3>1 DEF CreateGstElement, Sparse
    <3>3. \A e \in Elem : initialized'[e] <=> (initialized[e] \/ e = k)
      BY <1>1, <3>2 DEF TypeOK
    <3>4. QED BY <1>1, <1>2, <1>4, <2>2, <3>2, <3>3 DEF Created
  <2>3. QED BY <2>1, <2>2
<1>6. MainNext(TRUE, "create", "link")
  BY <1>3, <1>4 DEF MainNext
<1>7. CASE k < N
  BY <1>k, <1>5, <1>6, <1>7, MainNextOk, <1>4 DEF Building, PlayBuilds
<1>8. CASE ~(k < N)
  <2>1. Built(1)'
    <3>1. \A e \in Elem : e < k + 1 /\ ~(e < 1)
      BY <1>1, <1>8, PipelineAssumption DEF Elem
    <3>2. QED BY <1>5, <3>1 DEF Created, Built
  <2>2. pc'["main"] = "link" /\ at'["main"] = 1
    BY <1>k, <1>6, <1>8, MainNextOk
  <2>3. QED BY <1>4, <2>1, <2>2 DEF Building, PlayBuilds, Built
<1>9. QED BY <1>7, <1>8

LEMMA PlayLink ==
  ASSUME Sparse, TypeOK, PlayBuilds, MainLink
  PROVE  Building' /\ nb' = nb
<1>k. PICK k : k = at["main"]
  OBVIOUS
<1>1. k \in Elem /\ Built(k) /\ pc["main"] = "link" /\ UNCHANGED <<initialized, bin>>
  BY <1>k, Other DEF MainLink, PlayBuilds
<1>2. \A e \in Elem : e < k + 1 <=> e < k \/ e = k
  BY <1>1 DEF Elem
<1>3. CASE ~initialized[k]
  <2>1. k \in Optional /\ k < N
    BY <1>1, <1>3 DEF Built, Sparse
  <2>2. MainNext(TRUE, "link", "playing") /\ UNCHANGED <<linked, peer, nb>>
    BY <1>k, <1>3 DEF MainLink
  <2>3. Built(k + 1)'
    BY <1>1, <1>2, <2>1, <2>2 DEF Built, Successor
  <2>4. pc'["main"] = "link" /\ at'["main"] = k + 1
    BY <1>k, <2>1, <2>2, MainNextOk
  <2>5. QED BY <2>2, <2>3, <2>4 DEF Building, PlayBuilds
<1>4. CASE initialized[k]
  <2>1. k \notin Optional /\ LinkGstElement("main") /\ at' = at
    BY <1>k, <1>1, <1>4 DEF Built, MainLink
  <2>2. PICK next, prev \in Elem \cup {NoElem} :
          /\ IsNextEnabled(k, next)
          /\ IF next # NoElem /\ ~linked[next] THEN LinkToNext("main", next)
             ELSE IF next # NoElem /\ prev # NoElem THEN UnlinkNeighbours("main", prev, next)
             ELSE NothingToLink("main")
    BY <1>k, <2>1 DEF LinkGstElement
  <2>3. \A i \in Elem : i \in Nat /\ i <= N
    BY PipelineAssumption DEF Elem
  <2>4. next = Successor(k)
    <3>1. CASE k = N
      <4>1. next = NoElem
        BY <2>2, <2>3, <3>1, PipelineAssumption DEF IsNextEnabled
      <4>2. QED BY <3>1, <4>1 DEF Successor
    <3>2. CASE k # N
      <4>1. /\ Successor(k) \in Elem /\ initialized[Successor(k)] /\ Successor(k) > k
            /\ \A i \in Elem : k < i /\ i < Successor(k) => ~initialized[i]
        BY <1>1, <2>1, <3>2, <2>3, SparseSuccessor DEF Built
      <4>2. next \in Elem /\ next > k /\ initialized[next]
        BY <2>2, <4>1 DEF IsNextEnabled
      <4>3. ~(next < Successor(k)) /\ ~(Successor(k) < next)
        BY <2>2, <2>3, <4>1, <4>2, ElemFacts DEF IsNextEnabled
      <4>4. QED BY <2>3, <4>1, <4>2, <4>3
    <3>3. QED BY <3>1, <3>2
  <2>5. /\ peer' = [peer EXCEPT ![k] = Successor(k)]
        /\ linked' = [linked EXCEPT ![k] = TRUE]
        /\ pc'["main"] = "link_ok" /\ nb' = nb
    <3>1. CASE k = N
      <4>1. Successor(k) = NoElem /\ peer[k] = NoElem
        BY <1>1, <3>1 DEF Successor, Built
      <4>2. NothingToLink("main")
        BY <2>2, <2>4, <4>1
      <4>3. QED BY <1>k, <4>1, <4>2, Other DEF NothingToLink, Return, Goto, TypeOK
    <3>2. CASE k # N
      <4>1. /\ Successor(k) \in Elem /\ Successor(k) \notin Optional /\ k < Successor(k)
            /\ <<k, Successor(k)>> \notin Incompatible
            /\ \A x \in Elem : x \notin Optional /\ x # N /\ x < k => Successor(x) # Successor(k)
        BY <1>1, <2>1, <3>2, SparseSuccessor
      <4>2. ~linked[Successor(k)] /\ Successor(k) # NoElem
        <5>1. ~(Successor(k) < k)
          BY <1>1, <2>3, <4>1
        <5>2. QED BY <1>1, <4>1, <5>1, ElemFacts DEF Built
      <4>3. LinkToNext("main", Successor(k))
        BY <2>2, <2>4, <4>2
      <4>4. Linkable(k, Successor(k))
        <5>1. peer[k] = NoElem /\ k \in bin /\ Successor(k) \in bin
          BY <1>1, <2>1, <2>3, <4>1 DEF Built
        <5>2. ASSUME NEW x \in Elem PROVE peer[x] # Successor(k)
          <6>1. CASE x \notin Optional /\ x < k
            <7>1. x # N
              BY <1>1, <2>3, <6>1, PipelineAssumption
            <7>2. QED BY <1>1, <4>1, <6>1, <7>1 DEF Built
          <6>2. CASE ~(x \notin Optional /\ x < k)
            BY <1>1, <4>2, <6>2 DEF Built
          <6>3. QED BY <6>1, <6>2
        <5>3. QED BY <4>1, <5>1, <5>2 DEF Linkable
      <4>5. QED BY <1>k, <4>3, <4>4, Other DEF LinkToNext, Return, Goto
    <3>3. QED BY <3>1, <3>2
  <2>6. Built(k + 1)'
    <3>1. \A e \in Elem : /\ peer'[e] = IF e = k THEN Successor(k) ELSE peer[e]
                          /\ linked'[e] <=> linked[e] \/ e = k
      BY <1>1, <2>5 DEF TypeOK
    <3>2. \A e \in Elem : peer'[e] = IF e \notin Optional /\ e < k + 1 THEN Successor(e) ELSE NoElem
      BY <1>1, <1>2, <2>1, <3>1 DEF Built
    <3>3. \A e \in Elem : linked'[e] <=> (e \notin Optional /\ e < k + 1)
      BY <1>1, <1>2, <2>1, <3>1 DEF Built
    <3>4. QED BY <1>1, <3>2, <3>3 DEF Built, Successor
  <2>7. QED BY <1>k, <2>1, <2>5, <2>6 DEF Building, PlayBuilds
<1>5. QED BY <1>3, <1>4

\* play() succeeds, and every step of it takes it further.
LEMMA SparseMain ==
  ASSUME Sparse, SInv, PInv', Main
  PROVE  SInv'
<1>1. /\ TypeOK /\ TypeOK' /\ PlayBuilds /\ pc["main"] # "playing" /\ op = "none"
      /\ nb["worker"] = Nobody /\ Settled /\ pc["worker"] = "idle"
      /\ UNCHANGED <<probes, calls, op>> /\ pc'["worker"] = "idle"
  BY MainLeaves DEF SInv, PInv, IInv, OneAtATime
<1>2. CASE MainCreate
  BY <1>1, <1>2, PlayCreate DEF SInv, Building
<1>3. CASE MainLink
  BY <1>1, <1>3, PlayLink DEF SInv, Building
<1>4. CASE MainLinked
  <2>k. PICK k : k = at["main"]
    OBVIOUS
  <2>1. /\ k \in Elem /\ Built(k + 1) /\ MainNext(TRUE, "link", "playing")
        /\ UNCHANGED <<flags, gst, nb>>
    BY <2>k, <1>1, <1>4, Other DEF MainLinked, PlayBuilds
  <2>2. Built(k + 1)'
    BY <2>1 DEF Built, Successor, flags, gst
  <2>3. CASE k < N
    <3>1. pc'["main"] = "link" /\ at'["main"] = k + 1
      BY <1>1, <2>k, <2>1, <2>3, MainNextOk
    <3>2. PlayBuilds'
      BY <2>2, <3>1 DEF PlayBuilds
    <3>3. QED BY <1>1, <2>1, <3>1, <3>2 DEF SInv
  <2>4. CASE ~(k < N)
    <3>1. pc'["main"] = "playing"
      BY <1>1, <2>k, <2>1, <2>4, MainNextOk
    <3>2. Settled' /\ op' = "none" /\ nb'["worker"] = Nobody
      BY <1>1, <2>1 DEF Settled
    <3>3. Slots
      BY <1>1, <2>1, <2>4, AllBuilt
    <3>4. Slots'
      <4>1. \A f \in Optional : Rest(f)
        BY <1>1, <3>3 DEF Slots, Slot, Engaged, MayWait
      <4>2. \A f \in Optional : f = at'["worker"] => AtWork(f)'
        BY <1>1, <3>2 DEF AtWork
      <4>3. QED BY <1>1, <2>1, <3>3, <4>1, <4>2, StillSlots
    <3>5. QED BY <3>1, <3>4 DEF SInv, PlayBuilds
  <2>5. QED BY <2>3, <2>4
<1>5. CASE LinkPrevious("main") \/ LinkFollowing("main")
  BY <1>1, <1>5 DEF LinkPrevious, LinkFollowing, PlayBuilds
<1>6. QED BY <1>2, <1>3, <1>4, <1>5 DEF Main

-----------------------------------------------------------------------------
(* The stream *)

LEMMA WorkerKeepsMain ==
  ASSUME TypeOK, Worker
  PROVE  pc'["main"] = pc["main"]
<1>1. "worker" \in Thread
  BY DEF Thread
<1>2. CASE WorkerLink \/ LinkPrevious("worker") \/ LinkFollowing("worker")
  BY <1>1, <1>2, LinkLeaves, BetweenLeaves, Other DEF WorkerLink
<1>3. CASE WorkerSkip \/ WorkerCreate \/ WorkerLinked \/ WorkerFindPad \/ WorkerClearFlags
  <2>1. \E label \in PlainLabel : pc' = [pc EXCEPT !["worker"] = label]
    BY <1>3, WorkerLeaves DEF Leaves
  <2>2. QED BY <2>1, Other
<1>4. CASE WorkerAddProbe
  BY <1>4, Other DEF WorkerAddProbe, Goto
<1>5. QED BY <1>2, <1>3, <1>4 DEF Worker

LEMMA SparseStep ==
  ASSUME EarlyCommands = FALSE, Overlap = FALSE, Sparse
  PROVE  SInv /\ [Next]_vars => SInv'
<1> SUFFICES ASSUME SInv, [Next]_vars PROVE SInv'
    OBVIOUS
<1>1. PInv /\ PInv' /\ TypeOK /\ TypeOK'
  BY PatientNext DEF SInv, PInv, IInv
<1>2. CASE Main
  BY <1>1, <1>2, SparseMain
<1>3. CASE UNCHANGED vars
  BY <1>1, <1>3
  DEF SInv, PlayBuilds, Created, Built, Slots, Skeleton, Slot, Neighbours, AtWork, Engaged,
      MayWait, Rest, Enabled, Disabled, Disowned, Waiting, Opened, Joined, Removed, Pending,
      Cut, Up, Down, Mid, Inside, Outside, Fresh, Open, Half, Leaving, Successor, vars
<1>4. CASE Receive \/ Worker \/ Streaming
  <2>1. pc["main"] = "playing"
    <3>1. CASE Receive
      BY <3>1 DEF Receive, CommandAllowed, EnableOptionalPipelineElement,
                  DisableOptionalPipelineElement, EnableAllOptionalPipelineElements,
                  DisableAllOptionalPipelineElements
    <3>2. CASE Worker
      <4>1. pc["worker"] # "idle"
        BY <3>2 DEF Worker, WorkerSkip, WorkerCreate, WorkerLink, WorkerLinked, LinkPrevious,
                    LinkFollowing, WorkerFindPad, WorkerAddProbe, WorkerClearFlags
      <4>2. QED BY <1>1, <4>1 DEF PInv, OneAtATime
    <3>3. CASE Streaming
      <4>1. ~Settled
        BY <3>3 DEF Streaming, FireProbe, Settled, NoProbe
      <4>2. QED BY <1>1, <4>1 DEF PInv, OneAtATime
    <3>4. QED BY <1>4, <3>1, <3>2, <3>3
  <2>2. Slots
    BY <2>1 DEF SInv
  <2>3. Slots'
    <3>1. CASE Receive
      BY <1>1, <2>2, <3>1, SlotsReceive
    <3>2. CASE Worker
      BY <1>1, <2>2, <3>2, SlotsSkip, SlotsCreate, SlotsLink, SlotsLinkPrevious,
         SlotsLinkFollowing, SlotsLinked, SlotsFindPad, SlotsAddProbe, SlotsClearFlags
      DEF Worker
    <3>3. CASE Streaming
      BY <1>1, <2>2, <3>3, SlotsFire, SlotsFinish DEF Streaming
    <3>4. QED BY <1>4, <3>1, <3>2, <3>3
  <2>4. pc'["main"] = "playing"
    <3>1. CASE Receive
      BY <1>1, <2>1, <3>1, Other
      DEF Receive, EnableOptionalPipelineElement, DisableOptionalPipelineElement,
          EnableAllOptionalPipelineElements, DisableAllOptionalPipelineElements,
          Start, Finish, Goto
    <3>2. CASE Worker
      BY <1>1, <2>1, <3>2, WorkerKeepsMain
    <3>3. CASE Streaming
      BY <1>1, <2>1, <3>3, Other DEF Streaming, FireProbe, FinishCallback
    <3>4. QED BY <1>4, <3>1, <3>2, <3>3
  <2>5. QED BY <1>1, <2>3, <2>4 DEF SInv, PlayBuilds
<1>5. QED BY <1>2, <1>3, <1>4 DEF Next

LEMMA SparseInit == Init => SInv
<1> SUFFICES ASSUME Init PROVE SInv
    OBVIOUS
<1>1. PInv
  BY PatientInit
<1>2. \A e \in Elem : ~(e < 1)
  BY PipelineAssumption DEF Elem
<1>3. pc["main"] = "create" /\ at["main"] = 1 /\ op = "none" /\ nb["worker"] = Nobody
  BY DEF Init, Thread
<1>4. Created(1)
  BY <1>2 DEF Init, Created
<1>5. QED BY <1>1, <1>3, <1>4 DEF SInv, PlayBuilds

LEMMA SparseInvariant ==
  ASSUME EarlyCommands = FALSE, Overlap = FALSE, Sparse
  PROVE  Spec => []SInv
<1>1. Init => SInv
  BY SparseInit
<1>2. SInv /\ [Next]_vars => SInv'
  BY SparseStep
<1>3. QED BY <1>1, <1>2, PTL DEF Spec

\* The stream runs through the mandatory elements and the ones linked in.
LEMMA SlotsConnect ==
  ASSUME Sparse, Slots, calls = {}, nb["worker"] = Nobody
  PROVE  \E S \in SUBSET Elem : 1 \in S /\ N \in S /\ \A a \in S \ {N} : peer[a] \in S
<1> DEFINE S == {x \in Elem : x \in Optional => Inside(x)}
<1>1. 1 \in S /\ N \in S
  BY ElemFacts, PipelineAssumption DEF Sparse, Elem
<1>2. ASSUME NEW e \in Optional
      PROVE  Inside(e) \/ (peer[e - 1] = e + 1 /\ ~Inside(e))
  <2>1. e \in Elem /\ e - 1 # NoElem /\ e + 1 # e
    BY Around
  <2>2. pc["worker"] \notin {"link_prev", "link_next"}
    <3>1. CASE pc["worker"] \in {"link_prev", "link_next"}
      <4>1. at["worker"] - 1 = NoElem /\ at["worker"] \in Optional
        BY <3>1 DEF Slots, Neighbours, Nobody
      <4>2. QED BY <4>1, Around
    <3>2. QED BY <3>1
  <2>3. ~Cut(e)
    BY DEF Cut
  <2>4. Enabled(e) \/ Disabled(e) \/ Pending(e) \/ Waiting(e) \/ Outside(e)
    <3>1. CASE Engaged(e)
      BY <2>2, <2>3, <3>1 DEF Slots, Slot, Engaged, AtWork, Removed
    <3>2. CASE ~Engaged(e)
      BY <2>3, <3>2 DEF Slots, Slot, Rest, Disowned
    <3>3. QED BY <3>1, <3>2
  <2>5. QED BY <2>1, <2>4 DEF Enabled, Disabled, Pending, Waiting, Inside, Outside, Fresh
<1>3. ASSUME NEW a \in S, a # N PROVE peer[a] \in S
  <2>1. a \in Elem /\ a \in Nat /\ a + 1 \in Elem
    BY <1>3, ElemFacts, PipelineAssumption DEF Elem
  <2>2. CASE a \in Optional
    BY <2>1, <2>2, Around DEF Inside
  <2>3. CASE a \notin Optional /\ a + 1 \in Optional
    <3>1. /\ (a + 1) - 1 = a /\ (a + 1) + 1 \in Elem /\ (a + 1) + 1 \notin Optional
      BY <2>1, <2>3, Around
    <3>2. Inside(a + 1) \/ peer[a] = (a + 1) + 1
      BY <1>2, <2>3, <3>1
    <3>3. CASE Inside(a + 1)
      BY <2>1, <3>1, <3>3 DEF Inside
    <3>4. QED BY <3>1, <3>2, <3>3
  <2>4. CASE a \notin Optional /\ a + 1 \notin Optional
    BY <1>3, <2>1, <2>4 DEF Slots, Skeleton, Successor
  <2>5. QED BY <2>2, <2>3, <2>4
<1>4. S \in SUBSET Elem
  OBVIOUS
<1>5. QED BY <1>1, <1>3, <1>4

\* If the optional elements of a file are neither adjacent nor at its ends and
\* all its plugins and caps fit, commands that come one at a time never cut
\* the stream, whatever the streaming threads do meanwhile.
THEOREM StreamStaysConnected ==
  ASSUME EarlyCommands = FALSE, Overlap = FALSE, Sparse
  PROVE  Spec => []StreamConnected
<1>1. SInv => StreamConnected
  BY SlotsConnect DEF SInv, StreamConnected
<1>2. Spec => []SInv
  BY SparseInvariant
<1>3. QED BY <1>1, <1>2, PTL

\* For such files and commands, an element whose enable was answered with Ack is
\* in the stream, although the answer comes from errno.
THEOREM AckedIsInStream ==
  ASSUME EarlyCommands = FALSE, Overlap = FALSE, Sparse
  PROVE  Spec => []AckedEnableInStream
<1>1. SInv => AckedEnableInStream
  <2> SUFFICES ASSUME SInv, pc["worker"] = "idle", reply = "Ack", op = "enable"
               PROVE  InStream(at["worker"])
      BY DEF AckedEnableInStream
  <2>1. pc["main"] = "playing" /\ at["worker"] \in Optional
    BY DEF SInv, PInv, OptionalLeave
  <2>2. Enabled(at["worker"])
    BY <2>1 DEF SInv, Slots, Slot, AtWork
  <2>3. QED BY <2>1, <2>2, Around DEF Enabled, Inside, InStream
<1>2. Spec => []SInv
  BY SparseInvariant
<1>3. QED BY <1>1, <1>2, PTL

LEMMA SlotsMatch ==
  ASSUME Sparse, TypeOK, Slots, Quiet
  PROVE  /\ bin = {e \in Elem : initialized[e]}
         /\ initialized = linked
         /\ \A e \in bin : IsNextEnabled(e, peer[e])
<1>1. \A f \in Optional : Enabled(f) \/ Disabled(f)
  BY AtRest DEF Quiet, Slots, Slot, Engaged, MayWait
<1>2. \A e \in Elem : /\ e \in bin <=> initialized[e]
                      /\ linked[e] <=> initialized[e]
  BY <1>1 DEF Slots, Skeleton, Enabled, Disabled, Inside, Outside, Up, Down
<1>3. bin = {e \in Elem : initialized[e]}
  BY <1>2 DEF TypeOK
<1>4. initialized = linked
  <2>1. \A e \in Elem : initialized[e] = linked[e]
    BY <1>2 DEF TypeOK
  <2>2. QED BY <2>1 DEF TypeOK
<1>5. ASSUME NEW e \in bin PROVE IsNextEnabled(e, peer[e])
  <2>1. e \in Elem /\ e \in Nat /\ \A i \in Elem : i \in Nat /\ i <= N
    BY PipelineAssumption DEF TypeOK, Elem
  <2>2. CASE e = N
    <3>1. N \notin Optional /\ N + 1 \notin Optional
      BY <2>1, PipelineAssumption DEF Sparse, Elem
    <3>2. peer[e] = NoElem
      BY <2>1, <2>2, <3>1 DEF Slots, Skeleton, Successor
    <3>3. QED BY <2>1, <2>2, <3>2, PipelineAssumption DEF IsNextEnabled
  <2>3. CASE e # N
    <3>1. e + 1 \in Elem
      BY <2>1, <2>3, ElemFacts, PipelineAssumption
    <3>2. ASSUME peer[e] = e + 1, e + 1 \notin Optional \/ Enabled(e + 1)
          PROVE  IsNextEnabled(e, peer[e])
      <4>1. initialized[e + 1]
        BY <3>1, <3>2 DEF Slots, Skeleton, Enabled, Up
      <4>2. QED BY <2>1, <3>1, <3>2, <4>1 DEF IsNextEnabled
    <3>3. CASE e \in Optional
      <4>1. Enabled(e) /\ e + 1 \notin Optional
        BY <1>1, <3>3, Around DEF Disabled, Outside
      <4>2. QED BY <3>2, <4>1 DEF Enabled, Inside
    <3>4. CASE e \notin Optional /\ e + 1 \notin Optional
      BY <2>1, <2>3, <3>2, <3>4 DEF Slots, Skeleton, Successor
    <3>5. CASE e \notin Optional /\ e + 1 \in Optional
      <4>1. /\ (e + 1) - 1 = e /\ (e + 1) + 1 = e + 2 /\ e + 2 \in Elem /\ e + 2 \notin Optional
        BY <2>1, <3>5, Around
      <4>2. CASE Enabled(e + 1)
        BY <3>2, <4>1, <4>2 DEF Enabled, Inside
      <4>3. CASE Disabled(e + 1)
        <5>1. peer[e] = e + 2 /\ ~initialized[e + 1]
          BY <4>1, <4>3 DEF Disabled, Outside, Down
        <5>2. initialized[e + 2]
          BY <4>1 DEF Slots, Skeleton
        <5>3. \A i \in Elem : e < i /\ i < e + 2 => i = e + 1
          BY <2>1
        <5>4. QED BY <2>1, <4>1, <5>1, <5>2, <5>3 DEF IsNextEnabled
      <4>4. QED BY <1>1, <3>5, <4>2, <4>3
    <3>6. QED BY <3>3, <3>4, <3>5
  <2>4. QED BY <2>2, <2>3
<1>6. QED BY <1>3, <1>4, <1>5

\* For such files and commands, is_initialized and is_linked say what is in the
\* pipeline and linked whenever no command and no callback is under way.
THEOREM FlagsAgree ==
  ASSUME EarlyCommands = FALSE, Overlap = FALSE, Sparse
  PROVE  Spec => []FlagsMatchPipeline
<1>1. SInv => FlagsMatchPipeline
  <2>1. ASSUME SInv, Quiet
        PROVE  /\ bin = {e \in Elem : initialized[e]} /\ initialized = linked
               /\ \A e \in bin : IsNextEnabled(e, peer[e])
    BY <2>1, SlotsMatch DEF Quiet, SInv, PInv, IInv
  <2>2. QED BY <2>1 DEF FlagsMatchPipeline
<1>2. Spec => []SInv
  BY SparseInvariant
<1>3. QED BY <1>1, <1>2, PTL
====
