-------------------------- MODULE PipelineElements --------------------------
(***************************************************************************)
(* Element-level reconfiguration of a one-branch pipeline, as every        *)
(* pipeline file under resources/ is: PipelineManager::play building the   *)
(* pipeline on the main thread, the enable / disable commands the          *)
(* scheduler's worker thread executes, and the idle-probe callback         *)
(* GStreamer runs on a streaming thread (or at once on the worker, when    *)
(* the pad is idle) to take an element out.                                *)
(*                                                                         *)
(* An element is its position in pipeline_elements_ (the code's id plus    *)
(* one).  GStreamer itself is external: the bin is a set of elements, and  *)
(* peer[e] is the element whose sink pad e's src pad is linked to.  Two    *)
(* elements of one branch never differ in branch, so the tests on branch   *)
(* names in linkGstElement are decided and its last block (link to a tee)  *)
(* is not reached.  mutex_ is taken by the single worker only and guards   *)
(* nothing else, so it does not appear.  A call into GStreamer that        *)
(* changes links is one step; a thread can be interrupted between two.     *)
(***************************************************************************)
EXTENDS Naturals, FiniteSets

CONSTANTS
  N,              \* number of elements in the pipeline file
  Optional,       \* those marked optional: not created by play()
  Unavailable,    \* those gst_element_factory_make() returns NULL for
  Incompatible,   \* pairs <<src, sink>> whose caps GStreamer refuses to link
  EarlyCommands,  \* may a command run before play() has built the pipeline?
  Overlap,        \* may a command run while a probe is still pending?
  MaxProbes       \* bound: pending probes for one element on one pad

Elem   == 1 .. N
NoElem == 0
Thread == {"main", "worker"}

ASSUME PipelineAssumption ==
  /\ N \in Nat /\ N >= 2
  /\ Optional \subseteq Elem
  /\ Unavailable \subseteq Elem
  /\ Incompatible \subseteq Elem \X Elem
  /\ EarlyCommands \in BOOLEAN
  /\ Overlap \in BOOLEAN
  /\ MaxProbes \in Nat \ {0}

VARIABLES
  initialized,  \* PipelineElement::is_initialized
  linked,       \* PipelineElement::is_linked
  bin,          \* elements whose GstElement is in gst_pipeline_
  peer,         \* peer[a] = b: a's src pad is linked to b's sink pad
  probes,       \* probes[a][e]: idle probes on a's src pad, not yet called,
                \* added to take e out
  calls,        \* probe callbacks between unlinking and relinking
  pc,           \* what each thread does next
  at,           \* the element each thread is at
  nb,           \* neighbours a thread is linking its element between
  op,           \* the command the worker executes
  pad,          \* element owning the upstream src pad disable found
  reply         \* response to the last command: "none" while executing

vars == <<initialized, linked, bin, peer, probes, calls, pc, at, nb,
          op, pad, reply>>

flags == <<initialized, linked>>
gst   == <<bin, peer, probes, calls>>

Label   == {"create", "link", "link_prev", "link_next", "link_ok", "link_failed",
            "playing", "failed", "idle", "find_pad", "add_probe", "callback",
            "clear_flags", "terminated"}
CallRec == [pad : Elem, elem : Elem, down : Elem]
Nobody  == [prev |-> NoElem, next |-> NoElem]
NoProbe == [e \in Elem |-> 0]

-----------------------------------------------------------------------------
(* GStreamer, as the code uses it *)

\* gst_pad_link / gst_element_link: both pads free, caps accepted, both
\* elements in the pipeline.
Linkable(a, b) ==
  /\ a \in bin /\ b \in bin
  /\ peer[a] = NoElem
  /\ \A x \in Elem : peer[x] # b
  /\ <<a, b>> \notin Incompatible

\* gst_bin_remove unlinks every pad of the element it removes.
RemovedFromBin(p, e) ==
  [x \in Elem |-> IF x = e \/ p[x] = e THEN NoElem ELSE p[x]]

-----------------------------------------------------------------------------
(* Helpers of PipelineManager.  Every failing call of the code returns       *)
(* {errno, generic_category()}; GStreamer leaves errno alone, so it is       *)
(* nonzero (an error) or zero (which the callers take for success).  ok is   *)
(* what the caller sees.                                                     *)

Alive == pc["worker"] # "terminated"

Goto(t, label) == pc' = [pc EXCEPT ![t] = label]

IsNextEnabled(e, n) ==
  \/ /\ n \in Elem /\ n > e /\ initialized[n]
     /\ \A i \in Elem : e < i /\ i < n => ~initialized[i]
  \/ /\ n = NoElem
     /\ \A i \in Elem : i > e => ~initialized[i]

\* Variant: the search for the previous element starts at the element itself.
IsPreviousEnabledFromSelf(e, p) ==
  \/ /\ p \in Elem /\ p <= e /\ initialized[p]
     /\ \A i \in Elem : p < i /\ i <= e => ~initialized[i]
  \/ /\ p = NoElem
     /\ \A i \in Elem : i <= e => ~initialized[i]

IsPreviousEnabled(e, p) ==
  \/ /\ p \in Elem /\ p < e /\ initialized[p]
     /\ \A i \in Elem : p < i /\ i < e => ~initialized[i]
  \/ /\ p = NoElem
     /\ \A i \in Elem : i < e => ~initialized[i]

\* createGstElement: fails when the plugin is missing or when an element of
\* that unique name is still in the pipeline.
CreateGstElement(e, ok) ==
  IF e \notin bin /\ e \notin Unavailable
  THEN /\ ok
       /\ bin' = bin \cup {e}
       /\ initialized' = [initialized EXCEPT ![e] = TRUE]
  ELSE /\ UNCHANGED <<bin, initialized>>

-----------------------------------------------------------------------------
(* linkGstElement: pc is "link" on entry, "link_ok" or "link_failed" on      *)
(* return.                                                                   *)

Return(t, ok) == Goto(t, IF ok THEN "link_ok" ELSE "link_failed")

\* "Link first or middle element": the next enabled element is not linked.
LinkToNext(t, next) ==
  \E ok \in BOOLEAN :
    /\ IF Linkable(at[t], next)
       THEN ok /\ peer' = [peer EXCEPT ![at[t]] = next]
       ELSE UNCHANGED peer
    /\ linked' = IF ok THEN [linked EXCEPT ![at[t]] = TRUE] ELSE linked
    /\ Return(t, ok)
    /\ UNCHANGED nb

\* "Link between elements" starts by unlinking the neighbours.
UnlinkNeighbours(t, prev, next) ==
  /\ peer' = IF peer[prev] = next THEN [peer EXCEPT ![prev] = NoElem] ELSE peer
  /\ nb' = [nb EXCEPT ![t] = [prev |-> prev, next |-> next]]
  /\ Goto(t, "link_prev")
  /\ UNCHANGED linked

\* An element with nothing to link to is marked linked as it is.
NothingToLink(t) ==
  /\ linked' = [linked EXCEPT ![at[t]] = TRUE]
  /\ Return(t, TRUE)
  /\ UNCHANGED <<peer, nb>>

\* Variant: looks at the element's own flag instead of its successor's.
LinkGstElementByOwnFlag(t) ==
  \E next, prev \in Elem \cup {NoElem} :
    /\ IsNextEnabled(at[t], next)
    /\ IsPreviousEnabled(at[t], prev)
    /\ IF next # NoElem /\ ~linked[at[t]] THEN LinkToNext(t, next)
       ELSE IF next # NoElem /\ prev # NoElem THEN UnlinkNeighbours(t, prev, next)
       ELSE NothingToLink(t)

LinkGstElement(t) ==
  \E next, prev \in Elem \cup {NoElem} :
    /\ IsNextEnabled(at[t], next)
    /\ IsPreviousEnabled(at[t], prev)
    /\ IF next # NoElem /\ ~linked[next] THEN LinkToNext(t, next)
       ELSE IF next # NoElem /\ prev # NoElem THEN UnlinkNeighbours(t, prev, next)
       ELSE NothingToLink(t)

\* gst_element_link_many: the neighbours to both sides of the new element, in
\* order, stopping at the first refusal.
LinkPrevious(t) ==
  /\ Alive /\ pc[t] = "link_prev"
  /\ IF Linkable(nb[t].prev, at[t])
     THEN /\ peer' = [peer EXCEPT ![nb[t].prev] = at[t]]
          /\ Goto(t, "link_next")
          /\ UNCHANGED nb
     ELSE /\ \E ok \in BOOLEAN : Return(t, ok)
          /\ nb' = [nb EXCEPT ![t] = Nobody]
          /\ UNCHANGED peer
  /\ UNCHANGED <<flags, bin, probes, calls, at, op, pad, reply>>

LinkFollowing(t) ==
  /\ Alive /\ pc[t] = "link_next"
  /\ IF Linkable(at[t], nb[t].next)
     THEN /\ peer' = [peer EXCEPT ![at[t]] = nb[t].next]
          /\ linked' = [linked EXCEPT ![at[t]] = TRUE]
          /\ Return(t, TRUE)
     ELSE /\ \E ok \in BOOLEAN : Return(t, ok)
          /\ UNCHANGED <<peer, linked>>
  /\ nb' = [nb EXCEPT ![t] = Nobody]
  /\ UNCHANGED <<initialized, bin, probes, calls, at, op, pad, reply>>

-----------------------------------------------------------------------------
(* disconnectGstElementProbeCallback *)

\* On a's src pad, up to the unlinking: a sink element is removed at once, an
\* element with no peer on either side is left where it is.
CallbackUnlink(a) ==
  LET b == peer[a]
  IN  IF b = NoElem THEN UNCHANGED <<bin, peer, calls>>
      ELSE IF b = N
      THEN /\ bin' = bin \ {b}
           /\ peer' = RemovedFromBin(peer, b)
           /\ UNCHANGED calls
      ELSE IF peer[b] = NoElem THEN UNCHANGED <<bin, peer, calls>>
      ELSE /\ peer' = [peer EXCEPT ![a] = NoElem, ![b] = NoElem]
           /\ calls' = calls \cup {[pad |-> a, elem |-> b, down |-> peer[b]]}
           /\ UNCHANGED bin

\* Variant: the neighbours are not linked to each other.
CallbackRelinkWithoutLink(c) ==
  /\ peer' = RemovedFromBin(peer, c.elem)
  /\ bin' = bin \ {c.elem}
  /\ probes' = [probes EXCEPT ![c.elem] = NoProbe]
  /\ calls' = calls \ {c}

\* Variant: the element is unlinked and left in the pipeline.
CallbackRelinkWithoutRemove(c) ==
  /\ peer' = IF Linkable(c.pad, c.down) THEN [peer EXCEPT ![c.pad] = c.down] ELSE peer
  /\ calls' = calls \ {c}
  /\ UNCHANGED <<bin, probes>>

\* The rest of the callback: link the neighbours (the result is ignored) and
\* take the element out of the pipeline, its own pending probes with it.
CallbackRelink(c) ==
  LET joined == IF Linkable(c.pad, c.down)
                THEN [peer EXCEPT ![c.pad] = c.down] ELSE peer
  IN  /\ peer' = RemovedFromBin(joined, c.elem)
      /\ bin' = bin \ {c.elem}
      /\ probes' = [probes EXCEPT ![c.elem] = NoProbe]
      /\ calls' = calls \ {c}

-----------------------------------------------------------------------------
(* Main thread: PipelineManager::play and createGstPipeline *)

\* One round of a loop of createGstPipeline; after the last element the main
\* thread goes on to next.
MainNext(ok, again, next) ==
  IF ~ok THEN Goto("main", "failed") /\ UNCHANGED at
  ELSE IF at["main"] < N
  THEN Goto("main", again) /\ at' = [at EXCEPT !["main"] = @ + 1]
  ELSE Goto("main", next) /\ at' = [at EXCEPT !["main"] = 1]

MainCreate ==
  /\ Alive /\ pc["main"] = "create"
  /\ \E ok \in BOOLEAN :
       /\ IF at["main"] \in Optional
          THEN ok /\ UNCHANGED <<initialized, bin>>
          ELSE CreateGstElement(at["main"], ok)
       /\ MainNext(ok, "create", "link")
  /\ UNCHANGED <<linked, peer, probes, calls, nb, op, pad, reply>>

MainLink ==
  /\ Alive /\ pc["main"] = "link"
  /\ IF initialized[at["main"]]
     THEN LinkGstElement("main") /\ UNCHANGED at
     ELSE MainNext(TRUE, "link", "playing") /\ UNCHANGED <<linked, peer, nb>>
  /\ UNCHANGED <<initialized, bin, probes, calls, op, pad, reply>>

\* After the last element the pipeline is set to PLAYING.
MainLinked ==
  /\ Alive /\ pc["main"] \in {"link_ok", "link_failed"}
  /\ MainNext(pc["main"] = "link_ok", "link", "playing")
  /\ UNCHANGED <<flags, gst, nb, op, pad, reply>>

-----------------------------------------------------------------------------
(* Worker thread: one command at a time *)

\* No probe and no callback is left over from an earlier command.
Settled == calls = {} /\ \A a \in Elem : probes[a] = NoProbe

CommandAllowed ==
  /\ pc["worker"] = "idle" /\ pc["main"] # "failed"
  /\ EarlyCommands \/ pc["main"] = "playing"
  /\ Overlap \/ Settled

Finish(ok) ==
  /\ Goto("worker", "idle")
  /\ reply' = IF ok THEN "Ack" ELSE "Nack"

Start(command, e, label) ==
  /\ op' = command /\ at' = [at EXCEPT !["worker"] = e]
  /\ Goto("worker", label) /\ reply' = "none"

\* Variant: the loop runs one element too far.
WorkerNextTooFar(again, next) ==
  IF at["worker"] <= N
  THEN /\ at' = [at EXCEPT !["worker"] = @ + 1]
       /\ Goto("worker", again) /\ UNCHANGED reply
  ELSE /\ at' = [at EXCEPT !["worker"] = 1]
       /\ IF next = "idle" THEN Finish(TRUE)
          ELSE Goto("worker", next) /\ UNCHANGED reply

\* A command for one element ends; one for all elements goes on to the next
\* element, and after the last to label next or to its Ack.
WorkerNext(again, next) ==
  IF at["worker"] < N
  THEN /\ at' = [at EXCEPT !["worker"] = @ + 1]
       /\ Goto("worker", again) /\ UNCHANGED reply
  ELSE /\ at' = [at EXCEPT !["worker"] = 1]
       /\ IF next = "idle" THEN Finish(TRUE)
          ELSE Goto("worker", next) /\ UNCHANGED reply

EnableOptionalPipelineElement(e) ==
  /\ CommandAllowed
  /\ IF initialized[e] /\ linked[e]
     THEN /\ op' = "enable" /\ at' = [at EXCEPT !["worker"] = e]
          /\ \E ok \in BOOLEAN : Finish(ok)
     ELSE Start("enable", e, "create")
  /\ UNCHANGED <<flags, gst, nb, pad>>

DisableOptionalPipelineElement(e) ==
  /\ CommandAllowed
  /\ IF ~initialized[e] /\ ~linked[e]
     THEN /\ op' = "disable" /\ at' = [at EXCEPT !["worker"] = e]
          /\ \E ok \in BOOLEAN : Finish(ok)
     ELSE Start("disable", e, "find_pad")
  /\ UNCHANGED <<flags, gst, nb, pad>>

EnableAllOptionalPipelineElements ==
  /\ CommandAllowed
  /\ Start("enable_all", 1, "create")
  /\ UNCHANGED <<flags, gst, nb, pad>>

DisableAllOptionalPipelineElements ==
  /\ CommandAllowed
  /\ Start("disable_all", 1, "find_pad")
  /\ UNCHANGED <<flags, gst, nb, pad>>

\* Variant: disable_elements does not look at is_optional.
SelectedWithoutOptional ==
  LET e == at["worker"]
  IN  CASE op = "enable_all" ->
             e \in Optional /\ ~linked[e] /\ (initialized[e] = (pc["worker"] = "link"))
        [] op = "disable_all" -> linked[e]
        [] OTHER -> TRUE

\* The elements the loops of the "all" commands act on.
Selected ==
  LET e == at["worker"]
  IN  CASE op = "enable_all" ->
             e \in Optional /\ ~linked[e] /\ (initialized[e] = (pc["worker"] = "link"))
        [] op = "disable_all" -> e \in Optional /\ linked[e]
        [] OTHER -> TRUE

WorkerSkip ==
  /\ Alive /\ pc["worker"] \in {"create", "link", "find_pad"} /\ ~Selected
  /\ WorkerNext(pc["worker"], IF pc["worker"] = "create" THEN "link" ELSE "idle")
  /\ UNCHANGED <<flags, gst, nb, op, pad>>

WorkerCreate ==
  /\ pc["worker"] = "create" /\ Selected
  /\ \E ok \in BOOLEAN :
       /\ CreateGstElement(at["worker"], ok)
       /\ IF ~ok THEN Finish(FALSE) /\ UNCHANGED at
          ELSE IF op = "enable"
          THEN Goto("worker", "link") /\ UNCHANGED <<at, reply>>
          ELSE WorkerNext("create", "link")
  /\ UNCHANGED <<linked, peer, probes, calls, nb, op, pad>>

WorkerLink ==
  /\ pc["worker"] = "link" /\ Selected
  /\ LinkGstElement("worker")
  /\ UNCHANGED <<initialized, bin, probes, calls, at, op, pad, reply>>

WorkerLinked ==
  /\ pc["worker"] \in {"link_ok", "link_failed"}
  /\ IF pc["worker"] = "link_failed" \/ op = "enable"
     THEN Finish(pc["worker"] = "link_ok") /\ UNCHANGED at
     ELSE WorkerNext("link", "idle")
  /\ UNCHANGED <<flags, gst, nb, op, pad>>

\* Variant: takes the previous enabled element for the upstream one.
WorkerFindPadOfPrevious ==
  LET e == at["worker"]
  IN  /\ pc["worker"] = "find_pad" /\ Selected
      /\ \E a \in Elem : IsPreviousEnabled(e, a) /\ pad' = a
      /\ Goto("worker", "add_probe")
      /\ UNCHANGED <<flags, gst, nb, op, at, reply>>

\* disableOptionalElement up to the upstream pad.  An element that never got
\* a GstElement is a null pointer here: logging its name throws on the worker
\* thread and the process terminates.  One that has no linked sink pad is
\* refused, which disable_elements does not notice.
WorkerFindPad ==
  LET e == at["worker"]
  IN  /\ pc["worker"] = "find_pad" /\ Selected
      /\ \/ /\ e \in Unavailable
            /\ Goto("worker", "terminated")
            /\ UNCHANGED <<at, pad, reply>>
         \/ /\ e \notin Unavailable
            /\ \A a \in Elem : peer[a] # e
            /\ IF op = "disable"
               THEN (\E ok \in BOOLEAN : Finish(ok)) /\ UNCHANGED at
               ELSE WorkerNext("find_pad", "idle")
            /\ UNCHANGED pad
         \/ /\ e \notin Unavailable
            /\ \E a \in Elem : peer[a] = e /\ pad' = a
            /\ Goto("worker", "add_probe")
            /\ UNCHANGED <<at, reply>>
      /\ UNCHANGED <<flags, gst, nb, op>>

\* gst_pad_add_probe(IDLE): a busy pad keeps the probe for later, an idle one
\* has the callback called at once.  Pads are idle before PLAYING and once
\* their element has left the pipeline.
WorkerAddProbe ==
  /\ pc["worker"] = "add_probe"
  /\ \/ /\ pc["main"] = "playing" /\ pad \in bin
        /\ probes[pad][at["worker"]] < MaxProbes
        /\ probes' = [probes EXCEPT ![pad][at["worker"]] = @ + 1]
        /\ Goto("worker", "clear_flags")
        /\ UNCHANGED <<bin, peer, calls>>
     \/ /\ CallbackUnlink(pad)
        /\ Goto("worker", IF calls' = calls THEN "clear_flags" ELSE "callback")
        /\ UNCHANGED probes
  /\ UNCHANGED <<flags, at, nb, op, pad, reply>>

\* Variant: is_linked is not cleared.
WorkerClearFlagsButLinked ==
  /\ pc["worker"] = "clear_flags"
  /\ initialized' = [initialized EXCEPT ![at["worker"]] = FALSE]
  /\ IF op = "disable" THEN Finish(TRUE) /\ UNCHANGED at
     ELSE WorkerNext("find_pad", "idle")
  /\ UNCHANGED <<linked, gst, nb, op, pad>>

WorkerClearFlags ==
  /\ pc["worker"] = "clear_flags"
  /\ initialized' = [initialized EXCEPT ![at["worker"]] = FALSE]
  /\ linked' = [linked EXCEPT ![at["worker"]] = FALSE]
  /\ IF op = "disable" THEN Finish(TRUE) /\ UNCHANGED at
     ELSE WorkerNext("find_pad", "idle")
  /\ UNCHANGED <<gst, nb, op, pad>>

-----------------------------------------------------------------------------
(* Streaming threads (and the end of a callback the worker runs itself) *)

\* What the callback removes depends on pad a alone, not on the element e the
\* probe was added for.
FireProbe(a, e) ==
  /\ Alive /\ probes[a][e] > 0
  /\ CallbackUnlink(a)
  /\ probes' = [probes EXCEPT ![a][e] = @ - 1]
  /\ UNCHANGED <<flags, pc, at, nb, op, pad, reply>>

\* Variant: the worker is not released when the callback it waits for ends.
FinishCallbackSilently(c) ==
  /\ Alive /\ c \in calls
  /\ CallbackRelink(c)
  /\ UNCHANGED <<flags, pc, at, nb, op, pad, reply>>

FinishCallback(c) ==
  /\ Alive /\ c \in calls
  /\ CallbackRelink(c)
  /\ pc' = IF pc["worker"] = "callback" /\ c.pad = pad
           THEN [pc EXCEPT !["worker"] = "clear_flags"] ELSE pc
  /\ UNCHANGED <<flags, at, nb, op, pad, reply>>

-----------------------------------------------------------------------------
Init ==
  /\ initialized = [e \in Elem |-> FALSE]
  /\ linked = [e \in Elem |-> FALSE]
  /\ bin = {}
  /\ peer = [e \in Elem |-> NoElem]
  /\ probes = [a \in Elem |-> NoProbe]
  /\ calls = {}
  /\ pc = [t \in Thread |-> IF t = "main" THEN "create" ELSE "idle"]
  /\ at = [t \in Thread |-> 1]
  /\ nb = [t \in Thread |-> Nobody]
  /\ op = "none" /\ pad = 1 /\ reply = "none"

Main ==
  \/ MainCreate \/ MainLink \/ MainLinked
  \/ LinkPrevious("main") \/ LinkFollowing("main")

Receive ==
  \/ \E e \in Optional : EnableOptionalPipelineElement(e)
  \/ \E e \in Optional : DisableOptionalPipelineElement(e)
  \/ EnableAllOptionalPipelineElements
  \/ DisableAllOptionalPipelineElements

Worker ==
  \/ WorkerSkip \/ WorkerCreate \/ WorkerLink \/ WorkerLinked
  \/ LinkPrevious("worker") \/ LinkFollowing("worker")
  \/ WorkerFindPad \/ WorkerAddProbe \/ WorkerClearFlags

Streaming ==
  \/ \E a, e \in Elem : FireProbe(a, e)
  \/ \E c \in calls : FinishCallback(c)

Next == Main \/ Receive \/ Worker \/ Streaming

Spec == Init /\ [][Next]_vars

\* Threads run; a pad becomes idle once the buffer it carries is pushed, so
\* a pending probe is called.
Fairness == WF_vars(Main) /\ WF_vars(Worker) /\ WF_vars(Streaming)

FairSpec == Spec /\ Fairness

-----------------------------------------------------------------------------
\* Every variable keeps its type: positions, neighbours and pads are elements of
\* the file, labels are the code's.
TypeOK ==
  /\ initialized \in [Elem -> BOOLEAN]
  /\ linked \in [Elem -> BOOLEAN]
  /\ bin \subseteq Elem
  /\ peer \in [Elem -> Elem \cup {NoElem}]
  /\ probes \in [Elem -> [Elem -> Nat]]
  /\ calls \subseteq CallRec
  /\ pc \in [Thread -> Label]
  /\ at \in [Thread -> Elem]
  /\ nb \in [Thread -> [prev : Elem \cup {NoElem}, next : Elem \cup {NoElem}]]
  /\ op \in {"none", "enable", "disable", "enable_all", "disable_all"}
  /\ pad \in Elem
  /\ reply \in {"none", "Ack", "Nack"}

\* Every path through the pipeline goes forward in the order of the file, no
\* sink pad has two upstreams and nothing outside the bin is linked: no
\* sequence of commands, creations and callbacks makes a cycle or a merge.
LinksForward ==
  /\ \A a \in Elem : peer[a] # NoElem => a < peer[a] /\ a \in bin /\ peer[a] \in bin
  /\ \A a, b \in Elem : peer[a] = peer[b] /\ peer[a] # NoElem => a = b

\* What LinksForward rests on: the links a callback or a thread is about to
\* make lead forward.
PlannedLinksForward ==
  /\ \A c \in calls : c.pad < c.elem /\ c.elem < c.down
  /\ \A t \in Thread : pc[t] \in {"link_prev", "link_next"} =>
       /\ nb[t].prev \in Elem /\ nb[t].next \in Elem
       /\ nb[t].prev < at[t] /\ at[t] < nb[t].next

IInv == TypeOK /\ LinksForward /\ PlannedLinksForward

\* A pending probe finds the element it was meant to remove, or none: no
\* interleaving of commands makes a callback remove another element.
ProbeHitsItsTarget ==
  \A a, e \in Elem : probes[a][e] > 0 => peer[a] \in {e, NoElem}

\* Only optional elements ever leave the pipeline.
MandatoryStay ==
  pc["main"] \notin {"create", "failed"} => Elem \ (Optional \cup Unavailable) \subseteq bin

\* The stream is never cut: outside the two steps of a callback and the ones
\* of linking an element in, the links lead from the first element to the last.
StreamConnected ==
  pc["main"] = "playing" /\ calls = {} /\ nb["worker"] = Nobody =>
    \E S \in SUBSET Elem :
      1 \in S /\ N \in S /\ \A a \in S \ {N} : peer[a] \in S

InStream(e) == peer[e] # NoElem /\ \E a \in Elem : peer[a] = e

\* After an Ack to enable_<element> the element is linked into the stream.
AckedEnableInStream ==
  pc["worker"] = "idle" /\ reply = "Ack" /\ op = "enable" => InStream(at["worker"])

Quiet == pc["worker"] = "idle" /\ pc["main"] = "playing" /\ Settled

\* At rest, an element the flags call disabled has left the pipeline.
DisabledElementIsGone ==
  Quiet => \A e \in Optional : ~initialized[e] => e \notin bin

\* At rest, flags and pipeline tell the same: the created elements are the
\* ones in the bin, all are linked, and the links chain them in file order.
FlagsMatchPipeline ==
  Quiet =>
    /\ bin = {e \in Elem : initialized[e]}
    /\ initialized = linked
    /\ \A e \in bin : IsNextEnabled(e, peer[e])

\* A disable that was accepted takes the element out of the pipeline.
DisableTakesEffect ==
  \A e \in Optional : (pc["worker"] = "clear_flags" /\ at["worker"] = e) ~> e \notin bin

\* Every command is answered.
CommandAnswered == (pc["worker"] # "idle") ~> (pc["worker"] = "idle")
=============================================================================
