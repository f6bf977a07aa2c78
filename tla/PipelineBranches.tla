-------------------------- MODULE PipelineBranches --------------------------
(***************************************************************************)
(* Branch-level reconfiguration: the commands enable_<branch> and          *)
(* disable_<branch>, which the worker thread answers at once, and the      *)
(* probe callbacks that connect and disconnect the branch afterwards.      *)
(* play() has built what is mandatory.  Only branch commands are sent:     *)
(* PipelineElements has those for elements.                                *)
(*                                                                         *)
(* An element is its position in pipeline_elements_.  A tee is the element *)
(* that feeds a branch; the elements of type mux are references to one     *)
(* GstElement they name, Shared.  The field gst_element is not null        *)
(* exactly when is_initialized is set.  A link is a pair of GstElements,   *)
(* so a pad is known by its link.  Each tee has a streaming thread of its  *)
(* own, which runs the callbacks on the tee's pads one at a time.  Each    *)
(* round of a loop of the code is a step.  What a command answers is left  *)
(* out: Ack, unless an element could not be created.                       *)
(***************************************************************************)
EXTENDS Naturals, FiniteSets

CONSTANTS
  N,          \* number of elements in the pipeline file
  BranchOf,   \* PipelineElement::branch
  Optional,   \* elements marked optional, or in a branch marked so
  Feeds,      \* the tees; for each the branch it feeds (its type)
  Mux,        \* elements of type mux
  Named,      \* those with a sink_pad_name
  MayMiss,    \* elements whose plugin may be missing
  MaxProbes,  \* bound: connection probes pending on a tee when one is added
  MaxPads     \* bound: sink pads of a mux reference that are counted

Elem   == 1 .. N
Shared == 0
Obj(e) == IF e \in Mux THEN Shared ELSE e
Object == 0 .. N
Tee    == DOMAIN Feeds
Worker == 0
Thread == Tee \cup {Worker}
Branch == {BranchOf[e] : e \in Elem}

InBranch(e, b) == e \in Elem /\ BranchOf[e] = b

FirstIn == [b \in Branch |-> CHOOSE e \in Elem :
             BranchOf[e] = b /\ \A d \in Elem : BranchOf[d] = b => e <= d]
First(b) == FirstIn[b]

ASSUME BranchesAssumption ==
  /\ N \in Nat \ {0} /\ MaxProbes \in Nat \ {0} /\ MaxPads \in Nat \ {0}
  /\ BranchOf \in [Elem -> Branch]
  /\ Optional \subseteq Elem /\ Mux \subseteq Elem /\ Named \subseteq Mux
  /\ MayMiss \subseteq Optional \ Mux
  /\ Feeds \in [Tee -> Branch] /\ Tee \subseteq Elem \ Mux
  /\ \A s, t \in Tee : Feeds[s] = Feeds[t] => s = t
  /\ \A t \in Tee : Feeds[t] # BranchOf[1]

\* The elements of a branch follow each other and lead to the mux at most once
\* and not at once.  Those of the main branch begin with a mandatory one, those
\* of another are optional all together.
ASSUME BranchesAreWhole ==
  /\ \A b \in Branch : \E f, l \in Elem :
       f <= l /\ \A e \in Elem : BranchOf[e] = b <=> f <= e /\ e <= l
  /\ \A d, e \in Elem : BranchOf[d] = BranchOf[e] /\ BranchOf[e] # BranchOf[1]
                          => (d \in Optional <=> e \in Optional)
  /\ \A d, e \in Mux : BranchOf[d] = BranchOf[e] => d = e
  /\ \A b \in Branch : First(b) \notin Mux
  /\ 1 \notin Optional

VARIABLES
  initialized, linked,  \* PipelineElement::is_initialized, is_linked
  bin,      \* GstElements in gst_pipeline_
  links,    \* linked pads: <<upstream, downstream>>
  pads,     \* sink pads requested from Shared for a mux and not released
  on,       \* number of connection probes pending on the sink pad of a tee
  off,      \* links to whose tee pad a disconnection probe was added
  pc, at,   \* each thread, and the element it is at
  missing,  \* elements without a plugin, as long as the program runs
  crashed,  \* has the process ended by an exception or a bad access?
  clean,    \* history: no call failed, and every command came when the one
            \* before had taken effect and is one the README supports
  asked     \* history, while clean: the branches last asked to be enabled

flags   == <<initialized, linked>>
gst     == <<bin, links, pads>>
probes  == <<on, off>>
history == <<clean, asked>>
vars    == <<flags, gst, probes, pc, at, missing, crashed, history>>

-----------------------------------------------------------------------------
(* What play() has built: the mandatory elements of a branch in a chain, and *)
(* a tee before the first of each branch but the main one.                   *)

Mandatory == Elem \ Optional

BuiltLinks ==
  {<<Obj(l[1]), Obj(l[2])>> : l \in {m \in Mandatory \X Mandatory :
     /\ m[1] < m[2] /\ BranchOf[m[1]] = BranchOf[m[2]]
     /\ \A e \in Mandatory : ~(m[1] < e /\ e < m[2])}}
  \cup {l \in (Tee \cap Mandatory) \X Mandatory :
     Feeds[l[1]] = BranchOf[l[2]] /\ l[2] = First(BranchOf[l[2]])}

\* A mux in it has something before it.
ASSUME MuxIsFed == Mux \subseteq Optional \/ \E l \in BuiltLinks : l[2] = Shared

-----------------------------------------------------------------------------
(* GStreamer, as the code uses it *)

\* A tee gives a new source pad on request, a mux a new sink pad.
Linkable(l, ls) ==
  /\ {l[1], l[2]} \subseteq bin
  /\ l[1] \in Tee \/ \A k \in ls : k[1] # l[1]
  /\ l[2] = Shared \/ \A k \in ls : k[2] # l[2]

LinksOf(o, ls) == {l \in ls : o \in {l[1], l[2]}}

\* Do buffers arrive?
Fed == LET fed[e \in Elem] ==
             e = 1 \/ \E d \in 1 .. e - 1 : <<Obj(d), Obj(e)>> \in links /\ fed[d]
       IN  fed

\* gst_element_set_state(f, NULL) waits for the streaming thread behind f.
Still(f) == \A t \in Tee : BranchOf[t] = BranchOf[f] => pc[t] = "idle"

-----------------------------------------------------------------------------
(* Helpers of PipelineManager *)

TeeFor(b) == {t \in Tee : initialized[t] /\ Feeds[t] = b}

Enabled == {e \in Elem : initialized[e]}
PreviousEnabled(e) == {p \in Enabled : p < e /\ \A i \in p + 1 .. e - 1 : ~initialized[i]}
NextEnabled(e)     == {n \in Enabled : n > e /\ \A i \in e + 1 .. n - 1 : ~initialized[i]}

Goto(th, label, e) == pc' = [pc EXCEPT ![th] = label] /\ at' = [at EXCEPT ![th] = e]

\* The end of a command or a callback.
Return(th) == Goto(th, "idle", 1)

Throw == crashed' = TRUE /\ UNCHANGED <<pc, at>>

-----------------------------------------------------------------------------
(* Worker: commands *)

Settled == off = {} /\ \A t \in Tee : on[t] = 0 /\ pc[t] = "idle"

\* "Enabling branch that forks from disabled branch is unsupported", and so is
\* "disabling branch that was forked and the fork is still enabled".
Disabled(b) == \A e \in Elem : BranchOf[e] = b => ~initialized[e]

Supported(b, label) ==
  \A t \in Tee : /\ label = "enable" /\ Feeds[t] = b => ~Disabled(BranchOf[t])
                 /\ label = "disable" /\ BranchOf[t] = b => Disabled(Feeds[t])

\* A branch has commands as soon as one of its elements is optional.
Receive(b, label) ==
  /\ ~crashed /\ pc[Worker] = "idle"
  /\ label = "enable" => \A t \in TeeFor(b) : on[t] < MaxProbes
  /\ \E e \in Optional : BranchOf[e] = b
  /\ Goto(Worker, label, First(b))
  /\ clean' = (clean /\ Settled /\ Supported(b, label))
  /\ asked' = IF ~clean' THEN {} ELSE IF label = "enable" THEN asked \cup {b} ELSE asked \ {b}
  /\ UNCHANGED <<flags, gst, probes, missing, crashed>>

\* Variant: the loop is left at the first element, as that of enable_<element>.
EnableNextLeave(e) == Goto(Worker, "find_tee", e)

EnableNext(e) == IF InBranch(e + 1, BranchOf[e]) THEN Goto(Worker, "enable", e + 1)
                                                 ELSE Goto(Worker, "find_tee", e)

\* createGstElement, for each element of the branch that is not there yet; a
\* failure with errno zero goes unnoticed.  A mux that exists is retrieved.
EnableCreate ==
  LET e == at[Worker]
  IN  /\ ~crashed /\ pc[Worker] = "enable"
      /\ \/ /\ e \notin Optional \/ initialized[e] \/ linked[e]
            /\ EnableNext(e) /\ UNCHANGED <<initialized, bin, clean>>
         \/ /\ e \in Optional /\ ~initialized[e] /\ ~linked[e]
            /\ e \notin missing
            /\ bin' = bin \cup {Obj(e)}
            /\ initialized' = [initialized EXCEPT ![e] = TRUE]
            /\ EnableNext(e) /\ UNCHANGED clean
         \/ /\ e \in Optional /\ ~initialized[e] /\ ~linked[e] /\ e \in missing
            /\ EnableNext(e) \/ Return(Worker)
            /\ clean' = FALSE
            /\ UNCHANGED <<initialized, bin>>
      /\ UNCHANGED <<linked, links, pads, probes, missing, crashed, asked>>

\* findTeeElementForBranch: nothing catches what it throws on the worker.
EnableFindTee ==
  /\ ~crashed /\ pc[Worker] = "find_tee"
  /\ LET tees == TeeFor(BranchOf[at[Worker]])
     IN  IF tees = {} THEN Throw
         ELSE (\E t \in tees : Goto(Worker, "add_probe", t)) /\ UNCHANGED crashed
  /\ UNCHANGED <<flags, gst, probes, missing, history>>

\* The pointer of a GstElement that has left the pipeline dangles.
Dangling == \/ Throw
            \/ Return(Worker) /\ UNCHANGED crashed

EnableAddProbe ==
  LET t == at[Worker]
  IN  /\ ~crashed /\ pc[Worker] = "add_probe"
      /\ IF t \in bin
         THEN /\ on' = [on EXCEPT ![t] = @ + 1]
              /\ Return(Worker) /\ UNCHANGED crashed
         ELSE Dangling /\ UNCHANGED on
      /\ UNCHANGED <<flags, gst, off, missing, history>>

\* disableOptionalPipelineBranch looks at copies of the two elements; what it
\* takes for disabled, it leaves alone and answers Ack.
DisableFindElements ==
  LET f == at[Worker]
      tees == TeeFor(BranchOf[f])
  IN  /\ ~crashed /\ pc[Worker] = "disable"
      /\ IF tees = {} THEN Throw
         ELSE /\ IF f \in Optional /\ linked[f]
                 THEN \E t \in tees : Goto(Worker, "find_pad", t)
                 ELSE Return(Worker)
              /\ UNCHANGED crashed
      /\ UNCHANGED <<flags, gst, probes, missing, history>>

\* handleBranchDisconnectionCallback, up to disconnectBranch(): stop the first
\* element, unlink it from the tee, find it in the list.
Disconnect(th, l) ==
  /\ Still(l[2])
  /\ links' = links \ {l} /\ off' = off \ {l}
  /\ \E e \in Enabled : /\ Obj(e) = l[2] /\ \A d \in Enabled : Obj(d) = l[2] => e <= d
                        /\ Goto(th, "disconnect", e)

\* A busy pad keeps the probe for later, an idle one has it called at once.
DisableAddProbe ==
  LET l == <<at[Worker], First(Feeds[at[Worker]])>>
  IN  /\ ~crashed /\ pc[Worker] = "find_pad"
      /\ \/ /\ ~({l[1], l[2]} \subseteq bin)
            /\ Dangling /\ UNCHANGED <<links, off>>
         \/ /\ {l[1], l[2]} \subseteq bin /\ l \notin links
            /\ Return(Worker) /\ UNCHANGED <<links, off, crashed>>
         \/ /\ l \in links /\ Fed[l[1]]
            /\ off' = off \cup {l}
            /\ Return(Worker) /\ UNCHANGED <<links, crashed>>
         \/ /\ l \in links
            /\ Disconnect(Worker, l) /\ UNCHANGED crashed
      /\ UNCHANGED <<flags, bin, pads, on, missing, history>>

-----------------------------------------------------------------------------
(* Callbacks *)

DisconnectProbe(l) ==
  /\ ~crashed /\ l \in off /\ pc[l[1]] = "idle" /\ Fed[l[1]]
  /\ Disconnect(l[1], l)
  /\ UNCHANGED <<flags, bin, pads, on, missing, crashed, history>>

\* gst_bin_remove(mux): its links go with it.
MuxRemoved == bin' = bin \ {Shared} /\ links' = links \ LinksOf(Shared, links)

ReleasePad(m) ==
  pads' = IF m \in Named /\ pads[m] > 0 THEN [pads EXCEPT ![m] = @ - 1] ELSE pads

MuxIsUsed == \E l \in links : l[2] = Shared

\* Variants for the mutants of PROJECT.json: the pad is not released, the mux
\* is removed whoever uses it.
DisconnectMuxKeepPad(m) ==
  /\ IF MuxIsUsed THEN UNCHANGED <<bin, links>> ELSE MuxRemoved
  /\ UNCHANGED <<pads, probes>>

DisconnectMuxAlways(m) == ReleasePad(m) /\ MuxRemoved /\ UNCHANGED probes

\* disconnectMuxElement: the named pad is released, and the mux removed when
\* no other pad is linked.
DisconnectMux(m) ==
  /\ ReleasePad(m)
  /\ IF MuxIsUsed THEN UNCHANGED <<bin, links>> ELSE MuxRemoved
  /\ UNCHANGED probes

\* gst_bin_remove: links and pads go with the element, and so do the probes.
RemoveElement(e) ==
  /\ bin' = bin \ {e}
  /\ links' = links \ LinksOf(e, links)
  /\ on' = [t \in Tee |-> IF t = e THEN 0 ELSE on[t]]
  /\ off' = off \ LinksOf(e, off)
  /\ UNCHANGED pads

\* Variant: one flag is forgotten.
ResetLinkedOnly(e) == linked' = [linked EXCEPT ![e] = FALSE] /\ UNCHANGED initialized

ResetPipelineElement(e) == /\ initialized' = [initialized EXCEPT ![e] = FALSE]
                           /\ linked' = [linked EXCEPT ![e] = FALSE]

\* disconnectBranch goes on while the branch is the same, without looking for
\* the end of the list: what is behind it ends the loop, or the process.  A mux
\* that is null ends the process as well.
DisconnectElement(th) ==
  LET e == at[th]
  IN  /\ ~crashed /\ pc[th] = "disconnect" /\ e \in Elem
      /\ IF e \in Mux /\ ~initialized[e] THEN Throw /\ UNCHANGED <<flags, gst, probes>>
         ELSE /\ IF ~initialized[e] THEN UNCHANGED <<gst, probes>>
                 ELSE IF e \in Mux THEN DisconnectMux(e) ELSE RemoveElement(e)
              /\ ResetPipelineElement(e)
              /\ IF e = N \/ InBranch(e + 1, BranchOf[e])
                 THEN Goto(th, "disconnect", e + 1)
                 ELSE Return(th)
              /\ UNCHANGED crashed
      /\ UNCHANGED <<missing, history>>

\* Variant: the walk goes on behind the end.
DisconnectPastEndOnwards(th) ==
  /\ ~crashed /\ pc[th] = "disconnect" /\ at[th] > N
  /\ Goto(th, "disconnect", at[th] + 1)
  /\ UNCHANGED <<flags, gst, probes, missing, crashed, history>>

DisconnectPastEnd(th) ==
  /\ ~crashed /\ pc[th] = "disconnect" /\ at[th] = N + 1
  /\ Throw \/ (Return(th) /\ UNCHANGED crashed)
  /\ UNCHANGED <<flags, gst, probes, missing, history>>

\* Variant: the callback keeps its probe.
ConnectProbeStays(t) ==
  /\ ~crashed /\ on[t] > 0 /\ pc[t] = "idle" /\ t \in bin /\ Fed[t]
  /\ Goto(t, "connect", First(Feeds[t]))
  /\ UNCHANGED <<flags, gst, probes, missing, crashed, history>>

\* handleBranchConnectionCallback: the tee is blocked until it returns.
ConnectProbe(t) ==
  /\ ~crashed /\ on[t] > 0 /\ pc[t] = "idle" /\ t \in bin /\ Fed[t]
  /\ on' = [on EXCEPT ![t] = @ - 1]
  /\ Goto(t, "connect", First(Feeds[t]))
  /\ UNCHANGED <<flags, gst, off, missing, crashed, history>>

\* linkGstElement: the links it asks for, to the next element or, between two
\* neighbours, to both, and from the tee to the first element enabled.
ToNext(e) == {<<Obj(e), Obj(n)>> :
                n \in {m \in NextEnabled(e) : BranchOf[m] = BranchOf[e] /\ ~linked[m]}}
Neighbours(e) ==
  {l \in PreviousEnabled(e) \X NextEnabled(e) : BranchOf[l[1]] = BranchOf[l[2]]}
Between(e) == {<<Obj(l[1]), Obj(e)>> : l \in Neighbours(e)}
                \cup {<<Obj(e), Obj(l[2])>> : l \in Neighbours(e)}
FromTee(e, t) == {<<t, Obj(e)>> : p \in {q \in PreviousEnabled(e) : BranchOf[q] # BranchOf[e]}}

ConnectElement(t) ==
  LET e == at[t]
      between == ToNext(e) = {} /\ Neighbours(e) # {}
      wanted  == ToNext(e) \cup (IF between THEN Between(e) ELSE {}) \cup FromTee(e, t)
      kept    == IF between THEN links \ {<<Obj(l[1]), Obj(l[2])>> : l \in Neighbours(e)}
                            ELSE links
      Advance == IF InBranch(e + 1, Feeds[t]) THEN Goto(t, "connect", e + 1)
                                              ELSE Return(t)
  IN  /\ ~crashed /\ pc[t] = "connect"
      /\ \/ /\ ~(e \in Optional /\ initialized[e] /\ ~linked[e])
            /\ Advance /\ UNCHANGED <<linked, links, pads, clean>>
         \/ /\ e \in Optional /\ initialized[e] /\ ~linked[e]
            /\ \E made \in SUBSET wanted, ok \in BOOLEAN :
                 /\ \A l \in made : Linkable(l, kept)
                 /\ made = wanted => ok
                 /\ ~ok => made \cap FromTee(e, t) = {}
                 /\ links' = kept \cup made
                 /\ linked' = IF made = wanted \/ (ok /\ ~between)
                              THEN [linked EXCEPT ![e] = TRUE] ELSE linked
                 /\ pads' = [m \in Mux |-> IF m \in NextEnabled(e) /\ <<e, Shared>> \in wanted
                                              /\ pads[m] < MaxPads
                                           THEN pads[m] + 1 ELSE pads[m]]
                 /\ clean' = (clean /\ made = wanted)
                 /\ IF ok THEN Advance ELSE Return(t)
      /\ UNCHANGED <<initialized, bin, probes, missing, crashed, asked>>

-----------------------------------------------------------------------------
Init ==
  /\ initialized = [e \in Elem |-> e \notin Optional]
  /\ linked = initialized
  /\ bin = {Obj(e) : e \in Mandatory}
  /\ links = BuiltLinks
  /\ pads = [m \in Mux |-> IF m \in Optional THEN 0 ELSE 1]
  /\ on = [t \in Tee |-> 0]
  /\ off = {}
  /\ pc = [th \in Thread |-> "idle"]
  /\ at = [th \in Thread |-> 1]
  /\ missing \in SUBSET MayMiss
  /\ crashed = FALSE /\ clean = TRUE /\ asked = {}

Command == \E b \in Branch, label \in {"enable", "disable"} : Receive(b, label)

WorkerStep ==
  \/ EnableCreate \/ EnableFindTee \/ EnableAddProbe
  \/ DisableFindElements \/ DisableAddProbe
  \/ DisconnectElement(Worker) \/ DisconnectPastEnd(Worker)

Streaming(t) ==
  \/ ConnectProbe(t) \/ ConnectElement(t)
  \/ \E l \in off : l[1] = t /\ DisconnectProbe(l)
  \/ DisconnectElement(t) \/ DisconnectPastEnd(t)

Next == Command \/ WorkerStep \/ \E t \in Tee : Streaming(t)

Spec == Init /\ [][Next]_vars

\* Threads run, and data flows through every tee that is fed.
FairSpec == Spec /\ WF_vars(WorkerStep) /\ \A t \in Tee : WF_vars(Streaming(t))

-----------------------------------------------------------------------------
Label == {"idle", "enable", "find_tee", "add_probe", "disable", "find_pad",
          "connect", "disconnect"}

\* Every variable keeps its type; a thread is at most one element behind the list.
TypeOK ==
  /\ initialized \in [Elem -> BOOLEAN] /\ linked \in [Elem -> BOOLEAN]
  /\ bin \subseteq Object
  /\ links \subseteq Object \X Object
  /\ pads \in [Mux -> Nat]
  /\ on \in [Tee -> Nat]
  /\ off \subseteq Tee \X Elem
  /\ pc \in [Thread -> Label]
  /\ at \in [Thread -> 1 .. N + 1]
  /\ missing \subseteq MayMiss
  /\ crashed \in BOOLEAN /\ clean \in BOOLEAN /\ asked \subseteq Branch

\* Whatever branch commands come, in whatever order and however they fail, what
\* play() has built is left as it is: disconnectBranch stays in its branch, and
\* disconnectMuxElement takes the mux away from nobody.
BuiltPartStays == BuiltLinks \subseteq links /\ {Obj(e) : e \in Mandatory} \subseteq bin

OptionalBranch == {b \in Branch : First(b) \in Optional /\ b # BranchOf[1]}
ElementsOf(b)  == {e \in Elem : BranchOf[e] = b}

Chained(b) == /\ \A e \in ElementsOf(b) : initialized[e]
              /\ \A e \in ElementsOf(b) : e + 1 \in ElementsOf(b) =>
                                             <<Obj(e), Obj(e + 1)>> \in links

On(b)  == /\ Chained(b) /\ \A e \in ElementsOf(b) : linked[e]
          /\ \E t \in Tee : Feeds[t] = b /\ <<t, First(b)>> \in links
Off(b) == \A e \in ElementsOf(b) : /\ ~initialized[e] /\ ~linked[e]
                                   /\ e \in Mux \/ e \notin bin

AtRest == pc[Worker] = "idle" /\ Settled

\* With supported commands, each sent when the one before has taken effect, and
\* no call that fails, each optional branch is as the last command about it
\* asked: all of it in the stream, or none of it in the pipeline.  A mux has one
\* pad for each reference to it that is linked (disconnectMuxElement).
BranchAsAsked ==
  AtRest /\ clean /\ ~crashed =>
    /\ \A b \in OptionalBranch : IF b \in asked THEN On(b) ELSE Off(b)
    /\ \A m \in Named : pads[m] = IF linked[m] THEN 1 ELSE 0

\* A tee never sends data into a part of a branch: connectBranch holds it until
\* all is linked, and the first to be disconnected is the tee's own link.
FlowsOnlyIntoWhole ==
  clean => \A b \in OptionalBranch, t \in Tee :
             <<t, First(b)>> \in links /\ pc[t] # "connect" => Chained(b)

\* With such commands the process ends in two places only: where disconnectBranch
\* looks behind the last element of the file, and where a command looks for the
\* tee of a branch that has none, as the main branch, or whose tee is optional and
\* in a branch that is not asked for.  No tee that should be there is missed, no
\* pointer to an element that has left is used, and no mux is null.
CrashIsKnown ==
  clean /\ crashed =>
    \/ \E th \in Thread : pc[th] = "disconnect" /\ at[th] = N + 1
    \/ /\ pc[Worker] \in {"find_tee", "disable"}
       /\ \A t \in Tee : Feeds[t] = BranchOf[at[Worker]] =>
                          t \in Optional /\ BranchOf[t] \notin asked

\* What a command begins comes to an end, whatever failed before and however
\* commands overlap.  No thread stays in a loop or in a wait for another forever.
\* A connection probe is called as long as data arrives at its tee, and so is a
\* disconnection probe, once commands cease: each may give the threads behind the
\* branch, which its callback waits for, something else to do.
CommandsTakeEffect ==
  /\ \A th \in Thread : []<>(pc[th] = "idle" \/ crashed)
  /\ \A t \in Tee : []<>(on[t] = 0 \/ ~Fed[t] \/ crashed)
  /\ \A t \in Tee : []<>(<<t, First(Feeds[t])>> \notin off \/ ~Fed[t] \/ crashed
                          \/ pc[Worker] # "idle")
=============================================================================
