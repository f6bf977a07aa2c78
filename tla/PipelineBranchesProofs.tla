------------------------ MODULE PipelineBranchesProofs ------------------------
(* Theorems about PipelineBranches, for any file with branches as assumed.  *)
EXTENDS PipelineBranches, WellFoundedInduction, TLAPS

-----------------------------------------------------------------------------
(* The constants *)

LEMMA Constants ==
  /\ N \in Nat \ {0} /\ MaxPads \in Nat /\ MaxProbes \in Nat
  /\ Elem = 1 .. N /\ Shared = 0 /\ Worker = 0 /\ Object = 0 .. N
  /\ Optional \subseteq Elem /\ Mux \subseteq Elem /\ Named \subseteq Mux
  /\ MayMiss \subseteq Optional /\ Tee \subseteq Elem
  /\ \A e \in Elem : BranchOf[e] \in Branch
  /\ \A t \in Tee : Feeds[t] \in Branch /\ Feeds[t] # BranchOf[1] /\ t \notin Mux
  /\ Thread = Tee \cup {0} /\ 0 \notin Tee /\ 0 \notin Elem
<1>1. N \in Nat \ {0} /\ MaxPads \in Nat /\ MaxProbes \in Nat
  BY BranchesAssumption
<1>2. Elem = 1 .. N /\ Shared = 0 /\ Worker = 0 /\ Object = 0 .. N
  BY DEF Elem, Shared, Worker, Object
<1>3. /\ Optional \subseteq Elem /\ Mux \subseteq Elem /\ Named \subseteq Mux
      /\ MayMiss \subseteq Optional /\ Tee \subseteq Elem
      /\ \A t \in Tee : t \notin Mux
  BY BranchesAssumption
<1>4. \A e \in Elem : BranchOf[e] \in Branch
  BY BranchesAssumption
<1>5. \A t \in Tee : Feeds[t] \in Branch /\ Feeds[t] # BranchOf[1]
  BY BranchesAssumption
<1>6. 0 \notin Elem /\ 0 \notin Tee /\ Thread = Tee \cup {0}
  BY <1>1, <1>2, <1>3 DEF Thread
<1>7. QED BY <1>1, <1>2, <1>3, <1>4, <1>5, <1>6

\* The first element of a branch exists, as its elements are a run of numbers.
LEMMA FirstOfBranch ==
  ASSUME NEW b \in Branch
  PROVE  First(b) \in Elem \ Mux /\ BranchOf[First(b)] = b
<1>1. PICK f \in Elem, l \in Elem :
        f <= l /\ \A e \in Elem : BranchOf[e] = b <=> f <= e /\ e <= l
  BY BranchesAreWhole
<1>2. BranchOf[f] = b /\ \A d \in Elem : BranchOf[d] = b => f <= d
  BY <1>1, Constants
<1>3. First(b) \in Elem /\ BranchOf[First(b)] = b
  BY <1>2 DEF First, FirstIn
<1>4. QED BY <1>3, BranchesAreWhole

\* Between two elements of a branch there are none of another.
LEMMA Contiguous ==
  ASSUME NEW d \in Elem, NEW e \in Elem, NEW f \in Elem,
         d < e, e < f, BranchOf[d] = BranchOf[f]
  PROVE  BranchOf[e] = BranchOf[d]
<1>1. PICK g \in Elem, l \in Elem :
        g <= l /\ \A i \in Elem : BranchOf[i] = BranchOf[d] <=> g <= i /\ i <= l
  BY BranchesAreWhole, Constants
<1>2. g <= d /\ f <= l
  BY <1>1
<1>3. QED BY <1>1, <1>2, Constants

LEMMA ObjType == \A e \in Elem : /\ Obj(e) \in Object
                                 /\ e \notin Mux => Obj(e) = e
                                 /\ e \in Mux => Obj(e) = 0
BY Constants DEF Obj

\* The ends of what play() links are mandatory elements, and not both the mux.
LEMMA BuiltEnds ==
  ASSUME NEW l \in BuiltLinks
  PROVE  /\ l = <<l[1], l[2]>>
         /\ l[1] \in Object /\ (l[1] # 0 => l[1] \in Elem \ Optional)
         /\ l[2] \in Object /\ (l[2] # 0 => l[2] \in Elem \ Optional)
         /\ ~(l[1] = 0 /\ l[2] = 0)
<1>1. CASE \E m \in Mandatory \X Mandatory :
             /\ l = <<Obj(m[1]), Obj(m[2])>>
             /\ m[1] < m[2] /\ BranchOf[m[1]] = BranchOf[m[2]]
  <2>1. PICK c \in Mandatory, d \in Mandatory :
          /\ l = <<Obj(c), Obj(d)>> /\ c < d /\ BranchOf[c] = BranchOf[d]
    BY <1>1
  <2>2. ~(c \in Mux /\ d \in Mux)
    BY <2>1, BranchesAreWhole, Constants DEF Mandatory
  <2>3. QED BY <2>1, <2>2, ObjType, Constants DEF Mandatory
<1>2. CASE l \in (Tee \cap Mandatory) \X Mandatory
  BY <1>2, Constants DEF Mandatory
<1>3. QED BY <1>1, <1>2 DEF BuiltLinks

-----------------------------------------------------------------------------
(* The invariant: what is taken out of the pipeline belongs to an optional   *)
(* branch, from the command through the pending probe to the callback.       *)

OptionalPart(e) == e \in Optional /\ BranchOf[e] # BranchOf[1]

PlaceOK(th, label, e) ==
  /\ label \in {"enable", "find_tee", "disable"} => e \in Elem
  /\ label \in {"find_pad", "add_probe"} => e \in Tee
  /\ label = "find_pad" => OptionalPart(First(Feeds[e]))
  /\ label = "disconnect" /\ e \in Elem => OptionalPart(e)
  /\ label = "connect" => th \in Tee /\ e \in Elem /\ BranchOf[e] = Feeds[th]

ProbesOK == \A l \in off : l[2] = First(Feeds[l[1]]) /\ OptionalPart(l[2])
PlacesOK == \A th \in Thread : PlaceOK(th, pc[th], at[th])

IInv == TypeOK /\ ProbesOK /\ PlacesOK /\ BuiltPartStays

\* A link to or from an optional element that is not a mux was not built.
LEMMA OptionalLink ==
  ASSUME NEW l \in BuiltLinks, NEW e \in Optional \ Mux
  PROVE  e \notin {l[1], l[2]}
BY BuiltEnds, Constants

-----------------------------------------------------------------------------
(* Where the threads are *)

Moves == /\ pc' \in [Thread -> Label] /\ at' \in [Thread -> 1 .. N + 1]
         /\ PlacesOK'

LEMMA Stays == TypeOK /\ PlacesOK /\ UNCHANGED <<pc, at>> => Moves
BY DEF TypeOK, PlacesOK, Moves

LEMMA GoneTo ==
  ASSUME TypeOK, PlacesOK, NEW th \in Thread, NEW label \in Label, NEW e \in 1 .. N + 1,
         PlaceOK(th, label, e), Goto(th, label, e)
  PROVE  Moves
<1>1. pc' \in [Thread -> Label] /\ at' \in [Thread -> 1 .. N + 1]
  BY DEF Goto, TypeOK
<1>2. ASSUME NEW o \in Thread
      PROVE  PlaceOK(o, pc'[o], at'[o])
  <2>1. CASE o = th
    <3>1. pc'[o] = label /\ at'[o] = e
      BY <2>1 DEF Goto, TypeOK
    <3>2. QED BY <2>1, <3>1
  <2>2. CASE o # th
    <3>1. pc'[o] = pc[o] /\ at'[o] = at[o]
      BY <2>2 DEF Goto, TypeOK
    <3>2. QED BY <3>1 DEF PlacesOK
  <2>3. QED BY <2>1, <2>2
<1>3. PlacesOK'
  BY <1>2 DEF PlacesOK
<1>4. QED BY <1>1, <1>3 DEF Moves

LEMMA Returned ==
  ASSUME TypeOK, PlacesOK, NEW th \in Thread, Return(th)
  PROVE  Moves
<1>1. PlaceOK(th, "idle", 1) /\ "idle" \in Label /\ 1 \in 1 .. N + 1
  BY Constants DEF PlaceOK, Label
<1>2. QED BY <1>1, GoneTo DEF Return

LEMMA Thrown == TypeOK /\ PlacesOK /\ Throw => Moves /\ crashed' \in BOOLEAN
BY Stays DEF Throw

LEMMA Dangled == TypeOK /\ PlacesOK /\ Dangling => Moves /\ crashed' \in BOOLEAN
<1>1. Worker \in Thread
  BY Constants
<1>2. QED BY <1>1, Thrown, Returned DEF Dangling, TypeOK

-----------------------------------------------------------------------------
(* Worker: commands *)

LEMMA IInit == Init => IInv
<1> SUFFICES ASSUME Init PROVE IInv
    OBVIOUS
<1>1. TypeOK
  <2>1. \A e \in Mandatory : Obj(e) \in Object
    BY ObjType DEF Mandatory
  <2>2. bin \subseteq Object
    <3>1. bin = {Obj(e) : e \in Mandatory}
      BY DEF Init
    <3>2. QED BY <2>1, <3>1
  <2>3. links \subseteq Object \X Object
    <3>1. \A l \in BuiltLinks : l \in Object \X Object
      BY BuiltEnds
    <3>2. links = BuiltLinks
      BY DEF Init
    <3>3. QED BY <3>1, <3>2
  <2>4. at \in [Thread -> 1 .. N + 1] /\ pc \in [Thread -> Label]
    BY Constants DEF Init, Label
  <2>5. QED BY <2>2, <2>3, <2>4, Constants DEF Init, TypeOK
<1>2. ProbesOK
  BY DEF Init, ProbesOK
<1>3. PlacesOK
  BY DEF Init, PlacesOK, PlaceOK
<1>4. BuiltPartStays
  BY DEF Init, BuiltPartStays
<1>5. QED BY <1>1, <1>2, <1>3, <1>4 DEF IInv

LEMMA IReceive ==
  ASSUME IInv, NEW b \in Branch, NEW label \in {"enable", "disable"}, Receive(b, label)
  PROVE  IInv'
<1>1. Moves
  <2>1. First(b) \in Elem /\ First(b) \in 1 .. N + 1
    BY FirstOfBranch, Constants
  <2>2. PlaceOK(Worker, label, First(b)) /\ label \in Label /\ Worker \in Thread
    BY <2>1, Constants DEF PlaceOK, Label
  <2>3. QED BY <2>1, <2>2, GoneTo DEF Receive, IInv
<1>2. clean' \in BOOLEAN
  <2>1. Settled \in BOOLEAN /\ Supported(b, label) \in BOOLEAN
    BY DEF Settled, Supported
  <2>2. QED BY <2>1 DEF Receive, IInv, TypeOK
<1>3. asked' \subseteq Branch
  BY DEF Receive, IInv, TypeOK
<1>4. TypeOK'
  BY <1>1, <1>2, <1>3 DEF Receive, IInv, TypeOK, Moves, flags, gst, probes
<1>5. ProbesOK' /\ BuiltPartStays'
  BY DEF Receive, IInv, ProbesOK, BuiltPartStays, gst, probes
<1>6. QED BY <1>1, <1>4, <1>5 DEF IInv, Moves

LEMMA IEnableNext ==
  ASSUME IInv, pc[Worker] = "enable", EnableNext(at[Worker])
  PROVE  Moves
<1> DEFINE e == at[Worker]
<1>1. e \in Elem /\ Worker \in Thread
  BY Constants DEF IInv, PlacesOK, PlaceOK
<1>2. CASE InBranch(e + 1, BranchOf[e])
  <2>1. e + 1 \in Elem /\ e + 1 \in 1 .. N + 1
    BY <1>2, Constants DEF InBranch
  <2>2. PlaceOK(Worker, "enable", e + 1) /\ "enable" \in Label
    BY <2>1 DEF PlaceOK, Label
  <2>3. QED BY <1>1, <1>2, <2>1, <2>2, GoneTo DEF EnableNext, IInv
<1>3. CASE ~InBranch(e + 1, BranchOf[e])
  <2>1. PlaceOK(Worker, "find_tee", e) /\ "find_tee" \in Label /\ e \in 1 .. N + 1
    BY <1>1, Constants DEF PlaceOK, Label
  <2>2. QED BY <1>1, <1>3, <2>1, GoneTo DEF EnableNext, IInv
<1>4. QED BY <1>2, <1>3

LEMMA IEnableCreate ==
  ASSUME IInv, EnableCreate
  PROVE  IInv'
<1>1. Worker \in Thread /\ at[Worker] \in Elem /\ pc[Worker] = "enable"
  BY Constants DEF EnableCreate, IInv, PlacesOK, PlaceOK
<1>2. Moves
  <2>1. EnableNext(at[Worker]) \/ Return(Worker)
    BY DEF EnableCreate
  <2>2. QED BY <1>1, <2>1, IEnableNext, Returned DEF IInv
<1>3. /\ bin \subseteq bin' /\ bin' \subseteq Object
      /\ initialized' \in [Elem -> BOOLEAN] /\ clean' \in BOOLEAN
  BY <1>1, ObjType DEF EnableCreate, IInv, TypeOK
<1>4. UNCHANGED <<linked, links, pads, probes, missing, crashed, asked>>
  BY DEF EnableCreate
<1>5. TypeOK'
  BY <1>2, <1>3, <1>4 DEF IInv, TypeOK, Moves, probes
<1>6. ProbesOK' /\ BuiltPartStays'
  BY <1>3, <1>4 DEF IInv, ProbesOK, BuiltPartStays, probes
<1>7. QED BY <1>2, <1>5, <1>6 DEF IInv, Moves

LEMMA IEnableFindTee ==
  ASSUME IInv, EnableFindTee
  PROVE  IInv'
<1> DEFINE tees == TeeFor(BranchOf[at[Worker]])
<1>1. Moves /\ crashed' \in BOOLEAN
  <2>1. CASE Throw
    BY <2>1, Thrown DEF IInv
  <2>2. CASE (\E t \in tees : Goto(Worker, "add_probe", t)) /\ UNCHANGED crashed
    <3>1. PICK t \in tees : Goto(Worker, "add_probe", t)
      BY <2>2
    <3>2. t \in Tee /\ t \in 1 .. N + 1 /\ Worker \in Thread
      BY Constants DEF TeeFor
    <3>3. PlaceOK(Worker, "add_probe", t) /\ "add_probe" \in Label
      BY <3>2 DEF PlaceOK, Label
    <3>4. QED BY <2>2, <3>1, <3>2, <3>3, GoneTo DEF IInv, TypeOK
  <2>3. QED BY <2>1, <2>2 DEF EnableFindTee
<1>2. UNCHANGED <<flags, gst, probes, missing, history>>
  BY DEF EnableFindTee
<1>3. TypeOK'
  BY <1>1, <1>2 DEF IInv, TypeOK, Moves, flags, gst, probes, history
<1>4. ProbesOK' /\ BuiltPartStays'
  BY <1>2 DEF IInv, ProbesOK, BuiltPartStays, gst, probes
<1>5. QED BY <1>1, <1>3, <1>4 DEF IInv, Moves

LEMMA IEnableAddProbe ==
  ASSUME IInv, EnableAddProbe
  PROVE  IInv'
<1>1. Worker \in Thread /\ at[Worker] \in Tee
  BY Constants DEF EnableAddProbe, IInv, PlacesOK, PlaceOK
<1>2. Moves /\ crashed' \in BOOLEAN /\ on' \in [Tee -> Nat]
  <2>1. CASE at[Worker] \in bin
    BY <1>1, <2>1, Returned DEF EnableAddProbe, IInv, TypeOK
  <2>2. CASE at[Worker] \notin bin
    BY <2>2, Dangled DEF EnableAddProbe, IInv, TypeOK
  <2>3. QED BY <2>1, <2>2
<1>3. UNCHANGED <<flags, gst, off, missing, history>>
  BY DEF EnableAddProbe
<1>4. TypeOK'
  BY <1>2, <1>3 DEF IInv, TypeOK, Moves, flags, gst, history
<1>5. ProbesOK' /\ BuiltPartStays'
  BY <1>3 DEF IInv, ProbesOK, BuiltPartStays, gst
<1>6. QED BY <1>2, <1>4, <1>5 DEF IInv, Moves

LEMMA IDisableFindElements ==
  ASSUME IInv, DisableFindElements
  PROVE  IInv'
<1> DEFINE f == at[Worker]
           tees == TeeFor(BranchOf[f])
<1>1. Worker \in Thread /\ f \in Elem
  BY Constants DEF DisableFindElements, IInv, PlacesOK, PlaceOK
<1>2. Moves /\ crashed' \in BOOLEAN
  <2>1. CASE Throw
    BY <2>1, Thrown DEF IInv
  <2>2. CASE Return(Worker) /\ UNCHANGED crashed
    BY <1>1, <2>2, Returned DEF IInv, TypeOK
  <2>3. CASE f \in Optional /\ (\E t \in tees : Goto(Worker, "find_pad", t)) /\ UNCHANGED crashed
    <3>1. PICK t \in tees : Goto(Worker, "find_pad", t)
      BY <2>3
    <3>2. /\ t \in Tee /\ t \in 1 .. N + 1 /\ Feeds[t] = BranchOf[f]
          /\ Feeds[t] \in Branch /\ Feeds[t] # BranchOf[1]
      BY Constants DEF TeeFor
    <3>3. OptionalPart(First(Feeds[t]))
      <4>1. First(Feeds[t]) \in Elem /\ BranchOf[First(Feeds[t])] = BranchOf[f]
        BY <3>2, FirstOfBranch
      <4>2. QED BY <1>1, <2>3, <3>2, <4>1, BranchesAreWhole DEF OptionalPart
    <3>4. PlaceOK(Worker, "find_pad", t) /\ "find_pad" \in Label
      BY <3>2, <3>3 DEF PlaceOK, Label
    <3>5. QED BY <1>1, <2>3, <3>1, <3>2, <3>4, GoneTo DEF IInv, TypeOK
  <2>4. QED BY <2>1, <2>2, <2>3 DEF DisableFindElements
<1>3. UNCHANGED <<flags, gst, probes, missing, history>>
  BY DEF DisableFindElements
<1>4. TypeOK'
  BY <1>2, <1>3 DEF IInv, TypeOK, Moves, flags, gst, probes, history
<1>5. ProbesOK' /\ BuiltPartStays'
  BY <1>3 DEF IInv, ProbesOK, BuiltPartStays, gst, probes
<1>6. QED BY <1>2, <1>4, <1>5 DEF IInv, Moves

-----------------------------------------------------------------------------
(* Taking a branch out *)

\* What is unlinked first is the link of an optional branch to its tee.
LEMMA Disconnected ==
  ASSUME IInv, NEW th \in Thread, NEW t \in Tee, NEW l, l = <<t, First(Feeds[t])>>,
         OptionalPart(First(Feeds[t])), Disconnect(th, l), UNCHANGED bin
  PROVE  /\ Moves /\ BuiltPartStays' /\ ProbesOK'
         /\ links' \subseteq Object \X Object /\ off' \subseteq Tee \X Elem
<1>1. First(Feeds[t]) \in Elem \ Mux /\ First(Feeds[t]) \in Optional \ Mux
  BY FirstOfBranch, Constants DEF OptionalPart
<1>2. Moves
  <2>1. PICK e \in Enabled : Obj(e) = l[2] /\ Goto(th, "disconnect", e)
    BY DEF Disconnect
  <2>2. e \in Elem /\ e = First(Feeds[t])
    BY <1>1, <2>1, Constants DEF Enabled, Obj
  <2>3. PlaceOK(th, "disconnect", e) /\ "disconnect" \in Label /\ e \in 1 .. N + 1
    BY <2>2, Constants DEF PlaceOK, Label
  <2>4. QED BY <2>1, <2>3, GoneTo DEF IInv
<1>3. l \notin BuiltLinks
  BY <1>1, OptionalLink
<1>4. links' = links \ {l} /\ off' = off \ {l}
  BY DEF Disconnect
<1>5. BuiltPartStays'
  BY <1>3, <1>4 DEF IInv, BuiltPartStays
<1>6. ProbesOK'
  BY <1>4 DEF IInv, ProbesOK
<1>7. QED BY <1>2, <1>4, <1>5, <1>6 DEF IInv, TypeOK

LEMMA IDisableAddProbe ==
  ASSUME IInv, DisableAddProbe
  PROVE  IInv'
<1> DEFINE t == at[Worker]
           l == <<t, First(Feeds[t])>>
<1>1. Worker \in Thread /\ t \in Tee /\ OptionalPart(First(Feeds[t]))
  BY Constants DEF DisableAddProbe, IInv, PlacesOK, PlaceOK
<1>2. First(Feeds[t]) \in Elem
  BY <1>1, FirstOfBranch, Constants
<1>3. UNCHANGED <<flags, bin, pads, on, missing, history>>
  BY DEF DisableAddProbe
<1>4. /\ Moves /\ crashed' \in BOOLEAN /\ ProbesOK' /\ BuiltPartStays'
      /\ links' \subseteq Object \X Object /\ off' \subseteq Tee \X Elem
  <2>1. CASE Dangling /\ UNCHANGED <<links, off>>
    BY <1>3, <2>1, Dangled DEF IInv, TypeOK, ProbesOK, BuiltPartStays
  <2>2. CASE Return(Worker) /\ UNCHANGED <<links, off, crashed>>
    BY <1>1, <1>3, <2>2, Returned DEF IInv, TypeOK, ProbesOK, BuiltPartStays
  <2>3. CASE /\ off' = off \cup {l}
             /\ Return(Worker) /\ UNCHANGED <<links, crashed>>
    <3>1. Moves /\ crashed' \in BOOLEAN
      BY <1>1, <2>3, Returned DEF IInv, TypeOK
    <3>2. ProbesOK'
      BY <1>1, <2>3 DEF IInv, ProbesOK
    <3>3. links' \subseteq Object \X Object /\ off' \subseteq Tee \X Elem
      BY <1>1, <1>2, <2>3 DEF IInv, TypeOK
    <3>4. BuiltPartStays'
      BY <1>3, <2>3 DEF IInv, BuiltPartStays
    <3>5. QED BY <3>1, <3>2, <3>3, <3>4
  <2>4. CASE Disconnect(Worker, l) /\ UNCHANGED crashed
    BY <1>1, <1>3, <2>4, Disconnected DEF IInv, TypeOK
  <2>5. QED BY <2>1, <2>2, <2>3, <2>4 DEF DisableAddProbe
<1>5. TypeOK'
  BY <1>3, <1>4 DEF IInv, TypeOK, Moves, flags, history
<1>6. QED BY <1>4, <1>5 DEF IInv, Moves

LEMMA IDisconnectProbe ==
  ASSUME IInv, NEW l \in off, DisconnectProbe(l)
  PROVE  IInv'
<1>1. l[1] \in Tee /\ l = <<l[1], First(Feeds[l[1]])>> /\ OptionalPart(First(Feeds[l[1]]))
  BY DEF IInv, TypeOK, ProbesOK
<1>2. l[1] \in Thread
  BY <1>1, Constants
<1>3. UNCHANGED <<flags, bin, pads, on, missing, crashed, history>> /\ Disconnect(l[1], l)
  BY DEF DisconnectProbe
<1>4. /\ Moves /\ BuiltPartStays' /\ ProbesOK'
      /\ links' \subseteq Object \X Object /\ off' \subseteq Tee \X Elem
  BY <1>1, <1>2, <1>3, Disconnected
<1>5. TypeOK'
  BY <1>3, <1>4 DEF IInv, TypeOK, Moves, flags, history
<1>6. QED BY <1>4, <1>5 DEF IInv, Moves

\* A mux that play() built is fed by it, so it is never without a link.
LEMMA MuxKept ==
  ASSUME IInv, NEW m \in Mux, DisconnectMux(m)
  PROVE  /\ BuiltPartStays' /\ bin' \subseteq Object /\ pads' \in [Mux -> Nat]
         /\ links' \subseteq links /\ UNCHANGED <<on, off>>
<1>1. UNCHANGED <<on, off>> /\ bin' \subseteq bin /\ links' \subseteq links
  BY DEF DisconnectMux, MuxRemoved, probes
<1>2. pads' \in [Mux -> Nat]
  BY DEF DisconnectMux, ReleasePad, IInv, TypeOK
<1>3. CASE MuxIsUsed
  BY <1>1, <1>2, <1>3 DEF DisconnectMux, IInv, TypeOK, BuiltPartStays
<1>4. CASE ~MuxIsUsed
  <2>1. Mux \subseteq Optional
    BY <1>4, MuxIsFed DEF MuxIsUsed, IInv, BuiltPartStays
  <2>2. bin' = bin \ {0} /\ links' = links \ LinksOf(0, links)
    BY <1>4, Constants DEF DisconnectMux, MuxRemoved
  <2>3. ASSUME NEW e \in Mandatory PROVE Obj(e) \in bin' /\ Obj(e) # 0
    BY <2>1, <2>2, Constants DEF Obj, Mandatory, IInv, BuiltPartStays
  <2>4. BuiltLinks \subseteq links'
    <3>1. ASSUME NEW l \in BuiltLinks PROVE 0 \notin {l[1], l[2]}
      BY <2>3, Constants DEF BuiltLinks, Mandatory
    <3>2. QED BY <2>2, <3>1 DEF LinksOf, IInv, BuiltPartStays
  <2>5. QED BY <1>1, <1>2, <2>3, <2>4 DEF IInv, TypeOK, BuiltPartStays
<1>5. QED BY <1>3, <1>4

LEMMA ElementRemoved ==
  ASSUME IInv, NEW e \in Optional \ Mux, RemoveElement(e)
  PROVE  /\ BuiltPartStays' /\ bin' \subseteq Object /\ links' \subseteq Object \X Object
         /\ on' \in [Tee -> Nat] /\ off' \subseteq off /\ UNCHANGED pads
<1>1. /\ bin' = bin \ {e} /\ links' = links \ LinksOf(e, links)
      /\ off' \subseteq off /\ UNCHANGED pads
  BY DEF RemoveElement
<1>2. on' \in [Tee -> Nat]
  BY DEF RemoveElement, IInv, TypeOK
<1>3. BuiltLinks \subseteq links'
  BY <1>1, OptionalLink DEF IInv, BuiltPartStays, LinksOf
<1>4. ASSUME NEW d \in Mandatory PROVE Obj(d) \in bin'
  <2>1. Obj(d) \in bin
    BY DEF IInv, BuiltPartStays
  <2>2. Obj(d) # e
    BY Constants DEF Obj, Mandatory
  <2>3. QED BY <1>1, <2>1, <2>2
<1>5. BuiltPartStays'
  BY <1>3, <1>4 DEF BuiltPartStays
<1>6. QED BY <1>1, <1>2, <1>5 DEF IInv, TypeOK

LEMMA IDisconnectElement ==
  ASSUME IInv, NEW th \in Thread, DisconnectElement(th)
  PROVE  IInv'
<1> DEFINE e == at[th]
<1>1. e \in Elem /\ OptionalPart(e) /\ pc[th] = "disconnect"
  BY DEF DisconnectElement, IInv, PlacesOK, PlaceOK
<1>2. UNCHANGED <<missing, history>>
  BY DEF DisconnectElement
<1>3. CASE Throw /\ UNCHANGED <<flags, gst, probes>>
  <2>1. Moves /\ crashed' \in BOOLEAN
    BY <1>3, Thrown DEF IInv
  <2>2. TypeOK'
    BY <1>2, <1>3, <2>1 DEF IInv, TypeOK, Moves, flags, gst, probes, history
  <2>3. ProbesOK' /\ BuiltPartStays'
    BY <1>3 DEF IInv, ProbesOK, BuiltPartStays, gst, probes
  <2>4. QED BY <2>1, <2>2, <2>3 DEF IInv, Moves
<1>4. CASE /\ IF ~initialized[e] THEN UNCHANGED <<gst, probes>>
              ELSE IF e \in Mux THEN DisconnectMux(e) ELSE RemoveElement(e)
           /\ ResetPipelineElement(e)
           /\ IF e = N \/ InBranch(e + 1, BranchOf[e])
              THEN Goto(th, "disconnect", e + 1)
              ELSE Return(th)
           /\ UNCHANGED crashed
  <2>1. Moves
    <3>1. CASE Return(th)
      BY <3>1, Returned DEF IInv
    <3>2. CASE (e = N \/ InBranch(e + 1, BranchOf[e])) /\ Goto(th, "disconnect", e + 1)
      <4>1. e + 1 \in 1 .. N + 1 /\ "disconnect" \in Label
        BY <1>1, Constants DEF Label
      <4>2. e + 1 \in Elem => OptionalPart(e + 1)
        <5>1. e + 1 \in Elem => BranchOf[e + 1] = BranchOf[e]
          BY <1>1, <3>2, Constants DEF InBranch
        <5>2. QED BY <1>1, <5>1, BranchesAreWhole DEF OptionalPart
      <4>3. PlaceOK(th, "disconnect", e + 1)
        BY <4>2 DEF PlaceOK
      <4>4. QED BY <3>2, <4>1, <4>3, GoneTo DEF IInv
    <3>3. QED BY <1>4, <3>1, <3>2
  <2>2. initialized' \in [Elem -> BOOLEAN] /\ linked' \in [Elem -> BOOLEAN]
    BY <1>4 DEF ResetPipelineElement, IInv, TypeOK
  <2>3. /\ BuiltPartStays' /\ bin' \subseteq Object /\ links' \subseteq Object \X Object
        /\ pads' \in [Mux -> Nat] /\ on' \in [Tee -> Nat] /\ off' \subseteq off
    <3>1. CASE UNCHANGED <<gst, probes>>
      BY <3>1 DEF IInv, TypeOK, BuiltPartStays, gst, probes
    <3>2. CASE e \in Mux /\ DisconnectMux(e)
      <4>1. links' \subseteq links
        BY <3>2, MuxKept
      <4>2. QED BY <3>2, <4>1, MuxKept DEF IInv, TypeOK
    <3>3. CASE e \notin Mux /\ RemoveElement(e)
      BY <1>1, <3>3, ElementRemoved DEF OptionalPart, IInv, TypeOK
    <3>4. QED BY <1>4, <3>1, <3>2, <3>3
  <2>4. TypeOK'
    BY <1>2, <1>4, <2>1, <2>2, <2>3 DEF IInv, TypeOK, Moves, history
  <2>5. ProbesOK'
    BY <2>3 DEF IInv, ProbesOK
  <2>6. QED BY <2>1, <2>3, <2>4, <2>5 DEF IInv, Moves
<1>5. QED BY <1>3, <1>4 DEF DisconnectElement

LEMMA IDisconnectPastEnd ==
  ASSUME IInv, NEW th \in Thread, DisconnectPastEnd(th)
  PROVE  IInv'
<1>1. Moves /\ crashed' \in BOOLEAN
  BY Thrown, Returned DEF DisconnectPastEnd, IInv, TypeOK
<1>2. UNCHANGED <<flags, gst, probes, missing, history>>
  BY DEF DisconnectPastEnd
<1>3. TypeOK'
  BY <1>1, <1>2 DEF IInv, TypeOK, Moves, flags, gst, probes, history
<1>4. ProbesOK' /\ BuiltPartStays'
  BY <1>2 DEF IInv, ProbesOK, BuiltPartStays, gst, probes
<1>5. QED BY <1>1, <1>3, <1>4 DEF IInv, Moves

-----------------------------------------------------------------------------
(* Putting a branch in *)

LEMMA IConnectProbe ==
  ASSUME IInv, NEW t \in Tee, ConnectProbe(t)
  PROVE  IInv'
<1>1. Moves
  <2>1. First(Feeds[t]) \in Elem /\ BranchOf[First(Feeds[t])] = Feeds[t]
    BY FirstOfBranch, Constants
  <2>2. /\ PlaceOK(t, "connect", First(Feeds[t])) /\ "connect" \in Label
        /\ First(Feeds[t]) \in 1 .. N + 1 /\ t \in Thread
    BY <2>1, Constants DEF PlaceOK, Label
  <2>3. QED BY <2>2, GoneTo DEF ConnectProbe, IInv
<1>2. on' \in [Tee -> Nat]
  BY DEF ConnectProbe, IInv, TypeOK
<1>3. UNCHANGED <<flags, gst, off, missing, crashed, history>>
  BY DEF ConnectProbe
<1>4. TypeOK'
  BY <1>1, <1>2, <1>3 DEF IInv, TypeOK, Moves, flags, gst, history
<1>5. ProbesOK' /\ BuiltPartStays'
  BY <1>3 DEF IInv, ProbesOK, BuiltPartStays, gst
<1>6. QED BY <1>1, <1>4, <1>5 DEF IInv, Moves

\* Neighbours of an element of an optional branch that are both of one branch
\* are of that branch: the link between them, which is taken away, was not built.
LEMMA NeighboursOptional ==
  ASSUME NEW e \in Optional, BranchOf[e] # BranchOf[1], NEW l \in Neighbours(e)
  PROVE  /\ <<Obj(l[1]), Obj(l[2])>> \notin BuiltLinks
         /\ l[1] \in Elem /\ l[2] \in Elem
<1>1. PICK p \in PreviousEnabled(e), n \in NextEnabled(e) :
        l = <<p, n>> /\ BranchOf[p] = BranchOf[n]
  BY DEF Neighbours
<1>2. /\ e \in Elem /\ p \in Elem /\ n \in Elem /\ p < e /\ e < n
      /\ l[1] = p /\ l[2] = n
  BY <1>1, Constants DEF PreviousEnabled, NextEnabled, Enabled
<1>3. BranchOf[e] = BranchOf[p] /\ BranchOf[e] = BranchOf[n]
  BY <1>1, <1>2, Contiguous
<1>4. p \in Optional /\ n \in Optional
  BY <1>2, <1>3, BranchesAreWhole
<1>5. ~(p \in Mux /\ n \in Mux)
  BY <1>1, <1>2, BranchesAreWhole, Constants
<1>6. <<Obj(p), Obj(n)>> \notin BuiltLinks
  <2>1. SUFFICES ASSUME <<Obj(p), Obj(n)>> \in BuiltLinks PROVE FALSE
    OBVIOUS
  <2>2. CASE p \notin Mux
    BY <1>4, <2>1, <2>2, OptionalLink, Constants DEF Obj
  <2>3. CASE n \notin Mux
    BY <1>4, <2>1, <2>3, OptionalLink, Constants DEF Obj
  <2>4. QED BY <1>5, <2>2, <2>3
<1>7. QED BY <1>2, <1>6

LEMMA IConnectElement ==
  ASSUME IInv, NEW t \in Tee, ConnectElement(t)
  PROVE  IInv'
<1> DEFINE e == at[t]
           between == ToNext(e) = {} /\ Neighbours(e) # {}
           wanted  == ToNext(e) \cup (IF between THEN Between(e) ELSE {}) \cup FromTee(e, t)
           kept    == IF between THEN links \ {<<Obj(l[1]), Obj(l[2])>> : l \in Neighbours(e)}
                                 ELSE links
           Advance == IF InBranch(e + 1, Feeds[t]) THEN Goto(t, "connect", e + 1)
                                                   ELSE Return(t)
<1>1. /\ e \in Elem /\ BranchOf[e] = Feeds[t] /\ BranchOf[e] # BranchOf[1]
      /\ t \in Thread /\ t \in Elem \ Mux
  BY Constants DEF ConnectElement, IInv, PlacesOK, PlaceOK
<1>2. UNCHANGED <<initialized, bin, probes, missing, crashed, asked>>
  BY DEF ConnectElement
<1>3. ASSUME Advance \/ Return(t) PROVE Moves
  <2>1. CASE Return(t)
    BY <1>1, <2>1, Returned DEF IInv
  <2>2. CASE InBranch(e + 1, Feeds[t]) /\ Goto(t, "connect", e + 1)
    <3>1. /\ PlaceOK(t, "connect", e + 1) /\ "connect" \in Label
          /\ e + 1 \in 1 .. N + 1
      BY <2>2, Constants DEF InBranch, PlaceOK, Label
    <3>2. QED BY <1>1, <2>2, <3>1, GoneTo DEF IInv
  <2>3. QED BY <1>3, <2>1, <2>2
<1>4. CASE Advance /\ UNCHANGED <<linked, links, pads, clean>>
  <2>1. Moves
    BY <1>3, <1>4
  <2>2. TypeOK'
    BY <1>2, <1>4, <2>1 DEF IInv, TypeOK, Moves, probes
  <2>3. ProbesOK' /\ BuiltPartStays'
    BY <1>2, <1>4 DEF IInv, ProbesOK, BuiltPartStays, probes
  <2>4. QED BY <2>1, <2>2, <2>3 DEF IInv, Moves
<1>5. ASSUME e \in Optional, NEW made \in SUBSET wanted, NEW ok \in BOOLEAN,
             links' = kept \cup made,
             linked' = IF made = wanted \/ (ok /\ ~between)
                       THEN [linked EXCEPT ![e] = TRUE] ELSE linked,
             pads' = [m \in Mux |-> IF m \in NextEnabled(e) /\ <<e, Shared>> \in wanted
                                        /\ pads[m] < MaxPads
                                     THEN pads[m] + 1 ELSE pads[m]],
             clean' = (clean /\ made = wanted),
             Advance \/ Return(t)
      PROVE  IInv'
  <2>1. Moves
    BY <1>3, <1>5
  <2>2. BuiltLinks \subseteq kept
    BY <1>1, <1>5, NeighboursOptional DEF IInv, BuiltPartStays
  <2>3. wanted \subseteq Object \X Object
    <3>1. ToNext(e) \subseteq Object \X Object
      BY <1>1, ObjType DEF ToNext, NextEnabled, Enabled
    <3>2. Between(e) \subseteq Object \X Object
      <4>1. ASSUME NEW l \in Neighbours(e)
            PROVE  /\ <<Obj(l[1]), Obj(e)>> \in Object \X Object
                   /\ <<Obj(e), Obj(l[2])>> \in Object \X Object
        BY <1>1, <1>5, NeighboursOptional, ObjType
      <4>2. QED BY <4>1 DEF Between
    <3>3. FromTee(e, t) \subseteq Object \X Object
      BY <1>1, ObjType, Constants DEF FromTee
    <3>4. QED BY <3>1, <3>2, <3>3
  <2>4. links' \subseteq Object \X Object /\ BuiltLinks \subseteq links'
    BY <1>5, <2>2, <2>3 DEF IInv, TypeOK
  <2>5. linked' \in [Elem -> BOOLEAN]
    BY <1>5 DEF IInv, TypeOK
  <2>6. pads' \in [Mux -> Nat]
    BY <1>5 DEF IInv, TypeOK
  <2>7. clean' \in BOOLEAN
    BY <1>5 DEF IInv, TypeOK
  <2>8. TypeOK'
    BY <1>2, <2>1, <2>4, <2>5, <2>6, <2>7 DEF IInv, TypeOK, Moves, probes
  <2>9. ProbesOK' /\ BuiltPartStays'
    BY <1>2, <2>4 DEF IInv, ProbesOK, BuiltPartStays, probes
  <2>10. QED BY <2>1, <2>8, <2>9 DEF IInv, Moves
<1>6. QED BY <1>4, <1>5 DEF ConnectElement

-----------------------------------------------------------------------------
(* Theorems *)

LEMMA INext == IInv /\ [Next]_vars => IInv'
<1> SUFFICES ASSUME IInv, [Next]_vars PROVE IInv'
    OBVIOUS
<1>1. CASE Command
  BY <1>1, IReceive DEF Command
<1>2. CASE WorkerStep
  <2>1. Worker \in Thread
    BY Constants
  <2>2. QED
    BY <1>2, <2>1, IEnableCreate, IEnableFindTee, IEnableAddProbe, IDisableFindElements,
       IDisableAddProbe, IDisconnectElement, IDisconnectPastEnd DEF WorkerStep
<1>3. ASSUME NEW t \in Tee, Streaming(t) PROVE IInv'
  <2>1. t \in Thread
    BY Constants
  <2>2. QED
    BY <1>3, <2>1, IConnectProbe, IConnectElement, IDisconnectProbe, IDisconnectElement,
       IDisconnectPastEnd DEF Streaming
<1>4. CASE UNCHANGED vars
  <2>1. TypeOK'
    BY <1>4 DEF IInv, TypeOK, vars, flags, gst, probes, history
  <2>2. ProbesOK' /\ PlacesOK' /\ BuiltPartStays'
    BY <1>4 DEF IInv, ProbesOK, PlacesOK, BuiltPartStays, vars, gst, probes
  <2>3. QED BY <2>1, <2>2 DEF IInv
<1>5. QED BY <1>1, <1>2, <1>3, <1>4 DEF Next

LEMMA Invariance == Spec => []IInv
BY IInit, INext, PTL DEF Spec

\* Every variable keeps its type, for any file with branches as assumed and any
\* branch commands: the walk of disconnectBranch goes at most one element too far.
THEOREM TypeCorrect == Spec => []TypeOK
<1>1. IInv => TypeOK
  BY DEF IInv
<1>2. QED BY <1>1, Invariance, PTL

\* What play() has built stays in the pipeline and linked, whatever branch
\* commands arrive and in whatever order threads, probes and failures come.
THEOREM WhatPlayBuiltStays == Spec => []BuiltPartStays
<1>1. IInv => BuiltPartStays
  BY DEF IInv
<1>2. QED BY <1>1, Invariance, PTL

-----------------------------------------------------------------------------
(* What holds in every execution: GStreamer has exactly the elements that    *)
(* are initialized, links join what is there, and the first element of an    *)
(* optional branch is fed by a tee of that branch only.                      *)

BinAsFlags  == \A e \in Elem \ Mux : initialized[e] <=> e \in bin
LinksInBin  == \A l \in links : l[1] \in bin /\ l[2] \in bin
FedByItsTee == \A l \in links : \A b \in OptionalBranch :
                 l[2] = First(b) => l[1] \in Tee /\ Feeds[l[1]] = b

GInv == BinAsFlags /\ LinksInBin /\ FedByItsTee

(* What holds while the commands are supported and settled: one of them is   *)
(* under way, for the branch b, and the other branches are as asked.         *)

Quiet(th) == \A o \in Thread \ {th} : pc[o] = "idle"
NoProbes  == off = {} /\ \A t \in Tee : on[t] = 0

PadsRight(b)  == \A m \in Named : BranchOf[m] = b => pads[m] = IF linked[m] THEN 1 ELSE 0
TeeLinked(b)  == \E t \in Tee : Feeds[t] = b /\ <<t, First(b)>> \in links
Unfed(b)      == \A l \in links : l[2] # First(b)
Joined(b, e)  == e + 1 \in ElementsOf(b) => <<Obj(e), Obj(e + 1)>> \in links
IsOn(b)       == /\ \A e \in ElementsOf(b) : initialized[e] /\ linked[e] /\ Joined(b, e)
                 /\ TeeLinked(b) /\ PadsRight(b)
IsOff(b)      == (\A e \in ElementsOf(b) : ~initialized[e] /\ ~linked[e]) /\ PadsRight(b)
AsAsked(b)    == /\ PadsRight(b)
                 /\ b \in OptionalBranch => IF b \in asked THEN IsOn(b) ELSE IsOff(b)

\* enable_<branch> has created the elements before e; connectBranch has linked them.
Created(b, e) ==
  /\ Unfed(b) /\ PadsRight(b)
  /\ \A d \in ElementsOf(b) : ~linked[d] /\ (initialized[d] <=> d < e)
Connected(b, e) ==
  /\ \A d \in ElementsOf(b) : /\ initialized[d] /\ (linked[d] <=> d < e)
                              /\ d < e => Joined(b, d)
  /\ First(b) < e => TeeLinked(b)
  /\ \A m \in Named : BranchOf[m] = b => pads[m] = IF m <= e THEN 1 ELSE 0
\* No branch that forks from b is there.
NoForks(b) == \A t \in Tee, e \in Elem : BranchOf[t] = b /\ BranchOf[e] = Feeds[t]
                                           => ~initialized[e]
\* disconnectBranch has removed the elements before e.
Removed(b, e) ==
  /\ Unfed(b) /\ PadsRight(b)
  /\ \A d \in ElementsOf(b) : /\ initialized[d] <=> e <= d
                              /\ linked[d] <=> e <= d
                              /\ e <= d => Joined(b, d)

\* The operation, by what it waits for: the thread it is on, or a probe.
Creating(b, e)   == /\ Quiet(Worker) /\ NoProbes /\ pc[Worker] = "enable" /\ at[Worker] = e
                    /\ IsOn(b) \/ Created(b, e)
Choosing(b, e)   == /\ Quiet(Worker) /\ NoProbes /\ pc[Worker] = "find_tee" /\ at[Worker] = e
                    /\ IsOn(b) \/ Created(b, N + 1)
Asking(b, t)     == /\ Quiet(Worker) /\ NoProbes /\ pc[Worker] = "add_probe" /\ at[Worker] = t
                    /\ IsOn(b) \/ Created(b, N + 1)
Awaiting(b, t)   == /\ \A th \in Thread : pc[th] = "idle"
                    /\ off = {} /\ \A s \in Tee : on[s] = IF s = t THEN 1 ELSE 0
                    /\ IsOn(b) \/ Created(b, N + 1)
Connecting(b, t, e) == /\ Quiet(t) /\ NoProbes /\ pc[t] = "connect" /\ at[t] = e
                       /\ IsOn(b) \/ Connected(b, e)
Looking(b, e)    == /\ Quiet(Worker) /\ NoProbes /\ pc[Worker] = "disable" /\ at[Worker] = e
                    /\ e = First(b) /\ (IsOn(b) \/ IsOff(b))
Finding(b, t)    == /\ Quiet(Worker) /\ NoProbes /\ pc[Worker] = "find_pad" /\ at[Worker] = t
                    /\ IsOn(b)
Leaving(b, t)    == /\ \A th \in Thread : pc[th] = "idle"
                    /\ off = {<<t, First(b)>>} /\ \A s \in Tee : on[s] = 0
                    /\ IsOn(b)
Removing(b, th, e)  == /\ Quiet(th) /\ NoProbes /\ pc[th] = "disconnect" /\ at[th] = e
                       /\ Removed(b, e)

Enabling(b) ==
  /\ b \in asked /\ TeeFor(b) # {}
  /\ \/ \E e \in ElementsOf(b) : Creating(b, e) \/ Choosing(b, e)
     \/ \E t \in TeeFor(b) : Asking(b, t) \/ Awaiting(b, t)
     \/ \E t \in TeeFor(b), e \in ElementsOf(b) : Connecting(b, t, e)

Disabling(b) ==
  /\ b \notin asked /\ NoForks(b)
  /\ \/ TeeFor(b) # {} /\ \E e \in ElementsOf(b) : Looking(b, e)
     \/ \E t \in TeeFor(b) : Finding(b, t) \/ Leaving(b, t)
     \/ \E th \in Thread, e \in 1 .. N + 1 :
          Removing(b, th, e) /\ (e \in ElementsOf(b) \/ (e = N + 1 /\ N \in ElementsOf(b)))

Resting == NoProbes /\ (\A th \in Thread : pc[th] = "idle") /\ \A b \in Branch : AsAsked(b)

UnderWay(b) == /\ Enabling(b) \/ Disabling(b)
               /\ \A c \in Branch \ {b} : AsAsked(c)

CleanInv == Resting \/ \E b \in OptionalBranch : UnderWay(b)

\* The branch b has no tee and is given none by its own elements; a command for
\* it goes on to where it looks for one.
Teeless(b) == \A t \in Tee : Feeds[t] = b =>
                ~initialized[t] /\ t \in Optional /\ BranchOf[t] \notin asked
Doomed(b) ==
  /\ Teeless(b) /\ Quiet(Worker) /\ NoProbes /\ at[Worker] \in ElementsOf(b)
  /\ \/ pc[Worker] \in {"enable", "find_tee"} /\ b \in asked
     \/ pc[Worker] = "disable" /\ b \notin asked
  /\ \A c \in Branch \ {b} : AsAsked(c)

CInv == clean => CleanInv

DInv == clean => CleanInv \/ \E b \in Branch : Doomed(b)

\* What is asked for can be; the main branch, in vain.
AskedInv ==
  clean => /\ \A b \in asked : \E e \in Optional : BranchOf[e] = b
           /\ BranchOf[1] \in asked => /\ pc[Worker] \in {"enable", "find_tee"}
                                       /\ at[Worker] \in ElementsOf(BranchOf[1])

-----------------------------------------------------------------------------
(* Branches as runs of positions *)

\* What there is of numbers up to N has a greatest one.
LEMMA Greatest ==
  ASSUME NEW S \in SUBSET Elem, S # {}
  PROVE  \E m \in S : \A i \in S : i <= m
<1> DEFINE R == OpToRel(<, Nat)
           T == {k \in Nat : \A i \in S : i <= k}
<1>1. IsWellFoundedOn(R, Nat)
  BY NatLessThanWellFounded
<1>2. \A x, y \in Nat : y < x => <<y, x>> \in R
  BY DEF OpToRel
<1>3. N \in T /\ T \subseteq Nat
  BY Constants
<1> HIDE DEF R, T
<1>4. PICK x \in T : \A y \in T : ~ (<<y, x>> \in R)
  BY <1>1, <1>3, WFMin
<1>5. x \in Nat /\ \A i \in S : i \in Nat /\ i <= x
  BY <1>4, Constants DEF T
<1>6. CASE x \in S
  BY <1>5, <1>6
<1>7. CASE x \notin S
  <2>1. PICK i \in S : TRUE
    OBVIOUS
  <2>2. x - 1 \in Nat /\ x - 1 < x /\ \A j \in S : j <= x - 1
    BY <1>5, <1>7, <2>1, Constants
  <2>3. x - 1 \in T
    BY <2>2 DEF T
  <2>4. QED BY <1>2, <1>4, <1>5, <2>2, <2>3
<1>8. QED BY <1>6, <1>7

LEMMA OptionalWhole ==
  ASSUME NEW b \in OptionalBranch
  PROVE  /\ b \in Branch /\ b # BranchOf[1]
         /\ \A e \in ElementsOf(b) : e \in Elem /\ e \in Optional /\ BranchOf[e] = b
<1>1. b \in Branch /\ b # BranchOf[1] /\ First(b) \in Optional
  BY DEF OptionalBranch
<1>2. First(b) \in Elem /\ BranchOf[First(b)] = b
  BY <1>1, FirstOfBranch
<1>3. ASSUME NEW e \in ElementsOf(b) PROVE e \in Elem /\ e \in Optional /\ BranchOf[e] = b
  BY <1>1, <1>2, BranchesAreWhole DEF ElementsOf
<1>4. QED BY <1>1, <1>3

LEMMA FirstIsFirst ==
  ASSUME NEW b \in Branch
  PROVE  /\ First(b) \in ElementsOf(b) /\ First(b) \notin Mux /\ Obj(First(b)) = First(b)
         /\ First(b) # 0 /\ First(b) \in Elem
         /\ \A e \in ElementsOf(b) : First(b) <= e
<1>1. PICK f \in Elem, l \in Elem :
        f <= l /\ \A e \in Elem : BranchOf[e] = b <=> f <= e /\ e <= l
  BY BranchesAreWhole
<1>2. BranchOf[f] = b /\ \A d \in Elem : BranchOf[d] = b => f <= d
  BY <1>1, Constants
<1>3. \A d \in Elem : BranchOf[d] = b => First(b) <= d
  BY <1>2 DEF First, FirstIn
<1>4. QED BY <1>3, FirstOfBranch, Constants DEF ElementsOf, Obj

LEMMA LastOrNext ==
  ASSUME NEW b \in Branch, NEW e \in ElementsOf(b)
  PROVE  /\ InBranch(e + 1, b) <=> e + 1 \in ElementsOf(b)
         /\ e + 1 \notin ElementsOf(b) => \A d \in ElementsOf(b) : d <= e
         /\ e # First(b) => e - 1 \in ElementsOf(b)
<1>1. PICK f \in Elem, l \in Elem :
        f <= l /\ \A d \in Elem : BranchOf[d] = b <=> f <= d /\ d <= l
  BY BranchesAreWhole
<1>2. e \in Elem /\ f <= e /\ e <= l
  BY <1>1 DEF ElementsOf
<1>3. InBranch(e + 1, b) <=> e + 1 \in ElementsOf(b)
  BY DEF InBranch, ElementsOf
<1>4. e + 1 \notin ElementsOf(b) => \A d \in ElementsOf(b) : d <= e
  BY <1>1, <1>2, Constants DEF ElementsOf
<1>5. ASSUME e # First(b) PROVE e - 1 \in ElementsOf(b)
  <2>1. First(b) < e /\ First(b) \in Elem /\ f <= First(b)
    BY <1>1, <1>2, <1>5, FirstIsFirst, Constants DEF ElementsOf
  <2>2. e - 1 \in Elem /\ f <= e - 1 /\ e - 1 <= l
    BY <1>1, <1>2, <2>1, Constants
  <2>3. QED BY <1>1, <2>2 DEF ElementsOf
<1>6. QED BY <1>3, <1>4, <1>5

LEMMA OneTee ==
  ASSUME NEW s \in Tee, NEW t \in Tee, Feeds[s] = Feeds[t]
  PROVE  s = t
BY BranchesAssumption

LEMMA OneMux ==
  ASSUME NEW b, NEW d \in ElementsOf(b) \cap Mux, NEW e \in ElementsOf(b) \cap Mux
  PROVE  d = e
BY BranchesAreWhole DEF ElementsOf

-----------------------------------------------------------------------------
(* What holds in every execution *)

LEMMA GInit == ASSUME Init PROVE GInv
<1>1. BinAsFlags
  <2>1. ASSUME NEW e \in Elem \ Mux PROVE initialized[e] <=> e \in bin
    <3>1. e \in bin <=> \E m \in Mandatory : Obj(m) = e
      BY DEF Init
    <3>2. \A m \in Mandatory : Obj(m) = e <=> m = e
      BY Constants DEF Obj, Mandatory
    <3>3. QED BY <3>1, <3>2 DEF Init, Mandatory
  <2>2. QED BY <2>1 DEF BinAsFlags
<1>2. LinksInBin
  <2>1. ASSUME NEW l \in BuiltLinks
        PROVE  \E c, d \in Mandatory : l[1] = Obj(c) /\ l[2] = Obj(d)
    <3>1. CASE \E m \in Mandatory \X Mandatory : l = <<Obj(m[1]), Obj(m[2])>>
      BY <3>1
    <3>2. CASE l \in (Tee \cap Mandatory) \X Mandatory /\ l[2] = First(BranchOf[l[2]])
      <4>1. l[1] \notin Mux /\ l[1] \in Mandatory /\ l[2] \in Mandatory /\ BranchOf[l[2]] \in Branch
        BY <3>2, Constants DEF Mandatory
      <4>2. l[2] \notin Mux
        BY <3>2, <4>1, FirstIsFirst
      <4>3. QED BY <4>1, <4>2 DEF Obj
    <3>3. QED BY <3>1, <3>2 DEF BuiltLinks
  <2>2. QED BY <2>1 DEF LinksInBin, Init
<1>3. FedByItsTee
  <2>1. ASSUME NEW l \in links, NEW b \in OptionalBranch, l[2] = First(b)
        PROVE  FALSE
    <3>1. First(b) \in Optional \ Mux
      BY FirstIsFirst DEF OptionalBranch
    <3>2. QED BY <2>1, <3>1, OptionalLink DEF Init
  <2>2. QED BY <2>1 DEF FedByItsTee
<1>4. QED BY <1>1, <1>2, <1>3 DEF GInv

LEMMA GSame ==
  ASSUME GInv, UNCHANGED <<initialized, bin>>, links' \subseteq links
  PROVE  GInv'
BY DEF GInv, BinAsFlags, LinksInBin, FedByItsTee

LEMMA GCreate ==
  ASSUME IInv, GInv, EnableCreate
  PROVE  GInv'
<1>1. PICK e : e = at[Worker] /\ e \in Elem
  BY Constants DEF EnableCreate, IInv, PlacesOK, PlaceOK
<1>2. CASE UNCHANGED <<initialized, bin>>
  BY <1>2, GSame DEF EnableCreate
<1>3. CASE bin' = bin \cup {Obj(e)} /\ initialized' = [initialized EXCEPT ![e] = TRUE]
  <2>1. UNCHANGED links
    BY DEF EnableCreate
  <2>2. ASSUME NEW d \in Elem \ Mux PROVE initialized'[d] <=> d \in bin'
    <3>1. initialized[d] <=> d \in bin
      BY DEF GInv, BinAsFlags
    <3>2. d = Obj(e) <=> d = e
      BY <1>1, ObjType, Constants
    <3>3. QED BY <1>1, <1>3, <3>1, <3>2 DEF IInv, TypeOK
  <2>3. BinAsFlags'
    BY <2>2 DEF BinAsFlags
  <2>4. LinksInBin' /\ FedByItsTee'
    BY <1>3, <2>1 DEF GInv, LinksInBin, FedByItsTee
  <2>5. QED BY <2>3, <2>4 DEF GInv
<1>4. QED BY <1>1, <1>2, <1>3 DEF EnableCreate

LEMMA GDisconnect ==
  ASSUME IInv, GInv, NEW th \in Thread, DisconnectElement(th)
  PROVE  GInv'
<1>1. PICK e : e = at[th] /\ e \in Elem
  BY DEF DisconnectElement
<1>2. CASE UNCHANGED <<flags, gst>>
  BY <1>2, GSame DEF flags, gst
<1>3. ASSUME ResetPipelineElement(e), ~initialized[e], UNCHANGED gst PROVE GInv'
  <2>1. initialized' = initialized
    BY <1>1, <1>3 DEF ResetPipelineElement, IInv, TypeOK
  <2>2. QED BY <1>3, <2>1, GSame DEF gst
<1>4. ASSUME ResetPipelineElement(e), e \in Mux, DisconnectMux(e) PROVE GInv'
  <2>1. \A d \in Elem \ Mux : initialized'[d] <=> initialized[d]
    BY <1>1, <1>4 DEF ResetPipelineElement, IInv, TypeOK
  <2>2. \/ bin' = bin /\ links' = links
        \/ bin' = bin \ {0} /\ links' = links \ LinksOf(0, links)
    BY <1>4, Constants DEF DisconnectMux, MuxRemoved
  <2>3. BinAsFlags'
    BY <2>1, <2>2, Constants DEF GInv, BinAsFlags
  <2>4. LinksInBin' /\ FedByItsTee'
    BY <2>2 DEF GInv, LinksInBin, FedByItsTee, LinksOf
  <2>5. QED BY <2>3, <2>4 DEF GInv
<1>5. ASSUME ResetPipelineElement(e), e \notin Mux, RemoveElement(e) PROVE GInv'
  <2>1. bin' = bin \ {e} /\ links' = links \ LinksOf(e, links)
    BY <1>5 DEF RemoveElement
  <2>2. BinAsFlags'
    BY <1>1, <1>5, <2>1 DEF GInv, BinAsFlags, ResetPipelineElement, IInv, TypeOK
  <2>3. LinksInBin' /\ FedByItsTee'
    BY <2>1 DEF GInv, LinksInBin, FedByItsTee, LinksOf
  <2>4. QED BY <2>2, <2>3 DEF GInv
<1>6. QED BY <1>1, <1>2, <1>3, <1>4, <1>5 DEF DisconnectElement

\* linkGstElement links the first element of a branch to what is before it
\* through the tee only.
LEMMA WantedFromTee ==
  ASSUME IInv, NEW t \in Tee, pc[t] = "connect", NEW e, e = at[t],
         NEW l \in ToNext(e) \cup Between(e) \cup FromTee(e, t),
         NEW b \in OptionalBranch, l[2] = First(b)
  PROVE  l[1] \in Tee /\ Feeds[l[1]] = b
<1>1. e \in Elem /\ BranchOf[e] = Feeds[t] /\ BranchOf[e] \in Branch
  BY Constants DEF IInv, PlacesOK, PlaceOK
<1>2. /\ First(b) \in Elem \ Mux /\ BranchOf[First(b)] = b /\ First(b) # 0
      /\ \A d \in Elem : BranchOf[d] = b => First(b) <= d
  BY OptionalWhole, FirstIsFirst DEF ElementsOf
<1>3. \A d \in Elem : Obj(d) = First(b) => d = First(b)
  BY <1>2, Constants DEF Obj
<1>4. CASE l \in ToNext(e)
  <2>1. PICK n \in NextEnabled(e) : BranchOf[n] = BranchOf[e] /\ l = <<Obj(e), Obj(n)>>
    BY <1>4 DEF ToNext
  <2>2. n \in Elem /\ n > e
    BY <2>1 DEF NextEnabled, Enabled
  <2>3. n = First(b)
    BY <1>3, <2>1, <2>2
  <2>4. QED BY <1>1, <1>2, <2>1, <2>2, <2>3, Constants
<1>5. CASE l \in Between(e)
  <2>1. PICK p \in PreviousEnabled(e), n \in NextEnabled(e) :
          /\ BranchOf[p] = BranchOf[n]
          /\ l = <<Obj(p), Obj(e)>> \/ l = <<Obj(e), Obj(n)>>
    BY <1>5 DEF Between, Neighbours
  <2>2. p \in Elem /\ n \in Elem /\ p < e /\ e < n
    BY <2>1, Constants DEF PreviousEnabled, NextEnabled, Enabled
  <2>3. BranchOf[e] = BranchOf[p]
    BY <1>1, <2>1, <2>2, Contiguous
  <2>4. e = First(b) \/ n = First(b)
    BY <1>1, <1>3, <2>1, <2>2
  <2>5. QED BY <1>1, <1>2, <2>1, <2>2, <2>3, <2>4, Constants
<1>6. CASE l \in FromTee(e, t)
  <2>1. l = <<t, Obj(e)>>
    BY <1>6 DEF FromTee
  <2>2. e = First(b)
    BY <1>1, <1>3, <2>1
  <2>3. QED BY <1>1, <1>2, <2>1, <2>2
<1>7. QED BY <1>4, <1>5, <1>6

LEMMA GConnect ==
  ASSUME IInv, GInv, NEW t \in Tee, ConnectElement(t)
  PROVE  GInv'
<1> DEFINE e == at[t]
           between == ToNext(e) = {} /\ Neighbours(e) # {}
           wanted  == ToNext(e) \cup (IF between THEN Between(e) ELSE {}) \cup FromTee(e, t)
           kept    == IF between THEN links \ {<<Obj(l[1]), Obj(l[2])>> : l \in Neighbours(e)}
                                 ELSE links
<1>1. UNCHANGED <<initialized, bin>> /\ pc[t] = "connect"
  BY DEF ConnectElement
<1>2. CASE UNCHANGED links
  BY <1>1, <1>2, GSame
<1>3. CASE \E made \in SUBSET wanted : /\ \A l \in made : Linkable(l, kept)
                                       /\ links' = kept \cup made
  <2>1. PICK made \in SUBSET wanted : /\ \A l \in made : Linkable(l, kept)
                                      /\ links' = kept \cup made
    BY <1>3
  <2>2. kept \subseteq links /\ wanted \subseteq ToNext(e) \cup Between(e) \cup FromTee(e, t)
    OBVIOUS
  <2> HIDE DEF kept, wanted, between
  <2>3. LinksInBin'
    BY <1>1, <2>1, <2>2 DEF GInv, LinksInBin, Linkable
  <2>4. ASSUME NEW l \in links', NEW b \in OptionalBranch, l[2] = First(b)
        PROVE  l[1] \in Tee /\ Feeds[l[1]] = b
    <3>1. CASE l \in links
      BY <2>4, <3>1 DEF GInv, FedByItsTee
    <3>2. CASE l \in ToNext(e) \cup Between(e) \cup FromTee(e, t)
      BY <1>1, <2>4, <3>2, WantedFromTee
    <3>3. QED BY <2>1, <2>2, <2>4, <3>1, <3>2
  <2>5. BinAsFlags' /\ FedByItsTee'
    BY <1>1, <2>4 DEF GInv, BinAsFlags, FedByItsTee
  <2>6. QED BY <2>3, <2>5 DEF GInv
<1>4. QED BY <1>2, <1>3 DEF ConnectElement

LEMMA GNext == IInv /\ GInv /\ [Next]_vars => GInv'
<1> SUFFICES ASSUME IInv, GInv, [Next]_vars PROVE GInv'
    OBVIOUS
<1>1. CASE UNCHANGED <<initialized, bin>> /\ links' \subseteq links
  BY <1>1, GSame
<1>2. ASSUME NEW th \in Thread, DisconnectElement(th) PROVE GInv'
  BY <1>2, GDisconnect
<1>3. ASSUME NEW th \in Thread, DisconnectPastEnd(th) PROVE GInv'
  BY <1>1, <1>3 DEF DisconnectPastEnd, flags, gst
<1>4. CASE Command
  BY <1>1, <1>4 DEF Command, Receive, flags, gst
<1>5. CASE WorkerStep
  <2>1. CASE EnableCreate
    BY <2>1, GCreate
  <2>2. CASE EnableFindTee \/ EnableAddProbe \/ DisableFindElements
    BY <1>1, <2>2 DEF EnableFindTee, EnableAddProbe, DisableFindElements, flags, gst
  <2>3. CASE DisableAddProbe
    BY <1>1, <2>3 DEF DisableAddProbe, Disconnect, flags
  <2>4. QED BY <1>2, <1>3, <1>5, <2>1, <2>2, <2>3, Constants DEF WorkerStep
<1>6. ASSUME NEW t \in Tee, Streaming(t) PROVE GInv'
  <2>1. CASE ConnectProbe(t)
    BY <1>1, <2>1 DEF ConnectProbe, flags, gst
  <2>2. CASE ConnectElement(t)
    BY <2>2, GConnect
  <2>3. ASSUME NEW l \in off, DisconnectProbe(l) PROVE GInv'
    BY <1>1, <2>3 DEF DisconnectProbe, Disconnect, flags
  <2>4. QED BY <1>2, <1>3, <1>6, <2>1, <2>2, <2>3, Constants DEF Streaming
<1>7. CASE UNCHANGED vars
  BY <1>1, <1>7 DEF vars, flags, gst
<1>8. QED BY <1>4, <1>5, <1>6, <1>7 DEF Next

-----------------------------------------------------------------------------
(* What steps leave alone *)

LEMMA Gone ==
  ASSUME TypeOK, NEW th \in Thread, NEW label, NEW e, Goto(th, label, e)
  PROVE  /\ pc'[th] = label /\ at'[th] = e
         /\ \A o \in Thread \ {th} : pc'[o] = pc[o] /\ at'[o] = at[o]
         /\ Quiet(th) => Quiet(th)'
BY DEF Goto, TypeOK, Quiet

LEMMA Idle ==
  ASSUME TypeOK, NEW th \in Thread, Quiet(th), Return(th)
  PROVE  \A o \in Thread : pc'[o] = "idle"
BY Gone DEF Return, Quiet

LEMMA Frame ==
  ASSUME UNCHANGED <<flags, gst>>, NEW b
  PROVE  /\ IsOn(b) => IsOn(b)'
         /\ IsOff(b) => IsOff(b)'
         /\ PadsRight(b) => PadsRight(b)'
         /\ NoForks(b) => NoForks(b)'
         /\ TeeFor(b)' = TeeFor(b)
<1>1. UNCHANGED <<initialized, linked, bin, links, pads>>
  BY DEF flags, gst
<1>2. PadsRight(b) => PadsRight(b)'
  BY <1>1 DEF PadsRight
<1>3. TeeLinked(b) => TeeLinked(b)'
  BY <1>1 DEF TeeLinked
<1>4. IsOn(b) => IsOn(b)'
  BY <1>1, <1>2, <1>3 DEF IsOn, Joined
<1>5. IsOff(b) => IsOff(b)'
  BY <1>1, <1>2 DEF IsOff
<1>6. NoForks(b) => NoForks(b)'
  BY <1>1 DEF NoForks
<1>7. TeeFor(b)' = TeeFor(b)
  BY <1>1 DEF TeeFor
<1>8. QED BY <1>2, <1>4, <1>5, <1>6, <1>7

LEMMA FrameAt ==
  ASSUME UNCHANGED <<flags, gst>>, NEW b, NEW e
  PROVE  /\ Created(b, e) => Created(b, e)'
         /\ Connected(b, e) => Connected(b, e)'
         /\ Removed(b, e) => Removed(b, e)'
<1>1. UNCHANGED <<initialized, linked, bin, links, pads>>
  BY DEF flags, gst
<1>2. (PadsRight(b) => PadsRight(b)') /\ (Unfed(b) => Unfed(b)')
  BY <1>1 DEF PadsRight, Unfed
<1>3. Created(b, e) => Created(b, e)'
  BY <1>1, <1>2 DEF Created
<1>4. Connected(b, e) => Connected(b, e)'
  BY <1>1 DEF Connected, Joined, TeeLinked
<1>5. Removed(b, e) => Removed(b, e)'
  BY <1>1, <1>2 DEF Removed, Joined
<1>6. QED BY <1>3, <1>4, <1>5

\* A branch whose elements, pads and links a step leaves alone is as asked still.
LEMMA StillAsAsked ==
  ASSUME NEW c \in Branch, AsAsked(c), c \in asked' <=> c \in asked,
         \A e \in ElementsOf(c) : initialized'[e] = initialized[e] /\ linked'[e] = linked[e],
         \A m \in Named : BranchOf[m] = c => pads'[m] = pads[m],
         IsOn(c) => (\A e \in ElementsOf(c) : Joined(c, e)') /\ TeeLinked(c)'
  PROVE  AsAsked(c)'
<1>1. PadsRight(c)'
  <2>1. \A m \in Named : BranchOf[m] = c => m \in ElementsOf(c)
    BY Constants DEF ElementsOf
  <2>2. QED BY <2>1 DEF AsAsked, PadsRight
<1>2. IsOn(c) => IsOn(c)'
  BY <1>1 DEF IsOn
<1>3. IsOff(c) => IsOff(c)'
  BY <1>1 DEF IsOff
<1>4. QED BY <1>1, <1>2, <1>3 DEF AsAsked

LEMMA FrameAsked ==
  ASSUME NEW c \in Branch, AsAsked(c), c \in asked' <=> c \in asked, UNCHANGED <<flags, gst>>
  PROVE  AsAsked(c)'
<1>1. UNCHANGED <<initialized, linked, bin, links, pads>>
  BY DEF flags, gst
<1>2. IsOn(c) => IsOn(c)'
  BY Frame
<1>3. QED BY <1>1, <1>2, StillAsAsked DEF IsOn

\* The end of an operation for the branch b.
LEMMA BackToRest ==
  ASSUME NEW b \in OptionalBranch, NoProbes', \A th \in Thread : pc'[th] = "idle",
         \A c \in Branch \ {b} : AsAsked(c)',
         IF b \in asked' THEN IsOn(b)' ELSE IsOff(b)'
  PROVE  CleanInv'
<1>1. PadsRight(b)'
  BY DEF IsOn, IsOff
<1>2. AsAsked(b)'
  BY <1>1 DEF AsAsked
<1>3. Resting'
  BY <1>2 DEF Resting
<1>4. QED BY <1>3 DEF CleanInv

LEMMA GoesOn ==
  ASSUME NEW b \in OptionalBranch, Enabling(b)' \/ Disabling(b)',
         \A c \in Branch \ {b} : AsAsked(c)'
  PROVE  CleanInv'
BY DEF CleanInv, UnderWay

\* Nothing but the element itself is linked to an element that is not there.
LEMMA UnfedOutside ==
  ASSUME GInv, NEW b \in Branch, ~initialized[First(b)]
  PROVE  Unfed(b)
<1>1. First(b) \notin bin
  BY FirstIsFirst DEF GInv, BinAsFlags
<1>2. QED BY <1>1 DEF GInv, LinksInBin, Unfed

-----------------------------------------------------------------------------
(* Which operation a step belongs to *)

LEMMA AtRestWhen ==
  ASSUME CleanInv, Settled, pc[Worker] = "idle"
  PROVE  Resting
<1>1. \A th \in Thread : pc[th] = "idle"
  BY Constants DEF Settled
<1>2. ASSUME NEW b \in OptionalBranch, Enabling(b) PROVE FALSE
  <2>1. \A t \in TeeFor(b) : t \in Tee /\ t \in Thread
    BY Constants DEF TeeFor
  <2>2. ASSUME NEW t \in TeeFor(b), NEW e, Connecting(b, t, e) PROVE FALSE
    BY <1>1, <2>1, <2>2 DEF Connecting
  <2>3. ASSUME NEW t \in TeeFor(b), Awaiting(b, t) PROVE FALSE
    BY <2>1, <2>3 DEF Awaiting, Settled
  <2>4. QED BY <1>2, <2>2, <2>3 DEF Enabling, Creating, Choosing, Asking
<1>3. ASSUME NEW b \in OptionalBranch, Disabling(b) PROVE FALSE
  BY <1>1, <1>3 DEF Disabling, Looking, Finding, Leaving, Removing, Settled
<1>4. QED BY <1>2, <1>3 DEF CleanInv, UnderWay

LEMMA WorkerAt ==
  ASSUME CleanInv, pc[Worker] # "idle"
  PROVE  \E b \in OptionalBranch :
           /\ \A c \in Branch \ {b} : AsAsked(c)
           /\ Quiet(Worker) /\ NoProbes
           /\ \/ /\ b \in asked /\ TeeFor(b) # {}
                 /\ \/ \E e \in ElementsOf(b) : Creating(b, e) \/ Choosing(b, e)
                    \/ \E t \in TeeFor(b) : Asking(b, t)
              \/ /\ b \notin asked /\ NoForks(b)
                 /\ \/ TeeFor(b) # {} /\ \E e \in ElementsOf(b) : Looking(b, e)
                    \/ \E t \in TeeFor(b) : Finding(b, t)
                    \/ \E e \in 1 .. N + 1 :
                         Removing(b, Worker, e) /\ (e \in ElementsOf(b) \/ (e = N + 1 /\ N \in ElementsOf(b)))
<1>1. Worker \in Thread /\ Worker \notin Tee
  BY Constants
<1>2. PICK b \in OptionalBranch : UnderWay(b)
  BY <1>1 DEF CleanInv, Resting
<1>3. CASE Enabling(b)
  <2>1. \A t \in TeeFor(b), e \in ElementsOf(b) : ~Connecting(b, t, e)
    BY <1>1 DEF Connecting, Quiet, TeeFor
  <2>2. \A t \in TeeFor(b) : ~Awaiting(b, t)
    BY <1>1 DEF Awaiting
  <2>3. (\E e \in ElementsOf(b) : Creating(b, e) \/ Choosing(b, e)) \/ \E t \in TeeFor(b) : Asking(b, t)
    BY <1>3, <2>1, <2>2 DEF Enabling
  <2>4. Quiet(Worker) /\ NoProbes
    BY <2>3 DEF Creating, Choosing, Asking
  <2>5. QED BY <1>2, <1>3, <2>3, <2>4 DEF UnderWay, Enabling
<1>4. CASE Disabling(b)
  <2>1. \A th \in Thread, e \in 1 .. N + 1 : Removing(b, th, e) => th = Worker
    BY <1>1 DEF Removing, Quiet
  <2>2. \A t \in TeeFor(b) : ~Leaving(b, t)
    BY <1>1 DEF Leaving
  <2>3. \/ TeeFor(b) # {} /\ \E e \in ElementsOf(b) : Looking(b, e)
        \/ \E t \in TeeFor(b) : Finding(b, t)
        \/ \E e \in 1 .. N + 1 :
             Removing(b, Worker, e) /\ (e \in ElementsOf(b) \/ (e = N + 1 /\ N \in ElementsOf(b)))
    BY <1>4, <2>1, <2>2 DEF Disabling
  <2>4. Quiet(Worker) /\ NoProbes
    BY <2>3 DEF Looking, Finding, Removing
  <2>5. QED BY <1>2, <1>4, <2>3, <2>4 DEF UnderWay, Disabling
<1>5. QED BY <1>2, <1>3, <1>4 DEF UnderWay

LEMMA RemovingAt ==
  ASSUME CleanInv, NEW th \in Thread, pc[th] = "disconnect"
  PROVE  \E b \in OptionalBranch : \E e \in 1 .. N + 1 :
           /\ \A c \in Branch \ {b} : AsAsked(c)
           /\ b \notin asked /\ NoForks(b) /\ Removing(b, th, e)
           /\ e \in ElementsOf(b) \/ (e = N + 1 /\ N \in ElementsOf(b))
<1>1. PICK b \in OptionalBranch : UnderWay(b)
  BY DEF CleanInv, Resting
<1>2. ~Enabling(b)
  <2>1. \A t \in TeeFor(b), e \in ElementsOf(b) : ~Connecting(b, t, e)
    BY DEF Connecting, Quiet
  <2>2. QED BY <2>1 DEF Enabling, Creating, Choosing, Asking, Awaiting, Quiet
<1>3. Disabling(b)
  BY <1>1, <1>2 DEF UnderWay
<1>4. \A o \in Thread, e \in 1 .. N + 1 : Removing(b, o, e) => th = o
  BY DEF Removing, Quiet
<1>5. \A t \in TeeFor(b) : ~Finding(b, t) /\ ~Leaving(b, t)
  BY DEF Finding, Leaving, Quiet
<1>6. \A e \in ElementsOf(b) : ~Looking(b, e)
  BY DEF Looking, Quiet
<1>7. QED BY <1>1, <1>3, <1>4, <1>5, <1>6 DEF UnderWay, Disabling

LEMMA ConnectingAt ==
  ASSUME CleanInv, NEW t \in Tee, pc[t] = "connect"
  PROVE  \E b \in OptionalBranch : \E e \in ElementsOf(b) :
           /\ \A c \in Branch \ {b} : AsAsked(c)
           /\ b \in asked /\ t \in TeeFor(b) /\ Connecting(b, t, e)
<1>1. t \in Thread /\ t # Worker
  BY Constants
<1>2. PICK b \in OptionalBranch : UnderWay(b)
  BY <1>1 DEF CleanInv, Resting
<1>3. ~Disabling(b)
  BY <1>1 DEF Disabling, Looking, Finding, Leaving, Removing, Quiet
<1>4. Enabling(b)
  BY <1>2, <1>3 DEF UnderWay
<1>5. \A e \in ElementsOf(b) : ~Creating(b, e) /\ ~Choosing(b, e)
  BY <1>1 DEF Creating, Choosing, Quiet
<1>6. \A s \in TeeFor(b) : ~Asking(b, s) /\ ~Awaiting(b, s)
  BY <1>1 DEF Asking, Awaiting, Quiet
<1>7. \A s \in TeeFor(b), e \in ElementsOf(b) : Connecting(b, s, e) => s = t
  BY <1>1 DEF Connecting, Quiet
<1>8. QED BY <1>2, <1>4, <1>5, <1>6, <1>7 DEF UnderWay, Enabling

LEMMA AwaitingAt ==
  ASSUME CleanInv, NEW t \in Tee, on[t] > 0
  PROVE  \E b \in OptionalBranch :
           /\ \A c \in Branch \ {b} : AsAsked(c)
           /\ b \in asked /\ t \in TeeFor(b) /\ Awaiting(b, t)
<1>1. ~NoProbes
  BY DEF NoProbes
<1>2. PICK b \in OptionalBranch : UnderWay(b)
  BY <1>1 DEF CleanInv, Resting
<1>3. ~Disabling(b)
  BY <1>1 DEF Disabling, Looking, Finding, Leaving, Removing
<1>4. Enabling(b)
  BY <1>2, <1>3 DEF UnderWay
<1>5. \E s \in TeeFor(b) : Awaiting(b, s)
  BY <1>1, <1>4 DEF Enabling, Creating, Choosing, Asking, Connecting
<1>6. \A s \in TeeFor(b) : Awaiting(b, s) => s = t
  BY DEF Awaiting
<1>7. QED BY <1>2, <1>4, <1>5, <1>6 DEF UnderWay, Enabling

LEMMA LeavingAt ==
  ASSUME CleanInv, NEW l \in off
  PROVE  \E b \in OptionalBranch : \E t \in TeeFor(b) :
           /\ \A c \in Branch \ {b} : AsAsked(c)
           /\ b \notin asked /\ NoForks(b) /\ l = <<t, First(b)>> /\ Leaving(b, t)
<1>1. ~NoProbes /\ off # {}
  BY DEF NoProbes
<1>2. PICK b \in OptionalBranch : UnderWay(b)
  BY <1>1 DEF CleanInv, Resting
<1>3. ~Enabling(b)
  BY <1>1 DEF Enabling, Creating, Choosing, Asking, Connecting, Awaiting
<1>4. Disabling(b)
  BY <1>2, <1>3 DEF UnderWay
<1>5. \E t \in TeeFor(b) : Leaving(b, t)
  BY <1>1, <1>4 DEF Disabling, Looking, Finding, Removing
<1>6. QED BY <1>2, <1>4, <1>5 DEF UnderWay, Disabling, Leaving

-----------------------------------------------------------------------------
(* Commands: as long as all is clean and the branch has its tee, each step of  *)
(* the worker goes on with the operation or ends it, but not the process.     *)

LEMMA WorkerIsThread == Worker \in Thread /\ \A t \in Tee : t \in Thread
BY Constants

\* A branch that has optional elements and is not the main one is optional.
LEMMA OptionalOrMain ==
  ASSUME NEW b \in Branch, NEW e \in Optional, BranchOf[e] = b, b # BranchOf[1]
  PROVE  b \in OptionalBranch
<1>1. First(b) \in Elem /\ BranchOf[First(b)] = b /\ e \in Elem
  BY FirstOfBranch, Constants
<1>2. First(b) \in Optional
  BY <1>1, BranchesAreWhole
<1>3. QED BY <1>2 DEF OptionalBranch

\* At rest a mandatory tee is there, and so is an optional one that is asked for.
LEMMA TeelessWhen ==
  ASSUME IInv, GInv, AskedInv, clean, Resting, NEW t \in Tee, ~initialized[t]
  PROVE  t \in Optional /\ BranchOf[t] \notin asked
<1>1. t \in Elem \ Mux /\ BranchOf[t] \in Branch /\ Worker \in Thread
  BY Constants
<1>2. t \in Optional
  <2> SUFFICES ASSUME t \in Mandatory PROVE FALSE
      BY <1>1 DEF Mandatory
  <2>1. t \in bin
    BY <1>1, Constants DEF IInv, BuiltPartStays, Obj
  <2>2. QED BY <1>1, <2>1 DEF GInv, BinAsFlags
<1>3. ASSUME BranchOf[t] \in asked PROVE FALSE
  <2>1. BranchOf[t] # BranchOf[1]
    BY <1>1, <1>3 DEF AskedInv, Resting
  <2>2. BranchOf[t] \in OptionalBranch
    BY <1>1, <1>2, <2>1, OptionalOrMain
  <2>3. IsOn(BranchOf[t])
    BY <1>1, <1>3, <2>2 DEF Resting, AsAsked
  <2>4. QED BY <1>1, <2>3 DEF IsOn, ElementsOf
<1>4. QED BY <1>2, <1>3

LEMMA CReceive ==
  ASSUME IInv, GInv, CInv, AskedInv, NEW b \in Branch, NEW label \in {"enable", "disable"},
         Receive(b, label), clean'
  PROVE  (CleanInv' \/ Doomed(b)') /\ ~crashed'
<1>1. clean /\ Settled /\ Supported(b, label) /\ pc[Worker] = "idle" /\ ~crashed'
  BY DEF Receive
<1>2. Resting
  BY <1>1, AtRestWhen DEF CInv
<1>3. PICK e \in Optional : BranchOf[e] = b
  BY DEF Receive
<1>4. /\ Quiet(Worker)' /\ pc'[Worker] = label /\ at'[Worker] = First(b)
      /\ UNCHANGED <<flags, gst, probes>> /\ NoProbes'
  <2>1. Quiet(Worker) /\ NoProbes
    BY <1>2 DEF Resting, Quiet
  <2>2. UNCHANGED <<flags, gst, probes>> /\ Goto(Worker, label, First(b))
    BY DEF Receive
  <2>3. QED BY <2>1, <2>2, Gone, WorkerIsThread DEF IInv, NoProbes, probes
<1>5. ASSUME NEW c \in Branch \ {b} PROVE AsAsked(c)'
  <2>1. c \in asked' <=> c \in asked
    BY DEF Receive
  <2>2. QED BY <1>2, <1>4, <2>1, FrameAsked DEF Resting
<1>6. First(b) \in ElementsOf(b) /\ TeeFor(b)' = TeeFor(b)
  BY <1>4, Frame, FirstIsFirst
<1>7. CASE TeeFor(b) = {}
  <2>1. ASSUME NEW t \in Tee, Feeds[t] = b
        PROVE  ~initialized[t] /\ t \in Optional /\ BranchOf[t] \notin asked
    BY <1>1, <1>2, <1>7, <2>1, TeelessWhen DEF TeeFor
  <2>2. ASSUME NEW t \in Tee, Feeds[t] = b, label = "enable" PROVE BranchOf[t] # b
    <3>1. BranchOf[t] \in Branch /\ t \in Elem
      BY Constants
    <3>2. ~Disabled(BranchOf[t]) /\ b # BranchOf[1]
      BY <1>1, <2>2, Constants DEF Supported
    <3>3. SUFFICES ASSUME BranchOf[t] = b PROVE FALSE
      OBVIOUS
    <3>4. b \in OptionalBranch /\ b \notin asked
      BY <1>3, <2>1, <2>2, <3>2, <3>3, OptionalOrMain
    <3>5. IsOff(b)
      BY <1>2, <3>4 DEF Resting, AsAsked
    <3>6. QED BY <3>2, <3>3, <3>5 DEF IsOff, Disabled, ElementsOf
  <2>3. asked' = IF label = "enable" THEN asked \cup {b} ELSE asked \ {b}
    BY DEF Receive
  <2>4. initialized' = initialized
    BY <1>4 DEF flags
  <2>5. Teeless(b)'
    BY <2>1, <2>2, <2>3, <2>4 DEF Teeless
  <2>6. Doomed(b)'
    BY <1>4, <1>5, <1>6, <2>3, <2>5 DEF Doomed
  <2>7. QED BY <1>1, <2>6
<1>8. CASE TeeFor(b) # {}
  <2>1. b \in OptionalBranch
    <3>1. PICK t \in Tee : Feeds[t] = b
      BY <1>8 DEF TeeFor
    <3>2. b # BranchOf[1]
      BY <3>1, Constants
    <3>3. QED BY <1>3, <3>2, OptionalOrMain
  <2>2. IF b \in asked THEN IsOn(b) ELSE IsOff(b)
    BY <1>2, <2>1 DEF Resting, AsAsked
  <2>3. CASE label = "enable"
    <3>1. b \in asked'
      BY <2>3 DEF Receive
    <3>2. ASSUME IsOff(b) PROVE Created(b, First(b))
      <4>1. Unfed(b)
        BY <1>6, <3>2, UnfedOutside DEF IsOff
      <4>2. \A d \in ElementsOf(b) : d \in Nat /\ First(b) <= d /\ First(b) \in Nat
        BY FirstIsFirst, Constants DEF ElementsOf
      <4>3. QED BY <3>2, <4>1, <4>2 DEF IsOff, Created
    <3>3. IsOn(b)' \/ Created(b, First(b))'
      BY <1>4, <2>2, <3>2, Frame, FrameAt
    <3>4. PICK f : f = First(b) /\ f \in ElementsOf(b)
      BY <1>6
    <3>5. Creating(b, f)'
      BY <1>4, <2>3, <3>3, <3>4 DEF Creating
    <3>6. Enabling(b)'
      BY <1>6, <1>8, <3>1, <3>4, <3>5 DEF Enabling
    <3>7. QED BY <1>1, <1>5, <2>1, <3>6, GoesOn
  <2>4. CASE label = "disable"
    <3>1. b \notin asked'
      BY <2>4 DEF Receive
    <3>2. IsOn(b)' \/ IsOff(b)'
      BY <1>4, <2>2, Frame
    <3>3. NoForks(b)'
      <4>1. NoForks(b)
        BY <1>1, <2>4 DEF Supported, Disabled, NoForks
      <4>2. QED BY <1>4, <4>1, Frame
    <3>4. PICK f : f = First(b) /\ f \in ElementsOf(b)
      BY <1>6
    <3>5. Looking(b, f)'
      BY <1>4, <2>4, <3>2, <3>4 DEF Looking
    <3>6. Disabling(b)'
      BY <1>6, <1>8, <3>1, <3>3, <3>4, <3>5 DEF Disabling
    <3>7. QED BY <1>1, <1>5, <2>1, <3>6, GoesOn
  <2>5. QED BY <2>3, <2>4
<1>9. QED BY <1>7, <1>8

LEMMA CEnableCreate ==
  ASSUME IInv, GInv, CInv, EnableCreate, clean'
  PROVE  CleanInv' /\ ~crashed'
<1>1. clean /\ pc[Worker] = "enable" /\ ~crashed /\ ~crashed'
  BY DEF EnableCreate
<1>2. PICK b \in OptionalBranch :
        /\ \A c \in Branch \ {b} : AsAsked(c)
        /\ Quiet(Worker) /\ NoProbes /\ b \in asked /\ TeeFor(b) # {}
        /\ \E e \in ElementsOf(b) : Creating(b, e)
  BY <1>1, WorkerAt DEF CInv, Choosing, Asking, Looking, Finding, Removing
<1>3. PICK e \in ElementsOf(b) : Creating(b, e)
  BY <1>2
<1>4. /\ at[Worker] = e /\ e \in Elem /\ e \in Optional /\ BranchOf[e] = b
      /\ b \in Branch /\ e \in Nat /\ \A d \in ElementsOf(b) : d \in Elem /\ d \in Nat /\ d <= N
  BY <1>3, OptionalWhole, Constants DEF Creating
<1>5. UNCHANGED <<linked, links, pads, probes, asked>>
  BY DEF EnableCreate
<1>6. ASSUME NEW c \in Branch \ {b},
             initialized' = initialized \/ initialized' = [initialized EXCEPT ![e] = TRUE]
      PROVE  AsAsked(c)'
  <2>1. \A d \in ElementsOf(c) : initialized'[d] = initialized[d]
    <3>1. \A d \in ElementsOf(c) : d # e
      BY <1>4 DEF ElementsOf
    <3>2. QED BY <1>6, <3>1 DEF IInv, TypeOK, ElementsOf
  <2>2. IsOn(c) => (\A d \in ElementsOf(c) : Joined(c, d)') /\ TeeLinked(c)'
    BY <1>5 DEF IsOn, Joined, TeeLinked
  <2>3. QED BY <1>2, <1>5, <2>1, <2>2, StillAsAsked
<1>7. /\ EnableNext(e)
      /\ \/ (initialized[e] \/ linked[e]) /\ UNCHANGED <<initialized, bin>>
         \/ ~initialized[e] /\ initialized' = [initialized EXCEPT ![e] = TRUE]
  BY <1>4 DEF EnableCreate
<1>8. IsOn(b)' \/ Created(b, e + 1)'
  <2>1. CASE IsOn(b)
    <3>1. UNCHANGED <<initialized, linked, links, pads>>
      BY <1>5, <1>7, <2>1 DEF IsOn
    <3>2. QED BY <2>1, <3>1 DEF IsOn, Joined, TeeLinked, PadsRight
  <2>2. CASE Created(b, e)
    <3>1. ~initialized[e] /\ ~linked[e]
      BY <1>4, <2>2 DEF Created
    <3>2. initialized' = [initialized EXCEPT ![e] = TRUE]
      BY <1>7, <3>1
    <3>3. ASSUME NEW d \in ElementsOf(b)
          PROVE  ~linked'[d] /\ (initialized'[d] <=> d < e + 1)
      <4>1. ~linked[d] /\ (initialized[d] <=> d < e) /\ d \in Elem /\ d \in Nat
        BY <1>4, <2>2 DEF Created
      <4>2. CASE d = e
        BY <1>4, <1>5, <3>2, <4>1, <4>2 DEF IInv, TypeOK
      <4>3. CASE d # e
        <5>1. initialized'[d] <=> initialized[d]
          BY <3>2, <4>1, <4>3 DEF IInv, TypeOK
        <5>2. QED BY <1>4, <1>5, <4>1, <4>3, <5>1
      <4>4. QED BY <4>2, <4>3
    <3>4. Unfed(b)' /\ PadsRight(b)'
      BY <1>5, <2>2 DEF Created, Unfed, PadsRight
    <3>5. QED BY <3>3, <3>4 DEF Created
  <2>3. QED BY <1>3, <2>1, <2>2 DEF Creating
<1>9. /\ b \in asked' /\ TeeFor(b)' # {} /\ NoProbes'
  <2>1. \A t \in Tee : initialized[t] => initialized'[t]
    BY <1>4, <1>7, Constants DEF IInv, TypeOK
  <2>2. TeeFor(b) \subseteq TeeFor(b)'
    BY <2>1 DEF TeeFor
  <2>3. NoProbes'
    BY <1>2, <1>5 DEF NoProbes, probes
  <2>4. QED BY <1>2, <1>5, <2>2, <2>3
<1>10. CASE e + 1 \in ElementsOf(b)
  <2>1. Goto(Worker, "enable", e + 1)
    BY <1>4, <1>7, <1>10, LastOrNext DEF EnableNext
  <2>2. Quiet(Worker)' /\ pc'[Worker] = "enable" /\ at'[Worker] = e + 1
    BY <1>2, <2>1, Gone, WorkerIsThread DEF IInv
  <2>3. Creating(b, e + 1)'
    BY <1>8, <1>9, <2>2 DEF Creating
  <2>4. PICK f \in ElementsOf(b) : Creating(b, f)'
    BY <1>10, <2>3
  <2>5. Enabling(b)'
    BY <1>9, <2>4 DEF Enabling
  <2>6. QED BY <1>1, <1>6, <1>7, <2>5, GoesOn
<1>11. CASE e + 1 \notin ElementsOf(b)
  <2>1. Goto(Worker, "find_tee", e)
    BY <1>4, <1>7, <1>11, LastOrNext DEF EnableNext
  <2>2. Quiet(Worker)' /\ pc'[Worker] = "find_tee" /\ at'[Worker] = e
    BY <1>2, <2>1, Gone, WorkerIsThread DEF IInv
  <2>3. Created(b, e + 1)' => Created(b, N + 1)'
    <3>1. \A d \in ElementsOf(b) : d <= e
      BY <1>4, <1>11, LastOrNext
    <3>2. N \in Nat
      BY Constants
    <3>3. \A d \in ElementsOf(b) : d < e + 1 /\ d < N + 1
      BY <1>4, <3>1, <3>2
    <3>4. QED BY <3>3 DEF Created
  <2>4. Choosing(b, e)'
    BY <1>8, <1>9, <2>2, <2>3 DEF Choosing
  <2>5. Enabling(b)'
    BY <1>9, <2>4 DEF Enabling
  <2>6. QED BY <1>1, <1>6, <1>7, <2>5, GoesOn
<1>12. QED BY <1>10, <1>11

LEMMA CEnableFindTee ==
  ASSUME IInv, GInv, CInv, EnableFindTee, clean'
  PROVE  CleanInv' /\ ~crashed'
<1>1. /\ clean /\ pc[Worker] = "find_tee" /\ ~crashed
      /\ UNCHANGED <<flags, gst, probes, asked>>
  BY DEF EnableFindTee, history
<1>2. PICK b \in OptionalBranch :
        /\ \A c \in Branch \ {b} : AsAsked(c)
        /\ Quiet(Worker) /\ NoProbes /\ b \in asked /\ TeeFor(b) # {}
        /\ \E e \in ElementsOf(b) : Choosing(b, e)
  BY <1>1, WorkerAt DEF CInv, Creating, Asking, Looking, Finding, Removing
<1>3. PICK e \in ElementsOf(b) : Choosing(b, e)
  BY <1>2
<1>4. at[Worker] = e /\ BranchOf[e] = b /\ b \in Branch
  BY <1>3, OptionalWhole DEF Choosing
<1>5. PICK t \in TeeFor(b) : Goto(Worker, "add_probe", t) /\ UNCHANGED crashed
  BY <1>2, <1>4 DEF EnableFindTee
<1>6. /\ Quiet(Worker)' /\ pc'[Worker] = "add_probe" /\ at'[Worker] = t /\ NoProbes'
  BY <1>1, <1>2, <1>5, Gone, WorkerIsThread DEF IInv, NoProbes, probes
<1>7. IsOn(b)' \/ Created(b, N + 1)'
  BY <1>1, <1>3, Frame, FrameAt DEF Choosing
<1>8. Asking(b, t)'
  BY <1>6, <1>7 DEF Asking
<1>9. TeeFor(b)' = TeeFor(b) /\ b \in asked'
  BY <1>1, <1>2, Frame
<1>10. Enabling(b)'
  BY <1>8, <1>9 DEF Enabling
<1>11. \A c \in Branch \ {b} : AsAsked(c)'
  BY <1>1, <1>2, FrameAsked
<1>12. QED BY <1>1, <1>5, <1>10, <1>11, GoesOn

LEMMA CEnableAddProbe ==
  ASSUME IInv, GInv, CInv, EnableAddProbe, clean'
  PROVE  CleanInv' /\ ~crashed'
<1>1. /\ clean /\ pc[Worker] = "add_probe" /\ ~crashed
      /\ UNCHANGED <<flags, gst, off, asked>>
  BY DEF EnableAddProbe, history
<1>2. PICK b \in OptionalBranch :
        /\ \A c \in Branch \ {b} : AsAsked(c)
        /\ Quiet(Worker) /\ NoProbes /\ b \in asked
        /\ \E t \in TeeFor(b) : Asking(b, t)
  BY <1>1, WorkerAt DEF CInv, Creating, Choosing, Looking, Finding, Removing
<1>3. PICK t \in TeeFor(b) : Asking(b, t)
  BY <1>2
<1>4. at[Worker] = t /\ t \in Tee /\ t \in bin
  <2>1. t \in Tee /\ initialized[t] /\ t \in Elem \ Mux
    BY Constants DEF TeeFor
  <2>2. QED BY <1>3, <2>1 DEF Asking, GInv, BinAsFlags
<1>5. on' = [on EXCEPT ![t] = @ + 1] /\ Return(Worker) /\ UNCHANGED crashed
  BY <1>4 DEF EnableAddProbe
<1>6. \A th \in Thread : pc'[th] = "idle"
  BY <1>2, <1>5, Idle, WorkerIsThread DEF IInv
<1>7. off' = {} /\ \A s \in Tee : on'[s] = IF s = t THEN 1 ELSE 0
  BY <1>1, <1>2, <1>4, <1>5 DEF NoProbes, IInv, TypeOK
<1>8. IsOn(b)' \/ Created(b, N + 1)'
  BY <1>1, <1>3, Frame, FrameAt DEF Asking
<1>9. Awaiting(b, t)'
  BY <1>6, <1>7, <1>8 DEF Awaiting
<1>10. TeeFor(b)' = TeeFor(b) /\ b \in asked'
  BY <1>1, <1>2, Frame
<1>11. Enabling(b)'
  BY <1>9, <1>10 DEF Enabling
<1>12. \A c \in Branch \ {b} : AsAsked(c)'
  BY <1>1, <1>2, FrameAsked
<1>13. QED BY <1>1, <1>5, <1>11, <1>12, GoesOn

LEMMA CDisableFindElements ==
  ASSUME IInv, GInv, CInv, DisableFindElements, clean'
  PROVE  CleanInv' /\ ~crashed'
<1>1. /\ clean /\ pc[Worker] = "disable" /\ ~crashed
      /\ UNCHANGED <<flags, gst, probes, asked>>
  BY DEF DisableFindElements, history
<1>2. PICK b \in OptionalBranch :
        /\ \A c \in Branch \ {b} : AsAsked(c)
        /\ Quiet(Worker) /\ NoProbes /\ b \notin asked /\ NoForks(b) /\ TeeFor(b) # {}
        /\ \E e \in ElementsOf(b) : Looking(b, e)
  BY <1>1, WorkerAt DEF CInv, Creating, Choosing, Asking, Finding, Removing
<1>3. PICK e \in ElementsOf(b) : Looking(b, e)
  BY <1>2
<1>4. at[Worker] = e /\ BranchOf[e] = b /\ b \in Branch /\ e \in Optional /\ e = First(b)
  BY <1>3, OptionalWhole DEF Looking
<1>5. \A c \in Branch \ {b} : AsAsked(c)'
  BY <1>1, <1>2, FrameAsked
<1>6. NoProbes' /\ NoForks(b)' /\ b \notin asked' /\ TeeFor(b)' = TeeFor(b)
  BY <1>1, <1>2, Frame DEF NoProbes, probes
<1>7. CASE linked[e]
  <2>1. PICK t \in TeeFor(b) : Goto(Worker, "find_pad", t) /\ UNCHANGED crashed
    BY <1>2, <1>4, <1>7 DEF DisableFindElements
  <2>2. Quiet(Worker)' /\ pc'[Worker] = "find_pad" /\ at'[Worker] = t
    BY <1>2, <2>1, Gone, WorkerIsThread DEF IInv
  <2>3. IsOn(b)'
    BY <1>1, <1>3, <1>7, Frame DEF Looking, IsOff
  <2>4. Finding(b, t)'
    BY <1>6, <2>2, <2>3 DEF Finding
  <2>5. Disabling(b)'
    BY <1>6, <2>4 DEF Disabling
  <2>6. QED BY <1>1, <1>5, <2>1, <2>5, GoesOn
<1>8. CASE ~linked[e]
  <2>1. Return(Worker) /\ UNCHANGED crashed
    BY <1>2, <1>4, <1>8 DEF DisableFindElements
  <2>2. \A th \in Thread : pc'[th] = "idle"
    BY <1>2, <2>1, Idle, WorkerIsThread DEF IInv
  <2>3. IsOff(b)'
    BY <1>1, <1>3, <1>8, Frame DEF Looking, IsOn
  <2>4. QED BY <1>1, <1>5, <1>6, <2>1, <2>2, <2>3, BackToRest
<1>9. QED BY <1>7, <1>8

-----------------------------------------------------------------------------
(* Taking a branch out, as long as all is clean *)

\* The link between a tee and its branch is the only one into the branch: the
\* rest of the branch stays as it is, and so do the others.
LEMMA CDisconnected ==
  ASSUME IInv, GInv, NEW b \in OptionalBranch, NEW t \in TeeFor(b), NEW l, l = <<t, First(b)>>,
         NEW th \in Thread, Quiet(th), b \notin asked, NoForks(b), IsOn(b),
         off \subseteq {l}, \A s \in Tee : on[s] = 0, \A c \in Branch \ {b} : AsAsked(c),
         Disconnect(th, l), UNCHANGED <<flags, bin, pads, on, asked>>
  PROVE  CleanInv'
<1>1. /\ b \in Branch /\ First(b) \in Elem \ Mux /\ First(b) # 0 /\ First(b) \in ElementsOf(b)
      /\ \A d \in ElementsOf(b) : First(b) <= d /\ d \in Elem
  BY OptionalWhole, FirstIsFirst
<1>2. t \in Tee /\ Feeds[t] = b /\ t # 0
  BY Constants DEF TeeFor
<1>3. /\ links' = links \ {l} /\ off' = {}
      /\ UNCHANGED <<initialized, linked, pads, on, asked>>
  BY DEF Disconnect, flags
<1>4. PICK e \in Enabled : Obj(e) = First(b) /\ Goto(th, "disconnect", e)
  BY DEF Disconnect
<1>5. e = First(b)
  BY <1>1, <1>4, Constants DEF Obj
<1>6. Quiet(th)' /\ pc'[th] = "disconnect" /\ at'[th] = e
  BY <1>4, Gone DEF IInv
<1>7. Unfed(b)'
  <2>1. SUFFICES ASSUME NEW k \in links, k # l, k[2] = First(b) PROVE FALSE
    BY <1>3 DEF Unfed
  <2>2. k[1] \in Tee /\ Feeds[k[1]] = b
    BY <2>1 DEF GInv, FedByItsTee
  <2>3. k[1] = t
    BY <1>2, <2>2, OneTee
  <2>4. k = <<k[1], k[2]>>
    BY DEF IInv, TypeOK
  <2>5. QED BY <2>1, <2>3, <2>4
<1>8. ASSUME NEW c \in Branch, NEW d \in ElementsOf(c), Joined(c, d) PROVE Joined(c, d)'
  <2>1. ASSUME d + 1 \in ElementsOf(c) PROVE <<Obj(d), Obj(d + 1)>> # l
    <3>1. SUFFICES ASSUME Obj(d + 1) = First(b) PROVE FALSE
      OBVIOUS
    <3>2. d + 1 = First(b) /\ d \in Elem /\ d + 1 \in Elem
      BY <1>1, <2>1, <3>1, Constants DEF Obj, ElementsOf
    <3>3. c = b
      BY <1>1, <2>1, <3>2 DEF ElementsOf
    <3>4. QED BY <1>1, <3>2, <3>3, Constants
  <2>2. QED BY <1>3, <1>8, <2>1 DEF Joined
<1>9. Removed(b, e)'
  <2>1. PadsRight(b)'
    BY <1>3 DEF IsOn, PadsRight
  <2>2. \A d \in ElementsOf(b) : e <= d /\ Joined(b, d)' /\ initialized'[d] /\ linked'[d]
    BY <1>1, <1>3, <1>5, <1>8 DEF IsOn
  <2>3. QED BY <1>7, <2>1, <2>2 DEF Removed
<1>10. Removing(b, th, e)'
  BY <1>3, <1>6, <1>9 DEF Removing, NoProbes
<1>11. Disabling(b)'
  <2>1. e \in 1 .. N + 1 /\ e \in ElementsOf(b)
    BY <1>1, <1>5, Constants
  <2>2. NoForks(b)' /\ b \notin asked'
    BY <1>3 DEF NoForks
  <2>3. QED BY <1>10, <2>1, <2>2 DEF Disabling
<1>12. ASSUME NEW c \in Branch \ {b} PROVE AsAsked(c)'
  <2>1. TeeLinked(c) => TeeLinked(c)'
    <3>1. First(c) # First(b)
      BY <1>1, FirstIsFirst DEF ElementsOf
    <3>2. QED BY <1>3, <3>1 DEF TeeLinked
  <2>2. IsOn(c) => (\A d \in ElementsOf(c) : Joined(c, d)') /\ TeeLinked(c)'
    BY <1>8, <2>1 DEF IsOn
  <2>3. QED BY <1>3, <2>2, StillAsAsked
<1>13. QED BY <1>11, <1>12, GoesOn

LEMMA CDisableAddProbe ==
  ASSUME IInv, GInv, CInv, DisableAddProbe, clean'
  PROVE  CleanInv' /\ ~crashed'
<1>1. /\ clean /\ pc[Worker] = "find_pad" /\ ~crashed
      /\ UNCHANGED <<flags, bin, pads, on, asked>>
  BY DEF DisableAddProbe, history
<1>2. PICK b \in OptionalBranch :
        /\ \A c \in Branch \ {b} : AsAsked(c)
        /\ Quiet(Worker) /\ NoProbes /\ b \notin asked /\ NoForks(b)
        /\ \E t \in TeeFor(b) : Finding(b, t)
  BY <1>1, WorkerAt DEF CInv, Creating, Choosing, Asking, Looking, Removing
<1>3. PICK t \in TeeFor(b) : Finding(b, t)
  BY <1>2
<1>4. at[Worker] = t /\ t \in Tee /\ Feeds[t] = b /\ t \in Thread /\ IsOn(b) /\ b \in Branch
  BY <1>3, Constants, OptionalWhole DEF Finding, TeeFor
<1>5. PICK l : l = <<t, First(b)>>
  OBVIOUS
<1>6. l \in links
  <2>1. PICK s \in Tee : Feeds[s] = b /\ <<s, First(b)>> \in links
    BY <1>4 DEF IsOn, TeeLinked
  <2>2. s = t
    BY <1>4, <2>1, OneTee
  <2>3. QED BY <1>5, <2>1, <2>2
<1>7. {l[1], l[2]} \subseteq bin
  BY <1>6 DEF GInv, LinksInBin
<1>8. \/ /\ off' = off \cup {l} /\ Return(Worker) /\ UNCHANGED <<links, crashed>>
      \/ /\ Disconnect(Worker, l) /\ UNCHANGED crashed
  BY <1>4, <1>5, <1>6, <1>7 DEF DisableAddProbe
<1>9. CASE off' = off \cup {l} /\ Return(Worker) /\ UNCHANGED <<links, crashed>>
  <2>1. \A th \in Thread : pc'[th] = "idle"
    BY <1>2, <1>9, Idle, WorkerIsThread DEF IInv
  <2>2. UNCHANGED <<flags, gst>>
    BY <1>1, <1>9 DEF gst
  <2>3. off' = {l} /\ \A s \in Tee : on'[s] = 0
    BY <1>1, <1>2, <1>9 DEF NoProbes
  <2>4. IsOn(b)' /\ NoForks(b)' /\ b \notin asked' /\ TeeFor(b)' = TeeFor(b)
    BY <1>1, <1>2, <1>4, <2>2, Frame
  <2>5. Leaving(b, t)'
    BY <1>5, <2>1, <2>3, <2>4 DEF Leaving
  <2>6. Disabling(b)'
    BY <2>4, <2>5 DEF Disabling
  <2>7. \A c \in Branch \ {b} : AsAsked(c)'
    BY <1>1, <1>2, <2>2, FrameAsked
  <2>8. QED BY <1>1, <1>9, <2>6, <2>7, GoesOn
<1>10. CASE Disconnect(Worker, l) /\ UNCHANGED crashed
  <2>1. off \subseteq {l} /\ \A s \in Tee : on[s] = 0
    BY <1>2 DEF NoProbes
  <2>2. QED BY <1>1, <1>2, <1>4, <1>5, <1>10, <2>1, CDisconnected, WorkerIsThread
<1>11. QED BY <1>8, <1>9, <1>10

LEMMA CDisconnectProbe ==
  ASSUME IInv, GInv, CInv, NEW l \in off, DisconnectProbe(l), clean'
  PROVE  CleanInv' /\ ~crashed'
<1>1. /\ clean /\ ~crashed /\ ~crashed' /\ Disconnect(l[1], l)
      /\ UNCHANGED <<flags, bin, pads, on, asked>>
  BY DEF DisconnectProbe, history
<1>0. PICK b \in OptionalBranch : \E t \in TeeFor(b) :
        /\ \A c \in Branch \ {b} : AsAsked(c)
        /\ b \notin asked /\ NoForks(b) /\ l = <<t, First(b)>> /\ Leaving(b, t)
  BY <1>1, LeavingAt DEF CInv
<1>2. PICK t \in TeeFor(b) :
        /\ \A c \in Branch \ {b} : AsAsked(c)
        /\ b \notin asked /\ NoForks(b) /\ l = <<t, First(b)>> /\ Leaving(b, t)
  BY <1>0
<1>3. t \in Thread /\ l[1] = t
  BY <1>2, Constants DEF TeeFor
<1>4. Quiet(t) /\ off \subseteq {l} /\ (\A s \in Tee : on[s] = 0) /\ IsOn(b)
  BY <1>2 DEF Leaving, Quiet
<1>5. QED BY <1>1, <1>2, <1>3, <1>4, CDisconnected

\* disconnectBranch at the element e: the rest of the branch is as it was.
LEMMA CDisconnectElement ==
  ASSUME IInv, GInv, CInv, NEW th \in Thread, DisconnectElement(th), clean'
  PROVE  CleanInv' /\ ~crashed'
<1>1. clean /\ pc[th] = "disconnect" /\ ~crashed /\ at[th] \in Elem /\ UNCHANGED asked
  BY DEF DisconnectElement, history
<1>2. PICK b \in OptionalBranch : \E e \in 1 .. N + 1 :
        /\ \A c \in Branch \ {b} : AsAsked(c)
        /\ b \notin asked /\ NoForks(b) /\ Removing(b, th, e)
        /\ e \in ElementsOf(b) \/ (e = N + 1 /\ N \in ElementsOf(b))
  BY <1>1, RemovingAt DEF CInv
<1>3. PICK e \in ElementsOf(b) :
        /\ \A c \in Branch \ {b} : AsAsked(c)
        /\ b \notin asked /\ NoForks(b) /\ Removing(b, th, e)
  BY <1>1, <1>2, Constants DEF Removing
<1>4. /\ b \in Branch /\ e \in Elem /\ BranchOf[e] = b /\ e \in Nat /\ e <= N /\ e # 0 /\ N \in Nat
      /\ at[th] = e /\ Quiet(th) /\ NoProbes /\ Removed(b, e)
  BY <1>3, OptionalWhole, Constants DEF Removing
<1>5. \A d \in ElementsOf(b) : d \in Elem /\ BranchOf[d] = b /\ d \in Nat /\ d <= N /\ d # 0
  BY OptionalWhole, Constants
<1>6. initialized[e] /\ linked[e]
  BY <1>4 DEF Removed
<1>7. /\ IF e \in Mux THEN DisconnectMux(e) ELSE RemoveElement(e)
      /\ ResetPipelineElement(e)
      /\ IF e = N \/ InBranch(e + 1, BranchOf[e])
         THEN Goto(th, "disconnect", e + 1) ELSE Return(th)
      /\ UNCHANGED crashed
  BY <1>4, <1>6 DEF DisconnectElement
<1>8. /\ ~initialized'[e] /\ ~linked'[e]
      /\ \A d \in Elem \ {e} : initialized'[d] = initialized[d] /\ linked'[d] = linked[d]
      /\ \A d \in Elem : initialized'[d] => initialized[d]
  BY <1>4, <1>7 DEF ResetPipelineElement, IInv, TypeOK
<1>9. links' \subseteq links
  BY <1>7 DEF DisconnectMux, MuxRemoved, RemoveElement
<1>10. NoProbes'
  BY <1>4, <1>7 DEF DisconnectMux, RemoveElement, NoProbes, probes
<1>11. \A m \in Named : m # e => pads'[m] = pads[m]
  BY <1>7, Constants DEF DisconnectMux, ReleasePad, RemoveElement, IInv, TypeOK
<1>12. PadsRight(b)'
  <2>1. ASSUME NEW m \in Named, BranchOf[m] = b
        PROVE  pads'[m] = IF linked'[m] THEN 1 ELSE 0
    <3>1. pads[m] = (IF linked[m] THEN 1 ELSE 0) /\ m \in Mux /\ m \in Elem
      BY <1>4, <2>1, Constants DEF Removed, PadsRight
    <3>2. CASE m # e
      BY <1>8, <1>11, <3>1, <3>2
    <3>3. CASE m = e
      <4>1. pads[m] = 1 /\ m \in Named /\ DisconnectMux(m)
        BY <1>6, <1>7, <3>1, <3>3
      <4>2. pads'[m] = 0
        BY <3>1, <4>1 DEF DisconnectMux, ReleasePad, IInv, TypeOK
      <4>3. QED BY <1>8, <3>3, <4>2
    <3>4. QED BY <3>2, <3>3
  <2>2. QED BY <2>1 DEF PadsRight
\* A link of another branch, or further down in this one, has neither e nor, if
\* e is the last to use it, the mux.
<1>13. ASSUME NEW c \in Branch, NEW d \in ElementsOf(c), Joined(c, d), d # e, d + 1 # e,
              c = b \/ IsOn(c)
       PROVE  Joined(c, d)'
  <2> SUFFICES ASSUME d + 1 \in ElementsOf(c)
               PROVE  <<Obj(d), Obj(d + 1)>> \in links'
      BY DEF Joined
  <2>1. <<Obj(d), Obj(d + 1)>> \in links
    BY <1>13 DEF Joined
  <2>2. d \in Elem /\ d + 1 \in Elem /\ BranchOf[d] = c /\ BranchOf[d + 1] = c
    BY DEF ElementsOf
  <2>3. CASE e \notin Mux
    <3>1. links' = links \ LinksOf(e, links)
      BY <1>7, <2>3 DEF RemoveElement
    <3>2. Obj(d) # e /\ Obj(d + 1) # e
      BY <1>4, <1>13, <2>2, Constants DEF Obj
    <3>3. QED BY <2>1, <3>1, <3>2 DEF LinksOf
  <2>4. CASE e \in Mux /\ MuxIsUsed
    BY <1>7, <2>1, <2>4 DEF DisconnectMux
  <2>5. CASE e \in Mux /\ ~MuxIsUsed
    <3>1. links' = links \ LinksOf(Shared, links)
      BY <1>7, <2>5 DEF DisconnectMux, MuxRemoved
    <3>2. \A l \in links : l[2] # Shared
      BY <2>5 DEF MuxIsUsed
    <3>3. Obj(d + 1) # Shared
      BY <2>1, <3>2
    <3>4. d \notin Mux
      <4>1. CASE c = b
        BY <1>13, <2>2, <2>5, <4>1, OneMux
      <4>2. CASE c # b /\ d \in Mux
        <5>1. d # First(c)
          BY <4>2, FirstIsFirst
        <5>2. d - 1 \in ElementsOf(c) /\ (d - 1) + 1 = d
          BY <2>2, <5>1, LastOrNext, Constants
        <5>3. Joined(c, d - 1)
          BY <1>13, <4>2, <5>2 DEF IsOn
        <5>4. <<Obj(d - 1), Obj(d)>> \in links
          BY <1>13, <5>2, <5>3 DEF Joined
        <5>5. QED BY <3>2, <4>2, <5>4 DEF Obj
      <4>3. QED BY <1>13, <4>1, <4>2
    <3>5. Obj(d) # Shared
      BY <2>2, <3>4, Constants DEF Obj
    <3>6. QED BY <2>1, <3>1, <3>3, <3>5 DEF LinksOf
  <2>6. QED BY <2>3, <2>4, <2>5
<1>14. ASSUME NEW c \in Branch \ {b} PROVE AsAsked(c)'
  <2>2. \A d \in ElementsOf(c) : initialized'[d] = initialized[d] /\ linked'[d] = linked[d]
    BY <1>4, <1>8 DEF ElementsOf
  <2>3. \A m \in Named : BranchOf[m] = c => pads'[m] = pads[m]
    BY <1>4, <1>11
  <2>4. ASSUME IsOn(c), NEW d \in ElementsOf(c) PROVE Joined(c, d)'
    <3>1. Joined(c, d)
      BY <2>4 DEF IsOn
    <3>2. CASE d + 1 \notin ElementsOf(c)
      BY <3>2 DEF Joined
    <3>3. CASE d + 1 \in ElementsOf(c)
      <4>1. d # e /\ d + 1 # e
        BY <1>4, <3>3 DEF ElementsOf
      <4>2. QED BY <1>13, <2>4, <3>1, <4>1
    <3>4. QED BY <3>2, <3>3
  <2>5. ASSUME IsOn(c) PROVE TeeLinked(c)'
    <3>1. PICK t \in Tee : Feeds[t] = c /\ <<t, First(c)>> \in links
      BY <2>5 DEF IsOn, TeeLinked
    <3>2. First(c) \in ElementsOf(c) /\ First(c) \in Elem /\ First(c) # 0 /\ BranchOf[First(c)] = c
      BY FirstIsFirst DEF ElementsOf
    <3>3. initialized[First(c)]
      BY <2>5, <3>2 DEF IsOn
    <3>4. t # e
      BY <1>3, <1>4, <3>1, <3>2, <3>3 DEF NoForks
    <3>5. t # 0 /\ First(c) # e
      BY <1>4, <3>2, Constants
    <3>6. <<t, First(c)>> \in links'
      <4>1. CASE e \notin Mux
        BY <1>7, <3>1, <3>4, <3>5, <4>1 DEF RemoveElement, LinksOf
      <4>2. CASE e \in Mux
        BY <1>7, <3>1, <3>2, <3>5, <4>2, Constants DEF DisconnectMux, MuxRemoved, LinksOf
      <4>3. QED BY <4>1, <4>2
    <3>7. QED BY <3>1, <3>6 DEF TeeLinked
  <2>6. QED BY <1>1, <1>3, <2>2, <2>3, <2>4, <2>5, StillAsAsked
<1>15. Removed(b, e + 1)'
  <2>1. Unfed(b)'
    BY <1>4, <1>9 DEF Removed, Unfed
  <2>2. ASSUME NEW d \in ElementsOf(b)
        PROVE  /\ initialized'[d] <=> e + 1 <= d
               /\ linked'[d] <=> e + 1 <= d
               /\ e + 1 <= d => Joined(b, d)'
    <3>1. /\ initialized[d] <=> e <= d
          /\ linked[d] <=> e <= d
          /\ e <= d => Joined(b, d)
      BY <1>4 DEF Removed
    <3>2. CASE d = e
      BY <1>4, <1>8, <3>2
    <3>3. CASE d # e
      <4>1. e + 1 <= d <=> e <= d
        BY <1>4, <1>5, <3>3
      <4>2. initialized'[d] = initialized[d] /\ linked'[d] = linked[d]
        BY <1>5, <1>8, <3>3
      <4>3. e + 1 <= d => d + 1 # e
        BY <1>4, <1>5
      <4>4. e + 1 <= d => Joined(b, d)'
        BY <1>4, <1>13, <3>1, <3>3, <4>1, <4>3
      <4>5. QED BY <3>1, <4>1, <4>2, <4>4
    <3>4. QED BY <3>2, <3>3
  <2>3. QED BY <1>12, <2>1, <2>2 DEF Removed
<1>16. NoForks(b)' /\ b \notin asked'
  BY <1>1, <1>3, <1>8 DEF NoForks
<1>17. InBranch(e + 1, b) <=> e + 1 \in ElementsOf(b)
  BY <1>4, LastOrNext
<1>18. CASE e = N \/ e + 1 \in ElementsOf(b)
  <2>1. Goto(th, "disconnect", e + 1)
    BY <1>4, <1>7, <1>17, <1>18
  <2>2. Quiet(th)' /\ pc'[th] = "disconnect" /\ at'[th] = e + 1
    BY <1>4, <2>1, Gone DEF IInv
  <2>3. PICK f : f = e + 1
    OBVIOUS
  <2>4. Removing(b, th, f)'
    BY <1>10, <1>15, <2>2, <2>3 DEF Removing
  <2>5. f \in 1 .. N + 1 /\ (f \in ElementsOf(b) \/ (f = N + 1 /\ N \in ElementsOf(b)))
    BY <1>4, <1>18, <2>3
  <2>6. Disabling(b)'
    BY <1>16, <2>4, <2>5 DEF Disabling
  <2>7. QED BY <1>1, <1>7, <1>14, <2>6, GoesOn
<1>19. CASE e # N /\ e + 1 \notin ElementsOf(b)
  <2>1. Return(th)
    BY <1>4, <1>7, <1>17, <1>19
  <2>2. \A o \in Thread : pc'[o] = "idle"
    BY <1>4, <2>1, Idle DEF IInv
  <2>3. \A d \in ElementsOf(b) : d <= e
    BY <1>4, <1>19, LastOrNext
  <2>4. \A d \in ElementsOf(b) : ~ (e + 1 <= d)
    BY <1>4, <1>5, <2>3
  <2>5. IsOff(b)'
    BY <1>15, <2>4 DEF Removed, IsOff
  <2>6. QED BY <1>1, <1>7, <1>10, <1>14, <1>16, <2>2, <2>5, BackToRest
<1>20. QED BY <1>18, <1>19

\* The one place where the process may end.
LEMMA CDisconnectPastEnd ==
  ASSUME IInv, GInv, CInv, NEW th \in Thread, DisconnectPastEnd(th), clean'
  PROVE  CleanInv' /\ (crashed' => pc'[th] = "disconnect" /\ at'[th] = N + 1)
<1>1. /\ clean /\ pc[th] = "disconnect" /\ ~crashed /\ at[th] = N + 1
      /\ UNCHANGED <<flags, gst, probes, asked>>
  BY DEF DisconnectPastEnd, history
<1>2. PICK b \in OptionalBranch : \E e \in 1 .. N + 1 :
        /\ \A c \in Branch \ {b} : AsAsked(c)
        /\ b \notin asked /\ NoForks(b) /\ Removing(b, th, e)
        /\ e \in ElementsOf(b) \/ (e = N + 1 /\ N \in ElementsOf(b))
  BY <1>1, RemovingAt DEF CInv
<1>3. PICK e \in 1 .. N + 1 : e = N + 1 /\ N \in ElementsOf(b) /\ Removing(b, th, e)
  <2>1. \A e \in ElementsOf(b) : e # N + 1
    BY Constants DEF ElementsOf
  <2>2. QED BY <1>1, <1>2, <2>1 DEF Removing
<1>4. \A c \in Branch \ {b} : AsAsked(c)'
  BY <1>1, <1>2, FrameAsked
<1>5. NoForks(b)' /\ b \notin asked' /\ Removed(b, e)' /\ NoProbes'
  BY <1>1, <1>2, <1>3, Frame, FrameAt DEF Removing, NoProbes, probes
<1>6. CASE Throw
  <2>1. UNCHANGED <<pc, at>>
    BY <1>6 DEF Throw
  <2>2. Removing(b, th, e)'
    BY <1>3, <1>5, <2>1 DEF Removing, Quiet
  <2>3. Disabling(b)'
    BY <1>3, <1>5, <2>2 DEF Disabling
  <2>4. QED BY <1>1, <1>4, <2>1, <2>3, GoesOn
<1>7. CASE Return(th) /\ UNCHANGED crashed
  <2>1. \A o \in Thread : pc'[o] = "idle"
    BY <1>3, <1>7, Idle DEF IInv, Removing
  <2>2. \A d \in ElementsOf(b) : ~ (e <= d)
    BY <1>3, Constants DEF ElementsOf
  <2>3. IsOff(b)'
    BY <1>5, <2>2 DEF Removed, IsOff
  <2>4. QED BY <1>1, <1>4, <1>5, <1>7, <2>1, <2>3, BackToRest
<1>8. QED BY <1>6, <1>7 DEF DisconnectPastEnd

-----------------------------------------------------------------------------
(* Putting a branch in, as long as all is clean *)

LEMMA CConnectProbe ==
  ASSUME IInv, GInv, CInv, NEW t \in Tee, ConnectProbe(t), clean'
  PROVE  CleanInv' /\ ~crashed'
<1>1. /\ clean /\ on[t] > 0 /\ ~crashed /\ ~crashed'
      /\ UNCHANGED <<flags, gst, off, asked>>
      /\ on' = [on EXCEPT ![t] = @ - 1] /\ Goto(t, "connect", First(Feeds[t]))
  BY DEF ConnectProbe, history
<1>2. PICK b \in OptionalBranch :
        /\ \A c \in Branch \ {b} : AsAsked(c)
        /\ b \in asked /\ t \in TeeFor(b) /\ Awaiting(b, t)
  BY <1>1, AwaitingAt DEF CInv
<1>3. PICK e \in ElementsOf(b) : e = First(b)
  BY OptionalWhole, FirstIsFirst
<1>4. /\ Quiet(t) /\ Feeds[t] = b /\ t \in Thread /\ b \in Branch
      /\ \A d \in ElementsOf(b) : d \in Nat /\ e <= d /\ d < N + 1
      /\ e \in Nat /\ e \notin Mux
  BY <1>2, <1>3, OptionalWhole, FirstIsFirst, Constants DEF Awaiting, Quiet, TeeFor
<1>5. Quiet(t)' /\ pc'[t] = "connect" /\ at'[t] = e
  BY <1>1, <1>3, <1>4, Gone DEF IInv
<1>6. NoProbes'
  BY <1>1, <1>2 DEF Awaiting, NoProbes, IInv, TypeOK
<1>7. Created(b, N + 1) => Connected(b, e)
  <2> SUFFICES ASSUME Created(b, N + 1) PROVE Connected(b, e)
      OBVIOUS
  <2>1. \A d \in ElementsOf(b) : initialized[d] /\ ~linked[d] /\ ~(d < e)
    BY <1>4 DEF Created
  <2>2. ASSUME NEW m \in Named, BranchOf[m] = b
        PROVE  pads[m] = IF m <= e THEN 1 ELSE 0
    <3>1. m \in ElementsOf(b) /\ m \in Mux
      BY <2>2, Constants DEF ElementsOf
    <3>2. pads[m] = 0 /\ ~(m <= e)
      BY <1>4, <2>1, <2>2, <3>1 DEF Created, PadsRight
    <3>3. QED BY <3>2
  <2>3. ~(First(b) < e)
    BY <1>3, <1>4
  <2>4. QED BY <2>1, <2>2, <2>3 DEF Connected
<1>8. IsOn(b)' \/ Connected(b, e)'
  BY <1>1, <1>2, <1>7, Frame, FrameAt DEF Awaiting
<1>9. Connecting(b, t, e)'
  BY <1>5, <1>6, <1>8 DEF Connecting
<1>10. b \in asked' /\ TeeFor(b)' = TeeFor(b)
  BY <1>1, <1>2, Frame
<1>11. Enabling(b)'
  BY <1>2, <1>9, <1>10 DEF Enabling
<1>12. \A c \in Branch \ {b} : AsAsked(c)'
  BY <1>1, <1>2, FrameAsked
<1>13. QED BY <1>1, <1>11, <1>12, GoesOn

\* The first element of the file is mandatory and stays, so every later one has
\* an enabled element before it.
LEMMA SomethingBefore ==
  ASSUME IInv, GInv, NEW e \in Elem, e # 1
  PROVE  \E p \in PreviousEnabled(e) : p \in Elem /\ p < e
<1>1. 1 \in Elem /\ 1 \in Mandatory /\ BranchOf[1] \in Branch
  BY BranchesAreWhole, Constants DEF Mandatory
<1>2. 1 \notin Mux
  <2>1. First(BranchOf[1]) = 1
    <3>1. 1 \in ElementsOf(BranchOf[1])
      BY <1>1 DEF ElementsOf
    <3>2. QED BY <1>1, <3>1, FirstIsFirst, Constants
  <2>2. QED BY <1>1, <2>1, FirstIsFirst
<1>3. initialized[1]
  BY <1>1, <1>2 DEF IInv, BuiltPartStays, GInv, BinAsFlags, Obj
<1> DEFINE S == {p \in Enabled : p < e}
<1>4. 1 \in S /\ S \subseteq Elem
  BY <1>1, <1>3, Constants DEF Enabled
<1>5. PICK p \in S : \A i \in S : i <= p
  BY <1>4, Greatest
<1>6. p \in Elem /\ p \in Nat /\ p < e /\ p \in Enabled /\ e \in Nat /\ e <= N
  BY <1>4, <1>5, Constants
<1>7. ASSUME NEW i \in p + 1 .. e - 1 PROVE ~initialized[i]
  <2>1. i \in Elem /\ i < e /\ p < i
    BY <1>6, Constants
  <2>2. i \notin S
    BY <1>5, <1>6, <2>1
  <2>3. QED BY <2>1, <2>2 DEF Enabled
<1>8. QED BY <1>6, <1>7 DEF PreviousEnabled

\* What linkGstElement asks for when the branch is linked up to e.
LEMMA Wanted ==
  ASSUME IInv, GInv, NEW b \in OptionalBranch, NEW e \in ElementsOf(b), NEW t \in TeeFor(b),
         Connected(b, e)
  PROVE  /\ Neighbours(e) = {} \/ ToNext(e) # {}
         /\ e + 1 \in ElementsOf(b) => /\ NextEnabled(e) = {e + 1}
                                       /\ ToNext(e) = {<<Obj(e), Obj(e + 1)>>}
         /\ e + 1 \notin ElementsOf(b) => ToNext(e) = {}
         /\ e = First(b) => <<t, First(b)>> \in FromTee(e, t)
<1>1. /\ e \in Elem /\ BranchOf[e] = b /\ b \in Branch /\ b # BranchOf[1] /\ e \in Nat
      /\ \A d \in ElementsOf(b) : d \in Elem /\ BranchOf[d] = b /\ d \in Nat
  BY OptionalWhole, Constants
<1>2. ASSUME e + 1 \in ElementsOf(b)
      PROVE  NextEnabled(e) = {e + 1} /\ ToNext(e) = {<<Obj(e), Obj(e + 1)>>}
  <2>1. initialized[e + 1] /\ ~linked[e + 1]
    BY <1>1, <1>2 DEF Connected
  <2>2. e + 1 \in Enabled
    BY <1>1, <1>2, <2>1 DEF Enabled
  <2>3. \A i \in Enabled : i \in Nat
    BY Constants DEF Enabled
  <2>4. NextEnabled(e) = {e + 1}
    <3>1. ASSUME NEW n \in NextEnabled(e) PROVE n = e + 1
      <4>1. n \in Nat /\ n > e /\ \A i \in e + 1 .. n - 1 : ~initialized[i]
        BY <2>3 DEF NextEnabled
      <4>2. e + 1 \notin e + 1 .. n - 1
        BY <2>1, <4>1
      <4>3. QED BY <1>1, <4>1, <4>2
    <3>2. e + 1 \in NextEnabled(e)
      BY <1>1, <2>2, <2>3 DEF NextEnabled
    <3>3. QED BY <3>1, <3>2
  <2>5. ToNext(e) = {<<Obj(e), Obj(e + 1)>>}
    BY <1>1, <1>2, <2>1, <2>4 DEF ToNext
  <2>6. QED BY <2>4, <2>5
<1>3. ASSUME e + 1 \notin ElementsOf(b)
      PROVE  ToNext(e) = {} /\ Neighbours(e) = {}
  <2>1. \A d \in ElementsOf(b) : d <= e
    BY <1>1, <1>3, LastOrNext
  <2>2. \A n \in NextEnabled(e) : n \in Elem /\ n > e /\ BranchOf[n] # BranchOf[e]
    BY <1>1, <2>1, Constants DEF NextEnabled, Enabled, ElementsOf
  <2>3. ToNext(e) = {}
    BY <2>2 DEF ToNext
  <2>4. Neighbours(e) = {}
    <3>1. SUFFICES ASSUME NEW p \in PreviousEnabled(e), NEW n \in NextEnabled(e),
                          BranchOf[p] = BranchOf[n]
                   PROVE  FALSE
      BY DEF Neighbours
    <3>2. p \in Elem /\ p < e /\ n \in Elem /\ e < n
      BY <2>2, Constants DEF PreviousEnabled, Enabled
    <3>3. BranchOf[e] = BranchOf[p]
      BY <1>1, <3>1, <3>2, Contiguous
    <3>4. QED BY <2>2, <3>1, <3>3
  <2>5. QED BY <2>3, <2>4
<1>4. ASSUME e = First(b) PROVE <<t, First(b)>> \in FromTee(e, t)
  <2>1. e # 1
    BY <1>1
  <2>2. PICK p \in PreviousEnabled(e) : p \in Elem /\ p < e
    BY <1>1, <2>1, SomethingBefore
  <2>3. BranchOf[p] # BranchOf[e]
    <3>1. p \in ElementsOf(b) => e <= p
      BY <1>1, <1>4, FirstIsFirst
    <3>2. QED BY <1>1, <2>2, <3>1, Constants DEF ElementsOf
  <2>4. Obj(e) = First(b)
    BY <1>1, <1>4, FirstIsFirst
  <2>5. QED BY <2>2, <2>3, <2>4 DEF FromTee
<1>5. QED BY <1>2, <1>3, <1>4

LEMMA CConnectElement ==
  ASSUME IInv, GInv, CInv, NEW t \in Tee, ConnectElement(t), clean'
  PROVE  CleanInv' /\ ~crashed'
<1>1. /\ clean /\ pc[t] = "connect" /\ ~crashed /\ ~crashed'
      /\ UNCHANGED <<initialized, bin, probes, asked>>
  BY DEF ConnectElement
<1>2. PICK b \in OptionalBranch : \E e \in ElementsOf(b) :
        /\ \A c \in Branch \ {b} : AsAsked(c)
        /\ b \in asked /\ t \in TeeFor(b) /\ Connecting(b, t, e)
  BY <1>1, ConnectingAt DEF CInv
<1>3. PICK e \in ElementsOf(b) :
        /\ \A c \in Branch \ {b} : AsAsked(c)
        /\ b \in asked /\ t \in TeeFor(b) /\ Connecting(b, t, e)
  BY <1>2
<1>4. /\ b \in Branch /\ e \in Elem /\ e \in Optional /\ BranchOf[e] = b /\ e \in Nat
      /\ at[t] = e /\ Quiet(t) /\ NoProbes /\ Feeds[t] = b /\ t \in Thread
      /\ \A d \in ElementsOf(b) : d \in Elem /\ BranchOf[d] = b /\ d \in Nat
  BY <1>3, OptionalWhole, Constants DEF Connecting, TeeFor
<1>5. NoProbes' /\ b \in asked' /\ t \in TeeFor(b)'
  BY <1>1, <1>3, <1>4 DEF NoProbes, probes, TeeFor
<1> DEFINE Advance == IF InBranch(e + 1, b) THEN Goto(t, "connect", e + 1) ELSE Return(t)
<1>6. InBranch(e + 1, b) <=> e + 1 \in ElementsOf(b)
  BY <1>4, LastOrNext
\* What is done to e makes the branch linked up to the next one, or whole.
<1>7. ASSUME Advance, \A c \in Branch \ {b} : AsAsked(c)',
             e + 1 \in ElementsOf(b) => IsOn(b)' \/ Connected(b, e + 1)',
             e + 1 \notin ElementsOf(b) => IsOn(b)'
      PROVE  CleanInv'
  <2>1. CASE e + 1 \in ElementsOf(b)
    <3>1. Quiet(t)' /\ pc'[t] = "connect" /\ at'[t] = e + 1
      BY <1>4, <1>6, <1>7, <2>1, Gone DEF IInv
    <3>2. PICK f \in ElementsOf(b) : f = e + 1
      BY <2>1
    <3>3. Connecting(b, t, f)'
      BY <1>5, <1>7, <2>1, <3>1, <3>2 DEF Connecting
    <3>4. Enabling(b)'
      BY <1>5, <3>3 DEF Enabling
    <3>5. QED BY <1>7, <3>4, GoesOn
  <2>2. CASE e + 1 \notin ElementsOf(b)
    <3>1. \A o \in Thread : pc'[o] = "idle"
      BY <1>4, <1>6, <1>7, <2>2, Idle DEF IInv
    <3>2. QED BY <1>5, <1>7, <2>2, <3>1, BackToRest
  <2>3. QED BY <2>1, <2>2
<1> HIDE DEF Advance
<1>8. CASE IsOn(b)
  <2>1. linked[e]
    BY <1>8 DEF IsOn
  <2>2. Advance /\ UNCHANGED <<linked, links, pads>>
    BY <1>4, <2>1 DEF ConnectElement, Advance
  <2>3. UNCHANGED <<flags, gst>>
    BY <1>1, <2>2 DEF flags, gst
  <2>4. IsOn(b)' /\ \A c \in Branch \ {b} : AsAsked(c)'
    BY <1>1, <1>3, <1>8, <2>3, Frame, FrameAsked
  <2>5. QED BY <1>1, <1>7, <2>2, <2>4
<1>9. CASE Connected(b, e)
  <2>1. initialized[e] /\ ~linked[e]
    BY <1>4, <1>9 DEF Connected
  <2> DEFINE between == ToNext(e) = {} /\ Neighbours(e) # {}
             wanted  == ToNext(e) \cup (IF between THEN Between(e) ELSE {}) \cup FromTee(e, t)
             kept    == IF between
                        THEN links \ {<<Obj(l[1]), Obj(l[2])>> : l \in Neighbours(e)}
                        ELSE links
  <2>2. PICK made \in SUBSET wanted, ok \in BOOLEAN :
          /\ made = wanted => ok
          /\ links' = kept \cup made
          /\ linked' = IF made = wanted \/ (ok /\ ~between)
                       THEN [linked EXCEPT ![e] = TRUE] ELSE linked
          /\ pads' = [m \in Mux |-> IF m \in NextEnabled(e) /\ <<e, Shared>> \in wanted
                                       /\ pads[m] < MaxPads
                                    THEN pads[m] + 1 ELSE pads[m]]
          /\ clean' = (clean /\ made = wanted)
          /\ IF ok THEN Advance ELSE Return(t)
    BY <1>4, <2>1 DEF ConnectElement, Advance
  <2>3. ~between
    BY <1>3, <1>9, Wanted
  <2>4. kept = links /\ wanted = ToNext(e) \cup FromTee(e, t)
    BY <2>3
  <2> HIDE DEF wanted, kept, between
  <2>5. made = wanted
    BY <2>2
  <2>6. /\ links' = links \cup ToNext(e) \cup FromTee(e, t)
        /\ linked' = [linked EXCEPT ![e] = TRUE] /\ Advance
    BY <2>2, <2>4, <2>5
  <2>7. links \subseteq links'
    BY <2>6
  <2>8. linked'[e] /\ \A d \in Elem \ {e} : linked'[d] = linked[d]
    BY <1>4, <2>6 DEF IInv, TypeOK
  <2>9. ASSUME NEW m \in Named, m # e + 1 \/ e + 1 \notin ElementsOf(b)
        PROVE  pads'[m] = pads[m]
    <3>1. m \in Mux
      BY Constants
    <3>2. SUFFICES ASSUME m \in NextEnabled(e), <<e, Shared>> \in wanted PROVE FALSE
      BY <2>2, <3>1
    <3>3. e + 1 \notin ElementsOf(b)
      BY <1>3, <1>9, <2>9, <3>2, Wanted
    <3>4. <<e, Shared>> \in FromTee(e, t)
      BY <1>3, <1>9, <2>4, <3>2, <3>3, Wanted
    <3>5. t = e /\ Obj(e) = Shared
      BY <3>4 DEF FromTee
    <3>6. QED BY <1>4, <3>5, Constants DEF Obj
  <2>10. ASSUME NEW m \in Named, m = e + 1, m \in ElementsOf(b)
         PROVE  pads'[m] = 1
    <3>1. m \in Mux /\ e # m /\ e \notin Mux
      BY <1>4, <2>10, OneMux, Constants
    <3>2. pads[m] = 0
      BY <1>4, <1>9, <2>10 DEF Connected
    <3>3. m \in NextEnabled(e) /\ <<Obj(e), Obj(m)>> \in ToNext(e)
      BY <1>3, <1>9, <2>10, Wanted
    <3>4. <<e, Shared>> \in wanted
      BY <2>4, <3>1, <3>3 DEF Obj
    <3>5. 0 < MaxPads
      BY BranchesAssumption
    <3>6. QED BY <2>2, <3>1, <3>2, <3>3, <3>4, <3>5
  <2>11. ASSUME NEW c \in Branch \ {b} PROVE AsAsked(c)'
    <3>1. \A d \in ElementsOf(c) : initialized'[d] = initialized[d] /\ linked'[d] = linked[d]
      BY <1>1, <1>4, <2>8 DEF ElementsOf
    <3>2. \A m \in Named : BranchOf[m] = c => pads'[m] = pads[m]
      BY <1>4, <2>9
    <3>3. IsOn(c) => (\A d \in ElementsOf(c) : Joined(c, d)') /\ TeeLinked(c)'
      BY <2>7 DEF IsOn, Joined, TeeLinked
    <3>4. QED BY <1>1, <1>3, <3>1, <3>2, <3>3, StillAsAsked
  <2>12. ASSUME NEW d \in ElementsOf(b)
         PROVE  /\ initialized'[d] /\ (linked'[d] <=> d < e + 1)
                /\ d < e + 1 => Joined(b, d)'
    <3>1. initialized[d] /\ (linked[d] <=> d < e) /\ (d < e => Joined(b, d))
      BY <1>9 DEF Connected
    <3>2. CASE d = e
      <4>1. Joined(b, e)'
        BY <1>3, <1>9, <2>6, Wanted DEF Joined
      <4>2. QED BY <1>1, <1>4, <2>8, <3>1, <3>2, <4>1
    <3>3. CASE d # e
      <4>1. /\ linked'[d] = linked[d]
            /\ d < e + 1 <=> d < e
        <5>1. d \in Elem \ {e}
          BY <1>4, <3>3
        <5>2. d \in Nat /\ e \in Nat
          BY <1>4
        <5>3. d < e + 1 <=> d < e
          BY <3>3, <5>2
        <5>4. QED BY <2>8, <5>1, <5>3
      <4>2. d < e => Joined(b, d)'
        BY <2>7, <3>1 DEF Joined
      <4>3. QED BY <1>1, <3>1, <4>1, <4>2
    <3>4. QED BY <3>2, <3>3
  <2>13. TeeLinked(b)'
    <3>1. CASE e = First(b)
      <4>1. <<t, First(b)>> \in links'
        BY <1>3, <1>9, <2>6, <3>1, Wanted
      <4>2. QED BY <1>4, <4>1 DEF TeeLinked
    <3>2. CASE e # First(b)
      <4>1. First(b) < e
        <5>1. First(b) \in ElementsOf(b) /\ \A d \in ElementsOf(b) : First(b) <= d
          BY <1>4, FirstIsFirst
        <5>2. e \in ElementsOf(b)
          BY <1>3
        <5>3. First(b) \in Nat
          BY <1>4, <5>1
        <5>4. QED BY <1>4, <3>2, <5>1, <5>2, <5>3
      <4>2. QED BY <1>9, <2>7, <4>1 DEF Connected, TeeLinked
    <3>3. QED BY <3>1, <3>2
  <2>14. ASSUME NEW m \in Named, BranchOf[m] = b
         PROVE  pads'[m] = IF m <= e + 1 THEN 1 ELSE 0
    <3>1. m \in ElementsOf(b) /\ m \in Nat
      BY <1>4, <2>14, Constants DEF ElementsOf
    <3>2. pads[m] = IF m <= e THEN 1 ELSE 0
      BY <1>9, <2>14 DEF Connected
    <3>3. CASE m = e + 1
      BY <1>4, <2>10, <3>1, <3>3
    <3>4. CASE m # e + 1
      <4>1. m <= e + 1 <=> m <= e
        BY <1>4, <3>1, <3>4
      <4>2. QED BY <2>9, <3>2, <3>4, <4>1
    <3>5. QED BY <3>3, <3>4
  <2>15. Connected(b, e + 1)'
    BY <2>12, <2>13, <2>14 DEF Connected
  <2>16. ASSUME e + 1 \notin ElementsOf(b) PROVE IsOn(b)'
    <3>1. \A d \in ElementsOf(b) : d <= e /\ d < e + 1 /\ d <= e + 1
      BY <1>4, <2>16, LastOrNext
    <3>2. \A d \in ElementsOf(b) : initialized'[d] /\ linked'[d] /\ Joined(b, d)'
      BY <2>12, <3>1
    <3>3. \A m \in Named : BranchOf[m] = b => m \in ElementsOf(b)
      BY Constants DEF ElementsOf
    <3>4. PadsRight(b)'
      BY <2>14, <3>1, <3>2, <3>3 DEF PadsRight
    <3>5. QED BY <2>13, <3>2, <3>4 DEF IsOn
  <2>17. QED BY <1>1, <1>7, <2>6, <2>11, <2>15, <2>16
<1>10. QED BY <1>3, <1>8, <1>9 DEF Connecting

-----------------------------------------------------------------------------
(* Supported commands, each sent when the one before has taken effect *)

LEMMA CInit == ASSUME Init PROVE CleanInv
<1>1. NoProbes /\ \A th \in Thread : pc[th] = "idle"
  BY DEF Init, NoProbes
<1>2. ASSUME NEW b \in Branch PROVE AsAsked(b)
  <2>1. PadsRight(b)
    BY Constants DEF Init, PadsRight
  <2>2. b \in OptionalBranch => IsOff(b)
    BY <2>1, OptionalWhole DEF Init, IsOff
  <2>3. b \notin asked
    BY DEF Init
  <2>4. QED BY <2>1, <2>2, <2>3 DEF AsAsked
<1>3. QED BY <1>1, <1>2 DEF CleanInv, Resting

\* While the operation, all of which is in the state, is left alone.
LEMMA CSame ==
  ASSUME CleanInv, UNCHANGED vars
  PROVE  CleanInv'
<1>1. UNCHANGED <<flags, gst>> /\ UNCHANGED <<on, off, pc, at, asked>>
  BY DEF vars, probes, history
<1>2. NoProbes => NoProbes'
  BY <1>1 DEF NoProbes
<1>3. \A th \in Thread : Quiet(th) => Quiet(th)'
  BY <1>1 DEF Quiet
<1>4. \A b \in Branch : AsAsked(b) => AsAsked(b)'
  BY <1>1, FrameAsked
<1>5. Resting => Resting'
  BY <1>1, <1>2, <1>4 DEF Resting
<1>6. ASSUME NEW b \in OptionalBranch, Enabling(b) PROVE Enabling(b)'
  <2>1. TeeFor(b)' = TeeFor(b) /\ b \in asked' /\ TeeFor(b) # {} /\ Worker \in Thread
    BY <1>1, <1>6, Frame, Constants DEF Enabling
  <2>2. (IsOn(b) => IsOn(b)') /\ \A e : Created(b, e) => Created(b, e)'
    BY <1>1, Frame, FrameAt
  <2>3. \A e : Connected(b, e) => Connected(b, e)'
    BY <1>1, FrameAt
  <2>4. \A e \in ElementsOf(b) : /\ Creating(b, e) => Creating(b, e)'
                                 /\ Choosing(b, e) => Choosing(b, e)'
    BY <1>1, <1>2, <1>3, <2>1, <2>2 DEF Creating, Choosing
  <2>5. \A t \in TeeFor(b) : /\ Asking(b, t) => Asking(b, t)'
                             /\ Awaiting(b, t) => Awaiting(b, t)'
    BY <1>1, <1>2, <1>3, <2>1, <2>2 DEF Asking, Awaiting
  <2>6. \A t \in TeeFor(b), e \in ElementsOf(b) : Connecting(b, t, e) => Connecting(b, t, e)'
    <3>1. \A t \in TeeFor(b) : t \in Thread
      BY Constants DEF TeeFor
    <3>2. QED BY <1>1, <1>2, <1>3, <2>2, <2>3, <3>1 DEF Connecting
  <2>7. QED BY <1>6, <2>1, <2>4, <2>5, <2>6 DEF Enabling
<1>7. ASSUME NEW b \in OptionalBranch, Disabling(b) PROVE Disabling(b)'
  <2>1. TeeFor(b)' = TeeFor(b) /\ b \notin asked' /\ NoForks(b)' /\ Worker \in Thread
    BY <1>1, <1>7, Frame, Constants DEF Disabling
  <2>2. (IsOn(b) => IsOn(b)') /\ (IsOff(b) => IsOff(b)') /\ \A e : Removed(b, e) => Removed(b, e)'
    BY <1>1, Frame, FrameAt
  <2>3. \A e \in ElementsOf(b) : Looking(b, e) => Looking(b, e)'
    BY <1>1, <1>2, <1>3, <2>1, <2>2 DEF Looking
  <2>4. \A t \in TeeFor(b) : (Finding(b, t) => Finding(b, t)') /\ (Leaving(b, t) => Leaving(b, t)')
    BY <1>1, <1>2, <1>3, <2>1, <2>2 DEF Finding, Leaving
  <2>5. \A th \in Thread, e \in 1 .. N + 1 : Removing(b, th, e) => Removing(b, th, e)'
    BY <1>1, <1>2, <1>3, <2>2 DEF Removing
  <2>6. QED BY <1>7, <2>1, <2>3, <2>4, <2>5 DEF Disabling
<1>8. QED BY <1>4, <1>5, <1>6, <1>7, OptionalWhole DEF CleanInv, UnderWay

(* The history *)

LEMMA HistoryOnly ==
  ASSUME Next, clean'
  PROVE  clean /\ (Command \/ asked' = asked)
<1>1. CASE Command
  BY <1>1 DEF Command, Receive
<1>2. ASSUME NEW th \in Thread, DisconnectElement(th) \/ DisconnectPastEnd(th)
      PROVE  clean /\ asked' = asked
  BY <1>2 DEF DisconnectElement, DisconnectPastEnd, history
<1>3. CASE WorkerStep
  <2>1. CASE EnableCreate
    BY <2>1 DEF EnableCreate
  <2>2. CASE EnableFindTee \/ EnableAddProbe
    BY <2>2 DEF EnableFindTee, EnableAddProbe, history
  <2>3. CASE DisableFindElements \/ DisableAddProbe
    BY <2>3 DEF DisableFindElements, DisableAddProbe, history
  <2>4. QED BY <1>2, <1>3, <2>1, <2>2, <2>3, WorkerIsThread DEF WorkerStep
<1>4. ASSUME NEW t \in Tee, Streaming(t) PROVE clean /\ asked' = asked
  <2>1. CASE ConnectProbe(t)
    BY <2>1 DEF ConnectProbe, history
  <2>2. CASE ConnectElement(t)
    BY <2>2 DEF ConnectElement
  <2>3. ASSUME NEW l \in off, DisconnectProbe(l) PROVE clean /\ asked' = asked
    BY <2>3 DEF DisconnectProbe, history
  <2>4. QED BY <1>2, <1>4, <2>1, <2>2, <2>3, WorkerIsThread DEF Streaming
<1>5. QED BY <1>1, <1>3, <1>4 DEF Next

-----------------------------------------------------------------------------
(* Commands for a branch that has no tee *)

\* Only the worker moves, and it goes on to look for the tee that is not there.
LEMMA DStep ==
  ASSUME IInv, NEW b \in Branch, Doomed(b), Next, clean'
  PROVE  Doomed(b)' /\ (crashed' => pc'[Worker] \in {"find_tee", "disable"})
<1>1. /\ Worker \in Thread /\ \A t \in Tee : t \in Thread /\ t # Worker
      /\ pc[Worker] \in {"enable", "find_tee", "disable"}
      /\ \A t \in Tee : pc[t] = "idle" /\ on[t] = 0
      /\ off = {} /\ at[Worker] \in Elem /\ BranchOf[at[Worker]] = b
  BY Constants DEF Doomed, Quiet, NoProbes, ElementsOf
<1>2. ~Command
  BY <1>1 DEF Command, Receive
<1>3. ASSUME NEW t \in Tee, Streaming(t) PROVE FALSE
  <2>1. pc[t] = "idle" /\ on[t] = 0 /\ ~(on[t] > 0) /\ ~\E l \in off : l[1] = t
    BY <1>1
  <2>2. ~ConnectProbe(t) /\ ~ConnectElement(t)
    BY <2>1 DEF ConnectProbe, ConnectElement
  <2>3. ~DisconnectElement(t) /\ ~DisconnectPastEnd(t)
    BY <2>1 DEF DisconnectElement, DisconnectPastEnd
  <2>4. QED BY <1>3, <2>1, <2>2, <2>3 DEF Streaming
<1>4. EnableCreate \/ EnableFindTee \/ DisableFindElements
  BY <1>1, <1>2, <1>3 DEF Next, WorkerStep, EnableAddProbe, DisableAddProbe, DisconnectElement,
                          DisconnectPastEnd
<1>5. CASE EnableFindTee \/ DisableFindElements
  <2>1. TeeFor(BranchOf[at[Worker]]) = {}
    BY <1>1 DEF TeeFor, Doomed, Teeless
  <2>2. Throw /\ pc[Worker] \in {"find_tee", "disable"}
    BY <1>5, <2>1 DEF EnableFindTee, DisableFindElements
  <2>3. UNCHANGED <<flags, gst, probes, asked, pc, at>>
    BY <1>5, <2>2 DEF EnableFindTee, DisableFindElements, Throw, history
  <2>4. \A c \in Branch \ {b} : AsAsked(c)'
    BY <2>3, FrameAsked DEF Doomed
  <2>5. Quiet(Worker)' /\ NoProbes' /\ Teeless(b)'
    BY <2>3 DEF Doomed, Quiet, NoProbes, Teeless, flags, probes
  <2>6. QED BY <2>2, <2>3, <2>4, <2>5 DEF Doomed
<1>6. CASE EnableCreate
  <2> DEFINE e == at[Worker]
  <2>1. /\ clean /\ pc[Worker] = "enable" /\ ~crashed /\ ~crashed' /\ b \in asked
        /\ UNCHANGED <<linked, links, pads, probes, asked>>
    BY <1>1, <1>6 DEF EnableCreate, Doomed
  <2>2. /\ EnableNext(e)
        /\ \/ initialized' = initialized
           \/ initialized' = [initialized EXCEPT ![e] = TRUE]
    BY <1>6 DEF EnableCreate
  <2> HIDE DEF e
  <2>3. ASSUME NEW c \in Branch \ {b} PROVE AsAsked(c)'
    <3>1. \A d \in ElementsOf(c) : initialized'[d] = initialized[d]
      <4>1. \A d \in ElementsOf(c) : d # e
        BY <1>1 DEF ElementsOf, e
      <4>2. QED BY <2>2, <4>1 DEF IInv, TypeOK, ElementsOf
    <3>2. IsOn(c) => (\A d \in ElementsOf(c) : Joined(c, d)') /\ TeeLinked(c)'
      BY <2>1 DEF IsOn, Joined, TeeLinked
    <3>3. QED BY <2>1, <3>1, <3>2, StillAsAsked DEF Doomed
  <2>4. Teeless(b)'
    <3>1. ASSUME NEW t \in Tee, Feeds[t] = b
          PROVE  ~initialized'[t] /\ t \in Optional /\ BranchOf[t] \notin asked'
      <4>1. ~initialized[t] /\ t \in Optional /\ BranchOf[t] \notin asked
        BY <3>1 DEF Doomed, Teeless
      <4>2. t # e /\ t \in Elem
        BY <1>1, <2>1, <4>1, Constants DEF e
      <4>3. QED BY <2>1, <2>2, <4>1, <4>2 DEF IInv, TypeOK
    <3>2. QED BY <3>1 DEF Teeless
  <2>5. e \in ElementsOf(b) /\ BranchOf[e] = b
    BY <1>1 DEF ElementsOf, e
  <2>6. NoProbes'
    BY <2>1 DEF Doomed, NoProbes, probes
  <2>7. CASE InBranch(e + 1, b)
    <3>1. Goto(Worker, "enable", e + 1)
      BY <2>2, <2>5, <2>7 DEF EnableNext
    <3>2. e + 1 \in ElementsOf(b)
      BY <2>7 DEF InBranch, ElementsOf
    <3>3. Quiet(Worker)' /\ pc'[Worker] = "enable" /\ at'[Worker] = e + 1
      BY <1>1, <3>1, Gone DEF IInv, Doomed
    <3>4. QED BY <2>1, <2>3, <2>4, <2>6, <3>2, <3>3 DEF Doomed
  <2>8. CASE ~InBranch(e + 1, b)
    <3>1. Goto(Worker, "find_tee", e)
      BY <2>2, <2>5, <2>8 DEF EnableNext
    <3>2. Quiet(Worker)' /\ pc'[Worker] = "find_tee" /\ at'[Worker] = e
      BY <1>1, <3>1, Gone DEF IInv, Doomed
    <3>3. QED BY <2>1, <2>3, <2>4, <2>5, <2>6, <3>2 DEF Doomed
  <2>9. QED BY <2>7, <2>8
<1>7. QED BY <1>4, <1>5, <1>6

\* The main branch is asked for by a command that will find no tee.
LEMMA AskedNext == IInv /\ AskedInv /\ [Next]_vars => AskedInv'
<1> SUFFICES ASSUME IInv, AskedInv, [Next]_vars, clean' PROVE AskedInv'
    BY DEF AskedInv
<1> DEFINE main == BranchOf[1]
<1>1. Worker \in Thread /\ \A t \in Tee : t \in Thread /\ t # Worker
  BY Constants
<1>2. CASE Command
  <2>1. PICK b \in Branch, label \in {"enable", "disable"} : Receive(b, label)
    BY <1>2 DEF Command
  <2>2. /\ clean /\ pc[Worker] = "idle" /\ Goto(Worker, label, First(b))
        /\ asked' = IF label = "enable" THEN asked \cup {b} ELSE asked \ {b}
        /\ \E e \in Optional : BranchOf[e] = b
    BY <2>1 DEF Receive
  <2>3. main \notin asked /\ \A c \in asked : \E e \in Optional : BranchOf[e] = c
    BY <2>2 DEF AskedInv
  <2>4. pc'[Worker] = label /\ at'[Worker] = First(b) /\ First(b) \in ElementsOf(b)
    BY <1>1, <2>2, Gone, FirstIsFirst DEF IInv
  <2>5. main \in asked' => b = main /\ label = "enable"
    BY <2>2, <2>3
  <2>6. QED BY <2>2, <2>3, <2>4, <2>5 DEF AskedInv
<1>3. CASE ~Command
  <2>1. clean /\ asked' = asked
    BY <1>3, HistoryOnly DEF vars, history
  <2>2. \A c \in asked : \E e \in Optional : BranchOf[e] = c
    BY <2>1 DEF AskedInv
  <2>3. SUFFICES ASSUME main \in asked
                 PROVE  /\ pc'[Worker] \in {"enable", "find_tee"}
                        /\ at'[Worker] \in ElementsOf(main)
    BY <2>1, <2>2 DEF AskedInv
  <2>4. /\ pc[Worker] \in {"enable", "find_tee"} /\ at[Worker] \in ElementsOf(main)
        /\ at[Worker] \in Elem /\ BranchOf[at[Worker]] = main
    BY <2>1, <2>3 DEF AskedInv, ElementsOf
  <2>5. CASE UNCHANGED <<pc, at>>
    BY <2>4, <2>5
  <2>6. CASE EnableCreate
    <3>1. EnableNext(at[Worker])
      BY <2>6 DEF EnableCreate
    <3>2. CASE InBranch(at[Worker] + 1, main)
      <4>1. Goto(Worker, "enable", at[Worker] + 1) /\ at[Worker] + 1 \in ElementsOf(main)
        BY <2>4, <3>1, <3>2 DEF EnableNext, InBranch, ElementsOf
      <4>2. QED BY <1>1, <4>1, Gone DEF IInv
    <3>3. CASE ~InBranch(at[Worker] + 1, main)
      <4>1. Goto(Worker, "find_tee", at[Worker])
        BY <2>4, <3>1, <3>3 DEF EnableNext
      <4>2. QED BY <1>1, <2>4, <4>1, Gone DEF IInv
    <3>4. QED BY <3>2, <3>3
  <2>7. CASE EnableFindTee
    <3>1. TeeFor(main) = {}
      BY Constants DEF TeeFor
    <3>2. Throw
      BY <2>4, <2>7, <3>1 DEF EnableFindTee
    <3>3. QED BY <2>5, <3>2 DEF Throw
  <2>8. ASSUME NEW t \in Tee, Streaming(t) PROVE pc'[Worker] = pc[Worker] /\ at'[Worker] = at[Worker]
    <3>1. (\E label, e : Goto(t, label, e)) \/ UNCHANGED <<pc, at>>
      BY <1>1, <2>8 DEF Streaming, ConnectProbe, ConnectElement, DisconnectProbe, Disconnect,
                        DisconnectElement, DisconnectPastEnd, Return, Throw
    <3>2. QED BY <1>1, <3>1, Gone DEF IInv
  <2>9. QED BY <1>3, <2>4, <2>5, <2>6, <2>7, <2>8 DEF Next, WorkerStep, EnableAddProbe,
               DisableFindElements, DisableAddProbe, DisconnectElement, DisconnectPastEnd, vars
<1>4. QED BY <1>2, <1>3

-----------------------------------------------------------------------------
(* All together *)

CrashInv == DInv /\ AskedInv /\ CrashIsKnown

LEMMA CStep ==
  ASSUME IInv, GInv, CInv, AskedInv, Next, clean'
  PROVE  /\ CleanInv' \/ \E b \in Branch : Doomed(b)'
         /\ crashed' => \E th \in Thread : pc'[th] = "disconnect" /\ at'[th] = N + 1
<1>1. ASSUME NEW th \in Thread, DisconnectElement(th) \/ DisconnectPastEnd(th)
      PROVE  CleanInv' /\ (crashed' => \E o \in Thread : pc'[o] = "disconnect" /\ at'[o] = N + 1)
  BY <1>1, CDisconnectElement, CDisconnectPastEnd
<1>2. CASE Command
  BY <1>2, CReceive DEF Command
<1>3. CASE WorkerStep
  BY <1>1, <1>3, WorkerIsThread, CEnableCreate, CEnableFindTee, CEnableAddProbe,
     CDisableFindElements, CDisableAddProbe DEF WorkerStep
<1>4. ASSUME NEW t \in Tee, Streaming(t)
      PROVE  CleanInv' /\ (crashed' => \E o \in Thread : pc'[o] = "disconnect" /\ at'[o] = N + 1)
  BY <1>1, <1>4, WorkerIsThread, CConnectProbe, CConnectElement, CDisconnectProbe DEF Streaming
<1>5. QED BY <1>2, <1>3, <1>4 DEF Next

LEMMA CNext == IInv /\ GInv /\ CrashInv /\ [Next]_vars => CrashInv'
<1> SUFFICES ASSUME IInv, GInv, CrashInv, [Next]_vars PROVE CrashInv'
    OBVIOUS
<1>1. AskedInv'
  BY AskedNext DEF CrashInv
<1>2. CASE Next /\ clean'
  <2>1. clean
    BY <1>2, HistoryOnly
  <2>2. CASE CleanInv
    BY <1>1, <1>2, <2>2, CStep DEF CrashInv, CInv, DInv, CrashIsKnown
  <2>3. ASSUME NEW b \in Branch, Doomed(b) PROVE CrashInv'
    <3>1. Doomed(b)' /\ (crashed' => pc'[Worker] \in {"find_tee", "disable"})
      BY <1>2, <2>3, DStep
    <3>2. Teeless(b)' /\ BranchOf[at'[Worker]] = b
      BY <3>1 DEF Doomed, ElementsOf
    <3>3. CrashIsKnown'
      BY <3>1, <3>2 DEF CrashIsKnown, Teeless
    <3>4. QED BY <1>1, <3>1, <3>3 DEF CrashInv, DInv
  <2>4. QED BY <2>1, <2>2, <2>3 DEF CrashInv, DInv
<1>3. CASE ~clean'
  BY <1>1, <1>3 DEF CrashInv, DInv, CrashIsKnown
<1>4. CASE UNCHANGED vars
  <2>1. UNCHANGED <<flags, gst, probes, clean, crashed, pc, at, asked>>
    BY <1>4 DEF vars, history
  <2>2. CleanInv => CleanInv'
    BY <1>4, CSame
  <2>3. ASSUME NEW b \in Branch, Doomed(b) PROVE Doomed(b)'
    <3>1. \A c \in Branch \ {b} : AsAsked(c)'
      BY <2>1, <2>3, FrameAsked DEF Doomed
    <3>2. Quiet(Worker)' /\ NoProbes' /\ Teeless(b)'
      BY <2>1, <2>3 DEF Doomed, Quiet, NoProbes, Teeless, flags, probes
    <3>3. QED BY <2>1, <2>3, <3>1, <3>2 DEF Doomed
  <2>4. DInv'
    BY <2>1, <2>2, <2>3 DEF CrashInv, DInv
  <2>5. CrashIsKnown'
    BY <2>1 DEF CrashInv, CrashIsKnown
  <2>6. QED BY <1>1, <2>4, <2>5 DEF CrashInv
<1>5. QED BY <1>2, <1>3, <1>4

LEMMA CleanInvariance == Spec => [](IInv /\ GInv /\ CrashInv)
<1>1. Init => IInv /\ GInv /\ CrashInv
  <2>1. Init => CrashIsKnown /\ AskedInv
    BY DEF Init, CrashIsKnown, AskedInv
  <2>2. QED BY <2>1, IInit, GInit, CInit DEF CrashInv, DInv
<1>2. IInv /\ GInv /\ CrashInv /\ [Next]_vars => (IInv /\ GInv /\ CrashInv)'
  BY INext, GNext, CNext
<1>3. QED BY <1>1, <1>2, PTL DEF Spec

\* In a supported and settled sequence of commands the process ends nowhere but
\* where disconnectBranch looks behind the end of pipeline_elements_, and where a
\* command looks for the tee of a branch that has none, or whose tee is optional
\* and not asked for: a tee that should be there is found, its pad is there and no
\* mux is null.
THEOREM OnlyKnownCrashes == Spec => []CrashIsKnown
<1>1. CrashInv => CrashIsKnown
  BY DEF CrashInv
<1>2. QED BY <1>1, CleanInvariance, PTL

\* Whenever such a sequence rests, every optional branch is in the stream as a
\* whole or not in the pipeline at all, as its last command said, and the pads
\* of the mux are those of its branches.
THEOREM BranchesAreAsAsked == Spec => []BranchAsAsked
<1>1. IInv /\ GInv /\ CrashInv => BranchAsAsked
  <2> SUFFICES ASSUME GInv, DInv, AtRest, clean
               PROVE  /\ \A b \in OptionalBranch : IF b \in asked THEN On(b) ELSE Off(b)
                      /\ \A m \in Named : pads[m] = IF linked[m] THEN 1 ELSE 0
      BY DEF BranchAsAsked, CrashInv
  <2>1. Resting
    BY AtRestWhen DEF DInv, AtRest, Doomed
  <2>2. ASSUME NEW b \in OptionalBranch PROVE IF b \in asked THEN On(b) ELSE Off(b)
    <3>1. IF b \in asked THEN IsOn(b) ELSE IsOff(b)
      BY <2>1, OptionalWhole DEF Resting, AsAsked
    <3>2. IsOn(b) => On(b)
      BY DEF IsOn, On, Chained, Joined, TeeLinked
    <3>3. IsOff(b) => Off(b)
      BY OptionalWhole DEF IsOff, Off, GInv, BinAsFlags
    <3>4. QED BY <3>1, <3>2, <3>3
  <2>3. ASSUME NEW m \in Named PROVE pads[m] = IF linked[m] THEN 1 ELSE 0
    <3>1. m \in Elem /\ BranchOf[m] \in Branch
      BY Constants
    <3>2. PadsRight(BranchOf[m])
      BY <2>1, <3>1 DEF Resting, AsAsked
    <3>3. QED BY <3>2 DEF PadsRight
  <2>4. QED BY <2>2, <2>3
<1>2. QED BY <1>1, CleanInvariance, PTL

\* In such a sequence a tee sends no data into a part of a branch, not even
\* while the branch is being connected or taken apart.
THEOREM PartsAreNotFed == Spec => []FlowsOnlyIntoWhole
<1>1. IInv /\ GInv /\ CrashInv => FlowsOnlyIntoWhole
  <2> SUFFICES ASSUME GInv, CleanInv \/ \E c \in Branch : Doomed(c),
                      NEW b \in OptionalBranch, NEW t \in Tee,
                      <<t, First(b)>> \in links, pc[t] # "connect"
               PROVE  Chained(b)
      BY DEF FlowsOnlyIntoWhole, CrashInv, DInv
  <2>1. b \in Branch /\ First(b) \in ElementsOf(b)
    BY OptionalWhole, FirstIsFirst
  <2>2. initialized[First(b)] /\ ~Unfed(b)
    BY <2>1, UnfedOutside DEF Unfed
  <2>3. IsOn(b) => Chained(b)
    BY DEF IsOn, Chained, Joined
  <2>4. ~IsOff(b) /\ (\A e : ~Created(b, e)) /\ (\A e : ~Removed(b, e))
    BY <2>1, <2>2 DEF IsOff, Created, Removed
  <2>5. AsAsked(b) => IsOn(b)
    BY <2>4 DEF AsAsked
  <2>6. Feeds[t] = b
    BY DEF GInv, FedByItsTee
  <2>7. ASSUME Enabling(b) PROVE IsOn(b)
    <3>1. \A s \in TeeFor(b) : s = t
      BY <2>6, OneTee DEF TeeFor
    <3>2. \A e \in ElementsOf(b) : ~Connecting(b, t, e)
      BY DEF Connecting
    <3>3. QED BY <2>4, <2>7, <3>1, <3>2 DEF Enabling, Creating, Choosing, Asking, Awaiting
  <2>8. ASSUME Disabling(b) PROVE IsOn(b)
    BY <2>4, <2>8 DEF Disabling, Looking, Finding, Leaving, Removing
  <2>9. ASSUME NEW c \in Branch, Doomed(c) PROVE IsOn(b)
    <3>1. initialized[t]
      <4>1. t \in bin /\ t \in Elem \ Mux
        BY Constants DEF GInv, LinksInBin
      <4>2. QED BY <4>1 DEF GInv, BinAsFlags
    <3>2. c # b
      BY <2>6, <2>9, <3>1 DEF Doomed, Teeless
    <3>3. QED BY <2>1, <2>5, <2>9, <3>2 DEF Doomed
  <2>10. IsOn(b)
    BY <2>1, <2>5, <2>7, <2>8, <2>9 DEF CleanInv, Resting, UnderWay
  <2>11. QED BY <2>3, <2>10
<1>2. QED BY <1>1, CleanInvariance, PTL
=============================================================================
