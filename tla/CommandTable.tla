---------------------------- MODULE CommandTable ----------------------------
(***************************************************************************)
(* From the pipeline file to the commands a client can send: the parser    *)
(* fills pipeline_elements_, App::run registers the commands of the        *)
(* program and those for what is optional in the file, and the dispatcher  *)
(* looks up each name it receives.  All of it happens before the server    *)
(* starts, but which element a command acts on is decided by names, when   *)
(* it is executed.                                                         *)
(*                                                                         *)
(* A file is a sequence of branches, each a record with a name, a mark     *)
(* (optional) and a sequence of elements with a name and a mark.  The name *)
(* of a command is a pair: "enable_" and "disable_" are put before a name. *)
(* A command object is known by its class: verb, kind and name.  What it   *)
(* does to an element it is given is in PipelineElements and in            *)
(* PipelineBranches.                                                       *)
(***************************************************************************)
EXTENDS Naturals, Sequences, SequencesExt

CONSTANTS
  Name,   \* names of elements and branches
  Files   \* the pipeline files the program may be started with

Verb == {"enable", "disable"}

\* The names of the six commands that do not depend on the file.
FixedNames == << <<"", "test">>,
                 <<"enable", "elements">>, <<"disable", "elements">>,
                 <<"enable", "branches">>, <<"disable", "branches">>,
                 <<"", "stop">> >>

Fixed == {FixedNames[i] : i \in 1 .. Len(FixedNames)}

ASSUME FilesAssumption ==
  Files \subseteq Seq([name : Name, optional : BOOLEAN,
                     elements : Seq([name : Name, optional : BOOLEAN])])

VARIABLES
  file,               \* what PipelineParser reads
  branch, position,   \* the loops of getAllElements
  id,                 \* the static counter of deserializeElement
  pipeline_elements,
  todo,               \* the calls of registerCommand App::run has still to make
  phase,              \* "parse", "register" or "serve"
  command_map,        \* a set of pairs: name, command
  touched             \* the elements the last command was given

vars == <<file, branch, position, id, pipeline_elements, todo, phase, command_map, touched>>

-----------------------------------------------------------------------------
(* PipelineParser *)

Optionals == {k \in DOMAIN pipeline_elements : pipeline_elements[k].is_optional}

\* Variants: the counter is incremented first, the branch's mark is not passed on.
DeserializeElementPreIncrement(element, b) ==
  [id |-> id + 1, name |-> element.name, branch |-> b.name,
   is_optional |-> element.optional \/ b.optional]

DeserializeElementOwnMark(element, b) ==
  [id |-> id, name |-> element.name, branch |-> b.name, is_optional |-> element.optional]

\* An element of a branch marked optional is optional whatever its own mark.
DeserializeElement(element, b) ==
  [id |-> id, name |-> element.name, branch |-> b.name,
   is_optional |-> element.optional \/ b.optional]

ParseElement ==
  /\ phase = "parse" /\ branch <= Len(file) /\ position <= Len(file[branch].elements)
  /\ pipeline_elements' = Append(pipeline_elements,
       DeserializeElement(file[branch].elements[position], file[branch]))
  /\ id' = id + 1 /\ position' = position + 1
  /\ UNCHANGED <<file, branch, todo, phase, command_map, touched>>

ParseBranch ==
  /\ phase = "parse" /\ branch <= Len(file) /\ position > Len(file[branch].elements)
  /\ branch' = branch + 1 /\ position' = 1
  /\ UNCHANGED <<file, id, pipeline_elements, todo, phase, command_map, touched>>

-----------------------------------------------------------------------------
(* App::run *)

Command(verb, class, name) == [verb |-> verb, class |-> class, name |-> name]

\* The two registrations of a round of the loops over optional names.
Pair(class, name) ==
  << [name |-> <<"enable", name>>,  command |-> Command("enable", class, name)],
     [name |-> <<"disable", name>>, command |-> Command("disable", class, name)] >>

FixedRegistrations ==
  [i \in 1 .. Len(FixedNames) |->
     [name    |-> FixedNames[i],
      command |-> Command(FixedNames[i][1], "fixed", FixedNames[i][2])]]

\* Variant: mandatory elements have commands too.
OptionalElementsRegistrationsOfAll ==
  FlattenSeq([k \in DOMAIN pipeline_elements |-> Pair("element", pipeline_elements[k].name)])

\* getOptionalPipelineElementsNames: a name as often as it is used.
OptionalElementsRegistrations ==
  FlattenSeq([k \in DOMAIN pipeline_elements |->
    IF k \in Optionals THEN Pair("element", pipeline_elements[k].name) ELSE <<>>])

\* getOptionalPipelineBranchesNames: a branch is listed once, as soon as one of
\* its elements is optional.
Listed(k) ==
  \E j \in Optionals : j < k /\ pipeline_elements[j].branch = pipeline_elements[k].branch

OptionalBranchesRegistrations ==
  FlattenSeq([k \in DOMAIN pipeline_elements |->
    IF k \in Optionals /\ ~Listed(k) THEN Pair("branch", pipeline_elements[k].branch) ELSE <<>>])

ParseEnd ==
  /\ phase = "parse" /\ branch > Len(file)
  /\ phase' = "register"
  /\ todo' = FixedRegistrations \o OptionalElementsRegistrations \o OptionalBranchesRegistrations
  /\ UNCHANGED <<file, branch, position, id, pipeline_elements, command_map, touched>>

Registered == {entry[1] : entry \in command_map}

\* Variant: the last registration wins.
RegisterCommandLast ==
  /\ phase = "register" /\ todo # <<>>
  /\ command_map' = {entry \in command_map : entry[1] # Head(todo).name}
                      \cup {<<Head(todo).name, Head(todo).command>>}
  /\ todo' = Tail(todo)
  /\ UNCHANGED <<file, branch, position, id, pipeline_elements, phase, touched>>

\* registerCommand: a name that is taken stays with what it was given to.
RegisterCommand ==
  /\ phase = "register" /\ todo # <<>>
  /\ command_map' = IF Head(todo).name \in Registered THEN command_map
                    ELSE command_map \cup {<<Head(todo).name, Head(todo).command>>}
  /\ todo' = Tail(todo)
  /\ UNCHANGED <<file, branch, position, id, pipeline_elements, phase, touched>>

Listen ==
  /\ phase = "register" /\ todo = <<>>
  /\ phase' = "serve"
  /\ UNCHANGED <<file, branch, position, id, pipeline_elements, todo, command_map, touched>>

-----------------------------------------------------------------------------
(* Commands *)

\* enable/disableOptionalPipelineElement take the first element of the name.
FirstNamed(name) ==
  {k \in DOMAIN pipeline_elements :
     /\ pipeline_elements[k].name = name
     /\ \A j \in DOMAIN pipeline_elements : pipeline_elements[j].name = name => k <= j}

OfBranch(name) == {k \in DOMAIN pipeline_elements : pipeline_elements[k].branch = name}

FirstInBranch(name) == {k \in OfBranch(name) : \A j \in OfBranch(name) : k <= j}

\* Variant: the loop of disconnectBranch runs on behind the branch.
DisconnectedToTheEnd(name) ==
  {k \in DOMAIN pipeline_elements : \E f \in FirstInBranch(name) \cap Optionals : f <= k}

\* disableOptionalPipelineBranch asks the first element of the branch alone
\* whether it is optional; disconnectBranch then goes from it to the end of the
\* branch, or to what stands between two branches of one name, and asks none.
Disconnected(name) ==
  {k \in OfBranch(name) :
     \E f \in FirstInBranch(name) \cap Optionals : f <= k /\ f .. k \subseteq OfBranch(name)}

\* enable_branches and disable_branches are not implemented.
Targets(command) ==
  CASE command.class = "element" -> FirstNamed(command.name)
    [] command.class = "branch" /\ command.verb = "enable"  -> OfBranch(command.name) \cap Optionals
    [] command.class = "branch" /\ command.verb = "disable" -> Disconnected(command.name)
    [] command.class = "fixed" /\ command.name = "elements" -> Optionals
    [] OTHER -> {}

\* Any name may come from a client; what is unknown is answered with Nack.
Dispatch(name) ==
  /\ phase = "serve"
  /\ touched' = UNION {Targets(entry[2]) : entry \in {m \in command_map : m[1] = name}}
  /\ UNCHANGED <<file, branch, position, id, pipeline_elements, todo, phase, command_map>>

-----------------------------------------------------------------------------
Init ==
  /\ file \in Files
  /\ branch = 1 /\ position = 1 /\ id = 0
  /\ pipeline_elements = <<>> /\ todo = <<>> /\ phase = "parse"
  /\ command_map = {} /\ touched = {}

Next ==
  \/ ParseElement \/ ParseBranch \/ ParseEnd
  \/ RegisterCommand \/ Listen
  \/ \E name \in (Verb \X Name) \cup Fixed : Dispatch(name)

Spec == Init /\ [][Next]_vars

-----------------------------------------------------------------------------
\* The id of an element is its index: getNextEnabledElement and
\* getPreviousEnabledElement use it with at().
IdIsIndex == \A k \in DOMAIN pipeline_elements : pipeline_elements[k].id = k - 1

NamesDiffer == \A j, k \in DOMAIN pipeline_elements :
                 pipeline_elements[j].name = pipeline_elements[k].name => j = k

\* A branch that begins with an optional element has no mandatory ones.
BranchesWhole ==
  \A k \in Optionals : LET name == pipeline_elements[k].branch
                       IN  k \in FirstInBranch(name) => OfBranch(name) \subseteq Optionals

\* As long as no two elements have one name and branches are optional as a whole
\* (the main branch may mix: it begins with a mandatory element), no command is
\* given a mandatory element, even when elements, branches and fixed commands
\* share names.
OnlyOptionalTouched == NamesDiffer /\ BranchesWhole => touched \subseteq Optionals

Leads(name, targets) ==
  \E command \in {entry[2] : entry \in command_map} :
    /\ <<name, command>> \in command_map
    /\ command.verb = name[1] /\ Targets(command) = targets

\* What the file marks optional can be reached: an element by its two commands
\* when no other element and no fixed command has its name, and a branch, with
\* all its elements, by its two when no other branch, no optional element and no
\* fixed command has its name.
OptionalIsReachable ==
  phase = "serve" =>
    /\ \A k \in Optionals, verb \in Verb :
         LET name == pipeline_elements[k].name
         IN  FirstNamed(name) = {k} /\ <<verb, name>> \notin Fixed
               => Leads(<<verb, name>>, {k})
    /\ \A b \in DOMAIN file, verb \in Verb :
         LET name == file[b].name
         IN  /\ file[b].optional /\ file[b].elements # <<>>
             /\ \A c \in DOMAIN file : file[c].name = name => c = b
             /\ <<verb, name>> \notin Fixed
             /\ \A k \in Optionals : pipeline_elements[k].name # name
             => Leads(<<verb, name>>, OfBranch(name))

\* A name once registered keeps its command: what the file is called can take
\* none of the fixed commands away.
MeaningStays ==
  [][/\ command_map \subseteq command_map'
     /\ \A m, n \in command_map' : m[1] = n[1] => m = n]_vars
=============================================================================
