# TLA+ for gst-pipeline-launch

gst-pipeline-launch builds a GStreamer pipeline from a YAML file, plays it, and
lets remote clients change it while it plays: elements and branches marked
`optional` are put in and taken out by text commands over TCP. This directory
models the parts of the program where threads, callbacks and the network meet,
checks them with TLC and proves what matters most with TLAPS.

Sources are under `src/source/`; paths below are relative to it.

## 1. The system

| Component | State | Operations | Talks to |
|---|---|---|---|
| `App/App` | `shared_ptr`s to everything | `run`: scheduler, pipeline manager, command table, server, then `play` (blocks) | creates all others |
| `Pipeline/PipelineParser` | none | YAML to `vector<PipelineElement>` | PipelineManager's constructor |
| `Pipeline/PipelineManager`, elements | `pipeline_elements_` (`is_initialized`, `is_linked` per element), the GstBin and its links | `play`, `enable/disable_<element>`, `enable/disable_elements`, idle-probe callback | GStreamer |
| `Pipeline/PipelineManager`, branches | the same, plus tee pads | `enable/disable_<branch>`, `enable/disable_branches`, block-probe callbacks | GStreamer |
| `Pipeline/PipelineManager`, play/stop/bus | `gst_loop_`, pipeline state | `play`, `stop`, bus messages | GLib main loop |
| `Pipeline/PipelineCommands` | name of the element or branch | `execute`: call the manager, answer Ack or Nack | PipelineManager, requester |
| `TasksManager/CommandDispatcher` | `command_map_` | `registerCommand`, `dispatchCommand` | Scheduler, requester |
| `TasksManager/Scheduler` | `tasks_`, `stop_`, worker threads | `enqueueTask`, `workerFunction`, `deinit` | commands |
| `AppInputs/MessageServer` | `keep_running_`, server thread, `client_threads_` | `runServer`, `handleClient`, `parseMessage`, `sendResponse`, `deinit` | CommandDispatcher, TcpNetworkManager |
| `Network/TcpNetworkManager` | `server_socket_` | `init`, `acceptConnection`, `readData`, `sendData`, `closeConnection` | kernel |
| `App/SignalHandler`, `Logger`, `File`, `PeripheryManager`, `main` | - | not modelled, see section 10 | |

### Threads and what they share

    client  --TCP-->  client thread --dispatch-->  task queue --worker--> command
      ^                (one each)                   (mutex, cv)             |
      +---------------- sendResponse(descriptor) <--------------------------+
                                                                            v
    main thread: createGstPipeline, then the GLib loop        enable / disable
    streaming threads: data, and the callbacks of probes <--- gst_pad_add_probe

* The **main** thread starts the server and only then calls `play`, so commands
  can be executed while it is still creating and linking elements.
* The **worker** (one, by the default of the constructor) executes all commands.
  It alone takes `mutex_`, which therefore protects nothing from the main thread
  or the callbacks.
* A **streaming** thread runs a probe's callback when its pad becomes idle, after
  the command that asked for it has been answered.
* Each **client thread** reads, dispatches, and answers unknown commands itself;
  the worker answers the others, to a *descriptor number* kept in the request.

### What is hard, and what would make it correct

| Component | Hard behaviour | Correctness |
|---|---|---|
| Elements | deferred callback that finds its target through a pad; flags changed before the pipeline is; neighbour search decided by flags; links refused half-way; commands before `play` is done; error codes taken from `errno` | the stream is never cut; flags and pipeline agree at rest; only optional elements leave; the callback removes the element it was meant for; an Ack tells the truth; every command is answered |
| Branches | the same, plus tee pads, a mux several branches share, exceptions and a loop past the end of the vector | what `play` built survives any branch command; a supported command gives the whole branch or none of it; data flows into whole branches only |
| Command table | names that clash, a counter used as an index, marks inherited from the branch | what is optional can be reached, nothing else is touched, a name keeps its meaning |
| Play/stop | `stop` before the loop exists or runs | a stop that finds the loop running ends `play` |
| Scheduler | notification outside the mutex, destructor against sleeping workers | no lost wake-up, order kept, queue drained before the destructor returns |
| Server | messages split and merged, reuse of descriptors, failing `select`, destructor against accept and read | an answer goes to the client that asked; order of answers; the destructor ends and leaves nothing running |
| App | shared ownership: requests keep the server alive, the last thread to let go destroys it | nothing is used after its destruction, no destructor waits for ever, a quiet exit is a clean one |

The complete list, by line, is under `hazards` in `PROJECT.json`.

## 2. Modules

| Module | What it is |
|---|---|
| `PipelineElements` | element-level PipelineManager: main, worker and streaming threads |
| `MCElements` | constants of its runs |
| `PipelineElementsProofs` | its theorems for any commands |
| `PatientCommandsProofs` | its theorems for commands that wait for each other |
| `PipelineBranches` | branch-level PipelineManager: worker and one streaming thread per tee |
| `MCBranches` | the pipeline file of its run |
| `PipelineBranchesProofs` | its theorems |
| `CommandTable` | parser, registration and look-up: from the file to what a command is given |
| `MCCommands` | the pipeline files of its run |
| `CommandTableProofs` | its theorems |
| `TaskQueue` | abstract specification: what the scheduler promises |
| `Scheduler` | the scheduler with mutex, condition variable and destructor; implements `TaskQueue` |
| `MCScheduler` | extends it for TLC |
| `SchedulerProofs` | its theorems, the refinement among them |
| `MessageServer` | server, network and dispatcher, composed with `TaskQueue` in place of the scheduler |
| `MCServer` | extends it for TLC |
| `MessageServerProofs` | its theorems about types, destruction and the use of the scheduler |
| `ServerAnswersProofs` | its theorems about the answers clients get |
| `AppLifetime` | start, play, stop, bus, ownership and exit, composed with `TaskQueue` |
| `MCApp` | extends it for TLC |
| `AppLifetimeProofs` | its theorems |

Definitions called "Variant" in their comment are changes a programmer could make
by mistake. No specification uses them; `mutants` in `PROJECT.json` says which
definition each one stands in for and which property notices.

## 3. PipelineElements and its code

State: `initialized` and `linked` are the flags of `PipelineElement`; `bin` and
`peer` are GStreamer's view (elements in the bin; whose src pad is linked to whose
sink pad); `probes` and `calls` are callbacks that are due and callbacks that are
half done; `pc`, `at`, `nb` and `pad` are the two threads' places and locals;
`op` and `reply` are the command and its answer. An element is its position in the
file, and all elements are of one branch; `PipelineBranches` is about several.

| Code (`Pipeline/PipelineManager.cpp`) | Actions |
|---|---|
| `play`, `createGstPipeline` | `MainCreate`, `MainLink`, `MainLinked` |
| `linkGstElement` | `LinkGstElement` (choice of the case), `LinkToNext`, `UnlinkNeighbours` then `LinkPrevious` then `LinkFollowing`, `NothingToLink` |
| `createGstElement` | `CreateGstElement` inside `MainCreate` and `WorkerCreate` |
| `enableOptionalPipelineElement`, `enableAll...` | `EnableOptional...`, `EnableAll...`, then `WorkerCreate`, `WorkerLink`, `WorkerLinked`, `WorkerSkip` |
| `disableOptionalElement`, `disableAll...` | `DisableOptional...`, `DisableAll...`, then `WorkerFindPad`, `WorkerAddProbe`, `WorkerClearFlags`, `WorkerSkip` |
| `disconnectGstElementProbeCallback` | `CallbackUnlink` (up to the unlinking) and `CallbackRelink`, run by `FireProbe` / `FinishCallback`, or from `WorkerAddProbe` when the pad is idle at once |

Grain: a call into GStreamer that changes links is one step, because other threads
run between two such calls. The neighbour search, its `is_linked` test and the write of
`is_linked` are part of the step of the first link. An element of one branch has one
sink pad, so the refusal of several linked ones (`PipelineManager.cpp:522-525`) does not
come up.

Errors: nearly every failing call returns `{errno, generic_category()}`. GStreamer
does not set `errno`, so the value is whatever an earlier system call left: zero,
which callers read as success, or not. The model takes both (`\E ok \in BOOLEAN`).

External: `Linkable` (both pads free, both elements in the bin, caps accepted -
`Incompatible` lists the pairs that are not) and `RemovedFromBin`.

## 4. Scheduler and TaskQueue

Each block under `queue_mutex_` is one step. `notify_one` and `notify_all` are
steps of their own because the mutex has been released before them. `wpc` puts a
worker before the predicate ("ready": woken, or about to look), in the wait, in
`execute()` or returned; `SpuriousWakeup` is in the specification, without
fairness. `deinit` is three steps; it begins when no producer is inside
`enqueueTask`, because each holds a reference to the scheduler.
`submitted`, `taken` and `finished` are history.

`TaskQueue` has neither threads nor locks: `Submit`, `Begin`, `Complete`, `Close`.
`Scheduler!Queue` maps `tasks`, `task` and "the destructor has returned" to
`queue`, `slot` and `closed`.

## 5. MessageServer

A message is two parts, so that the network can split it; `ReadData` takes what has
arrived, and `ParseMessage` dispatches it as *one* command, since `readData` has no
framing. Only one whole message read alone can be in the command table. An empty
`got` is the zeroed buffer that `readData` returns when `select` fails.

`fd` holds the descriptor of each open connection. `IsLowestFree` is the kernel's
rule for a new one, so a number can come back with another client, and
`SendResponse` writes to whoever has it. Writing to a connection the client has
left is lost or raises SIGPIPE, which ends the process (`crashed`). Answers carry
the client and the message they belong to as history.

The destructor is `DeinitStop` (`keep_running_`), `DeinitEmpty`, `DeinitJoin` and
`DeinitClear` (`stopAllClientThreads`), `DeinitClose`, `DeinitWait`. A thread added to
`client_threads_` after the loop over it has ended is not joined, and destroying it
ends the process. `AcceptConnection` is `accept` and `emplace_back` in one step: the data race of
`deinit` on the list itself is left out, only the order in which threads are listed and joined is kept.
The destructor starts only when no task holds a reference to the
server. That the last reference can be dropped by the worker or a client thread, and
that this thread then joins itself, is in `AppLifetime`.

`TaskQueue` is instantiated for the scheduler (`Scheduler!Submit`, `!Begin`,
`!Complete`, `!Close`), which is sound because `Scheduler` implements it.

## 6. AppLifetime

The main thread (`mpc`) builds the pipeline (one step here, `PipelineElements` has
the detail), sets it to PLAYING, makes and runs the loop, and after `play` drops the
references of `App::run` in reverse order. `refs` is what main still holds, `alive`
what is not destroyed; the other references follow from where the threads are:
`Requested` says that some thread or the queue holds a request, and so the server.
Each drop that can be the last one (`MainDropServer`, `ClientRelease`,
`WorkerRelease`) makes its thread the `destroyer`. `DestroyServer` joins the client
threads and cascades: dispatcher, then its commands and with them the manager, then
the scheduler, each unless main still holds it. On the worker the last of these is a
thread joining itself, `std::terminate`; on a client thread the first one already is.
Both are outcomes of the code: a `stop` command is answered, main leaves `play` and
drops its references, and the worker is left with the last one unless it is quicker.

`loop` follows GLib: a quit is remembered only while the loop runs, so `MainRun`
forgets one that came before it. `MainNewLoop` always succeeds: the error return of `play` for a null
loop (`PipelineManager.cpp:253-256`) is not taken, since `g_main_loop_new` ends the process when
there is no memory and never returns null. `WorkerStop` and `WorkerSetNull` are
`PipelineManager::stop` from the worker, `MainBus` and `MainBusNull` the same from the
bus handler. Messages are posted by streaming threads (`Post`, external).

## 7. PipelineBranches, CommandTable and their code

### PipelineBranches

Flags, `bin` and `links` are as in `PipelineElements`, but a link is a pair of
GstElements, since a tee and a mux have several pads. Elements of type `mux` are
references to one GstElement (`Shared`, `retrieveMuxGstElement`), and `pads` counts
the sink pads requested for each; `DisconnectMux` releases one of them (`ReleasePad`) and
takes the mux out, with its links (`MuxRemoved`), unless another pad is linked (`MuxIsUsed`). `on` and `off` are the probes that were added and
have not been called. Each tee has a streaming thread, which runs the callbacks of
its pads one at a time; `mutex_` is not taken by any of this. The main thread is not
modelled here: `play` has built the mandatory elements (`Init`, `BuiltLinks`), and
only branch commands are sent.

| Code (`Pipeline/PipelineManager.cpp`) | Actions |
|---|---|
| `enableOptionalPipelineBranch` | `Receive`, `EnableCreate` per element, `EnableFindTee`, `EnableAddProbe` |
| `handleBranchConnectionCallback`, `connectBranch`, `linkGstElement` | `ConnectProbe`, `ConnectElement` per element |
| `disableOptionalPipelineBranch` | `Receive`, `DisableFindElements`, `DisableAddProbe` |
| `handleBranchDisconnectionCallback`, `disconnectBranch`, `disconnectMuxElement` | `DisconnectProbe`, or `DisableAddProbe` when the pad is idle at once, then `DisconnectElement` per element and `DisconnectPastEnd` |

A tee blocked by its connection probe is `pc[t] = "connect"`. A disconnection stops the first
element of the branch first, which waits for its streaming thread (`Still`). Two ends of
the process are in the model (`crashed`): `findTeeElementForBranch` throws when the tee of
the branch is not enabled, on the worker, where nothing catches it; and `disconnectBranch`
steps behind the end of `pipeline_elements_` when the branch is the last of the file
(`DisconnectPastEnd`: undefined, so it ends the loop or the process). A pointer to a
GstElement that another branch command has removed (`Dangling`) likewise.

The README of the program lists two sequences as unsupported: enabling a branch that forks from a
disabled one, and disabling a branch while its fork is enabled; `Supported` is all but these. `clean` is history:
all commands so far were supported, each came when the one before had taken effect, and no call
failed. `BranchAsAsked`, `FlowsOnlyIntoWhole` and `CrashIsKnown` are about such executions. Two
commands that the README does not exclude end the process nevertheless: `disable_<fork>` while the branch
it forks from is off, and `enable_main` or `disable_main`, which a file with an optional element in the
main branch registers: there is no tee to be found, and the exception of
`findTeeElementForBranch` (`PipelineManager.cpp:683`) ends the process. `CrashIsKnown` names these and the walk behind
the last element, and says that a supported sequence ends the process nowhere else.

`BuiltPartStays` and `CommandsTakeEffect` are about all executions: failed calls, overlapping commands and
unsupported ones. `CommandsTakeEffect` has no way out but the end of the process (`crashed`) and a tee that gets no data, whose
probes are not called. Of a disconnection probe it says that it is called once commands cease: its callback waits for
the streaming threads behind the branch (`Still`), a wait that the model has in one step, and a client that
never stops sending can give them other work each time.

The assumption `BranchesAreWhole` says what the program needs of a file: elements of a
branch follow each other, a branch that begins with an optional element is optional as a whole, the mux is
not the first element of a branch, and the first element of the file is mandatory. Without the second,
`disable_<branch>` takes mandatory elements out (see below).

Several steps are coarser than the code. `ConnectElement` is one round of `connectBranch`: neighbour
search, unlinking, up to three links and `is_linked` (`linkGstElement`, lines 84-131), which `PipelineElements`
splits. `Disconnect` is stop, unlink and search; `gst_pad_unlink` cannot fail there, since the link was seen in the same
step (397-401). `DisconnectElement` removes an element and writes its flags at once, `DisconnectMux`
counts the linked pads and removes the mux at once, and counts exactly: a `RESYNC` of
`gst_iterator_next` (500), when pads come or go meanwhile, would end the count of the code early.

### CommandTable

`ParseElement`, `ParseBranch` and `ParseEnd` are the loops of
`PipelineParser::getAllElements`; `RegisterCommand` is one call of
`CommandDispatcher::registerCommand` (`todo` is what `App::run` has still to
register, in its order; `Listed` is the map `unique_branches`, by which a branch is
registered once); `Dispatch` looks up a name and sets `touched` to the elements the
command is given. A name of a command is a pair, prefix and name, and so `enable_elements`
clashes with an element called `elements`, as in the code. What a command then does to an
element is in the other two modules, where elements are positions.

`Targets` is what a command is given. `enable_<branch>` goes over all elements of the name (`OfBranch`);
`disable_<branch>` looks at the first one only (`FirstInBranch`): when it is mandatory nothing happens, and when it is
optional `disconnectBranch` takes out the elements that follow it up to the next branch, mandatory or not (`Disconnected`).

Three things of the code show in the premises of the properties. Elements of one
name share a command that acts on the first of them, mandatory or not, and a branch that begins
with an optional element loses its mandatory ones too: `OnlyOptionalTouched` needs `NamesDiffer` and
`BranchesWhole`. Of two branches of one name, `disable_<branch>` looks at the first, and a branch whose name is also
that of an optional element has no commands of its own, since the element is registered first:
`OptionalIsReachable` is about branches whose name is theirs alone, for which both commands are about all
elements of the branch.

## 8. Runs

| Run | Instance | Shows |
|---|---|---|
| `elements_patient` | 7 elements, optional 2, 4, 6; commands one at a time | stream whole, flags right, Acks true, disables take effect, commands answered |
| `elements_refused` | 7 elements, optional 2, 3, 6, 7; 6 has no plugin, 2 and 4 do not link | on every failing path only the named element leaves, and only optional ones |
| `elements_hostile` | 4 elements, optional 2, 3; commands during `play` and over pending probes | links always lead forward: no cycle, no merge, none outside the bin |
| `elements_adjacent` | 4 elements, optional 2, 3 | **violation**: an acknowledged disable leaves its element in the pipeline |
| `elements_overlap` | the same, commands over a pending probe | **violation**: a callback removes another element than the one meant |
| `elements_ack` | 4 elements, optional 2; 3 refuses 2 | **violation**: an Ack for an element outside the stream |
| `scheduler` | 2 producers of 2 tasks, 3 workers, destructor | no lost wake-up, order, draining, termination, refinement of `TaskQueue` |
| `server_orderly` | 2 clients, 2 messages each, 1 worker; each client waits for its answer | own answers only, one each, all of them; the destructor leaves nothing behind |
| `server_burst` | 1 client, 2 messages, nothing waited for | order of answers of commands; the destructor ends and leaves nothing behind |
| `branches` | 8 elements in 3 branches: main with an optional element and a mux, a branch that joins the mux, one, last in the file, that forks from it; one plugin may be missing | what `play` built stays; supported commands give whole branches or none and end the process in two known places only; threads come to rest and probes are called whatever fails |
| `commands` | all files of up to 2 branches of up to 2 elements, 3 names that clash in every way | ids are indices, optional elements and branches are reachable, mandatory ones untouched where names differ and branches are optional as a whole, fixed commands keep their names |
| `app` | 2 client threads, 1 request each, 1 worker, any bus messages | nothing used after its destruction; a stop or message that finds the loop running ends play; the process ends, cleanly if no request was under way |

Bounds and why they suffice.

* *Elements.* Every decision of `linkGstElement` looks at one element and its
  enabled neighbours. Seven positions hold a first, a last, optional elements
  with and without a mandatory neighbour between them, two adjacent ones, and an
  optional last one. Commands are unbounded in number. `MaxProbes` bounds the
  probes for one element on one pad: 1 lets probes for different elements pile up
  on a pad, 2 one for the same element as well.
* *Scheduler.* Three workers and two producers allow two notifications at once with
  a worker still asleep, the situation in which one can be lost.
* *Application.* A request on one client thread while the worker executes another, a
  stop among them, covers every order of the last drops; more of the same only queue.
* *Branches.* A fork from a branch that itself comes back through a mux is the deepest nesting
  the program's resources suggest, and the last branch of the file is the one whose walk
  leaves the vector. One pending connection probe per tee when a command comes
  (`MaxProbes`) still lets probes for both tees and disconnections overlap; `MaxPads` bounds
  the count of pads that failed links leave behind. Commands are unbounded in number.
* *Commands.* A clash is between two names, so two branches and two elements each hold every
  kind: element and element, element and branch, branch and branch, any with a fixed command.
* *Server.* Two clients are what reuse of a descriptor needs, two messages what a
  reordering or a merge needs. `MaxMessages` also bounds failed selects.
  `Orderly` clients wait for each answer, their messages arrive whole and `select`
  does not fail: without that the code does send answers to the wrong client
  (hazard at `MessageServer.cpp:96`).

Deadlock is not checked where the system may stop: the worker terminated or all
pads hold their bound of probes (elements), the destructor has returned (scheduler,
server), the process has ended (application, branches), a file has no command left to register or send (commands). `elements_patient` checks it.

Fairness. Threads of the program are scheduled: weak fairness of each thread's
steps. In `PipelineElements` that includes `Streaming`: while data flows, a pad
becomes idle after every buffer, so that an idle probe is called; in `PipelineBranches` it
is assumed of each tee that is fed (`Fed`), and a probe on any other is never called. In `MessageServer`
every `select` returns within a second, so a client thread always has a step. There
is none for clients, for the arrival of commands, for spurious wake-ups or for the
release of the last reference.

### Findings

The three violation runs are disagreements between comments or documentation and
what the code does; `findings` quotes the lines. In short: *adjacent optional
elements* get linked in a way a later disable cannot undo, while it answers Ack
(`elements_adjacent`); *a probe does not know its element*, so later commands can
make it remove another one (`elements_overlap`); *the error of a refused link* is
`errno`, which may be zero, so the synchronous enable answers Ack although the README
describes that for branches only (`elements_ack`).

This is why `elements_patient` keeps optional elements apart and commands settled:
`StreamConnected` and `FlagsMatchPipeline` hold for pipelines of that kind, not for all, and
for those of any length they are proved (section 9). The files the program is shipped with
(`src/resources/pipeline_cam1.yaml:31-37` and its siblings) have two adjacent optional
elements, and are not of that kind.

## 9. Proofs

`PipelineElementsProofs`, from `PipelineAssumption` only, so for every pipeline
length, every choice of optional, missing and incompatible elements and commands at
any time:

* `TypeCorrect`: `Spec => []TypeOK`, by one lemma per group of actions.
* `StreamGoesForward`: `Spec => []LinksForward`. `LinksForward` is not inductive:
  `LinkPrevious`, `LinkFollowing` and `CallbackRelink` make links that were decided
  several steps before, when other threads may have changed everything since.
  `IInv` adds `PlannedLinksForward`: what `nb` and `calls` remember is in file
  order. A link between two such elements is then forward whatever else
  happened, and `Linkable` itself sees to free pads and membership in the bin.
  Links that disappear (`ShrinkForward`) and one forward link that is added
  (`GrowForward`, `JoinForward`) preserve the invariant.

`PatientCommandsProofs`, for commands that wait for `play` (`EarlyCommands = FALSE`) and for the
callbacks of the command before (`Overlap = FALSE`), and any pipeline file:

* `ProbesHit` and `MandatoryElementsStay`: `Spec => []ProbeHitsItsTarget`, `Spec => []MandatoryStay`, with
  optional elements adjacent, at the ends or missing, and links refused. The two are not inductive:
  `disable_elements` leaves one probe behind for every element, on pads that the callbacks of the others
  unlink, and a callback is two steps. `PInv` says why they do not meet: an element has one
  probe at most, on the pad it is linked to until that pad's own element is cut out (`ProbesApart`); a callback half
  done has cut its three elements off, and no other is about any of the links (`CallsApart`); the
  worker has not got further than the elements that are leaving (`LeavingInOrder`), and the pad it found is still
  that element's or nobody's (`PadFound`).
* `StreamStaysConnected`, `AckedIsInStream`, `FlagsAgree`: for files that are `Sparse` as well (optional elements
  neither adjacent nor at the ends, every plugin there, the caps of neighbours fit), `StreamConnected`,
  `AckedEnableInStream` and `FlagsMatchPipeline`. `SInv` adds that `play` builds what `Built` says; that the mandatory
  elements and the links between them never change (`Skeleton`); and that every optional element is
  in one of a few states of its two links, its flags and its probe (`Slot`), of which the worker's
  place determines the one it is at (`AtWork`). Outside `Sparse` it goes wrong: `elements_ack`
  (caps that do not fit) violates `AckedEnableInStream`, and `elements_adjacent` leaves an element that was
  disabled in the pipeline.

`SchedulerProofs`, from `SchedulerAssumption`, for any producers, workers and
numbers of tasks:

* `TypeCorrect`, with `TaskWhileExecuting`: a worker has a task exactly while it
  executes, so it never executes the null pointer.
* `StopIsNotMissed`, with `StopMeansDeinit` and `ReturnedIsFinal`.
* `OrderIsKept` and `DestructorDrains`, with `TakenIsHeldOrFinished`: a popped task
  is finished or in a worker's hands.
* `NoLostWakeup`: `QueuedTasksAreCovered`, by counting: each step that uses up a
  ready worker or a notification removes a task, finds the queue empty, or turns
  one into the other.
* `RefinesTaskQueue`: `Spec => Queue!Spec`, each step is a step of `TaskQueue` or
  leaves it alone.

`AppLifetimeProofs`, from `AppAssumption` (the threads and "no thread", "no task" are
distinct), for any client threads and numbers of requests:

* `TypeCorrect` and `NothingUsedAfterDestruction`: `UsedIsAlive` only speaks of the
  user and the object; it is kept because of who owns what. `IInv` adds
  `OwnersKeep` (an object that lives keeps alive what it has references to),
  `ServerKept` (main's reference or a request under way keeps the server, and
  exactly one thread can be its destroyer) and `MainRefs` (what main still holds at
  each point of `App::run`). After `std::terminate` nothing is claimed of ownership.
* `QuietExitIsClean`: `Spec => []OrderlyExit`, by `ExitInv`. `StopBeforeReturn`
  follows the loop from its creation to the return of `play`: a loop that was quit
  has the pipeline stopped or the thread that quit it on the way to stop it.
  `CleanSoFar` says that after a quiet drop of the server no request comes up, so
  each of main's drops is the last one.
* `SchedulerIsReady`, see below.

`PipelineBranchesProofs`, from `BranchesAssumption`, `BranchesAreWhole` and `MuxIsFed`, for any
file of whole branches:

* `TypeCorrect`: `at` stays within one element behind the list, because
  `DisconnectPastEnd` never goes on.
* `WhatPlayBuiltStays`: `Spec => []BuiltPartStays`, no matter how many commands overlap and which
  calls fail. A thread that disconnects is in a branch whose first element is optional and so,
  by `BranchesAreWhole`, among optional elements only; a gap is opened between enabled
  neighbours of an element that is optional; and the mux of the main branch always has a linked pad, so
  `disconnectMuxElement` leaves it.
* `OnlyKnownCrashes`, `BranchesAreAsAsked`, `PartsAreNotFed`: `CrashIsKnown`, `BranchAsAsked` and
  `FlowsOnlyIntoWhole`, for the executions these are about (`clean`). None is inductive. `GInv` holds in every
  execution: the flags say what is in the bin, links are inside it, and the first element of an
  optional branch is linked to its own tee only. `CInv` holds while `clean`: either everything rests, or one
  operation is under way, for one branch, in one place (`Creating` to `Connecting`, `Looking` to
  `Removing`) that says which of its elements are created, linked or removed so far, while every
  other branch is as it was asked to be. That no other operation is under way is what
  `clean` gives; that the operation leaves the other branches alone is proved, and takes the order of
  branches in the file, the mux being no first element, and a fork being disabled before its branch
  (`NoForks`). `DInv` adds the one way out: a command for a branch that has no tee (`Teeless`), in which
  nothing can happen but that its loop reaches the exception (`Doomed`). `AskedInv` says that the
  main branch is asked for in vain, on the way to that exception only.

`MessageServerProofs`, from `ServerAssumption`, for any clients, workers and messages, waiting for
their answers or not:

* `TypeCorrect`: a request is made while its connection is open (`OpenWhileUp`), so
  nothing is ever queued for "no descriptor".
* `DestroyedQuiet`: `Spec => []DestroyedIsQuiet`. `UpIsListed` says that each running client thread
  is in `client_threads_` until it was joined, or else the process has ended; `JoinedIsDone`
  and `EndsLast` give the order of the destructor; `NothingQueued` says that nothing is submitted
  once it has begun, which rests on `shared_from_this` throwing from then on.
* `UsesSchedulerAsPromised`: `Spec => Scheduler!Spec`: what the threads do to the
  scheduler is a behaviour of `TaskQueue`, only requests of open connections being submitted. `TaskQueue`
  lets its user submit only while it is not closed, and close it only when it is empty. The code tests neither, so
  the models would hide a violation by blocking the step; `SchedulerIsReady` shows here and in `AppLifetimeProofs` that the
  conditions hold wherever the code relies on them. Together with `RefinesTaskQueue` this is what
  putting `TaskQueue` in the place of `Scheduler` takes.

`ServerAnswersProofs`, from the same assumption:

* `AnswersMatch`: `Spec => []AnswersMatchRequests` for clients that wait for their answers (`Orderly`), any number of
  them and of workers. The invariant is where a message can be: a client's last message is answered, or it is in
  the stream, in its thread, in the queue or with one worker, whole, once and with the descriptor its client
  has (`OneAtATime`), and open connections have different descriptors (`FdsDiffer`).
* `AnswersOrdered`: `Spec => []AnswersInOrder` for one worker and clients that wait for nothing. `OInv` orders
  the messages of a client along their way: what is in the stream comes after what was read, that after what is queued,
  executed and answered. With two workers it is false, as two commands of a client are executed at once.

`CommandTableProofs`, from `FilesAssumption` (what YAML can give), for any files:

* `IdsAreIndices`: `Spec => []IdIsIndex`, since the counter is the length of the list.
* `NamesKeepMeaning`: `Spec => MeaningStays`, with `NamesAreKeys`, which every registration keeps.
* `MandatoryUntouched` and `OptionalReached`: `OnlyOptionalTouched` and `OptionalIsReachable`, by `TInv`. The table is at
  any time the first registrations of their names (`FirstWins`), what is registered is what is optional, and the list of
  elements is the file, neither more (`MadeOfTheFile`) nor less (`EveryElementMade`), in its order (`InFileOrder`): so
  the elements of a branch whose name is its own are one run, which `disconnectBranch` takes out whole. What `FlattenSeq`
  gathers is proved from its recursive definition by a least counterexample: the
  well-foundedness of `<` on sets of numbers, no induction schema.

Every invariant and action property that a passing run checks is stated by a theorem. The five
of `PatientCommandsProofs` and the two of `ServerAnswersProofs` have hypotheses beyond the assumptions on
constants, those under which the runs check the same properties: `elements_patient` (all five),
`elements_refused` (without `Sparse`), `server_orderly` and `server_burst`.

Only model-checked: liveness (`DisableTakesEffect`, `CommandAnswered`, `DeinitTerminates`, `RequestsAnswered`,
`PlayEnds`, `ShutdownEnds`, `CommandsTakeEffect`, the fairness part of `ImplementsTaskQueue`), which needs ENABLED and is
beyond TLAPS; and, as counterexamples, the properties of the violation runs.

## 10. Not modelled

* Commands for optional elements of a branch with a tee or mux, mixed with commands for
  branches: `PipelineElements` has one branch, `PipelineBranches` branch commands only.
* Branch commands while `play` is still building.
* YAML, and `properties`, `type` and `sinkpad` of an element other than through `Feeds`,
  `Mux` and `Named`.
* `connectGstElementProbeCallback` (`PipelineManager.cpp:62`) has no caller; `enable_branches` and
  `disable_branches` are empty.
* `SignalHandler`: its set-up is commented out (`App.cpp:32`), nothing reads its flag.
* `Logger`, `File`, `main`: output and input without state of their own.
* `PeripheryManager`: no object of it is created by the application.
* Buffer contents, caps negotiation and timing inside GStreamer.

## 11. Plan

In this order:

1. `PipelineElements` under `AppLifetime`: commands that reconfigure while `stop` sets
   the pipeline to NULL.
2. `Sparse` with missing plugins and refused links: what is left of `StreamConnected` when only those
   elements are cut off that fail.
3. Branch commands while `play` is still building.
