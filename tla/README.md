# AI Companion gem: TLA+ models and proofs

The AI Companion gem lets an AI agent drive the O3DE editor: it sends framed JSON
requests over TCP, the editor carries them out on its main thread, and Python
helpers wrap what an agent builds in undo batches so that a failed call leaves the
level as it was. This directory models the parts of that system whose behaviour
depends on interleaving, failure or history, checks them with TLC and proves their
safety properties with TLAPS.

## 1. The system

| Component | State | Operations | Talks to | What makes it correct |
|---|---|---|---|---|
| Undo batches, rollback, sandbox (`safety/rollback.py`, `sandbox.py`) | batch depth, entities of the last batch, per-call counter, id list and clock | `with_undo_batch`, `begin/end_undo_batch`, `rollback_last_batch`, limit checks | the editor's undo stack, through buses | a failed call restores the level; nobody else's operation is undone; the limit holds per call |
| Python API and builders (`api.py`, `builders/`, `templates/`) | none of its own | create, grid, batch, spawn, templates | sandbox, rollback, editor buses | every entity built is counted and recorded |
| Agent server (`Network/AgentServer.cpp`) | running, secure mode, listening and client sockets, request queue, a promise per request, two threads | start, stop, accept, read, dispatch, answer, drain | TCP peer, main thread, Python runner | each request runs at most once and is answered on its own connection; Stop returns and leaves nothing |
| Queue pump and life cycle (`AiCompanionEditorSystemComponent.cpp`) | server, Qt timer, poll clock, filter | activate, tick, timer, deactivate | agent server, agent mode, settings registry, environment | the queue is drained while the editor lives; the configuration is resolved in one order |
| Entity mutations (same file) | none; one undo batch per call | create, set transform, delete | prefab system, transform buses | what was confirmed is what is saved; one undo step per request; a refusal writes nothing to the template |
| Agent mode (`agent_mode.py`, `AgentMode/`) | state file, observed file, event filter | toggle, poll once per second, filter dialogs | file system, Qt, other processes | the filter follows the file; what a poll wrote to the observed file is so |
| Anim graph authoring (`Animation/AnimGraphAuthoring.cpp`) | the engine's graphs and their files | edit requests, each a command or a command group; create, load, save, remove | EMotion FX commands, disk | graphs stay well formed; one history step per request; owned graphs and files outside the project are not touched |
| Anim graph command text and inspector | none | quoting, path rules, selector, description | engine data | a selector finds the graph that was meant |
| Parsing, validators, snapshots | none | pure functions and read-only reports | engine data | agree with what the editor does with the values |
| Bus schema, component state, asset readiness, builders, templates, feedback | none | reflection, queries, tables | engine data | agree with their documents |
| Lua gameplay | shared `_G` tables | tick and collision handlers | physics and spawn buses | a shot reaches the body it was meant for |

Hard behaviour, in the order of importance: a failing or nested Python call on
top of an undo stack that other actors also use; three threads and a network peer
around one queue and one socket number; a main thread that re-enters its own drain;
an entity that is in the editor, in the prefab template and on disk at three different
times; engine command groups that fail half way; a file that several processes write
and another polls. The `hazards` of PROJECT.json list them line by line.

## 2. Modules

Each component has a module; an `MC` module gives constants their values; a `Proofs`
module extends the component's. Comments that begin with "Mutant of" mark operators that
only PROJECT.json's mutants use: a plausible bug in the operator below.

### Transactions: `AtomicCalls`, `UndoBatch`

`AtomicCalls` is the promise to an agent: a top-level API call either answers
`result` and only adds entities, or answers `error` and the level is unchanged.

`UndoBatch` is the code. `batchDepth`, `lastBatchEntities`, `entitiesCreated`,
`createdIds` and `clock` are the globals of `rollback.py` and `sandbox.py`; `calls`,
`outermost`, `body`, `todo` and `raising` are what the Python stack holds;
`alive`, `undoStack`, `batch` and `editorDepth` are the editor's, modelled from how
the Python code uses them. An undo entry is the set of entities it created and
the set it deleted; undoing it may leave entities behind (the Lua script case
`_delete_survivors` is about). Everything runs on the main thread, so an action is one
stretch of Python between two points where a script, a user or the clock decides.

| Actions | Code |
|---|---|
| `BeginBuildCall`, `BeginGridCall`, `BeginSpawnCall` | the wrapper's prologue and the function's first check (`rollback.py` 173-183, `api.py`) |
| `BuildEntity`, `BuildRefused`, `BuildOverLimit`, `BuildFailsInBatch`, `RawBuildFails` | `EntityBuilder.build` inside and outside a batch |
| `SpawnPrefab` | `spawn_prefab`, recorded and not counted |
| `NestedReturns`, `NestedRaises`, `OutermostReturns`, `OutermostFails` | the wrapper's two epilogues |
| `BeginUndoBatch`, `EndUndoBatch`, `RollbackLastBatch` | the manual functions |
| `UserCreates`, `UserDeletes`, `UserUndoes`, `TimePasses` | the environment |

Assumptions about the editor: `DeleteEntityById` deletes; `EndUndoBatch` raises nothing
but what `_end_undo` catches; entity ids are not reused. A prefab counts as one entity,
whatever it contains. Redo is not modelled.

### The agent server: `AtMostOnce`, `AgentServer`

`AtMostOnce` is the promise about one request: carried out at most once, answered
at most once, a `result` only for what was carried out, a refusal or drop only
for what never is. A timeout promises nothing.

`AgentServer` has the main thread (drains, Start, Stop), the accept thread, the client
thread, the editor's callers and the agent. A program counter per thread splits the
code at each point where another thread's step can matter: Stop is five steps,
`AcceptLoop` nine, `ClientLoop` fourteen. A socket is a descriptor number, as in the
code: `fdConn` says which connection a number names, `CloseSocket` closes the number
whatever it names by then, and the kernel may hand it out again. `recv()` in progress
keeps its connection alive (`held`); whether `close()` ends it differs between
platforms and is the constant `CloseWakesRecv`. `frames` is the stack of drains: a
script that spins the event loop lets the Qt timer drain again inside it.
`kind` sorts requests into those answered on the client thread, native ones, and
`execute_python`; `scriptOutput` is the request whose output is in the globals that all
wrapper scripts share. A sender that retries sends another request, as far as the code
knows. TLS, framing bytes, JSON and what the handlers do are left out.
`Start` and `Stop` are modelled with no drain on the stack.

### Agent mode and the editor component: `AgentModeState`, `EditorComponent`

`AgentModeState` is the state file from its writers to `LoadState`. A `set_agent_mode`
call is three steps (open the temporary file, write it, replace the state file), and
every step may fail; the temporary name is the same for all processes, so an open
handle can name a node that another call has meanwhile renamed or truncated. `text`
is what a node holds: nothing, a state, or a state followed by the tail of the longer
one it was written over (`False` is one letter longer than `True`), which does
not parse. `alone`, `crowded` and `kept` are history variables that tell calls
that overlapped from calls that did not.

`EditorComponent` composes it with the editor: `Activate` resolves each option from
environment, settings and default, starts the server and the pump timer and applies the
state file; `OnSystemTick` polls it once per second; `RefreshAgentMode` installs or removes
the filter and writes the observed file; `BoxIsShown`, `BoxIsDismissed` and `UserClosesBox`
are dialogs, which hold the main thread; `Deactivate` and `Crash` end an editor, and the
files outlive it. `WriteObservedState` may fail at every poll, and the code does not look: the
file of an earlier poll or of an earlier editor stays, or what replaces it is cut short.
`told` is a history variable that says whether the last poll of this editor wrote it.
A dialog is the welcome dialog, a message box with a title, one without, or what the
filter passes. Assumed: one editor uses a state directory at a time.

### The promise of a history: `EditHistory`

What the editor's undo promises of a document, whichever it is: each change is one step
of the history, the step is the value before the change, an undo brings back the newest
step, and steps are lost only off the old end or all at once. No request undoes what it
found, and one that answers ok loses no step but by adding one. `AnimGraphAuthoring` and
`EntityMutations` both implement it (`GraphEditsAreUndoable`, `LevelEditsAreUndoable`):
the first keeps a graph and EMotion Studio's history, the second the prefab template and
the editor's. While a script's batch is open the template counts as it was when the
batch was opened, which is what makes the script and every request drained into it one edit.

### Entities: `SceneReports`, `EntityMutations`

`SceneReports` is what the snapshot provider reads out of a level: the effective scale,
world transforms, an entity's report and the entity tree.

`EntityMutations` has the editor's two levels, `live` and `template`. A change reaches
the template when its entity is marked dirty and the outermost undo batch ends
(`BatchEnds`, `Captured`); a creation, an undo or a reload instantiates the template anew, and
what was not captured is lost. The requests' checks come in the order of the code: parser,
validator, handler. `ApplyScale` may fail to land its writes in the engine and
reads the scale back. Beside the requests there are the bus events Python scripts use
(alone or inside a batch of their own) and a user who edits, undoes, saves and reloads.
The prefab system is external, modelled from `transform_helpers.py` 25-41,
`AiCompanionEditorRequestBus.h` 130-137 and `test_live_editor.py` 705-717.
Abstractions: a position is one axis and local to its parent, a rotation is a number of half
turns, a scale has two axes and is counted in quarters; a parent's rotation and scale are
not applied to its children's positions. A request that a script sends inside its own batch
stands or falls with the script, so `confirmed` does not vouch for it. Writes of a position or
a rotation are taken to land, as the code takes them; names are not part of what
`confirmed` compares. Id 0 and no id are one value, `Nothing`.

### Anim graphs: `AnimGraphAuthoring`, `AnimGraphFiles`

`AnimGraphAuthoring` has one editable graph, the history of EMotion Studio and the
last answer. Each edit request of `Animation/AnimGraphAuthoring.cpp` is one action:
its guard is the request's checks (a refused request is a stutter),
its step the command or command group it sends. The request finds nodes by id, the
command by name (`Named`), as in the code, so a name that is not unique would send it
to another node. `RunCommandGroup` builds the graph after each command of a group; a group
that stops on the way is in the history and is undone from there. What is EMotion
Studio's is external: what each command does to a graph, that `AnimGraphRemoveNode`
takes along what touches the node, that a single command that fails changed nothing,
and that a group which failed is in the history (the comment on `RunCommandGroup`
says so). A node type of each sort stands for the built-in list, with the flags the
requests read. Positions, attributes, blend times and conditions change no
structure and are left out, and so is redo. Under that contract the requests' last checks,
which look for what a command that succeeded has made (1150-1156, 1397-1403, 1722-1728,
1827-1833, 2169-2174), cannot fail and have no branch here, and the undo of a failed group (827)
succeeds. A loaded graph is one the editor could have built: its names are unique.

`AnimGraphFiles` has the manager's list of graphs and the disk: create, remove, load and
save, the owner check that every edit makes first, the path rules, the selector of
`get_anim_graph` and the parsing of ids and names in front of them. A graph is an id, a
file name, an owner and a version; a request inside a graph is one more version. What a
text stands for as a path, and which file names end with it, are the constants
`Resolves` and `Tails`. Assets and runtime instances bring and take their own copies,
and others write the files. EMotion Studio's commands are external and may fail; its
history of commands on whole graphs is not followed. Paths are compared as text after
they are resolved, as in the code: symbolic links and file systems that ignore case are
outside the model, and so are files the user loads in the Animation Editor itself.

## 3. Runs

| Run | Question | Instance | Result |
|---|---|---|---|
| `undo_batch` | are calls atomic, counted, in step with the editor? | 3 entities, limit 2, depth 2, history 2, symmetric | holds, 437,360 states |
| `undo_rollback` | does `rollback_last_batch` delete only what the undone batch created? | same | violated: after a manual batch it deletes an earlier call's entities |
| `agent_server` | ownership of requests, sockets and threads; whose output a result carries; refinement of `AtMostOnce` | 2 connections, 2 requests, 2 descriptors, nesting 2, symmetric | holds, 775,356 states |
| `agent_server_live` | does Stop return, do waits end, are connections taken up? | 2 connections, 1 request, `CloseWakesRecv` | holds, about 205,000 states |
| `server_stop_hangs` | does Stop return where close() does not end a recv()? | 1 request | violated: an idle agent keeps it waiting |
| `server_strays` | is every answer sent where its request came from? | 4 connections, 1 request, 1 descriptor | violated: a thread started on a closed number reads one connection and answers another |
| `anim_graph` | do edits and undos keep a graph well formed? refinement of `EditHistory` | 4 nodes, 3 names, a parameter, a group, 1 transition, 1 undo; the view drops the last answer | holds, 366,518 states |
| `anim_graph_files` | which graphs and files do requests touch? | 4 files, 5 texts, 2 graphs at a time, 3 ids, 3 versions | holds, 151,432 states |
| `entity_mutations` | is what was confirmed what a save writes, and does a refusal write nothing there? refinement of `EditHistory` | 4 entities, 5 changes, 1 undo, 3 scales | holds, 213,511 states |
| `entity_refusal` | does a refused request leave the level alone? | same | violated: `set_transform` has moved the entity when it refuses the scale |
| `agent_mode` | does the filter follow the file, and what a poll wrote the filter? | 2 writers, 3 calls, 2 seconds, 2 configurations, any number of starts and dialogs | holds, 1,152,005 states |
| `agent_mode_untitled` | is a message box closed without a user when the filter is there? | 1 writer, 1 call, 1 second | violated: one without a title stays |

Each violated run is an entry of `findings` with the sentence of the repository it
contradicts.

Properties, by what they relate:

- `EditorInStep`: the gem's depth against the editor's, through unpaired ends.
- `OpenCallIsTracked`: level, sandbox list and open batch of a running call.
- `CallWithinLimit`: entities of a call against the limit, spawns included.
- `FailureRestores`, `OlderHistorySurvives`, `CallsAreAtomic`: failure against the
  state before the call, with a batch kept, discarded or misreported.
- `RequestsAreOwned`: a queued request is in exactly one place until answered.
- `StoppedIsQuiet`: what Stop leaves for the next Start.
- `LiveConnectionStaysOpen`, `ClientSocketIsCurrent`: descriptor numbers remembered
  by three threads against the connection of the running client.
- `AnswersStayOnTheConnection`: across reuse of a number while a request waits.
- `RequestsRunAtMostOnce`: the refinement.
- `OutputIsOwn`: the answer on the wire against globals that nested drains replace.
- `StopReturns`, `WaitsEnd`, `ConnectionsAreTakenUp`: liveness of Stop, of the wait for
  the main thread (which may be in Stop, waiting for the waiter), and of a new
  connection, in the backlog or held by the accept thread while it joins the
  previous client.
- `NamesAreUnique`: what every later command relies on to reach its node.
- `PlacementHolds`, `TransitionsJoinSiblings`: what the engine's commands do not check,
  after any sequence of additions, removals and undos.
- `PortsTakeOneWire`, `TreesAreAcyclic`: connections against those made long before.
- `FailedRequestsLeaveNothing`: graph and history together, for command groups that end at
  any of their commands.
- `GraphEditsAreUndoable`, `LevelEditsAreUndoable`: the refinements of `EditHistory`; a value
  against the history behind it, for steps of every actor and not for those of requests alone.
- `OwnedGraphsStay`, `SaveIsOfThatGraph`: ids, file names and places in a list that shifts,
  against the copies of others and against the file that is written.
- `WritesStayInTheProject`: relative paths, aliases and names loaded from elsewhere
  against the roots.
- `FilesAreLoadedOnce`: one editable graph per file however the file was spelled.
- `ConfirmedIsSaved`: the reply of a request against the template, many steps later.
- `EveryEntityIsInTheTree`: the tree report against the level, through deletions and undos.
- `RefusedIsNotSaved`: template, marks, ids and history against the answer. It says nothing of
  the live entity: a move that was written before its scale was refused (`entity_refusal`) is
  captured after all when a script had marked that entity itself.
- `ObservedIsApplied`: the observed file against the filter, from a poll that wrote it to the next
  poll, through restarts, crashes and failed writes before.
- `FileIsLastSet`: the state file against the last call, with a shared temporary file.
- `FilterFollowsFile`: liveness of the poll; the filter comes to follow the state file whatever
  becomes of the observed file, which follows too if its writes succeed in the end.

Every property has a mutant in PROJECT.json: a plausible bug in one named definition
with which TLC finds it violated.

### Bounds

`MaxHistory` (undo_batch), `MaxDepth` and `MaxEntities`: three entities allow one from an
earlier call, one of the running call and one of the user; a limit of two makes the
second entity the last allowed and lets a grid of three be refused at once. Depth two gives
nesting and manual batches around a call. `MaxHistory` stops new work when the undo stack is
that long, not the work of a call in progress, so its batch and the deletions after it are
always recorded. The limit of the code is 100; no guard depends on the number.

`MaxNesting` and the sets of the server: two connections give a rival and a reconnect, two
requests one that is drained while the other, timed out, is still on the stack, two descriptors
reuse of a closed number while the other is open. All properties of `agent_server` also hold with four
connections, two descriptors and one request (480,000 states), where numbers are
reused more often. `server_strays` needs four connections on one number: one that ends, one that is
taken for stale, one whose request is read and one that gets its answer.

`MaxNodes`, `MaxTransitions`, `MaxUndo` (anim_graph): four nodes hold the smallest graph of
each kind of mistake: a blend tree with two nodes that could form a cycle or share a port, a
child state machine beside a state of its parent, an exit node with a state. Cycles in them
have two nodes; the theorem `NoCycles` is about those of any length. TLC starts
from an empty and from a loaded graph. One undo shows a failed group's history; what is
further back no action reads.
A history of one step is full after one edit, so TLC sees steps fall off its end; that a
second undo goes on where the first left off is what the theorem `GraphHistory` adds.

`MaxGraphs`, `MaxIds`, `MaxVersions` (anim_graph_files): two graphs at a time with three ids
let a list shift under an id that was handed out; three versions tell what a graph
held, what its file held and what others wrote. One file name ends with a graph's id.

`MaxEntities`, `MaxChanges`, `MaxUndo` (entity_mutations): two entities of the level and two
more, five changes (a confirmed one, one that discards it, a refusal in between need
three), the history followed one step back. Refusals and reports are not counted.

`MaxSets`, `MaxSeconds` (agent_mode): two calls overlap and a third follows; two seconds give
equal and different time stamps. Starts, polls, failed writes, crashes and dialogs are not
bounded; one dialog at a time is all a main thread has. `agent_mode_untitled` needs one call.

### Fairness

`AgentServer.FairSpec` is weak fairness of each of the three threads' next steps: the operating
system runs each thread; `poll` has a timeout of 100 ms and the wait of 30 seconds; a handler
returns. The Qt timer and the tick keep draining, which is the main thread's fairness.
The editor's Start, Stop and SetSecureMode and everything the agent does are not
fair: nothing obliges them. `BlockInRecv` has no timeout in the code, so a blocked
thread's next step is enabled only by the agent, or by `close()` where it has that effect.

`EditorComponent.FairSpec` is weak fairness of `PollIsDue`, `OnSystemTick` and `BoxIsDismissed`: an
editor that is up counts seconds, ticks, and turns its event loop under a dialog too, which
is how the filter's queued close arrives. Nobody has to call `set_agent_mode`, finish a call,
start an editor or close a dialog. `FilterFollowsFile` therefore asks only of an editor
that stays up without a dialog: the main thread ticks in no other. Its second half, about the
observed file, asks in addition that in the end every poll writes it: the code tries
again at each poll, and nothing in it can make a full disk accept a file.

## 4. Proofs

Assumed throughout are only the `ASSUME`s of the modules (bounds are naturals, positive
where the code needs one; special values are not members of the sets), which TLC evaluates on
every run. All theorems hold for every value of the constants.

`UndoBatchProofs`: `TypeCorrect`, `EditorStaysInStep`, `CallsAreTracked`, `LimitHolds`,
`FailuresRestore`, `OlderHistoryIsKept` and `Atomicity` (UndoBatch implements AtomicCalls).
All rest on `InductiveInvariant`: `IInv` is the type invariant, `EditorInStep` and
`OpenCallIsTracked`, with three facts they need to be inductive. `IdsAreUsed`: every id
in the level, the sandbox, the open batch and the undo stack was handed out before, so
a new entity is in none of them. `Quiescent`: with no batch open the editor has recorded
nothing, and an exception unwinds only through frames. `ChargedBeforeBuilt`: what a
call created is bounded by what it was charged, except for the one prefab of a
spawn, which is why `CallWithinLimit` holds though spawns are not counted.
`FailuresRestore` combines `OpenCallIsTracked` with what undoing and deleting do to the
level, `Atomicity` shows each action to be a Start, Commit, Abort, Edit or stuttering step.

`AgentServerProofs`: `TypeCorrect`, `StopLeavesNothing`, `LiveConnectionIsKept`,
`ClientSocketIsKnown`, `AnswersStay`, `RequestsStayOwned`, `OutputsAreOwn` and `AtMostOnceHolds`
(AgentServer implements AtMostOnce). `IInv` has two halves. The first is about threads and numbers:
`Threads` places the three program counters against each other, `Numbers` says which
numbers are open and who remembers them, `NumberIsKept` that the number of a client
thread started on a connection names that connection or nothing and that no new
connection can get it before the thread ends, and `LiveIsKnown` that a live client's
number is in m_clientSocket. `NumberIsKept` is where the code is subtle: it holds only
for threads that were started on a connection. Trying to prove it without that
condition is what led to `server_strays`: a client thread closes its
number before it clears `m_clientSocket`, the next connection may get the same number,
the accept thread then takes it for the stale client's, closes it and starts a
thread on it. The second half is about requests: `Unread`, `InHand`, `Queued` and
`Promises` follow a request from its connection to the client thread, the queue, a drain's
frame and its promise. `ThreadsStep` and `RequestsStep` have one step per action; actions that
hand no request on share `RequestsStay`.

`OutputsAreOwn` needs a third invariant, `OutputInv`. Only one client thread waits, so the
request it waits for is the last of the queue, or the last of the innermost drain
(`NewestWaits`); when that drain executes it the globals are its own (`GlobalsAreIts`), and a drain
inside it could only take requests sent after the wait ended. What is delivered
is therefore its own output (`DeliveredIsOwn`).

`EditorComponentProofs`: `TypeCorrect`, `StateFileIsWhole` and `ObservedStateIsApplied`.
`FilesInv` strengthens `FileIsLastSet`: the two paths never name one node
(`PathsDiffer`), a call nobody overlapped has the temporary file to itself (`LoneCall`), and
where no overlap was counted there is none (`OverlapIsSeen`). `ObservedStateIsApplied` needs of
an editor that only one with a QApplication has a filter, and follows `told` through every
step that replaces the file, the filter or the editor. That `open()` always finds a node
nobody else refers to (`UnnamedIsANode`) is a counting argument over paths and handles.

`AnimGraphFilesProofs`: `TypeCorrect`, `OwnedGraphsAreKept`, `WritesAreInTheProject`,
`SavesAreOfThatGraph` and `LoadsAreOnce`. `StepHasEffect` shows every step to be one of six
things a step can do to the list and the disk, with what a load and a save that answer
`ok` have done; the invariant (`Types`, `IdsAreUnique`, `NobodysGraphs` and
`NamesAreResolved`, that editable graphs carry resolved names) and the
theorems follow from those. `FirstIsThere` shows that a search of the list
finds a place, from the well-foundedness of strict inclusion among intervals.

`AnimGraphAuthoringProofs`: `TypeCorrect`, `UniqueNames`, `Placement`, `JoinedSiblings`,
`SingleWires`, `NoCycles`, `NothingIsLeft`, `OneStep` and `GraphHistory` (AnimGraphAuthoring
implements EditHistory). The invariant of the run speaks of the current graph; an undo
makes any graph of the history the current one, so `IInv` asks of it and of every graph in
the history that it is `WellFormed`: the five invariants as predicates of a graph, with two
facts that make them inductive. `Rooted`: every node but the root has a parent in
the graph, and the root has none. `Linked`: what a transition or a wire joins is in the
graph. Each command has a lemma that it keeps a graph well formed under the
checks its request makes (`CreateNodeKeeps`, `RemoveNamedKeeps`, `ConnectKeeps` and so on);
each request a lemma that applies them to the one or two graphs of its group; `GroupKeeps` and
`GroupIsUndone` do the history. Two closures carry the argument: `Subtree` (`SubtreeFacts`:
it is closed under children and within every closed set, so a removal leaves no child without its
parent) and `Feeds` (`FeedsFacts`, `ReachIsClosed`). `OneMoreWire` is the heart of
`NoCycles`: what the new wire's target reached before does not contain its source,
which `ConnectionWillProduceCycle` made sure of, and joined to what any other
wire's target reached it is closed under the new wires too, so nothing more is reached.
Two assumptions were added for the proofs: no name is the empty text, which in a
transition means "no source" and which `IsValidObjectName` refuses, and the bounds leave
room for the loaded graph of `Init`.

`SceneReportsProofs`: `TreeShowsAll`, that the recursion from the entities without a parent
reaches every entity of a forest of any depth; a set that holds what it reaches and lacks an
entity has a least one that it lacks, whose parent is smaller and therefore in it. The same
descent shows that the recursive functions `WorldPosition` and `WorldRotation` exist on such
a level and are integers, without which nothing could be said of a request that
reads them.

`EntityMutationsProofs`: `TypeCorrect`, `ConfirmedTransforms`, `TreeIsComplete`,
`RefusalsAreNotSaved`, `MutationsAreOneStep` and `LevelHistory` (EntityMutations implements
EditHistory). `IInv` has two parts. `LevelsInStep`: `live`, `template`, the open batch's
`before` and every level of the history are levels in which each entity is under one that
came earlier, and the first two hold the same tree. `TypeOK` alone is not inductive: it
does not say that the parent exists, and without that a deletion could leave a child
behind. `ConfirmedInTemplate` is `ConfirmedIsSaved` without its condition that no batch is open,
with the fact that no confirmed entity is marked dirty: the end of a script's batch captures the
marked entities as they are by then, and would otherwise change what was confirmed before it began.
`BatchKeeps` is the one lemma about a batch, nested or not, and every action
that opens one cites it. `StepsOfHistory` and `HistorySteps` sort all steps by what they do to
template and history; the action properties and the refinement follow from those.

The inductive invariants of these two modules were checked with TLC as invariants of
`anim_graph` and `entity_mutations` (same bounds, same states) before they were proved.

Together the theorems state every invariant and action property and all four refinements of the
passing runs. Checked by TLC only: the four liveness properties `StopReturns`, `WaitsEnd`,
`ConnectionsAreTakenUp` and `FilterFollowsFile` (fairness and ENABLED are beyond the prover).
`RollbackKeepsOtherBatches`, `AnswersReachTheirSender`, `RefusalsLeaveTheEntityAlone` and
`MessagesAreDismissed` are false of the code and have no proof; `StopReturns` is false where
`CloseWakesRecv` is.

## 5. Not modelled

The components with status `not_modelled` in PROJECT.json: bus schema, component state and
asset readiness are read-only reflection and queries, with no state and no decision a
property could be about; templates, further builders and feedback are straight-line calls of
the builder, tables and formatting; the Lua samples run in a game apart from the editor.

Left out of the modelled parts: TLS (a handshake that never ends blocks like
`BlockInRecv`), message bytes and JSON, platform differences other than
`CloseWakesRecv`, Redo, component properties, the reuse of a closed descriptor number by
other parts of the editor, `ValidateScene`, the text of `get_agent_mode_status`,
`configure_editor_prefs`, host and log level, `RegisterPythonPaths`, the JSON of an anim
graph's description and the text of its commands.

Known from reading, without a run of its own:

- a grid is charged twice, once for its size and once per cell (`api.py`);
- a raw build outside a call runs against the counters of whatever call came last;
- `shutting_down` is set on requests whose waiters Stop has already joined, so no sender
  ever receives it;
- two toggles of agent mode within one second carry the same `updated_at` (`agent_mode.py:122`):
  the poll applies both, but a caller that compares it with `source_updated_at`
  (`Docs/agent-mode.md:112`) takes the first for the second;
- `Docs/agent-mode.md:159` says `observed` is not available when no editor is running, but
  `Deactivate` and a crash leave the file, and after a failed write it is an older one;
- a drain inside a script replaces the wrapper script's globals, so what the outer script printed is
  lost and `sys.stdout` stays the outer wrapper's buffer after it; the outer sender has been told
  of a timeout by then, which is why `OutputIsOwn` holds;
- `RemoveAnimGraph` looks for the graph before the command system, all other requests on a
  graph the other way round: without EMotion Studio an id that no graph has is `not_found` to it
  and `unavailable` to them;
- the digits of a removed graph's id are still tried against the ends of file names;
- saving an anim graph is not undoable.

## 6. Plan

Done: the state machines above with their abstract specifications and runs, and the theorems of
section 4, which cover every safety property of the runs.

Left, in this order:

1. What the violated properties hold under, as theorems: `RollbackKeepsOtherBatches` when the
   last batch was a wrapped call's, `RefusalsLeaveTheEntityAlone` for requests without a scale
   or with a scale that passes, `AnswersReachTheirSender` where no number is reused.
2. What a reload shows, as a refinement: a level on disk that edits, undos and saves change,
   implemented by `EntityMutations`.
3. `ValidateScene` and the Python copies of the validators against the C++ ones, as
   operators over a shared domain of names, positions and scales.
4. The hand-off of a shot through `_G` in the Lua samples.
