----------------------------- MODULE UndoBatch -----------------------------
(***************************************************************************)
(* The transactional layer of the Python API: with_undo_batch and the      *)
(* manual batch functions of safety/rollback.py, the per-call sandbox of   *)
(* safety/sandbox.py, and the calls the builders and api.py make to them.  *)
(* Everything runs on the editor's main thread, so one action is one       *)
(* stretch of Python up to the next point where a script, the user or the  *)
(* clock may decide what comes next.  The editor's undo stack, its entity  *)
(* table and their events are external and modelled from their use here.   *)
(***************************************************************************)
EXTENDS Integers, FiniteSets, Sequences

CONSTANTS Entity,       \* entity ids the editor can hand out
          MaxEntities,  \* MAX_ENTITIES_PER_CALL
          MaxDepth,     \* bound: nesting of batches explored
          MaxHistory    \* bound: undo entries above which nothing new starts

ASSUME FiniteEntities == IsFiniteSet(Entity)
ASSUME BoundsAreNat == /\ MaxEntities \in Nat \ {0}
                       /\ MaxDepth \in Nat
                       /\ MaxHistory \in Nat

VARIABLES
  batchDepth,         \* _batch_depth
  lastBatchEntities,  \* _last_batch_entities
  entitiesCreated,    \* _current_sandbox._entities_created
  createdIds,         \* _current_sandbox._created_ids
  clock,              \* of _current_sandbox: not begun, running, over _timeout
  calls,              \* with_undo_batch frames on the Python stack
  outermost,          \* is_outermost of the bottom frame
  body,               \* what the bottom frame's function is, see Bodies
  todo,               \* cells create_grid has still to build
  raising,            \* an exception is unwinding towards the bottom frame
  answer,             \* what the last outermost call returned to the agent
  alive,              \* entities that exist in the level
  used,               \* ids handed out so far: the editor never reuses one
  undoStack,          \* the editor's undo history, newest last
  batch,              \* what the editor's open root batch has recorded
  editorDepth,        \* the editor's batch nesting
  baseline,           \* history variable: alive when the outermost call began
  lastDone            \* history variable: what the last completed batch the editor kept created

sandbox == <<entitiesCreated, createdIds, clock>>
gem     == <<batchDepth, lastBatchEntities, sandbox, calls, outermost, body, todo, raising, answer>>
editor  == <<alive, used, undoStack, batch, editorDepth>>
history == <<baseline, lastDone>>
vars    == <<gem, editor, history>>

-----------------------------------------------------------------------------
(* The sandbox of the current call.  Without a _start_time it never times  *)
(* out.                                                                    *)

ResetSandbox == entitiesCreated' = 0 /\ createdIds' = {} /\ clock' = "running"

\* Mutant of OverLimit: compares before adding the new entities.
OverLimitOffByOne(n) == entitiesCreated > MaxEntities

OverLimit(n) == entitiesCreated + n > MaxEntities

Charge(n) == entitiesCreated' = entitiesCreated + n /\ UNCHANGED <<createdIds, clock>>

ChargeAndRecord(n, e) == /\ entitiesCreated' = entitiesCreated + n
                         /\ createdIds' = createdIds \cup {e}
                         /\ UNCHANGED clock

-----------------------------------------------------------------------------
(* The editor's undo stack.  An entry says what undoing it removes and     *)
(* restores.                                                               *)

Op(c, d)  == [created |-> c, deleted |-> d]
NoOp      == Op({}, {})
Operation == [created : SUBSET Entity, deleted : SUBSET Entity]

Merge(b, o) == Op((b.created \ o.deleted) \cup o.created, b.deleted \cup (o.deleted \ b.created))

\* One undoable change: part of the open batch, or an entry of its own.
Record(o) == IF editorDepth > 0
             THEN batch' = Merge(batch, o) /\ UNCHANGED undoStack
             ELSE undoStack' = Append(undoStack, o) /\ UNCHANGED batch

\* Closing the root batch keeps it if it recorded anything.
ClosedStack == IF batch = NoOp THEN undoStack ELSE Append(undoStack, batch)

\* What EndUndoBatch may report: nothing at all through the legacy API, and
\* an empty batch has been seen reported as kept (rollback.py's comment).
EndReports == {"kept", "unknown"} \cup (IF batch = NoOp THEN {"discarded"} ELSE {})

\* Undoing o in level w; an entity with a Lua script may survive it.
Undone(o, w, survivors) == (w \ (o.created \ survivors)) \cup o.deleted

\* One entry per DeleteEntityById, in whatever order the list held the ids.
DeletionEntries(S) == {[i \in 1..Cardinality(S) |-> Op({}, {f[i]})] :
                          f \in {g \in [1..Cardinality(S) -> S] : \A e \in S : \E i \in 1..Cardinality(S) : g[i] = e}}

\* _delete_survivors on the history h and the level w.
DeleteSurvivors(h, w, ids) ==
    LET left == ids \cap w IN
    /\ alive' = w \ left
    /\ IF editorDepth' > 0
       THEN undoStack' = h /\ batch' = Merge(batch, Op({}, left))
       ELSE batch' = NoOp /\ \E entries \in DeletionEntries(left) : undoStack' = h \o entries

\* _undo: editor Undo where general.undo exists, then the survivors.
UndoThenDelete(h, ids) ==
    \/ /\ h # <<>>
       /\ \E survivors \in SUBSET h[Len(h)].created :
             DeleteSurvivors(SubSeq(h, 1, Len(h) - 1), Undone(h[Len(h)], alive, survivors), ids)
    \/ DeleteSurvivors(h, alive, ids)

-----------------------------------------------------------------------------
Bodies == {"none", "build", "grid", "spawn", "spawned"}

Init == /\ batchDepth = 0 /\ lastBatchEntities = {} /\ entitiesCreated = 0 /\ createdIds = {} /\ clock = "unbegun"
        /\ calls = 0 /\ outermost = FALSE /\ body = "none" /\ todo = 0
        /\ raising = FALSE /\ answer = "none"
        /\ alive = {} /\ used = {} /\ undoStack = <<>> /\ batch = NoOp /\ editorDepth = 0
        /\ baseline = {} /\ lastDone = {}

InBatch == batchDepth > 0      \* in_undo_batch()

\* Mutant of Opens: a nested call opens a batch, and resets the sandbox, too.
OpensAlways == TRUE
Opens == batchDepth = 0

\* The wrapper's prologue, up to its try.
EnterWrapper ==
    /\ ~raising
    /\ batchDepth < MaxDepth
    /\ batchDepth' = batchDepth + 1
    /\ calls' = calls + 1
    /\ IF Opens
       THEN /\ outermost' = TRUE /\ baseline' = alive
            /\ editorDepth' = editorDepth + 1
       ELSE UNCHANGED <<outermost, baseline, editorDepth>>
    /\ UNCHANGED lastDone

\* Mutant of SandboxOnEntry: the previous call's list is never cleared.
SandboxKept == clock' = "running" /\ UNCHANGED <<entitiesCreated, createdIds>>
SandboxOnEntry == IF Opens THEN ResetSandbox ELSE UNCHANGED sandbox

\* An API function that builds entities, called by a script or by another.
BeginBuildCall ==
    /\ calls = 0 \/ body = "build"
    /\ Len(undoStack) < MaxHistory
    /\ EnterWrapper
    /\ SandboxOnEntry
    /\ body' = "build"
    /\ UNCHANGED <<lastBatchEntities, todo, raising, answer, alive, used, undoStack, batch>>

\* create_grid: one check for all the cells before the first is built.
BeginGridCall(n) ==
    /\ calls = 0
    /\ Len(undoStack) < MaxHistory
    /\ EnterWrapper
    /\ body' = "grid"
    /\ createdIds' = (IF Opens THEN {} ELSE createdIds)
    /\ clock' = (IF Opens THEN "running" ELSE clock)
    /\ LET counted == IF Opens THEN 0 ELSE entitiesCreated IN
         \/ /\ counted + n <= MaxEntities
            /\ entitiesCreated' = counted + n /\ todo' = n /\ raising' = FALSE
         \/ /\ counted + n > MaxEntities
            /\ entitiesCreated' = counted /\ todo' = 0 /\ raising' = TRUE
    /\ UNCHANGED <<lastBatchEntities, answer, alive, used, undoStack, batch>>

BeginSpawnCall ==
    /\ calls = 0
    /\ Len(undoStack) < MaxHistory
    /\ EnterWrapper
    /\ SandboxOnEntry
    /\ body' = "spawn"
    /\ UNCHANGED <<lastBatchEntities, todo, raising, answer, alive, used, undoStack, batch>>

-----------------------------------------------------------------------------
(* EntityBuilder.build, inside wrapped calls, in a manual batch, or raw.   *)

MayBuild == /\ ~raising
            /\ calls = 0 => Len(undoStack) < MaxHistory
            /\ calls > 0 => body \in {"build", "grid"}
            /\ body = "grid" => todo > 0

\* An exception unwinds through the wrapped frames, if there are any.
Raise == raising' = (calls > 0)

\* With no wrapped call on the stack the script gets the exception, and
\* nothing changes.
BuildOverLimit ==
    /\ MayBuild /\ calls > 0
    /\ OverLimit(1)
    /\ Raise
    /\ UNCHANGED <<batchDepth, lastBatchEntities, sandbox, calls, outermost, body, todo, answer, editor, history>>

\* Timed out, or a component type the editor does not know: charged, not built.
BuildRefused ==
    /\ MayBuild
    /\ ~OverLimit(1)
    /\ Charge(1)
    /\ Raise
    /\ UNCHANGED <<batchDepth, lastBatchEntities, calls, outermost, body, todo, answer, editor, history>>

\* Mutant of Tracked: build() forgets record_entity.
TrackedNowhere(e) == Charge(1)
Tracked(e) == ChargeAndRecord(1, e)

NewEntity(e) == /\ ~OverLimit(1) /\ clock # "expired"
                /\ e \notin used
                /\ used' = used \cup {e}
                /\ Tracked(e)

BuildEntity(e) ==
    /\ MayBuild
    /\ NewEntity(e)
    /\ alive' = alive \cup {e}
    /\ Record(Op({e}, {}))
    /\ todo' = IF todo > 0 THEN todo - 1 ELSE 0
    /\ UNCHANGED <<batchDepth, lastBatchEntities, calls, outermost, body, raising, answer, editorDepth, history>>

\* A component is refused after the entity exists: the exception goes on in a
\* batch, a raw build deletes the entity itself (failure_response).
BuildFailsInBatch(e) ==
    /\ MayBuild /\ InBatch
    /\ NewEntity(e)
    /\ alive' = alive \cup {e}
    /\ Record(Op({e}, {}))
    /\ Raise
    /\ UNCHANGED <<batchDepth, lastBatchEntities, calls, outermost, body, todo, answer, editorDepth, history>>

RawBuildFails(e) ==
    /\ MayBuild /\ ~InBatch
    /\ NewEntity(e)
    /\ undoStack' = undoStack \o <<Op({e}, {}), Op({}, {e})>>
    /\ UNCHANGED <<batchDepth, lastBatchEntities, calls, outermost, body, todo, raising, answer,
                   alive, batch, editorDepth, history>>

\* spawn_prefab: recorded, but never counted against the limit.
SpawnPrefab(e) ==
    /\ ~raising /\ calls > 0 /\ body = "spawn"
    /\ e \notin used
    /\ used' = used \cup {e}
    /\ ChargeAndRecord(0, e)
    /\ body' = "spawned"
    /\ alive' = alive \cup {e}
    /\ Record(Op({e}, {}))
    /\ UNCHANGED <<batchDepth, lastBatchEntities, calls, outermost, todo, raising, answer, editorDepth, history>>

\* Any other error of a wrapped function, before or after it built something.
FunctionRaises ==
    /\ ~raising /\ calls > 0
    /\ raising' = TRUE
    /\ UNCHANGED <<batchDepth, lastBatchEntities, sandbox, calls, outermost, body, todo, answer, editor, history>>

-----------------------------------------------------------------------------
(* The wrapper's epilogues.                                                *)

LeaveWrapper ==
    /\ batchDepth' = batchDepth - 1
    /\ calls' = calls - 1
    /\ IF calls > 1 THEN UNCHANGED <<outermost, body>>
                    ELSE outermost' = FALSE /\ body' = "none"

NestedReturns ==
    /\ ~raising /\ todo = 0
    /\ calls > 1 \/ (calls = 1 /\ ~outermost)
    /\ LeaveWrapper
    /\ UNCHANGED <<lastBatchEntities, sandbox, todo, raising, answer, editor, history>>

NestedRaises ==
    /\ raising
    /\ calls > 1 \/ (calls = 1 /\ ~outermost)
    /\ LeaveWrapper
    /\ raising' = (calls > 1)
    /\ todo' = IF calls > 1 THEN todo ELSE 0
    /\ UNCHANGED <<lastBatchEntities, sandbox, answer, editor, history>>

OutermostReturns ==
    /\ ~raising /\ todo = 0
    /\ calls = 1 /\ outermost
    /\ LeaveWrapper
    /\ editorDepth' = editorDepth - 1
    /\ undoStack' = ClosedStack /\ batch' = NoOp
    /\ lastBatchEntities' = createdIds
    /\ lastDone' = IF batch = NoOp THEN lastDone ELSE batch.created
    /\ answer' = "result"
    /\ UNCHANGED <<sandbox, todo, raising, alive, used, baseline>>

\* Mutant of WorthUndoing: the editor's report alone decides.
WorthUndoingOnReport(kept) == kept # "discarded"
WorthUndoing(kept) == createdIds # {} /\ kept # "discarded"

OutermostFails ==
    /\ raising
    /\ calls = 1 /\ outermost
    /\ LeaveWrapper
    /\ editorDepth' = editorDepth - 1
    /\ \E kept \in EndReports :
         IF WorthUndoing(kept)
         THEN UndoThenDelete(ClosedStack, createdIds)
         ELSE DeleteSurvivors(ClosedStack, alive, createdIds)
    /\ raising' = FALSE /\ todo' = 0
    /\ lastBatchEntities' = {}
    /\ lastDone' = {}
    /\ answer' = "error"
    /\ UNCHANGED <<sandbox, used, baseline>>

-----------------------------------------------------------------------------
(* Manual batches and rollback, called from a script.                      *)

AtScriptLevel == calls = 0

BeginUndoBatch ==
    /\ AtScriptLevel
    /\ batchDepth < MaxDepth
    /\ batchDepth' = batchDepth + 1
    /\ IF batchDepth = 0 THEN ResetSandbox ELSE UNCHANGED sandbox
    /\ editorDepth' = editorDepth + 1
    /\ UNCHANGED <<lastBatchEntities, calls, outermost, body, todo, raising, answer,
                   alive, used, undoStack, batch, history>>

\* Mutant of DepthAfterEnd: no floor under an unpaired end.
DepthUnfloored == batchDepth - 1
DepthAfterEnd == IF batchDepth > 0 THEN batchDepth - 1 ELSE 0

EndUndoBatch ==
    /\ AtScriptLevel
    /\ batchDepth' = DepthAfterEnd
    /\ editorDepth' = IF editorDepth > 0 THEN editorDepth - 1 ELSE 0
    /\ IF editorDepth = 1
       THEN /\ undoStack' = ClosedStack /\ batch' = NoOp
            /\ lastDone' = IF batch = NoOp THEN lastDone ELSE batch.created
       ELSE UNCHANGED <<undoStack, batch, lastDone>>
    /\ UNCHANGED <<lastBatchEntities, sandbox, calls, outermost, body, todo, raising, answer,
                   alive, used, baseline>>

RollbackLastBatch ==
    /\ AtScriptLevel
    /\ UNCHANGED editorDepth
    /\ UndoThenDelete(undoStack, lastBatchEntities)
    /\ lastBatchEntities' = {} /\ lastDone' = {}
    /\ UNCHANGED <<batchDepth, sandbox, calls, outermost, body, todo, raising, answer, used, baseline>>

-----------------------------------------------------------------------------
(* The environment: the user edits between calls, and time passes.         *)

UserCreates(e) ==
    /\ AtScriptLevel /\ Len(undoStack) < MaxHistory
    /\ e \notin used
    /\ used' = used \cup {e}
    /\ alive' = alive \cup {e}
    /\ Record(Op({e}, {}))
    /\ UNCHANGED <<gem, editorDepth, history>>

UserUndoes ==
    /\ AtScriptLevel /\ editorDepth = 0
    /\ undoStack # <<>>
    /\ \E survivors \in SUBSET undoStack[Len(undoStack)].created :
          alive' = Undone(undoStack[Len(undoStack)], alive, survivors)
    /\ undoStack' = SubSeq(undoStack, 1, Len(undoStack) - 1)
    /\ UNCHANGED <<gem, used, batch, editorDepth, history>>

UserDeletes(e) ==
    /\ AtScriptLevel /\ Len(undoStack) < MaxHistory
    /\ e \in alive
    /\ alive' = alive \ {e}
    /\ Record(Op({}, {e}))
    /\ UNCHANGED <<gem, used, editorDepth, history>>

TimePasses ==
    /\ clock = "running"
    /\ clock' = "expired"
    /\ UNCHANGED <<batchDepth, lastBatchEntities, entitiesCreated, createdIds, calls, outermost, body, todo, raising, answer,
                   editor, history>>

Next ==
    \/ BeginBuildCall \/ BeginSpawnCall
    \/ \E n \in 1..MaxEntities + 1 : BeginGridCall(n)
    \/ BuildOverLimit \/ BuildRefused
    \/ \E e \in Entity : BuildEntity(e) \/ BuildFailsInBatch(e) \/ RawBuildFails(e) \/ SpawnPrefab(e)
    \/ FunctionRaises
    \/ NestedReturns \/ NestedRaises \/ OutermostReturns \/ OutermostFails
    \/ BeginUndoBatch \/ EndUndoBatch \/ RollbackLastBatch
    \/ \E e \in Entity : UserCreates(e) \/ UserDeletes(e)
    \/ UserUndoes \/ TimePasses

Spec == Init /\ [][Next]_vars

-----------------------------------------------------------------------------
(* Properties.                                                             *)

TypeOK ==
    /\ batchDepth \in Nat /\ calls \in Nat /\ editorDepth \in Nat /\ todo \in Nat
    /\ lastBatchEntities \in SUBSET Entity
    /\ entitiesCreated \in Nat /\ createdIds \in SUBSET Entity
    /\ clock \in {"unbegun", "running", "expired"}
    /\ outermost \in BOOLEAN /\ raising \in BOOLEAN
    /\ body \in Bodies
    /\ answer \in {"none", "result", "error"}
    /\ alive \in SUBSET Entity /\ used \in SUBSET Entity /\ baseline \in SUBSET Entity
    /\ lastDone \in SUBSET Entity
    /\ undoStack \in Seq(Operation)
    /\ batch \in Operation

\* The gem's batch counter and the editor's nesting agree after every sequence
\* of wrapped calls, manual begins and (even unpaired) manual ends: a call
\* that believes it is nested runs in a batch the editor has open, and one
\* that closes a batch closes the one it opened.
EditorInStep ==
    /\ calls <= batchDepth
    /\ outermost => calls > 0 /\ batchDepth = calls /\ editorDepth = 1
    /\ ~outermost => editorDepth = batchDepth - calls

\* Whatever an outermost call has made so far is in the sandbox's list and in
\* the editor's open batch, and all that was there before still is: the state
\* from which either a commit or a rollback is exact.
OpenCallIsTracked ==
    outermost => /\ alive = baseline \cup createdIds
                 /\ baseline \cap createdIds = {}
                 /\ batch = Op(createdIds, {})

\* What makes the two above inductive: every id mentioned anywhere was handed
\* out before, an editor with no open batch has recorded nothing, exceptions
\* only unwind through frames, and nothing but building charges the sandbox.
OpOver(ids) == [created : SUBSET ids, deleted : SUBSET ids]

IdsAreUsed ==
    /\ alive \subseteq used /\ createdIds \subseteq used
    /\ batch \in OpOver(used) /\ undoStack \in Seq(OpOver(used))

Quiescent ==
    /\ editorDepth = 0 => batch = NoOp
    /\ calls = 0 => ~raising /\ todo = 0
    /\ calls = 0 <=> body = "none"

ChargedBeforeBuilt ==
    /\ entitiesCreated <= MaxEntities
    /\ outermost /\ body = "spawn"   => createdIds = {}
    /\ outermost /\ body = "spawned" => Cardinality(createdIds) <= 1
    /\ outermost /\ body \in {"build", "grid"} => Cardinality(createdIds) <= entitiesCreated

IInv == TypeOK /\ EditorInStep /\ OpenCallIsTracked /\ IdsAreUsed /\ Quiescent /\ ChargedBeforeBuilt

\* One API call creates no more than MAX_ENTITIES_PER_CALL entities, counting
\* nested calls, grids and the prefab spawn that the counter leaves out.
CallWithinLimit == outermost => Cardinality(createdIds) <= MaxEntities

\* with_undo_batch's contract for a failing top-level call: the level is what
\* it was before the call, whether or not the editor kept, discarded or
\* misreported the batch, and whether or not entities survive its Undo.
FailureRestores == [][OutermostFails => alive' = baseline]_vars

\* While a wrapped call runs or fails, no operation older than the call leaves
\* the user's undo history: Undo lands on the call's own batch or not at all.
OlderHistorySurvives ==
    [][calls > 0 => /\ Len(undoStack) <= Len(undoStack')
                    /\ SubSeq(undoStack', 1, Len(undoStack)) = undoStack]_vars

\* Seen from outside, top-level calls are atomic.
Calls == INSTANCE AtomicCalls WITH world   <- IF outermost THEN baseline ELSE alive,
                                   calling <- outermost
CallsAreAtomic == Calls!Spec

\* rollback_last_batch's docstring: it undoes the last completed batch and
\* deletes any entity "it" created that Undo left behind.  So whatever it
\* removes was created by that batch, or by the entry Undo popped.
RollbackKeepsOtherBatches ==
    [][RollbackLastBatch => alive \ alive' \subseteq
          lastDone \cup (IF undoStack = <<>> THEN {} ELSE undoStack[Len(undoStack)].created)]_vars
=============================================================================
