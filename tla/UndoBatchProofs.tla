-------------------------- MODULE UndoBatchProofs --------------------------
(***************************************************************************)
(* Proofs about UndoBatch, for every finite set of entity ids, every       *)
(* per-call limit and every bound: the inductive invariant IInv, what it   *)
(* implies, that a failing call restores the level, and that UndoBatch     *)
(* implements AtomicCalls.                                                 *)
(***************************************************************************)
EXTENDS UndoBatch, FiniteSetTheorems, SequenceTheorems, TLAPS

-----------------------------------------------------------------------------
(* Facts about the helpers.                                                *)

\* A set of entities is finite, and recording one more id adds at most one.
LEMMA EntitySets ==
    ASSUME NEW S \in SUBSET Entity
    PROVE  /\ Cardinality(S) \in Nat
           /\ Cardinality({}) = 0
           /\ \A e \in Entity : Cardinality(S \cup {e}) <= Cardinality(S) + 1
<1>1. IsFiniteSet(S)
  BY FiniteEntities, FS_Subset
<1>2. Cardinality(S) \in Nat
  BY <1>1, FS_CardinalityType
<1>3. ASSUME NEW e \in Entity PROVE Cardinality(S \cup {e}) <= Cardinality(S) + 1
  <2>1. Cardinality(S \cup {e}) = IF e \in S THEN Cardinality(S) ELSE Cardinality(S) + 1
    BY <1>1, FS_AddElement
  <2>2. QED BY <2>1, <1>2
<1>4. QED BY <1>2, <1>3, FS_EmptySet

\* The entries DeleteEntityById leaves mention only the ids deleted.
LEMMA DeletionEntriesType ==
    ASSUME NEW ids \in SUBSET Entity, NEW S \in SUBSET ids,
           NEW es \in DeletionEntries(S)
    PROVE  es \in Seq(OpOver(ids))
<1>1. Cardinality(S) \in Nat
  BY EntitySets
<1>2. PICK f \in [1..Cardinality(S) -> S] : es = [i \in 1..Cardinality(S) |-> Op({}, {f[i]})]
  BY DEF DeletionEntries
<1>3. \A i \in 1..Cardinality(S) : Op({}, {f[i]}) \in OpOver(ids)
  BY DEF Op, OpOver
<1>4. es \in [1..Cardinality(S) -> OpOver(ids)]
  BY <1>2, <1>3
<1>5. QED BY <1>1, <1>4, SMT

\* _delete_survivors removes exactly the listed ids and keeps the editor's
\* records about known ids.
LEMMA DeleteSurvivorsEffect ==
    ASSUME used \in SUBSET Entity, batch \in OpOver(used),
           NEW h \in Seq(OpOver(used)), NEW w \in SUBSET used, NEW ids,
           DeleteSurvivors(h, w, ids)
    PROVE  /\ alive' = w \ ids
           /\ undoStack' \in Seq(OpOver(used))
           /\ batch' \in OpOver(used)
           /\ ~(editorDepth' > 0) => batch' = NoOp
<1> DEFINE left == ids \cap w
<1>1. alive' = w \ ids
  BY DEF DeleteSurvivors
<1>2. CASE editorDepth' > 0
  <2>1. undoStack' = h /\ batch' = Merge(batch, Op({}, left))
    BY <1>2 DEF DeleteSurvivors
  <2>2. batch' \in OpOver(used)
    BY <2>1 DEF Merge, Op, OpOver
  <2>3. QED BY <1>1, <1>2, <2>1, <2>2
<1>3. CASE ~(editorDepth' > 0)
  <2>1. batch' = NoOp /\ \E es \in DeletionEntries(left) : undoStack' = h \o es
    BY <1>3 DEF DeleteSurvivors
  <2>2. PICK es \in DeletionEntries(left) : undoStack' = h \o es
    BY <2>1
  <2>3. left \in SUBSET used
    OBVIOUS
  <2>4. es \in Seq(OpOver(used))
    BY <2>3, DeletionEntriesType
  <2>5. undoStack' \in Seq(OpOver(used))
    BY <2>2, <2>4, ConcatProperties
  <2>6. NoOp \in OpOver(used)
    BY DEF NoOp, Op, OpOver
  <2>7. QED BY <1>1, <1>3, <2>1, <2>5, <2>6
<1>4. QED BY <1>2, <1>3

\* _undo never brings in an id the editor has not handed out.
LEMMA UndoThenDeleteEffect ==
    ASSUME used \in SUBSET Entity, batch \in OpOver(used), alive \in SUBSET used,
           NEW h \in Seq(OpOver(used)), NEW ids,
           UndoThenDelete(h, ids)
    PROVE  /\ alive' \in SUBSET used
           /\ undoStack' \in Seq(OpOver(used))
           /\ batch' \in OpOver(used)
           /\ ~(editorDepth' > 0) => batch' = NoOp
<1>1. CASE DeleteSurvivors(h, alive, ids)
  BY <1>1, DeleteSurvivorsEffect DEF DeleteSurvivors
<1>2. CASE h # <<>> /\ \E survivors \in SUBSET h[Len(h)].created :
             DeleteSurvivors(SubSeq(h, 1, Len(h) - 1), Undone(h[Len(h)], alive, survivors), ids)
  <2>1. PICK survivors \in SUBSET h[Len(h)].created :
             DeleteSurvivors(SubSeq(h, 1, Len(h) - 1), Undone(h[Len(h)], alive, survivors), ids)
    BY <1>2
  <2>2. h[Len(h)] \in OpOver(used)
    BY <1>2, ElementOfSeq, EmptySeq, LenProperties
  <2>3. Undone(h[Len(h)], alive, survivors) \in SUBSET used
    BY <2>2 DEF Undone, OpOver
  <2>4. SubSeq(h, 1, Len(h) - 1) \in Seq(OpOver(used))
    BY LenProperties, SubSeqProperties
  <2>5. QED BY <2>1, <2>3, <2>4, DeleteSurvivorsEffect DEF DeleteSurvivors
<1>3. QED BY <1>1, <1>2 DEF UndoThenDelete

\* Recording an operation on known ids keeps batch and history about known ids.
LEMMA RecordEffect ==
    ASSUME batch \in OpOver(used), undoStack \in Seq(OpOver(used)), used \subseteq used',
           NEW o \in OpOver(used'), Record(o)
    PROVE  /\ batch' \in OpOver(used') /\ undoStack' \in Seq(OpOver(used'))
           /\ editorDepth > 0 => batch' = Merge(batch, o) /\ undoStack' = undoStack
           /\ ~(editorDepth > 0) => batch' = batch
<1>1. batch \in OpOver(used') /\ OpOver(used) \subseteq OpOver(used')
  BY DEF OpOver
<1>2. undoStack \in Seq(OpOver(used'))
  BY <1>1, SeqMonotonic
<1>3. Merge(batch, o) \in OpOver(used')
  BY <1>1 DEF Merge, Op, OpOver
<1>4. Append(undoStack, o) \in Seq(OpOver(used'))
  BY <1>2, AppendProperties
<1>5. QED BY <1>1, <1>2, <1>3, <1>4 DEF Record

\* Closing the root batch keeps the history about known ids.
LEMMA ClosedStackType ==
    ASSUME batch \in OpOver(used), undoStack \in Seq(OpOver(used))
    PROVE  ClosedStack \in Seq(OpOver(used))
BY AppendProperties DEF ClosedStack

-----------------------------------------------------------------------------
(* The invariant is inductive: one lemma per group of actions.             *)

\* The program starts in the invariant.
LEMMA InitIInv == Init => IInv
<1> SUFFICES ASSUME Init PROVE IInv
  OBVIOUS
<1>1. NoOp \in Operation /\ NoOp \in OpOver({})
  BY DEF NoOp, Op, Operation, OpOver
<1>2. <<>> \in Seq(Operation) /\ <<>> \in Seq(OpOver({}))
  BY EmptySeq
<1>3. TypeOK
  BY <1>1, <1>2 DEF Init, TypeOK, Bodies
<1>4. EditorInStep /\ OpenCallIsTracked
  BY DEF Init, EditorInStep, OpenCallIsTracked
<1>5. IdsAreUsed
  BY <1>1, <1>2 DEF Init, IdsAreUsed
<1>6. Quiescent /\ ChargedBeforeBuilt
  BY BoundsAreNat DEF Init, Quiescent, ChargedBeforeBuilt
<1>7. QED BY <1>3, <1>4, <1>5, <1>6 DEF IInv

\* An undo record about known ids is an undo record about entities.
LEMMA OpOverEntities ==
    ASSUME NEW ids \in SUBSET Entity
    PROVE  OpOver(ids) \subseteq Operation /\ Seq(OpOver(ids)) \subseteq Seq(Operation)
<1>1. OpOver(ids) \subseteq Operation
  BY DEF OpOver, Operation
<1>2. QED BY <1>1, SeqMonotonic

\* Entering a wrapper.
LEMMA BeginIInv ==
    ASSUME IInv, BeginBuildCall \/ BeginSpawnCall \/ \E n \in 1..MaxEntities + 1 : BeginGridCall(n)
    PROVE  IInv'
<1> DEFINE Entered ==
             /\ UNCHANGED <<lastBatchEntities, answer, alive, used, undoStack, batch, lastDone>>
             /\ EnterWrapper
             /\ body' \in {"build", "spawn", "grid"}
             /\ calls > 0 => body' = body
             /\ createdIds' = IF Opens THEN {} ELSE createdIds
             /\ clock' \in {"unbegun", "running", "expired"}
             /\ entitiesCreated' \in Nat /\ entitiesCreated' <= MaxEntities
             /\ ~Opens => entitiesCreated <= entitiesCreated'
             /\ todo' \in Nat /\ raising' \in BOOLEAN
<1> USE DEF IInv
<1>1. Entered
  <2>1. CASE BeginBuildCall
    BY <2>1, BoundsAreNat DEF BeginBuildCall, EnterWrapper, SandboxOnEntry, ResetSandbox, sandbox, TypeOK, ChargedBeforeBuilt
  <2>2. CASE BeginSpawnCall
    BY <2>2, BoundsAreNat DEF BeginSpawnCall, EnterWrapper, SandboxOnEntry, ResetSandbox, sandbox, TypeOK, ChargedBeforeBuilt
  <2>3. ASSUME NEW n \in 1..MaxEntities + 1, BeginGridCall(n)
        PROVE  Entered
    <3>1. /\ calls = 0 /\ EnterWrapper /\ body' = "grid"
          /\ UNCHANGED <<lastBatchEntities, answer, alive, used, undoStack, batch, lastDone>>
          /\ createdIds' = IF Opens THEN {} ELSE createdIds
          /\ clock' \in {"unbegun", "running", "expired"}
      BY <2>3 DEF BeginGridCall, EnterWrapper, TypeOK
    <3>2. PICK counted \in Nat :
            /\ counted = IF Opens THEN 0 ELSE entitiesCreated
            /\ counted <= MaxEntities
            /\ \/ /\ counted + n <= MaxEntities
                  /\ entitiesCreated' = counted + n /\ todo' = n /\ raising' = FALSE
               \/ /\ counted + n > MaxEntities
                  /\ entitiesCreated' = counted /\ todo' = 0 /\ raising' = TRUE
      BY <2>3, BoundsAreNat DEF BeginGridCall, TypeOK, ChargedBeforeBuilt
    <3>3. /\ counted <= MaxEntities /\ counted \in Nat /\ n \in Nat
          /\ ~Opens => counted = entitiesCreated
      BY <3>2
    <3>4. /\ entitiesCreated' \in Nat /\ entitiesCreated' <= MaxEntities
          /\ counted <= entitiesCreated'
          /\ todo' \in Nat /\ raising' \in BOOLEAN
      <4>1. MaxEntities \in Nat
        BY BoundsAreNat
      <4>2. CASE entitiesCreated' = counted + n /\ counted + n <= MaxEntities /\ todo' = n /\ raising' = FALSE
        <5>1. counted + n \in Nat /\ counted <= counted + n
          BY <3>3
        <5>2. QED BY <3>3, <4>2, <5>1
      <4>3. CASE entitiesCreated' = counted /\ todo' = 0 /\ raising' = TRUE
        BY <3>3, <4>1, <4>3
      <4>4. QED BY <3>2, <4>2, <4>3
    <3>5. ~Opens => entitiesCreated <= entitiesCreated'
      BY <3>3, <3>4, BoundsAreNat DEF TypeOK
    <3>6. QED BY <3>1, <3>4, <3>5
  <2>4. QED BY <2>1, <2>2, <2>3
<1> HIDE DEF Entered
<1>2. TypeOK'
  <2>1. baseline' \in SUBSET Entity /\ outermost' \in BOOLEAN /\ editorDepth' \in Nat
    <3>1. CASE Opens
      BY <1>1, <3>1 DEF Entered, TypeOK, EnterWrapper
    <3>2. CASE ~Opens
      BY <1>1, <3>2 DEF Entered, TypeOK, EnterWrapper
    <3>3. QED BY <3>1, <3>2
  <2>2. createdIds' \in SUBSET Entity
    BY <1>1 DEF Entered, TypeOK
  <2>3. batchDepth' \in Nat /\ calls' \in Nat
    BY <1>1 DEF Entered, TypeOK, EnterWrapper
  <2>4. /\ lastBatchEntities' \in SUBSET Entity /\ answer' \in {"none", "result", "error"}
        /\ alive' \in SUBSET Entity /\ used' \in SUBSET Entity /\ lastDone' \in SUBSET Entity
        /\ undoStack' \in Seq(Operation) /\ batch' \in Operation
    BY <1>1 DEF Entered, TypeOK
  <2>5. body' \in Bodies
    BY <1>1 DEF Entered, Bodies
  <2>6. /\ clock' \in {"unbegun", "running", "expired"}
        /\ entitiesCreated' \in Nat
        /\ todo' \in Nat /\ raising' \in BOOLEAN
    BY <1>1 DEF Entered
  <2>7. QED BY <2>1, <2>2, <2>3, <2>4, <2>5, <2>6 DEF TypeOK
<1>3. EditorInStep'
  BY <1>1 DEF Entered, TypeOK, EditorInStep, EnterWrapper, Opens
<1>4. OpenCallIsTracked' /\ ChargedBeforeBuilt'
  <2>1. CASE Opens
    <3>1. createdIds' = {} /\ baseline' = alive /\ alive' = alive /\ batch' = NoOp
      <4>1. ~(outermost) /\ editorDepth = 0
        BY <2>1 DEF EditorInStep, TypeOK, Opens
      <4>2. QED BY <1>1, <2>1, <4>1 DEF Entered, EnterWrapper, Quiescent
    <3>2. Cardinality({}) = 0
      BY FS_EmptySet
    <3>3. QED BY <1>1, <3>1, <3>2 DEF Entered, OpenCallIsTracked, ChargedBeforeBuilt, NoOp
  <2>2. CASE ~Opens
    <3>1. UNCHANGED <<createdIds, outermost, baseline, alive, batch>>
      BY <1>1, <2>2 DEF Entered, EnterWrapper
    <3>2. outermost' => body' = body
      BY <1>1, <3>1 DEF Entered, EditorInStep, TypeOK
    <3>3. OpenCallIsTracked'
      BY <3>1 DEF OpenCallIsTracked
    <3>4. Cardinality(createdIds) \in Nat
      BY EntitySets DEF TypeOK
    <3>5. QED BY <1>1, <2>2, <3>1, <3>2, <3>3, <3>4 DEF Entered, TypeOK, ChargedBeforeBuilt
  <2>3. QED BY <2>1, <2>2
<1>5. IdsAreUsed'
  BY <1>1 DEF Entered, IdsAreUsed
<1>6. Quiescent'
  BY <1>1 DEF Entered, Quiescent, EnterWrapper, TypeOK
<1>7. QED BY <1>2, <1>3, <1>4, <1>5, <1>6

\* A new entity that is recorded in the sandbox and in the editor's history
\* keeps an open call tracked.
LEMMA MadeEffect ==
    ASSUME IInv, NEW e \in Entity, e \notin used,
           used' = used \cup {e}, alive' = alive \cup {e}, createdIds' = createdIds \cup {e},
           Record(Op({e}, {})),
           UNCHANGED <<batchDepth, calls, outermost, baseline, editorDepth>>
    PROVE  /\ EditorInStep' /\ OpenCallIsTracked' /\ IdsAreUsed'
           /\ editorDepth' = 0 => batch' = NoOp
           /\ batch' \in Operation /\ undoStack' \in Seq(Operation)
           /\ used' \in SUBSET Entity /\ alive' \in SUBSET Entity /\ createdIds' \in SUBSET Entity
<1> USE DEF IInv
<1>1. Op({e}, {}) \in OpOver(used') /\ used \subseteq used'
  BY DEF Op, OpOver
<1>2. /\ batch' \in OpOver(used') /\ undoStack' \in Seq(OpOver(used'))
      /\ editorDepth > 0 => batch' = Merge(batch, Op({e}, {}))
      /\ ~(editorDepth > 0) => batch' = batch
  BY <1>1, RecordEffect DEF IdsAreUsed, Record
<1>3. used' \in SUBSET Entity /\ alive' \in SUBSET Entity /\ createdIds' \in SUBSET Entity
  BY DEF TypeOK
<1>4. batch' \in Operation /\ undoStack' \in Seq(Operation)
  BY <1>2, <1>3, OpOverEntities
<1>5. IdsAreUsed'
  BY <1>2 DEF IdsAreUsed
<1>6. editorDepth' = 0 => batch' = NoOp
  BY <1>2 DEF Quiescent, TypeOK
<1>7. EditorInStep'
  BY DEF EditorInStep
<1>8. OpenCallIsTracked'
  <2>1. SUFFICES ASSUME outermost PROVE OpenCallIsTracked'
    BY DEF OpenCallIsTracked
  <2>2. alive = baseline \cup createdIds /\ baseline \cap createdIds = {} /\ batch = Op(createdIds, {})
    BY <2>1 DEF OpenCallIsTracked
  <2>3. batch' = Merge(Op(createdIds, {}), Op({e}, {}))
    BY <1>2, <2>1, <2>2 DEF EditorInStep
  <2>4. batch' = Op(createdIds', {})
    BY <2>3 DEF Merge, Op
  <2>5. e \notin baseline
    BY <2>2 DEF IdsAreUsed
  <2>6. QED BY <2>2, <2>4, <2>5 DEF OpenCallIsTracked
<1>9. QED BY <1>3, <1>4, <1>5, <1>6, <1>7, <1>8

\* An exception unwinds only where there is a frame to unwind to.
LEMMA RaiseEffect == ASSUME Raise PROVE raising' \in BOOLEAN /\ (calls = 0 => ~raising')
<1> DEFINE unwinds == calls > 0
<1>1. raising' = unwinds
  BY DEF Raise
<1>2. calls = 0 => ~unwinds
  OBVIOUS
<1>3. unwinds \in BOOLEAN
  OBVIOUS
<1> HIDE DEF unwinds
<1>4. QED BY <1>1, <1>2, <1>3, Zenon

\* Building and spawning.
LEMMA BuildIInv ==
    ASSUME IInv, NEW e \in Entity,
           BuildEntity(e) \/ BuildFailsInBatch(e) \/ SpawnPrefab(e)
    PROVE  IInv'
<1> USE DEF IInv
<1>1. /\ e \notin used /\ used' = used \cup {e} /\ alive' = alive \cup {e}
      /\ createdIds' = createdIds \cup {e} /\ Record(Op({e}, {}))
      /\ UNCHANGED <<batchDepth, lastBatchEntities, calls, outermost, answer, clock, editorDepth, baseline, lastDone>>
  BY DEF BuildEntity, BuildFailsInBatch, SpawnPrefab, NewEntity, Tracked, ChargeAndRecord, history
<1>2. /\ EditorInStep' /\ OpenCallIsTracked' /\ IdsAreUsed'
      /\ editorDepth' = 0 => batch' = NoOp
      /\ batch' \in Operation /\ undoStack' \in Seq(Operation)
      /\ used' \in SUBSET Entity /\ alive' \in SUBSET Entity /\ createdIds' \in SUBSET Entity
  BY <1>1, MadeEffect DEF Record
<1>3. Cardinality(createdIds) \in Nat /\ Cardinality(createdIds') <= Cardinality(createdIds) + 1
      /\ Cardinality(createdIds') \in Nat /\ Cardinality({e}) <= 1
  <2>1. {} \in SUBSET Entity /\ {} \cup {e} = {e}
    OBVIOUS
  <2>2. Cardinality({}) = 0 /\ Cardinality({} \cup {e}) <= Cardinality({}) + 1
    BY <2>1, EntitySets
  <2>3. QED BY <1>1, <1>2, <2>1, <2>2, EntitySets DEF TypeOK
<1>4. MaxEntities \in Nat
  BY BoundsAreNat
<1>5. CASE BuildEntity(e) \/ BuildFailsInBatch(e)
  <2>1. /\ ~raising /\ (calls > 0 => body \in {"build", "grid"})
        /\ (body = "grid" => todo > 0)
        /\ entitiesCreated' = entitiesCreated + 1 /\ entitiesCreated + 1 <= MaxEntities
        /\ UNCHANGED body
    BY <1>5, <1>4 DEF BuildEntity, BuildFailsInBatch, NewEntity, Tracked, ChargeAndRecord, MayBuild, OverLimit, TypeOK
  <2>2. todo' \in Nat /\ (calls = 0 => todo' = 0)
    BY <1>5 DEF BuildEntity, BuildFailsInBatch, TypeOK, Quiescent
  <2>3. raising' \in BOOLEAN /\ (calls = 0 => ~raising')
    BY <1>5, <2>1, RaiseEffect DEF BuildEntity, BuildFailsInBatch, TypeOK, Quiescent
  <2>4. entitiesCreated' \in Nat
    BY <2>1 DEF TypeOK
  <2>5. TypeOK'
    BY <1>1, <1>2, <2>1, <2>2, <2>3, <2>4 DEF TypeOK
  <2>6. Quiescent'
    BY <1>1, <1>2, <2>1, <2>2, <2>3 DEF Quiescent
  <2>7. ChargedBeforeBuilt'
    <3>1. outermost => calls > 0
      BY DEF EditorInStep
    <3>2. outermost => Cardinality(createdIds) <= entitiesCreated
      BY <2>1, <3>1 DEF ChargedBeforeBuilt
    <3>3. outermost => Cardinality(createdIds') <= entitiesCreated'
      BY <1>3, <2>1, <3>2 DEF TypeOK
    <3>4. QED BY <1>1, <2>1, <3>1, <3>3 DEF ChargedBeforeBuilt
  <2>8. QED BY <1>2, <2>5, <2>6, <2>7
<1>6. CASE SpawnPrefab(e)
  <2>1. /\ calls > 0 /\ ~raising /\ body = "spawn" /\ body' = "spawned"
        /\ entitiesCreated' = entitiesCreated + 0 /\ UNCHANGED <<raising, todo>>
    BY <1>6 DEF SpawnPrefab, ChargeAndRecord
  <2>2. entitiesCreated' = entitiesCreated
    BY <2>1 DEF TypeOK
  <2>3. TypeOK'
    BY <1>1, <1>2, <2>1, <2>2 DEF TypeOK, Bodies
  <2>4. Quiescent'
    BY <1>1, <1>2, <2>1 DEF Quiescent
  <2>5. outermost => Cardinality(createdIds') <= 1
    BY <1>1, <1>3, <2>1 DEF ChargedBeforeBuilt
  <2>6. ChargedBeforeBuilt'
    BY <1>1, <2>1, <2>2, <2>5 DEF ChargedBeforeBuilt
  <2>7. QED BY <1>2, <2>3, <2>4, <2>6
<1>7. QED BY <1>5, <1>6

\* Builds that are refused, exceptions, nested epilogues and the clock.
LEMMA ControlIInv ==
    ASSUME IInv,
           \/ BuildOverLimit \/ BuildRefused \/ FunctionRaises
           \/ NestedReturns \/ NestedRaises \/ TimePasses
    PROVE  IInv'
<1> USE DEF IInv
<1>1. UNCHANGED <<lastBatchEntities, createdIds, answer, alive, used, undoStack, batch, editorDepth, baseline, lastDone>>
  BY DEF BuildOverLimit, BuildRefused, Charge, FunctionRaises, NestedReturns, NestedRaises, TimePasses,
         sandbox, editor, history
<1>2. MaxEntities \in Nat
  BY BoundsAreNat
<1>3. Cardinality(createdIds) \in Nat
  BY EntitySets DEF TypeOK
<1>4. CASE BuildOverLimit \/ BuildRefused \/ FunctionRaises \/ TimePasses
  <2>1. UNCHANGED <<batchDepth, calls, outermost, body, todo>> /\ clock' \in {"unbegun", "running", "expired"}
    BY <1>4 DEF BuildOverLimit, BuildRefused, Charge, FunctionRaises, TimePasses, sandbox, TypeOK
  <2>2. entitiesCreated' \in Nat /\ entitiesCreated <= entitiesCreated' /\ entitiesCreated' <= MaxEntities
    BY <1>4, <1>2 DEF BuildOverLimit, BuildRefused, OverLimit, Charge, FunctionRaises, TimePasses, sandbox,
                      TypeOK, ChargedBeforeBuilt
  <2>3. raising' \in BOOLEAN /\ (calls = 0 => ~raising')
    <3>1. CASE Raise
      BY <3>1, RaiseEffect
    <3>2. CASE raising' = raising
      BY <3>2 DEF TypeOK, Quiescent
    <3>3. CASE raising' = TRUE /\ calls > 0
      BY <3>3
    <3>4. QED BY <1>4, <3>1, <3>2, <3>3 DEF BuildOverLimit, BuildRefused, FunctionRaises, TimePasses
  <2>4. TypeOK'
    BY <1>1, <2>1, <2>2, <2>3 DEF TypeOK
  <2>5. EditorInStep' /\ OpenCallIsTracked' /\ IdsAreUsed'
    BY <1>1, <2>1 DEF EditorInStep, OpenCallIsTracked, IdsAreUsed
  <2>6. Quiescent'
    BY <1>1, <2>1, <2>3 DEF Quiescent
  <2>7. ChargedBeforeBuilt'
    BY <1>1, <1>3, <2>1, <2>2 DEF ChargedBeforeBuilt, TypeOK
  <2>8. QED BY <2>4, <2>5, <2>6, <2>7
<1>5. CASE NestedReturns \/ NestedRaises
  <2>1. /\ calls > 1 \/ (calls = 1 /\ ~outermost)
        /\ LeaveWrapper /\ UNCHANGED <<entitiesCreated, clock>>
    BY <1>5 DEF NestedReturns, NestedRaises, sandbox
  <2>2. /\ batchDepth' = batchDepth - 1 /\ calls' = calls - 1
        /\ batchDepth \in Nat /\ calls \in Nat /\ calls <= batchDepth /\ calls >= 1
    BY <2>1 DEF LeaveWrapper, TypeOK, EditorInStep
  <2>3. calls > 1 => UNCHANGED <<outermost, body>>
    BY <2>1 DEF LeaveWrapper
  <2>4. ~(calls > 1) => outermost' = FALSE /\ body' = "none" /\ ~outermost /\ calls = 1
    BY <2>1, <2>2 DEF LeaveWrapper
  <2>5. /\ todo' \in Nat /\ raising' \in BOOLEAN
        /\ ~(calls > 1) => ~raising' /\ todo' = 0
    BY <1>5, <2>2 DEF NestedReturns, NestedRaises, TypeOK
  <2>6. outermost' = outermost
    BY <2>3, <2>4 DEF TypeOK
  <2>7. TypeOK'
    <3>1. body' \in Bodies
      BY <2>3, <2>4 DEF TypeOK, Bodies
    <3>2. batchDepth' \in Nat /\ calls' \in Nat
      BY <2>2
    <3>3. QED BY <1>1, <2>1, <2>5, <2>6, <3>1, <3>2 DEF TypeOK
  <2>8. EditorInStep'
    BY <1>1, <2>2, <2>4, <2>6 DEF EditorInStep, TypeOK
  <2>9. OpenCallIsTracked' /\ IdsAreUsed'
    BY <1>1, <2>6 DEF OpenCallIsTracked, IdsAreUsed
  <2>10. Quiescent'
    BY <1>1, <2>2, <2>3, <2>4, <2>5 DEF Quiescent
  <2>11. ChargedBeforeBuilt'
    BY <1>1, <2>1, <2>3, <2>4, <2>6 DEF ChargedBeforeBuilt
  <2>12. QED BY <2>7, <2>8, <2>9, <2>10, <2>11
<1>6. QED BY <1>4, <1>5

\* With no wrapped call running the invariant says no more than this.
LEMMA AtScriptLevelIInv ==
    ASSUME calls' = 0, outermost' = FALSE, raising' = FALSE, todo' = 0, body' = "none",
           batchDepth' \in Nat, editorDepth' = batchDepth', editorDepth' = 0 => batch' = NoOp,
           entitiesCreated' \in Nat, entitiesCreated' <= MaxEntities,
           clock' \in {"unbegun", "running", "expired"}, answer' \in {"none", "result", "error"},
           used' \in SUBSET Entity, alive' \in SUBSET used', createdIds' \in SUBSET used',
           batch' \in OpOver(used'), undoStack' \in Seq(OpOver(used')),
           lastBatchEntities' \in SUBSET Entity, baseline' \in SUBSET Entity, lastDone' \in SUBSET Entity
    PROVE  IInv'
<1>1. batch' \in Operation /\ undoStack' \in Seq(Operation)
  BY OpOverEntities
<1>2. TypeOK'
  BY <1>1 DEF TypeOK, Bodies
<1>3. EditorInStep' /\ OpenCallIsTracked'
  <2>1. calls' <= batchDepth'
    OBVIOUS
  <2>2. \A d \in Nat : d - 0 = d
    OBVIOUS
  <2>3. ~outermost' /\ editorDepth' = batchDepth' - calls'
    BY <2>2
  <2>4. QED BY <2>1, <2>3 DEF EditorInStep, OpenCallIsTracked
<1>4. IdsAreUsed' /\ Quiescent' /\ ChargedBeforeBuilt'
  BY DEF IdsAreUsed, Quiescent, ChargedBeforeBuilt
<1>5. QED BY <1>2, <1>3, <1>4 DEF IInv

\* What the invariant gives an action that starts at script level.
LEMMA ScriptLevelFacts ==
    ASSUME IInv, calls = 0
    PROVE  /\ outermost = FALSE /\ raising = FALSE /\ todo = 0 /\ body = "none" /\ editorDepth = batchDepth
BY DEF IInv, TypeOK, EditorInStep, Quiescent

\* The end of an outermost call.
LEMMA OutermostIInv ==
    ASSUME IInv, OutermostReturns \/ OutermostFails
    PROVE  IInv'
<1> USE DEF IInv
<1>1. /\ calls = 1 /\ outermost /\ batchDepth = 1 /\ editorDepth = 1
      /\ LeaveWrapper /\ editorDepth' = editorDepth - 1
      /\ UNCHANGED <<entitiesCreated, createdIds, clock, used, baseline>>
      /\ answer' \in {"none", "result", "error"}
  <2>1. CASE OutermostReturns
    BY <2>1 DEF OutermostReturns, EditorInStep, sandbox
  <2>2. CASE OutermostFails
    BY <2>2 DEF OutermostFails, EditorInStep, sandbox
  <2>3. QED BY <2>1, <2>2
<1>2. batchDepth' = 0 /\ calls' = 0 /\ editorDepth' = 0 /\ outermost' = FALSE /\ body' = "none"
  BY <1>1 DEF LeaveWrapper
<1>3. /\ entitiesCreated' \in Nat /\ entitiesCreated' <= MaxEntities
      /\ clock' \in {"unbegun", "running", "expired"}
      /\ used' \in SUBSET Entity /\ createdIds' \in SUBSET used' /\ baseline' \in SUBSET Entity
  BY <1>1 DEF TypeOK, ChargedBeforeBuilt, IdsAreUsed
<1>4. ClosedStack \in Seq(OpOver(used))
  BY ClosedStackType DEF IdsAreUsed
<1>5. CASE OutermostReturns
  <2>1. alive' = alive /\ undoStack' = ClosedStack /\ batch' = NoOp /\ lastBatchEntities' = createdIds
    BY <1>5 DEF OutermostReturns
  <2>2. lastDone' \in SUBSET Entity
    <3>1. batch.created \in SUBSET Entity /\ lastDone \in SUBSET Entity
      BY DEF TypeOK, Operation
    <3>2. lastDone' = lastDone \/ lastDone' = batch.created
      BY <1>5 DEF OutermostReturns
    <3>3. QED BY <3>1, <3>2
  <2>3. raising' = FALSE /\ todo' = 0
    BY <1>5 DEF OutermostReturns, TypeOK
  <2>4. NoOp \in OpOver(used)
    BY DEF NoOp, Op, OpOver
  <2>5. lastBatchEntities' \in SUBSET Entity
    BY <2>1 DEF TypeOK
  <2>6. alive' \in SUBSET used' /\ batch' \in OpOver(used') /\ undoStack' \in Seq(OpOver(used'))
    BY <1>1, <1>4, <2>1, <2>4 DEF IdsAreUsed
  <2>7. QED BY <1>1, <1>2, <1>3, <2>1, <2>2, <2>3, <2>5, <2>6, AtScriptLevelIInv
<1>6. CASE OutermostFails
  <2>1. raising' = FALSE /\ todo' = 0 /\ lastBatchEntities' = {} /\ lastDone' = {}
    BY <1>6 DEF OutermostFails
  <2>2. UndoThenDelete(ClosedStack, createdIds) \/ DeleteSurvivors(ClosedStack, alive, createdIds)
    BY <1>6 DEF OutermostFails
  <2>3. used \in SUBSET Entity /\ batch \in OpOver(used) /\ alive \in SUBSET used
    BY DEF TypeOK, IdsAreUsed
  <2>4. UndoThenDelete(ClosedStack, createdIds)
    BY <2>2 DEF UndoThenDelete
  <2>5. /\ alive' \in SUBSET used /\ undoStack' \in Seq(OpOver(used))
        /\ batch' \in OpOver(used) /\ (~(editorDepth' > 0) => batch' = NoOp)
    BY <1>4, <2>3, <2>4, UndoThenDeleteEffect DEF UndoThenDelete
  <2>6. batch' = NoOp
    BY <1>2, <2>5
  <2>7. QED BY <1>1, <1>2, <1>3, <2>1, <2>5, <2>6, AtScriptLevelIInv
<1>7. QED BY <1>5, <1>6

\* Manual batches.
LEMMA ManualBatchIInv ==
    ASSUME IInv, BeginUndoBatch \/ EndUndoBatch
    PROVE  IInv'
<1> USE DEF IInv
<1>1. /\ calls = 0 /\ outermost = FALSE /\ raising = FALSE /\ todo = 0 /\ body = "none" /\ editorDepth = batchDepth
      /\ UNCHANGED <<calls, outermost, body, todo, raising, answer, alive, used, lastBatchEntities, baseline>>
  BY ScriptLevelFacts DEF BeginUndoBatch, EndUndoBatch, AtScriptLevel, history
<1>2. /\ used' \in SUBSET Entity /\ alive' \in SUBSET used' /\ lastBatchEntities' \in SUBSET Entity
      /\ baseline' \in SUBSET Entity /\ answer' \in {"none", "result", "error"}
  BY <1>1 DEF TypeOK, IdsAreUsed
<1>3. /\ batch \in OpOver(used) /\ undoStack \in Seq(OpOver(used)) /\ NoOp \in OpOver(used)
      /\ batchDepth \in Nat /\ lastDone \in SUBSET Entity /\ batch.created \in SUBSET Entity
  BY DEF TypeOK, IdsAreUsed, NoOp, Op, OpOver, Operation
<1>4. MaxEntities \in Nat
  BY BoundsAreNat
<1>5. /\ entitiesCreated' \in Nat /\ entitiesCreated' <= MaxEntities
      /\ clock' \in {"unbegun", "running", "expired"} /\ createdIds' \in SUBSET used'
  BY <1>1, <1>4 DEF BeginUndoBatch, EndUndoBatch, ResetSandbox, sandbox, TypeOK, ChargedBeforeBuilt, IdsAreUsed
<1>6. CASE BeginUndoBatch
  <2>1. batchDepth' \in Nat /\ editorDepth' = batchDepth' /\ editorDepth' # 0
    BY <1>1, <1>3, <1>6 DEF BeginUndoBatch
  <2>2. UNCHANGED <<undoStack, batch, lastDone>>
    BY <1>6 DEF BeginUndoBatch, history
  <2>3. QED BY <1>1, <1>2, <1>3, <1>5, <2>1, <2>2, AtScriptLevelIInv
<1>7. CASE EndUndoBatch
  <2>1. /\ batchDepth' \in Nat /\ editorDepth' = batchDepth'
        /\ editorDepth' = 0 => editorDepth = 1 \/ editorDepth = 0
    BY <1>1, <1>3, <1>7 DEF EndUndoBatch, DepthAfterEnd
  <2>2. CASE editorDepth = 1
    <3>1. /\ undoStack' = ClosedStack /\ batch' = NoOp
          /\ lastDone' = lastDone \/ lastDone' = batch.created
      BY <1>7, <2>2 DEF EndUndoBatch
    <3>2. ClosedStack \in Seq(OpOver(used))
      BY <1>3, ClosedStackType
    <3>3. lastDone' \in SUBSET Entity
      BY <1>3, <3>1
    <3>4. QED BY <1>1, <1>2, <1>3, <1>5, <2>1, <3>1, <3>2, <3>3, AtScriptLevelIInv
  <2>3. CASE editorDepth # 1
    <3>1. UNCHANGED <<undoStack, batch, lastDone>>
      BY <1>7, <2>3 DEF EndUndoBatch
    <3>2. editorDepth' = 0 => batch' = NoOp
      BY <2>1, <2>3, <3>1 DEF Quiescent
    <3>3. QED BY <1>1, <1>2, <1>3, <1>5, <2>1, <3>1, <3>2, AtScriptLevelIInv
  <2>4. QED BY <2>2, <2>3
<1>8. QED BY <1>6, <1>7

\* Rollback, raw builds that fail, and the user's edits.
LEMMA EditIInv ==
    ASSUME IInv,
           \/ RollbackLastBatch \/ UserUndoes
           \/ \E e \in Entity : RawBuildFails(e) \/ UserCreates(e) \/ UserDeletes(e)
    PROVE  IInv'
<1> USE DEF IInv
<1> DEFINE Edited ==
             /\ used' \in SUBSET Entity /\ alive' \in SUBSET used'
             /\ batch' \in OpOver(used') /\ undoStack' \in Seq(OpOver(used'))
             /\ editorDepth = 0 => batch' = NoOp
             /\ entitiesCreated' \in Nat /\ entitiesCreated' <= MaxEntities
             /\ createdIds' \in SUBSET used'
             /\ lastBatchEntities' \in SUBSET Entity /\ lastDone' \in SUBSET Entity
             /\ calls = 0
             /\ UNCHANGED <<batchDepth, calls, outermost, body, todo, raising, answer, editorDepth, baseline, clock>>
<1>1. /\ used \in SUBSET Entity /\ alive \in SUBSET used /\ createdIds \in SUBSET used
      /\ batch \in OpOver(used) /\ undoStack \in Seq(OpOver(used)) /\ NoOp \in OpOver(used)
      /\ editorDepth \in Nat /\ (editorDepth = 0 => batch = NoOp)
      /\ entitiesCreated \in Nat /\ entitiesCreated <= MaxEntities
      /\ lastBatchEntities \in SUBSET Entity /\ lastDone \in SUBSET Entity
  BY DEF TypeOK, IdsAreUsed, NoOp, Op, OpOver, Quiescent, ChargedBeforeBuilt
<1>2. ASSUME RollbackLastBatch PROVE Edited
  <2>1. /\ UndoThenDelete(undoStack, lastBatchEntities)
        /\ lastBatchEntities' = {} /\ lastDone' = {} /\ calls = 0
        /\ UNCHANGED <<batchDepth, entitiesCreated, createdIds, clock, calls, outermost, body, todo, raising,
                       answer, used, baseline, editorDepth>>
    BY <1>2 DEF RollbackLastBatch, AtScriptLevel, sandbox
  <2>2. /\ alive' \in SUBSET used /\ undoStack' \in Seq(OpOver(used))
        /\ batch' \in OpOver(used) /\ (~(editorDepth' > 0) => batch' = NoOp)
    BY <1>1, <2>1, UndoThenDeleteEffect DEF UndoThenDelete
  <2>3. editorDepth = 0 => batch' = NoOp
    BY <1>1, <2>1, <2>2
  <2>4. QED BY <1>1, <2>1, <2>2, <2>3
<1>3. ASSUME UserUndoes PROVE Edited
  <2>1. /\ undoStack # <<>> /\ calls = 0
        /\ undoStack' = SubSeq(undoStack, 1, Len(undoStack) - 1)
        /\ UNCHANGED <<gem, used, batch, editorDepth, baseline, lastDone>>
    BY <1>3 DEF UserUndoes, AtScriptLevel, history
  <2>2. PICK survivors : alive' = Undone(undoStack[Len(undoStack)], alive, survivors)
    BY <1>3 DEF UserUndoes
  <2>3. undoStack[Len(undoStack)] \in OpOver(used)
    BY <1>1, <2>1, ElementOfSeq, EmptySeq, LenProperties
  <2>4. alive' \in SUBSET used
    BY <1>1, <2>2, <2>3 DEF Undone, OpOver
  <2>5. undoStack' \in Seq(OpOver(used))
    BY <1>1, <2>1, LenProperties, SubSeqProperties
  <2>6. QED BY <1>1, <2>1, <2>4, <2>5 DEF gem, sandbox
<1>4. ASSUME NEW e \in Entity, RawBuildFails(e) PROVE Edited
  <2>1. used' = used \cup {e} /\ alive' = alive /\ batch' = batch
        /\ undoStack' = undoStack \o <<Op({e}, {}), Op({}, {e})>>
        /\ ~OverLimit(1) /\ ChargeAndRecord(1, e)
        /\ UNCHANGED <<batchDepth, lastBatchEntities, calls, outermost, body, todo, raising, answer,
                       editorDepth, baseline, lastDone>>
    BY <1>4 DEF RawBuildFails, NewEntity, Tracked, history
  <2>2. calls = 0
    BY <1>4 DEF RawBuildFails, MayBuild, InBatch, TypeOK, EditorInStep
  <2>3. entitiesCreated' = entitiesCreated + 1 /\ ~(entitiesCreated + 1 > MaxEntities)
        /\ createdIds' = createdIds \cup {e} /\ clock' = clock
    BY <2>1 DEF OverLimit, ChargeAndRecord
  <2>4. batch \in OpOver(used') /\ OpOver(used) \subseteq OpOver(used')
        /\ Op({e}, {}) \in OpOver(used') /\ Op({}, {e}) \in OpOver(used')
    BY <1>1, <2>1 DEF Op, OpOver
  <2>5. <<Op({e}, {}), Op({}, {e})>> \in Seq(OpOver(used'))
    BY <2>4
  <2>6. undoStack \in Seq(OpOver(used'))
    BY <1>1, <2>4, SeqMonotonic
  <2>7. undoStack' \in Seq(OpOver(used'))
    BY <2>1, <2>5, <2>6, ConcatProperties
  <2>8. entitiesCreated' \in Nat /\ entitiesCreated' <= MaxEntities
    BY <1>1, <2>3, BoundsAreNat
  <2>9. used' \in SUBSET Entity /\ alive' \in SUBSET used' /\ createdIds' \in SUBSET used'
    BY <1>1, <2>1, <2>3
  <2>10. QED BY <1>1, <2>1, <2>2, <2>3, <2>4, <2>7, <2>8, <2>9
<1>5. ASSUME NEW e \in Entity, UserCreates(e) \/ UserDeletes(e) PROVE Edited
  <2>1. calls = 0 /\ UNCHANGED <<gem, editorDepth, baseline, lastDone>>
    BY <1>5 DEF UserCreates, UserDeletes, AtScriptLevel, history
  <2>2. used \subseteq used' /\ used' \in SUBSET Entity /\ alive' \in SUBSET used'
    BY <1>1, <1>5 DEF UserCreates, UserDeletes
  <2>3. PICK o \in OpOver(used') : Record(o)
    <3>1. CASE UserCreates(e)
      BY <3>1 DEF UserCreates, Op, OpOver
    <3>2. CASE UserDeletes(e)
      BY <1>1, <3>2 DEF UserDeletes, Op, OpOver
    <3>3. QED BY <1>5, <3>1, <3>2
  <2>4. /\ batch' \in OpOver(used') /\ undoStack' \in Seq(OpOver(used'))
        /\ ~(editorDepth > 0) => batch' = batch
    BY <1>1, <2>2, <2>3, RecordEffect DEF Record
  <2>5. editorDepth = 0 => batch' = NoOp
    BY <1>1, <2>4
  <2>6. QED BY <1>1, <2>1, <2>2, <2>4, <2>5 DEF gem, sandbox
<1>6. Edited
  BY <1>2, <1>3, <1>4, <1>5
<1> HIDE DEF Edited
<1>7. /\ calls = 0 /\ outermost = FALSE /\ raising = FALSE /\ todo = 0 /\ body = "none" /\ editorDepth = batchDepth
  BY <1>6, ScriptLevelFacts DEF Edited
<1>8. /\ batchDepth' \in Nat /\ answer' \in {"none", "result", "error"} /\ baseline' \in SUBSET Entity
      /\ clock' \in {"unbegun", "running", "expired"}
  BY <1>6 DEF Edited, TypeOK
<1>9. QED BY <1>6, <1>7, <1>8, AtScriptLevelIInv DEF Edited

-----------------------------------------------------------------------------
(* The theorems.                                                           *)

\* Every step preserves the invariant.
LEMMA NextIInv == IInv /\ [Next]_vars => IInv'
<1> SUFFICES ASSUME IInv, [Next]_vars PROVE IInv'
  OBVIOUS
<1>1. CASE UNCHANGED vars
  BY <1>1 DEF vars, gem, sandbox, editor, history, IInv, TypeOK, EditorInStep, OpenCallIsTracked, IdsAreUsed,
              Quiescent, ChargedBeforeBuilt
<1>2. CASE BeginBuildCall \/ BeginSpawnCall \/ \E n \in 1..MaxEntities + 1 : BeginGridCall(n)
  BY <1>2, BeginIInv
<1>3. CASE \E e \in Entity : BuildEntity(e) \/ BuildFailsInBatch(e) \/ SpawnPrefab(e)
  BY <1>3, BuildIInv
<1>4. CASE \/ BuildOverLimit \/ BuildRefused \/ FunctionRaises
           \/ NestedReturns \/ NestedRaises \/ TimePasses
  BY <1>4, ControlIInv
<1>5. CASE OutermostReturns \/ OutermostFails
  BY <1>5, OutermostIInv
<1>6. CASE BeginUndoBatch \/ EndUndoBatch
  BY <1>6, ManualBatchIInv
<1>7. CASE \/ RollbackLastBatch \/ UserUndoes
           \/ \E e \in Entity : RawBuildFails(e) \/ UserCreates(e) \/ UserDeletes(e)
  BY <1>7, EditIInv
<1>8. QED BY <1>1, <1>2, <1>3, <1>4, <1>5, <1>6, <1>7 DEF Next

\* The inductive invariant holds in every reachable state.
THEOREM InductiveInvariant == Spec => []IInv
BY InitIInv, NextIInv, PTL DEF Spec

\* Every variable keeps to its domain.
THEOREM TypeCorrect == Spec => []TypeOK
<1>1. IInv => TypeOK
  BY DEF IInv
<1>2. QED BY <1>1, InductiveInvariant, PTL

\* The gem's batch counter and the editor's nesting never part, so a call
\* closes the batch it opened and no other.
THEOREM EditorStaysInStep == Spec => []EditorInStep
<1>1. IInv => EditorInStep
  BY DEF IInv
<1>2. QED BY <1>1, InductiveInvariant, PTL

\* While a call runs, what it has made is in the sandbox's list and in the
\* open batch, and nothing else has changed.
THEOREM CallsAreTracked == Spec => []OpenCallIsTracked
<1>1. IInv => OpenCallIsTracked
  BY DEF IInv
<1>2. QED BY <1>1, InductiveInvariant, PTL

\* One API call never creates more than MAX_ENTITIES_PER_CALL entities.
THEOREM LimitHolds == Spec => []CallWithinLimit
<1>1. IInv => CallWithinLimit
  <2>1. SUFFICES ASSUME IInv, outermost PROVE Cardinality(createdIds) <= MaxEntities
    BY DEF CallWithinLimit
  <2>2. body \in Bodies \ {"none"}
    BY <2>1 DEF IInv, TypeOK, EditorInStep, Quiescent
  <2>3. Cardinality(createdIds) \in Nat /\ Cardinality({}) = 0
    BY <2>1, EntitySets DEF IInv, TypeOK
  <2>4. MaxEntities \in Nat /\ MaxEntities >= 1
    BY BoundsAreNat
  <2>5. entitiesCreated \in Nat /\ entitiesCreated <= MaxEntities
    BY <2>1 DEF IInv, TypeOK, ChargedBeforeBuilt
  <2>6. \/ createdIds = {}
        \/ Cardinality(createdIds) <= 1
        \/ Cardinality(createdIds) <= entitiesCreated
    BY <2>1, <2>2 DEF IInv, ChargedBeforeBuilt, Bodies
  <2>7. QED BY <2>3, <2>4, <2>5, <2>6
<1>2. QED BY <1>1, InductiveInvariant, PTL

\* What a failing outermost call does to the level, in one step.
LEMMA FailingCallRestores == ASSUME IInv, OutermostFails PROVE alive' = baseline
<1>1. outermost
  BY DEF OutermostFails
<1>2. /\ alive = baseline \cup createdIds /\ baseline \cap createdIds = {}
      /\ batch = Op(createdIds, {})
  BY <1>1 DEF IInv, OpenCallIsTracked
<1>3. CASE DeleteSurvivors(ClosedStack, alive, createdIds)
  BY <1>2, <1>3 DEF DeleteSurvivors
<1>4. CASE createdIds # {} /\ UndoThenDelete(ClosedStack, createdIds)
  <2>1. batch # NoOp
    BY <1>2, <1>4 DEF NoOp, Op
  <2>2. ClosedStack = Append(undoStack, batch) /\ undoStack \in Seq(Operation)
    BY <2>1 DEF ClosedStack, IInv, TypeOK
  <2>3. ClosedStack[Len(ClosedStack)] = batch
    BY <2>2
  <2>4. ASSUME NEW survivors \in SUBSET ClosedStack[Len(ClosedStack)].created,
               DeleteSurvivors(SubSeq(ClosedStack, 1, Len(ClosedStack) - 1),
                               Undone(ClosedStack[Len(ClosedStack)], alive, survivors), createdIds)
        PROVE  alive' = baseline
    <3>1. batch.created = createdIds /\ batch.deleted = {}
      BY <1>2 DEF Op
    <3>2. Undone(batch, alive, survivors) \ createdIds = baseline
      BY <1>2, <3>1 DEF Undone
    <3>3. QED BY <2>3, <2>4, <3>2 DEF DeleteSurvivors
  <2>5. QED BY <1>3, <1>4, <2>4 DEF UndoThenDelete
<1>5. QED BY <1>3, <1>4 DEF OutermostFails, WorthUndoing

\* A failing top-level call leaves the level as it found it, whatever the
\* editor reports of the batch and whatever survives its Undo.
THEOREM FailuresRestore == Spec => FailureRestores
<1>1. IInv => (OutermostFails => alive' = baseline)
  BY FailingCallRestores
<1>2. QED BY <1>1, InductiveInvariant, PTL DEF Spec, FailureRestores

\* A successful top-level call keeps everything it made.
LEMMA ReturningCallCommits ==
    ASSUME IInv, OutermostReturns
    PROVE  /\ outermost /\ outermost' = FALSE /\ answer' = "result"
           /\ baseline \subseteq alive'
<1>1. outermost /\ calls = 1 /\ alive' = alive /\ answer' = "result" /\ LeaveWrapper
  BY DEF OutermostReturns
<1>2. QED BY <1>1 DEF LeaveWrapper, IInv, OpenCallIsTracked

\* Every other step leaves the call's identity, baseline and answer alone,
\* unless it opens an outermost call.
LEMMA OtherSteps ==
    ASSUME IInv, [Next]_vars, ~OutermostReturns, ~OutermostFails
    PROVE  \/ /\ outermost' = outermost /\ answer' = answer
              /\ outermost => baseline' = baseline
           \/ /\ outermost = FALSE /\ outermost' = TRUE /\ answer' = answer
              /\ baseline' = alive
<1>1. CASE BeginBuildCall \/ BeginSpawnCall \/ \E n \in 1..MaxEntities + 1 : BeginGridCall(n)
  <2>1. EnterWrapper /\ answer' = answer
    BY <1>1 DEF BeginBuildCall, BeginSpawnCall, BeginGridCall
  <2>2. Opens => outermost = FALSE
    BY DEF Opens, IInv, TypeOK, EditorInStep
  <2>3. CASE Opens
    BY <2>1, <2>2, <2>3 DEF EnterWrapper
  <2>4. CASE ~Opens
    BY <2>1, <2>4 DEF EnterWrapper
  <2>5. QED BY <2>3, <2>4
<1>2. CASE NestedReturns \/ NestedRaises
  <2>1. /\ calls > 1 \/ (calls = 1 /\ ~outermost)
        /\ LeaveWrapper /\ answer' = answer /\ baseline' = baseline
    BY <1>2 DEF NestedReturns, NestedRaises, history
  <2>2. outermost' = outermost
    BY <2>1 DEF LeaveWrapper, IInv, TypeOK
  <2>3. QED BY <2>1, <2>2
<1>3. CASE ~(NestedReturns \/ NestedRaises) /\ ~(BeginBuildCall \/ BeginSpawnCall \/ \E n \in 1..MaxEntities + 1 : BeginGridCall(n))
  <2>1. CASE UNCHANGED vars
    BY <2>1 DEF vars, gem, history
  <2>2. CASE BuildOverLimit \/ BuildRefused \/ FunctionRaises \/ TimePasses
    BY <2>2 DEF BuildOverLimit, BuildRefused, FunctionRaises, TimePasses, history
  <2>3. ASSUME NEW e \in Entity,
               BuildEntity(e) \/ BuildFailsInBatch(e) \/ RawBuildFails(e) \/ SpawnPrefab(e)
        PROVE  UNCHANGED <<outermost, answer, baseline>>
    BY <2>3 DEF BuildEntity, BuildFailsInBatch, RawBuildFails, SpawnPrefab, history
  <2>4. CASE BeginUndoBatch \/ EndUndoBatch \/ RollbackLastBatch
    BY <2>4 DEF BeginUndoBatch, EndUndoBatch, RollbackLastBatch, history
  <2>5. ASSUME NEW e \in Entity, UserCreates(e) \/ UserDeletes(e)
        PROVE  UNCHANGED <<outermost, answer, baseline>>
    BY <2>5 DEF UserCreates, UserDeletes, gem, history
  <2>6. CASE UserUndoes
    BY <2>6 DEF UserUndoes, gem, history
  <2>7. QED BY <1>3, <2>1, <2>2, <2>3, <2>4, <2>5, <2>6 DEF Next
<1>4. QED BY <1>1, <1>2, <1>3

\* UndoBatch implements AtomicCalls: to an observer who sees the level as it
\* was until a top-level call ends, the call commits or aborts in one step.
THEOREM Atomicity == Spec => CallsAreAtomic
<1>1. Init => Calls!Init
  BY DEF Init, Calls!Init
<1>2. IInv /\ IInv' /\ [Next]_vars => [Calls!Next]_(Calls!vars)
  <2> SUFFICES ASSUME IInv, IInv', [Next]_vars PROVE [Calls!Next]_(Calls!vars)
    OBVIOUS
  <2>1. /\ alive \in SUBSET Entity /\ alive' \in SUBSET Entity
        /\ outermost \in BOOLEAN /\ outermost' \in BOOLEAN
    BY DEF IInv, TypeOK
  <2>2. CASE OutermostReturns
    BY <2>1, <2>2, ReturningCallCommits DEF Calls!Next, Calls!Commit
  <2>3. CASE OutermostFails
    <3>1. outermost /\ outermost' = FALSE /\ answer' = "error"
      BY <2>3 DEF OutermostFails, LeaveWrapper
    <3>2. alive' = baseline
      BY <2>3, FailingCallRestores
    <3>3. QED BY <3>1, <3>2 DEF Calls!Next, Calls!Abort
  <2>4. CASE ~OutermostReturns /\ ~OutermostFails
    <3>1. CASE /\ outermost' = outermost /\ answer' = answer
               /\ outermost => baseline' = baseline
      <4>1. CASE outermost
        BY <2>1, <3>1, <4>1 DEF Calls!vars
      <4>2. CASE ~outermost
        BY <2>1, <3>1, <4>2 DEF Calls!Next, Calls!Edit
      <4>3. QED BY <4>1, <4>2
    <3>2. CASE /\ outermost = FALSE /\ outermost' = TRUE /\ answer' = answer
               /\ baseline' = alive
      BY <2>1, <3>2 DEF Calls!Next, Calls!Start
    <3>3. QED BY <2>4, <3>1, <3>2, OtherSteps
  <2>5. QED BY <2>2, <2>3, <2>4
<1>3. QED BY <1>1, <1>2, InductiveInvariant, PTL DEF Spec, CallsAreAtomic, Calls!Spec

-----------------------------------------------------------------------------
(* Undo never reaches past a running call.                                 *)

Extends(s, t) == Len(s) <= Len(t) /\ SubSeq(t, 1, Len(s)) = s

\* A history is extended by itself, and by whatever is added at its end.
LEMMA ExtendsFacts ==
    ASSUME NEW T, NEW s \in Seq(T)
    PROVE  /\ Extends(s, s)
           /\ \A e \in T : Extends(s, Append(s, e)) /\ SubSeq(Append(s, e), 1, Len(s)) = s
           /\ \A t, u \in Seq(T) : Extends(s, t) => Extends(s, t \o u)
<1>1. Extends(s, s)
  BY LenProperties, SubSeqProperties DEF Extends
<1>2. ASSUME NEW e \in T PROVE Extends(s, Append(s, e))
  <2>1. /\ Append(s, e) \in Seq(T) /\ Len(Append(s, e)) = Len(s) + 1
        /\ \A i \in 1..Len(s) : Append(s, e)[i] = s[i]
    BY AppendProperties, LenProperties
  <2>2. QED BY <2>1, LenProperties, SubSeqProperties DEF Extends
<1>3. ASSUME NEW t \in Seq(T), NEW u \in Seq(T), Extends(s, t) PROVE Extends(s, t \o u)
  <2>1. /\ t \o u \in Seq(T) /\ Len(t \o u) = Len(t) + Len(u)
        /\ \A i \in 1..Len(t) : (t \o u)[i] = t[i]
    BY ConcatProperties, LenProperties
  <2>2. Len(s) <= Len(t \o u)
    BY <1>3, <2>1, LenProperties DEF Extends
  <2>3. \A i \in 1..Len(s) : (t \o u)[i] = SubSeq(t, 1, Len(s))[i]
    BY <1>3, <2>1, LenProperties, SubSeqProperties DEF Extends
  <2>4. SubSeq(t \o u, 1, Len(s)) = s
    BY <1>3, <2>1, <2>2, <2>3, LenProperties, SubSeqProperties DEF Extends
  <2>5. QED BY <2>2, <2>4 DEF Extends
<1>4. QED BY <1>1, <1>2, <1>3 DEF Extends

\* Deleting survivors only adds to the history.
LEMMA DeletionsExtend ==
    ASSUME IInv, NEW s \in Seq(OpOver(used)), NEW h \in Seq(OpOver(used)), Extends(s, h),
           NEW w \in SUBSET used, NEW ids, DeleteSurvivors(h, w, ids)
    PROVE  Extends(s, undoStack')
<1>1. CASE editorDepth' > 0
  BY <1>1 DEF DeleteSurvivors
<1>2. CASE ~(editorDepth' > 0)
  <2>1. PICK es \in DeletionEntries(ids \cap w) : undoStack' = h \o es
    BY <1>2 DEF DeleteSurvivors
  <2>2. es \in Seq(OpOver(used))
    <3>1. used \in SUBSET Entity /\ ids \cap w \in SUBSET used
      BY DEF IInv, TypeOK
    <3>2. QED BY <3>1, DeletionEntriesType
  <2>3. QED BY <2>1, <2>2, ExtendsFacts
<1>3. QED BY <1>1, <1>2

\* A failing call undoes its own batch or nothing.
LEMMA FailingCallExtends == ASSUME IInv, OutermostFails PROVE Extends(undoStack, undoStack')
<1>1. undoStack \in Seq(OpOver(used)) /\ batch \in OpOver(used) /\ alive \in SUBSET used
  BY DEF IInv, IdsAreUsed
<1>2. ClosedStack \in Seq(OpOver(used)) /\ Extends(undoStack, ClosedStack)
  BY <1>1, ClosedStackType, ExtendsFacts DEF ClosedStack
<1>3. CASE DeleteSurvivors(ClosedStack, alive, createdIds)
  BY <1>1, <1>2, <1>3, DeletionsExtend DEF DeleteSurvivors
<1>4. CASE createdIds # {} /\ UndoThenDelete(ClosedStack, createdIds)
  <2>1. batch # NoOp
    BY <1>4 DEF OutermostFails, IInv, OpenCallIsTracked, NoOp, Op
  <2>2. ClosedStack = Append(undoStack, batch)
    BY <2>1 DEF ClosedStack
  <2>3. ClosedStack[Len(ClosedStack)] = batch /\ Len(ClosedStack) - 1 = Len(undoStack)
    BY <1>1, <2>2, AppendProperties, LenProperties
  <2>4. SubSeq(ClosedStack, 1, Len(ClosedStack) - 1) = undoStack
    BY <1>1, <2>2, <2>3, ExtendsFacts
  <2>5. ASSUME NEW survivors \in SUBSET ClosedStack[Len(ClosedStack)].created,
               DeleteSurvivors(SubSeq(ClosedStack, 1, Len(ClosedStack) - 1),
                               Undone(ClosedStack[Len(ClosedStack)], alive, survivors), createdIds)
        PROVE  Extends(undoStack, undoStack')
    <3>1. Undone(batch, alive, survivors) \in SUBSET used
      BY <1>1 DEF Undone, OpOver
    <3>2. DeleteSurvivors(undoStack, Undone(batch, alive, survivors), createdIds)
      BY <2>3, <2>4, <2>5
    <3>3. Extends(undoStack, undoStack)
      BY <1>1, ExtendsFacts
    <3>4. QED BY <1>1, <3>1, <3>2, <3>3, DeletionsExtend DEF DeleteSurvivors
  <2>6. QED BY <1>3, <1>4, <2>5 DEF UndoThenDelete
<1>5. QED BY <1>3, <1>4 DEF OutermostFails, WorthUndoing

\* While a wrapped call runs or fails, no operation older than the call leaves
\* the user's undo history.
THEOREM OlderHistoryIsKept == Spec => OlderHistorySurvives
<1>1. IInv /\ [Next]_vars => (calls > 0 => Extends(undoStack, undoStack'))
  <2> SUFFICES ASSUME IInv, [Next]_vars, calls > 0 PROVE Extends(undoStack, undoStack')
    OBVIOUS
  <2>1. undoStack \in Seq(Operation) /\ batch \in Operation
    BY DEF IInv, TypeOK
  <2>2. Extends(undoStack, undoStack)
    BY <2>1, ExtendsFacts
  <2>3. CASE undoStack' = undoStack
    BY <2>2, <2>3
  <2>4. ASSUME NEW e \in Entity, Record(Op({e}, {})) PROVE Extends(undoStack, undoStack')
    <3>1. Op({e}, {}) \in Operation
      BY DEF Op, Operation
    <3>2. Extends(undoStack, Append(undoStack, Op({e}, {})))
      BY <2>1, <3>1, ExtendsFacts
    <3>3. QED BY <2>2, <2>4, <3>2 DEF Record
  <2>5. CASE OutermostReturns
    <3>1. undoStack' = undoStack \/ undoStack' = Append(undoStack, batch)
      BY <2>5 DEF OutermostReturns, ClosedStack
    <3>2. QED BY <2>1, <2>2, <3>1, ExtendsFacts
  <2>6. CASE OutermostFails
    BY <2>6, FailingCallExtends
  <2>7. calls # 0 /\ InBatch
    BY DEF IInv, TypeOK, EditorInStep, InBatch
  <2>8. CASE \/ UNCHANGED vars \/ BeginBuildCall \/ BeginSpawnCall
             \/ \E n \in 1..MaxEntities + 1 : BeginGridCall(n)
             \/ BuildOverLimit \/ BuildRefused \/ FunctionRaises
             \/ NestedReturns \/ NestedRaises \/ TimePasses
    <3>1. undoStack' = undoStack
      BY <2>8 DEF vars, editor, BeginBuildCall, BeginSpawnCall, BeginGridCall, BuildOverLimit, BuildRefused,
                  FunctionRaises, NestedReturns, NestedRaises, TimePasses
    <3>2. QED BY <2>3, <3>1
  <2>9. ASSUME NEW e \in Entity,
               BuildEntity(e) \/ BuildFailsInBatch(e) \/ RawBuildFails(e) \/ SpawnPrefab(e)
        PROVE  Extends(undoStack, undoStack')
    BY <2>4, <2>7, <2>9 DEF BuildEntity, BuildFailsInBatch, RawBuildFails, SpawnPrefab
  <2>10. /\ ~BeginUndoBatch /\ ~EndUndoBatch /\ ~RollbackLastBatch /\ ~UserUndoes
         /\ \A e \in Entity : ~UserCreates(e) /\ ~UserDeletes(e)
    BY <2>7 DEF BeginUndoBatch, EndUndoBatch, RollbackLastBatch, UserUndoes, UserCreates, UserDeletes, AtScriptLevel
  <2>11. QED BY <2>5, <2>6, <2>8, <2>9, <2>10 DEF Next
<1>2. QED BY <1>1, InductiveInvariant, PTL DEF Spec, OlderHistorySurvives, Extends
=============================================================================
