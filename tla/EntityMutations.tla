-------------------------- MODULE EntityMutations --------------------------
(***************************************************************************)
(* create_entity, set_transform and delete_entity, from the JSON request   *)
(* (Network/AgentServer.cpp, RequestParsing, InputValidator) to the undo   *)
(* batch of AiCompanionEditorSystemComponent.cpp, beside the bus events    *)
(* the Python builders use and the user at the editor.  The editor keeps   *)
(* two levels: the live entities, and the prefab template, which is what a *)
(* save writes and what a creation or an undo instantiates anew.  A change *)
(* reaches the template when its entity is marked dirty and the outermost  *)
(* undo batch ends.                                                        *)
(***************************************************************************)
EXTENDS SceneReports

CONSTANTS MaxEntities,   \* bound: entity ids ever handed out
          MaxUndo,       \* bound: undo steps the history is followed back
          MaxChanges,    \* bound: steps that change the level; refusals and reports have none
          Position,      \* positions that requests name
          Scale,         \* effective scales that requests name
          Requested,     \* the transforms requests ask for
          Target         \* the entities that requests transform and the user edits

MaxPositionBound  == 2
MaxScale          == 8   \* largest scale factor, in quarters
MinTransformScale == 2   \* smallest element the Non-uniform Scale component keeps
ZeroRotation      == -1  \* the quaternion of all zeros

ASSUME EntityBounds == MaxEntities \in Nat \ {0, 1} /\ MaxUndo \in Nat \ {0} /\ MaxChanges \in Nat
VARIABLES live,        \* the level as the editor shows it
          template,    \* the level as a save would write it
          dirty,       \* entities marked in the open undo batch
          scriptBatch, \* whether a script's undo batch is open
          before,      \* the template when that batch was opened
          undo,        \* the editor's history: templates, newest last
          used,        \* how many entity ids have been handed out
          changes,     \* how many steps have changed the level
          confirmed,   \* for each entity, what the last "ok" told of it
          answer       \* the code of the last step's reply, "none" for other steps

level == <<live, template, dirty, scriptBatch, before, undo, used, changes>>
vars  == <<level, confirmed, answer>>

EntityId == 1..MaxEntities
Rotation == {0, 1}
Names    == {"plain", "protected", "invalid", "default"}
Optional(S) == {Absent} \cup {<<v>> : v \in S}
OrElse(field, value) == IF field = Absent THEN value ELSE field[1]

Entity(parent, position) == [name |-> "default", parent |-> parent, position |-> position,
                             rotation |-> 0, uniform |-> ScaleOne, nonUniform |-> Absent]

-----------------------------------------------------------------------------
(* What the handlers accept.                                               *)

IsValidEntityName(name) == name \in {"plain", "protected"}
IsProtectedEntityName(name) == name = "protected"
IsValidPosition(p) == p \in -MaxPositionBound..MaxPositionBound
IsValidScale(s)    == \A i \in 1..2 : s[i] \in 1..MaxScale
IsUniformScale(s)  == s[1] = s[2]

ParseVector3(field)    == field # Absent => IsValidPosition(field[1])
ParseScale(field)      == field # Absent => IsValidScale(field[1])
ParseQuaternion(field) == field # Absent => field[1] # ZeroRotation

\* set_transform's fields: one of them at least, one kind of rotation at most.
ParseTransform(r) == /\ \E field \in DOMAIN r : r[field] # Absent
                     /\ r.euler = Absent \/ r.quaternion = Absent
                     /\ ParseVector3(r.position)
                     /\ ParseQuaternion(r.quaternion)
                     /\ ParseScale(r.scale)

TransformRequest == [position : Optional(Position), euler : Optional({1}),
                     quaternion : Optional({0, ZeroRotation}), scale : Optional(Scale)]

ASSUME RequestedValues == /\ Position \subseteq Int /\ Scale \subseteq [1..2 -> Nat]
                          /\ Requested \subseteq TransformRequest
                          /\ Target \subseteq Nat

-----------------------------------------------------------------------------
(* Undo batches.                                                           *)

With(l, e, x) == [a \in DOMAIN l \cup {e} |-> IF a = e THEN x ELSE l[a]]
Without(l, S) == [a \in DOMAIN l \ S |-> l[a]]

Push(h, t) == IF Len(h) < MaxUndo THEN Append(h, t) ELSE Append(Tail(h), t)

\* The template when the outermost batch ends: dirty entities as they are.
Captured(l, t, d) == [a \in DOMAIN t |-> IF a \in d THEN l[a] ELSE t[a]]

\* Mutant of Recorded: the batch resumes the one before it.
RecordedInLast(from, t) == IF undo = << >> THEN Push(undo, from) ELSE undo

\* An empty batch is discarded, any other is one step of the history.
Recorded(from, t) == IF t = from THEN undo ELSE Push(undo, from)

Change == changes < MaxChanges /\ changes' = changes + 1

\* A ScopedUndoBatch ends that left the level l, the template t and the
\* entities d marked: the outermost one unless a script's is open.
BatchEnds(l, t, d) ==
    /\ Change
    /\ live' = l
    /\ IF scriptBatch
       THEN /\ template' = t /\ dirty' = d
            /\ UNCHANGED undo
       ELSE /\ template' = Captured(l, t, d) /\ dirty' = {}
            /\ undo' = Recorded(template, Captured(l, t, d))
    /\ UNCHANGED <<scriptBatch, before>>

Refuse(code) == answer' = code /\ UNCHANGED <<level, confirmed>>

\* The reply tells of e what x says, whatever becomes of it later.  Inside a
\* script's batch the reply stands or falls with the script.
Confirm(e, x) == /\ confirmed' = IF scriptBatch THEN Without(confirmed, {e}) ELSE With(confirmed, e, x)
                 /\ answer' = "ok"
Unconfirm(S, code) == confirmed' = Without(confirmed, S) /\ answer' = code

-----------------------------------------------------------------------------
(* Scale.                                                                  *)

\* Mutant of ReadBack: takes the engine's word for it.
NoReadBack(x, s, marked) == [to |-> x, marked |-> marked, code |-> "ok"]

\* The scale is read back and compared with what was asked.
ReadBack(x, s, marked) ==
    [to |-> x, marked |-> marked, code |-> IF EffectiveScale(x) = s THEN "ok" ELSE "engine_error"]

\* Either write may fail to land in the engine.
SetUniform(x, s) ==
    {ReadBack([x EXCEPT !.uniform = u, !.nonUniform = n], s, FALSE) :
        u \in {x.uniform, s[1]},
        n \in IF x.nonUniform = Absent THEN {Absent} ELSE {x.nonUniform, <<ScaleOne, ScaleOne>>}}

\* The editor may refuse to add the component; adding it marks the entity.
SetNonUniform(x, s) ==
    {[to |-> x, marked |-> FALSE, code |-> "engine_error"]} \cup
    {ReadBack([x EXCEPT !.uniform = u, !.nonUniform = n], s, x.nonUniform = Absent) :
        u \in {x.uniform, ScaleOne},
        n \in {s, IF x.nonUniform = Absent THEN <<ScaleOne, ScaleOne>> ELSE x.nonUniform}}

TooSmall(s) == ~IsUniformScale(s) /\ \E i \in 1..2 : s[i] < MinTransformScale

\* What ApplyScale may make of entity record x.
ApplyScale(x, s) ==
    IF ~IsValidScale(s) \/ TooSmall(s)
    THEN {[to |-> x, marked |-> FALSE, code |-> "validation_failed"]}
    ELSE IF IsUniformScale(s) THEN SetUniform(x, s) ELSE SetNonUniform(x, s)

\* Mutant of Marked: AddDirtyEntity comes before the scale.
MarkedFirst(e, o) == {e}

\* AddDirtyEntity comes last and a failed scale returns before it.
Marked(e, o) == IF o.marked \/ o.code = "ok" THEN {e} ELSE {}

-----------------------------------------------------------------------------
(* Requests and bus events.                                                *)

ParseEntityId(id) == id # Nothing
EntityExists(id)  == id \in DOMAIN live

\* Mutant of UsableParent: the prefab system is asked whatever the parent.
AnyParent(parent) == TRUE

UsableParent(parent) == parent # Absent => EntityExists(parent[1])

\* Mutant of ParentOf: an absent parent is passed on as id 0.
ParentIsZero(parent) == OrElse(parent, Nothing)

\* The prefab system puts an entity without a parent under the level's own.
ParentOf(parent) == OrElse(parent, Root)

\* The local position that stands at p in the world.
LocalTo(parent, p) == p - IF EntityExists(parent) THEN WorldPosition(live)[parent] ELSE 0

\* The prefab system instantiates the whole level from the template with the
\* new entity in it.  SetName then changes the live entity only.
Created(e, name, x) ==
    /\ used' = e
    /\ BatchEnds(With(With(template, e, x), e, [x EXCEPT !.name = name]), With(template, e, x), dirty)
    /\ Confirm(e, [position |-> x.position, rotation |-> 0, scale |-> <<ScaleOne, ScaleOne>>])

\* The engine may refuse, and the prefab system may not be there.
CreateEntity(name, p, parent) ==
    IF ~IsValidEntityName(name) \/ ~IsValidPosition(p) THEN Refuse("validation_failed")
    ELSE IF ~UsableParent(parent) THEN Refuse("not_found")
    ELSE \/ \E code \in {"unavailable", "engine_error"} : Refuse(code)
         \/ Created(used + 1, name, Entity(ParentOf(parent), LocalTo(ParentOf(parent), p)))

HandleCreateEntity(name, p, parent) ==
    /\ used < MaxEntities
    /\ IF parent # Absent /\ ~ParseEntityId(parent[1]) THEN Refuse("validation_failed")
       ELSE CreateEntity(name, p, parent)

RefuseProtectedEntity(e) == IsProtectedEntityName(live[e].name)

\* The entity with the position and the rotation that were asked for.
Placed(e, r) ==
    [live[e] EXCEPT
        !.position = IF r.position = Absent THEN @ ELSE LocalTo(live[e].parent, r.position[1]),
        !.rotation = IF r.euler = Absent /\ r.quaternion = Absent THEN @
                     ELSE (OrElse(r.euler, OrElse(r.quaternion, 0))
                             - (WorldRotation(live)[e] - live[e].rotation)) % 2]

\* What an ok vouches for: what the request gives, and the rest as it was.
Asked(e, r) == [position |-> Placed(e, r).position, rotation |-> Placed(e, r).rotation,
                scale |-> OrElse(r.scale, EffectiveScale(live[e]))]

Scaled(x, scale) == IF scale = Absent THEN {[to |-> x, marked |-> FALSE, code |-> "ok"]}
                    ELSE ApplyScale(x, scale[1])

\* A batch that leaves e as o says, and the reply to it.
Applied(e, o, asked) ==
    /\ BatchEnds(With(live, e, o.to), template, dirty \cup Marked(e, o))
    /\ UNCHANGED used
    /\ CASE o.code = "ok"           -> Confirm(e, asked)
         [] o.code = "engine_error" -> Unconfirm({e}, o.code)
         [] OTHER                   -> answer' = o.code /\ UNCHANGED confirmed

SetTransform(e, r) ==
    IF ~EntityExists(e) THEN Refuse("not_found")
    ELSE IF RefuseProtectedEntity(e) THEN Refuse("validation_failed")
    ELSE \E o \in Scaled(Placed(e, r), r.scale) : Applied(e, o, Asked(e, r))

HandleSetTransform(e, r) ==
    IF ~ParseEntityId(e) \/ ~ParseTransform(r) THEN Refuse("validation_failed")
    ELSE SetTransform(e, r)

\* The bus event of the Python helpers: any entity, protected or not.
SetScale(e, s) ==
    IF ~EntityExists(e) THEN Refuse("not_found")
    ELSE \E o \in ApplyScale(live[e], s) :
            Applied(e, o, [position |-> live[e].position, rotation |-> live[e].rotation, scale |-> s])

\* Records the entity as it is now, in a batch nested in the caller's.
CommitEntityToPrefab(e) ==
    IF ~EntityExists(e) THEN Refuse("not_found")
    ELSE \/ \E code \in {"unavailable", "engine_error"} : Refuse(code)
         \/ /\ BatchEnds(live, With(template, e, live[e]), dirty)
            /\ UNCHANGED used
            /\ Unconfirm({e}, "none")

Subtree(e) == WithDescendants(live, {e})

DeleteEntity(e) ==
    IF ~EntityExists(e) THEN Refuse("not_found")
    ELSE IF e = Root \/ RefuseProtectedEntity(e) THEN Refuse("validation_failed")
    ELSE \/ Refuse("engine_error")
         \/ /\ BatchEnds(Without(live, Subtree(e)), Without(template, Subtree(e)), dirty \ Subtree(e))
            /\ UNCHANGED used
            /\ Unconfirm(Subtree(e), "ok")

HandleDeleteEntity(e) == IF ~ParseEntityId(e) THEN Refuse("validation_failed") ELSE DeleteEntity(e)

\* The reply is the report, or its error object.
HandleGetEntity(e) == Refuse(IF ~ParseEntityId(e) THEN "validation_failed"
                             ELSE IF CaptureEntity(live, e) = Absent THEN "not_found" ELSE "ok")

-----------------------------------------------------------------------------
(* Scripts and the user.                                                   *)

\* A script of the Python package opens its batch, and may let the queue be
\* drained before it closes it.
ScriptBegins ==
    /\ ~scriptBatch /\ Change
    /\ scriptBatch' = TRUE /\ before' = template /\ answer' = "none"
    /\ UNCHANGED <<live, template, dirty, undo, used, confirmed>>

\* EntityBuilder._build_in_editor: an entity created, named, placed, marked
\* dirty and committed before the next one is.
ScriptBuilds(p) ==
    /\ scriptBatch /\ used < MaxEntities
    /\ LET e == used + 1
           x == [Entity(Root, p) EXCEPT !.name = "plain"]
       IN  /\ used' = e
           /\ BatchEnds(With(template, e, x), With(template, e, x), dirty \cup {e})
    /\ answer' = "none"
    /\ UNCHANGED confirmed

ScriptEnds ==
    /\ scriptBatch /\ Change
    /\ scriptBatch' = FALSE /\ before' = Absent /\ dirty' = {}
    /\ template' = Captured(live, template, dirty)
    /\ undo' = Recorded(before, template')
    /\ answer' = "none"
    /\ UNCHANGED <<live, used, confirmed>>

\* The user changes an entity, in a batch that marks it.
UserEdits(e, x) ==
    /\ ~scriptBatch /\ EntityExists(e) /\ x # live[e]
    /\ BatchEnds(With(live, e, x), template, {e})
    /\ Unconfirm({e}, "none")
    /\ UNCHANGED used

UserMoves(e, p)   == UserEdits(e, [live[e] EXCEPT !.position = p])
UserRenames(e, n) == UserEdits(e, [live[e] EXCEPT !.name = n])

\* An Undo puts the template back and instantiates the level from it.
UserUndoes ==
    /\ ~scriptBatch /\ undo # << >> /\ Change
    /\ template' = undo[Len(undo)] /\ live' = template'
    /\ undo' = SubSeq(undo, 1, Len(undo) - 1)
    /\ confirmed' = << >> /\ answer' = "none"
    /\ UNCHANGED <<dirty, scriptBatch, before, used>>

\* The level is saved and opened again, by a user or after a restart.
SaveAndReload ==
    /\ ~scriptBatch /\ Change
    /\ live' = template /\ undo' = << >> /\ answer' = "none"
    /\ UNCHANGED <<template, dirty, scriptBatch, before, used, confirmed>>

-----------------------------------------------------------------------------
Level0 == [e \in {Root, 2} |-> IF e = Root THEN Entity(Nothing, 0)
                               ELSE [Entity(Root, 0) EXCEPT !.name = "protected"]]

Init == /\ live = Level0 /\ template = Level0
        /\ dirty = {} /\ scriptBatch = FALSE /\ before = Absent
        /\ undo = << >> /\ used = 2 /\ changes = 0
        /\ confirmed = << >> /\ answer = "none"

Id == {Nothing} \cup EntityId

Next == \/ \E name \in {"plain", "protected", "invalid"}, p \in Position, parent \in Optional(Id) :
              HandleCreateEntity(name, p, parent)
        \/ \E e \in Target, r \in Requested : HandleSetTransform(e, r)
        \/ \E e \in Target, s \in Scale : SetScale(e, s)
        \/ \E e \in Target : CommitEntityToPrefab(e)
        \/ \E e \in Id : HandleDeleteEntity(e) \/ HandleGetEntity(e)
        \/ ScriptBegins \/ ScriptEnds
        \/ \E p \in Position : ScriptBuilds(p)
        \/ \E e \in Target, p \in Position : UserMoves(e, p)
        \/ \E e \in Target : UserRenames(e, "protected")
        \/ UserUndoes \/ SaveAndReload

Spec == Init /\ [][Next]_vars

-----------------------------------------------------------------------------
EntityRecord == [name : Names, parent : Id, position : Int, rotation : Rotation,
                 uniform : Nat, nonUniform : {Absent} \cup [1..2 -> Nat]]

IsLevel(l) ==
    /\ Root \in DOMAIN l /\ DOMAIN l \subseteq 1..used
    /\ \A e \in DOMAIN l : /\ l[e] \in EntityRecord
                           /\ l[e].parent = Nothing <=> e = Root
                           /\ l[e].parent # Nothing => l[e].parent < e

\* The two levels hold the same entities under the same parents, one of them
\* the root, and only entities that exist are marked or vouched for.
TypeOK ==
    /\ IsLevel(live) /\ IsLevel(template)
    /\ DOMAIN live = DOMAIN template
    /\ \A e \in DOMAIN live : live[e].parent = template[e].parent
    /\ dirty \subseteq DOMAIN live /\ (dirty # {} => scriptBatch)
    /\ IF scriptBatch THEN IsLevel(before) ELSE before = Absent
    /\ Len(undo) <= MaxUndo /\ \A i \in DOMAIN undo : IsLevel(undo[i])
    /\ used \in 2..MaxEntities /\ changes \in 0..MaxChanges
    /\ DOMAIN confirmed \subseteq DOMAIN live

\* A transform the gem said was applied is the one a save would write, until
\* somebody changes that entity or undoes: however many requests were refused
\* or failed since, and whatever was created, deleted or reloaded.
ConfirmedIsSaved ==
    ~scriptBatch => \A e \in DOMAIN confirmed :
        /\ template[e].position = confirmed[e].position
        /\ template[e].rotation = confirmed[e].rotation
        /\ EffectiveScale(template[e]) = confirmed[e].scale

\* get_entity_tree leaves no entity of the level out.
EveryEntityIsInTheTree == CaptureEntityTree(live) = DOMAIN live

\* A request answered validation_failed or not_found writes nothing to the
\* template, marks no entity, hands out no id and is no step of the history.
\* The live entity is another matter: a position that was written before its
\* scale was refused stays there, and the end of a script's batch captures it
\* if the script had marked that entity itself.
RefusedIsNotSaved ==
    [][answer' \in {"validation_failed", "not_found"} => UNCHANGED <<template, dirty, undo, used>>]_vars

\* A request answered validation_failed leaves the level as it found it.
RefusalsLeaveTheEntityAlone ==
    [][answer' = "validation_failed" => UNCHANGED live]_vars

\* Requests, bus events, scripts and the user together keep the template and its
\* history as EditHistory says.  While a script's batch is open the template
\* counts as it was when the batch was opened: all that happens before it ends,
\* requests included, is one edit.
History == INSTANCE EditHistory WITH value   <- IF scriptBatch THEN before ELSE template,
                                     history <- undo,
                                     reply   <- answer
LevelEditsAreUndoable == History!Spec
=============================================================================
