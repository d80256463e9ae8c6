---------------------------- MODULE SceneReports ----------------------------
(***************************************************************************)
(* What Snapshot/SceneSnapshotProvider.cpp reads out of a level.  A level  *)
(* is a function from the entities that exist to records; the reports the  *)
(* requests get_entity and get_entity_tree answer are operators on it.     *)
(* A position is a number on one axis, a rotation a number of half turns   *)
(* and a scale a vector of two axes in quarters, Absent where the entity   *)
(* has no Non-uniform Scale component.  A parent's rotation and scale are  *)
(* not applied to the positions of its children.                           *)
(***************************************************************************)
EXTENDS Integers, FiniteSets, Sequences

Nothing  == 0           \* the invalid entity id
Root     == 1           \* the level's own entity
Absent   == << >>       \* no Non-uniform Scale component; an absent optional field
ScaleOne == 4           \* the scale factor 1

\* The Transform's uniform scale, times the component's value when there is one.
EffectiveScale(x) ==
    IF x.nonUniform = Absent THEN <<x.uniform, x.uniform>>
    ELSE [i \in 1..2 |-> (x.nonUniform[i] * x.uniform) \div ScaleOne]

\* Where the entities stand in the world: a Transform is local to its parent's.
WorldPosition(level) ==
    LET at[e \in DOMAIN level] == level[e].position +
            (IF level[e].parent \in DOMAIN level THEN at[level[e].parent] ELSE 0)
    IN  at
WorldRotation(level) ==
    LET at[e \in DOMAIN level] == (level[e].rotation +
            (IF level[e].parent \in DOMAIN level THEN at[level[e].parent] ELSE 0)) % 2
    IN  at

\* What BuildEntityInfo and WriteEntityJson tell of an entity.
Report(level, e) ==
    [name     |-> level[e].name,           parent |-> level[e].parent,
     position |-> WorldPosition(level)[e], rotation |-> WorldRotation(level)[e],
     scale    |-> EffectiveScale(level[e])]

CaptureSnapshot(level) == [e \in DOMAIN level |-> Report(level, e)]

\* A record, or nothing for an entity that does not exist.
CaptureEntity(level, e) == IF e \in DOMAIN level THEN <<Report(level, e)>> ELSE Absent

ChildrenOf(level, e) == {c \in DOMAIN level : level[c].parent = e}

\* Those entities and, under each entity that is among them, its children.
WithDescendants(level, top) ==
    {e \in DOMAIN level : \A shown \in SUBSET DOMAIN level :
        /\ top \subseteq shown
        /\ \A s \in shown : ChildrenOf(level, s) \subseteq shown
        => e \in shown}

\* The entities the tree shows: it is written from those without a parent.
CaptureEntityTree(level) == WithDescendants(level, ChildrenOf(level, Nothing))
=============================================================================
