------------------------- MODULE EntityMutationsProofs -------------------------
(***************************************************************************)
(* Proofs about EntityMutations, for all bounds, positions, scales and     *)
(* requests: the two levels stay in step, what was answered ok is what a   *)
(* save would write, and a mutation is one step of the history or none.    *)
(***************************************************************************)
EXTENDS EntityMutations, SceneReportsProofs, SequenceTheorems

Partial(D, R) == UNION {[S -> R] : S \in SUBSET D}

\* Each entity but the root is under one of the level that came before it.
Rooted(l) == /\ Root \in DOMAIN l
             /\ \A e \in DOMAIN l : /\ l[e].parent = Nothing <=> e = Root
                                    /\ l[e].parent # Nothing => l[e].parent \in DOMAIN l /\ l[e].parent < e

LevelUpTo(u) == {l \in Partial(1..u, EntityRecord) : Rooted(l)}

SameTree(l, t) == DOMAIN l = DOMAIN t /\ \A e \in DOMAIN l : l[e].parent = t[e].parent

\* The levels, the open batch and the history.
LevelsInStep ==
    /\ live \in LevelUpTo(used) /\ template \in LevelUpTo(used) /\ SameTree(live, template)
    /\ dirty \subseteq DOMAIN live /\ (dirty # {} => scriptBatch) /\ scriptBatch \in BOOLEAN
    /\ IF scriptBatch THEN before \in LevelUpTo(used) ELSE before = Absent
    /\ undo \in Seq(LevelUpTo(used)) /\ Len(undo) <= MaxUndo
    /\ used \in 2..MaxEntities /\ changes \in 0..MaxChanges

Vouched(x, c) == x.position = c.position /\ x.rotation = c.rotation /\ EffectiveScale(x) = c.scale

\* What was answered ok is in the template, also while a script's batch is
\* open, and the end of that batch will not touch it: it is not marked.
ConfirmedInTemplate ==
    /\ DOMAIN confirmed \subseteq DOMAIN live \ dirty
    /\ \A e \in DOMAIN confirmed : Vouched(template[e], confirmed[e])

IInv == LevelsInStep /\ ConfirmedInTemplate

-----------------------------------------------------------------------------
(* Levels.                                                                 *)

LEMMA PartialIs ==
    ASSUME NEW D, NEW R, NEW f
    PROVE  f \in Partial(D, R) <=> DOMAIN f \subseteq D /\ f \in [DOMAIN f -> R]
BY DEF Partial

LEMMA LevelIs ==
    ASSUME NEW u, NEW l
    PROVE  l \in LevelUpTo(u) <=> /\ DOMAIN l \subseteq 1..u /\ l \in [DOMAIN l -> EntityRecord]
                                  /\ Rooted(l)
BY PartialIs DEF LevelUpTo

LEMMA RecordFacts ==
    ASSUME NEW x \in EntityRecord
    PROVE  /\ x.name \in Names /\ x.parent \in Id /\ x.position \in Int /\ x.rotation \in Rotation
           /\ x.uniform \in Nat /\ x.nonUniform \in {Absent} \cup [1..2 -> Nat]
           /\ \A v \in Int : [x EXCEPT !.position = v] \in EntityRecord
           /\ \A v \in Rotation : [x EXCEPT !.rotation = v] \in EntityRecord
           /\ \A v \in Names : [x EXCEPT !.name = v] \in EntityRecord
           /\ \A v \in Nat, w \in {Absent} \cup [1..2 -> Nat] :
                 [x EXCEPT !.uniform = v, !.nonUniform = w] \in EntityRecord
BY DEF EntityRecord

LEMMA LevelFacts ==
    ASSUME NEW u \in Nat, NEW l \in LevelUpTo(u)
    PROVE  /\ IsForest(l) /\ DOMAIN l \subseteq 1..u /\ Root \in DOMAIN l
           /\ l = [e \in DOMAIN l |-> l[e]]
           /\ \A e \in DOMAIN l : l[e] \in EntityRecord /\ l[e].position \in Int /\ l[e].rotation \in Int
           /\ WorldPosition(l) \in [DOMAIN l -> Int] /\ WorldRotation(l) \in [DOMAIN l -> Int]
<1>1. DOMAIN l \subseteq 1..u /\ l \in [DOMAIN l -> EntityRecord] /\ Rooted(l)
  BY LevelIs
<1>2. \A e \in DOMAIN l : l[e] \in EntityRecord /\ l[e].position \in Int /\ l[e].rotation \in Int
  <2>1. Rotation \subseteq Int
    BY DEF Rotation
  <2>2. QED BY <1>1, <2>1, RecordFacts
<1>3. IsForest(l) /\ Root \in DOMAIN l
  BY <1>1 DEF IsForest, Rooted
<1>4. WorldPosition(l) \in [DOMAIN l -> Int] /\ WorldRotation(l) \in [DOMAIN l -> Int]
  BY <1>1, <1>2, <1>3, WorldPositionIsInt, WorldRotationIsInt
<1>5. QED BY <1>1, <1>2, <1>3, <1>4

LEMMA EntityIs ==
    ASSUME NEW parent \in Id, NEW position \in Int
    PROVE  /\ Entity(parent, position) \in EntityRecord
           /\ Entity(parent, position).parent = parent /\ Entity(parent, position).position = position
           /\ Entity(parent, position).rotation = 0
           /\ EffectiveScale(Entity(parent, position)) = <<ScaleOne, ScaleOne>>
BY DEF Entity, EntityRecord, Names, Rotation, ScaleOne, EffectiveScale

LEMMA WithIs ==
    ASSUME NEW l, NEW e, NEW x
    PROVE  /\ DOMAIN With(l, e, x) = DOMAIN l \cup {e} /\ With(l, e, x)[e] = x
           /\ \A a \in DOMAIN l \ {e} : With(l, e, x)[a] = l[a]
BY DEF With

LEMMA WithoutIs ==
    ASSUME NEW l, NEW S
    PROVE  /\ DOMAIN Without(l, S) = DOMAIN l \ S
           /\ \A a \in DOMAIN l \ S : Without(l, S)[a] = l[a]
BY DEF Without

LEMMA ChangedLevel ==
    ASSUME NEW u, NEW l \in LevelUpTo(u), NEW e \in DOMAIN l, NEW x \in EntityRecord, x.parent = l[e].parent
    PROVE  With(l, e, x) \in LevelUpTo(u) /\ SameTree(With(l, e, x), l)
<1> DEFINE m == With(l, e, x)
<1>1. DOMAIN l \subseteq 1..u /\ l \in [DOMAIN l -> EntityRecord] /\ Rooted(l)
  BY LevelIs
<1>2. DOMAIN m = DOMAIN l /\ m \in [DOMAIN m -> EntityRecord]
  BY <1>1 DEF With
<1>3. ASSUME NEW a \in DOMAIN l PROVE m[a].parent = l[a].parent
  <2>1. m[e] = x /\ (a # e => m[a] = l[a])
    BY DEF With
  <2> HIDE DEF m
  <2>2. QED BY <2>1
<1> HIDE DEF m
<1>4. Rooted(m)
  BY <1>1, <1>2, <1>3 DEF Rooted
<1>5. m \in LevelUpTo(u) /\ SameTree(m, l)
  BY <1>1, <1>2, <1>3, <1>4, LevelIs DEF SameTree
<1>6. QED BY <1>5 DEF m

LEMMA GrownLevel ==
    ASSUME NEW u \in Nat, u # 0, NEW l \in LevelUpTo(u), NEW x \in EntityRecord, x.parent \in DOMAIN l
    PROVE  With(l, u + 1, x) \in LevelUpTo(u + 1)
<1> DEFINE e == u + 1
           m == With(l, e, x)
<1>1. DOMAIN l \subseteq 1..u /\ l \in [DOMAIN l -> EntityRecord] /\ Rooted(l)
  BY LevelIs
<1>2. DOMAIN m = DOMAIN l \cup {e} /\ m \in [DOMAIN m -> EntityRecord]
  BY <1>1 DEF With
<1>3. e \notin DOMAIN l /\ e # Root /\ DOMAIN m \subseteq 1..e /\ x.parent # Nothing /\ x.parent < e
  <2> DEFINE p == x.parent
  <2>1. p \in 1..u
    BY <1>1
  <2> HIDE DEF m, p
  <2>2. p # Nothing /\ p < e /\ e # Root
    BY <2>1 DEF Root, Nothing
  <2>3. e \notin DOMAIN l /\ DOMAIN m \subseteq 1..e
    BY <1>1, <1>2
  <2>4. QED BY <2>2, <2>3 DEF p
<1>4. m[e] = x /\ \A a \in DOMAIN l : m[a] = l[a]
  <2>1. m[e] = x
    BY DEF With
  <2>2. \A a \in DOMAIN l \ {e} : m[a] = l[a]
    BY DEF With
  <2>3. QED BY <1>3, <2>1, <2>2
<1> HIDE DEF m, e
<1>5. Rooted(m)
  BY <1>1, <1>2, <1>3, <1>4 DEF Rooted
<1>6. m \in LevelUpTo(e)
  BY <1>2, <1>3, <1>5, LevelIs
<1>7. QED BY <1>6 DEF m, e

LEMMA LevelsGrow ==
    ASSUME NEW u \in Nat
    PROVE  LevelUpTo(u) \subseteq LevelUpTo(u + 1)
BY LevelIs

\* The subtree of an entity but the root leaves a level.
LEMMA CutLevel ==
    ASSUME NEW u, NEW l \in LevelUpTo(u), NEW S, Root \notin S,
           \A a \in DOMAIN l : l[a].parent \in S => a \in S
    PROVE  Without(l, S) \in LevelUpTo(u)
<1> DEFINE m == Without(l, S)
<1>1. DOMAIN l \subseteq 1..u /\ l \in [DOMAIN l -> EntityRecord] /\ Rooted(l)
  BY LevelIs
<1>2. DOMAIN m = DOMAIN l \ S /\ m \in [DOMAIN m -> EntityRecord] /\ \A a \in DOMAIN m : m[a] = l[a]
  BY <1>1 DEF Without
<1> HIDE DEF m
<1>3. Rooted(m)
  BY <1>1, <1>2 DEF Rooted
<1>4. m \in LevelUpTo(u)
  BY <1>1, <1>2, <1>3, LevelIs
<1>5. QED BY <1>4 DEF m

LEMMA SubtreeIs ==
    ASSUME NEW l, Rooted(l), Nothing \notin DOMAIN l, NEW e \in DOMAIN l \ {Root}
    PROVE  /\ e \in WithDescendants(l, {e}) /\ Root \notin WithDescendants(l, {e})
           /\ \A c \in DOMAIN l : l[c].parent \in WithDescendants(l, {e}) => c \in WithDescendants(l, {e})
<1>1. e \in WithDescendants(l, {e})
  BY DescendantsAreClosed
<1>2. WithDescendants(l, {e}) \subseteq DOMAIN l \ {Root}
  <2> DEFINE shown == DOMAIN l \ {Root}
  <2>1. shown \in SUBSET DOMAIN l /\ {e} \subseteq shown
    OBVIOUS
  <2>2. \A c \in DOMAIN l : l[c].parent \in shown => c \in shown
    BY DEF Rooted
  <2> HIDE DEF shown
  <2>3. QED BY <2>1, <2>2, DescendantsAreIn DEF shown
<1>3. QED BY <1>1, <1>2, DescendantsAreClosed

LEMMA CapturedLevel ==
    ASSUME NEW u, NEW l \in LevelUpTo(u), NEW t \in LevelUpTo(u), SameTree(l, t), NEW d
    PROVE  /\ Captured(l, t, d) \in LevelUpTo(u) /\ SameTree(l, Captured(l, t, d))
           /\ DOMAIN Captured(l, t, d) = DOMAIN t
           /\ \A a \in DOMAIN t : Captured(l, t, d)[a] = IF a \in d THEN l[a] ELSE t[a]
<1> DEFINE m == Captured(l, t, d)
<1>1. /\ DOMAIN l \subseteq 1..u /\ l \in [DOMAIN l -> EntityRecord] /\ Rooted(l)
      /\ t \in [DOMAIN t -> EntityRecord] /\ DOMAIN t = DOMAIN l
      /\ \A a \in DOMAIN l : l[a].parent = t[a].parent
  BY LevelIs DEF SameTree
<1>2. DOMAIN m = DOMAIN l /\ m \in [DOMAIN m -> EntityRecord]
      /\ \A a \in DOMAIN t : m[a] = IF a \in d THEN l[a] ELSE t[a]
  BY <1>1 DEF Captured
<1> HIDE DEF m
<1>3. \A a \in DOMAIN l : m[a].parent = l[a].parent
  BY <1>1, <1>2
<1>4. Rooted(m)
  BY <1>1, <1>2, <1>3 DEF Rooted
<1>5. m \in LevelUpTo(u) /\ SameTree(l, m)
  BY <1>1, <1>2, <1>3, <1>4, LevelIs DEF SameTree
<1>6. QED BY <1>1, <1>2, <1>5 DEF m

\* Nothing marked, nothing captured.
LEMMA NothingCaptured ==
    ASSUME NEW u \in Nat, NEW l, NEW t \in LevelUpTo(u)
    PROVE  Captured(l, t, {}) = t
<1>1. t = [e \in DOMAIN t |-> t[e]]
  BY LevelFacts
<1>2. QED BY <1>1 DEF Captured

-----------------------------------------------------------------------------
(* The history.                                                            *)

LEMMA PushIs ==
    ASSUME NEW S, NEW h \in Seq(S), Len(h) <= MaxUndo, NEW t \in S
    PROVE  Push(h, t) \in Seq(S) /\ Len(Push(h, t)) <= MaxUndo
<1> DEFINE n == Len(h)
<1>1. n \in Nat /\ MaxUndo \in Nat \ {0}
  BY EntityBounds
<1>2. CASE n < MaxUndo
  <2>1. Push(h, t) = Append(h, t)
    BY <1>2 DEF Push
  <2>2. Append(h, t) \in Seq(S) /\ Len(Append(h, t)) = n + 1
    OBVIOUS
  <2> HIDE DEF n
  <2>3. QED BY <1>1, <1>2, <2>1, <2>2
<1>3. CASE ~(n < MaxUndo)
  <2>1. Push(h, t) = Append(Tail(h), t)
    BY <1>3 DEF Push
  <2>2. n # 0
    <3> HIDE DEF n
    <3>1. QED BY <1>1, <1>3
  <2>3. Tail(h) \in Seq(S) /\ Len(Tail(h)) = n - 1
    BY <2>2
  <2>4. Append(Tail(h), t) \in Seq(S) /\ Len(Append(Tail(h), t)) = n - 1 + 1
    BY <2>3
  <2>5. Len(h) <= MaxUndo
    OBVIOUS
  <2>6. n <= MaxUndo
    BY <2>5
  <2> HIDE DEF n
  <2>7. n - 1 + 1 <= MaxUndo
    BY <1>1, <2>6
  <2>8. QED BY <2>1, <2>4, <2>7
<1>4. QED BY <1>2, <1>3

LEMMA RecordedIs ==
    ASSUME NEW S, undo \in Seq(S), Len(undo) <= MaxUndo, NEW from \in S, NEW t
    PROVE  Recorded(from, t) \in Seq(S) /\ Len(Recorded(from, t)) <= MaxUndo
BY PushIs DEF Recorded

\* Histories of levels stay such when more ids have been handed out.
LEMMA HistoryGrows ==
    ASSUME NEW S, NEW T, S \subseteq T, NEW h \in Seq(S)
    PROVE  h \in Seq(T)
OBVIOUS

LEMMA PopIs ==
    ASSUME NEW S, NEW h \in Seq(S), Len(h) <= MaxUndo, h # << >>
    PROVE  /\ h[Len(h)] \in S
           /\ SubSeq(h, 1, Len(h) - 1) \in Seq(S) /\ Len(SubSeq(h, 1, Len(h) - 1)) <= MaxUndo
<1> DEFINE n == Len(h)
           q == SubSeq(h, 1, n - 1)
<1>1. n \in Nat \ {0} /\ MaxUndo \in Nat /\ \A i \in 1..n : h[i] \in S
  BY EntityBounds
<1>2. n <= MaxUndo
  OBVIOUS
<1>3. h[n] \in S
  BY <1>1
<1> HIDE DEF n, q
<1>4. /\ n - 1 \in Int /\ \A i \in 1..(n - 1) : i \in 1..n
      /\ (IF 1 <= n - 1 THEN (n - 1) - 1 + 1 ELSE 0) <= MaxUndo
  BY <1>1, <1>2
<1>5. q \in Seq(S) /\ Len(q) = IF 1 <= n - 1 THEN (n - 1) - 1 + 1 ELSE 0
  BY <1>1, <1>4, SubSeqProperties DEF q
<1>6. Len(q) <= MaxUndo
  BY <1>4, <1>5, Zenon
<1>7. QED BY <1>3, <1>5, <1>6 DEF n, q

-----------------------------------------------------------------------------
(* A batch that leaves levels in step leaves all in step.  The entities it *)
(* marked take their live form in the template, at once or when the        *)
(* script's batch ends.                                                    *)

LEMMA BatchKeeps ==
    ASSUME LevelsInStep, NEW l, NEW t, NEW d, BatchEnds(l, t, d),
           used' \in {used, used + 1}, used' <= MaxEntities,
           l \in LevelUpTo(used'), t \in LevelUpTo(used'), SameTree(l, t), d \subseteq DOMAIN l
    PROVE  /\ LevelsInStep'
           /\ live' = l /\ DOMAIN template' = DOMAIN l /\ scriptBatch' = scriptBatch
           /\ scriptBatch => template' = t /\ dirty' = d
           /\ ~scriptBatch => template' = Captured(l, t, d) /\ dirty' = {}
           /\ \A a \in DOMAIN l : template'[a] = IF a \in d /\ ~scriptBatch THEN l[a] ELSE t[a]
<1>1. /\ live' = l /\ UNCHANGED <<scriptBatch, before>> /\ changes < MaxChanges /\ changes' = changes + 1
      /\ scriptBatch => template' = t /\ dirty' = d /\ undo' = undo
      /\ ~scriptBatch => template' = Captured(l, t, d) /\ dirty' = {}
                         /\ undo' = Recorded(template, Captured(l, t, d))
  BY DEF BatchEnds, Change
<1>2. used \in 2..MaxEntities /\ used \in Nat /\ used' \in 2..MaxEntities /\ changes \in 0..MaxChanges
  BY EntityBounds DEF LevelsInStep
<1>3. LevelUpTo(used) \subseteq LevelUpTo(used')
  BY <1>2, LevelsGrow
<1>4. /\ Captured(l, t, d) \in LevelUpTo(used') /\ SameTree(l, Captured(l, t, d))
      /\ DOMAIN Captured(l, t, d) = DOMAIN t
      /\ \A a \in DOMAIN t : Captured(l, t, d)[a] = IF a \in d THEN l[a] ELSE t[a]
  BY CapturedLevel
<1>5. template' \in LevelUpTo(used') /\ SameTree(l, template')
  BY <1>1, <1>4 DEF LevelsInStep
<1>6. dirty' \subseteq DOMAIN l /\ (dirty' # {} => scriptBatch') /\ scriptBatch' \in BOOLEAN
  BY <1>1 DEF LevelsInStep
<1>7. IF scriptBatch' THEN before' \in LevelUpTo(used') ELSE before' = Absent
  BY <1>1, <1>3 DEF LevelsInStep
<1>8. undo \in Seq(LevelUpTo(used)) /\ Len(undo) <= MaxUndo /\ template \in LevelUpTo(used)
  BY DEF LevelsInStep
<1>9. undo' \in Seq(LevelUpTo(used')) /\ Len(undo') <= MaxUndo
  <2>1. undo' \in Seq(LevelUpTo(used)) /\ Len(undo') <= MaxUndo
    BY <1>1, <1>8, RecordedIs DEF LevelsInStep
  <2>2. QED BY <1>3, <2>1, HistoryGrows
<1>10. changes' \in 0..MaxChanges
  BY <1>1, <1>2, EntityBounds
<1>11. LevelsInStep'
  BY <1>1, <1>2, <1>5, <1>6, <1>7, <1>9, <1>10 DEF LevelsInStep
<1>12. DOMAIN template' = DOMAIN l /\ DOMAIN t = DOMAIN l
  BY <1>5 DEF SameTree
<1>13. \A a \in DOMAIN l : template'[a] = IF a \in d /\ ~scriptBatch THEN l[a] ELSE t[a]
  BY <1>1, <1>4, <1>12 DEF LevelsInStep
<1>14. QED BY <1>1, <1>11, <1>12, <1>13, Zenon

-----------------------------------------------------------------------------
(* What was confirmed stays so when the template keeps it.                 *)

LEMMA ConfirmedStays ==
    ASSUME ConfirmedInTemplate, DOMAIN confirmed' \subseteq DOMAIN confirmed,
           \A a \in DOMAIN confirmed' : /\ confirmed'[a] = confirmed[a] /\ template'[a] = template[a]
                                        /\ a \in DOMAIN live' \ dirty'
    PROVE  ConfirmedInTemplate'
BY DEF ConfirmedInTemplate, Vouched

LEMMA OneMoreConfirmed ==
    ASSUME ConfirmedInTemplate, NEW e, NEW c, confirmed' = With(confirmed, e, c),
           e \in DOMAIN live' \ dirty', Vouched(template'[e], c),
           \A a \in DOMAIN confirmed \ {e} : template'[a] = template[a] /\ a \in DOMAIN live' \ dirty'
    PROVE  ConfirmedInTemplate'
<1>1. /\ DOMAIN confirmed' = DOMAIN confirmed \cup {e} /\ confirmed'[e] = c
      /\ \A a \in DOMAIN confirmed \ {e} : confirmed'[a] = confirmed[a]
  BY DEF With
<1>2. \A a \in DOMAIN confirmed : Vouched(template[a], confirmed[a])
  BY DEF ConfirmedInTemplate
<1>3. DOMAIN confirmed' \subseteq DOMAIN live' \ dirty'
  BY <1>1
<1>4. ASSUME NEW a \in DOMAIN confirmed' PROVE Vouched(template'[a], confirmed'[a])
  <2>1. CASE a = e
    BY <1>1, <2>1
  <2>2. CASE a # e
    BY <1>1, <1>2, <2>2
  <2>3. QED BY <2>1, <2>2
<1>5. QED BY <1>3, <1>4 DEF ConfirmedInTemplate

LEMMA RefuseKeeps ==
    ASSUME IInv, NEW code, Refuse(code)
    PROVE  IInv'
BY DEF Refuse, level, IInv, LevelsInStep, ConfirmedInTemplate

LEMMA LevelsAre ==
    ASSUME LevelsInStep
    PROVE  /\ used \in Nat /\ used # 0 /\ DOMAIN live = DOMAIN template
           /\ IsForest(live) /\ Rooted(live) /\ Root \in DOMAIN live /\ Nothing \notin DOMAIN live
           /\ DOMAIN live \subseteq 1..used /\ used + 1 \notin DOMAIN live
           /\ \A e \in DOMAIN live : live[e] \in EntityRecord /\ template[e] \in EntityRecord
                                     /\ live[e].parent = template[e].parent
<1>1. used \in Nat /\ used # 0 /\ live \in LevelUpTo(used) /\ template \in LevelUpTo(used) /\ SameTree(live, template)
  BY EntityBounds DEF LevelsInStep
<1>2. DOMAIN live \subseteq 1..used /\ IsForest(live) /\ Rooted(live) /\ Root \in DOMAIN live
  BY <1>1, LevelIs, LevelFacts
<1>3. Nothing \notin 1..used /\ used + 1 \notin 1..used
  BY <1>1 DEF Nothing
<1>4. DOMAIN live = DOMAIN template /\ \A e \in DOMAIN live : live[e].parent = template[e].parent
  BY <1>1 DEF SameTree
<1>5. \A e \in DOMAIN live : live[e] \in EntityRecord /\ template[e] \in EntityRecord
  BY <1>1, <1>4, LevelFacts
<1>6. QED BY <1>1, <1>2, <1>3, <1>4, <1>5

-----------------------------------------------------------------------------
(* Creations.                                                              *)

LEMMA CreatedKeeps ==
    ASSUME IInv, used < MaxEntities, NEW name \in Names, NEW parent \in DOMAIN live, NEW position \in Int,
           Created(used + 1, name, Entity(parent, position))
    PROVE  IInv'
<1> DEFINE e == used + 1
           x == Entity(parent, position)
           y == [x EXCEPT !.name = name]
           t == With(template, e, x)
           l == With(t, e, y)
           c == [position |-> x.position, rotation |-> 0, scale |-> <<ScaleOne, ScaleOne>>]
<1>1. LevelsInStep /\ ConfirmedInTemplate
  BY DEF IInv
<1>2. used' = e /\ BatchEnds(l, t, dirty) /\ confirmed' = IF scriptBatch THEN Without(confirmed, {e}) ELSE With(confirmed, e, c)
  BY DEF Created, Confirm
<1>3. /\ x \in EntityRecord /\ x.parent = parent /\ x.rotation = 0
      /\ EffectiveScale(x) = <<ScaleOne, ScaleOne>>
  <2>1. parent \in Id
    BY <1>1, LevelsAre, EntityBounds DEF Id, EntityId, LevelsInStep
  <2>2. QED BY <2>1, EntityIs
<1>4. Vouched(x, c)
  <2>1. c.position = x.position /\ c.rotation = 0 /\ c.scale = <<ScaleOne, ScaleOne>>
    OBVIOUS
  <2> HIDE DEF x, c
  <2>2. QED BY <1>3, <2>1 DEF Vouched
<1>5. y \in EntityRecord /\ y.parent = x.parent
  <2> HIDE DEF x
  <2>1. y \in EntityRecord
    BY <1>3, RecordFacts
  <2>2. y.parent = x.parent
    BY <1>3 DEF EntityRecord
  <2>3. QED BY <2>1, <2>2
<1>6. e \notin DOMAIN live /\ e \notin DOMAIN template /\ dirty \subseteq DOMAIN live /\ e \notin dirty /\ (~scriptBatch => dirty = {})
  BY <1>1, LevelsAre DEF LevelsInStep
<1> HIDE DEF x, y, c
<1>7. t \in LevelUpTo(e)
  BY <1>1, <1>3, LevelsAre, GrownLevel DEF LevelsInStep
<1>8. DOMAIN t = DOMAIN live \cup {e} /\ t[e] = x /\ \A a \in DOMAIN live : t[a] = template[a]
  <2>1. DOMAIN t = DOMAIN template \cup {e} /\ t[e] = x /\ \A a \in DOMAIN template \ {e} : t[a] = template[a]
    <3> HIDE DEF e
    <3>1. QED BY DEF With
  <2> HIDE DEF t, e
  <2>2. QED BY <1>1, <1>6, <2>1, LevelsAre
<1> HIDE DEF t, e
<1>9. l \in LevelUpTo(e) /\ SameTree(l, t)
  BY <1>3, <1>5, <1>7, <1>8, ChangedLevel
<1>10. DOMAIN l = DOMAIN live \cup {e}
  BY <1>8, <1>9 DEF SameTree
<1> HIDE DEF l
<1>11. used' \in {used, used + 1} /\ used' <= MaxEntities
  BY <1>1, <1>2, LevelsAre, EntityBounds DEF e
<1>12. /\ LevelsInStep' /\ live' = l /\ (scriptBatch => dirty' = dirty) /\ (~scriptBatch => dirty' = {})
       /\ \A a \in DOMAIN l : template'[a] = IF a \in dirty /\ ~scriptBatch THEN l[a] ELSE t[a]
  <2>1. l \in LevelUpTo(used') /\ t \in LevelUpTo(used') /\ dirty \subseteq DOMAIN l
    BY <1>2, <1>6, <1>7, <1>9, <1>10
  <2>2. QED BY <1>1, <1>2, <1>9, <1>11, <2>1, BatchKeeps
<1>13. dirty' = dirty
  BY <1>6, <1>12
<1>14. /\ e \in DOMAIN live' \ dirty' /\ template'[e] = x
       /\ \A a \in DOMAIN confirmed : template'[a] = template[a] /\ a \in DOMAIN live' \ dirty'
  BY <1>1, <1>6, <1>8, <1>10, <1>12, <1>13 DEF ConfirmedInTemplate
<1>15. CASE scriptBatch
  <2>1. DOMAIN confirmed' \subseteq DOMAIN confirmed /\ \A a \in DOMAIN confirmed' : confirmed'[a] = confirmed[a]
    BY <1>2, <1>15 DEF Without
  <2>2. QED BY <1>1, <1>12, <1>14, <2>1, ConfirmedStays DEF IInv
<1>16. CASE ~scriptBatch
  <2>1. confirmed' = With(confirmed, e, c)
    BY <1>2, <1>16
  <2>2. QED BY <1>1, <1>4, <1>12, <1>14, <2>1, OneMoreConfirmed DEF IInv
<1>17. QED BY <1>15, <1>16

LEMMA WorldIsInt ==
    ASSUME LevelsInStep
    PROVE  /\ WorldPosition(live) \in [DOMAIN live -> Int] /\ WorldRotation(live) \in [DOMAIN live -> Int]
           /\ \A parent, p : p \in Int => LocalTo(parent, p) \in Int
<1>1. WorldPosition(live) \in [DOMAIN live -> Int] /\ WorldRotation(live) \in [DOMAIN live -> Int]
  <2>1. live \in LevelUpTo(used) /\ used \in Nat
    BY EntityBounds DEF LevelsInStep
  <2>2. QED BY <2>1, LevelFacts
<1>2. ASSUME NEW parent, NEW p \in Int PROVE LocalTo(parent, p) \in Int
  BY <1>1 DEF LocalTo, EntityExists
<1>3. QED BY <1>1, <1>2

LEMMA CreateEntityKeeps ==
    ASSUME IInv, NEW name \in Names, NEW p \in Int, NEW parent \in Optional(Id), HandleCreateEntity(name, p, parent)
    PROVE  IInv'
<1>1. LevelsInStep /\ used < MaxEntities
  BY DEF IInv, HandleCreateEntity
<1>2. CASE \E code : Refuse(code)
  BY <1>2, RefuseKeeps
<1>3. CASE UsableParent(parent) /\ Created(used + 1, name, Entity(ParentOf(parent), LocalTo(ParentOf(parent), p)))
  <2>1. ParentOf(parent) \in DOMAIN live
    BY <1>1, <1>3, LevelsAre DEF UsableParent, EntityExists, ParentOf, OrElse
  <2>2. LocalTo(ParentOf(parent), p) \in Int
    BY <1>1, WorldIsInt
  <2>3. QED BY <1>1, <1>3, <2>1, <2>2, CreatedKeeps
<1>4. QED BY <1>2, <1>3, Zenon DEF HandleCreateEntity, CreateEntity

-----------------------------------------------------------------------------
(* Transforms.                                                             *)

\* What the engine may leave of entity x: the record o.to, whether the entity
\* is marked, and the code.
Outcome(x, o, c) ==
    /\ o.to \in EntityRecord /\ o.to.parent = x.parent
    /\ o.code \in {"ok", "engine_error", "validation_failed"}
    /\ o.code = "ok" => Vouched(o.to, c)
    /\ o.code = "validation_failed" => o.marked = FALSE

LEMMA AppliedKeeps ==
    ASSUME IInv, NEW e \in DOMAIN live, NEW o, NEW c, Outcome(live[e], o, c), Applied(e, o, c)
    PROVE  IInv'
<1> DEFINE d == dirty \cup Marked(e, o)
           l == With(live, e, o.to)
<1>1. LevelsInStep /\ ConfirmedInTemplate
  BY DEF IInv
<1>2. /\ o.to \in EntityRecord /\ o.to.parent = live[e].parent
      /\ o.code \in {"ok", "engine_error", "validation_failed"}
      /\ o.code = "ok" => Vouched(o.to, c)
      /\ o.code = "validation_failed" => o.marked = FALSE
  BY DEF Outcome
<1>3. BatchEnds(l, template, d) /\ used' = used
  BY DEF Applied
<1>4. /\ Marked(e, o) \subseteq {e} /\ (o.code = "ok" => Marked(e, o) = {e})
      /\ (o.code = "validation_failed" => Marked(e, o) = {})
  BY <1>2 DEF Marked
<1>5. live \in LevelUpTo(used) /\ template \in LevelUpTo(used) /\ SameTree(live, template)
  BY <1>1 DEF LevelsInStep
<1>6. l \in LevelUpTo(used) /\ SameTree(l, live)
  BY <1>2, <1>5, ChangedLevel
<1>7. DOMAIN l = DOMAIN live /\ SameTree(l, template)
  BY <1>5, <1>6 DEF SameTree
<1>8. l[e] = o.to
  BY DEF With
<1> HIDE DEF l
<1>9. dirty \subseteq DOMAIN live /\ (~scriptBatch => dirty = {}) /\ DOMAIN confirmed \subseteq DOMAIN live \ dirty
  BY <1>1 DEF LevelsInStep, ConfirmedInTemplate
<1>10. d \subseteq DOMAIN l
  BY <1>4, <1>7, <1>9
<1> HIDE DEF d
<1>11. used' \in {used, used + 1} /\ used' <= MaxEntities
  BY <1>1, <1>3, EntityBounds DEF LevelsInStep
<1>12. /\ LevelsInStep' /\ live' = l /\ (scriptBatch => dirty' = d) /\ (~scriptBatch => dirty' = {})
       /\ \A a \in DOMAIN l : template'[a] = IF a \in d /\ ~scriptBatch THEN l[a] ELSE template[a]
  BY <1>1, <1>3, <1>5, <1>6, <1>7, <1>10, <1>11, BatchKeeps
<1>13. dirty' \subseteq d
  BY <1>1, <1>12 DEF LevelsInStep
<1>14. \A a \in DOMAIN confirmed : a \notin d => template'[a] = template[a] /\ a \in DOMAIN live' \ dirty'
  BY <1>7, <1>9, <1>12, <1>13
<1>15. CASE o.code = "validation_failed"
  <2>1. confirmed' = confirmed
    BY <1>15 DEF Applied
  <2>2. d = dirty
    BY <1>4, <1>15 DEF d
  <2>3. QED BY <1>1, <1>9, <1>12, <1>14, <2>1, <2>2, ConfirmedStays DEF IInv
<1>16. CASE o.code = "engine_error" \/ (o.code = "ok" /\ scriptBatch)
  <2>1. confirmed' = Without(confirmed, {e})
    BY <1>16 DEF Applied, Unconfirm, Confirm
  <2>2. DOMAIN confirmed' = DOMAIN confirmed \ {e} /\ \A a \in DOMAIN confirmed' : confirmed'[a] = confirmed[a]
    BY <2>1 DEF Without
  <2>3. \A a \in DOMAIN confirmed' : a \notin d
    BY <1>4, <1>9, <2>2 DEF d
  <2>4. QED BY <1>1, <1>12, <1>14, <2>2, <2>3, ConfirmedStays DEF IInv
<1>17. CASE o.code = "ok" /\ ~scriptBatch
  <2>1. confirmed' = With(confirmed, e, c)
    BY <1>17 DEF Applied, Confirm
  <2>2. e \in d /\ \A a \in DOMAIN confirmed \ {e} : a \notin d
    BY <1>4, <1>9, <1>17 DEF d
  <2>3. e \in DOMAIN live' \ dirty' /\ template'[e] = o.to
    BY <1>7, <1>8, <1>12, <1>17, <2>2
  <2>4. Vouched(template'[e], c)
    BY <1>2, <1>17, <2>3
  <2>5. QED BY <1>1, <1>12, <1>14, <2>1, <2>2, <2>3, <2>4, OneMoreConfirmed DEF IInv
<1>18. QED BY <1>2, <1>15, <1>16, <1>17 DEF LevelsInStep, IInv

LEMMA ReadBackIs ==
    ASSUME NEW x, NEW s, NEW marked
    PROVE  /\ ReadBack(x, s, marked).to = x /\ ReadBack(x, s, marked).marked = marked
           /\ ReadBack(x, s, marked).code \in {"ok", "engine_error"}
           /\ ReadBack(x, s, marked).code = "ok" => EffectiveScale(x) = s
BY DEF ReadBack

LEMMA Rescaled ==
    ASSUME NEW x \in EntityRecord, NEW u \in Nat, NEW n \in {Absent} \cup [1..2 -> Nat]
    PROVE  LET y == [x EXCEPT !.uniform = u, !.nonUniform = n]
           IN  /\ y \in EntityRecord
               /\ y.parent = x.parent /\ y.position = x.position /\ y.rotation = x.rotation
BY DEF EntityRecord

\* Whatever lands in the engine and whatever it refuses, an entity keeps its
\* place, and ok means that the scale was read back.
LEMMA ApplyScaleIs ==
    ASSUME NEW x \in EntityRecord, NEW s \in [1..2 -> Nat], NEW o \in ApplyScale(x, s)
    PROVE  /\ o.to \in EntityRecord
           /\ o.to.parent = x.parent /\ o.to.position = x.position /\ o.to.rotation = x.rotation
           /\ o.code \in {"ok", "engine_error", "validation_failed"}
           /\ o.code = "ok" => EffectiveScale(o.to) = s
           /\ o.code = "validation_failed" => o.marked = FALSE
<1>1. /\ x.uniform \in Nat /\ s[1] \in Nat /\ ScaleOne \in Nat
      /\ x.nonUniform \in {Absent} \cup [1..2 -> Nat] /\ <<ScaleOne, ScaleOne>> \in [1..2 -> Nat]
  BY DEF EntityRecord, ScaleOne
<1>2. CASE o = [to |-> x, marked |-> FALSE, code |-> "validation_failed"]
  BY <1>2
<1>3. CASE o = [to |-> x, marked |-> FALSE, code |-> "engine_error"]
  BY <1>3
<1>4. ASSUME NEW u \in Nat, NEW n \in {Absent} \cup [1..2 -> Nat], NEW marked,
             o = ReadBack([x EXCEPT !.uniform = u, !.nonUniform = n], s, marked)
      PROVE  /\ o.to \in EntityRecord
             /\ o.to.parent = x.parent /\ o.to.position = x.position /\ o.to.rotation = x.rotation
             /\ o.code \in {"ok", "engine_error"}
             /\ o.code = "ok" => EffectiveScale(o.to) = s
  <2> DEFINE y == [x EXCEPT !.uniform = u, !.nonUniform = n]
  <2>1. /\ y \in EntityRecord
        /\ y.parent = x.parent /\ y.position = x.position /\ y.rotation = x.rotation
    BY Rescaled
  <2> HIDE DEF y
  <2>2. /\ o.to = y /\ o.code \in {"ok", "engine_error"}
        /\ o.code = "ok" => EffectiveScale(y) = s
    BY <1>4, ReadBackIs DEF y
  <2>3. QED BY <2>1, <2>2
<1>5. CASE o \in SetUniform(x, s)
  <2> DEFINE landed == {x.uniform, s[1]}
             reset  == IF x.nonUniform = Absent THEN {Absent} ELSE {x.nonUniform, <<ScaleOne, ScaleOne>>}
  <2>1. landed \subseteq Nat /\ reset \subseteq {Absent} \cup [1..2 -> Nat]
    BY <1>1
  <2> DEFINE made(u, n) == ReadBack([x EXCEPT !.uniform = u, !.nonUniform = n], s, FALSE)
  <2>2. SetUniform(x, s) = {made(u, n) : u \in landed, n \in reset}
    BY DEF SetUniform
  <2> HIDE DEF landed, reset, made
  <2>3. PICK u \in landed, n \in reset : o = made(u, n)
    BY <1>5, <2>2
  <2>4. QED BY <1>4, <2>1, <2>3 DEF made
<1>6. CASE o \in SetNonUniform(x, s) /\ o # [to |-> x, marked |-> FALSE, code |-> "engine_error"]
  <2>1. PICK u \in {x.uniform, ScaleOne},
             n \in {s, IF x.nonUniform = Absent THEN <<ScaleOne, ScaleOne>> ELSE x.nonUniform} :
             o = ReadBack([x EXCEPT !.uniform = u, !.nonUniform = n], s, x.nonUniform = Absent)
    BY <1>6 DEF SetNonUniform
  <2>2. u \in Nat /\ n \in {Absent} \cup [1..2 -> Nat]
    BY <1>1
  <2>3. QED BY <1>4, <2>1, <2>2
<1>7. \/ o = [to |-> x, marked |-> FALSE, code |-> "validation_failed"]
      \/ o \in SetUniform(x, s) \/ o \in SetNonUniform(x, s)
  BY DEF ApplyScale
<1>8. QED BY <1>2, <1>3, <1>5, <1>6, <1>7

LEMMA OptionalIs ==
    ASSUME NEW S, NEW field \in Optional(S)
    PROVE  /\ field # Absent => field[1] \in S
           /\ \A value \in S : OrElse(field, value) \in S
BY DEF Optional, OrElse, Absent

\* A request's entity where it asks it to be, all else as it was.
LEMMA PlacedIs ==
    ASSUME LevelsInStep, NEW e \in DOMAIN live, NEW r \in TransformRequest
    PROVE  /\ Placed(e, r) \in EntityRecord /\ Placed(e, r).parent = live[e].parent
           /\ EffectiveScale(Placed(e, r)) = EffectiveScale(live[e])
<1> DEFINE x == live[e]
           p == IF r.position = Absent THEN x.position ELSE LocalTo(x.parent, r.position[1])
           q == IF r.euler = Absent /\ r.quaternion = Absent THEN x.rotation
                ELSE (OrElse(r.euler, OrElse(r.quaternion, 0)) - (WorldRotation(live)[e] - x.rotation)) % 2
<1>1. x \in EntityRecord /\ x.position \in Int /\ x.rotation \in Rotation
  BY LevelsAre, RecordFacts
<1>2. p \in Int
  <2>1. r.position \in Optional(Position)
    BY DEF TransformRequest
  <2>2. Position \subseteq Int
    BY RequestedValues
  <2>3. r.position # Absent => r.position[1] \in Int
    BY <2>1, <2>2, OptionalIs
  <2>4. QED BY <1>1, <2>3, WorldIsInt
<1>3. q \in Rotation
  <2>1. OrElse(r.euler, OrElse(r.quaternion, 0)) \in Int
    BY DEF TransformRequest, Optional, OrElse, ZeroRotation
  <2>2. WorldRotation(live)[e] \in Int
    BY WorldIsInt
  <2>3. x.rotation \in Int
    BY <1>1 DEF Rotation
  <2>4. \A a \in Int : a % 2 \in {0, 1}
    OBVIOUS
  <2>5. QED BY <1>1, <2>1, <2>2, <2>3, <2>4 DEF Rotation
<1>4. Placed(e, r) = [x EXCEPT !.position = p, !.rotation = q]
  BY DEF Placed
<1> HIDE DEF x, p, q
<1>5. /\ Placed(e, r) \in EntityRecord /\ Placed(e, r).parent = x.parent
      /\ Placed(e, r).uniform = x.uniform /\ Placed(e, r).nonUniform = x.nonUniform
  BY <1>1, <1>2, <1>3, <1>4 DEF EntityRecord
<1>6. EffectiveScale(Placed(e, r)) = EffectiveScale(x)
  BY <1>5 DEF EffectiveScale
<1>7. QED BY <1>5, <1>6 DEF x

\* What set_transform and set_scale come to.
RefusedOrApplied(e) == \/ \E code : Refuse(code)
                       \/ e \in DOMAIN live /\ \E o, c : Outcome(live[e], o, c) /\ Applied(e, o, c)

LEMMA SetTransformIs ==
    ASSUME IInv, NEW e, NEW r \in Requested, HandleSetTransform(e, r)
    PROVE  RefusedOrApplied(e)
<1>1. LevelsInStep /\ r \in TransformRequest
  BY RequestedValues DEF IInv
<1>2. CASE \E code : Refuse(code)
  BY <1>2 DEF RefusedOrApplied
<1>3. CASE EntityExists(e) /\ \E o \in Scaled(Placed(e, r), r.scale) : Applied(e, o, Asked(e, r))
  <2> DEFINE x == Placed(e, r)
             c == Asked(e, r)
  <2>1. e \in DOMAIN live
    BY <1>3 DEF EntityExists
  <2>2. PICK o \in Scaled(x, r.scale) : Applied(e, o, c)
    BY <1>3
  <2>3. x \in EntityRecord /\ x.parent = live[e].parent /\ EffectiveScale(x) = EffectiveScale(live[e])
    BY <1>1, <2>1, PlacedIs
  <2>4. c.position = x.position /\ c.rotation = x.rotation /\ c.scale = OrElse(r.scale, EffectiveScale(live[e]))
    BY DEF Asked
  <2> HIDE DEF x, c
  <2>5. CASE r.scale = Absent
    <3>1. o.to = x /\ o.marked = FALSE /\ o.code = "ok" /\ c.scale = EffectiveScale(live[e])
      BY <2>2, <2>4, <2>5 DEF Scaled, OrElse
    <3>2. Outcome(live[e], o, c)
      BY <2>3, <2>4, <3>1 DEF Outcome, Vouched
    <3>3. QED BY <2>1, <2>2, <3>2 DEF RefusedOrApplied
  <2>6. CASE r.scale # Absent
    <3>1. r.scale[1] \in [1..2 -> Nat]
      <4>1. r.scale \in Optional(Scale)
        BY <1>1 DEF TransformRequest
      <4>2. QED BY <2>6, <4>1, OptionalIs, RequestedValues
    <3>2. o \in ApplyScale(x, r.scale[1]) /\ c.scale = r.scale[1]
      BY <2>2, <2>4, <2>6 DEF Scaled, OrElse
    <3> DEFINE s == r.scale[1]
    <3> HIDE DEF s
    <3>3. /\ o.to \in EntityRecord
          /\ o.to.parent = x.parent /\ o.to.position = x.position /\ o.to.rotation = x.rotation
          /\ o.code \in {"ok", "engine_error", "validation_failed"}
          /\ o.code = "ok" => EffectiveScale(o.to) = s
          /\ o.code = "validation_failed" => o.marked = FALSE
      BY <2>3, <3>1, <3>2, ApplyScaleIs DEF s
    <3>4. c.scale = s
      BY <3>2 DEF s
    <3>5. Outcome(live[e], o, c)
      BY <2>3, <2>4, <3>3, <3>4 DEF Outcome, Vouched
    <3>6. QED BY <2>1, <2>2, <3>5 DEF RefusedOrApplied
  <2>7. QED BY <2>5, <2>6
<1>4. QED BY <1>2, <1>3, Zenon DEF HandleSetTransform, SetTransform

LEMMA SetScaleIs ==
    ASSUME IInv, NEW e, NEW s \in Scale, SetScale(e, s)
    PROVE  RefusedOrApplied(e)
<1> DEFINE c == [position |-> live[e].position, rotation |-> live[e].rotation, scale |-> s]
<1>1. LevelsInStep /\ s \in [1..2 -> Nat]
  BY RequestedValues DEF IInv
<1>2. CASE \E code : Refuse(code)
  BY <1>2 DEF RefusedOrApplied
<1>3. CASE EntityExists(e) /\ \E o \in ApplyScale(live[e], s) : Applied(e, o, c)
  <2>1. e \in DOMAIN live /\ live[e] \in EntityRecord
    BY <1>1, <1>3, LevelsAre DEF EntityExists
  <2>2. PICK o \in ApplyScale(live[e], s) : Applied(e, o, c)
    BY <1>3
  <2>3. c.position = live[e].position /\ c.rotation = live[e].rotation /\ c.scale = s
    OBVIOUS
  <2>4. /\ o.to \in EntityRecord
        /\ o.to.parent = live[e].parent /\ o.to.position = live[e].position /\ o.to.rotation = live[e].rotation
        /\ o.code \in {"ok", "engine_error", "validation_failed"}
        /\ o.code = "ok" => EffectiveScale(o.to) = s
        /\ o.code = "validation_failed" => o.marked = FALSE
    BY <1>1, <2>1, <2>2, ApplyScaleIs
  <2> HIDE DEF c
  <2>5. Outcome(live[e], o, c)
    BY <2>3, <2>4 DEF Outcome, Vouched
  <2>6. QED BY <2>1, <2>2, <2>5 DEF RefusedOrApplied
<1>4. QED BY <1>2, <1>3, Zenon DEF SetScale

LEMMA TransformKeeps ==
    ASSUME IInv, NEW e, RefusedOrApplied(e)
    PROVE  IInv'
BY RefuseKeeps, AppliedKeeps DEF RefusedOrApplied

-----------------------------------------------------------------------------
(* Commits, edits and deletions take back what they may change.            *)

\* A batch that leaves the template of all entities outside S alone.
LEMMA UnconfirmKeeps ==
    ASSUME IInv, NEW l, NEW t, NEW d, NEW S, NEW code, BatchEnds(l, t, d), Unconfirm(S, code), used' = used,
           l \in LevelUpTo(used), t \in LevelUpTo(used), SameTree(l, t), d \subseteq DOMAIN l,
           DOMAIN live \ S \subseteq DOMAIN l, d \subseteq dirty \cup S,
           \A a \in DOMAIN live \ S : t[a] = template[a]
    PROVE  IInv'
<1>1. LevelsInStep /\ ConfirmedInTemplate
  BY DEF IInv
<1>2. used' \in {used, used + 1} /\ used' <= MaxEntities
  BY <1>1, EntityBounds DEF LevelsInStep
<1>3. /\ LevelsInStep' /\ live' = l /\ (scriptBatch => dirty' = d) /\ (~scriptBatch => dirty' = {})
      /\ \A a \in DOMAIN l : template'[a] = IF a \in d /\ ~scriptBatch THEN l[a] ELSE t[a]
  BY <1>1, <1>2, BatchKeeps
<1>4. dirty' \subseteq d
  BY <1>1, <1>3 DEF LevelsInStep
<1>5. confirmed' = Without(confirmed, S)
  BY DEF Unconfirm
<1>6. DOMAIN confirmed' = DOMAIN confirmed \ S /\ \A a \in DOMAIN confirmed' : confirmed'[a] = confirmed[a]
  BY <1>5 DEF Without
<1>7. ASSUME NEW a \in DOMAIN confirmed'
      PROVE  template'[a] = template[a] /\ a \in DOMAIN live' \ dirty'
  <2>1. a \in DOMAIN live \ S /\ a \notin dirty
    BY <1>1, <1>6 DEF ConfirmedInTemplate
  <2>2. QED BY <1>3, <1>4, <2>1
<1>8. QED BY <1>1, <1>3, <1>6, <1>7, ConfirmedStays DEF IInv

LEMMA CommitKeeps ==
    ASSUME IInv, NEW e, CommitEntityToPrefab(e)
    PROVE  IInv'
<1>1. LevelsInStep
  BY DEF IInv
<1>2. CASE \E code : Refuse(code)
  BY <1>2, RefuseKeeps
<1>3. CASE /\ EntityExists(e) /\ used' = used
           /\ BatchEnds(live, With(template, e, live[e]), dirty) /\ Unconfirm({e}, "none")
  <2> DEFINE t == With(template, e, live[e])
  <2>1. e \in DOMAIN template /\ live[e] \in EntityRecord /\ live[e].parent = template[e].parent
    BY <1>1, <1>3, LevelsAre DEF EntityExists
  <2>2. live \in LevelUpTo(used) /\ template \in LevelUpTo(used) /\ SameTree(live, template) /\ dirty \subseteq DOMAIN live
    BY <1>1 DEF LevelsInStep
  <2>3. t \in LevelUpTo(used) /\ SameTree(t, template)
    BY <2>1, <2>2, ChangedLevel
  <2>4. SameTree(live, t)
    BY <2>2, <2>3 DEF SameTree
  <2>5. \A a \in DOMAIN live \ {e} : t[a] = template[a]
    <3>1. DOMAIN live = DOMAIN template
      BY <2>2 DEF SameTree
    <3>2. QED BY <3>1 DEF With
  <2> HIDE DEF t
  <2>6. BatchEnds(live, t, dirty)
    BY <1>3 DEF t
  <2>7. QED BY <1>3, <2>2, <2>3, <2>4, <2>5, <2>6, UnconfirmKeeps
<1>4. QED BY <1>2, <1>3, Zenon DEF CommitEntityToPrefab

LEMMA UserEditsKeep ==
    ASSUME IInv, NEW e, NEW x, UserEdits(e, x), e \in DOMAIN live => x \in EntityRecord /\ x.parent = live[e].parent
    PROVE  IInv'
<1> DEFINE l == With(live, e, x)
<1>1. /\ e \in DOMAIN live /\ BatchEnds(l, template, {e}) /\ Unconfirm({e}, "none") /\ used' = used
      /\ live \in LevelUpTo(used) /\ template \in LevelUpTo(used) /\ SameTree(live, template)
  BY DEF UserEdits, EntityExists, IInv, LevelsInStep
<1>2. l \in LevelUpTo(used) /\ SameTree(l, live)
  BY <1>1, ChangedLevel
<1> HIDE DEF l
<1>3. SameTree(l, template) /\ DOMAIN l = DOMAIN live
  BY <1>1, <1>2 DEF SameTree
<1>4. QED BY <1>1, <1>2, <1>3, UnconfirmKeeps

LEMMA UserMovesKeep ==
    ASSUME IInv, NEW e, NEW p \in Int, UserMoves(e, p)
    PROVE  IInv'
<1>1. ASSUME e \in DOMAIN live
      PROVE  [live[e] EXCEPT !.position = p] \in EntityRecord /\ [live[e] EXCEPT !.position = p].parent = live[e].parent
  <2>1. live[e] \in EntityRecord
    BY <1>1, LevelsAre DEF IInv
  <2>2. QED BY <2>1 DEF EntityRecord
<1>2. QED BY <1>1, UserEditsKeep DEF UserMoves

LEMMA UserRenamesKeep ==
    ASSUME IInv, NEW e, NEW n \in Names, UserRenames(e, n)
    PROVE  IInv'
<1>1. ASSUME e \in DOMAIN live
      PROVE  [live[e] EXCEPT !.name = n] \in EntityRecord /\ [live[e] EXCEPT !.name = n].parent = live[e].parent
  <2>1. live[e] \in EntityRecord
    BY <1>1, LevelsAre DEF IInv
  <2>2. QED BY <2>1 DEF EntityRecord
<1>2. QED BY <1>1, UserEditsKeep DEF UserRenames

LEMMA DeleteEntityKeeps ==
    ASSUME IInv, NEW e, HandleDeleteEntity(e)
    PROVE  IInv'
<1> DEFINE S == Subtree(e)
           l == Without(live, S)
           t == Without(template, S)
<1>1. LevelsInStep
  BY DEF IInv
<1>2. CASE \E code : Refuse(code)
  BY <1>2, RefuseKeeps
<1>3. CASE /\ EntityExists(e) /\ e # Root /\ used' = used
           /\ BatchEnds(l, t, dirty \ S) /\ Unconfirm(S, "ok")
  <2>1. /\ live \in LevelUpTo(used) /\ template \in LevelUpTo(used) /\ dirty \subseteq DOMAIN live
        /\ DOMAIN live = DOMAIN template /\ \A a \in DOMAIN live : live[a].parent = template[a].parent
    BY <1>1 DEF LevelsInStep, SameTree
  <2>2. Root \notin S /\ \A a \in DOMAIN live : live[a].parent \in S => a \in S
    BY <1>1, <1>3, LevelsAre, SubtreeIs DEF Subtree, EntityExists
  <2> HIDE DEF S
  <2>3. l \in LevelUpTo(used) /\ t \in LevelUpTo(used)
    BY <2>1, <2>2, CutLevel
  <2>4. SameTree(l, t) /\ DOMAIN l = DOMAIN live \ S
    BY <2>1 DEF SameTree, Without
  <2>5. \A a \in DOMAIN live \ S : t[a] = template[a]
    BY <2>1 DEF Without
  <2> DEFINE d == dirty \ S
  <2>6. d \subseteq DOMAIN l /\ d \subseteq dirty \cup S
    BY <2>1, <2>4
  <2> HIDE DEF l, t, d
  <2>7. BatchEnds(l, t, d)
    BY <1>3 DEF d
  <2>8. QED BY <1>3, <2>3, <2>4, <2>5, <2>6, <2>7, UnconfirmKeeps
<1>4. QED BY <1>2, <1>3, Zenon DEF HandleDeleteEntity, DeleteEntity

-----------------------------------------------------------------------------
(* Scripts, undo and reload.                                               *)

LEMMA ScriptBeginsKeeps ==
    ASSUME IInv, ScriptBegins
    PROVE  IInv'
<1>1. LevelsInStep'
  <2>1. changes' \in 0..MaxChanges
    BY EntityBounds DEF ScriptBegins, Change, IInv, LevelsInStep
  <2>2. QED BY <2>1 DEF ScriptBegins, IInv, LevelsInStep, SameTree
<1>2. ConfirmedInTemplate'
  BY DEF ScriptBegins, IInv, ConfirmedInTemplate
<1>3. QED BY <1>1, <1>2 DEF IInv

LEMMA ScriptBuildsKeeps ==
    ASSUME IInv, NEW p \in Int, ScriptBuilds(p)
    PROVE  IInv'
<1> DEFINE e == used + 1
           x == [Entity(Root, p) EXCEPT !.name = "plain"]
           t == With(template, e, x)
<1>1. LevelsInStep /\ ConfirmedInTemplate /\ scriptBatch /\ used < MaxEntities
  BY DEF IInv, ScriptBuilds
<1>2. used' = e /\ BatchEnds(t, t, dirty \cup {e}) /\ confirmed' = confirmed
  BY DEF ScriptBuilds
<1>3. /\ DOMAIN live = DOMAIN template /\ used \in Nat /\ used # 0 /\ template \in LevelUpTo(used)
      /\ Root \in DOMAIN template /\ e \notin DOMAIN live
      /\ dirty \subseteq DOMAIN live /\ DOMAIN confirmed \subseteq DOMAIN live \ dirty
  BY <1>1, LevelsAre DEF LevelsInStep, ConfirmedInTemplate
<1>4. x \in EntityRecord /\ x.parent = Root
  <2>1. Root \in Id
    BY EntityBounds DEF Id, EntityId, Root
  <2>2. Entity(Root, p) \in EntityRecord /\ Entity(Root, p).parent = Root
    BY <2>1, EntityIs
  <2> DEFINE y == Entity(Root, p)
  <2> HIDE DEF y
  <2>3. [y EXCEPT !.name = "plain"] \in EntityRecord /\ [y EXCEPT !.name = "plain"].parent = Root
    BY <2>2 DEF y, EntityRecord, Names
  <2>4. QED BY <2>3 DEF y
<1> HIDE DEF x
<1>5. t \in LevelUpTo(e)
  BY <1>3, <1>4, GrownLevel
<1> HIDE DEF e
<1>6. DOMAIN t = DOMAIN live \cup {e} /\ \A a \in DOMAIN live : t[a] = template[a]
  BY <1>3 DEF With
<1> HIDE DEF t
<1>7. used' \in {used, used + 1} /\ used' <= MaxEntities
  BY <1>1, <1>2, <1>3, EntityBounds DEF e
<1>8. /\ LevelsInStep' /\ live' = t /\ dirty' = dirty \cup {e}
      /\ \A a \in DOMAIN t : template'[a] = t[a]
  <2>1. t \in LevelUpTo(used') /\ SameTree(t, t) /\ dirty \cup {e} \subseteq DOMAIN t
    BY <1>2, <1>3, <1>5, <1>6 DEF SameTree
  <2> DEFINE d == dirty \cup {e}
  <2> HIDE DEF d
  <2>2. BatchEnds(t, t, d) /\ d \subseteq DOMAIN t
    BY <1>2, <2>1 DEF d
  <2>3. QED BY <1>1, <1>7, <2>1, <2>2, BatchKeeps DEF d
<1>9. \A a \in DOMAIN confirmed' : template'[a] = template[a] /\ a \in DOMAIN live' \ dirty'
  BY <1>2, <1>3, <1>6, <1>8
<1>10. QED BY <1>1, <1>2, <1>8, <1>9, ConfirmedStays DEF IInv

LEMMA ScriptEndsKeeps ==
    ASSUME IInv, ScriptEnds
    PROVE  IInv'
<1> DEFINE c == Captured(live, template, dirty)
<1>1. LevelsInStep /\ ConfirmedInTemplate /\ scriptBatch
  BY DEF IInv, ScriptEnds
<1>2. /\ template' = c /\ dirty' = {} /\ scriptBatch' = FALSE /\ before' = Absent /\ undo' = Recorded(before, c)
      /\ live' = live /\ used' = used /\ confirmed' = confirmed /\ changes < MaxChanges /\ changes' = changes + 1
  BY DEF ScriptEnds, Change
<1>3. live \in LevelUpTo(used) /\ template \in LevelUpTo(used) /\ SameTree(live, template)
      /\ before \in LevelUpTo(used) /\ undo \in Seq(LevelUpTo(used)) /\ Len(undo) <= MaxUndo
      /\ used \in 2..MaxEntities /\ changes \in 0..MaxChanges
  BY <1>1 DEF LevelsInStep
<1>4. /\ c \in LevelUpTo(used) /\ SameTree(live, c) /\ DOMAIN c = DOMAIN template
      /\ \A a \in DOMAIN template : c[a] = IF a \in dirty THEN live[a] ELSE template[a]
  BY <1>3, CapturedLevel
<1> HIDE DEF c
<1>5. Recorded(before, c) \in Seq(LevelUpTo(used)) /\ Len(Recorded(before, c)) <= MaxUndo
  BY <1>3, RecordedIs
<1>6. changes' \in 0..MaxChanges
  BY <1>2, <1>3, EntityBounds
<1>7. LevelsInStep'
  BY <1>2, <1>3, <1>4, <1>5, <1>6 DEF LevelsInStep
<1>8. \A a \in DOMAIN confirmed' : template'[a] = template[a] /\ a \in DOMAIN live' \ dirty'
  BY <1>1, <1>2, <1>3, <1>4 DEF ConfirmedInTemplate, SameTree
<1>9. QED BY <1>1, <1>2, <1>7, <1>8, ConfirmedStays DEF IInv

LEMMA UserUndoesKeeps ==
    ASSUME IInv, UserUndoes
    PROVE  IInv'
<1> DEFINE last == undo[Len(undo)]
           rest == SubSeq(undo, 1, Len(undo) - 1)
<1>1. LevelsInStep
  BY DEF IInv
<1>2. /\ template' = last /\ live' = last /\ undo' = rest /\ confirmed' = << >> /\ undo # << >> /\ ~scriptBatch
      /\ UNCHANGED <<dirty, scriptBatch, before, used>> /\ changes < MaxChanges /\ changes' = changes + 1
  BY DEF UserUndoes, Change
<1>3. last \in LevelUpTo(used) /\ rest \in Seq(LevelUpTo(used)) /\ Len(rest) <= MaxUndo
  BY <1>1, <1>2, PopIs DEF LevelsInStep
<1> HIDE DEF last, rest
<1>4. dirty = {} /\ before = Absent /\ used \in 2..MaxEntities /\ changes \in 0..MaxChanges
  BY <1>1, <1>2 DEF LevelsInStep
<1>5. changes' \in 0..MaxChanges /\ SameTree(last, last)
  BY <1>2, <1>4, EntityBounds DEF SameTree
<1>6. LevelsInStep'
  <2>1. live' \in LevelUpTo(used') /\ template' \in LevelUpTo(used') /\ SameTree(live', template')
    BY <1>2, <1>3, <1>5
  <2>2. dirty' = {} /\ scriptBatch' = FALSE /\ before' = Absent /\ used' \in 2..MaxEntities
    BY <1>1, <1>2, <1>4 DEF LevelsInStep
  <2>3. undo' \in Seq(LevelUpTo(used')) /\ Len(undo') <= MaxUndo
    BY <1>2, <1>3
  <2>4. QED BY <1>5, <2>1, <2>2, <2>3 DEF LevelsInStep
<1>7. DOMAIN confirmed' = {}
  BY <1>2
<1>8. QED BY <1>6, <1>7 DEF IInv, ConfirmedInTemplate

LEMMA SaveAndReloadKeeps ==
    ASSUME IInv, SaveAndReload
    PROVE  IInv'
<1>1. LevelsInStep /\ ConfirmedInTemplate
  BY DEF IInv
<1>2. /\ live' = template /\ undo' = << >> /\ ~scriptBatch /\ UNCHANGED <<template, dirty, scriptBatch, before, used, confirmed>>
      /\ changes < MaxChanges /\ changes' = changes + 1
  BY DEF SaveAndReload, Change
<1>3. dirty = {} /\ DOMAIN live = DOMAIN template /\ changes \in 0..MaxChanges
  BY <1>1, <1>2 DEF LevelsInStep, SameTree
<1>4. changes' \in 0..MaxChanges /\ << >> \in Seq(LevelUpTo(used)) /\ Len(<< >>) <= MaxUndo
  BY <1>2, <1>3, EntityBounds
<1>5. LevelsInStep'
  BY <1>1, <1>2, <1>3, <1>4 DEF LevelsInStep, SameTree
<1>6. ConfirmedInTemplate'
  BY <1>1, <1>2, <1>3 DEF ConfirmedInTemplate
<1>7. QED BY <1>5, <1>6 DEF IInv

-----------------------------------------------------------------------------
(* The invariant.                                                          *)

LEMMA InitKeeps == Init => IInv
<1> SUFFICES ASSUME Init PROVE IInv
  OBVIOUS
<1> DEFINE r == Entity(Nothing, 0)
           s == [Entity(Root, 0) EXCEPT !.name = "protected"]
           l == [e \in {Root, 2} |-> IF e = Root THEN r ELSE s]
<1>1. /\ live = l /\ template = l /\ dirty = {} /\ scriptBatch = FALSE /\ before = Absent
      /\ undo = << >> /\ used = 2 /\ changes = 0 /\ confirmed = << >>
  BY DEF Init, Level0
<1>2. r \in EntityRecord /\ r.parent = Nothing /\ s \in EntityRecord /\ s.parent = Root
  <2>1. Nothing \in Id /\ Root \in Id
    BY EntityBounds DEF Id, EntityId, Root
  <2>2. Entity(Root, 0) \in EntityRecord /\ Entity(Root, 0).parent = Root
    BY <2>1, EntityIs
  <2> DEFINE y == Entity(Root, 0)
  <2> HIDE DEF y
  <2>3. [y EXCEPT !.name = "protected"] \in EntityRecord /\ [y EXCEPT !.name = "protected"].parent = Root
    BY <2>2 DEF y, EntityRecord, Names
  <2>4. QED BY <2>1, <2>3, EntityIs DEF y
<1> HIDE DEF r, s
<1>3. Root # 2 /\ Root # Nothing /\ Root < 2 /\ 2 # Nothing /\ {Root, 2} \subseteq 1..2
  BY DEF Root, Nothing
<1>4. DOMAIN l = {Root, 2} /\ l[Root] = r /\ l[2] = s /\ l \in [{Root, 2} -> EntityRecord]
  BY <1>2, <1>3
<1> HIDE DEF l
<1>5. Rooted(l)
  BY <1>2, <1>3, <1>4 DEF Rooted
<1>6. l \in LevelUpTo(2)
  BY <1>3, <1>4, <1>5, LevelIs
<1>7. /\ << >> \in Seq(LevelUpTo(2)) /\ Len(<< >>) <= MaxUndo
      /\ 2 \in 2..MaxEntities /\ 0 \in 0..MaxChanges /\ DOMAIN << >> = {}
  BY EntityBounds
<1>8. LevelsInStep
  BY <1>1, <1>6, <1>7 DEF LevelsInStep, SameTree
<1>9. ConfirmedInTemplate
  BY <1>1, <1>7 DEF ConfirmedInTemplate
<1>10. QED BY <1>8, <1>9 DEF IInv

LEMMA StepKeeps == IInv /\ [Next]_vars => IInv'
<1> SUFFICES ASSUME IInv, [Next]_vars PROVE IInv'
  OBVIOUS
<1>1. CASE UNCHANGED vars
  BY <1>1 DEF vars, level, IInv, LevelsInStep, ConfirmedInTemplate
<1>2. Position \subseteq Int
  BY RequestedValues
<1>3. CASE \E name \in {"plain", "protected", "invalid"}, p \in Position, parent \in Optional(Id) :
              HandleCreateEntity(name, p, parent)
  <2>1. PICK name \in {"plain", "protected", "invalid"}, p \in Position, parent \in Optional(Id) :
              HandleCreateEntity(name, p, parent)
    BY <1>3
  <2>2. name \in Names /\ p \in Int
    BY <1>2 DEF Names
  <2>3. QED BY <2>1, <2>2, CreateEntityKeeps
<1>4. CASE \E e \in Target, r \in Requested : HandleSetTransform(e, r)
  BY <1>4, SetTransformIs, TransformKeeps
<1>5. CASE \E e \in Target, s \in Scale : SetScale(e, s)
  BY <1>5, SetScaleIs, TransformKeeps
<1>6. CASE \E e \in Target : CommitEntityToPrefab(e)
  BY <1>6, CommitKeeps
<1>7. CASE \E e \in Id : HandleDeleteEntity(e) \/ HandleGetEntity(e)
  BY <1>7, DeleteEntityKeeps, RefuseKeeps DEF HandleGetEntity
<1>8. CASE ScriptBegins \/ ScriptEnds
  BY <1>8, ScriptBeginsKeeps, ScriptEndsKeeps
<1>9. CASE \E p \in Position : ScriptBuilds(p)
  BY <1>2, <1>9, ScriptBuildsKeeps
<1>10. CASE \E e \in Target, p \in Position : UserMoves(e, p)
  BY <1>2, <1>10, UserMovesKeep
<1>11. CASE \E e \in Target : UserRenames(e, "protected")
  <2>1. "protected" \in Names
    BY DEF Names
  <2>2. QED BY <1>11, <2>1, UserRenamesKeep
<1>12. CASE UserUndoes \/ SaveAndReload
  BY <1>12, UserUndoesKeeps, SaveAndReloadKeeps
<1>13. QED BY <1>1, <1>3, <1>4, <1>5, <1>6, <1>7, <1>8, <1>9, <1>10, <1>11, <1>12, Zenon DEF Next

LEMMA InvariantHolds == Spec => []IInv
<1>1. QED BY InitKeeps, StepKeeps, PTL DEF Spec

-----------------------------------------------------------------------------
(* The properties of the runs.                                             *)

LEMMA LevelUpToIs ==
    ASSUME NEW l \in LevelUpTo(used), used \in Nat
    PROVE  IsLevel(l)
<1>1. DOMAIN l \subseteq 1..used /\ l \in [DOMAIN l -> EntityRecord] /\ Rooted(l)
  BY LevelIs
<1>2. \A e \in DOMAIN l : l[e] \in EntityRecord
  BY <1>1
<1>3. QED BY <1>1, <1>2 DEF IsLevel, Rooted

\* The live level and the template hold the same entities under the same
\* parents, each level of the history is whole, and only entities that exist
\* are marked or vouched for (the mutations of
\* AiCompanionEditorSystemComponent.cpp, and the user beside them).
THEOREM TypeCorrect == Spec => []TypeOK
<1>1. ASSUME IInv PROVE TypeOK
  <2>1. LevelsInStep /\ ConfirmedInTemplate /\ used \in Nat
    BY <1>1, EntityBounds DEF IInv, LevelsInStep
  <2>2. IsLevel(live) /\ IsLevel(template) /\ (scriptBatch => IsLevel(before))
    BY <2>1, LevelUpToIs DEF LevelsInStep
  <2>3. Len(undo) <= MaxUndo /\ \A i \in DOMAIN undo : IsLevel(undo[i])
    <3>1. undo \in Seq(LevelUpTo(used)) /\ Len(undo) <= MaxUndo
      BY <2>1 DEF LevelsInStep
    <3>2. \A i \in DOMAIN undo : undo[i] \in LevelUpTo(used)
      BY <3>1
    <3>3. QED BY <2>1, <3>1, <3>2, LevelUpToIs
  <2>4. DOMAIN live = DOMAIN template /\ \A e \in DOMAIN live : live[e].parent = template[e].parent
    BY <2>1 DEF LevelsInStep, SameTree
  <2>5. /\ dirty \subseteq DOMAIN live /\ (dirty # {} => scriptBatch)
        /\ IF scriptBatch THEN IsLevel(before) ELSE before = Absent
        /\ used \in 2..MaxEntities /\ changes \in 0..MaxChanges
        /\ DOMAIN confirmed \subseteq DOMAIN live
    BY <2>1, <2>2 DEF LevelsInStep, ConfirmedInTemplate
  <2>6. QED BY <2>2, <2>3, <2>4, <2>5 DEF TypeOK
<1>2. QED BY <1>1, InvariantHolds, PTL

\* A transform that was answered ok is the one a save would write, until
\* somebody changes that entity or undoes.
THEOREM ConfirmedTransforms == Spec => []ConfirmedIsSaved
<1>1. IInv => ConfirmedIsSaved
  BY DEF IInv, ConfirmedInTemplate, Vouched, ConfirmedIsSaved
<1>2. QED BY <1>1, InvariantHolds, PTL

\* get_entity_tree shows every entity, whatever was created under whatever,
\* deleted, undone or reloaded.
THEOREM TreeIsComplete == Spec => []EveryEntityIsInTheTree
<1>1. IInv => EveryEntityIsInTheTree
  BY LevelsAre, TreeShowsAll DEF IInv, EveryEntityIsInTheTree
<1>2. QED BY <1>1, InvariantHolds, PTL

\* What a step may be to the template and its history.
StepOfHistory == \/ UNCHANGED <<template, dirty, undo, used>>
                 \/ answer' = "none"
                 \/ answer' \in {"ok", "engine_error"} /\ (~scriptBatch => undo' = Recorded(template, template'))

LEMMA RefuseIs ==
    ASSUME NEW code, Refuse(code)
    PROVE  StepOfHistory
BY DEF Refuse, level, StepOfHistory

LEMMA AppliedIs ==
    ASSUME IInv, NEW e \in DOMAIN live, NEW o, NEW c, Outcome(live[e], o, c), Applied(e, o, c)
    PROVE  StepOfHistory
<1> DEFINE d == dirty \cup Marked(e, o)
           l == With(live, e, o.to)
<1>1. LevelsInStep
  BY DEF IInv
<1>2. BatchEnds(l, template, d) /\ used' = used
  BY DEF Applied
<1>3. o.code \in {"ok", "engine_error", "validation_failed"} /\ (o.code = "validation_failed" => o.marked = FALSE)
  BY DEF Outcome
<1> HIDE DEF l
<1>4. CASE o.code = "validation_failed"
  <2>1. d = dirty
    BY <1>3, <1>4 DEF Marked
  <2>2. ~scriptBatch => dirty = {} /\ Captured(l, template, {}) = template
    <3>1. template \in LevelUpTo(used) /\ used \in Nat
      BY <1>1, EntityBounds DEF LevelsInStep
    <3>2. Captured(l, template, {}) = template
      BY <3>1, NothingCaptured
    <3>3. QED BY <1>1, <3>2 DEF LevelsInStep
  <2> HIDE DEF d
  <2>3. template' = template /\ dirty' = dirty /\ undo' = undo
    BY <1>2, <2>1, <2>2 DEF BatchEnds, Recorded
  <2>4. QED BY <1>2, <2>3 DEF StepOfHistory
<1>5. CASE o.code \in {"ok", "engine_error"}
  <2>1. answer' \in {"ok", "engine_error"}
    BY <1>5 DEF Applied, Confirm, Unconfirm
  <2> HIDE DEF d
  <2>2. ~scriptBatch => undo' = Recorded(template, template')
    BY <1>2 DEF BatchEnds
  <2>3. QED BY <2>1, <2>2 DEF StepOfHistory
<1>6. QED BY <1>3, <1>4, <1>5

LEMMA StepsOfHistory == IInv /\ Next => StepOfHistory
<1> SUFFICES ASSUME IInv, Next PROVE StepOfHistory
  OBVIOUS
<1>1. CASE \E code : Refuse(code)
  BY <1>1, RefuseIs
<1>2. CASE answer' = "none"
  BY <1>2 DEF StepOfHistory
<1>3. ASSUME NEW l, NEW t, NEW d, BatchEnds(l, t, d), answer' = "ok"
      PROVE  StepOfHistory
  BY <1>3 DEF BatchEnds, StepOfHistory
<1>4. ASSUME NEW e, RefusedOrApplied(e) PROVE StepOfHistory
  BY <1>4, RefuseIs, AppliedIs DEF RefusedOrApplied
<1>5. CASE \E name \in {"plain", "protected", "invalid"}, p \in Position, parent \in Optional(Id) :
              HandleCreateEntity(name, p, parent)
  BY <1>1, <1>3, <1>5 DEF HandleCreateEntity, CreateEntity, Created, Confirm
<1>6. CASE \E e \in Target, r \in Requested : HandleSetTransform(e, r)
  BY <1>4, <1>6, SetTransformIs
<1>7. CASE \E e \in Target, s \in Scale : SetScale(e, s)
  BY <1>4, <1>7, SetScaleIs
<1>8. CASE \E e \in Target : CommitEntityToPrefab(e)
  BY <1>1, <1>2, <1>8 DEF CommitEntityToPrefab, Unconfirm
<1>9. CASE \E e \in Id : HandleDeleteEntity(e) \/ HandleGetEntity(e)
  BY <1>1, <1>3, <1>9 DEF HandleDeleteEntity, DeleteEntity, HandleGetEntity, Unconfirm
<1>10. CASE ScriptBegins \/ ScriptEnds
  BY <1>2, <1>10 DEF ScriptBegins, ScriptEnds
<1>11. CASE \E p \in Position : ScriptBuilds(p)
  BY <1>2, <1>11 DEF ScriptBuilds
<1>12. CASE \/ \E e \in Target, p \in Position : UserMoves(e, p)
            \/ \E e \in Target : UserRenames(e, "protected")
  BY <1>2, <1>12 DEF UserMoves, UserRenames, UserEdits, Unconfirm
<1>13. CASE UserUndoes \/ SaveAndReload
  BY <1>2, <1>13 DEF UserUndoes, SaveAndReload
<1>14. QED BY <1>5, <1>6, <1>7, <1>8, <1>9, <1>10, <1>11, <1>12, <1>13, Zenon DEF Next

\* A refused request leaves the template, the marks of an open batch, the ids
\* and the history alone.  It says nothing of the live entity, which a request
\* with a refused scale has moved.
THEOREM RefusalsAreNotSaved == Spec => RefusedIsNotSaved
<1>1. IInv /\ Next => (answer' \in {"validation_failed", "not_found"} => UNCHANGED <<template, dirty, undo, used>>)
  BY StepsOfHistory DEF StepOfHistory
<1>2. IInv /\ [Next]_vars =>
          [answer' \in {"validation_failed", "not_found"} => UNCHANGED <<template, dirty, undo, used>>]_vars
  BY <1>1
<1>3. QED BY <1>2, InvariantHolds, PTL DEF Spec, RefusedIsNotSaved

\* What a request outside a script's batch saved is one step of the history,
\* the template before it.
THEOREM MutationsAreOneStep ==
    Spec => [][answer' \in {"ok", "engine_error"} /\ ~scriptBatch /\ template' # template
                  => undo' = Push(undo, template)]_vars
<1>1. ASSUME IInv, Next, answer' \in {"ok", "engine_error"}, ~scriptBatch, template' # template
      PROVE  undo' = Push(undo, template)
  BY <1>1, StepsOfHistory DEF StepOfHistory, Recorded
<1>2. IInv /\ [Next]_vars =>
          [answer' \in {"ok", "engine_error"} /\ ~scriptBatch /\ template' # template
              => undo' = Push(undo, template)]_vars
  BY <1>1
<1>3. QED BY <1>2, InvariantHolds, PTL DEF Spec

\* What a step is to the history: nothing, the end of a batch, a script's
\* begin or end, the user's undo or a reload.
HistoryStep == \/ UNCHANGED level
               \/ \E l, t, d : BatchEnds(l, t, d)
               \/ ScriptBegins \/ ScriptEnds \/ UserUndoes \/ SaveAndReload

LEMMA HistorySteps == IInv /\ Next => HistoryStep
<1> SUFFICES ASSUME IInv, Next PROVE HistoryStep
  OBVIOUS
<1>1. ASSUME NEW code, Refuse(code) PROVE HistoryStep
  BY <1>1 DEF Refuse, HistoryStep
<1>2. ASSUME NEW l, NEW t, NEW d, BatchEnds(l, t, d) PROVE HistoryStep
  BY <1>2 DEF HistoryStep
<1>3. ASSUME NEW e, RefusedOrApplied(e) PROVE HistoryStep
  BY <1>1, <1>2, <1>3 DEF RefusedOrApplied, Applied
<1>4. CASE \E name \in {"plain", "protected", "invalid"}, p \in Position, parent \in Optional(Id) :
              HandleCreateEntity(name, p, parent)
  BY <1>1, <1>2, <1>4 DEF HandleCreateEntity, CreateEntity, Created
<1>5. CASE \/ \E e \in Target, r \in Requested : HandleSetTransform(e, r)
           \/ \E e \in Target, s \in Scale : SetScale(e, s)
  BY <1>3, <1>5, SetTransformIs, SetScaleIs
<1>6. CASE \E e \in Target : CommitEntityToPrefab(e)
  BY <1>1, <1>2, <1>6 DEF CommitEntityToPrefab
<1>7. CASE \E e \in Id : HandleDeleteEntity(e) \/ HandleGetEntity(e)
  BY <1>1, <1>2, <1>7 DEF HandleDeleteEntity, DeleteEntity, HandleGetEntity
<1>8. CASE \E p \in Position : ScriptBuilds(p)
  BY <1>2, <1>8 DEF ScriptBuilds
<1>9. CASE \/ \E e \in Target, p \in Position : UserMoves(e, p)
           \/ \E e \in Target : UserRenames(e, "protected")
  BY <1>2, <1>9 DEF UserMoves, UserRenames, UserEdits
<1>10. CASE ScriptBegins \/ ScriptEnds \/ UserUndoes \/ SaveAndReload
  BY <1>10 DEF HistoryStep
<1>11. QED BY <1>4, <1>5, <1>6, <1>7, <1>8, <1>9, <1>10, Zenon DEF Next

\* The template and its history implement EditHistory, the template counting as
\* it was at the open script batch's begin: the batches nested in that one are
\* an Answer, its end is an Edit or, when it is empty, one too; every other batch
\* that changed the template is an Edit, a reload forgets the history.
THEOREM LevelHistory == Spec => LevelEditsAreUndoable
<1>1. Init => History!Init
  BY DEF Init, History!Init
<1>2. IInv /\ [Next]_vars => [History!Next]_(History!vars)
  <2> SUFFICES ASSUME IInv, Next
               PROVE  History!Answer \/ History!Edit \/ History!Undo \/ History!Forget
    BY DEF vars, level, History!vars, History!Next
  <2>1. scriptBatch \in BOOLEAN
    BY DEF IInv, LevelsInStep
  <2>2. CASE UNCHANGED level
    BY <2>2 DEF level, History!Answer
  <2>3. ASSUME NEW l, NEW t, NEW d, BatchEnds(l, t, d) PROVE History!Answer \/ History!Edit
    BY <2>1, <2>3 DEF BatchEnds, Recorded, Push, History!Answer, History!Edit, History!Push
  <2>4. CASE ScriptBegins
    BY <2>4 DEF ScriptBegins, History!Answer
  <2>5. CASE ScriptEnds
    BY <2>5 DEF ScriptEnds, Recorded, Push, History!Answer, History!Edit, History!Push
  <2>6. CASE UserUndoes
    BY <2>6 DEF UserUndoes, History!Undo
  <2>7. CASE SaveAndReload
    BY <2>7 DEF SaveAndReload, History!Answer, History!Forget
  <2>8. QED BY <2>2, <2>3, <2>4, <2>5, <2>6, <2>7, HistorySteps, Zenon DEF HistoryStep
<1>3. QED BY <1>1, <1>2, InvariantHolds, PTL DEF Spec, LevelEditsAreUndoable, History!Spec
=============================================================================
