-------------------------- MODULE SceneReportsProofs --------------------------
(***************************************************************************)
(* What the operators of SceneReports make of any level whose entities are *)
(* each under one with a smaller id, or under none: the order in which ids *)
(* are handed out.                                                         *)
(***************************************************************************)
EXTENDS SceneReports, WellFoundedInduction, TLAPS

IsForest(l) == /\ DOMAIN l \subseteq Nat \ {0}
               /\ \A e \in DOMAIN l : \/ l[e].parent = Nothing
                                      \/ l[e].parent \in DOMAIN l /\ l[e].parent < e

LEMMA LeastOf ==
    ASSUME NEW S \in SUBSET Nat, S # {}
    PROVE  \E m \in S : \A k \in S : m <= k
<1>1. PICK x \in S : \A y \in S : ~(<<y, x>> \in OpToRel(<, Nat))
  BY NatLessThanWellFounded, WFMin
<1>2. \A y \in S : ~(y < x)
  BY <1>1 DEF OpToRel
<1>3. \A y \in S : x <= y
  BY <1>2
<1>4. QED BY <1>3

-----------------------------------------------------------------------------
(* Entities and what is under them.                                        *)

LEMMA DescendantsAreClosed ==
    ASSUME NEW l, NEW top
    PROVE  /\ WithDescendants(l, top) \subseteq DOMAIN l
           /\ top \cap DOMAIN l \subseteq WithDescendants(l, top)
           /\ \A c \in DOMAIN l : l[c].parent \in WithDescendants(l, top) => c \in WithDescendants(l, top)
BY DEF WithDescendants, ChildrenOf

\* A set of entities that holds those on top and the children of each of its
\* own holds all descendants.
LEMMA DescendantsAreIn ==
    ASSUME NEW l, NEW top, NEW shown \in SUBSET DOMAIN l, top \subseteq shown,
           \A c \in DOMAIN l : l[c].parent \in shown => c \in shown
    PROVE  WithDescendants(l, top) \subseteq shown
BY DEF WithDescendants, ChildrenOf

\* The tree that CaptureEntityTree writes from the entities without a parent
\* shows every entity of the level.
THEOREM TreeShowsAll ==
    ASSUME NEW l, IsForest(l)
    PROVE  CaptureEntityTree(l) = DOMAIN l
<1> DEFINE tree == CaptureEntityTree(l)
           left == DOMAIN l \ tree
<1>1. /\ tree \subseteq DOMAIN l
      /\ ChildrenOf(l, Nothing) \cap DOMAIN l \subseteq tree
      /\ \A c \in DOMAIN l : l[c].parent \in tree => c \in tree
  BY DescendantsAreClosed DEF CaptureEntityTree
<1> HIDE DEF tree
<1>2. SUFFICES ASSUME left # {} PROVE FALSE
  BY <1>1 DEF tree
<1>3. left \in SUBSET Nat
  BY DEF IsForest
<1>4. PICK e \in left : \A k \in left : e <= k
  BY <1>2, <1>3, LeastOf
<1>5. e \in DOMAIN l /\ e \in Nat /\ e \notin tree
  BY <1>3, <1>4
<1>6. CASE l[e].parent = Nothing
  BY <1>1, <1>5, <1>6 DEF ChildrenOf
<1>7. CASE l[e].parent \in DOMAIN l /\ l[e].parent < e
  <2>1. l[e].parent \in Nat
    BY <1>7 DEF IsForest
  <2>2. l[e].parent \notin left
    BY <1>4, <1>5, <1>7, <2>1
  <2>3. QED BY <1>1, <1>5, <1>7, <2>2
<1>8. QED BY <1>5, <1>6, <1>7 DEF IsForest

-----------------------------------------------------------------------------
(* Where entities stand in the world.  The recursive functions exist: a    *)
(* value is added to the parent's, and parents come first.                 *)

\* One that is defined for the entities up to n extends to n + 1.
LEMMA RecursionExists ==
    ASSUME NEW l, IsForest(l), NEW F \in [DOMAIN l -> [Int -> Int]], NEW u \in Nat, DOMAIN l \subseteq 1..u
    PROVE  \E at : at = [e \in DOMAIN l |-> F[e][IF l[e].parent \in DOMAIN l THEN at[l[e].parent] ELSE 0]]
<1> DEFINE D(n) == {e \in DOMAIN l : e <= n}
           Solves(at, n) == /\ at \in [D(n) -> Int]
                            /\ \A e \in D(n) : at[e] = F[e][IF l[e].parent \in DOMAIN l THEN at[l[e].parent] ELSE 0]
           Bad == {n \in Nat : ~\E at : Solves(at, n)}
<1>1. DOMAIN l \subseteq Nat \ {0}
  BY DEF IsForest
<1>2. SUFFICES Bad = {}
  <2>1. PICK at : Solves(at, u)
    BY <1>2
  <2>2. D(u) = DOMAIN l
    <3>1. \A e \in DOMAIN l : e <= u
      OBVIOUS
    <3>2. QED BY <3>1
  <2>3. at = [e \in DOMAIN l |-> F[e][IF l[e].parent \in DOMAIN l THEN at[l[e].parent] ELSE 0]]
    BY <2>1, <2>2
  <2>4. QED BY <2>3
<1>3. SUFFICES ASSUME Bad # {} PROVE FALSE
  OBVIOUS
<1>4. PICK n \in Bad : \A k \in Bad : n <= k
  <2>1. Bad \in SUBSET Nat
    OBVIOUS
  <2> HIDE DEF Bad
  <2>2. QED BY <1>3, <2>1, LeastOf
<1>5. n \in Nat /\ n # 0
  <2>1. D(0) = {}
    BY <1>1
  <2>2. Solves([e \in {} |-> 0], 0)
    BY <2>1
  <2>3. QED BY <2>2
<1>6. PICK at : Solves(at, n - 1)
  <2>1. n - 1 \in Nat /\ ~(n <= n - 1)
    BY <1>5
  <2>2. QED BY <1>4, <2>1
<1> DEFINE parentAt(f, e) == IF l[e].parent \in DOMAIN l THEN f[l[e].parent] ELSE 0
           new == [e \in D(n) |-> IF e = n THEN F[n][parentAt(at, n)] ELSE at[e]]
<1>7. ASSUME NEW e \in D(n)
      PROVE  /\ e \in DOMAIN l /\ e \in Nat
             /\ e # n => e \in D(n - 1)
             /\ l[e].parent \in DOMAIN l => l[e].parent \in D(n - 1) /\ l[e].parent # n
  <2> DEFINE p == l[e].parent
  <2>1. e \in DOMAIN l /\ e \in Nat /\ e <= n
    BY <1>1
  <2>2. p \in DOMAIN l => p \in Nat /\ p < e
    BY <1>1, <2>1 DEF IsForest, Nothing
  <2> HIDE DEF p
  <2>3. (e # n => e <= n - 1) /\ (p \in DOMAIN l => p <= n - 1 /\ p # n)
    BY <1>5, <2>1, <2>2
  <2>4. QED BY <2>1, <2>3 DEF p
<1>8. \A e \in D(n) : parentAt(at, e) \in Int /\ parentAt(new, e) = parentAt(at, e)
  <2>1. D(n - 1) \subseteq D(n)
    BY <1>1, <1>5
  <2>2. at \in [D(n - 1) -> Int]
    BY <1>6
  <2> HIDE DEF D
  <2>3. QED BY <1>7, <2>1, <2>2
<1>9. \A e \in D(n) : new[e] = F[e][parentAt(new, e)] /\ new[e] \in Int
  <2>1. \A e \in D(n - 1) : at[e] = F[e][parentAt(at, e)]
    BY <1>6
  <2> HIDE DEF D, parentAt
  <2>2. \A e \in D(n) : new[e] = F[e][parentAt(at, e)]
    BY <1>7, <2>1
  <2> HIDE DEF new
  <2>3. \A e \in D(n) : F[e][parentAt(at, e)] \in Int
    BY <1>7, <1>8
  <2>4. QED BY <1>8, <2>2, <2>3
<1>10. Solves(new, n)
  BY <1>9
<1>11. QED BY <1>4, <1>10

\* What is an integer for an entity when it is for its parent is one for all.
LEMMA IntFromParents ==
    ASSUME NEW l, IsForest(l), NEW at,
           \A e \in DOMAIN l : (l[e].parent \in DOMAIN l => at[l[e].parent] \in Int) => at[e] \in Int
    PROVE  \A e \in DOMAIN l : at[e] \in Int
<1> DEFINE Bad == {e \in DOMAIN l : at[e] \notin Int}
<1>1. SUFFICES ASSUME Bad # {} PROVE FALSE
  OBVIOUS
<1>2. Bad \in SUBSET Nat
  BY DEF IsForest
<1>3. PICK e \in Bad : \A k \in Bad : e <= k
  <2> HIDE DEF Bad
  <2>1. QED BY <1>1, <1>2, LeastOf
<1>4. e \in DOMAIN l /\ e \in Nat /\ at[e] \notin Int
  BY <1>2, <1>3
<1> DEFINE p == l[e].parent
<1>5. SUFFICES ASSUME p \in DOMAIN l, at[p] \notin Int PROVE FALSE
  BY <1>4
<1>6. p \in Nat /\ p < e
  BY <1>4, <1>5 DEF IsForest, Nothing
<1>7. p \in Bad
  BY <1>5
<1> HIDE DEF p, Bad
<1>8. e <= p
  BY <1>3, <1>7
<1>9. QED BY <1>4, <1>6, <1>8

LEMMA WorldPositionIsInt ==
    ASSUME NEW l, IsForest(l), NEW u \in Nat, DOMAIN l \subseteq 1..u,
           \A e \in DOMAIN l : l[e].position \in Int
    PROVE  WorldPosition(l) \in [DOMAIN l -> Int]
<1> DEFINE F == [e \in DOMAIN l |-> [x \in Int |-> l[e].position + x]]
           Is(at) == at = [e \in DOMAIN l |-> l[e].position + (IF l[e].parent \in DOMAIN l THEN at[l[e].parent] ELSE 0)]
           Has(at) == at = [e \in DOMAIN l |-> F[e][IF l[e].parent \in DOMAIN l THEN at[l[e].parent] ELSE 0]]
<1>1. F \in [DOMAIN l -> [Int -> Int]]
  OBVIOUS
<1>2. PICK at : Has(at)
  BY <1>1, RecursionExists
<1>3. \A e \in DOMAIN l : at[e] \in Int
  <2>1. ASSUME NEW e \in DOMAIN l, l[e].parent \in DOMAIN l => at[l[e].parent] \in Int
        PROVE  at[e] \in Int
    BY <1>2, <2>1
  <2>2. QED BY <2>1, IntFromParents
<1>4. Is(at)
  BY <1>2, <1>3
<1>5. WorldPosition(l) = CHOOSE f : Is(f)
  BY DEF WorldPosition
<1>6. Is(WorldPosition(l))
  BY <1>4, <1>5, Zenon
<1> DEFINE w == WorldPosition(l)
<1> HIDE DEF w
<1>7. w = [e \in DOMAIN l |-> l[e].position + (IF l[e].parent \in DOMAIN l THEN w[l[e].parent] ELSE 0)]
  BY <1>6 DEF w
<1>8. \A e \in DOMAIN l : w[e] \in Int
  <2>1. ASSUME NEW e \in DOMAIN l, l[e].parent \in DOMAIN l => w[l[e].parent] \in Int
        PROVE  w[e] \in Int
    BY <1>7, <2>1
  <2>2. QED BY <2>1, IntFromParents
<1>9. w \in [DOMAIN l -> Int]
  BY <1>7, <1>8
<1>10. QED BY <1>9 DEF w

LEMMA WorldRotationIsInt ==
    ASSUME NEW l, IsForest(l), NEW u \in Nat, DOMAIN l \subseteq 1..u,
           \A e \in DOMAIN l : l[e].rotation \in Int
    PROVE  WorldRotation(l) \in [DOMAIN l -> Int]
<1> DEFINE F == [e \in DOMAIN l |-> [x \in Int |-> (l[e].rotation + x) % 2]]
           Is(at) == at = [e \in DOMAIN l |-> (l[e].rotation + (IF l[e].parent \in DOMAIN l THEN at[l[e].parent] ELSE 0)) % 2]
           Has(at) == at = [e \in DOMAIN l |-> F[e][IF l[e].parent \in DOMAIN l THEN at[l[e].parent] ELSE 0]]
<1>1. F \in [DOMAIN l -> [Int -> Int]]
  OBVIOUS
<1>2. PICK at : Has(at)
  BY <1>1, RecursionExists
<1>3. \A e \in DOMAIN l : at[e] \in Int
  <2>1. ASSUME NEW e \in DOMAIN l, l[e].parent \in DOMAIN l => at[l[e].parent] \in Int
        PROVE  at[e] \in Int
    BY <1>2, <2>1
  <2>2. QED BY <2>1, IntFromParents
<1>4. Is(at)
  BY <1>2, <1>3
<1>5. WorldRotation(l) = CHOOSE f : Is(f)
  BY DEF WorldRotation
<1>6. Is(WorldRotation(l))
  BY <1>4, <1>5, Zenon
<1> DEFINE w == WorldRotation(l)
<1> HIDE DEF w
<1>7. w = [e \in DOMAIN l |-> (l[e].rotation + (IF l[e].parent \in DOMAIN l THEN w[l[e].parent] ELSE 0)) % 2]
  BY <1>6 DEF w
<1>8. \A e \in DOMAIN l : w[e] \in Int
  <2>1. ASSUME NEW e \in DOMAIN l, l[e].parent \in DOMAIN l => w[l[e].parent] \in Int
        PROVE  w[e] \in Int
    BY <1>7, <2>1
  <2>2. QED BY <2>1, IntFromParents
<1>9. w \in [DOMAIN l -> Int]
  BY <1>7, <1>8
<1>10. QED BY <1>9 DEF w
=============================================================================
