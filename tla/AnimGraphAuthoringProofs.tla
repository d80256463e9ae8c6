---------------------- MODULE AnimGraphAuthoringProofs ----------------------
(***************************************************************************)
(* Proofs about AnimGraphAuthoring, for all names and bounds: whatever     *)
(* requests, failing command groups and undos did to a graph, it is well   *)
(* formed, and a request is one step of the history or none.               *)
(***************************************************************************)
EXTENDS AnimGraphAuthoring, SequenceTheorems, WellFoundedInduction, TLAPS

Partial(D, R) == UNION {[S -> R] : S \in SUBSET D}

TransitionRecord == [source : NodeId \cup {Nothing}, target : NodeId]
WireRecord       == [source : NodeId, sourcePort : {0, 1}, target : NodeId, port : {0, 1}]

Graph == [node : Partial(NodeId, NodeRecord), transitions : Partial(1..MaxTransitions, TransitionRecord),
          wires : SUBSET WireRecord, values : SUBSET Parameter, groups : SUBSET (Parameter \cup Group)]

(***************************************************************************)
(* What every graph satisfies, the current one and those an undo can bring *)
(* back.  All but Rooted and Linked are the runs' invariants, of a graph g *)
(* instead of the current one.                                             *)
(***************************************************************************)

\* The nodes are a tree's: each but the root is in a node of the graph.
Rooted(g) == /\ Root \in Ids(g) /\ g.node[Root].parent = Nothing
             /\ \A n \in Ids(g) \ {Root} : g.node[n].parent \in Ids(g)

\* Nothing is joined to a node the graph does not have.
Linked(g) == /\ \A t \in DOMAIN g.transitions : /\ g.transitions[t].source \in Ids(g) \cup {Nothing}
                                                /\ g.transitions[t].target \in Ids(g)
             /\ \A w \in g.wires : w.source \in Ids(g) /\ w.target \in Ids(g)

Unique(g) == \A m, n \in Ids(g) : g.node[m].name = g.node[n].name => m = n

Placed(g) == \A n \in Ids(g) \ {Root} :
    /\ g.node[n].kind \in {"math", "final"} => ParentKind(g, n) = "tree"
    /\ g.node[n].kind = "exit" => ParentKind(g, n) = "machine" /\ g.node[n].parent # Root
    /\ ParentKind(g, n) \in {"machine", "tree"}
    /\ g.node[n].kind = "final" => \A c \in Children(g, g.node[n].parent) \ {n} : g.node[c].kind # "final"

Joined(g) == \A t \in DOMAIN g.transitions :
    /\ IsState(g, g.transitions[t].target)
    /\ g.transitions[t].source # Nothing =>
          /\ g.transitions[t].source # g.transitions[t].target
          /\ g.node[g.transitions[t].source].parent = g.node[g.transitions[t].target].parent
          /\ g.node[g.transitions[t].source].kind # "exit"

Entered(g) == \A m \in Ids(g) : g.node[m].entry # Nothing =>
    g.node[m].kind = "machine" /\ g.node[m].entry \in Children(g, m)

Ported(g) == \A v, w \in g.wires : v.target = w.target /\ v.port = w.port => v = w

Treed(g)   == \A w \in g.wires : g.node[w.source].parent = g.node[w.target].parent
Acyclic(g) == \A w \in g.wires : ~Feeds(g, w.target, w.source)

WellFormed(g) == /\ g \in Graph /\ Rooted(g) /\ Linked(g) /\ Unique(g) /\ Placed(g)
                 /\ Joined(g) /\ Entered(g) /\ Ported(g) /\ Treed(g) /\ Acyclic(g)

WellFormedGraph == {g \in Graph : WellFormed(g)}

IInv == /\ graph \in WellFormedGraph
        /\ past \in Seq(WellFormedGraph) /\ Len(past) <= MaxUndo
        /\ answer \in {"none", "ok", "engine_error"}

-----------------------------------------------------------------------------
(* Graphs and their operators.                                             *)

LEMMA PartialIs ==
    ASSUME NEW D, NEW R, NEW f
    PROVE  f \in Partial(D, R) <=> DOMAIN f \subseteq D /\ f \in [DOMAIN f -> R]
BY DEF Partial

LEMMA GraphFacts ==
    ASSUME NEW g \in Graph
    PROVE  /\ Ids(g) \subseteq NodeId /\ g.node \in [Ids(g) -> NodeRecord]
           /\ \A n \in Ids(g) : /\ g.node[n] \in NodeRecord
                                /\ g.node[n].kind \in Kind /\ g.node[n].parent \in NodeId \cup {Nothing}
                                /\ g.node[n].name \in Name \cup {RootName, UnsafeName}
                                /\ g.node[n].entry \in NodeId \cup {Nothing}
           /\ DOMAIN g.transitions \subseteq 1..MaxTransitions
           /\ g.transitions \in [DOMAIN g.transitions -> TransitionRecord]
           /\ \A t \in DOMAIN g.transitions : /\ g.transitions[t] \in TransitionRecord
                                              /\ g.transitions[t].source \in NodeId \cup {Nothing}
                                              /\ g.transitions[t].target \in NodeId
           /\ g.wires \subseteq WireRecord
           /\ \A w \in g.wires : w.source \in NodeId /\ w.target \in NodeId
           /\ g.values \subseteq Parameter /\ g.groups \subseteq Parameter \cup Group
<1>1. /\ g.node \in Partial(NodeId, NodeRecord)
      /\ g.transitions \in Partial(1..MaxTransitions, TransitionRecord)
      /\ g.wires \subseteq WireRecord
      /\ g.values \subseteq Parameter /\ g.groups \subseteq Parameter \cup Group
  BY DEF Graph
<1>2. Ids(g) \subseteq NodeId /\ g.node \in [Ids(g) -> NodeRecord]
  BY <1>1, PartialIs DEF Ids
<1>3. DOMAIN g.transitions \subseteq 1..MaxTransitions /\ g.transitions \in [DOMAIN g.transitions -> TransitionRecord]
  BY <1>1, PartialIs
<1>4. \A n \in Ids(g) : g.node[n] \in NodeRecord
  BY <1>2
<1>5. \A x \in NodeRecord : /\ x.kind \in Kind /\ x.parent \in NodeId \cup {Nothing}
                            /\ x.name \in Name \cup {RootName, UnsafeName}
                            /\ x.entry \in NodeId \cup {Nothing}
  BY DEF NodeRecord
<1>6. \A t \in DOMAIN g.transitions : g.transitions[t] \in TransitionRecord
  BY <1>3
<1>7. \A x \in TransitionRecord : x.source \in NodeId \cup {Nothing} /\ x.target \in NodeId
  BY DEF TransitionRecord
<1>8. \A w \in WireRecord : w.source \in NodeId /\ w.target \in NodeId
  BY DEF WireRecord
<1>9. QED BY <1>1, <1>2, <1>3, <1>4, <1>5, <1>6, <1>7, <1>8

\* The fields of a graph that one command replaces.
LEMMA ChangedGraph ==
    ASSUME NEW g \in Graph
    PROVE  /\ \A f \in Partial(NodeId, NodeRecord) :
                 /\ [g EXCEPT !.node = f] \in Graph
                 /\ [g EXCEPT !.node = f].node = f
                 /\ [g EXCEPT !.node = f].transitions = g.transitions
                 /\ [g EXCEPT !.node = f].wires = g.wires
           /\ \A f \in Partial(1..MaxTransitions, TransitionRecord) :
                 /\ [g EXCEPT !.transitions = f] \in Graph
                 /\ [g EXCEPT !.transitions = f].transitions = f
                 /\ [g EXCEPT !.transitions = f].node = g.node
                 /\ [g EXCEPT !.transitions = f].wires = g.wires
           /\ \A ws \in SUBSET WireRecord :
                 /\ [g EXCEPT !.wires = ws] \in Graph
                 /\ [g EXCEPT !.wires = ws].wires = ws
                 /\ [g EXCEPT !.wires = ws].node = g.node
                 /\ [g EXCEPT !.wires = ws].transitions = g.transitions
BY DEF Graph

LEMMA NothingIsNoNode == Nothing \notin NodeId /\ Root \in NodeId
BY BoundsArePositive DEF Nothing, NodeId, Root

LEMMA NamedIs ==
    ASSUME NEW g, Unique(g), NEW n \in Ids(g)
    PROVE  Named(g, g.node[n].name) = n
BY DEF Named, Unique

LEMMA LeastOf ==
    ASSUME NEW S \in SUBSET Nat, S # {}
    PROVE  (CHOOSE m \in S : \A k \in S : m <= k) \in S
<1>1. PICK x \in S : \A y \in S : ~(<<y, x>> \in OpToRel(<, Nat))
  BY NatLessThanWellFounded, WFMin
<1>2. \A y \in S : ~(y < x)
  BY <1>1 DEF OpToRel
<1>3. \A y \in S : x <= y
  BY <1>2
<1>4. QED BY <1>3

LEMMA FreshNodeIsFresh ==
    ASSUME NEW g, NodeId \ Ids(g) # {}
    PROVE  FreshNode(g) \in NodeId \ Ids(g)
<1>1. NodeId \ Ids(g) \in SUBSET Nat
  BY DEF NodeId
<1>2. QED BY <1>1, LeastOf DEF FreshNode

LEMMA FreshTransitionIsFresh ==
    ASSUME NEW g, (1..MaxTransitions) \ DOMAIN g.transitions # {}
    PROVE  FreshTransition(g) \in (1..MaxTransitions) \ DOMAIN g.transitions
<1>1. (1..MaxTransitions) \ DOMAIN g.transitions \in SUBSET Nat
  OBVIOUS
<1>2. QED BY <1>1, LeastOf DEF FreshTransition

\* Subtree is closed, without the root, and all of it but n hangs below it.
LEMMA SubtreeFacts ==
    ASSUME NEW g \in Graph, Rooted(g), NEW n \in Ids(g) \ {Root}
    PROVE  /\ n \in Subtree(g, n) /\ Subtree(g, n) \subseteq Ids(g) \ {Root}
           /\ \A m \in Ids(g) : m # Root /\ g.node[m].parent \in Subtree(g, n) => m \in Subtree(g, n)
           /\ \A m \in Subtree(g, n) : m # n => g.node[m].parent \in Subtree(g, n)
<1>1. n \in Subtree(g, n)
  BY DEF Subtree
<1>2. Subtree(g, n) \subseteq Ids(g)
  BY DEF Subtree
<1>3. Root \notin Subtree(g, n)
  <2> DEFINE S == Ids(g) \ {Root}
  <2>1. n \in S /\ S \in SUBSET Ids(g)
    OBVIOUS
  <2>2. \A p \in S : Children(g, p) \subseteq S
    BY GraphFacts, NothingIsNoNode DEF Children, Rooted
  <2>3. QED BY <2>1, <2>2 DEF Subtree
<1>4. ASSUME NEW m \in Ids(g), g.node[m].parent \in Subtree(g, n)
      PROVE  m \in Subtree(g, n)
  BY <1>4 DEF Subtree, Children
<1>5. ASSUME NEW m \in Subtree(g, n), m # n, g.node[m].parent \notin Subtree(g, n)
      PROVE  FALSE
  <2> DEFINE S == Subtree(g, n) \ {m}
  <2>1. n \in S /\ S \in SUBSET Ids(g)
    BY <1>1, <1>2, <1>5
  <2>2. \A p \in S : Children(g, p) \subseteq S
    BY <1>2, <1>4, <1>5 DEF Children
  <2>3. m \in S
    <3> HIDE DEF S
    <3>1. QED BY <2>1, <2>2, <1>5 DEF Subtree
  <2>4. QED BY <2>3
<1>6. QED BY <1>1, <1>2, <1>3, <1>4, <1>5

-----------------------------------------------------------------------------
(* Feeds: the nodes of a graph from which to cannot be reached are closed  *)
(* under its wires.                                                        *)

Closed(g, S) == \A w \in g.wires : w.source \in S => w.target \in S

Reach(g, from) == {n \in Ids(g) : Feeds(g, from, n)}

LEMMA FeedsFacts ==
    ASSUME NEW g
    PROVE  /\ \A from, to : ~Feeds(g, from, to) <=> \E S \in SUBSET Ids(g) : from \in S /\ Closed(g, S) /\ to \notin S
           /\ \A from \in Ids(g) : from \in Reach(g, from)
           /\ \A from, to \in Ids(g) : to \in Reach(g, from) <=> Feeds(g, from, to)
BY DEF Feeds, Closed, Reach

LEMMA ReachIsClosed ==
    ASSUME NEW g, Linked(g), NEW from
    PROVE  Reach(g, from) \in SUBSET Ids(g) /\ Closed(g, Reach(g, from))
<1>1. ASSUME NEW w \in g.wires, w.source \in Reach(g, from), w.target \notin Reach(g, from)
      PROVE  FALSE
  <2>1. w.target \in Ids(g) /\ Feeds(g, from, w.source) /\ ~Feeds(g, from, w.target)
    BY <1>1 DEF Reach, Linked
  <2>2. PICK S \in SUBSET Ids(g) : from \in S /\ Closed(g, S) /\ w.target \notin S
    BY <2>1, FeedsFacts
  <2>3. w.source \in S
    BY <2>1, <2>2, FeedsFacts
  <2>4. QED BY <2>2, <2>3 DEF Closed
<1>2. QED BY <1>1 DEF Closed, Reach

\* Fewer wires, or more nodes, make no cycle.
LEMMA FewerWires ==
    ASSUME NEW g, NEW h, Linked(h), Acyclic(g), h.wires \subseteq g.wires
    PROVE  Acyclic(h)
<1> SUFFICES ASSUME NEW w \in h.wires PROVE ~Feeds(h, w.target, w.source)
  BY DEF Acyclic
<1>1. PICK S \in SUBSET Ids(g) : w.target \in S /\ Closed(g, S) /\ w.source \notin S
  BY FeedsFacts DEF Acyclic
<1> DEFINE T == S \cap Ids(h)
<1>2. T \in SUBSET Ids(h) /\ w.target \in T /\ w.source \notin T
  BY <1>1 DEF Linked
<1>3. Closed(h, T)
  BY <1>1 DEF Closed, Linked
<1>4. QED BY <1>2, <1>3, FeedsFacts

\* Nor does a wire into a node its source cannot be reached from.
LEMMA OneMoreWire ==
    ASSUME NEW g, NEW h, Linked(g), Acyclic(g), Ids(h) = Ids(g), NEW x, h.wires = g.wires \cup {x},
           x.source \in Ids(g), x.target \in Ids(g), ~Feeds(g, x.target, x.source)
    PROVE  Acyclic(h)
<1> SUFFICES ASSUME NEW w \in h.wires PROVE ~Feeds(h, w.target, w.source)
  BY DEF Acyclic
<1>1. /\ Reach(g, x.target) \in SUBSET Ids(g) /\ Closed(g, Reach(g, x.target))
      /\ x.target \in Reach(g, x.target) /\ x.source \notin Reach(g, x.target)
  BY ReachIsClosed, FeedsFacts
<1>2. CASE w = x
  <2>1. Closed(h, Reach(g, x.target))
    BY <1>1 DEF Closed
  <2>2. QED BY <1>1, <1>2, <2>1, FeedsFacts
<1>3. CASE w # x
  <2> DEFINE A == Reach(g, w.target)
             B == Reach(g, x.target)
  <2>1. w \in g.wires /\ w.source \in Ids(g) /\ w.target \in Ids(g) /\ ~Feeds(g, w.target, w.source)
    BY <1>3 DEF Acyclic, Linked
  <2>2. A \in SUBSET Ids(g) /\ Closed(g, A) /\ w.target \in A /\ w.source \notin A
    BY <2>1, ReachIsClosed, FeedsFacts
  <2>3. CASE x.source \notin A
    <3>1. Closed(h, A)
      BY <2>2, <2>3 DEF Closed
    <3>2. QED BY <2>2, <3>1, FeedsFacts
  <2>4. CASE x.source \in A
    <3>1. w.source \notin B
      <4> SUFFICES ASSUME w.source \in B PROVE FALSE
        OBVIOUS
      <4>1. w.target \in B
        BY <1>1, <2>1 DEF Closed
      <4>2. Feeds(g, w.target, x.source)
        BY <2>1, <2>4, FeedsFacts
      <4>3. x.source \in B
        BY <1>1, <4>1, <4>2 DEF Feeds, Closed
      <4>4. QED BY <1>1, <4>3
    <3>2. Closed(h, A \cup B) /\ A \cup B \in SUBSET Ids(h)
      BY <1>1, <2>2 DEF Closed
    <3>3. w.target \in A \cup B /\ w.source \notin A \cup B
      BY <2>2, <3>1
    <3>4. QED BY <3>2, <3>3, FeedsFacts
  <2>5. QED BY <2>3, <2>4
<1>4. QED BY <1>2, <1>3

-----------------------------------------------------------------------------
(* Every command makes a well-formed graph of one.                         *)

LEMMA NodeFields ==
    ASSUME NEW kind, NEW parent, NEW name
    PROVE  /\ Node(kind, parent, name).kind = kind /\ Node(kind, parent, name).parent = parent
           /\ Node(kind, parent, name).name = name /\ Node(kind, parent, name).entry = Nothing
BY DEF Node

\* What is said of the nodes alone stays when only the rest changes.
LEMMA SameNodes ==
    ASSUME NEW g, NEW h, h.node = g.node, WellFormed(g)
    PROVE  /\ Ids(h) = Ids(g) /\ Rooted(h) /\ Unique(h) /\ Placed(h) /\ Entered(h)
           /\ \A n : Children(h, n) = Children(g, n) /\ ParentKind(h, n) = ParentKind(g, n)
                     /\ (IsState(h, n) <=> IsState(g, n))
<1>1. Ids(h) = Ids(g)
  BY DEF Ids
<1>2. \A n : /\ Children(h, n) = Children(g, n) /\ ParentKind(h, n) = ParentKind(g, n)
             /\ (IsState(h, n) <=> IsState(g, n))
  BY <1>1 DEF Children, ParentKind, IsState
<1>3. Rooted(h) /\ Unique(h)
  BY <1>1 DEF WellFormed, Rooted, Unique
<1>4. Placed(h)
  BY <1>1, <1>2 DEF WellFormed, Placed
<1>5. Entered(h)
  BY <1>1, <1>2 DEF WellFormed, Entered
<1>6. QED BY <1>1, <1>2, <1>3, <1>4, <1>5

\* The new node is nobody's child, end or entry yet, and its parent keeps its
\* kind.
LEMMA CreateNodeKeeps ==
    ASSUME NEW g, WellFormed(g), NEW kind \in Kind, NEW name \in Name, name \notin Names(g),
           NEW p \in Ids(g), NodeId \ Ids(g) # {}, Placeable(g, kind, p)
    PROVE  WellFormed(CreateNode(g, kind, g.node[p].name, name))
<1> DEFINE n == FreshNode(g)
           first == g.node[p].kind = "machine" /\ g.node[p].entry = Nothing /\ kind \in CanBeEntryNode
           F == [m \in Ids(g) \cup {n} |-> CASE m = n          -> Node(kind, p, name)
                                             [] m = p /\ first -> [g.node[p] EXCEPT !.entry = n]
                                             [] OTHER          -> g.node[m]]
           h == CreateNode(g, kind, g.node[p].name, name)
<1>1. g \in Graph /\ Rooted(g) /\ Linked(g) /\ Unique(g) /\ Placed(g)
      /\ Joined(g) /\ Entered(g) /\ Ported(g) /\ Treed(g) /\ Acyclic(g)
  BY DEF WellFormed
<1>2. n \in NodeId \ Ids(g)
  BY FreshNodeIsFresh
<1>3. h = [g EXCEPT !.node = F]
  BY <1>1, NamedIs DEF CreateNode
<1> HIDE DEF n, h
<1>4. \A m \in Ids(g) : /\ F[m].kind = g.node[m].kind /\ F[m].parent = g.node[m].parent
                        /\ F[m].name = g.node[m].name /\ F[m] \in NodeRecord
                        /\ F[m].entry = IF m = p /\ first THEN n ELSE g.node[m].entry
  <2>1. ASSUME NEW m \in Ids(g), m = p, first
        PROVE  /\ F[m].kind = g.node[m].kind /\ F[m].parent = g.node[m].parent
               /\ F[m].name = g.node[m].name /\ F[m] \in NodeRecord /\ F[m].entry = n
    <3>1. F[m] = [g.node[m] EXCEPT !.entry = n] /\ g.node[m] \in NodeRecord
      BY <1>1, <1>2, <2>1, GraphFacts
    <3>2. QED BY <1>2, <3>1 DEF NodeRecord
  <2>2. ASSUME NEW m \in Ids(g), ~(m = p /\ first)
        PROVE  F[m] = g.node[m] /\ F[m] \in NodeRecord
    BY <1>1, <1>2, <2>2, GraphFacts
  <2>3. QED BY <2>1, <2>2
<1>5. F[n] = Node(kind, p, name) /\ F[n] \in NodeRecord
  BY <1>1, <1>2, GraphFacts DEF Node, NodeRecord
<1>6. F \in Partial(NodeId, NodeRecord)
  <2>1. DOMAIN F = Ids(g) \cup {n} /\ \A m \in DOMAIN F : F[m] \in NodeRecord
    BY <1>4, <1>5
  <2>2. F \in [DOMAIN F -> NodeRecord]
    BY <2>1
  <2>3. DOMAIN F \subseteq NodeId
    BY <1>1, <1>2, <2>1, GraphFacts
  <2>4. QED BY <2>2, <2>3, PartialIs
<1>7. /\ h \in Graph /\ h.node = F /\ h.transitions = g.transitions /\ h.wires = g.wires
      /\ Ids(h) = Ids(g) \cup {n}
  <2>1. h \in Graph /\ h.node = F /\ h.transitions = g.transitions /\ h.wires = g.wires
    BY <1>1, <1>3, <1>6, ChangedGraph
  <2>2. QED BY <2>1 DEF Ids
<1> HIDE DEF F
<1>8. /\ \A m \in Ids(g) : /\ h.node[m].kind = g.node[m].kind /\ h.node[m].parent = g.node[m].parent
                           /\ h.node[m].name = g.node[m].name
                           /\ h.node[m].entry = IF m = p /\ first THEN n ELSE g.node[m].entry
      /\ h.node[n].kind = kind /\ h.node[n].parent = p /\ h.node[n].name = name /\ h.node[n].entry = Nothing
  BY <1>4, <1>5, <1>7, NodeFields
<1>9. Rooted(h)
  BY <1>1, <1>2, <1>7, <1>8, NothingIsNoNode DEF Rooted
<1>10. Linked(h)
  BY <1>1, <1>7 DEF Linked
<1>11. Unique(h)
  <2>1. \A m \in Ids(g) : g.node[m].name # name
    BY DEF Names
  <2>2. QED BY <1>1, <1>7, <1>8, <2>1 DEF Unique
<1>12. /\ \A m \in Ids(g) \ {Root} : ParentKind(h, m) = ParentKind(g, m)
       /\ ParentKind(h, n) = g.node[p].kind
       /\ \A m \in Ids(g) \ {p} : Children(h, m) = Children(g, m)
       /\ Children(h, p) = Children(g, p) \cup {n}
       /\ n # Root
  <2>1. \A m \in Ids(g) \ {Root} : ParentKind(h, m) = ParentKind(g, m)
    BY <1>1, <1>8 DEF ParentKind, Rooted
  <2>2. ParentKind(h, n) = g.node[p].kind
    BY <1>8 DEF ParentKind
  <2>3. \A m : Children(h, m) = IF m = p THEN Children(g, p) \cup {n} ELSE Children(g, m)
    BY <1>2, <1>7, <1>8 DEF Children
  <2>4. QED BY <1>1, <1>2, <2>1, <2>2, <2>3 DEF Rooted
<1>13. Placed(h)
  <2>1. ASSUME NEW m \in Ids(g) \ {Root}
        PROVE  /\ h.node[m].kind \in {"math", "final"} => ParentKind(h, m) = "tree"
               /\ h.node[m].kind = "exit" => ParentKind(h, m) = "machine" /\ h.node[m].parent # Root
               /\ ParentKind(h, m) \in {"machine", "tree"}
    BY <1>1, <1>8, <1>12 DEF Placed
  <2>2. /\ kind \in {"math", "final"} => ParentKind(h, n) = "tree"
        /\ kind = "exit" => ParentKind(h, n) = "machine" /\ p # Root
        /\ ParentKind(h, n) \in {"machine", "tree"}
    BY <1>12 DEF Placeable, CanHaveChildren, CanActAsState, InsideMachineOnly, InsideChildOnly
  <2>3. kind = "final" => \A c \in Children(g, p) : g.node[c].kind # "final"
    BY DEF Placeable, OnlyOneInside
  <2>4. ASSUME NEW m \in Ids(g) \ {Root}, h.node[m].kind = "final",
               NEW c \in Children(h, h.node[m].parent) \ {m}
        PROVE  h.node[c].kind # "final"
    <3>1. CASE c = n
      <4>1. h.node[m].parent = p /\ m \in Children(g, p)
        BY <1>2, <1>7, <1>8, <2>4, <3>1 DEF Children
      <4>2. kind # "final"
        BY <1>8, <2>3, <2>4, <4>1
      <4>3. QED BY <1>8, <3>1, <4>2
    <3>2. CASE c # n
      <4>1. c \in Children(g, g.node[m].parent) \ {m} /\ c \in Ids(g) /\ g.node[m].kind = "final"
        BY <1>7, <1>8, <2>4, <3>2 DEF Children
      <4>2. QED BY <1>1, <1>8, <4>1 DEF Placed
    <3>3. QED BY <3>1, <3>2
  <2>5. kind = "final" => \A c \in Children(h, p) \ {n} : h.node[c].kind # "final"
    BY <1>8, <1>12, <2>3 DEF Children
  <2>6. QED BY <1>7, <1>8, <2>1, <2>2, <2>4, <2>5 DEF Placed
<1>14. Joined(h)
  <2>1. \A m \in Ids(g) : IsState(g, m) => IsState(h, m)
    BY <1>12 DEF IsState
  <2>2. QED BY <1>1, <1>7, <1>8, <2>1 DEF Joined, Linked
<1>15. Entered(h)
  <2>1. ASSUME NEW m \in Ids(g), h.node[m].entry # Nothing
        PROVE  h.node[m].kind = "machine" /\ h.node[m].entry \in Children(h, m)
    <3>1. CASE m = p /\ first
      BY <1>8, <1>12, <3>1
    <3>2. CASE ~(m = p /\ first)
      BY <1>1, <1>8, <1>12, <2>1, <3>2 DEF Entered
    <3>3. QED BY <3>1, <3>2
  <2>2. QED BY <1>7, <1>8, <2>1 DEF Entered
<1>16. Ported(h) /\ Treed(h)
  BY <1>1, <1>7, <1>8 DEF Ported, Treed, Linked
<1>17. Acyclic(h)
  BY <1>1, <1>7, <1>10, FewerWires
<1>18. WellFormed(h)
  BY <1>7, <1>9, <1>10, <1>11, <1>13, <1>14, <1>15, <1>16, <1>17 DEF WellFormed
<1>19. QED BY <1>18 DEF h

\* What goes hangs below the node; what stays keeps its parent, its ends and,
\* unless it was the node itself, its entry state.
LEMMA RemoveNamedKeeps ==
    ASSUME NEW g, WellFormed(g), NEW n \in Ids(g) \ {Root}, NEW e,
           e \in {Nothing} \cup {c \in Children(g, g.node[n].parent) \ {n} : g.node[c].kind \in CanBeEntryNode}
    PROVE  WellFormed(RemoveNamed(g, g.node[n].name, e))
<1> DEFINE gone == Subtree(g, n)
           kept == Ids(g) \ gone
           F == [m \in kept |-> IF g.node[m].entry \in gone THEN [g.node[m] EXCEPT !.entry = e] ELSE g.node[m]]
           W == {w \in g.wires : {w.source, w.target} \cap gone = {}}
           U == {u \in DOMAIN g.transitions : {g.transitions[u].source, g.transitions[u].target} \cap gone = {}}
           T == [t \in U |-> g.transitions[t]]
           h == RemoveNamed(g, g.node[n].name, e)
<1>1. g \in Graph /\ Rooted(g) /\ Linked(g) /\ Unique(g) /\ Placed(g)
      /\ Joined(g) /\ Entered(g) /\ Ported(g) /\ Treed(g) /\ Acyclic(g)
  BY DEF WellFormed
<1>2. h = [g EXCEPT !.node = F, !.wires = W, !.transitions = T]
  BY <1>1, NamedIs DEF RemoveNamed
<1>3. /\ n \in gone /\ gone \subseteq Ids(g) \ {Root}
      /\ \A m \in Ids(g) : m # Root /\ g.node[m].parent \in gone => m \in gone
      /\ \A m \in gone : m # n => g.node[m].parent \in gone
  BY <1>1, SubtreeFacts
<1>4. Ids(g) \subseteq NodeId /\ Nothing \notin gone /\ e \in NodeId \cup {Nothing}
  BY <1>1, <1>3, GraphFacts, NothingIsNoNode DEF Children
<1> HIDE DEF gone
<1>5. \A m \in kept : /\ F[m].kind = g.node[m].kind /\ F[m].parent = g.node[m].parent
                      /\ F[m].name = g.node[m].name /\ F[m] \in NodeRecord
                      /\ F[m].entry = IF g.node[m].entry \in gone THEN e ELSE g.node[m].entry
  <2>1. ASSUME NEW m \in kept, g.node[m].entry \in gone
        PROVE  /\ F[m].kind = g.node[m].kind /\ F[m].parent = g.node[m].parent
               /\ F[m].name = g.node[m].name /\ F[m] \in NodeRecord /\ F[m].entry = e
    <3>1. F[m] = [g.node[m] EXCEPT !.entry = e] /\ g.node[m] \in NodeRecord
      BY <1>1, <2>1, GraphFacts
    <3>2. QED BY <1>4, <3>1 DEF NodeRecord
  <2>2. ASSUME NEW m \in kept, g.node[m].entry \notin gone
        PROVE  F[m] = g.node[m] /\ F[m] \in NodeRecord
    BY <1>1, <2>2, GraphFacts
  <2>3. QED BY <2>1, <2>2
<1>6. F \in Partial(NodeId, NodeRecord) /\ DOMAIN F = kept
  <2>1. F \in [kept -> NodeRecord] /\ DOMAIN F = kept
    BY <1>5
  <2>2. QED BY <1>4, <2>1, PartialIs
<1>7. T \in Partial(1..MaxTransitions, TransitionRecord) /\ DOMAIN T = U
  <2>1. U \subseteq DOMAIN g.transitions /\ \A t \in U : g.transitions[t] \in TransitionRecord
    BY <1>1, GraphFacts
  <2>2. T \in [U -> TransitionRecord] /\ DOMAIN T = U
    BY <2>1
  <2>3. U \subseteq 1..MaxTransitions
    BY <1>1, <2>1, GraphFacts
  <2> HIDE DEF T, U
  <2>4. QED BY <2>2, <2>3, PartialIs
<1>8. W \in SUBSET WireRecord /\ W \subseteq g.wires
  BY <1>1, GraphFacts
<1>9. \A t \in U : T[t] = g.transitions[t]
  OBVIOUS
<1> HIDE DEF F, T, h
<1>10. h \in Graph /\ h.node = F /\ h.transitions = T /\ h.wires = W /\ Ids(h) = kept
  <2>1. h \in Graph /\ h.node = F /\ h.transitions = T /\ h.wires = W
    BY <1>1, <1>2, <1>6, <1>7, <1>8 DEF Graph
  <2>2. QED BY <1>6, <2>1 DEF Ids
<1>11. /\ \A m \in kept : /\ h.node[m].kind = g.node[m].kind /\ h.node[m].parent = g.node[m].parent
                          /\ h.node[m].name = g.node[m].name
                          /\ h.node[m].entry = IF g.node[m].entry \in gone THEN e ELSE g.node[m].entry
       /\ DOMAIN h.transitions = U
       /\ \A t \in U : h.transitions[t] = g.transitions[t]
  BY <1>5, <1>7, <1>9, <1>10
<1>12. \A m \in kept \ {Root} : g.node[m].parent \in kept
  BY <1>1, <1>3 DEF Rooted
<1>13. Root \in kept
  BY <1>1, <1>3 DEF Rooted
<1>14. Rooted(h)
  BY <1>1, <1>10, <1>11, <1>12, <1>13 DEF Rooted
<1>15. Linked(h)
  <2>1. \A t \in U : /\ h.transitions[t].source \in kept \cup {Nothing}
                     /\ h.transitions[t].target \in kept
    BY <1>1, <1>11 DEF Linked
  <2>2. \A w \in W : w.source \in kept /\ w.target \in kept
    BY <1>1 DEF Linked
  <2>3. QED BY <1>10, <1>11, <2>1, <2>2 DEF Linked
<1>16. Unique(h)
  BY <1>1, <1>10, <1>11 DEF Unique
<1>17. /\ \A m \in kept \ {Root} : ParentKind(h, m) = ParentKind(g, m) /\ (IsState(h, m) <=> IsState(g, m))
       /\ \A m : Children(h, m) = Children(g, m) \cap kept
  <2>1. \A m \in kept \ {Root} : ParentKind(h, m) = ParentKind(g, m)
    BY <1>11, <1>12 DEF ParentKind
  <2>2. QED BY <1>10, <1>11, <2>1 DEF Children, IsState
<1>18. Placed(h)
  <2>1. ASSUME NEW m \in kept \ {Root}
        PROVE  /\ h.node[m].kind \in {"math", "final"} => ParentKind(h, m) = "tree"
               /\ h.node[m].kind = "exit" => ParentKind(h, m) = "machine" /\ h.node[m].parent # Root
               /\ ParentKind(h, m) \in {"machine", "tree"}
    BY <1>1, <1>11, <1>17 DEF Placed
  <2>2. ASSUME NEW m \in kept \ {Root}, h.node[m].kind = "final",
               NEW c \in Children(h, h.node[m].parent) \ {m}
        PROVE  h.node[c].kind # "final"
    <3>1. c \in Children(g, g.node[m].parent) \ {m} /\ c \in kept /\ g.node[m].kind = "final"
      BY <1>11, <1>17, <2>2
    <3>2. QED BY <1>1, <1>11, <3>1 DEF Placed
  <2>3. QED BY <1>10, <2>1, <2>2 DEF Placed
<1>19. Joined(h)
  <2>1. ASSUME NEW t \in U
        PROVE  /\ h.transitions[t] = g.transitions[t] /\ g.transitions[t].target \in kept
               /\ g.transitions[t].source # Nothing => g.transitions[t].source \in kept
    BY <1>1, <1>11 DEF Linked
  <2>2. ASSUME NEW t \in U
        PROVE  IsState(h, h.transitions[t].target)
    <3>1. IsState(g, g.transitions[t].target) /\ g.transitions[t].target # Root
      BY <1>1 DEF Joined, IsState
    <3>2. QED BY <1>17, <2>1, <3>1
  <2>3. ASSUME NEW t \in U, g.transitions[t].source # Nothing
        PROVE  /\ g.transitions[t].source # g.transitions[t].target
               /\ h.node[g.transitions[t].source].parent = h.node[g.transitions[t].target].parent
               /\ h.node[g.transitions[t].source].kind # "exit"
    <3>1. g.transitions[t].source \in kept /\ g.transitions[t].target \in kept
      BY <2>1, <2>3
    <3>2. QED BY <1>1, <1>11, <2>3, <3>1 DEF Joined
  <2>4. QED BY <1>11, <2>1, <2>2, <2>3 DEF Joined
<1>20. Entered(h)
  <2> SUFFICES ASSUME NEW m \in kept, h.node[m].entry # Nothing
               PROVE  h.node[m].kind = "machine" /\ h.node[m].entry \in Children(h, m)
    BY <1>10 DEF Entered
  <2>1. CASE g.node[m].entry \notin gone
    <3>1. g.node[m].entry = h.node[m].entry
      BY <1>11, <2>1
    <3>2. g.node[m].kind = "machine" /\ g.node[m].entry \in Children(g, m)
      BY <1>1, <3>1 DEF Entered
    <3>3. QED BY <1>11, <1>17, <2>1, <3>1, <3>2 DEF Children
  <2>2. CASE g.node[m].entry \in gone
    <3>1. g.node[m].kind = "machine" /\ g.node[m].entry \in Children(g, m)
      BY <1>1, <1>4, <2>2 DEF Entered
    <3>2. g.node[m].entry = n /\ m = g.node[n].parent
      BY <1>3, <2>2, <3>1 DEF Children
    <3>3. h.node[m].entry = e /\ e \in Children(g, m) \ {n}
      BY <1>11, <2>2, <3>2
    <3>4. e \notin gone
      BY <1>3, <3>3 DEF Children
    <3>5. QED BY <1>11, <1>17, <3>1, <3>3, <3>4 DEF Children
  <2>3. QED BY <2>1, <2>2
<1>21. Ported(h)
  BY <1>1, <1>8, <1>10 DEF Ported
<1>22. Treed(h)
  <2>1. \A w \in W : w \in g.wires /\ w.source \in kept /\ w.target \in kept
    BY <1>10, <1>15 DEF Linked
  <2>2. QED BY <1>1, <1>10, <1>11, <2>1 DEF Treed
<1>23. Acyclic(h)
  BY <1>1, <1>8, <1>10, <1>15, FewerWires
<1>24. WellFormed(h)
  BY <1>10, <1>14, <1>15, <1>16, <1>18, <1>19, <1>20, <1>21, <1>22, <1>23 DEF WellFormed
<1>25. QED BY <1>24 DEF h

\* h has the nodes of g under the same parents, of the same kinds, joined by
\* the same transitions and wires; entry states are what they have to be.
SameShape(g, h) ==
    /\ Ids(h) = Ids(g) /\ h.transitions = g.transitions /\ h.wires = g.wires
    /\ \A m \in Ids(g) : h.node[m].kind = g.node[m].kind /\ h.node[m].parent = g.node[m].parent
    /\ \A m \in Ids(g) : h.node[m].entry # Nothing =>
          h.node[m].kind = "machine" /\ h.node[m].entry \in Children(g, m)

LEMMA SameShapeKeeps ==
    ASSUME NEW g, WellFormed(g), NEW h, SameShape(g, h), Linked(h)
    PROVE  Placed(h) /\ Joined(h) /\ Entered(h) /\ Ported(h) /\ Treed(h) /\ Acyclic(h)
<1>1. g \in Graph /\ Rooted(g) /\ Linked(g) /\ Placed(g)
      /\ Joined(g) /\ Entered(g) /\ Ported(g) /\ Treed(g) /\ Acyclic(g)
  BY DEF WellFormed
<1>2. /\ Ids(h) = Ids(g) /\ h.transitions = g.transitions /\ h.wires = g.wires
      /\ \A m \in Ids(g) : h.node[m].kind = g.node[m].kind /\ h.node[m].parent = g.node[m].parent
  BY DEF SameShape
<1>3. \A m : Children(h, m) = Children(g, m)
  BY <1>2 DEF Children
<1>4. \A m \in Ids(g) \ {Root} : ParentKind(h, m) = ParentKind(g, m) /\ (IsState(h, m) <=> IsState(g, m))
  BY <1>1, <1>2 DEF ParentKind, IsState, Rooted
<1>5. Placed(h)
  <2>1. \A m \in Ids(g) : Children(g, g.node[m].parent) \subseteq Ids(g)
    BY DEF Children
  <2>2. QED BY <1>1, <1>2, <1>3, <1>4, <2>1 DEF Placed
<1>6. Joined(h)
  <2>1. \A m \in Ids(g) : IsState(g, m) => IsState(h, m)
    BY <1>4 DEF IsState
  <2>2. QED BY <1>1, <1>2, <2>1 DEF Joined, Linked
<1>7. Entered(h)
  BY <1>2, <1>3 DEF SameShape, Entered
<1>8. Ported(h) /\ Treed(h)
  BY <1>1, <1>2 DEF Ported, Treed, Linked
<1>9. Acyclic(h)
  BY <1>1, <1>2, FewerWires
<1>10. QED BY <1>5, <1>6, <1>7, <1>8, <1>9

LEMMA RenameKeeps ==
    ASSUME NEW g, WellFormed(g), NEW n \in Ids(g), NEW new \in Name \cup {RootName, UnsafeName},
           new # g.node[n].name => new \notin Names(g)
    PROVE  WellFormed(Rename(g, g.node[n].name, new))
<1> DEFINE F == [g.node EXCEPT ![n].name = new]
           h == Rename(g, g.node[n].name, new)
<1>1. g \in Graph /\ Rooted(g) /\ Linked(g) /\ Unique(g) /\ Placed(g)
      /\ Joined(g) /\ Entered(g) /\ Ported(g) /\ Treed(g) /\ Acyclic(g)
  BY DEF WellFormed
<1>2. h = [g EXCEPT !.node = F]
  BY <1>1, NamedIs DEF Rename
<1>3. /\ DOMAIN F = Ids(g)
      /\ \A m \in Ids(g) : /\ F[m].kind = g.node[m].kind /\ F[m].parent = g.node[m].parent
                           /\ F[m].entry = g.node[m].entry /\ F[m] \in NodeRecord
                           /\ F[m].name = IF m = n THEN new ELSE g.node[m].name
  <2>1. g.node \in [Ids(g) -> NodeRecord]
    BY <1>1, GraphFacts
  <2>2. DOMAIN F = Ids(g) /\ F[n] = [g.node[n] EXCEPT !.name = new] /\ \A m \in Ids(g) \ {n} : F[m] = g.node[m]
    BY <2>1
  <2>3. /\ F[n].kind = g.node[n].kind /\ F[n].parent = g.node[n].parent
        /\ F[n].entry = g.node[n].entry /\ F[n] \in NodeRecord /\ F[n].name = new
    BY <2>1, <2>2 DEF NodeRecord
  <2>4. \A m \in Ids(g) \ {n} : F[m] \in NodeRecord
    BY <2>1, <2>2
  <2> HIDE DEF F
  <2>5. QED BY <2>2, <2>3, <2>4
<1> HIDE DEF F, h
<1>4. F \in Partial(NodeId, NodeRecord)
  <2>1. F \in [DOMAIN F -> NodeRecord]
    <3>1. F = [m \in Ids(g) |-> F[m]]
      BY <1>1, <1>3, GraphFacts DEF F
    <3>2. QED BY <1>3, <3>1
  <2>2. QED BY <1>1, <1>3, <2>1, GraphFacts, PartialIs
<1>5. /\ h \in Graph /\ h.node = F /\ h.transitions = g.transitions /\ h.wires = g.wires
      /\ Ids(h) = Ids(g)
  <2>1. h \in Graph /\ h.node = F /\ h.transitions = g.transitions /\ h.wires = g.wires
    BY <1>1, <1>2, <1>4, ChangedGraph
  <2>2. QED BY <1>3, <2>1 DEF Ids
<1>6. \A m \in Ids(g) : /\ h.node[m].kind = g.node[m].kind /\ h.node[m].parent = g.node[m].parent
                        /\ h.node[m].entry = g.node[m].entry
                        /\ h.node[m].name = IF m = n THEN new ELSE g.node[m].name
  BY <1>3, <1>5
<1>7. Unique(h)
  <2>1. \A m \in Ids(g) \ {n} : g.node[m].name # new
    BY <1>1 DEF Names, Unique
  <2>2. QED BY <1>1, <1>5, <1>6, <2>1 DEF Unique
<1>8. Rooted(h) /\ Linked(h)
  BY <1>1, <1>5, <1>6 DEF Rooted, Linked
<1>9. SameShape(g, h)
  BY <1>1, <1>5, <1>6 DEF SameShape, Entered
<1>10. QED BY <1>1, <1>5, <1>7, <1>8, <1>9, SameShapeKeeps DEF WellFormed, h

LEMMA EntryStateKeeps ==
    ASSUME NEW g, WellFormed(g), NEW n \in Ids(g), IsState(g, n)
    PROVE  WellFormed(EntryState(g, g.node[n].name))
<1> DEFINE p == g.node[n].parent
           F == [g.node EXCEPT ![p].entry = n]
           h == EntryState(g, g.node[n].name)
<1>1. g \in Graph /\ Rooted(g) /\ Linked(g) /\ Unique(g) /\ Placed(g)
      /\ Joined(g) /\ Entered(g) /\ Ported(g) /\ Treed(g) /\ Acyclic(g)
  BY DEF WellFormed
<1>2. h = [g EXCEPT !.node = F]
  BY <1>1, NamedIs DEF EntryState
<1>3. p \in Ids(g) /\ g.node[p].kind = "machine" /\ n \in NodeId
  BY <1>1, GraphFacts DEF IsState, ParentKind, Rooted
<1>4. /\ DOMAIN F = Ids(g)
      /\ \A m \in Ids(g) : /\ F[m].kind = g.node[m].kind /\ F[m].parent = g.node[m].parent
                           /\ F[m].name = g.node[m].name /\ F[m] \in NodeRecord
                           /\ F[m].entry = IF m = p THEN n ELSE g.node[m].entry
  <2> HIDE DEF p
  <2>1. g.node \in [Ids(g) -> NodeRecord]
    BY <1>1, GraphFacts
  <2>2. DOMAIN F = Ids(g) /\ F[p] = [g.node[p] EXCEPT !.entry = n] /\ \A m \in Ids(g) \ {p} : F[m] = g.node[m]
    BY <1>3, <2>1
  <2>3. /\ F[p].kind = g.node[p].kind /\ F[p].parent = g.node[p].parent
        /\ F[p].name = g.node[p].name /\ F[p] \in NodeRecord /\ F[p].entry = n
    BY <1>3, <2>1, <2>2 DEF NodeRecord
  <2>4. \A m \in Ids(g) \ {p} : F[m] \in NodeRecord
    BY <2>1, <2>2
  <2> HIDE DEF F
  <2>5. QED BY <2>2, <2>3, <2>4
<1> HIDE DEF F, h, p
<1>5. F \in Partial(NodeId, NodeRecord)
  <2>1. F \in [DOMAIN F -> NodeRecord]
    <3>1. F = [m \in Ids(g) |-> F[m]]
      BY <1>1, <1>4, GraphFacts DEF F
    <3>2. QED BY <1>4, <3>1
  <2>2. QED BY <1>1, <1>4, <2>1, GraphFacts, PartialIs
<1>6. /\ h \in Graph /\ h.node = F /\ h.transitions = g.transitions /\ h.wires = g.wires
      /\ Ids(h) = Ids(g)
  <2>1. h \in Graph /\ h.node = F /\ h.transitions = g.transitions /\ h.wires = g.wires
    BY <1>1, <1>2, <1>5, ChangedGraph
  <2>2. QED BY <1>4, <2>1 DEF Ids
<1>7. \A m \in Ids(g) : /\ h.node[m].kind = g.node[m].kind /\ h.node[m].parent = g.node[m].parent
                        /\ h.node[m].name = g.node[m].name
                        /\ h.node[m].entry = IF m = p THEN n ELSE g.node[m].entry
  BY <1>4, <1>6
<1>8. Rooted(h) /\ Linked(h) /\ Unique(h)
  BY <1>1, <1>6, <1>7 DEF Rooted, Linked, Unique
<1>9. SameShape(g, h)
  <2>1. \A m : Children(h, m) = Children(g, m)
    BY <1>6, <1>7 DEF Children
  <2>2. n \in Children(g, p)
    BY DEF Children, p
  <2>3. ASSUME NEW m \in Ids(g), h.node[m].entry # Nothing
        PROVE  h.node[m].kind = "machine" /\ h.node[m].entry \in Children(g, m)
    BY <1>1, <1>3, <1>7, <2>2, <2>3 DEF Entered
  <2>4. QED BY <1>1, <1>6, <1>7, <2>3 DEF SameShape
<1>10. QED BY <1>1, <1>6, <1>8, <1>9, SameShapeKeeps DEF WellFormed, h

\* A transition between states the request has checked, or a wildcard.
LEMMA CreateTransitionKeeps ==
    ASSUME NEW g, WellFormed(g), NEW s \in Ids(g) \cup {Nothing}, NEW n \in Ids(g), IsState(g, n),
           s # Nothing => s # n /\ g.node[s].parent = g.node[n].parent /\ g.node[s].kind # "exit",
           DOMAIN g.transitions # 1..MaxTransitions
    PROVE  WellFormed(CreateTransition(g, IF s = Nothing THEN "" ELSE g.node[s].name, g.node[n].name))
<1> DEFINE sourceName == IF s = Nothing THEN "" ELSE g.node[s].name
           u == FreshTransition(g)
           new == [source |-> s, target |-> n]
           T == [v \in DOMAIN g.transitions \cup {u} |-> IF v = u THEN new ELSE g.transitions[v]]
           h == CreateTransition(g, sourceName, g.node[n].name)
<1>1. g \in Graph /\ Rooted(g) /\ Linked(g) /\ Unique(g) /\ Placed(g)
      /\ Joined(g) /\ Entered(g) /\ Ported(g) /\ Treed(g) /\ Acyclic(g)
  BY DEF WellFormed
<1>2. DOMAIN g.transitions \subseteq 1..MaxTransitions /\ u \in (1..MaxTransitions) \ DOMAIN g.transitions
  <2>1. DOMAIN g.transitions \subseteq 1..MaxTransitions
    BY <1>1, GraphFacts
  <2>2. (1..MaxTransitions) \ DOMAIN g.transitions # {}
    BY <2>1
  <2>3. QED BY <2>1, <2>2, FreshTransitionIsFresh
<1>3. (IF sourceName = "" THEN Nothing ELSE Named(g, sourceName)) = s
  <2>1. s # Nothing => g.node[s].name # ""
    BY <1>1, GraphFacts, NoNameIsEmpty DEF RootName, UnsafeName
  <2>2. QED BY <1>1, <2>1, NamedIs
<1>4. Named(g, g.node[n].name) = n
  BY <1>1, NamedIs
<1> HIDE DEF sourceName, u
<1>5. h = [g EXCEPT !.transitions = T]
  BY <1>3, <1>4 DEF CreateTransition, u
<1>6. T \in Partial(1..MaxTransitions, TransitionRecord)
  <2>1. new \in TransitionRecord
    BY <1>1, GraphFacts DEF TransitionRecord
  <2>2. \A v \in DOMAIN g.transitions : g.transitions[v] \in TransitionRecord
    BY <1>1, GraphFacts
  <2> HIDE DEF new
  <2>3. T \in [DOMAIN g.transitions \cup {u} -> TransitionRecord] /\ DOMAIN T = DOMAIN g.transitions \cup {u}
    BY <2>1, <2>2
  <2> HIDE DEF T
  <2>4. QED BY <1>2, <2>3, PartialIs
<1>7. DOMAIN T = DOMAIN g.transitions \cup {u} /\ T[u] = new /\ \A v \in DOMAIN g.transitions : T[v] = g.transitions[v]
  BY <1>2
<1> HIDE DEF T, h
<1>8. h \in Graph /\ h.transitions = T /\ h.node = g.node /\ h.wires = g.wires
  BY <1>1, <1>5, <1>6, ChangedGraph
<1>9. /\ Ids(h) = Ids(g) /\ Rooted(h) /\ Unique(h) /\ Placed(h) /\ Entered(h)
      /\ \A m : IsState(h, m) <=> IsState(g, m)
  BY <1>8, SameNodes
<1>10. new.source = s /\ new.target = n
  OBVIOUS
<1> HIDE DEF new
<1>11. Linked(h)
  BY <1>1, <1>7, <1>8, <1>9, <1>10 DEF Linked
<1>12. Joined(h)
  BY <1>1, <1>7, <1>8, <1>9, <1>10 DEF Joined
<1>13. Ported(h) /\ Treed(h) /\ Acyclic(h)
  BY <1>1, <1>8, <1>11, FewerWires DEF Ported, Treed
<1>14. WellFormed(h)
  BY <1>8, <1>9, <1>11, <1>12, <1>13 DEF WellFormed
<1>15. QED BY <1>14 DEF h, sourceName

LEMMA DropTransitionKeeps ==
    ASSUME NEW g, WellFormed(g), NEW u
    PROVE  WellFormed(DropTransition(g, u))
<1> DEFINE T == [v \in DOMAIN g.transitions \ {u} |-> g.transitions[v]]
           h == DropTransition(g, u)
<1>1. g \in Graph /\ Rooted(g) /\ Linked(g) /\ Unique(g) /\ Placed(g)
      /\ Joined(g) /\ Entered(g) /\ Ported(g) /\ Treed(g) /\ Acyclic(g)
  BY DEF WellFormed
<1>2. h = [g EXCEPT !.transitions = T]
  BY DEF DropTransition
<1>3. DOMAIN T \subseteq DOMAIN g.transitions /\ \A v \in DOMAIN T : T[v] = g.transitions[v]
  OBVIOUS
<1>4. T \in Partial(1..MaxTransitions, TransitionRecord)
  <2>1. T \in [DOMAIN T -> TransitionRecord] /\ DOMAIN T \subseteq 1..MaxTransitions
    BY <1>1, GraphFacts
  <2> HIDE DEF T
  <2>2. QED BY <2>1, PartialIs
<1> HIDE DEF T, h
<1>5. h \in Graph /\ h.transitions = T /\ h.node = g.node /\ h.wires = g.wires
  BY <1>1, <1>2, <1>4, ChangedGraph
<1>6. /\ Ids(h) = Ids(g) /\ Rooted(h) /\ Unique(h) /\ Placed(h) /\ Entered(h)
      /\ \A m : IsState(h, m) <=> IsState(g, m)
  BY <1>5, SameNodes
<1>7. Linked(h)
  BY <1>1, <1>3, <1>5, <1>6 DEF Linked
<1>8. Joined(h)
  BY <1>1, <1>3, <1>5, <1>6 DEF Joined
<1>9. Ported(h) /\ Treed(h) /\ Acyclic(h)
  BY <1>1, <1>5, <1>7, FewerWires DEF Ported, Treed
<1>10. WellFormed(h)
  BY <1>5, <1>6, <1>7, <1>8, <1>9 DEF WellFormed
<1>11. QED BY <1>10 DEF h

LEMMA WireIs ==
    ASSUME NEW g, Unique(g), NEW s \in Ids(g), NEW n \in Ids(g), NEW sourcePort, NEW port
    PROVE  Wire(g, g.node[s].name, sourcePort, g.node[n].name, port)
              = [source |-> s, sourcePort |-> sourcePort, target |-> n, port |-> port]
BY NamedIs DEF Wire

LEMMA ConnectKeeps ==
    ASSUME NEW g, WellFormed(g), NEW s \in Ids(g), NEW n \in Ids(g),
           NEW sourcePort \in {0, 1}, NEW port \in {0, 1},
           g.node[s].parent = g.node[n].parent,
           \A w \in g.wires : w.target # n \/ w.port # port, ~Feeds(g, n, s)
    PROVE  WellFormed([g EXCEPT !.wires = @ \cup {Wire(g, g.node[s].name, sourcePort, g.node[n].name, port)}])
<1> DEFINE x == [source |-> s, sourcePort |-> sourcePort, target |-> n, port |-> port]
           h == [g EXCEPT !.wires = g.wires \cup {x}]
<1>1. g \in Graph /\ Rooted(g) /\ Linked(g) /\ Unique(g) /\ Placed(g)
      /\ Joined(g) /\ Entered(g) /\ Ported(g) /\ Treed(g) /\ Acyclic(g)
  BY DEF WellFormed
<1>2. g.wires \cup {x} \in SUBSET WireRecord
  BY <1>1, GraphFacts DEF WireRecord
<1>3. x.source = s /\ x.target = n /\ x.port = port
  OBVIOUS
<1> HIDE DEF x
<1>4. h \in Graph /\ h.wires = g.wires \cup {x} /\ h.node = g.node /\ h.transitions = g.transitions
  BY <1>1, <1>2, ChangedGraph
<1> HIDE DEF h
<1>5. /\ Ids(h) = Ids(g) /\ Rooted(h) /\ Unique(h) /\ Placed(h) /\ Entered(h)
      /\ \A m : IsState(h, m) <=> IsState(g, m)
  BY <1>4, SameNodes
<1>6. Linked(h) /\ Treed(h)
  BY <1>1, <1>3, <1>4, <1>5 DEF Linked, Treed
<1>7. Joined(h)
  BY <1>1, <1>4, <1>5 DEF Joined
<1>8. Ported(h)
  BY <1>1, <1>3, <1>4 DEF Ported
<1>9. Acyclic(h)
  BY <1>1, <1>3, <1>4, <1>5, OneMoreWire
<1>10. WellFormed(h)
  BY <1>4, <1>5, <1>6, <1>7, <1>8, <1>9 DEF WellFormed
<1>11. Wire(g, g.node[s].name, sourcePort, g.node[n].name, port) = x
  BY <1>1, WireIs DEF x
<1>12. QED BY <1>10, <1>11 DEF h

\* Other parameters and fewer wires.
LEMMA LessKeeps ==
    ASSUME NEW g, WellFormed(g), NEW h \in Graph, h.node = g.node, h.transitions = g.transitions,
           h.wires \subseteq g.wires
    PROVE  WellFormed(h)
<1>1. g \in Graph /\ Linked(g) /\ Joined(g) /\ Ported(g) /\ Treed(g) /\ Acyclic(g)
  BY DEF WellFormed
<1>2. /\ Ids(h) = Ids(g) /\ Rooted(h) /\ Unique(h) /\ Placed(h) /\ Entered(h)
      /\ \A m : IsState(h, m) <=> IsState(g, m)
  BY SameNodes
<1>3. Linked(h)
  BY <1>1, <1>2 DEF Linked
<1>4. Joined(h)
  BY <1>1, <1>2 DEF Joined
<1>5. Ported(h) /\ Treed(h) /\ Acyclic(h)
  BY <1>1, <1>3, FewerWires DEF Ported, Treed
<1>6. QED BY <1>2, <1>3, <1>4, <1>5 DEF WellFormed

LEMMA DisconnectKeeps ==
    ASSUME NEW g, WellFormed(g), NEW x
    PROVE  WellFormed([g EXCEPT !.wires = @ \ {x}])
<1>1. g \in Graph
  BY DEF WellFormed
<1>2. g.wires \ {x} \in SUBSET WireRecord
  BY <1>1, GraphFacts
<1> DEFINE h == [g EXCEPT !.wires = g.wires \ {x}]
<1>3. h \in Graph /\ h.node = g.node /\ h.transitions = g.transitions /\ h.wires = g.wires \ {x}
  BY <1>1, <1>2, ChangedGraph
<1> HIDE DEF h
<1>4. WellFormed(h)
  BY <1>3, LessKeeps
<1>5. QED BY <1>4 DEF h

LEMMA ParametersKeep ==
    ASSUME NEW g, WellFormed(g), NEW v \in SUBSET Parameter, NEW q \in SUBSET (Parameter \cup Group)
    PROVE  /\ WellFormed([g EXCEPT !.values = v]) /\ WellFormed([g EXCEPT !.groups = q])
           /\ WellFormed([[g EXCEPT !.groups = q] EXCEPT !.values = v])
<1>1. g \in Graph
  BY DEF WellFormed
<1>2. ASSUME NEW f \in Graph
      PROVE  /\ [f EXCEPT !.values = v] \in Graph /\ [f EXCEPT !.values = v].node = f.node
             /\ [f EXCEPT !.values = v].transitions = f.transitions /\ [f EXCEPT !.values = v].wires = f.wires
             /\ [f EXCEPT !.groups = q] \in Graph /\ [f EXCEPT !.groups = q].node = f.node
             /\ [f EXCEPT !.groups = q].transitions = f.transitions /\ [f EXCEPT !.groups = q].wires = f.wires
  BY <1>2 DEF Graph
<1>3. WellFormed([g EXCEPT !.values = v]) /\ WellFormed([g EXCEPT !.groups = q])
  BY <1>1, <1>2, LessKeeps
<1>4. QED BY <1>1, <1>2, <1>3, LessKeeps

-----------------------------------------------------------------------------
(* The history.                                                            *)

LEMMA SequenceIs ==
    ASSUME NEW S, NEW q \in Seq(S)
    PROVE  q = [i \in 1..Len(q) |-> q[i]]
OBVIOUS

\* A push on a history that is already as long as it is followed back loses
\* its oldest step; the pop takes back what the push added.
LEMMA PushFacts ==
    ASSUME NEW S, NEW h \in Seq(S), Len(h) <= MaxUndo, NEW g \in S
    PROVE  /\ Push(h, g) \in Seq(S) /\ Len(Push(h, g)) <= MaxUndo /\ Top(Push(h, g)) = g
           /\ Pop(Push(h, g)) = h \/ (h # << >> /\ Pop(Push(h, g)) = Tail(h))
<1> DEFINE p == Push(h, g)
           n == Len(h)
<1>1. n \in Nat /\ MaxUndo \in Nat \ {0} /\ DOMAIN h = 1..n /\ n <= MaxUndo
  BY BoundsArePositive
<1>2. CASE n < MaxUndo
  <2>1. p = Append(h, g)
    BY <1>2 DEF Push
  <2>2. p \in Seq(S) /\ Len(p) = n + 1 /\ p[n + 1] = g /\ \A i \in 1..n : p[i] = h[i]
    BY <1>1, <2>1
  <2>3. Pop(p) = h
    <3>1. Pop(p) = SubSeq(p, 1, n)
      BY <1>1, <2>2 DEF Pop
    <3>2. SubSeq(p, 1, n) = [i \in 1..n |-> p[i]]
      BY <1>1, <2>2
    <3>3. h = [i \in 1..n |-> h[i]]
      BY SequenceIs, Zenon
    <3> HIDE DEF p, n
    <3>4. QED BY <2>2, <3>1, <3>2, <3>3
  <2> HIDE DEF p
  <2>4. Top(p) = g
    BY <2>2 DEF Top
  <2>5. n + 1 <= MaxUndo
    <3> HIDE DEF n
    <3>1. QED BY <1>1, <1>2
  <2>6. Len(p) <= MaxUndo
    <3> HIDE DEF n
    <3>1. QED BY <2>2, <2>5
  <2>7. p \in Seq(S) /\ Len(p) <= MaxUndo /\ Top(p) = g
    BY <2>2, <2>4, <2>6, Zenon
  <2>8. Pop(p) = h \/ (h # << >> /\ Pop(p) = Tail(h))
    BY <2>3
  <2>9. QED BY <2>7, <2>8, Zenon DEF p
<1>3. CASE n = MaxUndo
  <2>1. p = Append(Tail(h), g)
    BY <1>3 DEF Push
  <2>2. Tail(h) \in Seq(S) /\ Len(Tail(h)) = n - 1
    BY <1>1, <1>3
  <2>3. p \in Seq(S) /\ Len(p) = n /\ p[n] = g /\ \A i \in 1..(n - 1) : p[i] = Tail(h)[i]
    BY <1>1, <1>3, <2>1, <2>2
  <2>4. Pop(p) = Tail(h)
    <3>1. Pop(p) = SubSeq(p, 1, n - 1)
      BY <1>1, <2>3 DEF Pop
    <3>2. SubSeq(p, 1, n - 1) = [i \in 1..(n - 1) |-> p[i]]
      BY <1>1, <1>3, <2>3
    <3>3. Tail(h) = [i \in 1..(n - 1) |-> Tail(h)[i]]
      <4>1. Tail(h) = [i \in 1..Len(Tail(h)) |-> Tail(h)[i]]
        BY <2>2, SequenceIs, Zenon
      <4>2. QED BY <2>2, <4>1, Zenon
    <3> HIDE DEF p, n
    <3>4. QED BY <2>3, <3>1, <3>2, <3>3
  <2>5. h # << >>
    BY <1>1, <1>3
  <2> HIDE DEF p
  <2>6. Top(p) = g
    BY <2>3 DEF Top
  <2>7. QED BY <1>1, <2>3, <2>4, <2>5, <2>6, Zenon DEF p
<1>4. n < MaxUndo \/ n = MaxUndo
  <2> HIDE DEF n
  <2>1. QED BY <1>1
<1>5. QED BY <1>2, <1>3, <1>4, Zenon

LEMMA PopFacts ==
    ASSUME NEW S, NEW h \in Seq(S), Len(h) <= MaxUndo, h # << >>
    PROVE  Pop(h) \in Seq(S) /\ Len(Pop(h)) <= MaxUndo /\ Top(h) \in S
<1> DEFINE n == Len(h)
<1>1. n \in Nat \ {0} /\ \A i \in 1..n : h[i] \in S
  OBVIOUS
<1>2. Pop(h) = SubSeq(h, 1, n - 1)
  BY DEF Pop
<1>3. n <= MaxUndo /\ MaxUndo \in Nat
  BY BoundsArePositive
<1> HIDE DEF n
<1>4. /\ n - 1 \in Int /\ \A i \in 1..(n - 1) : i \in 1..n
      /\ (IF 1 <= n - 1 THEN (n - 1) - 1 + 1 ELSE 0) <= MaxUndo /\ n \in 1..n
  BY <1>1, <1>3
<1> DEFINE q == SubSeq(h, 1, n - 1)
<1>5. q \in Seq(S) /\ Len(q) = IF 1 <= n - 1 THEN (n - 1) - 1 + 1 ELSE 0
  BY <1>1, <1>4, SubSeqProperties
<1> HIDE DEF q
<1>6. q \in Seq(S) /\ Len(q) <= MaxUndo
  BY <1>4, <1>5, Zenon
<1>7. Pop(h) = q /\ h[n] \in S
  BY <1>1, <1>2, <1>4 DEF q
<1>8. QED BY <1>6, <1>7, Zenon DEF Top, n

-----------------------------------------------------------------------------
(* A step of a command or of a group of commands keeps the invariant when  *)
(* the graph it is to make is well formed.                                 *)

LEMMA DoneKeeps ==
    ASSUME IInv, NEW g \in WellFormedGraph, Done(g)
    PROVE  IInv'
<1>1. graph' = g /\ past' = Push(past, graph) /\ answer' = "ok"
  BY DEF Done
<1>2. past \in Seq(WellFormedGraph) /\ Len(past) <= MaxUndo /\ graph \in WellFormedGraph
  BY DEF IInv
<1>3. Push(past, graph) \in Seq(WellFormedGraph) /\ Len(Push(past, graph)) <= MaxUndo
  BY <1>2, PushFacts, Zenon
<1>4. answer' \in {"none", "ok", "engine_error"}
  BY <1>1
<1>5. QED BY <1>1, <1>3, <1>4, Zenon DEF IInv

LEMMA CommandKeeps ==
    ASSUME IInv, NEW g \in WellFormedGraph, RunCommand(g)
    PROVE  IInv'
<1>1. CASE Done(g)
  BY <1>1, DoneKeeps
<1>2. CASE UNCHANGED <<graph, past>> /\ answer' = "engine_error"
  BY <1>2 DEF IInv
<1>3. QED BY <1>1, <1>2 DEF RunCommand

\* What a failed group leaves: the graph, and the history but for a step that
\* fell off its end.
LEMMA GroupIsUndone ==
    ASSUME IInv, NEW partial, UndoFailedGroup(partial)
    PROVE  /\ graph' = graph /\ answer' = "engine_error"
           /\ past' = Pop(Push(past, graph))
           /\ past' = past \/ (past # << >> /\ past' = Tail(past))
<1>1. past \in Seq(WellFormedGraph) /\ Len(past) <= MaxUndo /\ graph \in WellFormedGraph
  BY DEF IInv
<1>2. graph' = Top(Push(past, graph)) /\ past' = Pop(Push(past, graph)) /\ answer' = "engine_error"
  BY DEF UndoFailedGroup
<1> DEFINE q == Pop(Push(past, graph))
           r == Tail(past)
           nonempty == past # << >>
<1>3. Top(Push(past, graph)) = graph
  BY <1>1, PushFacts, Zenon
<1>4. q = past \/ (nonempty /\ q = r)
  BY <1>1, PushFacts, Zenon
<1>5. past' = q
  BY <1>2, Zenon
<1>6. graph' = graph /\ answer' = "engine_error"
  BY <1>2, <1>3, Zenon
<1> HIDE DEF q, r, nonempty
<1>7. past' = past \/ (nonempty /\ past' = r)
  BY <1>4, <1>5
<1>8. QED BY <1>5, <1>6, <1>7 DEF q, r, nonempty

LEMMA GroupKeeps ==
    ASSUME IInv, NEW a, NEW b, NEW canFinish, canFinish => b \in WellFormedGraph,
           RunCommandGroup(<<a, b>>, canFinish)
    PROVE  IInv'
<1>1. CASE canFinish /\ GroupDone(<<a, b>>)
  <2>1. Done(b)
    BY <1>1 DEF GroupDone
  <2>2. QED BY <1>1, <2>1, DoneKeeps
<1>2. ASSUME NEW partial, UndoFailedGroup(partial)
      PROVE  IInv'
  <2>1. /\ graph' = graph /\ answer' = "engine_error"
        /\ past' = past \/ (past # << >> /\ past' = Tail(past))
    BY <1>2, GroupIsUndone, Zenon
  <2>2. past \in Seq(WellFormedGraph) /\ Len(past) <= MaxUndo /\ graph \in WellFormedGraph
    BY DEF IInv
  <2>3. past # << >> => Tail(past) \in Seq(WellFormedGraph) /\ Len(Tail(past)) <= MaxUndo
    BY <2>2, BoundsArePositive
  <2>4. answer' \in {"none", "ok", "engine_error"}
    BY <2>1
  <2>5. QED BY <2>1, <2>2, <2>3, <2>4, Zenon DEF IInv
<1>3. QED BY <1>1, <1>2 DEF RunCommandGroup

LEMMA WellFormedIs ==
    ASSUME NEW g
    PROVE  g \in WellFormedGraph <=> WellFormed(g)
BY DEF WellFormedGraph, WellFormed

-----------------------------------------------------------------------------
(* One lemma for each request, and the undo.                               *)

LEMMA AddNodeKeeps ==
    ASSUME IInv, NEW kind \in Kind, NEW name \in Name, NEW p, AddNode(kind, name, p)
    PROVE  IInv'
<1>1. WellFormed(graph)
  BY WellFormedIs DEF IInv
<1>2. /\ p \in Ids(graph) /\ NodeId \ Ids(graph) # {} /\ name \notin Names(graph)
      /\ Placeable(graph, kind, p) /\ RunCommand(CreateNode(graph, kind, graph.node[p].name, name))
  BY DEF AddNode, NameIsFree
<1>3. WellFormed(CreateNode(graph, kind, graph.node[p].name, name))
  BY <1>1, <1>2, CreateNodeKeeps
<1>4. QED BY <1>2, <1>3, WellFormedIs, CommandKeeps

LEMMA RemoveNodeKeeps ==
    ASSUME IInv, NEW n, RemoveNode(n)
    PROVE  IInv'
<1>1. WellFormed(graph)
  BY WellFormedIs DEF IInv
<1>2. n \in Ids(graph) \ {Root}
  BY DEF RemoveNode, MayBeRemoved
<1>3. PICK e \in {Nothing} \cup {c \in Children(graph, graph.node[n].parent) \ {n} :
                                    IsState(graph, c) /\ graph.node[c].kind \in CanBeEntryNode} :
         RunCommand(RemoveNamed(graph, graph.node[n].name, e))
  BY DEF RemoveNode
<1>4. e \in {Nothing} \cup {c \in Children(graph, graph.node[n].parent) \ {n} : graph.node[c].kind \in CanBeEntryNode}
  OBVIOUS
<1>5. WellFormed(RemoveNamed(graph, graph.node[n].name, e))
  BY <1>1, <1>2, <1>4, RemoveNamedKeeps
<1>6. QED BY <1>3, <1>5, WellFormedIs, CommandKeeps

LEMMA SetEntryStateKeeps ==
    ASSUME IInv, NEW n, SetEntryState(n)
    PROVE  IInv'
<1>1. WellFormed(graph)
  BY WellFormedIs DEF IInv
<1>2. n \in Ids(graph) /\ IsState(graph, n) /\ RunCommand(EntryState(graph, graph.node[n].name))
  BY DEF SetEntryState, MayBeEntry
<1>3. WellFormed(EntryState(graph, graph.node[n].name))
  BY <1>1, <1>2, EntryStateKeeps
<1>4. QED BY <1>2, <1>3, WellFormedIs, CommandKeeps

LEMMA SetNodeKeeps ==
    ASSUME IInv, NEW n, NEW name \in Name, SetNode(n, name)
    PROVE  IInv'
<1>1. WellFormed(graph)
  BY WellFormedIs DEF IInv
<1>2. /\ n \in Ids(graph)
      /\ name # graph.node[n].name => name \notin Names(graph)
      /\ RunCommand(Rename(graph, graph.node[n].name, name))
  BY DEF SetNode, NameIsFree
<1>3. WellFormed(Rename(graph, graph.node[n].name, name))
  BY <1>1, <1>2, RenameKeeps
<1>4. QED BY <1>2, <1>3, WellFormedIs, CommandKeeps

LEMMA AddTransitionKeeps ==
    ASSUME IInv, NEW s \in NodeId \cup {Nothing}, NEW n, NEW extras, AddTransition(s, n, extras)
    PROVE  IInv'
<1> DEFINE made == CreateTransition(graph, IF s = Nothing THEN "" ELSE graph.node[s].name, graph.node[n].name)
<1>1. WellFormed(graph)
  BY WellFormedIs DEF IInv
<1>2. /\ n \in Ids(graph) /\ IsState(graph, n)
      /\ s # Nothing => s \in Ids(graph) /\ MayStart(s, n)
      /\ DOMAIN graph.transitions # 1..MaxTransitions
      /\ IF extras THEN RunCommandGroup(<<made, made>>, TRUE) ELSE RunCommand(made)
  BY Zenon DEF AddTransition
<1>3. s \in Ids(graph) \cup {Nothing}
  BY <1>2
<1>4. s # Nothing => s # n /\ graph.node[s].parent = graph.node[n].parent /\ graph.node[s].kind # "exit"
  BY <1>2, Zenon DEF MayStart
<1>5. WellFormed(made)
  BY <1>1, <1>2, <1>3, <1>4, CreateTransitionKeeps
<1> HIDE DEF made
<1>6. made \in WellFormedGraph
  BY <1>5, WellFormedIs
<1>7. CASE extras
  BY <1>2, <1>6, <1>7, GroupKeeps
<1>8. CASE ~extras
  BY <1>2, <1>6, <1>8, CommandKeeps
<1>9. QED BY <1>7, <1>8

LEMMA RemoveTransitionKeeps ==
    ASSUME IInv, NEW t, RemoveTransition(t)
    PROVE  IInv'
<1>1. WellFormed(DropTransition(graph, t))
  BY DropTransitionKeeps, WellFormedIs DEF IInv
<1>2. QED BY <1>1, WellFormedIs, CommandKeeps DEF RemoveTransition

LEMMA SetTransitionKeeps ==
    ASSUME IInv, NEW t, SetTransition(t)
    PROVE  IInv'
BY CommandKeeps DEF SetTransition, IInv

LEMMA ConnectPortsKeeps ==
    ASSUME IInv, NEW s, NEW n, NEW sourcePort \in {0, 1}, NEW port \in {0, 1}, ConnectPorts(s, sourcePort, n, port)
    PROVE  IInv'
<1> DEFINE made == [graph EXCEPT !.wires = @ \cup
                      {Wire(graph, graph.node[s].name, sourcePort, graph.node[n].name, port)}]
<1>1. WellFormed(graph)
  BY WellFormedIs DEF IInv
<1>2. /\ s \in Ids(graph) /\ n \in Ids(graph) /\ graph.node[s].parent = graph.node[n].parent
      /\ \A w \in graph.wires : w.target # n \/ w.port # port
      /\ ~Feeds(graph, n, s)
      /\ RunCommand(made)
  BY DEF ConnectPorts, InputIsFree, ConnectionWillProduceCycle
<1>3. WellFormed(made)
  BY <1>1, <1>2, ConnectKeeps
<1> HIDE DEF made
<1>4. QED BY <1>2, <1>3, WellFormedIs, CommandKeeps

LEMMA DisconnectPortsKeeps ==
    ASSUME IInv, NEW n, NEW port, DisconnectPorts(n, port)
    PROVE  IInv'
<1>1. WellFormed(graph)
  BY WellFormedIs DEF IInv
<1>2. PICK w \in graph.wires :
         RunCommand([graph EXCEPT !.wires = @ \
                       {Wire(graph, graph.node[w.source].name, w.sourcePort, graph.node[n].name, port)}])
  BY DEF DisconnectPorts
<1> DEFINE x == Wire(graph, graph.node[w.source].name, w.sourcePort, graph.node[n].name, port)
<1> HIDE DEF x
<1>3. WellFormed([graph EXCEPT !.wires = @ \ {x}])
  BY <1>1, DisconnectKeeps
<1>4. RunCommand([graph EXCEPT !.wires = @ \ {x}])
  BY <1>2 DEF x
<1>5. QED BY <1>3, <1>4, WellFormedIs, CommandKeeps

LEMMA AddParameterKeeps ==
    ASSUME IInv, NEW p \in Parameter, NEW group \in Parameter \cup Group \cup {"none"}, AddParameter(p, group)
    PROVE  IInv'
<1> DEFINE grouped == [graph EXCEPT !.groups = @ \cup {group}]
           added   == [grouped EXCEPT !.values = @ \cup {p}]
           single  == [graph EXCEPT !.values = @ \cup {p}]
           known   == group \in graph.groups \cup {"none"}
<1>1. WellFormed(graph)
  BY WellFormedIs DEF IInv
<1>2. graph.values \subseteq Parameter /\ graph.groups \subseteq Parameter \cup Group
  BY <1>1, GraphFacts DEF WellFormed
<1>3. IF known THEN RunCommand(single) ELSE RunCommandGroup(<<grouped, added>>, p # group)
  BY Zenon DEF AddParameter
<1>4. WellFormed(single)
  <2>1. graph.values \cup {p} \in SUBSET Parameter
    BY <1>2
  <2>2. QED BY <1>1, <1>2, <2>1, ParametersKeep
<1>5. ~known => WellFormed(added)
  <2> SUFFICES ASSUME ~known PROVE WellFormed(added)
    OBVIOUS
  <2>1. graph.values \cup {p} \in SUBSET Parameter
    BY <1>2
  <2>2. graph.groups \cup {group} \in SUBSET (Parameter \cup Group)
    BY <1>2
  <2>3. added = [[graph EXCEPT !.groups = graph.groups \cup {group}] EXCEPT !.values = graph.values \cup {p}]
    BY <1>1 DEF WellFormed, Graph
  <2> HIDE DEF added
  <2>4. QED BY <1>1, <2>1, <2>2, <2>3, ParametersKeep
<1> HIDE DEF grouped, added, single, known
<1>6. CASE known
  BY <1>3, <1>4, <1>6, WellFormedIs, CommandKeeps
<1>7. CASE ~known
  BY <1>3, <1>5, <1>7, WellFormedIs, GroupKeeps
<1>8. QED BY <1>6, <1>7

LEMMA RemoveParameterKeeps ==
    ASSUME IInv, NEW p, RemoveParameter(p)
    PROVE  IInv'
<1> DEFINE made == [graph EXCEPT !.values = @ \ {p}]
<1>1. WellFormed(graph)
  BY WellFormedIs DEF IInv
<1>2. graph.values \ {p} \in SUBSET Parameter /\ graph.groups \in SUBSET (Parameter \cup Group)
  BY <1>1, GraphFacts DEF WellFormed
<1>3. WellFormed(made)
  BY <1>1, <1>2, ParametersKeep
<1>4. RunCommand(made)
  BY DEF RemoveParameter
<1> HIDE DEF made
<1>5. QED BY <1>3, <1>4, WellFormedIs, CommandKeeps

LEMMA UserUndoKeeps ==
    ASSUME IInv, UserUndo
    PROVE  IInv'
<1>1. past \in Seq(WellFormedGraph) /\ Len(past) <= MaxUndo /\ past # << >>
  BY DEF IInv, UserUndo
<1>2. Pop(past) \in Seq(WellFormedGraph) /\ Len(Pop(past)) <= MaxUndo /\ Top(past) \in WellFormedGraph
  BY <1>1, PopFacts, Zenon
<1>3. graph' = Top(past) /\ past' = Pop(past) /\ answer' = "none"
  BY DEF UserUndo
<1>4. answer' \in {"none", "ok", "engine_error"}
  BY <1>3
<1>5. QED BY <1>2, <1>3, <1>4, Zenon DEF IInv

-----------------------------------------------------------------------------
(* The initial graphs.                                                     *)

LEMMA EmptyGraphIs == WellFormed(EmptyGraph)
<1> DEFINE g == EmptyGraph
           F == [n \in {Root} |-> Node("machine", Nothing, RootName)]
<1>1. /\ g.node = F /\ g.transitions = << >> /\ g.wires = {} /\ g.values = {} /\ g.groups = {}
      /\ g = [node |-> F, transitions |-> << >>, wires |-> {}, values |-> {}, groups |-> {}]
  BY DEF EmptyGraph
<1>2. Node("machine", Nothing, RootName) \in NodeRecord
  BY DEF Node, NodeRecord, Kind
<1>3. F \in Partial(NodeId, NodeRecord)
  BY <1>2, PartialIs, NothingIsNoNode
<1>4. DOMAIN << >> = {} /\ << >> \in [{} -> TransitionRecord]
  OBVIOUS
<1>5. << >> \in Partial(1..MaxTransitions, TransitionRecord)
  BY <1>4, PartialIs
<1>6. g \in Graph
  BY <1>1, <1>3, <1>5 DEF Graph
<1>7. Ids(g) = {Root} /\ DOMAIN g.transitions = {}
  BY <1>1, <1>4 DEF Ids
<1>8. g.node[Root].parent = Nothing /\ g.node[Root].entry = Nothing
  BY <1>1, NodeFields
<1> HIDE DEF g, F
<1>9. Rooted(g) /\ Linked(g) /\ Unique(g) /\ Placed(g) /\ Joined(g) /\ Ported(g) /\ Treed(g) /\ Acyclic(g)
  BY <1>1, <1>7, <1>8 DEF Rooted, Linked, Unique, Placed, Joined, Ported, Treed, Acyclic
<1>10. Entered(g)
  BY <1>7, <1>8 DEF Entered
<1>11. QED BY <1>6, <1>9, <1>10 DEF WellFormed, g

LEMMA LoadedGraphIs == WellFormed(LoadedGraph)
<1> DEFINE g == LoadedGraph
           r == [Node("machine", Nothing, RootName) EXCEPT !.entry = 2]
           m == Node("motion", Root, UnsafeName)
           F == [n \in {Root, 2} |-> IF n = Root THEN r ELSE m]
           t == [source |-> Nothing, target |-> 2]
           T == [u \in {1} |-> t]
<1>1. EmptyGraph \in Graph /\ EmptyGraph.wires = {}
  BY EmptyGraphIs DEF WellFormed, EmptyGraph
<1>2. /\ r.kind = "machine" /\ r.parent = Nothing /\ r.name = RootName /\ r.entry = 2 /\ r \in NodeRecord
      /\ m.kind = "motion" /\ m.parent = Root /\ m.name = UnsafeName /\ m.entry = Nothing /\ m \in NodeRecord
  <2>1. 2 \in NodeId
    BY BoundsArePositive DEF NodeId
  <2>2. QED BY <2>1, NothingIsNoNode DEF Node, NodeRecord, Kind
<1>3. t.source = Nothing /\ t.target = 2 /\ t \in TransitionRecord
  BY BoundsArePositive DEF TransitionRecord, NodeId
<1>4. Root # 2 /\ 2 # Nothing /\ RootName # UnsafeName
  BY DEF Root, Nothing, RootName, UnsafeName
<1> HIDE DEF r, m, t
<1>5. DOMAIN F = {Root, 2} /\ F[Root] = r /\ F[2] = m /\ F \in [{Root, 2} -> NodeRecord]
  BY <1>2, <1>4
<1>6. F \in Partial(NodeId, NodeRecord)
  <2>1. {Root, 2} \subseteq NodeId
    BY BoundsArePositive DEF NodeId, Root
  <2>2. QED BY <1>5, <2>1, PartialIs
<1>7. DOMAIN T = {1} /\ T[1] = t /\ T \in Partial(1..MaxTransitions, TransitionRecord)
  BY <1>3, BoundsArePositive, PartialIs
<1> HIDE DEF F, T
<1>8. g = [EmptyGraph EXCEPT !.node = F, !.transitions = T]
  BY DEF LoadedGraph, F, T, r, m, t
<1>9. /\ g \in Graph /\ g.node = F /\ g.transitions = T /\ g.wires = {}
  BY <1>1, <1>6, <1>7, <1>8 DEF Graph
<1> HIDE DEF g
<1>10. Ids(g) = {Root, 2} /\ g.node[Root] = r /\ g.node[2] = m /\ DOMAIN g.transitions = {1} /\ g.transitions[1] = t
  BY <1>5, <1>7, <1>9 DEF Ids
<1>11. Rooted(g) /\ Linked(g) /\ Ported(g) /\ Treed(g) /\ Acyclic(g)
  BY <1>2, <1>3, <1>4, <1>9, <1>10 DEF Rooted, Linked, Ported, Treed, Acyclic
<1>12. Unique(g)
  BY <1>2, <1>4, <1>10 DEF Unique
<1>13. ParentKind(g, 2) = "machine" /\ IsState(g, 2) /\ 2 \in Children(g, Root)
  BY <1>2, <1>4, <1>10 DEF ParentKind, IsState, Children
<1>14. Placed(g)
  BY <1>2, <1>4, <1>10, <1>13 DEF Placed
<1>15. Joined(g) /\ Entered(g)
  BY <1>2, <1>3, <1>4, <1>10, <1>13 DEF Joined, Entered
<1>16. QED BY <1>9, <1>11, <1>12, <1>14, <1>15 DEF WellFormed, g

LEMMA InitIsWellFormed == Init => IInv
<1> SUFFICES ASSUME Init PROVE IInv
  OBVIOUS
<1>1. graph \in WellFormedGraph
  BY EmptyGraphIs, LoadedGraphIs, WellFormedIs DEF Init
<1>2. past \in Seq(WellFormedGraph) /\ Len(past) <= MaxUndo
  BY BoundsArePositive DEF Init
<1>3. answer \in {"none", "ok", "engine_error"}
  BY DEF Init
<1>4. QED BY <1>1, <1>2, <1>3, Zenon DEF IInv

-----------------------------------------------------------------------------
(* The steps.                                                              *)

LEMMA StepKeeps == IInv /\ [Next]_vars => IInv'
<1> SUFFICES ASSUME IInv, [Next]_vars PROVE IInv'
  OBVIOUS
<1>1. CASE UNCHANGED vars
  BY <1>1 DEF IInv, vars
<1>2. CASE \E kind \in Kind, name \in Name, p \in NodeId : AddNode(kind, name, p)
  BY <1>2, AddNodeKeeps
<1>3. CASE \E n \in NodeId : RemoveNode(n)
  BY <1>3, RemoveNodeKeeps
<1>4. CASE \E n \in NodeId : SetEntryState(n)
  BY <1>4, SetEntryStateKeeps
<1>5. CASE \E n \in NodeId, name \in Name : SetNode(n, name)
  BY <1>5, SetNodeKeeps
<1>6. CASE \E s \in NodeId \cup {Nothing}, n \in NodeId, extras \in BOOLEAN : AddTransition(s, n, extras)
  BY <1>6, AddTransitionKeeps
<1>7. CASE \E t \in 1..MaxTransitions : RemoveTransition(t)
  BY <1>7, RemoveTransitionKeeps
<1>8. CASE \E t \in 1..MaxTransitions : SetTransition(t)
  BY <1>8, SetTransitionKeeps
<1>9. CASE \E s, n \in NodeId, sourcePort, port \in {0, 1} : ConnectPorts(s, sourcePort, n, port)
  BY <1>9, ConnectPortsKeeps
<1>10. CASE \E n \in NodeId, port \in {0, 1} : DisconnectPorts(n, port)
  BY <1>10, DisconnectPortsKeeps
<1>11. CASE \E p \in Parameter, group \in Parameter \cup Group \cup {"none"} : AddParameter(p, group)
  BY <1>11, AddParameterKeeps
<1>12. CASE \E p \in Parameter : RemoveParameter(p)
  BY <1>12, RemoveParameterKeeps
<1>13. CASE UserUndo
  BY <1>13, UserUndoKeeps
<1>14. QED BY <1>1, <1>2, <1>3, <1>4, <1>5, <1>6, <1>7, <1>8, <1>9, <1>10, <1>11, <1>12, <1>13 DEF Next

LEMMA InvariantHolds == Spec => []IInv
<1>1. QED BY InitIsWellFormed, StepKeeps, PTL DEF Spec

\* What a step may be: a command or a group that is done, a command that
\* failed, a group that failed on its way, or the user's undo.
Outcome == \/ \E g : Done(g)
           \/ UNCHANGED <<graph, past>> /\ answer' = "engine_error"
           \/ \E partial : UndoFailedGroup(partial)
           \/ UserUndo

LEMMA RunsEnd ==
    /\ \A g : RunCommand(g) => Outcome
    /\ \A a, b, canFinish : RunCommandGroup(<<a, b>>, canFinish) => Outcome
BY DEF RunCommand, RunCommandGroup, GroupDone, Outcome

LEMMA StepsEnd == Next => Outcome
<1> SUFFICES ASSUME Next PROVE Outcome
  OBVIOUS
<1>1. ASSUME NEW kind, NEW name, NEW p, AddNode(kind, name, p) PROVE Outcome
  BY <1>1, RunsEnd DEF AddNode
<1>2. ASSUME NEW n, RemoveNode(n) PROVE Outcome
  BY <1>2, RunsEnd DEF RemoveNode
<1>3. ASSUME NEW n, SetEntryState(n) PROVE Outcome
  BY <1>3, RunsEnd DEF SetEntryState
<1>4. ASSUME NEW n, NEW name, SetNode(n, name) PROVE Outcome
  BY <1>4, RunsEnd DEF SetNode
<1>5. ASSUME NEW s, NEW n, NEW extras \in BOOLEAN, AddTransition(s, n, extras) PROVE Outcome
  BY <1>5, RunsEnd DEF AddTransition
<1>6. ASSUME NEW t, RemoveTransition(t) \/ SetTransition(t) PROVE Outcome
  BY <1>6, RunsEnd DEF RemoveTransition, SetTransition
<1>7. ASSUME NEW s, NEW n, NEW sourcePort, NEW port, ConnectPorts(s, sourcePort, n, port) PROVE Outcome
  BY <1>7, RunsEnd DEF ConnectPorts
<1>8. ASSUME NEW n, NEW port, DisconnectPorts(n, port) PROVE Outcome
  BY <1>8, RunsEnd DEF DisconnectPorts
<1>9. ASSUME NEW p, NEW group, AddParameter(p, group) PROVE Outcome
  BY <1>9, RunsEnd DEF AddParameter
<1>10. ASSUME NEW p, RemoveParameter(p) PROVE Outcome
  BY <1>10, RunsEnd DEF RemoveParameter
<1>11. CASE UserUndo
  BY <1>11 DEF Outcome
<1>12. QED BY <1>1, <1>2, <1>3, <1>4, <1>5, <1>6, <1>7, <1>8, <1>9, <1>10, <1>11 DEF Next

-----------------------------------------------------------------------------
(* The properties of the runs.                                             *)

LEMMA WellFormedIsGraph ==
    ASSUME NEW g, WellFormed(g)
    PROVE  IsGraph(g)
<1>1. g \in Graph /\ Rooted(g) /\ Linked(g)
  BY DEF WellFormed
<1>2. g.transitions \in [DOMAIN g.transitions -> TransitionRecord] /\ g.wires \subseteq WireRecord
  BY <1>1, GraphFacts
<1>3. ASSUME NEW t \in DOMAIN g.transitions
      PROVE  g.transitions[t] \in [source : Ids(g) \cup {Nothing}, target : Ids(g)]
  <2>1. g.transitions[t] \in TransitionRecord
    BY <1>2
  <2>2. g.transitions[t].source \in Ids(g) \cup {Nothing} /\ g.transitions[t].target \in Ids(g)
    BY <1>1 DEF Linked
  <2>3. QED BY <2>1, <2>2 DEF TransitionRecord
<1>4. ASSUME NEW w \in g.wires
      PROVE  w \in [source : Ids(g), sourcePort : {0, 1}, target : Ids(g), port : {0, 1}]
  BY <1>1, <1>2 DEF Linked, WireRecord
<1>5. Root \in Ids(g) /\ Ids(g) \subseteq NodeId /\ g.node \in [Ids(g) -> NodeRecord]
      /\ DOMAIN g.transitions \subseteq 1..MaxTransitions
      /\ g.values \subseteq Parameter /\ g.groups \subseteq Parameter \cup Group
  BY <1>1, GraphFacts DEF Rooted
<1>6. QED BY <1>3, <1>4, <1>5 DEF IsGraph

\* The graph, and every graph an undo can bring back, is one with nothing
\* joined to a node it does not have (AnimGraphAuthoring.cpp, and the history
\* of EMotion Studio its groups rely on).
THEOREM TypeCorrect == Spec => []TypeOK
<1>1. ASSUME IInv PROVE TypeOK
  <2>1. past \in Seq(WellFormedGraph) /\ Len(past) <= MaxUndo /\ answer \in {"none", "ok", "engine_error"}
    BY <1>1 DEF IInv
  <2>2. \A i \in 1..Len(past) : past[i] \in WellFormedGraph
    BY <2>1
  <2>3. IsGraph(graph) /\ \A i \in 1..Len(past) : IsGraph(past[i])
    BY <1>1, <2>2, WellFormedIs, WellFormedIsGraph DEF IInv
  <2>4. QED BY <2>1, <2>3, Zenon DEF TypeOK
<1>2. QED BY <1>1, InvariantHolds, PTL

\* No two nodes of the graph share a name, so the name a command sends to
\* the engine selects the node the request means.
THEOREM UniqueNames == Spec => []NamesAreUnique
<1>1. IInv => NamesAreUnique
  BY WellFormedIs DEF IInv, WellFormed, Unique, NamesAreUnique
<1>2. QED BY <1>1, InvariantHolds, PTL

\* A node is only ever where PlacementProblem lets the gem put it, through
\* removals of whole subtrees and undos as well.
THEOREM Placement == Spec => []PlacementHolds
<1>1. ASSUME IInv PROVE PlacementHolds
  <2>1. Placed(graph)
    BY <1>1, WellFormedIs DEF IInv, WellFormed
  <2>2. QED BY <2>1 DEF Placed, PlacementHolds
<1>2. QED BY <1>1, InvariantHolds, PTL

\* A transition joins two states of one state machine, and an entry state is
\* a child of the machine that has it.
THEOREM JoinedSiblings == Spec => []TransitionsJoinSiblings
<1>1. ASSUME IInv PROVE TransitionsJoinSiblings
  <2>1. Joined(graph) /\ Entered(graph)
    BY <1>1, WellFormedIs DEF IInv, WellFormed
  <2>2. QED BY <2>1 DEF Joined, Entered, TransitionsJoinSiblings
<1>2. QED BY <1>1, InvariantHolds, PTL

\* No request connects an input port that has a connection.
THEOREM SingleWires == Spec => []PortsTakeOneWire
<1>1. IInv => PortsTakeOneWire
  BY WellFormedIs DEF IInv, WellFormed, Ported, PortsTakeOneWire
<1>2. QED BY <1>1, InvariantHolds, PTL

\* The wires of a blend tree stay in it and never close a cycle, of any
\* length.
THEOREM NoCycles == Spec => []TreesAreAcyclic
<1>1. IInv => TreesAreAcyclic
  BY WellFormedIs DEF IInv, WellFormed, Treed, Acyclic, TreesAreAcyclic
<1>2. QED BY <1>1, InvariantHolds, PTL

\* A request that fails, after any of its commands, leaves the graph as it
\* was and nothing of itself in the history.
THEOREM NothingIsLeft == Spec => FailedRequestsLeaveNothing
<1>1. ASSUME IInv, Next, answer' = "engine_error"
      PROVE  graph' = graph /\ past' \in {past, Pop(Push(past, graph))}
  <2>1. CASE UNCHANGED <<graph, past>>
    BY <2>1
  <2>2. ASSUME NEW partial, UndoFailedGroup(partial)
        PROVE  graph' = graph /\ past' = Pop(Push(past, graph))
    BY <1>1, <2>2, GroupIsUndone, Zenon
  <2>3. QED BY <1>1, <2>1, <2>2, StepsEnd DEF Outcome, Done, UserUndo
<1>2. IInv /\ [Next]_vars => [answer' = "engine_error" => graph' = graph /\ past' \in {past, Pop(Push(past, graph))}]_vars
  BY <1>1
<1>3. QED BY <1>2, InvariantHolds, PTL DEF Spec, FailedRequestsLeaveNothing

\* A request that succeeds adds one step to the history, the graph it found,
\* whether it ran one command or a group.
THEOREM OneStep == Spec => [][answer' = "ok" => past' = Push(past, graph)]_vars
<1>1. ASSUME Next, answer' = "ok"
      PROVE  past' = Push(past, graph)
  BY <1>1, StepsEnd DEF Outcome, Done, UndoFailedGroup, UserUndo
<1>2. [Next]_vars => [answer' = "ok" => past' = Push(past, graph)]_vars
  BY <1>1
<1>3. QED BY <1>2, PTL DEF Spec

\* The graph and its history implement EditHistory: what succeeds is an Edit,
\* what fails is an Answer or, when the undone group pushed the oldest step
\* off a full history, a Forget, and the user's undo is an Undo.
THEOREM GraphHistory == Spec => GraphEditsAreUndoable
<1>1. Init => History!Init
  BY DEF Init, History!Init
<1>2. IInv /\ [Next]_vars => [History!Next]_(History!vars)
  <2> SUFFICES ASSUME IInv, Next
               PROVE  History!Answer \/ History!Edit \/ History!Undo \/ History!Forget
    BY DEF vars, History!vars, History!Next
  <2>1. ASSUME NEW g, Done(g) PROVE History!Edit
    BY <2>1 DEF Done, Push, History!Edit, History!Push
  <2>2. ASSUME NEW partial, UndoFailedGroup(partial) PROVE History!Answer \/ History!Forget
    <3>1. /\ graph' = graph /\ answer' = "engine_error"
          /\ past' = past \/ (past # << >> /\ past' = Tail(past))
      BY <2>2, GroupIsUndone, Zenon
    <3>2. CASE past' = past
      BY <3>1, <3>2, Zenon DEF History!Answer
    <3>3. CASE past # << >> /\ past' = Tail(past)
      <4>1. past' \in {Tail(past), << >>} /\ answer' # "ok"
        BY <3>1, <3>3
      <4>2. QED BY <3>1, <3>3, <4>1, Zenon DEF History!Forget
    <3>4. QED BY <3>1, <3>2, <3>3, Zenon
  <2>3. CASE UserUndo
    BY <2>3 DEF UserUndo, Top, Pop, History!Undo
  <2>4. CASE UNCHANGED <<graph, past>>
    BY <2>4, Zenon DEF History!Answer
  <2>5. QED BY <2>1, <2>2, <2>3, <2>4, StepsEnd, Zenon DEF Outcome
<1>3. QED BY <1>1, <1>2, InvariantHolds, PTL DEF Spec, GraphEditsAreUndoable, History!Spec
=============================================================================
