------------------------- MODULE AnimGraphAuthoring -------------------------
(***************************************************************************)
(* The anim graph requests of Animation/AnimGraphAuthoring.cpp on one      *)
(* editable graph.  A request names nodes by id; the gem checks it against *)
(* the graph and then sends EMotion Studio one command, or one group of    *)
(* commands, that names nodes by NAME.  A request runs to its end on the   *)
(* main thread, so it is one action; the user's undo comes between them.   *)
(* A refused request changes nothing and is no step.  The commands and the *)
(* history are EMotion Studio's, modelled from what the requests and their *)
(* comments expect of them.                                                *)
(***************************************************************************)
EXTENDS Integers, FiniteSets, Sequences

CONSTANTS Name,            \* node names a request or the engine may choose
          Parameter,       \* names requests give to parameters
          Group,           \* further names they give to groups
          MaxNodes,        \* bound: nodes of the graph
          MaxTransitions,  \* bound: transitions of the graph
          MaxUndo          \* bound: undo steps the history is followed back

\* The bounds leave room for the loaded graph of Init.
ASSUME BoundsArePositive == /\ MaxNodes \in Nat \ {0, 1}
                            /\ MaxTransitions \in Nat \ {0}
                            /\ MaxUndo \in Nat \ {0}

\* IsValidObjectName refuses the empty name; a command reads it as no name.
ASSUME NoNameIsEmpty == "" \notin Name

VARIABLES graph,   \* the graph EMotion Studio holds
          past,    \* the history: the graph before each step, newest last
          answer   \* what the last step answered

vars == <<graph, past, answer>>

-----------------------------------------------------------------------------
(* Graphs.  The properties tell apart which nodes there are, what joins    *)
(* them and which parameters exist; positions, attributes, blend times and *)
(* conditions change no structure and are left out.                        *)

Root    == 1
Nothing == 0                      \* no parent, no entry state, no source: a wildcard
NodeId  == 1..MaxNodes
RootName   == "Root"
UnsafeName == "unsafe"            \* a loaded name the command line cannot hold

Kind == {"machine", "tree", "motion", "exit", "math", "final"}

Node(kind, parent, name) == [kind |-> kind, parent |-> parent, name |-> name, entry |-> Nothing]

Ids(g)           == DOMAIN g.node
Names(g)         == {g.node[n].name : n \in Ids(g)}
Children(g, n)   == {c \in Ids(g) : g.node[c].parent = n}
ParentKind(g, n) == g.node[g.node[n].parent].kind
IsState(g, n)    == n # Root /\ ParentKind(g, n) = "machine"

CommandSafeName(name) == name # UnsafeName

\* The node a command's name selects.
Named(g, name) == CHOOSE n \in Ids(g) : g.node[n].name = name

\* n and everything below it.
Subtree(g, n) == {m \in Ids(g) : \A S \in SUBSET Ids(g) :
                     (n \in S /\ \A p \in S : Children(g, p) \subseteq S) => m \in S}

\* Whether to can be reached from from along the wires.
Feeds(g, from, to) == \A S \in SUBSET Ids(g) :
                         (from \in S /\ \A w \in g.wires : w.source \in S => w.target \in S) => to \in S

-----------------------------------------------------------------------------
(* Node types: the flags CollectNodeTypes reads off each prototype, for    *)
(* one type of each sort, and the ports: what can act as a state has a     *)
(* pose to give, a final node takes one, a math node works on numbers.     *)

CanActAsState     == {"machine", "tree", "motion", "exit"}
CanHaveChildren   == {"machine", "tree"}
InsideMachineOnly == {"exit"}
InsideChildOnly   == {"exit"}
OnlyOneInside     == {"final"}
CanBeEntryNode    == CanActAsState \ {"exit"}
OutputPorts(kind) == CASE kind = "math" -> {0, 1} [] kind \in {"exit", "final"} -> {} [] OTHER -> {0}
InputPorts(kind)  == CASE kind = "math" -> {0, 1} [] kind = "final" -> {0} [] OTHER -> {}
Carries(kind)     == IF kind = "math" THEN "number" ELSE "pose"

\* Mutant of Placeable: forgets that one final node is enough for a tree.
PlaceableTwice(g, kind, p) ==
    /\ g.node[p].kind \in CanHaveChildren
    /\ g.node[p].kind = "machine" => kind \in CanActAsState
    /\ g.node[p].kind # "machine" => kind \notin InsideMachineOnly
    /\ kind \in InsideChildOnly => g.node[p].kind = "machine" /\ p # Root
    /\ kind = "final" => g.node[p].kind = "tree"

\* PlacementProblem finds none.
Placeable(g, kind, p) ==
    /\ g.node[p].kind \in CanHaveChildren
    /\ g.node[p].kind = "machine" => kind \in CanActAsState
    /\ g.node[p].kind # "machine" => kind \notin InsideMachineOnly
    /\ kind \in InsideChildOnly => g.node[p].kind = "machine" /\ p # Root
    /\ kind = "final" => g.node[p].kind = "tree"
    /\ kind \in OnlyOneInside => \A c \in Children(g, p) : g.node[c].kind # kind

-----------------------------------------------------------------------------
(* EMotion Studio's commands, each the graph it makes of g.                *)

FreshNode(g)       == CHOOSE n \in NodeId \ Ids(g) : \A m \in NodeId \ Ids(g) : n <= m
FreshTransition(g) == CHOOSE t \in (1..MaxTransitions) \ DOMAIN g.transitions :
                         \A u \in (1..MaxTransitions) \ DOMAIN g.transitions : t <= u

\* The first state of a state machine becomes its entry state.
CreateNode(g, kind, parentName, name) ==
    LET p == Named(g, parentName)
        n == FreshNode(g)
        first == g.node[p].kind = "machine" /\ g.node[p].entry = Nothing /\ kind \in CanBeEntryNode
    IN  [g EXCEPT !.node = [m \in Ids(g) \cup {n} |->
             CASE m = n          -> Node(kind, p, name)
               [] m = p /\ first -> [g.node[p] EXCEPT !.entry = n]
               [] OTHER          -> g.node[m]]]

\* The node goes with all it contains and all that touches it; e is what a
\* state machine that loses its entry state is left with.
RemoveNamed(g, name, e) ==
    LET gone == Subtree(g, Named(g, name))
        kept == Ids(g) \ gone
    IN  [g EXCEPT !.node = [m \in kept |-> IF g.node[m].entry \in gone
                                           THEN [g.node[m] EXCEPT !.entry = e] ELSE g.node[m]],
                  !.wires = {w \in @ : {w.source, w.target} \cap gone = {}},
                  !.transitions = [t \in {u \in DOMAIN @ : {@[u].source, @[u].target} \cap gone = {}} |-> @[t]]]

Rename(g, name, new) == [g EXCEPT !.node[Named(g, name)].name = new]

EntryState(g, name) ==
    LET n == Named(g, name) IN [g EXCEPT !.node[g.node[n].parent].entry = n]

\* An empty source name makes a wildcard transition.
CreateTransition(g, sourceName, targetName) ==
    LET s == IF sourceName = "" THEN Nothing ELSE Named(g, sourceName)
        t == FreshTransition(g)
        new == [source |-> s, target |-> Named(g, targetName)]
    IN  [g EXCEPT !.transitions = [u \in DOMAIN @ \cup {t} |-> IF u = t THEN new ELSE @[u]]]

DropTransition(g, t) == [g EXCEPT !.transitions = [u \in DOMAIN @ \ {t} |-> @[u]]]

Wire(g, sourceName, sourcePort, targetName, port) ==
    [source |-> Named(g, sourceName), sourcePort |-> sourcePort, target |-> Named(g, targetName), port |-> port]

-----------------------------------------------------------------------------
(* Running commands.                                                       *)

\* The history as far back as it is followed.
Push(h, g) == IF Len(h) < MaxUndo THEN Append(h, g) ELSE Append(Tail(h), g)
Top(h)     == h[Len(h)]
Pop(h)     == SubSeq(h, 1, Len(h) - 1)

\* The history with the requester's new step on it, and the answer.
Done(g) == graph' = g /\ past' = Push(past, graph) /\ answer' = "ok"

\* A command that fails changed nothing and is not in the history.
RunCommand(g) == \/ Done(g)
                 \/ UNCHANGED <<graph, past>> /\ answer' = "engine_error"

\* Mutant of UndoFailedGroup: leaves the failed group as it is.
LeaveFailedGroup(partial) ==
    graph' = partial /\ past' = Push(past, graph) /\ answer' = "engine_error"

\* A group that failed on the way is in the history all the same; undoing it
\* takes back what its commands did.
UndoFailedGroup(partial) ==
    LET pushed == Push(past, graph) IN
    graph' = Top(pushed) /\ past' = Pop(pushed) /\ answer' = "engine_error"

\* Mutant of GroupDone: every command of the group is a step of its own.
GroupDoneInSteps(made) ==
    /\ graph' = made[Len(made)]
    /\ past' = Push(Push(past, graph), made[Len(made) - 1])
    /\ answer' = "ok"

GroupDone(made) == Done(made[Len(made)])

\* made: the graphs its commands make one after the other.  canFinish: the
\* last of them is one the engine may accept.
RunCommandGroup(made, canFinish) ==
    \/ canFinish /\ GroupDone(made)
    \/ \E done \in 0..(Len(made) - 1) : UndoFailedGroup(IF done = 0 THEN graph ELSE made[done])

-----------------------------------------------------------------------------
(* Requests about nodes.                                                   *)

\* Mutant of NameIsFree: compares with the siblings only.
NameIsFreeAmongSiblings(name, p) == name \notin {graph.node[c].name : c \in Children(graph, p)}

\* Names are unique graph-wide, whatever the parent p.
NameIsFree(name, p) == name \notin Names(graph)

\* A name of the request, or the generated one.
AddNode(kind, name, p) ==
    /\ p \in Ids(graph)
    /\ NodeId \ Ids(graph) # {}
    /\ NameIsFree(name, p)
    /\ Placeable(graph, kind, p)
    /\ CommandSafeName(graph.node[p].name)
    /\ RunCommand(CreateNode(graph, kind, graph.node[p].name, name))

\* Mutant of MayBeRemoved: forgets the root.
AnyMayBeRemoved(n) == n \in Ids(graph)

MayBeRemoved(n) == n \in Ids(graph) \ {Root}

RemoveNode(n) ==
    /\ MayBeRemoved(n)
    /\ CommandSafeName(graph.node[n].name)
    /\ \E e \in {Nothing} \cup {c \in Children(graph, graph.node[n].parent) \ {n} :
                                   IsState(graph, c) /\ graph.node[c].kind \in CanBeEntryNode} :
          RunCommand(RemoveNamed(graph, graph.node[n].name, e))

MayBeEntry(n) == IsState(graph, n) /\ graph.node[n].kind \in CanBeEntryNode

SetEntryState(n) ==
    /\ n \in Ids(graph)
    /\ MayBeEntry(n)
    /\ CommandSafeName(graph.node[n].name)
    /\ RunCommand(EntryState(graph, graph.node[n].name))

\* A new name, or the node's own: other fields only (position, enabled,
\* attributes).
SetNode(n, name) ==
    /\ n \in Ids(graph)
    /\ CommandSafeName(graph.node[n].name)
    /\ name # graph.node[n].name => NameIsFree(name, graph.node[n].parent)
    /\ RunCommand(Rename(graph, graph.node[n].name, name))

-----------------------------------------------------------------------------
(* Requests about transitions.                                             *)

\* Mutant of MayStart: never compares the parents, as the engine's command.
MayStartAnywhere(s, n) == s # n /\ graph.node[s].kind # "exit"

MayStart(s, n) == /\ s # n
                  /\ graph.node[s].parent = graph.node[n].parent
                  /\ graph.node[s].kind # "exit"

\* s = Nothing: no source_node_id.  With extras (adjustments, conditions) the
\* request is a group, and the adjusting commands leave the structure alone.
AddTransition(s, n, extras) ==
    /\ n \in Ids(graph)
    /\ IsState(graph, n)
    /\ s # Nothing => s \in Ids(graph) /\ MayStart(s, n) /\ CommandSafeName(graph.node[s].name)
    /\ CommandSafeName(graph.node[n].name)
    /\ DOMAIN graph.transitions # 1..MaxTransitions
    /\ LET made == CreateTransition(graph, IF s = Nothing THEN "" ELSE graph.node[s].name, graph.node[n].name)
       IN  IF extras THEN RunCommandGroup(<<made, made>>, TRUE) ELSE RunCommand(made)

EndsAreSafe(t) == \A n \in {t.source, t.target} \ {Nothing} : CommandSafeName(graph.node[n].name)

RemoveTransition(t) ==
    /\ t \in DOMAIN graph.transitions
    /\ IsState(graph, graph.transitions[t].target)
    /\ EndsAreSafe(graph.transitions[t])
    /\ RunCommand(DropTransition(graph, t))

\* Blend time, priority and the like: by id, and no structure.
SetTransition(t) == t \in DOMAIN graph.transitions /\ RunCommand(graph)

-----------------------------------------------------------------------------
(* Requests about the ports of a blend tree.                               *)

\* Mutant of InputIsFree: only a second connection from the same port is
\* refused.
InputHasNoSuchWire(s, sourcePort, n, port) ==
    \A w \in graph.wires : w.source # s \/ w.sourcePort # sourcePort \/ w.target # n \/ w.port # port

InputIsFree(s, sourcePort, n, port) == \A w \in graph.wires : w.target # n \/ w.port # port

\* Mutant of ConnectionWillProduceCycle: looks the wrong way along the wires.
CycleTheOtherWay(s, n) == Feeds(graph, s, n)

ConnectionWillProduceCycle(s, n) == Feeds(graph, n, s)

ConnectPorts(s, sourcePort, n, port) ==
    /\ s \in Ids(graph) /\ n \in Ids(graph) /\ s # n
    /\ n # Root /\ ~IsState(graph, n)
    /\ graph.node[s].parent = graph.node[n].parent
    /\ sourcePort \in OutputPorts(graph.node[s].kind) /\ port \in InputPorts(graph.node[n].kind)
    /\ Carries(graph.node[s].kind) = Carries(graph.node[n].kind)
    /\ InputIsFree(s, sourcePort, n, port)
    /\ ~ConnectionWillProduceCycle(s, n)
    /\ CommandSafeName(graph.node[s].name) /\ CommandSafeName(graph.node[n].name)
    /\ RunCommand([graph EXCEPT !.wires = @ \cup
                     {Wire(graph, graph.node[s].name, sourcePort, graph.node[n].name, port)}])

DisconnectPorts(n, port) ==
    /\ n \in Ids(graph) \ {Root} /\ ~IsState(graph, n)
    /\ \E w \in graph.wires :
          /\ w.target = n /\ w.port = port
          /\ CommandSafeName(graph.node[w.source].name) /\ CommandSafeName(graph.node[n].name)
          /\ RunCommand([graph EXCEPT !.wires = @ \
                           {Wire(graph, graph.node[w.source].name, w.sourcePort, graph.node[n].name, port)}])

-----------------------------------------------------------------------------
(* Requests about parameters.                                              *)

\* The engine refuses a second parameter of a name, a group's included.
AddParameter(p, group) ==
    /\ p \notin graph.values \cup graph.groups
    /\ group \notin graph.values
    /\ LET grouped == [graph EXCEPT !.groups = @ \cup {group}]
           added   == [grouped EXCEPT !.values = @ \cup {p}]
       IN  IF group \in graph.groups \cup {"none"}
           THEN RunCommand([graph EXCEPT !.values = @ \cup {p}])
           ELSE RunCommandGroup(<<grouped, added>>, p # group)

RemoveParameter(p) == p \in graph.values /\ RunCommand([graph EXCEPT !.values = @ \ {p}])

-----------------------------------------------------------------------------
EmptyGraph == [node |-> [n \in {Root} |-> Node("machine", Nothing, RootName)],
               transitions |-> << >>, wires |-> {}, values |-> {}, groups |-> {}]

\* A loaded graph may hold a name a request could not have given.
LoadedGraph == [EmptyGraph EXCEPT
    !.node = [n \in {Root, 2} |-> IF n = Root THEN [Node("machine", Nothing, RootName) EXCEPT !.entry = 2]
                                  ELSE Node("motion", Root, UnsafeName)],
    !.transitions = [t \in {1} |-> [source |-> Nothing, target |-> 2]]]

Init == graph \in {EmptyGraph, LoadedGraph} /\ past = << >> /\ answer = "none"

\* The user's undo in the Animation Editor.
UserUndo == /\ past # << >>
            /\ graph' = Top(past) /\ past' = Pop(past) /\ answer' = "none"

Next == \/ \E kind \in Kind, name \in Name, p \in NodeId : AddNode(kind, name, p)
        \/ \E n \in NodeId : RemoveNode(n)
        \/ \E n \in NodeId : SetEntryState(n)
        \/ \E n \in NodeId, name \in Name : SetNode(n, name)
        \/ \E s \in NodeId \cup {Nothing}, n \in NodeId, extras \in BOOLEAN : AddTransition(s, n, extras)
        \/ \E t \in 1..MaxTransitions : RemoveTransition(t)
        \/ \E t \in 1..MaxTransitions : SetTransition(t)
        \/ \E s, n \in NodeId, sourcePort, port \in {0, 1} : ConnectPorts(s, sourcePort, n, port)
        \/ \E n \in NodeId, port \in {0, 1} : DisconnectPorts(n, port)
        \/ \E p \in Parameter, group \in Parameter \cup Group \cup {"none"} : AddParameter(p, group)
        \/ \E p \in Parameter : RemoveParameter(p)
        \/ UserUndo

Spec == Init /\ [][Next]_vars

-----------------------------------------------------------------------------
NodeRecord == [kind : Kind, parent : NodeId \cup {Nothing},
               name : Name \cup {RootName, UnsafeName}, entry : NodeId \cup {Nothing}]
IsGraph(g) == /\ Root \in Ids(g) /\ Ids(g) \subseteq NodeId /\ g.node \in [Ids(g) -> NodeRecord]
              /\ DOMAIN g.transitions \subseteq 1..MaxTransitions
              /\ \A t \in DOMAIN g.transitions :
                    g.transitions[t] \in [source : Ids(g) \cup {Nothing}, target : Ids(g)]
              /\ g.wires \subseteq [source : Ids(g), sourcePort : {0, 1}, target : Ids(g), port : {0, 1}]
              /\ g.values \subseteq Parameter /\ g.groups \subseteq Parameter \cup Group

\* The graph and every graph an undo can bring back is one, with nothing
\* joined to a node it does not have.
TypeOK == /\ IsGraph(graph)
          /\ Len(past) <= MaxUndo /\ \A i \in 1..Len(past) : IsGraph(past[i])
          /\ answer \in {"none", "ok", "engine_error"}

\* No two nodes of a graph share a name, wherever they are: every command
\* names its nodes, and renames are not checked by the engine.
NamesAreUnique == \A m, n \in Ids(graph) : graph.node[m].name = graph.node[n].name => m = n

\* A state machine contains states only; an exit node is in a child state
\* machine; final and math nodes are in blend trees, one final node in each:
\* what the Animation Editor's palette allows and the create command does not
\* check.
PlacementHolds == \A n \in Ids(graph) \ {Root} :
    LET p == graph.node[n].parent
        kind == graph.node[n].kind
    IN  /\ kind \in {"math", "final"} => ParentKind(graph, n) = "tree"
        /\ kind = "exit" => ParentKind(graph, n) = "machine" /\ p # Root
        /\ ParentKind(graph, n) \in {"machine", "tree"}
        /\ kind = "final" => \A c \in Children(graph, p) \ {n} : graph.node[c].kind # "final"

\* A transition joins two different states of one state machine and does not
\* leave an exit node, although the create command never compares parents.
\* Only a state machine has an entry state, and it is a state it contains.
TransitionsJoinSiblings ==
    /\ \A t \in DOMAIN graph.transitions :
          LET s == graph.transitions[t].source
              n == graph.transitions[t].target
          IN  IsState(graph, n) /\ (s # Nothing => s # n /\ graph.node[s].parent = graph.node[n].parent
                                                          /\ graph.node[s].kind # "exit")
    /\ \A m \in Ids(graph) : graph.node[m].entry # Nothing =>
          graph.node[m].kind = "machine" /\ graph.node[m].entry \in Children(graph, m)

\* An input port has one connection at most: a second one would overwrite it
\* and orphan the first in the node's list.
PortsTakeOneWire == \A v, w \in graph.wires : v.target = w.target /\ v.port = w.port => v = w

\* The connections of a blend tree join nodes of that tree and close no
\* cycle, through however many nodes.
TreesAreAcyclic == \A w \in graph.wires :
    /\ graph.node[w.source].parent = graph.node[w.target].parent
    /\ ~Feeds(graph, w.target, w.source)

\* A request that answers an engine error leaves nothing behind: the graph is
\* as before, and so is the history as far back as it is followed.
FailedRequestsLeaveNothing ==
    [][answer' = "engine_error" => graph' = graph /\ past' \in {past, Pop(Push(past, graph))}]_vars

\* Commands, groups that finish, groups that are undone half way and the user's
\* own undo keep the graph and its history as EditHistory says: the graph never
\* changes without the step that undoes it, an undo never brings back a graph
\* between two commands of one request, and no request takes a step back that
\* it did not make.
History == INSTANCE EditHistory WITH value <- graph, history <- past, reply <- answer
GraphEditsAreUndoable == History!Spec
=============================================================================
