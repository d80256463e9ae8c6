------------------------ MODULE AnimGraphFilesProofs ------------------------
(***************************************************************************)
(* Proofs about AnimGraphFiles, for all files, texts, aliases, roots and   *)
(* bounds: types and unique ids, copies that others own stay as they are,  *)
(* no file outside the project is written, and a save is of the graph that *)
(* was asked for.                                                          *)
(***************************************************************************)
EXTENDS AnimGraphFiles, FiniteSetTheorems, TLAPS

\* The graphs there can be when i ids and v versions were handed out.
GraphsOf(i, v) == [id : 1..i, file : File \cup Text \cup {NoFile}, owner : Owner, content : 1..v]

\* What the manager's list keeps: graphs of ids that were handed out, each of
\* its own, and none of EMotion Studio's without its command system.
Types ==
    /\ studio \in BOOLEAN /\ ids \in 0..MaxIds /\ versions \in 1..MaxVersions
    /\ disk \in [File -> 0..versions]
    /\ graphs \in Seq(GraphsOf(ids, versions))

IdsAreUnique == \A i, j \in DOMAIN graphs : graphs[i].id = graphs[j].id => i = j

NobodysGraphs == ~studio => \A i \in DOMAIN graphs : graphs[i].owner # "studio"

\* Only others' copies may keep a file name as somebody spelled it.
NamesAreResolved == \A i \in DOMAIN graphs : graphs[i].owner = "studio" => graphs[i].file \in File \cup {NoFile}

IInv == Types /\ IdsAreUnique /\ NobodysGraphs /\ NamesAreResolved

-----------------------------------------------------------------------------
(* Graphs and lists of graphs.                                             *)

LEMMA GraphFacts ==
    ASSUME NEW i \in Nat, NEW v \in Nat
    PROVE  /\ \A g \in GraphsOf(i, v) : /\ g.id \in 1..i /\ g.file \in File \cup Text \cup {NoFile}
                                        /\ g.owner \in Owner /\ g.content \in 1..v
           /\ \A d \in 1..i, f \in File \cup Text \cup {NoFile}, o \in Owner, c \in 1..v :
                 /\ Graph(d, f, o, c) \in GraphsOf(i, v)
                 /\ Graph(d, f, o, c).id = d /\ Graph(d, f, o, c).file = f
                 /\ Graph(d, f, o, c).owner = o /\ Graph(d, f, o, c).content = c
           /\ \A g \in GraphsOf(i, v) : /\ g \in GraphsOf(i + 1, v)
                                        /\ g \in GraphsOf(i, v + 1)
BY DEF GraphsOf, Graph

LEMMA ChangedGraph ==
    ASSUME NEW i \in Nat, NEW v \in Nat, NEW g \in GraphsOf(i, v)
    PROVE  /\ \A f \in File \cup Text \cup {NoFile} :
                 /\ [g EXCEPT !.file = f] \in GraphsOf(i, v)
                 /\ [g EXCEPT !.file = f].id = g.id /\ [g EXCEPT !.file = f].owner = g.owner
                 /\ [g EXCEPT !.file = f].content = g.content
           /\ \A c \in 1..v :
                 /\ [g EXCEPT !.content = c] \in GraphsOf(i, v)
                 /\ [g EXCEPT !.content = c].id = g.id /\ [g EXCEPT !.content = c].owner = g.owner
                 /\ [g EXCEPT !.content = c].file = g.file
BY DEF GraphsOf

LEMMA Elementwise ==
    ASSUME NEW S, NEW T, NEW q \in Seq(S), \A i \in DOMAIN q : q[i] \in T
    PROVE  q \in Seq(T)
OBVIOUS

LEMMA DroppedFacts ==
    ASSUME NEW S, graphs \in Seq(S), NEW i \in DOMAIN graphs
    PROVE  /\ Dropped(i) \in Seq(S)
           /\ \A k \in DOMAIN Dropped(i) :
                 \E m \in DOMAIN graphs : /\ m # i /\ Dropped(i)[k] = graphs[m]
                                         /\ (k < i => m = k) /\ (k >= i => m = k + 1)
           /\ \A m \in DOMAIN graphs : m # i => \E k \in DOMAIN Dropped(i) : Dropped(i)[k] = graphs[m]
<1> DEFINE n == Len(graphs)
           D == Dropped(i)
<1>1. n \in Nat /\ DOMAIN graphs = 1..n /\ i \in 1..n
  OBVIOUS
<1>2. D = [k \in 1..(n - 1) |-> graphs[IF k < i THEN k ELSE k + 1]]
  BY DEF Dropped
<1>3. \A k \in 1..(n - 1) : (IF k < i THEN k ELSE k + 1) \in 1..n
  BY <1>1
<1>4. \A k \in 1..(n - 1) : D[k] = graphs[IF k < i THEN k ELSE k + 1] /\ D[k] \in S
  BY <1>1, <1>2, <1>3
<1>5. DOMAIN D = 1..(n - 1)
  BY <1>2
<1>6. D \in Seq(S)
  BY <1>1, <1>2, <1>4
<1>7. \A k \in DOMAIN D :
         \E m \in DOMAIN graphs : m # i /\ D[k] = graphs[m] /\ (k < i => m = k) /\ (k >= i => m = k + 1)
  <2> SUFFICES ASSUME NEW k \in 1..(n - 1)
               PROVE  \E m \in 1..n : m # i /\ D[k] = graphs[m] /\ (k < i => m = k) /\ (k >= i => m = k + 1)
    BY <1>1, <1>5
  <2>1. CASE k < i
    BY <1>1, <1>3, <1>4, <2>1
  <2>2. CASE k >= i
    BY <1>1, <1>3, <1>4, <2>2
  <2>3. QED BY <1>1, <2>1, <2>2
<1>8. ASSUME NEW m \in DOMAIN graphs, m # i PROVE \E k \in DOMAIN D : D[k] = graphs[m]
  <2>1. CASE m < i
    <3>1. m \in 1..(n - 1)
      BY <1>1, <2>1
    <3>2. QED BY <1>4, <1>5, <2>1, <3>1
  <2>2. CASE m > i
    <3>1. m - 1 \in 1..(n - 1) /\ ~(m - 1 < i) /\ (m - 1) + 1 = m
      BY <1>1, <2>2
    <3>2. QED BY <1>4, <1>5, <3>1
  <2>3. QED BY <1>1, <1>8, <2>1, <2>2
<1>9. QED BY <1>6, <1>7, <1>8

\* FirstOf names a place where there is one: of the intervals 1..i one is the
\* smallest.
LEMMA FirstIsThere ==
    ASSUME NEW n \in Nat, NEW S \in SUBSET (1..n), S # {}
    PROVE  FirstOf(S) \in S
<1> DEFINE T == {1..i : i \in S}
<1>1. IsWellFoundedOn(StrictSubsetOrdering(1..n), FiniteSubsetsOf(1..n))
  BY FS_StrictSubsetOrderingWellFounded
<1>2. \A i \in S : IsFiniteSet(1..i) /\ 1..i \subseteq 1..n
  BY FS_Interval
<1>3. T \subseteq FiniteSubsetsOf(1..n) /\ T # {}
  BY <1>2 DEF FiniteSubsetsOf
<1>4. PICK x \in T : \A y \in T : ~(<<y, x>> \in StrictSubsetOrdering(1..n))
  BY <1>1, <1>3, WFMin
<1>5. PICK k \in S : x = 1..k
  BY <1>4
<1>6. ASSUME NEW j \in S, j < k PROVE FALSE
  <2>1. 1..j \subseteq 1..k /\ 1..j # 1..k
    BY <1>6
  <2>2. <<1..j, 1..k>> \in StrictSubsetOrdering(1..n)
    BY <1>2, <2>1 DEF StrictSubsetOrdering
  <2>3. QED BY <1>4, <1>5, <2>2
<1>7. \A j \in S : k <= j
  BY <1>6
<1>8. QED BY <1>7 DEF FirstOf

\* An id stands for one place of the list.
LEMMA PlaceOf ==
    ASSUME IInv, NEW id, WithId(id) # {}
    PROVE  /\ FirstOf(WithId(id)) \in DOMAIN graphs /\ WithId(id) = {FirstOf(WithId(id))}
           /\ graphs[FirstOf(WithId(id))].id = id
<1>1. PICK i : i \in WithId(id)
  OBVIOUS
<1>2. WithId(id) = {i} /\ i \in DOMAIN graphs /\ graphs[i].id = id
  BY <1>1 DEF WithId, IInv, IdsAreUnique
<1>3. i \in Nat
  BY <1>2 DEF IInv, Types
<1>4. FirstOf({i}) = i
  BY <1>3 DEF FirstOf
<1>5. QED BY <1>2, <1>4

-----------------------------------------------------------------------------
(* What a step does to the list and the files: one of six things.          *)

Nothing == UNCHANGED <<studio, graphs, ids, versions, disk>>

Opens(g) ==
    /\ g.id = ids + 1 /\ ids < MaxIds
    /\ g.owner = "studio" => studio /\ g.file \in File \cup {NoFile}
    /\ graphs' = Append(graphs, g) /\ ids' = ids + 1
    /\ UNCHANGED <<studio, disk, versions>>

Closes(i) == /\ graphs' = Dropped(i) /\ (IsRequest => graphs[i].owner = "studio")
             /\ UNCHANGED <<studio, disk, ids, versions>>

Saves(i, path) ==
    /\ graphs[i].owner = "studio" /\ path \in ProjectRoot
    /\ graphs' = [graphs EXCEPT ![i].file = path]
    /\ disk' = [disk EXCEPT ![path] = graphs[i].content]
    /\ UNCHANGED <<studio, ids, versions>>

Edits(i) == /\ graphs[i].owner = "studio" /\ versions < MaxVersions
            /\ graphs' = [graphs EXCEPT ![i].content = versions + 1] /\ versions' = versions + 1
            /\ UNCHANGED <<studio, disk, ids>>

Writes(file, v) ==
    /\ ~IsRequest /\ (v # 0 => versions < MaxVersions)
    /\ disk' = [disk EXCEPT ![file] = v] /\ versions' = IF v = 0 THEN versions ELSE v
    /\ UNCHANGED <<studio, graphs, ids>>

\* A load answered ok has found a graph of that name or opened one.
LoadedOk ==
    Ok("load") =>
        /\ answer'.file \in File
        /\ \/ /\ UNCHANGED graphs
              /\ \E i \in DOMAIN graphs : /\ graphs[i].owner = "studio" /\ graphs[i].file = answer'.file
                                         /\ graphs[i].id = answer'.graph
           \/ /\ answer'.graph = ids + 1
              /\ Opens(Graph(ids + 1, answer'.file, "studio", disk[answer'.file]))
              /\ disk[answer'.file] # 0
              /\ \A i \in DOMAIN graphs : graphs[i].owner = "studio" => graphs[i].file # answer'.file

\* A save answered ok is of the graph that was asked for.
SavedOk ==
    Ok("save") => \E i \in DOMAIN graphs : graphs[i].id = answer'.graph /\ Saves(i, answer'.file)

Effect == /\ \/ Nothing
             \/ \E g \in GraphsOf(ids + 1, versions) : Opens(g)
             \/ \E i \in DOMAIN graphs : Closes(i)
             \/ \E i \in DOMAIN graphs, path \in File : Saves(i, path)
             \/ \E i \in DOMAIN graphs : Edits(i)
             \/ \E file \in File, v \in {0, versions + 1} : Writes(file, v)
          /\ LoadedOk /\ SavedOk

Refusal == {"engine_error", "unavailable", "validation_failed", "not_found"}

Refuses == \E request, code : code \in Refusal /\ Refuse(request, code)

LEMMA RefusedStep ==
    ASSUME Refuses
    PROVE  Effect
BY DEF Refuses, Refusal, Refuse, Answered, Effect, Nothing, LoadedOk, SavedOk, Ok

LEMMA EditableFacts ==
    ASSUME IInv, NEW id, FindEditableGraph(id) = "ok"
    PROVE  /\ FirstOf(WithId(id)) \in DOMAIN graphs /\ graphs[FirstOf(WithId(id))].id = id
           /\ graphs[FirstOf(WithId(id))].owner = "studio"
           /\ graphs[FirstOf(WithId(id))] \in GraphsOf(ids, versions)
<1>1. WithId(id) # {} /\ IsEditable(id)
  BY DEF FindEditableGraph, FindGraph
<1>2. FirstOf(WithId(id)) \in DOMAIN graphs /\ FirstOf(WithId(id)) \in WithId(id) /\ graphs[FirstOf(WithId(id))].id = id
  BY <1>1, PlaceOf
<1>3. graphs[FirstOf(WithId(id))] \in GraphsOf(ids, versions)
  BY <1>2 DEF IInv, Types
<1>4. graphs[FirstOf(WithId(id))].owner \in Owner
  BY <1>3 DEF GraphsOf
<1>5. QED BY <1>1, <1>2, <1>3, <1>4 DEF IsEditable, Owner

LEMMA PathFacts ==
    ASSUME NEW name, name \in File \cup Text \cup {NoFile}, name # NoFile, ResolveRequestPath(name) # BadPath
    PROVE  ResolveRequestPath(name) \in File /\ FileOf(ResolveRequestPath(name)) = ResolveRequestPath(name)
BY FilesAreTold DEF ResolveRequestPath, FileOf

LEMMA OpensAGraph ==
    ASSUME IInv, ids < MaxIds, NEW f \in File \cup {NoFile}, NEW o \in Owner, NEW c \in 1..versions,
           o = "studio" => studio,
           graphs' = Append(graphs, Graph(ids + 1, f, o, c)), ids' = ids + 1, UNCHANGED <<studio, disk, versions>>
    PROVE  /\ Graph(ids + 1, f, o, c) \in GraphsOf(ids + 1, versions)
           /\ Opens(Graph(ids + 1, f, o, c))
<1>1. ids + 1 \in Nat /\ ids + 1 \in 1..(ids + 1) /\ versions \in Nat
  BY FileBounds DEF IInv, Types
<1> DEFINE g == Graph(ids + 1, f, o, c)
<1>2. g \in GraphsOf(ids + 1, versions) /\ g.id = ids + 1 /\ g.owner = o /\ g.file = f
  BY <1>1, GraphFacts
<1> HIDE DEF g
<1>3. QED BY <1>2 DEF Opens, g

LEMMA StepHasEffect ==
    ASSUME IInv, Next
    PROVE  Effect
<1>0. versions \in Nat /\ ids \in Nat /\ versions >= 1
  BY FileBounds DEF IInv, Types
<1>1. CASE CreateAnimGraph
  <2>1. SUFFICES ASSUME ~Refuses PROVE Effect
    BY RefusedStep
  <2>2. /\ studio /\ ids < MaxIds /\ graphs' = Append(graphs, Graph(ids + 1, NoFile, "studio", Empty)) /\ ids' = ids + 1
        /\ answer'.request = "create" /\ UNCHANGED <<studio, disk, versions>>
    BY <1>1, <2>1 DEF Refuses, Refusal, CreateAnimGraph, RunCommand, Answered
  <2>3. Empty \in 1..versions
    BY <1>0 DEF Empty
  <2>4. \E g \in GraphsOf(ids + 1, versions) : Opens(g)
    BY <2>2, <2>3, OpensAGraph DEF Owner
  <2>5. QED BY <2>2, <2>4 DEF Effect, LoadedOk, SavedOk, Ok
<1>2. CASE \E id \in GivenId : HandleRemoveAnimGraph(id)
  <2>1. SUFFICES ASSUME ~Refuses PROVE Effect
    BY RefusedStep
  <2>2. PICK id \in GivenId : HandleRemoveAnimGraph(id)
    BY <1>2
  <2>3. /\ FindEditableGraph(id) = "ok" /\ graphs' = Dropped(FirstOf(WithId(id)))
        /\ answer'.request = "remove" /\ UNCHANGED <<studio, disk, ids, versions>>
    BY <2>1, <2>2 DEF Refuses, Refusal, HandleRemoveAnimGraph, RemoveAnimGraph, RunCommand, Answered, FindEditableGraph
  <2>4. \E i \in DOMAIN graphs : Closes(i)
    BY <2>3, EditableFacts DEF Closes
  <2>5. QED BY <2>3, <2>4 DEF Effect, LoadedOk, SavedOk, Ok
<1>3. CASE \E id \in GivenId : HandleAnimGraphJsonRequest(id)
  <2>1. SUFFICES ASSUME ~Refuses PROVE Effect
    BY RefusedStep
  <2>2. PICK id \in GivenId : HandleAnimGraphJsonRequest(id)
    BY <1>3
  <2>3. /\ FindEditableGraph(id) = "ok" /\ versions < MaxVersions
        /\ graphs' = [graphs EXCEPT ![FirstOf(WithId(id))].content = versions + 1] /\ versions' = versions + 1
        /\ answer'.request = "edit" /\ UNCHANGED <<studio, disk, ids>>
    BY <2>1, <2>2
       DEF Refuses, Refusal, HandleAnimGraphJsonRequest, EditAnimGraph, RunCommand, Answered, FindEditableGraph
  <2>4. \E i \in DOMAIN graphs : Edits(i)
    BY <2>3, EditableFacts DEF Edits
  <2>5. QED BY <2>3, <2>4 DEF Effect, LoadedOk, SavedOk, Ok
<1>4. CASE \E name \in GivenName : HandleLoadAnimGraph(name)
  <2>1. SUFFICES ASSUME ~Refuses PROVE Effect
    BY RefusedStep
  <2>2. PICK name \in GivenName : HandleLoadAnimGraph(name)
    BY <1>4
  <2> DEFINE path == ResolveRequestPath(name)
  <2>3. name # NoFile /\ studio /\ path # BadPath /\ disk[FileOf(path)] # 0 /\ LoadCommand(path)
    BY <2>1, <2>2 DEF Refuses, Refusal, HandleLoadAnimGraph, LoadAnimGraph, RunCommand
  <2>4. path \in File /\ FileOf(path) = path
    BY <2>2, <2>3, PathFacts DEF GivenName
  <2> HIDE DEF path
  <2> DEFINE loaded == {i \in DOMAIN graphs : graphs[i].owner = "studio" /\ graphs[i].file = path}
  <2>7. IF loaded # {}
        THEN /\ UNCHANGED <<studio, graphs, disk, ids, versions>> /\ answer'.request = "load"
             /\ answer'.graph = graphs[FirstOf(loaded)].id /\ answer'.file = FileOf(path)
        ELSE /\ ids < MaxIds /\ ids' = ids + 1
             /\ graphs' = Append(graphs, Graph(ids + 1, path, "studio", disk[FileOf(path)]))
             /\ answer'.request = "load" /\ answer'.graph = ids + 1 /\ answer'.file = FileOf(path)
             /\ UNCHANGED <<studio, disk, versions>>
    <3>1. IF loaded # {}
          THEN /\ Answered("load", "ok", graphs[FirstOf(loaded)].id, FileOf(path))
               /\ UNCHANGED <<studio, graphs, disk, ids, versions>>
          ELSE /\ Len(graphs) < MaxGraphs /\ ids < MaxIds
               /\ graphs' = Append(graphs, Graph(ids + 1, path, "studio", disk[FileOf(path)]))
               /\ ids' = ids + 1
               /\ Answered("load", "ok", ids + 1, FileOf(path))
               /\ UNCHANGED <<studio, disk, versions>>
      BY <2>3, Zenon DEF LoadCommand
    <3> HIDE DEF loaded
    <3>2. CASE loaded # {}
      BY <3>1, <3>2 DEF Answered
    <3>3. CASE loaded = {}
      BY <3>1, <3>3 DEF Answered
    <3>4. QED BY <3>2, <3>3
  <2>5. CASE loaded # {}
    <3>1. FirstOf(loaded) \in loaded
      <4>1. Len(graphs) \in Nat /\ loaded \in SUBSET (1..Len(graphs))
        BY DEF IInv, Types
      <4>2. QED BY <2>5, <4>1, FirstIsThere
    <3>2. UNCHANGED <<studio, graphs, disk, ids, versions>> /\ answer'.request = "load"
          /\ answer'.graph = graphs[FirstOf(loaded)].id /\ answer'.file = path
      BY <2>4, <2>5, <2>7
    <3>3. LoadedOk
      BY <2>4, <3>1, <3>2 DEF LoadedOk
    <3>4. QED BY <3>2, <3>3 DEF Effect, Nothing, SavedOk, Ok
  <2>6. CASE loaded = {}
    <3>1. /\ ids < MaxIds /\ graphs' = Append(graphs, Graph(ids + 1, path, "studio", disk[path])) /\ ids' = ids + 1
          /\ answer'.request = "load" /\ answer'.graph = ids + 1 /\ answer'.file = path
          /\ UNCHANGED <<studio, disk, versions>>
      BY <2>4, <2>6, <2>7
    <3>2. disk[path] \in 1..versions
      BY <1>0, <2>3, <2>4 DEF IInv, Types
    <3>3. /\ Graph(ids + 1, path, "studio", disk[path]) \in GraphsOf(ids + 1, versions)
          /\ Opens(Graph(ids + 1, path, "studio", disk[path]))
      BY <2>3, <2>4, <3>1, <3>2, OpensAGraph DEF Owner
    <3>4. LoadedOk
      BY <2>3, <2>4, <2>6, <3>1, <3>3 DEF LoadedOk
    <3>5. QED BY <3>1, <3>3, <3>4 DEF Effect, SavedOk, Ok
  <2>8. QED BY <2>5, <2>6
<1>5. CASE \E id \in GivenId, name \in GivenName : HandleSaveAnimGraph(id, name)
  <2>1. SUFFICES ASSUME ~Refuses PROVE Effect
    BY RefusedStep
  <2>2. PICK id \in GivenId, name \in GivenName : HandleSaveAnimGraph(id, name)
    BY <1>5
  <2> DEFINE i == FirstOf(WithId(id))
             target == IF name = NoFile THEN graphs[i].file ELSE name
             path   == ResolveRequestPath(target)
  <2>3. FindEditableGraph(id) = "ok" /\ target # NoFile /\ path # BadPath /\ MayBeSaved(path) /\ SaveCommand(id, path)
    BY <2>1, <2>2 DEF Refuses, Refusal, HandleSaveAnimGraph, SaveAnimGraph, RunCommand, FindEditableGraph
  <2>4. i \in DOMAIN graphs /\ graphs[i].id = id /\ graphs[i].owner = "studio" /\ graphs[i] \in GraphsOf(ids, versions)
    BY <2>3, EditableFacts
  <2>5. target \in File \cup Text \cup {NoFile}
    BY <1>0, <2>2, <2>4, GraphFacts DEF GivenName
  <2>6. path \in File /\ FileOf(path) = path /\ path \in ProjectRoot
    BY <2>3, <2>5, PathFacts DEF MayBeSaved, IsUnderRoot
  <2> HIDE DEF path, target
  <2>7. /\ disk' = [disk EXCEPT ![path] = graphs[i].content] /\ graphs' = [graphs EXCEPT ![i].file = path]
        /\ answer'.request = "save" /\ answer'.graph = id /\ answer'.file = path /\ UNCHANGED <<studio, ids, versions>>
    BY <2>3, <2>6 DEF SaveCommand, ManagerIndex, Answered
  <2> HIDE DEF i
  <2>8. Saves(i, path)
    BY <2>4, <2>6, <2>7 DEF Saves
  <2>9. QED BY <2>4, <2>6, <2>7, <2>8 DEF Effect, LoadedOk, SavedOk, Ok
<1>6. CASE \E id \in GivenId, name \in GivenName : HandleGetAnimGraph(id, name)
  <2>1. SUFFICES ASSUME ~Refuses PROVE Effect
    BY RefusedStep
  <2>2. UNCHANGED <<studio, graphs, disk, ids, versions>> /\ answer'.request = "get"
    BY <1>6, <2>1 DEF Refuses, Refusal, HandleGetAnimGraph, DescribeAnimGraph, Answered
  <2>3. QED BY <2>2 DEF Effect, Nothing, LoadedOk, SavedOk, Ok
<1>7. CASE \E file \in Shared, owner \in {"asset", "runtime"} : OthersLoad(file, owner)
  <2>1. PICK file \in Shared, owner \in {"asset", "runtime"} : OthersLoad(file, owner)
    BY <1>7
  <2>2. /\ disk[file] # 0 /\ ids < MaxIds /\ graphs' = Append(graphs, Graph(ids + 1, file, owner, disk[file]))
        /\ ids' = ids + 1 /\ answer'.request = "none" /\ UNCHANGED <<studio, disk, versions>>
    BY <2>1 DEF OthersLoad, Answered
  <2>3. file \in File
    BY FilesAreTold
  <2>4. disk[file] \in 1..versions
    BY <1>0, <2>2, <2>3 DEF IInv, Types
  <2>5. \E g \in GraphsOf(ids + 1, versions) : Opens(g)
    BY <2>2, <2>3, <2>4, OpensAGraph DEF Owner
  <2>6. QED BY <2>2, <2>5 DEF Effect, LoadedOk, SavedOk, Ok
<1>8. CASE \E i \in 1..MaxGraphs : OthersUnload(i)
  <2>1. PICK i \in 1..MaxGraphs : OthersUnload(i)
    BY <1>8
  <2>2. /\ i \in DOMAIN graphs /\ graphs' = Dropped(i) /\ answer'.request = "none"
        /\ UNCHANGED <<studio, disk, ids, versions>>
    BY <2>1 DEF OthersUnload, Answered
  <2>3. QED BY <2>2 DEF Effect, Closes, IsRequest, LoadedOk, SavedOk, Ok
<1>9. CASE \E file \in Shared, version \in {0, versions + 1} : OthersWrite(file, version)
  <2>1. PICK file \in Shared, version \in {0, versions + 1} : OthersWrite(file, version)
    BY <1>9
  <2>2. answer'.request = "none" /\ Writes(file, version)
    BY <2>1 DEF OthersWrite, Answered, Writes, IsRequest
  <2>3. file \in File
    BY FilesAreTold
  <2>4. QED BY <2>2, <2>3 DEF Effect, LoadedOk, SavedOk, Ok
<1>10. QED BY <1>1, <1>2, <1>3, <1>4, <1>5, <1>6, <1>7, <1>8, <1>9 DEF Next

-----------------------------------------------------------------------------
(* The invariant.                                                          *)

LEMMA Monotone ==
    ASSUME NEW i \in Nat, NEW v \in Nat, NEW q \in Seq(GraphsOf(i, v))
    PROVE  q \in Seq(GraphsOf(i + 1, v)) /\ q \in Seq(GraphsOf(i, v + 1))
<1>1. \A k \in DOMAIN q : q[k] \in GraphsOf(i, v)
  OBVIOUS
<1>2. \A k \in DOMAIN q : q[k] \in GraphsOf(i + 1, v) /\ q[k] \in GraphsOf(i, v + 1)
  BY <1>1, GraphFacts
<1>3. QED BY <1>2, Elementwise

LEMMA EffectKeepsInvariant ==
    ASSUME IInv, Effect
    PROVE  IInv'
<1> DEFINE G == GraphsOf(ids, versions)
<1>0. /\ ids \in Nat /\ versions \in Nat /\ versions >= 1 /\ ids <= MaxIds /\ versions <= MaxVersions
      /\ MaxIds \in Nat /\ MaxVersions \in Nat
      /\ graphs \in Seq(G) /\ \A i \in DOMAIN graphs : graphs[i] \in G /\ graphs[i].id \in 1..ids
  BY FileBounds, GraphFacts DEF IInv, Types
<1>1. CASE Nothing
  BY <1>1 DEF Nothing, IInv, Types, IdsAreUnique, NobodysGraphs, NamesAreResolved
<1>2. ASSUME NEW g \in GraphsOf(ids + 1, versions), Opens(g) PROVE IInv'
  <2>1. /\ g.id = ids + 1 /\ ids < MaxIds /\ (g.owner = "studio" => studio /\ g.file \in File \cup {NoFile})
        /\ graphs' = Append(graphs, g) /\ ids' = ids + 1 /\ UNCHANGED <<studio, disk, versions>>
    BY <1>2 DEF Opens
  <2>2. graphs \in Seq(GraphsOf(ids + 1, versions))
    BY <1>0, Monotone
  <2>3. graphs' \in Seq(GraphsOf(ids', versions'))
    BY <2>1, <2>2
  <2>4. ASSUME NEW k \in DOMAIN graphs'
        PROVE  \/ k \in DOMAIN graphs /\ graphs'[k] = graphs[k]
               \/ k = Len(graphs) + 1 /\ graphs'[k] = g
    BY <2>1, <2>2
  <2>5. Types'
    BY <1>0, <2>1, <2>3 DEF IInv, Types
  <2>6. IdsAreUnique'
    BY <1>0, <2>1, <2>4 DEF IInv, IdsAreUnique
  <2>7. NobodysGraphs' /\ NamesAreResolved'
    BY <2>1, <2>4 DEF IInv, NobodysGraphs, NamesAreResolved
  <2>8. QED BY <2>5, <2>6, <2>7 DEF IInv
<1>3. ASSUME NEW i \in DOMAIN graphs, Closes(i) PROVE IInv'
  <2>1. graphs' = Dropped(i) /\ UNCHANGED <<studio, disk, ids, versions>>
    BY <1>3 DEF Closes
  <2>2. /\ graphs' \in Seq(G) /\ DOMAIN graphs' \subseteq Int /\ i \in Int
        /\ \A k \in DOMAIN graphs' :
              \E m \in DOMAIN graphs : /\ m # i /\ graphs'[k] = graphs[m]
                                      /\ (k < i => m = k) /\ (k >= i => m = k + 1)
    BY <1>0, <2>1, DroppedFacts
  <2>3. Types'
    BY <2>1, <2>2 DEF IInv, Types
  <2>4. IdsAreUnique'
    <3>1. SUFFICES ASSUME NEW k \in DOMAIN graphs', NEW l \in DOMAIN graphs', graphs'[k].id = graphs'[l].id
                   PROVE  k = l
      BY DEF IdsAreUnique
    <3>2. PICK m \in DOMAIN graphs : m # i /\ graphs'[k] = graphs[m] /\ (k < i => m = k) /\ (k >= i => m = k + 1)
      BY <2>2
    <3>3. PICK n \in DOMAIN graphs : n # i /\ graphs'[l] = graphs[n] /\ (l < i => n = l) /\ (l >= i => n = l + 1)
      BY <2>2
    <3>4. m = n
      BY <3>1, <3>2, <3>3 DEF IInv, IdsAreUnique
    <3>5. k \in Int /\ l \in Int /\ i \in Int
      BY <2>2
    <3>6. QED BY <3>2, <3>3, <3>4, <3>5
  <2>5. NobodysGraphs' /\ NamesAreResolved'
    BY <2>1, <2>2 DEF IInv, NobodysGraphs, NamesAreResolved
  <2>6. QED BY <2>3, <2>4, <2>5 DEF IInv
<1>4. ASSUME NEW i \in DOMAIN graphs, NEW path \in File, Saves(i, path) PROVE IInv'
  <2> DEFINE new == [graphs[i] EXCEPT !.file = path]
  <2>1. /\ graphs' = [graphs EXCEPT ![i] = new] /\ disk' = [disk EXCEPT ![path] = graphs[i].content]
        /\ UNCHANGED <<studio, ids, versions>>
    BY <1>4 DEF Saves
  <2>2. /\ new \in G /\ new.id = graphs[i].id /\ new.owner = graphs[i].owner /\ new.file = path
        /\ graphs[i].content \in 1..versions
    <3>1. new \in G /\ new.id = graphs[i].id /\ new.owner = graphs[i].owner
      BY <1>0, ChangedGraph
    <3>2. graphs[i].content \in 1..versions /\ graphs[i] \in G
      BY <1>0, GraphFacts
    <3>3. new.file = path
      BY <3>2 DEF GraphsOf
    <3>4. QED BY <3>1, <3>2, <3>3
  <2> HIDE DEF new
  <2>3. /\ graphs' \in Seq(G) /\ DOMAIN graphs' = DOMAIN graphs
        /\ \A k \in DOMAIN graphs : graphs'[k] = IF k = i THEN new ELSE graphs[k]
    BY <1>0, <2>1, <2>2
  <2>4. Types'
    BY <1>0, <2>1, <2>2, <2>3 DEF IInv, Types
  <2>5. IdsAreUnique' /\ NobodysGraphs' /\ NamesAreResolved'
    BY <2>1, <2>2, <2>3 DEF IInv, IdsAreUnique, NobodysGraphs, NamesAreResolved
  <2>6. QED BY <2>4, <2>5 DEF IInv
<1>5. ASSUME NEW i \in DOMAIN graphs, Edits(i) PROVE IInv'
  <2> DEFINE new == [graphs[i] EXCEPT !.content = versions + 1]
  <2>1. /\ graphs' = [graphs EXCEPT ![i] = new] /\ versions < MaxVersions /\ versions' = versions + 1
        /\ UNCHANGED <<studio, disk, ids>>
    BY <1>5 DEF Edits
  <2>2. graphs \in Seq(GraphsOf(ids, versions + 1)) /\ graphs[i] \in GraphsOf(ids, versions + 1)
    BY <1>0, Monotone, GraphFacts
  <2>3. /\ new \in GraphsOf(ids, versions + 1) /\ new.id = graphs[i].id /\ new.owner = graphs[i].owner
        /\ new.file = graphs[i].file
    <3>1. versions + 1 \in 1..(versions + 1) /\ versions + 1 \in Nat
      BY <1>0
    <3>2. QED BY <1>0, <2>2, <3>1, ChangedGraph
  <2> HIDE DEF new
  <2>4. /\ graphs' \in Seq(GraphsOf(ids, versions + 1)) /\ DOMAIN graphs' = DOMAIN graphs
        /\ \A k \in DOMAIN graphs : graphs'[k] = IF k = i THEN new ELSE graphs[k]
    BY <1>0, <2>1, <2>2, <2>3
  <2>5. Types'
    BY <1>0, <2>1, <2>4 DEF IInv, Types
  <2>6. IdsAreUnique' /\ NobodysGraphs' /\ NamesAreResolved'
    BY <2>1, <2>3, <2>4 DEF IInv, IdsAreUnique, NobodysGraphs, NamesAreResolved
  <2>7. QED BY <2>5, <2>6 DEF IInv
<1>6. ASSUME NEW file \in File, NEW v \in {0, versions + 1}, Writes(file, v) PROVE IInv'
  <2>1. /\ v # 0 => versions < MaxVersions
        /\ disk' = [disk EXCEPT ![file] = v] /\ versions' = IF v = 0 THEN versions ELSE v
        /\ UNCHANGED <<studio, graphs, ids>>
    BY <1>6 DEF Writes
  <2>2. graphs \in Seq(GraphsOf(ids, versions'))
    BY <1>0, <2>1, Monotone
  <2>3. Types'
    BY <1>0, <2>1, <2>2 DEF IInv, Types
  <2>4. QED BY <2>1, <2>3 DEF IInv, IdsAreUnique, NobodysGraphs, NamesAreResolved
<1>7. QED BY <1>1, <1>2, <1>3, <1>4, <1>5, <1>6 DEF Effect

LEMMA InductiveInvariant == Spec => []IInv
<1>1. Init => IInv
  <2> SUFFICES ASSUME Init PROVE IInv
    OBVIOUS
  <2>1. <<>> \in Seq(GraphsOf(0, 1)) /\ graphs = <<>> /\ DOMAIN graphs = {}
    BY DEF Init
  <2>2. Types
    BY <2>1, FileBounds DEF Init, Types, Empty
  <2>3. QED BY <2>1, <2>2 DEF IInv, IdsAreUnique, NobodysGraphs, NamesAreResolved
<1>2. IInv /\ Next => IInv'
  BY StepHasEffect, EffectKeepsInvariant
<1>3. IInv /\ UNCHANGED vars => IInv'
  BY DEF vars, IInv, Types, IdsAreUnique, NobodysGraphs, NamesAreResolved
<1>4. QED BY <1>1, <1>2, <1>3, PTL DEF Spec

-----------------------------------------------------------------------------
(* Theorems.                                                               *)

\* Ids that were handed out stay one graph's each, and an editor without the
\* command system has only copies that others own.
THEOREM TypeCorrect == Spec => []TypeOK
<1>1. IInv => TypeOK
  <2> SUFFICES ASSUME IInv PROVE TypeOK
    OBVIOUS
  <2>1. disk \in [File -> 0..MaxVersions]
    BY FileBounds DEF IInv, Types
  <2>2. ASSUME NEW i \in DOMAIN graphs
        PROVE  /\ graphs[i] \in [id : 1..ids, file : File \cup Text \cup {NoFile}, owner : Owner, content : 1..versions]
               /\ WithId(graphs[i].id) = {i}
    <3>1. graphs[i] \in GraphsOf(ids, versions)
      BY DEF IInv, Types
    <3>2. WithId(graphs[i].id) = {i}
      BY DEF IInv, IdsAreUnique, WithId
    <3>3. QED BY <3>1, <3>2 DEF GraphsOf
  <2>3. ~studio => \A g \in ListAnimGraphs : g.owned_by_runtime \/ g.owned_by_asset
    <3>1. ASSUME NEW i \in DOMAIN graphs PROVE graphs[i].owner \in Owner
      <4>1. graphs[i] \in GraphsOf(ids, versions)
        BY DEF IInv, Types
      <4>2. QED BY <4>1 DEF GraphsOf
    <3>2. SUFFICES ASSUME ~studio, NEW g \in ListAnimGraphs PROVE g.owned_by_runtime \/ g.owned_by_asset
      OBVIOUS
    <3>3. PICK i \in DOMAIN graphs : g = [id |-> graphs[i].id, file_name |-> graphs[i].file,
                                         owned_by_runtime |-> graphs[i].owner = "runtime",
                                         owned_by_asset |-> graphs[i].owner = "asset"]
      BY <3>2, Zenon DEF ListAnimGraphs
    <3>4. graphs[i].owner = "runtime" \/ graphs[i].owner = "asset"
      BY <3>1, <3>2 DEF IInv, NobodysGraphs, Owner
    <3>5. g.owned_by_runtime = (graphs[i].owner = "runtime") /\ g.owned_by_asset = (graphs[i].owner = "asset")
      BY <3>3, Zenon
    <3>6. QED BY <3>4, <3>5
  <2>4. QED BY <2>1, <2>2, <2>3 DEF IInv, Types, TypeOK
<1>2. QED BY <1>1, InductiveInvariant, PTL

\* A request leaves every graph that an asset or an instance owns in the list
\* as it is, and puts no other under its id.
THEOREM OwnedGraphsAreKept == Spec => OwnedGraphsStay
<1> DEFINE A == IsRequest => \A i \in DOMAIN graphs : graphs[i].owner # "studio" =>
                    Contents(graphs', graphs[i].id) = {graphs[i]}
<1>1. IInv /\ Next => A
  <2> SUFFICES ASSUME IInv, Next, IsRequest, NEW o \in DOMAIN graphs, graphs[o].owner # "studio"
               PROVE  Contents(graphs', graphs[o].id) = {graphs[o]}
    OBVIOUS
  <2>1. IInv' /\ Effect
    BY StepHasEffect, EffectKeepsInvariant
  <2>2. SUFFICES \E k \in DOMAIN graphs' : graphs'[k] = graphs[o]
    BY <2>1 DEF IInv, IdsAreUnique, Contents
  <2>3. graphs \in Seq(GraphsOf(ids, versions)) /\ ids \in Nat /\ versions \in Nat
    BY DEF IInv, Types
  <2>4. CASE Nothing
    BY <2>4 DEF Nothing
  <2>5. ASSUME NEW g \in GraphsOf(ids + 1, versions), Opens(g) PROVE \E k \in DOMAIN graphs' : graphs'[k] = graphs[o]
    <3>1. graphs' = Append(graphs, g) /\ graphs \in Seq(GraphsOf(ids + 1, versions))
      BY <2>3, <2>5, Monotone DEF Opens
    <3>2. o \in DOMAIN graphs' /\ graphs'[o] = graphs[o]
      BY <3>1
    <3>3. QED BY <3>2
  <2>6. ASSUME NEW i \in DOMAIN graphs, Closes(i) PROVE \E k \in DOMAIN graphs' : graphs'[k] = graphs[o]
    <3>1. o # i /\ graphs' = Dropped(i)
      BY <2>6 DEF Closes
    <3>2. QED BY <2>3, <3>1, DroppedFacts
  <2>7. ASSUME NEW i \in DOMAIN graphs, \/ \E path \in File : Saves(i, path)
                                        \/ Edits(i)
        PROVE  \E k \in DOMAIN graphs' : graphs'[k] = graphs[o]
    <3>1. o # i /\ o \in DOMAIN graphs' /\ graphs'[o] = graphs[o]
      BY <2>7 DEF Saves, Edits
    <3>2. QED BY <3>1
  <2>8. QED BY <2>1, <2>4, <2>5, <2>6, <2>7 DEF Effect, Writes
<1>2. IInv /\ UNCHANGED vars => A \/ UNCHANGED vars
  OBVIOUS
<1>3. QED BY <1>1, <1>2, InductiveInvariant, PTL DEF Spec, OwnedGraphsStay

\* Whatever a request names, it writes no file outside the project.
THEOREM WritesAreInTheProject == Spec => WritesStayInTheProject
<1> DEFINE A == IsRequest => \A f \in File \ ProjectRoot : disk'[f] = disk[f]
<1>1. IInv /\ Next => A
  <2> SUFFICES ASSUME IInv, Next, IsRequest, NEW f \in File \ ProjectRoot PROVE disk'[f] = disk[f]
    OBVIOUS
  <2>1. Effect /\ disk \in [File -> 0..versions]
    BY StepHasEffect DEF IInv, Types
  <2>2. ASSUME NEW i \in DOMAIN graphs, NEW path \in File, Saves(i, path) PROVE disk'[f] = disk[f]
    BY <2>1, <2>2 DEF Saves
  <2>3. QED BY <2>1, <2>2 DEF Effect, Nothing, Opens, Closes, Edits, Writes
<1>2. QED BY <1>1, InductiveInvariant, PTL DEF Spec, WritesStayInTheProject

\* A save answered ok has written that graph, as it was, to that file, and
\* changed nothing else.
THEOREM SavesAreOfThatGraph == Spec => SaveIsOfThatGraph
<1> DEFINE A == Ok("save") =>
                   /\ \A f \in File \ {answer'.file} : disk'[f] = disk[f]
                   /\ \A i \in DOMAIN graphs :
                         /\ graphs'[i].content = graphs[i].content
                         /\ IF graphs[i].id = answer'.graph
                            THEN disk'[answer'.file] = graphs[i].content
                            ELSE graphs'[i] = graphs[i]
<1>1. IInv /\ Next => A
  <2> SUFFICES ASSUME IInv, Next, Ok("save") PROVE A
    OBVIOUS
  <2>1. SavedOk /\ disk \in [File -> 0..versions]
    BY StepHasEffect DEF IInv, Types, Effect
  <2>2. PICK i \in DOMAIN graphs : graphs[i].id = answer'.graph /\ Saves(i, answer'.file)
    BY <2>1 DEF SavedOk
  <2> DEFINE path == answer'.file
             new == [graphs[i] EXCEPT !.file = path]
  <2>3. /\ path \in File /\ graphs' = [graphs EXCEPT ![i] = new] /\ disk' = [disk EXCEPT ![path] = graphs[i].content]
    BY <2>2, FilesAreTold DEF Saves
  <2>4. graphs[i] \in GraphsOf(ids, versions) /\ ids \in Nat /\ versions \in Nat
    BY DEF IInv, Types
  <2>5. new.content = graphs[i].content
    BY <2>3, <2>4, ChangedGraph
  <2> HIDE DEF new
  <2>6. \A k \in DOMAIN graphs : graphs[k].id = answer'.graph <=> k = i
    BY <2>2 DEF IInv, IdsAreUnique
  <2>7. \A k \in DOMAIN graphs : graphs'[k] = IF k = i THEN new ELSE graphs[k]
    BY <2>3
  <2>8. \A f \in File : disk'[f] = IF f = path THEN graphs[i].content ELSE disk[f]
    BY <2>1, <2>3
  <2>9. QED BY <2>3, <2>5, <2>6, <2>7, <2>8
<1>2. QED BY <1>1, InductiveInvariant, PTL DEF Spec, SaveIsOfThatGraph

\* A load answered ok gives the editable graph of that file, and there is no
\* second one because of it.
THEOREM LoadsAreOnce == Spec => FilesAreLoadedOnce
<1> DEFINE A == Ok("load") =>
                   /\ \A g \in Contents(graphs', answer'.graph) :
                         /\ g.owner = "studio" /\ FileOf(g.file) = answer'.file
                         /\ graphs' # graphs => g.content = disk[answer'.file]
                   /\ (\E i \in DOMAIN graphs : graphs[i].owner = "studio" /\ FileOf(graphs[i].file) = answer'.file)
                         => graphs' = graphs
<1>1. IInv /\ Next => A
  <2> SUFFICES ASSUME IInv, Next, Ok("load") PROVE A
    OBVIOUS
  <2> DEFINE path == answer'.file
             id == answer'.graph
             g == Graph(ids + 1, path, "studio", disk[path])
  <2>1. LoadedOk /\ IInv'
    BY StepHasEffect, EffectKeepsInvariant DEF Effect
  <2>2. path \in File /\ FileOf(path) = path
    BY <2>1, FilesAreTold DEF LoadedOk, FileOf
  <2>3. \A i \in DOMAIN graphs : graphs[i].owner = "studio" => FileOf(graphs[i].file) = graphs[i].file
    BY FilesAreTold DEF IInv, NamesAreResolved, FileOf
  <2>4. CASE \E i \in DOMAIN graphs : /\ UNCHANGED graphs /\ graphs[i].owner = "studio" /\ graphs[i].file = path
                                      /\ graphs[i].id = id
    BY <2>1, <2>2, <2>3, <2>4 DEF IInv, IdsAreUnique, Contents
  <2>5. CASE /\ id = ids + 1 /\ Opens(g) /\ disk[path] # 0
             /\ \A i \in DOMAIN graphs : graphs[i].owner = "studio" => graphs[i].file # path
    <3>1. disk[path] \in 1..versions /\ ids \in Nat /\ versions \in Nat /\ ids + 1 \in Nat /\ ids + 1 \in 1..(ids + 1)
      BY <2>2, <2>5, FileBounds DEF IInv, Types
    <3>2. /\ g \in GraphsOf(ids + 1, versions)
          /\ g.id = id /\ g.owner = "studio" /\ g.file = path /\ g.content = disk[path]
      <4> DEFINE n == ids + 1
                 c == disk[path]
      <4>1. "studio" \in Owner /\ path \in File \cup Text \cup {NoFile} /\ n \in Nat /\ n \in 1..n /\ c \in 1..versions
        BY <2>2, <3>1 DEF Owner
      <4>2. g = Graph(n, path, "studio", c) /\ id = n
        BY <2>5
      <4> HIDE DEF n, c, g, path
      <4>3. g \in GraphsOf(n, versions) /\ g.id = n /\ g.owner = "studio" /\ g.file = path /\ g.content = c
        BY <3>1, <4>1, <4>2, GraphFacts
      <4>4. QED BY <4>2, <4>3 DEF n, c, path
    <3>3. graphs' = Append(graphs, g) /\ graphs \in Seq(GraphsOf(ids + 1, versions))
      BY <2>5, <3>1, Monotone DEF Opens, IInv, Types
    <3> HIDE DEF g
    <3>4. Len(graphs) + 1 \in DOMAIN graphs' /\ graphs'[Len(graphs) + 1] = g
      BY <3>2, <3>3
    <3>5. Contents(graphs', id) = {g}
      BY <2>1, <3>2, <3>4 DEF IInv, IdsAreUnique, Contents
    <3>6. QED BY <2>2, <2>3, <2>5, <3>2, <3>5
  <2>6. QED BY <2>1, <2>4, <2>5 DEF LoadedOk
<1>2. QED BY <1>1, InductiveInvariant, PTL DEF Spec, FilesAreLoadedOnce
=============================================================================
