--------------------------- MODULE AnimGraphFiles ---------------------------
(***************************************************************************)
(* Anim graphs as files: create, remove, load and save                     *)
(* (Animation/AnimGraphAuthoring.cpp), and the selector and the reports of *)
(* Animation/AnimGraphInspector.cpp.  The AnimGraphManager holds a list of *)
(* graphs with ids: editable ones of EMotion Studio's command system, and  *)
(* copies that assets and runtime instances own.  What a request does      *)
(* inside a graph is AnimGraphAuthoring's; here it is one more version of  *)
(* it.  Commands run to their end on the main thread or change nothing.    *)
(***************************************************************************)
EXTENDS Integers, Sequences, TLC

CONSTANTS File,         \* absolute and normalized file names
          Text,         \* other texts that requests give as file names
          Resolves,     \* the file each text stands for, BadPath if for none
          Tails,        \* the texts the name of each file ends with, whatever the case
          ProjectRoot, EngineRoot,   \* the files under each root
          Shared,       \* the files others write and assets are made of
          MaxGraphs,    \* bound: graphs at a time
          MaxIds,       \* bound: ids handed out
          MaxVersions      \* bound: versions of graphs and files

NoFile  == "no file"    \* the name of a graph that was never saved
BadPath == "bad path"   \* a forbidden character or an alias nobody knows
NoId    == 0            \* no id is given
BadId   == -1           \* what is given is no id
Empty   == 1            \* the version of a graph nothing was done to

ASSUME FilesAreTold == /\ NoFile \notin File \cup Text /\ BadPath \notin File \cup Text
                       /\ File \cap Text = {}
                       /\ Resolves \in [Text -> File \cup {BadPath}]
                       /\ Tails \in [File -> SUBSET Text]
                       /\ ProjectRoot \cup EngineRoot \cup Shared \subseteq File
ASSUME FileBounds == MaxGraphs \in Nat /\ MaxIds \in Nat /\ MaxVersions \in Nat \ {0}

VARIABLES studio,   \* whether EMotion Studio's command system is there
          graphs,   \* the manager's list
          disk,     \* the version each file holds, 0 where there is none
          ids,      \* ids handed out so far
          versions, \* versions handed out so far
          answer    \* the last step's: its request, code, graph and file

vars == <<studio, graphs, disk, ids, versions, answer>>

Owner == {"studio", "asset", "runtime"}
Graph(id, file, owner, content) == [id |-> id, file |-> file, owner |-> owner, content |-> content]

WithId(id)      == {i \in DOMAIN graphs : graphs[i].id = id}
FirstOf(S)      == CHOOSE i \in S : \A j \in S : i <= j
Dropped(i)      == [k \in 1..(Len(graphs) - 1) |-> graphs[IF k < i THEN k ELSE k + 1]]
FileOf(name)    == IF name \in Text THEN Resolves[name] ELSE name
IsUnderRoot(name, root) == FileOf(name) \in root

Answered(request, code, id, file) ==
    answer' = [request |-> request, code |-> code, graph |-> id, file |-> file]

Refuse(request, code) == /\ Answered(request, code, NoId, NoFile)
                         /\ UNCHANGED <<studio, graphs, disk, ids, versions>>

-----------------------------------------------------------------------------
(* What a request may touch.                                               *)

FindGraph(id) == WithId(id) # {}

\* Mutant of IsEditable: only the copies that play are refused.
NotPlaying(id) == \A i \in WithId(id) : graphs[i].owner # "runtime"

IsEditable(id) == \A i \in WithId(id) : graphs[i].owner \notin {"asset", "runtime"}

\* FindEditableGraph's errors, "ok" where it finds the graph.
FindEditableGraph(id) == IF ~FindGraph(id) THEN "not_found"
                         ELSE IF ~IsEditable(id) THEN "validation_failed" ELSE "ok"

\* Mutant of ResolveRequestPath: the path goes to the engine as it was typed.
PathAsTyped(name) == IF FileOf(name) = BadPath THEN BadPath ELSE name

\* An alias is looked up, a relative path joined to the project root, and the
\* result normalized; an absolute file name stands for itself.
ResolveRequestPath(name) == FileOf(name)

MayBeLoaded(path) == IsUnderRoot(path, ProjectRoot) \/ IsUnderRoot(path, EngineRoot)

\* Mutant of MayBeSaved: where a graph may come from it may go back to.
WhereItMayBeLoaded(path) == MayBeLoaded(path)

MayBeSaved(path) == IsUnderRoot(path, ProjectRoot)

-----------------------------------------------------------------------------
(* Requests.  Every one of them may find no command system, and every      *)
(* command may fail in the engine.                                         *)

\* Mutant of RunCommand: forgets to ask for the command system.
RunAnyway(request, done) == done \/ Refuse(request, "engine_error")

RunCommand(request, done) == IF ~studio THEN Refuse(request, "unavailable")
                             ELSE done \/ Refuse(request, "engine_error")

CreateAnimGraph ==
    /\ Len(graphs) < MaxGraphs /\ ids < MaxIds
    /\ RunCommand("create",
          /\ graphs' = Append(graphs, Graph(ids + 1, NoFile, "studio", Empty))
          /\ ids' = ids + 1
          /\ Answered("create", "ok", ids + 1, NoFile)
          /\ UNCHANGED <<studio, disk, versions>>)

RemoveAnimGraph(id) ==
    IF FindEditableGraph(id) # "ok" THEN Refuse("remove", FindEditableGraph(id))
    ELSE RunCommand("remove",
            /\ graphs' = Dropped(FirstOf(WithId(id)))
            /\ Answered("remove", "ok", id, NoFile)
            /\ UNCHANGED <<studio, disk, ids, versions>>)

\* The command answers the graph it has of that file name, assets' and
\* runtime's copies aside, and reads the file when it has none.
LoadCommand(path) ==
    LET loaded == {i \in DOMAIN graphs : graphs[i].owner = "studio" /\ graphs[i].file = path}
    IN  IF loaded # {}
        THEN /\ Answered("load", "ok", graphs[FirstOf(loaded)].id, FileOf(path))
             /\ UNCHANGED <<studio, graphs, disk, ids, versions>>
        ELSE /\ Len(graphs) < MaxGraphs /\ ids < MaxIds
             /\ graphs' = Append(graphs, Graph(ids + 1, path, "studio", disk[FileOf(path)]))
             /\ ids' = ids + 1
             /\ Answered("load", "ok", ids + 1, FileOf(path))
             /\ UNCHANGED <<studio, disk, versions>>

LoadAnimGraph(name) ==
    LET path == ResolveRequestPath(name) IN
    IF ~studio THEN Refuse("load", "unavailable")
    ELSE IF path = BadPath \/ ~MayBeLoaded(path) THEN Refuse("load", "validation_failed")
    ELSE IF disk[FileOf(path)] = 0 THEN Refuse("load", "not_found")
    ELSE RunCommand("load", LoadCommand(path))

\* Mutant of ManagerIndex: the graph's id for its place in the manager's list.
IdForIndex(id) == id

ManagerIndex(id) == FirstOf(WithId(id))

\* The command knows graphs by their place in the list, and the graph has the
\* name of the file from then on.
SaveCommand(id, path) ==
    LET i == ManagerIndex(id) IN
    /\ disk' = [disk EXCEPT ![FileOf(path)] = graphs[i].content]
    /\ graphs' = [graphs EXCEPT ![i].file = path]
    /\ Answered("save", "ok", id, FileOf(path))
    /\ UNCHANGED <<studio, ids, versions>>

\* name = NoFile: no file_name, the graph's own is taken.
SaveAnimGraph(id, name) ==
    IF ~studio THEN Refuse("save", "unavailable")
    ELSE IF FindEditableGraph(id) # "ok" THEN Refuse("save", FindEditableGraph(id))
    ELSE LET target == IF name = NoFile THEN graphs[FirstOf(WithId(id))].file ELSE name
             path   == ResolveRequestPath(target)
         IN  IF target = NoFile \/ path = BadPath \/ ~MayBeSaved(path)
             THEN Refuse("save", "validation_failed")
             ELSE IF ManagerIndex(id) \notin DOMAIN graphs THEN Refuse("save", "engine_error")
             ELSE RunCommand("save", SaveCommand(id, path))

\* What any request of AnimGraphAuthoring looks at first, and what it leaves
\* for others to see.
EditAnimGraph(id) ==
    IF ~studio THEN Refuse("edit", "unavailable")
    ELSE IF FindEditableGraph(id) # "ok" THEN Refuse("edit", FindEditableGraph(id))
    ELSE /\ versions < MaxVersions
         /\ RunCommand("edit",
               /\ graphs' = [graphs EXCEPT ![FirstOf(WithId(id))].content = versions + 1]
               /\ versions' = versions + 1
               /\ Answered("edit", "ok", id, NoFile)
               /\ UNCHANGED <<studio, disk, ids>>)

\* What the agent server refuses before anybody looks at the graphs: an id or
\* a file name that is missing, or an id that is none.
ParseAnimGraphId(id) == id \notin {NoId, BadId}

HandleRemoveAnimGraph(id) ==
    IF ~ParseAnimGraphId(id) THEN Refuse("remove", "validation_failed") ELSE RemoveAnimGraph(id)
HandleLoadAnimGraph(name) == IF name = NoFile THEN Refuse("load", "validation_failed") ELSE LoadAnimGraph(name)
HandleSaveAnimGraph(id, name) ==
    IF ~ParseAnimGraphId(id) THEN Refuse("save", "validation_failed") ELSE SaveAnimGraph(id, name)
HandleAnimGraphJsonRequest(id) ==
    IF ~ParseAnimGraphId(id) THEN Refuse("edit", "validation_failed") ELSE EditAnimGraph(id)

-----------------------------------------------------------------------------
(* The inspector.                                                          *)

\* The end of a graph's file name, whatever the case.
EndsWithNoCase(name, tail) == name # NoFile /\ tail \in Tails[FileOf(name)]

\* The graphs a selector stands for: an id first, then a file name, then the
\* end of one.
ResolveGraph(selector) ==
    LET byId   == {i \in DOMAIN graphs : ToString(graphs[i].id) = selector}
        byName == {i \in DOMAIN graphs : graphs[i].file = selector}
        byTail == {i \in DOMAIN graphs : EndsWithNoCase(graphs[i].file, selector)}
    IN  IF byId # {} THEN byId ELSE IF byName # {} THEN byName ELSE byTail

DescribeAnimGraph(selector) ==
    LET found == ResolveGraph(selector) IN
    IF found = {} THEN Refuse("get", "not_found")
    ELSE /\ Answered("get", "ok", graphs[FirstOf(found)].id, selector)
         /\ UNCHANGED <<studio, graphs, disk, ids, versions>>

\* What list_anim_graphs tells of each graph.
ListAnimGraphs == {[id |-> graphs[i].id, file_name |-> graphs[i].file,
                    owned_by_runtime |-> graphs[i].owner = "runtime",
                    owned_by_asset |-> graphs[i].owner = "asset"] : i \in DOMAIN graphs}

\* The id when there is one, and the file name when there is none.
HandleGetAnimGraph(id, name) ==
    IF id # NoId
    THEN IF ParseAnimGraphId(id) THEN DescribeAnimGraph(ToString(id)) ELSE Refuse("get", "validation_failed")
    ELSE IF name # NoFile THEN DescribeAnimGraph(name)
    ELSE Refuse("get", "validation_failed")

-----------------------------------------------------------------------------
(* Everybody else.                                                         *)

\* An asset that is used, or an instance that plays, brings its own copy.
OthersLoad(file, owner) ==
    /\ disk[file] # 0 /\ Len(graphs) < MaxGraphs /\ ids < MaxIds
    /\ graphs' = Append(graphs, Graph(ids + 1, file, owner, disk[file]))
    /\ ids' = ids + 1
    /\ Answered("none", "ok", NoId, NoFile)
    /\ UNCHANGED <<studio, disk, versions>>

OthersUnload(i) ==
    /\ i \in DOMAIN graphs /\ graphs[i].owner # "studio"
    /\ graphs' = Dropped(i)
    /\ Answered("none", "ok", NoId, NoFile)
    /\ UNCHANGED <<studio, disk, ids, versions>>

\* A file is written or deleted outside the editor.
OthersWrite(file, version) ==
    /\ version # 0 => versions < MaxVersions
    /\ disk' = [disk EXCEPT ![file] = version]
    /\ versions' = IF version = 0 THEN versions ELSE version
    /\ Answered("none", "ok", NoId, NoFile)
    /\ UNCHANGED <<studio, graphs, ids>>

Init == /\ studio \in BOOLEAN /\ graphs = << >> /\ ids = 0 /\ versions = Empty
        /\ disk = [f \in File |-> Empty]
        /\ answer = [request |-> "none", code |-> "ok", graph |-> NoId, file |-> NoFile]

GivenId   == 1..MaxIds \cup {NoId, BadId}
GivenName == File \cup Text \cup {NoFile}

Next == \/ CreateAnimGraph
        \/ \E id \in GivenId : HandleRemoveAnimGraph(id)
        \/ \E id \in GivenId : HandleAnimGraphJsonRequest(id)
        \/ \E name \in GivenName : HandleLoadAnimGraph(name)
        \/ \E id \in GivenId, name \in GivenName : HandleSaveAnimGraph(id, name)
        \/ \E id \in GivenId, name \in GivenName : HandleGetAnimGraph(id, name)
        \/ \E file \in Shared, owner \in {"asset", "runtime"} : OthersLoad(file, owner)
        \/ \E i \in 1..MaxGraphs : OthersUnload(i)
        \/ \E file \in Shared, version \in {0, versions + 1} : OthersWrite(file, version)

Spec == Init /\ [][Next]_vars

-----------------------------------------------------------------------------
IsRequest == answer'.request # "none"
Ok(request) == answer'.request = request /\ answer'.code = "ok"
Contents(list, id) == {list[i] : i \in {j \in DOMAIN list : list[j].id = id}}

\* An id is one graph's, and no graph is named by what names no file.
TypeOK ==
    /\ studio \in BOOLEAN /\ disk \in [File -> 0..MaxVersions]
    /\ ids \in 0..MaxIds /\ versions \in 1..MaxVersions
    /\ \A i \in DOMAIN graphs :
          /\ graphs[i] \in [id : 1..ids, file : File \cup Text \cup {NoFile}, owner : Owner,
                            content : 1..versions]
          /\ WithId(graphs[i].id) = {i}
    /\ ~studio => \A g \in ListAnimGraphs : g.owned_by_runtime \/ g.owned_by_asset

\* No request changes or removes a graph an asset or an instance owns, by
\* whatever ids, file names and places in the list it is mistaken for another.
OwnedGraphsStay ==
    [][IsRequest => \A i \in DOMAIN graphs : graphs[i].owner # "studio" =>
          Contents(graphs', graphs[i].id) = {graphs[i]}]_vars

\* A request writes no file outside the project, not even back to the engine's
\* sources a graph was loaded from.
WritesStayInTheProject ==
    [][IsRequest => \A f \in File \ ProjectRoot : disk'[f] = disk[f]]_vars

\* A save that answers ok has written the graph that was asked for, as it is,
\* to that file, and changed no other file or graph, however the manager's list
\* has shifted since the id was handed out.
SaveIsOfThatGraph ==
    [][Ok("save") => /\ \A f \in File \ {answer'.file} : disk'[f] = disk[f]
                     /\ \A i \in DOMAIN graphs :
                           /\ graphs'[i].content = graphs[i].content
                           /\ IF graphs[i].id = answer'.graph
                              THEN disk'[answer'.file] = graphs[i].content
                              ELSE graphs'[i] = graphs[i]]_vars

\* A load answers an editable graph of that file, and opens no second one
\* beside one there already is, whichever way the file was spelled then and
\* now.  A graph it does open has what the file holds.
FilesAreLoadedOnce ==
    [][Ok("load") =>
          /\ \A g \in Contents(graphs', answer'.graph) :
                /\ g.owner = "studio" /\ FileOf(g.file) = answer'.file
                /\ graphs' # graphs => g.content = disk[answer'.file]
          /\ (\E i \in DOMAIN graphs : graphs[i].owner = "studio" /\ FileOf(graphs[i].file) = answer'.file)
                => graphs' = graphs]_vars
=============================================================================
