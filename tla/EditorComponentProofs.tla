----------------------- MODULE EditorComponentProofs -----------------------
(***************************************************************************)
(* Proofs about EditorComponent, for every finite set of writers, every    *)
(* configuration and every bound: types, that calls which do not overlap   *)
(* keep the state file whole, and that the observed-state file, once       *)
(* written, tells what is installed.                                       *)
(***************************************************************************)
EXTENDS EditorComponent, FiniteSetTheorems, TLAPS

-----------------------------------------------------------------------------
(* The state file.                                                         *)

Shape == /\ FilesTypeOK
         /\ pc \in [Writer -> {"idle", "open", "written"}]
         /\ handle \in [Writer -> Node \cup {NoNode}]
         /\ wanted \in [Writer -> Setting]
         /\ text \in [Node -> Seq(Setting)]
         /\ \A w \in Active : handle[w] \in Node

\* The two paths never name one node.
PathsDiffer == tmp = NoNode \/ tmp # state

\* A call nobody has overlapped has the temporary file to itself.
LoneCall == \A w \in alone :
    /\ Active = {w} /\ tmp \in Node /\ handle[w] = tmp
    /\ pc[w] = "open" => text[tmp] = << >>
    /\ pc[w] = "written" => text[tmp] = <<wanted[w]>>

\* Where no overlap has been counted there is none.
OverlapIsSeen == ~crowded => alone = Active

FilesInv == Shape /\ PathsDiffer /\ LoneCall /\ OverlapIsSeen /\ FileIsLastSet

\* Constant definitions, primed or not.
LEMMA Fixed == Node' = Node /\ NoNode' = NoNode /\ Setting' = Setting
BY DEF Node, NoNode, Setting

LEMMA OneMore ==
    ASSUME NEW S, IsFiniteSet(S), NEW x
    PROVE  /\ IsFiniteSet(S \cup {x}) /\ Cardinality(S \cup {x}) \in Nat
           /\ Cardinality(S \cup {x}) <= Cardinality(S) + 1
<1>1. IsFiniteSet(S \cup {x}) /\ Cardinality(S \cup {x}) = IF x \in S THEN Cardinality(S) ELSE Cardinality(S) + 1
  BY FS_AddElement
<1>2. Cardinality(S) \in Nat
  BY FS_CardinalityType
<1>3. QED BY <1>1, <1>2

\* There are more nodes than names and handles for them, so open() finds one
\* that nobody else refers to.
LEMMA UnnamedIsANode ==
    ASSUME Shape, NEW w \in Writer, pc[w] = "idle"
    PROVE  Unnamed \in Node /\ Unnamed \notin {state, tmp}
<1> DEFINE H == {handle[v] : v \in Active}
           Used == H \cup {state} \cup {tmp}
<1>1. IsFiniteSet(Writer) /\ Cardinality(Writer) \in Nat
  BY WriterBounds, FS_CardinalityType
<1>2. IsFiniteSet(Active) /\ Cardinality(Active) < Cardinality(Writer)
  <2>1. Active \in SUBSET Writer /\ Active # Writer
    BY DEF Active
  <2>2. IsFiniteSet(Active) /\ Cardinality(Active) <= Cardinality(Writer) /\ Cardinality(Active) # Cardinality(Writer)
    BY <1>1, <2>1, FS_Subset
  <2>3. Cardinality(Active) \in Nat
    BY <2>2, FS_CardinalityType
  <2>4. QED BY <1>1, <2>2, <2>3
<1>3. IsFiniteSet(H) /\ Cardinality(H) <= Cardinality(Active)
  <2>1. [v \in Active |-> handle[v]] \in Surjection(Active, H)
    BY DEF Surjection
  <2>2. QED BY <1>2, <2>1, FS_Surjection
<1>4. Cardinality(H) \in Nat /\ Cardinality(Active) \in Nat
  BY <1>2, <1>3, FS_CardinalityType
<1> HIDE DEF H
<1>5. /\ IsFiniteSet(H \cup {state}) /\ Cardinality(H \cup {state}) \in Nat
      /\ Cardinality(H \cup {state}) <= Cardinality(H) + 1
  BY <1>3, OneMore
<1>6. IsFiniteSet(Used) /\ Cardinality(Used) \in Nat /\ Cardinality(Used) <= Cardinality(H) + 2
  <2>1. IsFiniteSet(Used) /\ Cardinality(Used) \in Nat /\ Cardinality(Used) <= Cardinality(H \cup {state}) + 1
    BY <1>5, OneMore
  <2>2. QED BY <1>4, <1>5, <2>1
<1>7. Cardinality(Node) = Cardinality(Writer) + 2
  BY <1>1, FS_Interval DEF Node
<1>8. \E n \in Node : n \notin Used
  <2>1. ASSUME Node \subseteq Used PROVE FALSE
    <3>1. Cardinality(Node) <= Cardinality(Used)
      BY <1>6, <2>1, FS_Subset
    <3>2. QED BY <1>1, <1>2, <1>3, <1>4, <1>6, <1>7, <3>1
  <2>2. QED BY <2>1
<1>9. \E n \in Node : n \notin {state, tmp} \cup {handle[v] : v \in Active}
  BY <1>8 DEF H
<1>10. QED BY <1>9 DEF Unnamed

LEMMA SetAgentModeKeeps ==
    ASSUME FilesInv, NEW w \in Writer, NEW enabled \in BOOLEAN, NEW suppress \in BOOLEAN,
           SetAgentMode(w, enabled, suppress)
    PROVE  FilesInv'
<1> DEFINE n == OpenedNode(w)
           s == [enabled |-> enabled, suppress_dialogs |-> suppress, updated_at |-> seconds]
<1>1. n \in Node /\ n # state
  BY UnnamedIsANode DEF FilesInv, Shape, FilesTypeOK, PathsDiffer, OpenedNode, SetAgentMode, NoNode
<1>2. /\ pc[w] = "idle" /\ sets < MaxSets /\ sets' = sets + 1
      /\ wanted' = [wanted EXCEPT ![w] = s] /\ handle' = [handle EXCEPT ![w] = n]
      /\ tmp' = n /\ text' = [text EXCEPT ![n] = << >>] /\ pc' = [pc EXCEPT ![w] = "open"]
      /\ alone' = IF Active = {} THEN {w} ELSE {}
      /\ crowded' = (crowded \/ Active # {})
      /\ UNCHANGED <<state, kept, seconds>>
  BY <1>1 DEF SetAgentMode
<1>3. s \in Setting
  BY SMT, WriterBounds DEF FilesInv, Shape, FilesTypeOK, Setting
<1>4. Active' = Active \cup {w}
  BY <1>2 DEF Active, FilesInv, Shape
<1>5. Shape'
  <2>1. pc' \in [Writer -> {"idle", "open", "written"}]
    BY <1>2 DEF FilesInv, Shape
  <2>2. handle' \in [Writer -> Node \cup {NoNode}]
    BY <1>1, <1>2 DEF FilesInv, Shape
  <2>3. wanted' \in [Writer -> Setting]
    BY <1>2, <1>3 DEF FilesInv, Shape
  <2>4. text' \in [Node -> Seq(Setting)] /\ \A m \in Node : Len(text'[m]) <= 2
    <3>1. << >> \in Seq(Setting) /\ Len(<< >>) <= 2
      BY SMT
    <3>2. QED BY <3>1, <1>2 DEF FilesInv, Shape, FilesTypeOK
  <2>5. \A v \in Active' : handle'[v] \in Node
    BY <1>1, <1>2, <1>4 DEF FilesInv, Shape
  <2>6. alone' \subseteq Active' /\ crowded' \in BOOLEAN
    BY <1>2, <1>4 DEF FilesInv, Shape, FilesTypeOK
  <2>7. sets' \in 0..MaxSets /\ seconds' \in 1..MaxSeconds
    BY <1>2, WriterBounds DEF FilesInv, Shape, FilesTypeOK
  <2>8. {state', tmp'} \subseteq Node \cup {NoNode}
    BY <1>1, <1>2 DEF FilesInv, Shape, FilesTypeOK
  <2>9. kept' \in Seq(Setting) /\ Len(kept') <= 1
    BY <1>2 DEF FilesInv, Shape, FilesTypeOK
  <2>10. Node' = Node /\ NoNode' = NoNode /\ Setting' = Setting
    BY Fixed
  <2>11. QED BY <2>1, <2>2, <2>3, <2>4, <2>5, <2>6, <2>7, <2>8, <2>9 DEF Shape, FilesTypeOK
<1>6. PathsDiffer'
  BY <1>1, <1>2 DEF PathsDiffer
<1>7. LoneCall'
  <2>1. CASE Active = {}
    BY <2>1, <1>1, <1>2, <1>4 DEF LoneCall, FilesInv, Shape
  <2>2. CASE Active # {}
    BY <2>2, <1>2 DEF LoneCall
  <2>3. QED BY <2>1, <2>2
<1>8. OverlapIsSeen'
  BY <1>2, <1>4 DEF OverlapIsSeen
<1>9. FileIsLastSet'
  <2>1. state \in Node => text'[state] = text[state]
    BY <1>1, <1>2 DEF FilesInv, Shape
  <2>2. QED BY <2>1, <1>2 DEF FileIsLastSet, FilesInv, Shape, FilesTypeOK
<1>10. QED BY <1>5, <1>6, <1>7, <1>8, <1>9 DEF FilesInv

LEMMA WriteTextKeeps ==
    ASSUME FilesInv, NEW w \in Writer, WriteText(w)
    PROVE  FilesInv'
<1> DEFINE n == handle[w]
<1>1. /\ pc[w] = "open" /\ w \in Active /\ n \in Node
      /\ text' = [text EXCEPT ![n] = WrittenOver(text[n], wanted[w])]
      /\ pc' = [pc EXCEPT ![w] = "written"]
      /\ UNCHANGED <<state, tmp, handle, wanted, alone, crowded, kept, sets, seconds>>
  BY DEF WriteText, FilesInv, Shape, Active
<1>2. Active' = Active
  BY <1>1 DEF Active, FilesInv, Shape
<1>3. ASSUME NEW old \in Seq(Setting)
      PROVE  WrittenOver(old, wanted[w]) \in Seq(Setting) /\ Len(WrittenOver(old, wanted[w])) <= 2
  <2>1. wanted[w] \in Setting
    BY DEF FilesInv, Shape
  <2>2. CASE old = << >>
    BY <2>1, <2>2 DEF WrittenOver
  <2>3. CASE old # << >>
    <3>1. old[Len(old)] \in Setting
      BY <2>3
    <3>2. QED BY <2>1, <3>1 DEF WrittenOver
  <2>4. QED BY <2>2, <2>3
<1>4. Shape'
  <2>1. text' \in [Node -> Seq(Setting)] /\ \A m \in Node : Len(text'[m]) <= 2
    BY <1>1, <1>3 DEF FilesInv, Shape, FilesTypeOK
  <2>2. pc' \in [Writer -> {"idle", "open", "written"}]
    BY <1>1 DEF FilesInv, Shape
  <2>3. \A v \in Active' : handle'[v] \in Node
    BY <1>1, <1>2 DEF FilesInv, Shape
  <2>4. alone' \subseteq Active' /\ crowded' \in BOOLEAN /\ kept' \in Seq(Setting) /\ Len(kept') <= 1
    BY <1>1, <1>2 DEF FilesInv, Shape, FilesTypeOK
  <2>5. /\ {state', tmp'} \subseteq Node \cup {NoNode} /\ handle' \in [Writer -> Node \cup {NoNode}]
        /\ wanted' \in [Writer -> Setting] /\ sets' \in 0..MaxSets /\ seconds' \in 1..MaxSeconds
    BY <1>1 DEF FilesInv, Shape, FilesTypeOK
  <2>6. QED BY <2>1, <2>2, <2>3, <2>4, <2>5, Fixed DEF Shape, FilesTypeOK
<1>5. ASSUME NEW v \in alone
      PROVE  v = w /\ tmp = n /\ text'[tmp] = <<wanted[w]>> /\ pc'[w] = "written"
  <2>1. v = w /\ tmp = n /\ text[n] = << >>
    BY <1>1, <1>5 DEF FilesInv, LoneCall
  <2>2. text'[n] = WrittenOver(text[n], wanted[w])
    BY <1>1 DEF FilesInv, Shape
  <2>3. pc'[w] = "written"
    BY <1>1 DEF FilesInv, Shape
  <2>4. QED BY <2>1, <2>2, <2>3 DEF WrittenOver
<1>6. LoneCall'
  BY <1>1, <1>2, <1>5 DEF LoneCall, FilesInv
<1>7. ~crowded => n # state
  BY <1>1 DEF FilesInv, OverlapIsSeen, LoneCall, PathsDiffer, Node, NoNode
<1>8. FileIsLastSet'
  <2>1. ~crowded /\ state \in Node => text'[state] = text[state]
    BY <1>1, <1>7 DEF FilesInv, Shape
  <2>2. QED BY <2>1, <1>1 DEF FileIsLastSet, FilesInv, Shape, FilesTypeOK
<1>9. QED BY <1>1, <1>2, <1>4, <1>6, <1>8 DEF FilesInv, PathsDiffer, OverlapIsSeen

\* What the end of a call leaves of the calls.
LEMMA ReturnsKeeps ==
    ASSUME FilesInv, NEW w \in Writer, w \in Active, Returns(w),
           {state', tmp'} \subseteq Node \cup {NoNode},
           kept' \in Seq(Setting), Len(kept') <= 1, crowded' \in BOOLEAN
    PROVE  Shape' /\ LoneCall' /\ Active' = Active \ {w} /\ alone' = alone \ {w}
<1>1. /\ pc' = [pc EXCEPT ![w] = "idle"] /\ handle' = [handle EXCEPT ![w] = NoNode]
      /\ wanted' = [wanted EXCEPT ![w] = Default] /\ alone' = alone \ {w}
      /\ UNCHANGED <<text, sets, seconds>>
  BY DEF Returns
<1>2. Active' = Active \ {w}
  BY <1>1 DEF Active, FilesInv, Shape
<1>3. Default \in Setting
  BY WriterBounds DEF Default, Setting
<1>4. Shape'
  <2>1. pc' \in [Writer -> {"idle", "open", "written"}]
    BY <1>1 DEF FilesInv, Shape
  <2>2. handle' \in [Writer -> Node \cup {NoNode}]
    BY <1>1 DEF FilesInv, Shape
  <2>3. wanted' \in [Writer -> Setting]
    BY <1>1, <1>3 DEF FilesInv, Shape
  <2>4. \A v \in Active' : handle'[v] \in Node
    BY <1>1, <1>2 DEF FilesInv, Shape, Active
  <2>5. alone' \subseteq Active'
    BY <1>1, <1>2 DEF FilesInv, Shape, FilesTypeOK
  <2>6. text' \in [Node -> Seq(Setting)] /\ \A m \in Node : Len(text'[m]) <= 2
    BY <1>1 DEF FilesInv, Shape, FilesTypeOK
  <2>7. sets' \in 0..MaxSets /\ seconds' \in 1..MaxSeconds
    BY <1>1 DEF FilesInv, Shape, FilesTypeOK
  <2>8. QED BY <2>1, <2>2, <2>3, <2>4, <2>5, <2>6, <2>7, Fixed DEF Shape, FilesTypeOK
<1>5. alone' = {}
  BY <1>1 DEF FilesInv, LoneCall
<1>6. QED BY <1>1, <1>2, <1>4, <1>5 DEF LoneCall

LEMMA ReplaceKeeps ==
    ASSUME FilesInv, NEW w \in Writer, Replace(w)
    PROVE  FilesInv'
<1>1. /\ pc[w] = "written" /\ tmp # NoNode /\ w \in Active
      /\ state' = tmp /\ tmp' = NoNode /\ kept' = <<wanted[w]>>
      /\ crowded' = (crowded /\ w \notin alone) /\ Returns(w)
  BY DEF Replace, Active
<1>2. wanted[w] \in Setting /\ {state', tmp'} \subseteq Node \cup {NoNode} /\ crowded' \in BOOLEAN
  BY <1>1 DEF FilesInv, Shape, FilesTypeOK
<1>3. kept' \in Seq(Setting) /\ Len(kept') <= 1
  BY <1>1, <1>2
<1>4. Shape' /\ LoneCall' /\ Active' = Active \ {w} /\ alone' = alone \ {w}
  BY <1>1, <1>2, <1>3, ReturnsKeeps
<1>5. ~crowded' => w \in alone
  BY <1>1 DEF FilesInv, OverlapIsSeen
<1>6. OverlapIsSeen'
  BY <1>4, <1>5 DEF OverlapIsSeen, FilesInv, LoneCall
<1>7. FileIsLastSet'
  <2>1. ~crowded' => state' # NoNode /\ text'[state'] = kept'
    BY <1>1, <1>5 DEF FilesInv, LoneCall, Returns
  <2>2. QED BY <1>1, <2>1 DEF FileIsLastSet, NoNode
<1>8. PathsDiffer'
  BY <1>1 DEF PathsDiffer, NoNode
<1>9. QED BY <1>4, <1>6, <1>7, <1>8 DEF FilesInv

LEMMA SetFailsKeeps ==
    ASSUME FilesInv, NEW w \in Writer, SetFails(w)
    PROVE  FilesInv'
<1>1. w \in Active /\ Returns(w) /\ UNCHANGED <<state, tmp, crowded, kept>>
  BY DEF SetFails, Active
<1>2. Shape' /\ LoneCall' /\ Active' = Active \ {w} /\ alone' = alone \ {w}
  BY <1>1, ReturnsKeeps DEF FilesInv, Shape, FilesTypeOK
<1>3. OverlapIsSeen'
  BY <1>1, <1>2 DEF OverlapIsSeen, FilesInv
<1>4. FileIsLastSet' /\ PathsDiffer'
  BY <1>1 DEF FileIsLastSet, PathsDiffer, Returns, FilesInv, NoNode
<1>5. QED BY <1>2, <1>3, <1>4 DEF FilesInv

\* Steps that leave the files and the calls alone.
LEMMA NobodyWrites ==
    ASSUME FilesInv, UNCHANGED <<state, tmp, text, pc, handle, wanted, alone, crowded, kept, sets>>,
           seconds' \in 1..MaxSeconds
    PROVE  FilesInv'
<1>1. Active' = Active
  BY DEF Active
<1>2. FilesTypeOK'
  BY <1>1, Fixed DEF FilesInv, Shape, FilesTypeOK
<1>3. Shape'
  BY <1>1, <1>2, Fixed DEF FilesInv, Shape
<1>4. LoneCall' /\ OverlapIsSeen'
  BY <1>1, Fixed DEF FilesInv, LoneCall, OverlapIsSeen
<1>5. PathsDiffer' /\ FileIsLastSet'
  BY Fixed DEF FilesInv, PathsDiffer, FileIsLastSet
<1>6. QED BY <1>3, <1>4, <1>5 DEF FilesInv

LEMMA SecondPassesKeeps ==
    ASSUME FilesInv, SecondPasses
    PROVE  FilesInv'
<1>1. seconds' \in 1..MaxSeconds
  BY WriterBounds DEF SecondPasses, FilesInv, Shape, FilesTypeOK
<1>2. QED BY <1>1, NobodyWrites DEF SecondPasses

LEMMA FilesKept ==
    ASSUME FilesInv, UNCHANGED fileVars
    PROVE  FilesInv'
<1>1. seconds' \in 1..MaxSeconds
  BY DEF fileVars, FilesInv, Shape, FilesTypeOK
<1>2. QED BY <1>1, NobodyWrites DEF fileVars

LEMMA FilesInvInit == FilesInit => FilesInv
<1> SUFFICES ASSUME FilesInit PROVE FilesInv
  OBVIOUS
<1>1. Active = {}
  BY DEF FilesInit, Active
<1>2. Default \in Setting
  BY WriterBounds DEF Default, Setting
<1>3. << >> \in Seq(Setting) /\ Len(<< >>) = 0
  BY SMT
<1>4. /\ pc \in [Writer -> {"idle", "open", "written"}] /\ handle \in [Writer -> Node \cup {NoNode}]
      /\ wanted \in [Writer -> Setting]
  BY <1>2 DEF FilesInit
<1>5. text \in [Node -> Seq(Setting)] /\ \A n \in Node : Len(text[n]) <= 2
  BY <1>3 DEF FilesInit
<1>6. sets \in 0..MaxSets /\ seconds \in 1..MaxSeconds
  BY WriterBounds DEF FilesInit
<1>7. {state, tmp} \subseteq Node \cup {NoNode} /\ alone = {} /\ crowded \in BOOLEAN /\ kept = << >>
  BY DEF FilesInit
<1>8. Shape
  BY <1>1, <1>3, <1>4, <1>5, <1>6, <1>7 DEF Shape, FilesTypeOK
<1>9. QED BY <1>1, <1>7, <1>8 DEF FilesInv, FilesInit, PathsDiffer, LoneCall, OverlapIsSeen, FileIsLastSet

-----------------------------------------------------------------------------
(* The editor.                                                             *)

ServerType == [port : Port, secure : BOOLEAN, tls : BOOLEAN]
BoxType    == [kind : Dialog, seen : BOOLEAN, closing : BOOLEAN]

IsEditor(e)   == e = Absent \/ e[1] \in Configuration
IsServer(s)   == s = Absent \/ s[1] \in ServerType
IsObserved(o) == o = Absent \/ o[1].setting \in Setting
IsBox(b)      == b = Absent \/ b[1] \in BoxType

\* What the observed-state file says of an editor with such a filter.
Tells(o, has, app) == /\ o # Absent
                      /\ o[1].filter_installed = has
                      /\ has = (WantsFilter(o[1].setting) /\ app)

EditorInv ==
    /\ IsEditor(editor) /\ IsServer(server) /\ IsObserved(observed) /\ IsBox(box)
    /\ gui \in BOOLEAN /\ pump \in BOOLEAN /\ filter \in BOOLEAN /\ due \in BOOLEAN /\ told \in BOOLEAN
    /\ ~Up => ~gui /\ ~due /\ ~filter /\ server = Absent /\ box = Absent
    /\ pump <=> server # Absent /\ gui
    /\ filter => gui
    /\ told => Up /\ Tells(observed, filter, gui)

LEMMA LoadedIsASetting == FilesInv => LoadState \in Setting
<1> SUFFICES ASSUME FilesInv PROVE LoadState \in Setting
  OBVIOUS
<1>1. Default \in Setting
  BY WriterBounds DEF Default, Setting
<1>2. ASSUME state # NoNode, Len(text[state]) = 1 PROVE text[state][1] \in Setting
  <2>1. text[state] \in Seq(Setting)
    BY <1>2 DEF FilesInv, Shape, FilesTypeOK
  <2>2. QED BY <1>2, <2>1
<1>3. QED BY <1>1, <1>2 DEF LoadState

LEMMA ResolvedOptions ==
    ASSUME NEW c \in Configuration
    PROVE  /\ Resolved(c, "Port") \in Int
           /\ Resolved(c, "SecureMode") \in BOOLEAN
<1>1. DefaultOf["Port"] \in Int /\ DefaultOf["SecureMode"] \in BOOLEAN
  BY DEF DefaultOf, Option
<1>2. ASSUME NEW o \in Option, NEW source \in {"settings", "environment"}, o \in DOMAIN c[source]
      PROVE  c[source][o] \in IF o = "Port" THEN Int ELSE BOOLEAN
  BY <1>2, Configured
<1>3. "Port" \in Option /\ "SecureMode" \in Option
  BY DEF Option
<1>4. Resolved(c, "Port") \in Int
  <2>1. "Port" \in DOMAIN c.environment => c.environment["Port"] \in Int
    BY <1>2, <1>3
  <2>2. "Port" \in DOMAIN c.settings => c.settings["Port"] \in Int
    BY <1>2, <1>3
  <2>3. QED BY <1>1, <2>1, <2>2 DEF Resolved
<1>5. Resolved(c, "SecureMode") \in BOOLEAN
  <2>1. "SecureMode" \in DOMAIN c.environment => c.environment["SecureMode"] \in BOOLEAN
    BY <1>2, <1>3
  <2>2. "SecureMode" \in DOMAIN c.settings => c.settings["SecureMode"] \in BOOLEAN
    BY <1>2, <1>3
  <2>3. QED BY <1>1, <2>1, <2>2 DEF Resolved
<1>6. QED BY <1>4, <1>5

LEMMA SixteenBits == ASSUME NEW x \in Int PROVE x % 65536 \in Port
<1>1. x % 65536 \in Int
  BY SMT
<1>2. 0 =< x % 65536
  BY SMT
<1>3. x % 65536 < 65536
  BY SMT
<1>4. QED BY <1>1, <1>2, <1>3 DEF Port

LEMMA ParametersType ==
    ASSUME NEW c \in Configuration
    PROVE  Parameters(c) \in ServerType
<1> DEFINE x == Resolved(c, "Port")
           p == x % 65536
           q == Resolved(c, "SecureMode")
           t == Resolved(c, "TlsEnabled") /\ Resolved(c, "TlsFiles")
<1>1. p \in Port
  <2>1. x \in Int
    BY ResolvedOptions
  <2> HIDE DEF x
  <2>2. QED BY <2>1, SixteenBits
<1>2. q \in BOOLEAN
  BY ResolvedOptions
<1>3. t \in BOOLEAN
  OBVIOUS
<1>4. Parameters(c) = [port |-> p, secure |-> q, tls |-> t]
  BY DEF Parameters
<1> HIDE DEF p, q, t
<1>5. [port |-> p, secure |-> q, tls |-> t] \in ServerType
  BY <1>1, <1>2, <1>3 DEF ServerType
<1>6. QED BY <1>4, <1>5

\* A poll of the state file, the one of Activate or one of a tick: the filter is
\* as the file wants it, and the observed-state file tells so if it was written.
LEMMA Refreshes ==
    ASSUME FilesInv, IsObserved(observed), NEW has \in BOOLEAN, NEW app \in BOOLEAN, has => app,
           RefreshAgentMode(has, app)
    PROVE  /\ filter' \in BOOLEAN /\ due' = FALSE /\ told' \in BOOLEAN /\ IsObserved(observed')
           /\ filter' => app
           /\ told' => Tells(observed', filter', app)
<1>1. LoadState \in Setting
  BY LoadedIsASetting
<1>2. filter' = Applied(LoadState, has, app) /\ due' = FALSE
  BY DEF RefreshAgentMode
<1>3. Applied(LoadState, has, app) = (WantsFilter(LoadState) /\ app) /\ Applied(LoadState, has, app) \in BOOLEAN
  BY DEF Applied
<1>4. \/ observed' = Observation(LoadState, has, app) /\ told' = TRUE
      \/ observed' \in {observed, Absent} /\ told' = FALSE
  BY DEF RefreshAgentMode, WriteObservedState
<1>5. CASE observed' = Observation(LoadState, has, app) /\ told' = TRUE
  <2>1. /\ observed' # Absent /\ observed'[1].setting = LoadState
        /\ observed'[1].filter_installed = Applied(LoadState, has, app)
    BY <1>5 DEF Observation, Absent
  <2>2. IsObserved(observed')
    BY <1>1, <2>1, Fixed DEF IsObserved
  <2>3. Tells(observed', filter', app)
    BY <1>2, <1>3, <2>1 DEF Tells
  <2>4. QED BY <1>2, <1>3, <1>5, <2>2, <2>3
<1>6. CASE observed' \in {observed, Absent} /\ told' = FALSE
  <2>1. IsObserved(observed')
    BY <1>6, Fixed DEF IsObserved
  <2>2. QED BY <1>2, <1>3, <1>6, <2>1
<1>7. QED BY <1>4, <1>5, <1>6

LEMMA ActivateKeeps ==
    ASSUME FilesInv, EditorInv, NEW c \in Configuration, NEW app \in BOOLEAN, Activate(c, app)
    PROVE  EditorInv'
<1>1. /\ editor' = <<c>> /\ gui' = app /\ box' = box /\ ~Up
      /\ server' \in StartAgentServer(c) /\ pump' = PumpStarts(server', app)
      /\ RefreshAgentMode(FALSE, app)
  BY DEF Activate
<1>2. /\ filter' \in BOOLEAN /\ due' = FALSE /\ told' \in BOOLEAN /\ IsObserved(observed')
      /\ filter' => app
      /\ told' => Tells(observed', filter', app)
  BY <1>1, Refreshes DEF EditorInv
<1>3. Up' /\ editor'[1] \in Configuration
  BY <1>1 DEF Up, Absent
<1>4. IsServer(server')
  <2>1. server' = Absent \/ server' = <<Parameters(c)>>
    BY <1>1 DEF StartAgentServer
  <2>2. CASE server' = Absent
    BY <2>2 DEF IsServer
  <2>3. CASE server' = <<Parameters(c)>>
    <3>1. server'[1] = Parameters(c)
      BY <2>3
    <3>2. QED BY <3>1, ParametersType DEF IsServer
  <2>4. QED BY <2>1, <2>2, <2>3
<1>5. pump' \in BOOLEAN /\ (pump' <=> server' # Absent /\ gui')
  BY <1>1 DEF PumpStarts
<1>6. IsEditor(editor')
  BY <1>3 DEF IsEditor
<1>7. IsBox(box')
  BY <1>1 DEF EditorInv
<1>8. QED BY <1>1, <1>2, <1>3, <1>4, <1>5, <1>6, <1>7 DEF EditorInv

LEMMA OnSystemTickKeeps ==
    ASSUME FilesInv, EditorInv, OnSystemTick
    PROVE  EditorInv'
<1>1. /\ RefreshAgentMode(filter, gui)
      /\ UNCHANGED <<editor, gui, server, pump, box>> /\ Up
  BY DEF OnSystemTick
<1>2. filter \in BOOLEAN /\ gui \in BOOLEAN /\ (filter => gui)
  BY <1>1 DEF EditorInv
<1>3. /\ filter' \in BOOLEAN /\ due' = FALSE /\ told' \in BOOLEAN /\ IsObserved(observed')
      /\ filter' => gui
      /\ told' => Tells(observed', filter', gui)
  BY <1>1, <1>2, Refreshes DEF EditorInv
<1>4. Up'
  BY <1>1 DEF Up
<1>5. QED BY <1>1, <1>3, <1>4 DEF EditorInv

\* The ends of an editor.
LEMMA GoneKeeps ==
    ASSUME EditorInv, Gone, box' = Absent
    PROVE  EditorInv'
<1>1. /\ editor' = Absent /\ gui' = FALSE /\ server' = Absent /\ pump' = FALSE /\ filter' = FALSE
      /\ due' = FALSE /\ observed' = observed /\ told' = FALSE
  BY DEF Gone
<1>2. ~Up'
  BY <1>1 DEF Up
<1>3. IsEditor(editor') /\ IsServer(server') /\ IsBox(box')
  BY <1>1 DEF IsEditor, IsServer, IsBox
<1>4. IsObserved(observed')
  BY <1>1 DEF EditorInv
<1>5. QED BY <1>1, <1>2, <1>3, <1>4 DEF EditorInv

\* Dialogs, and the mark that a second has passed.
LEMMA ObservedStays ==
    ASSUME EditorInv, UNCHANGED <<editor, gui, server, pump, filter, observed, told>>,
           due' \in BOOLEAN, ~Up => ~due' /\ box' = Absent, IsBox(box')
    PROVE  EditorInv'
<1>1. Up' = Up
  BY DEF Up
<1>2. QED BY <1>1 DEF EditorInv

LEMMA BoxIsShownKeeps ==
    ASSUME EditorInv, NEW kind \in Dialog, BoxIsShown(kind)
    PROVE  EditorInv'
<1> DEFINE closing == filter /\ Dismissed(kind)
           b == [kind |-> kind, seen |-> filter, closing |-> closing]
<1>1. box' = <<b>> /\ Up /\ due' = due /\ UNCHANGED <<editor, gui, server, pump, filter, observed, told>>
  BY DEF BoxIsShown
<1>2. filter \in BOOLEAN /\ closing \in BOOLEAN /\ due \in BOOLEAN
  BY DEF EditorInv
<1> HIDE DEF closing
<1>3. b \in BoxType
  BY <1>2 DEF BoxType
<1> HIDE DEF b
<1>4. box'[1] \in BoxType
  BY <1>1, <1>3
<1>5. IsBox(box')
  BY <1>4 DEF IsBox
<1>6. QED BY <1>1, <1>2, <1>5, ObservedStays

-----------------------------------------------------------------------------
(* Theorems.                                                               *)

IInv == FilesInv /\ EditorInv

LEMMA IInvInit == Init => IInv
<1> SUFFICES ASSUME Init PROVE IInv
  OBVIOUS
<1>1. FilesInv
  BY FilesInvInit DEF Init
<1>2. IsEditor(editor) /\ IsServer(server) /\ IsBox(box) /\ IsObserved(observed)
  BY DEF Init, IsEditor, IsServer, IsBox, IsObserved
<1>3. ~Up
  BY DEF Init, Up
<1>4. EditorInv
  BY <1>2, <1>3 DEF Init, EditorInv
<1>5. QED BY <1>1, <1>4 DEF IInv

LEMMA IInvStep == IInv /\ [Next]_vars => IInv'
<1> SUFFICES ASSUME IInv, [Next]_vars PROVE IInv'
  OBVIOUS
<1> USE DEF IInv
<1>1. ASSUME UNCHANGED editorVars PROVE EditorInv'
  <2>1. /\ UNCHANGED <<editor, gui, server, pump, filter, observed, told>> /\ due' = due /\ box' = box
    BY <1>1 DEF editorVars
  <2>2. due \in BOOLEAN /\ (~Up => ~due /\ box = Absent) /\ IsBox(box)
    BY DEF EditorInv
  <2>3. QED BY <2>1, <2>2, ObservedStays
<1>2. CASE \E w \in Writer, t \in Toggle : SetAgentMode(w, t[1], t[2]) /\ UNCHANGED editorVars
  <2>1. PICK w \in Writer, t \in Toggle : SetAgentMode(w, t[1], t[2]) /\ UNCHANGED editorVars
    BY <1>2
  <2>2. t[1] \in BOOLEAN /\ t[2] \in BOOLEAN
    BY Toggles
  <2>3. QED BY <1>1, <2>1, <2>2, SetAgentModeKeeps
<1>3. CASE \E w \in Writer : WriteText(w) /\ UNCHANGED editorVars
  BY <1>1, <1>3, WriteTextKeeps
<1>4. CASE \E w \in Writer : Replace(w) /\ UNCHANGED editorVars
  BY <1>1, <1>4, ReplaceKeeps
<1>5. CASE \E w \in Writer : SetFails(w) /\ UNCHANGED editorVars
  BY <1>1, <1>5, SetFailsKeeps
<1>6. CASE SecondPasses /\ UNCHANGED editorVars
  BY <1>1, <1>6, SecondPassesKeeps
<1>7. CASE \E c \in Configuration, app \in BOOLEAN : Activate(c, app)
  <2>1. UNCHANGED fileVars
    BY <1>7 DEF Activate
  <2>2. QED BY <1>7, <2>1, ActivateKeeps, FilesKept
<1>8. CASE Deactivate
  BY <1>8, GoneKeeps, FilesKept DEF Deactivate, Gone
<1>9. CASE Crash
  BY <1>9, GoneKeeps, FilesKept DEF Crash, Gone
<1>10. CASE PollIsDue
  <2>1. /\ Up /\ due' = TRUE /\ UNCHANGED fileVars /\ box' = box
        /\ UNCHANGED <<editor, gui, server, pump, filter, observed, told>>
    BY <1>10 DEF PollIsDue
  <2>2. IsBox(box)
    BY DEF EditorInv
  <2>3. QED BY <2>1, <2>2, ObservedStays, FilesKept
<1>11. CASE OnSystemTick
  <2>1. UNCHANGED fileVars
    BY <1>11 DEF OnSystemTick
  <2>2. QED BY <1>11, <2>1, OnSystemTickKeeps, FilesKept
<1>12. CASE \E kind \in Dialog : BoxIsShown(kind)
  <2>1. UNCHANGED fileVars
    BY <1>12 DEF BoxIsShown
  <2>2. QED BY <1>12, <2>1, BoxIsShownKeeps, FilesKept
<1>13. CASE CloseBox
  <2>1. /\ box' = Absent /\ due' = due /\ UNCHANGED fileVars
        /\ UNCHANGED <<editor, gui, server, pump, filter, observed, told>>
    BY <1>13 DEF CloseBox
  <2>2. due \in BOOLEAN /\ (~Up => ~due) /\ IsBox(box')
    BY <2>1 DEF EditorInv, IsBox
  <2>3. QED BY <2>1, <2>2, ObservedStays, FilesKept
<1>14. CASE UNCHANGED vars
  <2>1. UNCHANGED fileVars /\ UNCHANGED editorVars
    BY <1>14 DEF vars
  <2>2. QED BY <1>1, <2>1, FilesKept
<1>15. QED
  BY <1>2, <1>3, <1>4, <1>5, <1>6, <1>7, <1>8, <1>9, <1>10, <1>11, <1>12, <1>13, <1>14
     DEF Next, BoxIsDismissed, UserClosesBox

LEMMA IInvHolds == Spec => []IInv
BY IInvInit, IInvStep, PTL DEF Spec

\* The variables keep their types whatever the number of writers, the
\* configurations and the bounds are: a server that runs has a port of 16
\* bits, and nothing of an editor outlives it but the files.
THEOREM TypeCorrect == Spec => []TypeOK
<1>1. ASSUME IInv PROVE TypeOK
  <2>1. FilesTypeOK /\ EditorInv
    BY <1>1 DEF IInv, FilesInv, Shape
  <2>2. editor = Absent \/ editor[1] \in Configuration
    BY <2>1 DEF EditorInv, IsEditor
  <2>3. server = Absent \/ server[1] \in [port : Port, secure : BOOLEAN, tls : BOOLEAN]
    BY <2>1, Zenon DEF EditorInv, IsServer, ServerType
  <2>4. observed = Absent \/ observed[1].setting \in Setting
    BY <2>1 DEF EditorInv, IsObserved
  <2>5. box = Absent \/ box[1] \in [kind : Dialog, seen : BOOLEAN, closing : BOOLEAN]
    BY <2>1, Zenon DEF EditorInv, IsBox, BoxType
  <2>6. /\ gui \in BOOLEAN /\ pump \in BOOLEAN /\ filter \in BOOLEAN /\ due \in BOOLEAN /\ told \in BOOLEAN
        /\ ~Up => ~gui /\ ~due /\ ~filter /\ server = Absent /\ box = Absent
        /\ pump <=> server # Absent /\ gui
    BY <2>1 DEF EditorInv
  <2>7. QED BY <2>1, <2>2, <2>3, <2>4, <2>5, <2>6, Zenon DEF TypeOK
<1>2. QED BY <1>1, IInvHolds, PTL

\* However many processes call set_agent_mode and wherever they fail or die,
\* as long as no two calls overlap the state file is what the last successful
\* one wrote, whole, at every moment (agent_mode.py renames a file it has
\* written to its end), and one call that runs alone repairs what overlapping
\* ones left.
THEOREM StateFileIsWhole == Spec => []FileIsLastSet
<1>1. IInv => FileIsLastSet
  BY DEF IInv, FilesInv
<1>2. QED BY <1>1, IInvHolds, PTL

\* Whatever the state file says, however often editors crashed before and
\* whichever writes failed: from a poll that wrote the observed-state file to
\* the next poll, the file says of the dialog filter of the editor that is up
\* what is so (RefreshAgentMode applies before it writes).
THEOREM ObservedStateIsApplied == Spec => []ObservedIsApplied
<1>1. IInv => ObservedIsApplied
  BY DEF IInv, EditorInv, Tells, ObservedIsApplied
<1>2. QED BY <1>1, IInvHolds, PTL
=============================================================================
