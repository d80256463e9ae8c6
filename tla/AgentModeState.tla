--------------------------- MODULE AgentModeState ---------------------------
(***************************************************************************)
(* The state file of agent mode, from the set_agent_mode calls that write  *)
(* it (agent_mode.py) to the LoadState that reads it                       *)
(* (AgentMode/AgentModeState.cpp).  A call writes a temporary file, whose  *)
(* name is the same for every caller, and renames it to the state file.    *)
(* An open file is a node of the file system, which keeps its identity     *)
(* when it is renamed.                                                     *)
(***************************************************************************)
EXTENDS Integers, Sequences, FiniteSets

CONSTANTS Writer,      \* processes that call set_agent_mode
          MaxSets,     \* bound: calls
          MaxSeconds   \* bound: the time in seconds, from 1

ASSUME WriterBounds == IsFiniteSet(Writer) /\ MaxSets \in Nat /\ MaxSeconds \in Nat \ {0}

VARIABLES state, tmp,   \* the nodes of the two paths, NoNode where there is none
          text,         \* what each node holds: nothing, a state, or a state
                        \* and the tail of the longer one it was written over
          pc,           \* where each call is
          handle,       \* the node each call has open
          wanted,       \* the state each call writes
          alone,        \* calls no other has overlapped so far
          crowded,      \* whether calls overlapped and none has been alone since
          kept,         \* the state of the last call that answered ok
          sets, seconds

fileVars == <<state, tmp, text, pc, handle, wanted, alone, crowded, kept, sets, seconds>>

Setting == [enabled : BOOLEAN, suppress_dialogs : BOOLEAN, updated_at : 0..MaxSeconds]
Default == [enabled |-> FALSE, suppress_dialogs |-> FALSE, updated_at |-> 0]

NoNode == 0
Node   == 1..(Cardinality(Writer) + 2)   \* two paths and the open handles name no more
Active == {w \in Writer : pc[w] # "idle"}

-----------------------------------------------------------------------------
\* False is a letter longer than true; everything else has the same length.
TextLength(s) == (IF s.enabled THEN 0 ELSE 1) + (IF s.suppress_dialogs THEN 0 ELSE 1)

WrittenOver(old, s) == IF old # << >> /\ TextLength(old[Len(old)]) > TextLength(s)
                       THEN <<s, old[Len(old)]>> ELSE <<s>>

\* Only a whole state parses.
LoadState == IF state # NoNode /\ Len(text[state]) = 1 THEN text[state][1] ELSE Default

Unnamed == CHOOSE n \in Node : n \notin {state, tmp} \cup {handle[w] : w \in Active}

\* Mutant of OpenedNode: the state file itself is opened.
InPlace(w) == IF state # NoNode THEN state ELSE Unnamed

\* open(..., "w") truncates the temporary file that is there, or makes one.
OpenedNode(w) == IF tmp # NoNode THEN tmp ELSE Unnamed

SetAgentMode(w, enabled, suppress) ==
    /\ pc[w] = "idle" /\ sets < MaxSets
    /\ sets' = sets + 1
    /\ wanted' = [wanted EXCEPT ![w] = [enabled |-> enabled, suppress_dialogs |-> suppress,
                                        updated_at |-> seconds]]
    /\ handle' = [handle EXCEPT ![w] = OpenedNode(w)]
    /\ tmp' = IF OpenedNode(w) = state THEN tmp ELSE OpenedNode(w)
    /\ text' = [text EXCEPT ![OpenedNode(w)] = << >>]
    /\ pc' = [pc EXCEPT ![w] = "open"]
    /\ alone' = IF Active = {} THEN {w} ELSE {}
    /\ crowded' = (crowded \/ Active # {})
    /\ UNCHANGED <<state, kept, seconds>>

WriteText(w) ==
    /\ pc[w] = "open"
    /\ text' = [text EXCEPT ![handle[w]] = WrittenOver(@, wanted[w])]
    /\ pc' = [pc EXCEPT ![w] = "written"]
    /\ UNCHANGED <<state, tmp, handle, wanted, alone, crowded, kept, sets, seconds>>

\* The call is over; handles and wishes of idle writers are not kept.
Returns(w) == /\ pc' = [pc EXCEPT ![w] = "idle"]
              /\ handle' = [handle EXCEPT ![w] = NoNode]
              /\ wanted' = [wanted EXCEPT ![w] = Default]
              /\ alone' = alone \ {w}
              /\ UNCHANGED <<text, sets, seconds>>

\* tmp.replace(path): whatever is there under the name.
Replace(w) ==
    /\ pc[w] = "written" /\ tmp # NoNode
    /\ state' = tmp /\ tmp' = NoNode
    /\ kept' = <<wanted[w]>>
    /\ crowded' = (crowded /\ w \notin alone)
    /\ Returns(w)

\* The name is gone (io_error), the disk is full, or the process died.
SetFails(w) ==
    /\ pc[w] # "idle"
    /\ Returns(w)
    /\ UNCHANGED <<state, tmp, crowded, kept>>

SecondPasses == seconds < MaxSeconds /\ seconds' = seconds + 1
                /\ UNCHANGED <<state, tmp, text, pc, handle, wanted, alone, crowded, kept, sets>>

FilesInit == /\ state = NoNode /\ tmp = NoNode
             /\ text = [n \in Node |-> << >>]
             /\ pc = [w \in Writer |-> "idle"]
             /\ handle = [w \in Writer |-> NoNode]
             /\ wanted = [w \in Writer |-> Default]
             /\ alone = {} /\ crowded = FALSE /\ kept = << >>
             /\ sets = 0 /\ seconds = 1

FilesTypeOK == /\ {state, tmp} \cup {handle[w] : w \in Writer} \subseteq Node \cup {NoNode}
               /\ \A n \in Node : text[n] \in Seq(Setting) /\ Len(text[n]) <= 2
               /\ \A w \in Writer : pc[w] \in {"idle", "open", "written"} /\ wanted[w] \in Setting
               /\ alone \subseteq Active /\ crowded \in BOOLEAN
               /\ kept \in Seq(Setting) /\ Len(kept) <= 1
               /\ sets \in 0..MaxSets /\ seconds \in 1..MaxSeconds

\* As long as calls do not overlap, the state file holds the whole of what the
\* last successful one wrote, at every moment of the next one, and a call that
\* fails or dies half way changes nothing.  One call that runs alone repairs
\* what overlapping ones left.
FileIsLastSet == ~crowded => IF kept = << >> THEN state = NoNode
                             ELSE state # NoNode /\ text[state] = kept
=============================================================================
