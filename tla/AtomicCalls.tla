---------------------------- MODULE AtomicCalls ----------------------------
(***************************************************************************)
(* What the gem's Python API promises an agent about one top-level call:   *)
(* it either answers result and everything it made stays, or it answers   *)
(* error and the level is what it was before the call.  UndoBatch          *)
(* implements this with the editor's undo stack and a list of created ids. *)
(***************************************************************************)
CONSTANT Entity

VARIABLES world,    \* the entities an observer outside the call sees
          calling,  \* a top-level call is running
          answer    \* what the last finished call answered

vars == <<world, calling, answer>>

Answers == {"none", "result", "error"}

Init == world = {} /\ calling = FALSE /\ answer = "none"

Start == ~calling /\ calling' = TRUE /\ UNCHANGED <<world, answer>>

\* A resultful call only adds entities.
Commit == /\ calling /\ ~calling'
          /\ answer' = "result"
          /\ world \subseteq world' /\ world' \subseteq Entity

\* A failed call changes nothing.
Abort == calling /\ ~calling' /\ answer' = "error" /\ UNCHANGED world

\* Between calls the user, raw builders, manual batches and Undo edit freely.
Edit == ~calling /\ ~calling' /\ world' \subseteq Entity /\ UNCHANGED answer

Next == Start \/ Commit \/ Abort \/ Edit

Spec == Init /\ [][Next]_vars
=============================================================================
