---------------------------- MODULE EditHistory ----------------------------
(***************************************************************************)
(* What the editor's undo promises of anything it keeps a history of:      *)
(* whatever is changed, the history grows by the value as it was before    *)
(* the change and by nothing else, an undo brings back the value that is   *)
(* newest there, and steps are lost only off the old end or all at once.   *)
(* No change is without its step, and no step of the history is half of    *)
(* one.  A request never undoes what it found, and one that answers ok     *)
(* loses no step but by adding one.  The animation graph and the level's   *)
(* prefab template are kept so.                                            *)
(***************************************************************************)
EXTENDS Naturals, Sequences

CONSTANT MaxUndo   \* bound: steps the history is followed back

VARIABLES value,   \* what is edited
          history, \* the values before each step that can be undone, newest last
          reply    \* what the step answered, "none" when it is no request's

vars == <<value, history, reply>>

\* The history as far back as it is followed.
Push(h, v) == IF Len(h) < MaxUndo THEN Append(h, v) ELSE Append(Tail(h), v)

Init == history = << >> /\ reply = "none"

\* A report, a refusal, or a request that found nothing to do.
Answer == UNCHANGED <<value, history>>

\* The value becomes any other, in one step however many commands it took.
Edit == history' = Push(history, value)

Undo == /\ history # << >>
        /\ value' = history[Len(history)]
        /\ history' = SubSeq(history, 1, Len(history) - 1)
        /\ reply' = "none"

\* The oldest step falls off, or the history goes with the document.
Forget == /\ history # << >>
          /\ history' \in {Tail(history), << >>}
          /\ reply' # "ok"
          /\ UNCHANGED value

Next == Answer \/ Edit \/ Undo \/ Forget

Spec == Init /\ [][Next]_vars
=============================================================================
