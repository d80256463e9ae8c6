---------------------------- MODULE AtMostOnce ----------------------------
(***************************************************************************)
(* What the AgentServer promises about one request: it is carried out at   *)
(* most once, answered at most once, a result is the answer to a request   *)
(* that was carried out, and a refused or dropped request never is.  A     *)
(* timeout promises nothing: the request may have been, or may still be,   *)
(* carried out.  AgentServer implements this with two threads, a queue and *)
(* a promise per request.                                                  *)
(***************************************************************************)
EXTENDS Naturals

CONSTANT Request

VARIABLES runs,   \* how many times each request was carried out
          reply   \* what its sender received

vars == <<runs, reply>>

Init == runs = [r \in Request |-> 0] /\ reply = [r \in Request |-> "none"]

Perform(r) == /\ runs[r] = 0
              /\ reply[r] \in {"none", "timeout"}
              /\ runs' = [runs EXCEPT ![r] = 1]
              /\ UNCHANGED reply

Answer(r, a) == /\ reply[r] = "none"
                /\ a = "result" => runs[r] = 1
                /\ a \in {"secure_mode", "shutting_down"} => runs[r] = 0
                /\ reply' = [reply EXCEPT ![r] = a]
                /\ UNCHANGED runs

Next == \E r \in Request :
            \/ Perform(r)
            \/ \E a \in {"result", "timeout", "secure_mode", "shutting_down"} : Answer(r, a)

Spec == Init /\ [][Next]_vars
=============================================================================
