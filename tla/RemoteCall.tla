----------------------------- MODULE RemoteCall -----------------------------
(***************************************************************************)
(* What the link to an engine session promises to handle_service: calls    *)
(* are made one after the other, the session sees each at most once and in *)
(* order, and a call that returns an answer returns its own; a call may    *)
(* fail, and then the session may have seen it or not.                     *)
(***************************************************************************)
EXTENDS Naturals

VARIABLES calls,    \* number of the last call
          busy,     \* it has not returned
          seen,     \* number of the last call the session has handled
          answer    \* call the last answer belongs to; 0 after a failure

vars == <<calls, busy, seen, answer>>

Init == calls = 0 /\ busy = FALSE /\ seen = 0 /\ answer = 0

Call == /\ ~busy /\ busy' = TRUE
        /\ calls' = calls + 1 /\ answer' = 0
        /\ UNCHANGED seen

See == /\ seen < calls /\ seen' \in seen + 1 .. calls
       /\ UNCHANGED <<calls, busy, answer>>

Answer == /\ busy /\ seen = calls
          /\ answer' = calls /\ busy' = FALSE
          /\ UNCHANGED <<calls, seen>>

Fail == busy /\ busy' = FALSE /\ UNCHANGED <<calls, seen, answer>>

Next == Call \/ See \/ Answer \/ Fail

Spec == Init /\ [][Next]_vars
=============================================================================
