----------------------------- MODULE StreamView ------------------------------
(***************************************************************************)
(* EventStream as the other parts of a client see it: its state, its count *)
(* of attempts and, once its raw stream broke, the error the next poll     *)
(* will take.  One step of a view is what several polls, wake-ups and      *)
(* updates of EventStream come to.                                         *)
(***************************************************************************)
EXTENDS Reconnect

CONSTANTS NoReconnect, U32Size

NewView == [state |-> "Streaming", attempts |-> 0, error |-> "none"]

\* fail(): the policy lets the stream sleep and try again, or it is over.
Failing(policy, view, error) ==
    LET n == IF policy = NoReconnect THEN view.attempts ELSE (view.attempts + 1) % U32Size
    IN  [view EXCEPT
           !.state = IF policy # NoReconnect /\ Retryable(error) /\ ~Exhausted(policy, n)
                     THEN "Waiting" ELSE "Ended",
           !.attempts = n,
           !.error = "none"]

Slept(view) == [view EXCEPT !.state = "Resubscribing"]
CameUp(view) == [view EXCEPT !.state = "Streaming"]
Heard(view) == [view EXCEPT !.attempts = 0]
Broke(view, error) == [view EXCEPT !.state = "Broken", !.error = error]

Step(policy, v, w) ==
    \/ v.state = "Streaming" /\ (w = Heard(v) \/ \E e \in StreamErrors : w = Broke(v, e))
    \/ v.state = "Broken" /\ w = Failing(policy, v, v.error)
    \/ v.state = "Waiting" /\ w = Slept(v)
    \/ v.state = "Resubscribing" /\
         (w = CameUp(v) \/ \E code \in Codes : w = Failing(policy, v, code))
=============================================================================
