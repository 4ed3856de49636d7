----------------------------- MODULE LoginDesk -----------------------------
(* What the login pipeline of BlueSOD promises each connection, with no queue, no
   thread and no step in between: it is accepted once, gets one verdict, and is
   handed to a server only after the verdict "verified". A connection whose login
   message was invalid may be dropped without an answer; no other may.

   A RESET withdraws the promises about the connections judged so far and later:
   each may end up served, closed or dropped. One that waits for its login message
   keeps its own: it is judged or closed, and never served or dropped unjudged. *)
CONSTANT Conns

VARIABLES
    status, \* where each connection stands
    reset   \* was there a RESET?

Verdicts == {"verified", "rejected", "invalid"}
Judged == Verdicts \cup {"served", "closed", "dropped"}
Statuses == {"new", "pending"} \cup Judged

Init == status = [c \in Conns |-> "new"] /\ reset = FALSE

Becomes(c, s) == status' = [status EXCEPT ![c] = s] /\ UNCHANGED reset

Accept(c) == status[c] = "new" /\ Becomes(c, "pending")
Judge(c)  == status[c] = "pending" /\ \E v \in Verdicts : Becomes(c, v)
Serve(c)  == status[c] = "verified" /\ Becomes(c, "served")
Close(c)  == status[c] \in {"pending"} \cup Verdicts /\ Becomes(c, "closed")
Drop(c)   == status[c] = "invalid" /\ Becomes(c, "dropped")

Reset == ~reset /\ reset' = TRUE /\ UNCHANGED status
Disturb(S) ==
    /\ reset /\ UNCHANGED reset
    /\ \A c \in S : status[c] \in Judged
    /\ \E to \in [S -> Judged] :
         status' = [c \in Conns |-> IF c \in S THEN to[c] ELSE status[c]]

Next ==
    \/ \E c \in Conns : Accept(c) \/ Judge(c) \/ Serve(c) \/ Close(c) \/ Drop(c)
    \/ Reset
    \/ \E S \in SUBSET Conns : Disturb(S)

Spec == Init /\ [][Next]_<<status, reset>>
=============================================================================
