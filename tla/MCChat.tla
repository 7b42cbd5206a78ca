------------------------------- MODULE MCChat --------------------------------
(* Four instances in one, each from a state the service reaches.  On a day  *)
(* whose digest was sent: an action is parked, the connection was lost, and *)
(* two more interactions race; two interactions meet one fault; one         *)
(* interaction meets every fault (the earlier ones are lost, Slack having   *)
(* given up on them).  And the digest, on a day when the gateway could not  *)
(* be reached and every interaction was lost.                               *)
EXTENDS Chat

First == CHOOSE u \in Operators : TRUE
Earlier(kind, n) == [e \in 1 .. n |-> [kind |-> kind, user |-> First, of |-> 0]]

MCInit ==
    \/ InitWith(TRUE, Earlier("ask", 1), {1}, MaxFaults)
    \/ InitWith(TRUE, Earlier("file", MaxEvents - 2), {}, 1)
    \/ InitWith(TRUE, Earlier("file", MaxEvents - 1), {}, 0)
    \/ InitWith(FALSE, Earlier("file", MaxEvents), {}, MaxFaults) /\ provider = "discord"

MCSpec == MCInit /\ [][Next]_vars /\ Fairness
=============================================================================
