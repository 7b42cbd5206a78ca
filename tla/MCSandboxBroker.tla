-------------------------- MODULE MCSandboxBroker --------------------------
(***************************************************************************)
(* A small instance of the broker and its clients for TLC.  Its initial     *)
(* states choose between one request from its start with two faults, one    *)
(* that runs with three, and two that compete for the slot with no fault to *)
(* come: the first was killed and is being removed, the second has yet to   *)
(* start.                                                                   *)
(***************************************************************************)
EXTENDS SandboxClient

First == CHOOSE s \in Sandboxes : TRUE

\* One value for the first sandbox, another for those behind it.
Pair(first, other) == [s \in Sandboxes |-> IF s = First THEN first ELSE other]

Running == [NewEnding EXCEPT !.attempted = TRUE, !.started = TRUE]

Killed == [NewEnding EXCEPT !.attempted = TRUE, !.started = TRUE,
                            !.asked = "client", !.by = "client", !.exit = "sigkilled"]

MCInit ==
    /\ broker = "up" /\ docker = TRUE /\ disk = TRUE
    /\ reaper = Pair({}, {}) /\ report = Pair("none", "none")
    /\ \/ /\ faults = 1 /\ pc = Pair("new", "done") /\ evidence = Pair("none", "none")
          /\ child = Pair("new", "cancelled") /\ client = Pair(TRUE, FALSE)
          /\ container = Pair("absent", "absent") /\ start = Pair("no", "no")
          /\ known = Pair(FALSE, FALSE) /\ slot = Pair(FALSE, FALSE)
          /\ lease = Pair(FALSE, FALSE) /\ end = Pair(NewEnding, NewEnding)
       \/ /\ faults = 0 /\ pc = Pair("running", "done") /\ evidence = Pair("none", "none")
          /\ child = Pair("open", "cancelled") /\ client = Pair(TRUE, FALSE)
          /\ container = Pair("running", "absent") /\ start = Pair("done", "no")
          /\ known = Pair(TRUE, FALSE) /\ slot = Pair(TRUE, FALSE)
          /\ lease = Pair(TRUE, FALSE) /\ end = Pair(Running, NewEnding)
       \/ /\ faults = MaxFaults /\ pc = Pair("removing", "new")
          /\ child = Pair("awaiting", "new") /\ client = Pair(TRUE, TRUE)
          /\ container = Pair("sigkilled", "absent") /\ start = Pair("done", "no")
          /\ known = Pair(TRUE, FALSE) /\ slot = Pair(TRUE, FALSE)
          /\ lease = Pair(FALSE, FALSE) /\ end = Pair(Killed, NewEnding)
          /\ evidence = Pair("complete", "none")

MCSpec == MCInit /\ [][Next]_clientVars /\ Fairness /\ ClientFairness

=============================================================================
