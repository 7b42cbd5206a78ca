----------------------------- MODULE MCPlanning -----------------------------
(***************************************************************************)
(* A small instance of Planning for TLC.  Its initial states choose between *)
(* operation without requests, with a run-once batch and a fault to come,   *)
(* and operation with requests, where batches and faults are spent.         *)
(***************************************************************************)
EXTENDS Planning

MCInit ==
    /\ control = [mode |-> "paused", batch |-> None, due |-> TRUE, waiting |-> FALSE, error |-> FALSE]
    /\ cycles = << >> /\ departed = FALSE
    /\ task = [c \in Cycles |-> [status |-> "none", run |-> 0, attempts |-> 0]]
    /\ \/ requests = [r \in Requests |-> [status |-> "withdrawn", assessed |-> 0]] /\ batches = 0 /\ faults = 0
       \/ requests = [r \in Requests |-> [status |-> "new", assessed |-> 0]] /\ batches = MaxBatches /\ faults = MaxFaults
    /\ disk = "ok" /\ capacity = TRUE /\ proc = "up"
    /\ preflight = None /\ job = None /\ barrier = FALSE /\ tick = None

MCSpec == MCInit /\ [][Next]_vars /\ Fairness

=============================================================================
