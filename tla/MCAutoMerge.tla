---------------------------- MODULE MCAutoMerge ----------------------------
(***************************************************************************)
(* A small instance of AutoMerge for TLC.  Its initial states choose        *)
(* between a single delivery, with two faults or moves before it, and one   *)
(* that a second delivery to the branch may follow, with none left.         *)
(***************************************************************************)
EXTENDS AutoMerge

\* The follow-up was cancelled and archived before it started.
Alone == task[2] = [status |-> "cancelled", archived |-> TRUE]
Followed == task[2] = [status |-> "absent", archived |-> FALSE]

MCInit ==
    /\ pr = [state |-> "open", head |-> 1, base |-> "default", checks |-> "pending", by |-> None]
    /\ policy = "allows" /\ rec = InitialMerge(1)
    /\ task \in [Deliveries -> [status: {"published", "cancelled", "absent"}, archived: BOOLEAN]]
    /\ task[1] = [status |-> "published", archived |-> FALSE]
    /\ \/ Alone /\ faults \in 0 .. 2 /\ moves = 2 - faults
       \/ Followed /\ faults = MaxFaults /\ moves = MaxMoves
    /\ snapshot = [d \in Deliveries |-> None]
    /\ \/ mode = "continuous" /\ batch = {}
       \/ mode = "once" /\ batch = {1}
    /\ worker = NoWorker
    /\ unsettled = FALSE /\ precheck = None /\ recovering = None /\ refresh = None
    /\ wire = {} /\ foreign = FALSE /\ attempts = 0

MCSpec == MCInit /\ [][Next]_vars /\ Fairness

=============================================================================
