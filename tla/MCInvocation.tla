---------------------------- MODULE MCInvocation ----------------------------
(* One invocation with up to MaxFaults faults and no rivals, or rivals in   *)
(* two repositories and no faults.                                          *)
EXTENDS Invocation

MCInit ==
    /\ \E spent \in {0, MaxFaults}, earlier \in {0, MaxAttempts - 1} :
          InitWith(spent, earlier) /\ rivalry = (spent # 0) /\ rivalry = (earlier # 0)
    /\ rivalry => backend = "codex" /\ kind # "reviewer"

MCSpec == MCInit /\ [][Next]_vars /\ Fairness
=============================================================================
