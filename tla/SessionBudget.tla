---------------------------- MODULE SessionBudget ----------------------------
(* The daily session budget (ReserveSession and planningCapacity in         *)
(* src/internal/store/store.go, BeginCycle in src/internal/store/queries.go *)
(* and the triggers of schema.sql): every start of a runner session is      *)
(* admitted in one transaction against its repository's limit and, over all *)
(* repositories, the instance ceiling; a planning cycle commits the         *)
(* sessions it will need under the ceiling when it begins.                  *)
EXTENDS Integers, FiniteSetsExt

CONSTANTS Repos,        \* enrolled repositories
          Limit,        \* sessions a repository may use in a day
          Ceiling,      \* sessions the instance may use in a day
          PlanningCost  \* sessions one planning cycle commits

VARIABLES used,       \* sessions of each repository today
          committed,  \* what the running cycle of each repository still holds
          running     \* repositories whose planning cycle is running

budget == <<used, committed, running>>

Total == MapThenSumSet(LAMBDA r : used[r], Repos)
Committed(rs) == MapThenSumSet(LAMBDA r : committed[r], rs)

\* planningCapacityAt: a cycle begins only with room for all its sessions.
HasPlanningCapacity(r) ==
    /\ used[r] + PlanningCost <= Limit
    /\ Total + Committed(Repos) + PlanningCost <= Ceiling

BeginCycle(r) ==
    /\ r \notin running /\ HasPlanningCapacity(r)
    /\ running' = running \cup {r}
    /\ committed' = [committed EXCEPT ![r] = PlanningCost]
    /\ UNCHANGED used

\* The triggers drop the reservation with the cycle's running status.
EndCycle(r) ==
    /\ r \in running
    /\ running' = running \ {r}
    /\ committed' = [committed EXCEPT ![r] = 0]
    /\ UNCHANGED used

\* ReserveSession: others' commitments are not this admission's to use; a
\* planning admission draws on its own cycle's.
CanReserve(r, planning) ==
    /\ used[r] < Limit
    /\ Total < Ceiling
    /\ Committed(IF planning THEN Repos \ {r} ELSE Repos) < Ceiling - Total

ReserveSession(r, planning) ==
    /\ CanReserve(r, planning)
    /\ used' = [used EXCEPT ![r] = @ + 1]
    /\ committed' = IF planning /\ committed[r] > 0
                    THEN [committed EXCEPT ![r] = @ - 1] ELSE committed
    /\ UNCHANGED running

\* A new day counts from nothing; commitments stay with their cycles.
NewDay ==
    /\ Total > 0
    /\ used' = [r \in Repos |-> 0]
    /\ UNCHANGED <<committed, running>>
=============================================================================
