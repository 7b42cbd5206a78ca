----------------------------- MODULE PRCapacity -----------------------------
(***************************************************************************)
(* The open pull-request limit (engine/capacity.go, store/capacity.go,     *)
(* engine/observation.go): durable reservations of admitted tasks, the     *)
(* saved inventory of open pull requests, the reads that refresh it while  *)
(* tasks publish, and the release of slots.                                *)
(*                                                                         *)
(* Every task here opens a pull request of its own, so a task stands for   *)
(* its branch and its pull request too.  Observation times matter only by  *)
(* their order, which `older' keeps.                                       *)
(***************************************************************************)
EXTENDS Naturals, FiniteSets

CONSTANTS
    Tasks,          \* tasks that target the default branch
    Refreshers,     \* the reads that can overlap
    Limits,         \* values config.MaxOpenPRs can be given
    MaxFaults       \* bound: unreadable remotes, refused writes, restarts

ASSUME TasksFinite == IsFiniteSet(Tasks)
ASSUME RefreshersAssumption == Refreshers \subseteq {"job", "housekeeping", "planning"}
ASSUME LimitsAssumption == Limits \subseteq Nat \ {0} /\ Limits # {}
ASSUME FaultsAssumption == MaxFaults \in Nat

VARIABLES
    task,           \* the part of each task's status that capacity reads
    pr,             \* the state of each task's pull request at GitHub
    reopened,       \* history: pull requests somebody reopened
    reserved,       \* tasks with a row in pr_reservations
    saved,          \* pull requests the saved inventory lists as open
    observation,    \* runtime.prObservation
    read,           \* what each running refresh has read
    older,          \* the refreshes running with an earlier ObservedAt than each
    paused, limit,  \* Control.Mode and config.MaxOpenPRs
    faults

vars == <<task, pr, reopened, reserved, saved, observation, read, older, paused, limit, faults>>

\* "publishing" has an authorized output; "uncertain" is blocked with one and
\* "replayed" queued with one; "abandoned" is cancelled with one.
Statuses == {"queued", "executing", "publishing", "replayed", "published",
             "blocked", "uncertain", "cancelled", "abandoned"}
Open == {t \in Tasks : pr[t] = "open"}

\* A refresh that has not started, or "started", "listed" (open pull requests
\* read) or "done" (details of the owned ones and of reservations read).
Idle == [pc |-> "idle", open |-> {}, released |-> {}, stale |-> FALSE]

Init ==
    /\ task = [t \in Tasks |-> "queued"] /\ pr = [t \in Tasks |-> "none"]
    /\ reopened = {} /\ reserved = {} /\ saved = {}
    /\ observation = "none" /\ read = [r \in Refreshers |-> Idle]
    /\ older = [r \in Refreshers |-> {}]
    /\ paused = FALSE /\ limit \in Limits /\ faults = 0

Fault == faults < MaxFaults /\ faults' = faults + 1
Active(t) == task[t] \in {"executing", "publishing"}
Planning == \E r \in Refreshers \cap {"planning"} : read[r].pc # "idle"

-----------------------------------------------------------------------------
(* Refreshing the inventory *)

\* OpenPRs takes its ObservedAt before it reads.  There is one refresh job and
\* one housekeeping pass at a time.  Planning starts without task workers: a
\* cycle when nothing is queued, an audit while paused.
StartRefresh(r) ==
    /\ read[r].pc = "idle"
    /\ r = "planning" => \A t \in Tasks : ~Active(t) /\ (paused \/ task[t] \notin {"queued", "replayed"})
    /\ read' = [read EXCEPT ![r].pc = "started"]
    /\ older' = [older EXCEPT ![r] = {q \in Refreshers : read[q].pc # "idle"}]
    /\ UNCHANGED <<task, pr, reopened, reserved, saved, observation, paused, limit, faults>>

ListOpen(r) ==
    /\ read[r].pc = "started"
    /\ read' = [read EXCEPT ![r].pc = "listed", ![r].open = Open]
    /\ UNCHANGED <<task, pr, reopened, reserved, saved, observation, older, paused, limit, faults>>

\* Seeded fault: a published task missing from the list has been closed.
Releasable_Unconfirmed(open) ==
    {t \in reserved \ open : task[t] = "published" \/ (task[t] = "abandoned" /\ pr[t] # "open")}

\* Seeded fault: only published tasks give a slot back.
Releasable_PublishedOnly(open) ==
    {t \in reserved \ open : task[t] = "published" /\ pr[t] = "closed"}

\* releasableReservations: reservations that no open pull request represents
\* and whose task's delivery is over at GitHub.
Releasable(open) ==
    {t \in reserved \ open : \/ task[t] = "published" /\ pr[t] = "closed"
                             \/ task[t] = "abandoned" /\ pr[t] # "open"}

\* A failed refresh drops an observation that landed before it started; planning
\* and a cancelled refresh leave it.
Distrusts == observation' \in {"none", observation}

\* r's read is over, and no longer older than another.
Over(r) == older' = [q \in Refreshers |-> IF q = r THEN {} ELSE older[q] \ {r}]
Ends(r) == read' = [read EXCEPT ![r] = Idle] /\ Over(r)

\* OwnedPRs reads every listed pull request again and gives up when one changed.
ReadDetails(r) ==
    /\ read[r].pc = "listed"
    /\ IF read[r].open \subseteq Open
       THEN /\ read' = [read EXCEPT ![r].pc = "done", ![r].released = Releasable(read[r].open)]
            /\ UNCHANGED <<older, observation>>
       ELSE Ends(r) /\ Distrusts
    /\ UNCHANGED <<task, pr, reopened, reserved, saved, paused, limit, faults>>

RefreshFails(r) ==
    /\ read[r].pc \in {"started", "listed"} /\ Fault
    /\ Ends(r) /\ Distrusts
    /\ UNCHANGED <<task, pr, reopened, reserved, saved, paused, limit>>

\* Seeded fault: a listed branch frees the reservation of an unfinished task.
Kept_AnyStatus(open, released) ==
    {t \in reserved : ~(t \in released /\ task[t] \in {"published", "abandoned"}) /\ t \notin open}

\* The reservations PersistPRInventory keeps.
Kept(open, released) ==
    {t \in reserved : /\ ~(t \in released /\ task[t] \in {"published", "abandoned"})
                      /\ ~(t \in open /\ task[t] = "published")}

\* What an observation is once another inventory is saved over its own.
Superseded == {"none", IF observation = "fresh" THEN "outdated" ELSE observation}

\* PersistPRInventory and savePRsLocked: an inventory observed before the saved
\* one is dropped; the reads that started earlier are stale from now on.
SaveRefresh(r) ==
    /\ read[r].pc = "done" /\ Over(r)
    /\ IF read[r].stale
       THEN read' = [read EXCEPT ![r] = Idle] /\ UNCHANGED <<saved, reserved, observation, faults>>
       ELSE /\ read' = [q \in Refreshers |-> IF q = r THEN Idle
                                             ELSE [read[q] EXCEPT !.stale = @ \/ q \in older[r]]]
            /\ saved' = read[r].open
            /\ reserved' = Kept(read[r].open, read[r].released)
            /\ \/ observation' = (IF paused THEN observation ELSE "fresh") /\ UNCHANGED faults
               \/ Fault /\ observation' \in Superseded      \* RecordPRObservation failed
    /\ UNCHANGED <<task, pr, reopened, paused, limit>>

\* claimInventory refuses an observation older than prAdmissionLifetime.
ObservationExpires ==
    /\ observation = "fresh" /\ observation' = "none"
    /\ UNCHANGED <<task, pr, reopened, reserved, saved, read, older, paused, limit, faults>>

-----------------------------------------------------------------------------
(* Admission *)

\* Seeded fault: admitted deliveries are not counted.
Remaining_ObservedOnly == IF limit > Cardinality(saved) THEN limit - Cardinality(saved) ELSE 0

\* PRUnion: observed pull requests and the reservations they do not represent.
Remaining == LET used == Cardinality(saved) + Cardinality(reserved \ saved)
             IN IF limit > used THEN limit - used ELSE 0

SetTasks(S, status) == task' = [t \in Tasks |-> IF t \in S THEN status ELSE task[t]]

Waiting == {t \in Tasks : task[t] = "queued" /\ t \notin reserved}

\* dispatch claims the observation once and admits queued tasks while
\* AdmitNewPRTask finds that the claimed inventory is still the saved one and
\* leaves a slot for the next one.
Dispatch(S) ==
    /\ ~paused /\ ~Planning
    /\ observation \in {"fresh", "outdated"} /\ observation' = "consumed"
    /\ Waiting # {} /\ S \subseteq Waiting
    /\ S = {} <=> Remaining = 0 \/ observation = "outdated"
    /\ Cardinality(S) <= Remaining
    /\ SetTasks(S, "executing") /\ reserved' = reserved \cup S
    /\ UNCHANGED <<pr, reopened, saved, read, older, paused, limit, faults>>

\* A recovered task keeps its slot and needs no observation.
Redispatch(t) ==
    /\ ~paused /\ ~Planning /\ t \in reserved /\ task[t] \in {"queued", "replayed"}
    /\ SetTasks({t}, IF task[t] = "queued" THEN "executing" ELSE "publishing")
    /\ UNCHANGED <<pr, reopened, reserved, saved, observation, read, older, paused, limit, faults>>

-----------------------------------------------------------------------------
(* The tasks, as far as a slot is concerned *)

Moves(t, from, to) == task[t] \in from /\ SetTasks({t}, to)
Elsewhere == UNCHANGED <<pr, reopened, saved, observation, read, older, paused, limit, faults>>

\* The triggers release_pr_reservation_*: a task that is blocked, failed or
\* cancelled without output has no slot.
Unreserved(t, to) == reserved' = IF to \in {"blocked", "cancelled"} THEN reserved \ {t} ELSE reserved

Authorize(t) == Moves(t, {"executing"}, "publishing") /\ UNCHANGED reserved /\ Elsewhere

TaskFails(t) ==
    \/ Moves(t, {"executing"}, "blocked") /\ Unreserved(t, "blocked") /\ Elsewhere
    \/ Moves(t, {"publishing"}, "uncertain") /\ Unreserved(t, "uncertain") /\ Elsewhere
Cancel(t) == Moves(t, {"queued", "executing", "blocked"}, "cancelled") /\ Unreserved(t, "cancelled") /\ Elsewhere
Retry(t) ==
    \/ Moves(t, {"blocked"}, "queued") /\ UNCHANGED reserved /\ Elsewhere
    \/ Moves(t, {"uncertain"}, "replayed") /\ UNCHANGED reserved /\ Elsewhere
Reconcile(t) ==
    /\ \A u \in Tasks : ~Active(u)
    /\ Moves(t, {"uncertain"}, "publishing") /\ UNCHANGED reserved /\ Elsewhere
Archive(t) ==
    \/ Moves(t, {"blocked"}, "cancelled") /\ Unreserved(t, "cancelled") /\ Elsewhere
    \/ Moves(t, {"uncertain"}, "abandoned") /\ Unreserved(t, "abandoned") /\ Elsewhere

\* Publish opens the pull request, or finds the one an earlier attempt opened.
CreatePR(t) ==
    /\ task[t] = "publishing" /\ pr[t] = "none"
    /\ pr' = [pr EXCEPT ![t] = "open"]
    /\ UNCHANGED <<task, reopened, reserved, saved, observation, read, older, paused, limit, faults>>

\* validatePublication accepts an open pull request and, when it is found by a
\* replay, one that was merged or closed since.
Published(t) == pr[t] # "none" /\ Moves(t, {"publishing"}, "published") /\ UNCHANGED reserved /\ Elsewhere

-----------------------------------------------------------------------------
(* Controls, restart and GitHub *)

\* invalidatePRs forgets the observation and ends the refresh job.
InvalidatePRs ==
    /\ observation' = "none"
    /\ read' = [r \in Refreshers |-> IF r = "job" THEN Idle ELSE read[r]]
    /\ Over("job")

Pause ==
    /\ ~paused /\ paused' = TRUE /\ InvalidatePRs
    /\ UNCHANGED <<task, pr, reopened, reserved, saved, limit, faults>>
Resume ==
    /\ paused /\ paused' = FALSE
    /\ UNCHANGED <<task, pr, reopened, reserved, saved, observation, read, older, limit, faults>>
SaveConfig ==
    /\ paused /\ ~Planning /\ \A t \in Tasks : ~Active(t)
    /\ limit' \in Limits /\ InvalidatePRs
    /\ UNCHANGED <<task, pr, reopened, reserved, saved, paused, faults>>

\* Recover: interrupted tasks are queued again or blocked, after slots are
\* seeded for active tasks and unpublished outputs.
Restart ==
    /\ Fault
    /\ observation' = "none" /\ read' = [r \in Refreshers |-> Idle]
    /\ older' = [r \in Refreshers |-> {}]
    /\ \E blocked \in SUBSET {t \in Tasks : Active(t)} :
         LET seeded == {t \in Tasks : task[t] \in {"executing", "publishing", "replayed", "uncertain"}} IN
         /\ task' = [t \in Tasks |->
              CASE task[t] = "executing" -> IF t \in blocked THEN "blocked" ELSE "queued"
                [] task[t] = "publishing" -> IF t \in blocked THEN "uncertain" ELSE "replayed"
                [] OTHER -> task[t]]
         /\ reserved' = (reserved \cup seeded) \ {t \in blocked : task[t] = "executing"}
    /\ UNCHANGED <<pr, reopened, saved, paused, limit>>

\* Pull requests are merged or closed, and may be reopened.
ClosePR(t) ==
    /\ pr[t] = "open" /\ pr' = [pr EXCEPT ![t] = "closed"]
    /\ UNCHANGED <<task, reopened, reserved, saved, observation, read, older, paused, limit, faults>>
ReopenPR(t) ==
    /\ pr[t] = "closed" /\ t \notin reopened
    /\ pr' = [pr EXCEPT ![t] = "open"] /\ reopened' = reopened \cup {t}
    /\ UNCHANGED <<task, reserved, saved, observation, read, older, paused, limit, faults>>

RefreshStep(r) == StartRefresh(r) \/ ListOpen(r) \/ ReadDetails(r) \/ RefreshFails(r) \/ SaveRefresh(r)
WorkerStep(t) == Authorize(t) \/ TaskFails(t) \/ CreatePR(t) \/ Published(t)
OperatorStep(t) == Cancel(t) \/ Retry(t) \/ Reconcile(t) \/ Archive(t)

Next ==
    \/ \E r \in Refreshers : RefreshStep(r)
    \/ \E S \in SUBSET Tasks : Dispatch(S)
    \/ \E t \in Tasks : Redispatch(t) \/ WorkerStep(t) \/ OperatorStep(t) \/ ClosePR(t) \/ ReopenPR(t)
    \/ ObservationExpires \/ Pause \/ Resume \/ SaveConfig \/ Restart

Spec == Init /\ [][Next]_vars

\* Reads return and are repeated on the housekeeping interval, also while paused;
\* the end of a refresh wakes the scheduler, which offers a claimed inventory to
\* the queued tasks in turn.
Fairness ==
    /\ \A r \in Refreshers : /\ WF_vars(StartRefresh(r) \/ ListOpen(r))
                              /\ WF_vars(ReadDetails(r) \/ SaveRefresh(r))
    /\ \A t \in Tasks : SF_vars(\E S \in SUBSET Tasks : t \in S /\ Dispatch(S))

FairSpec == Spec /\ Fairness

-----------------------------------------------------------------------------
(* Properties *)

TypeOK ==
    /\ task \in [Tasks -> Statuses] /\ pr \in [Tasks -> {"none", "open", "closed"}]
    /\ reopened \subseteq Tasks /\ reserved \subseteq Tasks /\ saved \subseteq Tasks
    /\ observation \in {"none", "fresh", "outdated", "consumed"}
    /\ read \in [Refreshers -> [pc: {"idle", "started", "listed", "done"},
                                open: SUBSET Tasks, released: SUBSET Tasks, stale: BOOLEAN]]
    /\ older \in [Refreshers -> SUBSET Refreshers]
    /\ paused \in BOOLEAN /\ limit \in Limits /\ faults \in 0 .. MaxFaults

\* A task that runs, or whose output may still become a pull request, holds its
\* slot: across failures, retries, reconciliation, restarts and every inventory
\* that is saved meanwhile (PersistPRInventory, Recover, the release triggers).
UnfinishedIsReserved ==
    \A t \in Tasks : task[t] \in {"executing", "publishing", "replayed", "uncertain"} => t \in reserved

\* The slot of a pull request that is open is counted, by its reservation or by
\* the saved inventory: no release comes before the inventory that replaces it.
\* (A pull request somebody reopened is counted from the next inventory on.)
OpenIsCounted ==
    \A t \in Tasks : pr[t] = "open" /\ t \notin reopened => t \in reserved \cup saved

\* AdmitNewPRTask never takes the owned open pull requests and the admitted
\* deliveries together past the configured limit.
AdmissionWithinLimit ==
    [][~(reserved' \subseteq reserved) => Cardinality(reserved' \cup (Open \ reopened)) <= limit]_vars

\* A published delivery, or an abandoned one with no open pull request, gives
\* its slot back although reads fail, overtake each other and are refused.
SlotComesBack ==
    \A t \in Tasks :
        (task[t] = "published" \/ (task[t] = "abandoned" /\ pr[t] # "open"))
        ~> t \notin reserved \/ (task[t] = "abandoned" /\ pr[t] = "open")

\* A task waits for admission only while the service is paused or the slots
\* are taken.
WaitingIsAdmitted ==
    \A t \in Tasks : t \in Waiting ~> \/ t \notin Waiting \/ paused
                                       \/ Cardinality(Open \cup reserved) >= limit

\* Every slot in use is counted, by reservations and inventories of the states
\* the code can be in.
SlotsAreCounted == TypeOK /\ OpenIsCounted

\* Slots come back after their deliveries, and whoever waits for one gets it.
CapacityReturns == SlotComesBack /\ WaitingIsAdmitted

=============================================================================
