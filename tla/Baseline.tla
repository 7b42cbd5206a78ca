------------------------------ MODULE Baseline ------------------------------
(***************************************************************************)
(* Baseline checks (internal/engine/baseline.go): the operator has the     *)
(* saved verification commands run in a disposable clone of the default    *)
(* branch.  A worker runs the commands, saves the result and removes the   *)
(* clone; the operator may cancel; the process may stop or die; the        *)
(* scheduler's recovery settles what a worker left running, and            *)
(* housekeeping removes what a worker left on disk.                        *)
(*                                                                         *)
(* A section under the engine's gate is one action.  While the store is    *)
(* out (~disk) each access may be refused.  All other work of the service  *)
(* (tasks, planning, merging) is the single flag work.                     *)
(***************************************************************************)
EXTENDS Naturals

CONSTANTS None,
          NumChecks,      \* checks the operator may start
          NumCommands,    \* configured verification commands
          MaxFaults       \* bound on store outages, failed removals, stops

ASSUME BaselineBounds ==
    /\ NumChecks \in Nat \ {0}
    /\ NumCommands \in Nat \ {0}
    /\ MaxFaults \in Nat

ASSUME NoneIsNoCheck == None \notin 1..NumChecks

VARIABLES
    process,    \* "up", "stopping" (the service's context is done), "down"
    disk,       \* the store accepts every access
    faults,
    paused,     \* control.Paused
    work,       \* a task, a planning pass or a merge check runs
    barrier,    \* activeRecoveryError: admissions wait for recovery
    job,        \* runtime.baseline: the check with a worker, or None
    live,       \* whether the worker's context is not done
    worker,     \* where the worker is, its verdict and the check it holds
    check,      \* the saved checks
    marked,     \* checks with a saved cancellation marker
    dir,        \* checks whose clone is on disk
    keeper      \* the check housekeeping is removing, or None

vars == <<process, disk, faults, paused, work, barrier, job, live, worker,
          check, marked, dir, keeper>>

service == <<process, disk, faults, paused, work>>

Checks == 1..NumChecks

Terminal == {"passed", "failed", "cancelled", "timed_out", "interrupted"}

\* A saved check: done commands have a result, good when all succeeded;
\* removed is WorkspaceRemoved.
CheckRecord == [status : {"none", "running"} \cup Terminal,
                done : 0..NumCommands, good : BOOLEAN, removed : BOOLEAN]

Unused == [status |-> "none", done |-> 0, good |-> TRUE, removed |-> FALSE]
Begun == [Unused EXCEPT !.status = "running"]
NoWorker == [at |-> "none", allOK |-> TRUE, copy |-> Unused]

TypeOK ==
    /\ process \in {"up", "stopping", "down"}
    /\ disk \in BOOLEAN
    /\ faults \in 0..MaxFaults
    /\ paused \in BOOLEAN
    /\ work \in BOOLEAN
    /\ barrier \in BOOLEAN
    /\ job \in Checks \cup {None}
    /\ live \in BOOLEAN
    /\ worker \in [at : {"none", "load", "clone", "commands", "settle",
                         "cleanup", "exit"},
                   allOK : BOOLEAN, copy : CheckRecord]
    /\ check \in [Checks -> CheckRecord]
    /\ marked \subseteq Checks
    /\ dir \subseteq Checks
    /\ keeper \in Checks \cup {None}

Init ==
    /\ process = "up"
    /\ disk = TRUE
    /\ faults = 0
    /\ paused = TRUE
    /\ work = FALSE
    /\ barrier = FALSE
    /\ job = None
    /\ live = TRUE
    /\ worker = NoWorker
    /\ check = [c \in Checks |-> Unused]
    /\ marked = {}
    /\ dir = {}
    /\ keeper = None

Running == process # "down"

Fault == faults < MaxFaults /\ faults' = faults + 1

\* Whether the store carries out an access.
Accepted == IF disk THEN {TRUE} ELSE BOOLEAN

Put(c, r, accepted) ==
    check' = IF accepted THEN [check EXCEPT ![c] = r] ELSE check

(***************************************************************************)
(* The operator and the other work of the service                          *)
(***************************************************************************)

\* recoveryConflict and baselineBlocker: whether a check may not start now.
Blocked == barrier \/ job # None \/ process # "up" \/ ~paused \/ work

\* StartBaseline saves the check and starts its worker.
StartBaseline(c) ==
    /\ Running
    /\ ~Blocked
    /\ check[c].status = "none"
    /\ \A d \in Checks : d < c => check[d].status # "none"
    /\ Put(c, Begun, TRUE)
    /\ job' = c
    /\ live' = TRUE
    /\ worker' = [NoWorker EXCEPT !.at = "load"]
    /\ UNCHANGED <<service, barrier, marked, dir, keeper>>

\* abandonBaseline: the end of a check that has no worker to end it.
Abandoned(c, cancels) ==
    [check[c] EXCEPT !.status = IF c \in cancels THEN "cancelled" ELSE "interrupted"]

\* CancelBaseline marks a running check, then cancels its worker, or settles
\* the check itself when there is none.
CancelBaseline(c) ==
    /\ Running
    /\ check[c].status = "running"
    /\ marked' = marked \cup {c}
    /\ IF job = c
         THEN live' = FALSE /\ UNCHANGED check
         ELSE /\ \E accepted \in Accepted : Put(c, Abandoned(c, marked'), accepted)
              /\ UNCHANGED live
    /\ UNCHANGED <<service, barrier, job, worker, dir, keeper>>

\* Resuming is refused during a check and behind the barrier; pausing never is.
SetPaused ==
    /\ Running
    /\ paused => job = None /\ ~barrier
    /\ paused' = ~paused
    /\ UNCHANGED <<process, disk, faults, work, barrier, job, live, worker,
                   check, marked, dir, keeper>>

\* Other work starts: a planning pass or an audit the operator asks for, a
\* reconciliation, or what a tick dispatches or merges.  Each looks for a
\* check in the section that admits it (tick once more after it waited for
\* the sandbox without the gate).
StartWork ==
    /\ process = "up"
    /\ ~work
    /\ ~barrier
    /\ job = None
    /\ work' = TRUE
    /\ UNCHANGED <<process, disk, faults, paused, barrier, job, live, worker,
                   check, marked, dir, keeper>>

WorkEnds ==
    /\ Running
    /\ work
    /\ work' = FALSE
    /\ UNCHANGED <<process, disk, faults, paused, barrier, job, live, worker,
                   check, marked, dir, keeper>>

(***************************************************************************)
(* The worker                                                              *)
(***************************************************************************)

\* The worker returns with a verdict on the check it holds.
Settles(copy, status) ==
    worker' = [worker EXCEPT !.at = "settle", !.copy = [copy EXCEPT !.status = status]]

\* WithDeadline: when the overall limit passes, the work is cancelled and its
\* verdict ignored.
Expired == IF live THEN "timed_out" ELSE "interrupted"

\* What baselineWorker makes of an error: with its context done, or when the
\* sandbox failed, the check says nothing about the repository.
ErrorStatus ==
    (IF live THEN {"failed", "timed_out"} ELSE {}) \cup {"interrupted", Expired}

\* The worker loads its check; when it cannot, it exits at once.
Load ==
    /\ Running
    /\ worker.at = "load"
    /\ \E accepted \in Accepted :
          worker' = [worker EXCEPT !.at = IF accepted THEN "clone" ELSE "exit",
                                   !.copy = IF accepted THEN check[job] ELSE @]
    /\ UNCHANGED <<service, barrier, job, live, check, marked, dir, keeper>>

\* executeBaseline up to the clone.  Each step may fail, before or after the
\* clone's directory exists; saving the revision writes the check it holds.
Clone ==
    /\ Running
    /\ worker.at = "clone"
    /\ \E accepted \in Accepted :
          /\ Put(job, worker.copy, accepted)
          /\ \/ accepted /\ live /\ worker' = [worker EXCEPT !.at = "commands"]
                /\ dir' = dir \cup {job}
             \/ \E status \in ErrorStatus : Settles(worker.copy, status)
                /\ dir' \in {dir, dir \cup {job}}
    /\ UNCHANGED <<service, barrier, job, live, marked, keeper>>

\* One command's result, appended to the check the worker holds.
Recorded(success) ==
    [worker.copy EXCEPT !.done = @ + 1, !.good = @ /\ success]

AllOK(success) == worker.allOK /\ success

\* One command ran and its result is saved at once.  A refused write, a time
\* limit, a changed workspace or a context that is done ends the loop.
RunCommand ==
    /\ Running
    /\ worker.at = "commands"
    /\ worker.copy.done < NumCommands
    /\ \E accepted \in Accepted, success \in BOOLEAN :
          /\ Put(job, Recorded(success), accepted)
          /\ \/ /\ accepted
                /\ live
                /\ worker' = [worker EXCEPT !.copy = Recorded(success),
                                            !.allOK = AllOK(success)]
             \/ /\ ~accepted \/ ~success
                /\ \E status \in ErrorStatus \cup {"timed_out"} :
                      Settles(Recorded(success), status)
    /\ UNCHANGED <<service, barrier, job, live, marked, dir, keeper>>

\* The loop finds its context done, or the sandbox lost the command: no result.
CommandLost ==
    /\ Running
    /\ worker.at = "commands"
    /\ worker.copy.done < NumCommands
    /\ \E status \in {"interrupted", Expired} : Settles(worker.copy, status)
    /\ UNCHANGED <<service, barrier, job, live, check, marked, dir, keeper>>

CommandsDone ==
    /\ Running
    /\ worker.at = "commands"
    /\ worker.copy.done = NumCommands
    /\ \E status \in {IF worker.allOK THEN "passed" ELSE "failed", Expired} :
          Settles(worker.copy, status)
    /\ UNCHANGED <<service, barrier, job, live, check, marked, dir, keeper>>

\* The result to save: an unreadable marker refuses a clean result, and a
\* cancellation wins over whatever the commands did.
Outcome(readable) ==
    IF ~readable THEN "interrupted"
    ELSE IF job \in marked THEN "cancelled"
    ELSE IF process = "stopping" /\ worker.copy.status # "passed" THEN "interrupted"
    ELSE worker.copy.status

\* The final write, under the gate: a refused one leaves the check running.
SaveResult ==
    /\ Running
    /\ worker.at = "settle"
    /\ \E readable, accepted \in Accepted :
          Put(job, [worker.copy EXCEPT !.status = Outcome(readable)], accepted)
    /\ worker' = [worker EXCEPT !.at = "cleanup"]
    /\ UNCHANGED <<service, barrier, job, live, marked, dir, keeper>>

\* What removeBaselineWorkspace saves with the gate back: the check as it is
\* now, with the outcome of the removal.
SaveRemoval(c, gone, accepted) ==
    Put(c, [check[c] EXCEPT !.removed = @ \/ gone], accepted)

\* removeBaselineWorkspace for check c, whose root no other cleanup claims
\* (the worker has it or has gone).  A removal fails part-way at a fault, or
\* because the service is stopping.
RemoveWorkspace(c) ==
    \E accepted \in Accepted :
       \/ dir' = dir \ {c} /\ SaveRemoval(c, TRUE, accepted) /\ UNCHANGED faults
       \/ /\ IF process = "stopping" THEN UNCHANGED faults ELSE Fault
          /\ SaveRemoval(c, FALSE, accepted)
          /\ UNCHANGED dir

WorkerRemoves ==
    /\ Running
    /\ worker.at = "cleanup"
    /\ RemoveWorkspace(job)
    /\ worker' = [worker EXCEPT !.at = "exit"]
    /\ UNCHANGED <<process, disk, paused, work, barrier, job, live, marked, keeper>>

\* An exit that gives up the service without raising the barrier.
WorkerExits_NoBarrier ==
    /\ Running
    /\ worker.at = "exit"
    /\ \E accepted \in Accepted :
          Put(job, IF check[job].status = "running" THEN Abandoned(job, marked)
                   ELSE check[job], accepted)
    /\ job' = None
    /\ worker' = NoWorker
    /\ UNCHANGED <<service, barrier, live, marked, dir, keeper>>

\* The deferred exit: a check still saved as running is abandoned, and the
\* recovery barrier goes up if the store refuses, before the worker's claim on
\* the service is released.
WorkerExits ==
    /\ Running
    /\ worker.at = "exit"
    /\ \E accepted \in Accepted :
          /\ Put(job, IF check[job].status = "running" THEN Abandoned(job, marked)
                      ELSE check[job], accepted)
          /\ barrier' = (barrier \/ ~accepted)
    /\ job' = None
    /\ worker' = NoWorker
    /\ UNCHANGED <<service, live, marked, dir, keeper>>

(***************************************************************************)
(* Recovery and housekeeping                                               *)
(***************************************************************************)

\* A recovery that also settles the check of the current worker.
Orphans_Active == {c \in Checks : check[c].status = "running"}

\* recoverBaselines: the running checks without a worker.
Orphans == {c \in Checks : check[c].status = "running" /\ c # job}

RecoverBaselines ==
    check' = [c \in Checks |-> IF c \in Orphans THEN Abandoned(c, marked) ELSE check[c]]

\* The scheduler's tick: the barrier is lifted only after recovery succeeded.
Tick ==
    /\ process = "up"
    /\ \E accepted \in Accepted :
          /\ IF accepted THEN RecoverBaselines ELSE UNCHANGED check
          /\ barrier' = ~accepted
    /\ UNCHANGED <<service, job, live, worker, marked, dir, keeper>>

\* A retention pass that leaves interrupted checks alone.
Stale_Interrupted(c) ==
    /\ check[c].status \in Terminal \ {"interrupted"}
    /\ ~check[c].removed
    /\ job # c

\* Housekeeping removes what a finished check without a worker left on disk.
Stale(c) ==
    /\ check[c].status \in Terminal
    /\ ~check[c].removed
    /\ job # c

StartRetention ==
    /\ process = "up"
    /\ disk
    /\ keeper = None
    /\ \E c \in Checks : Stale(c) /\ keeper' = c
    /\ UNCHANGED <<service, barrier, job, live, worker, check, marked, dir>>

EndRetention ==
    /\ Running
    /\ keeper # None
    /\ RemoveWorkspace(keeper)
    /\ keeper' = None
    /\ UNCHANGED <<process, disk, paused, work, barrier, job, live, worker, marked>>

(***************************************************************************)
(* The process and the store                                               *)
(***************************************************************************)

\* Shutdown: the service's context ends, and with it the worker's.
Shutdown ==
    /\ process = "up"
    /\ Fault
    /\ process' = "stopping"
    /\ live' = FALSE
    /\ UNCHANGED <<disk, paused, work, barrier, job, worker, check, marked, dir,
                   keeper>>

\* The process ends: after Shutdown has waited for every worker, or at any
\* moment by a fault.
Ends ==
    /\ Running
    /\ IF process = "stopping" /\ job = None /\ keeper = None
         THEN UNCHANGED faults ELSE Fault
    /\ process' = "down"
    /\ job' = None
    /\ live' = TRUE
    /\ worker' = NoWorker
    /\ keeper' = None
    /\ work' = FALSE
    /\ barrier' = FALSE
    /\ UNCHANGED <<disk, paused, check, marked, dir>>

\* Recover settles the checks of the previous process before anything starts;
\* when the store refuses, the process does not start.
Restart ==
    /\ process = "down"
    /\ disk
    /\ process' = "up"
    /\ RecoverBaselines
    /\ UNCHANGED <<disk, faults, paused, work, barrier, job, live, worker,
                   marked, dir, keeper>>

DiskFails ==
    /\ disk
    /\ Fault
    /\ disk' = FALSE
    /\ UNCHANGED <<process, paused, work, barrier, job, live, worker, check,
                   marked, dir, keeper>>

DiskReturns ==
    /\ ~disk
    /\ disk' = TRUE
    /\ UNCHANGED <<process, faults, paused, work, barrier, job, live, worker,
                   check, marked, dir, keeper>>

WorkerStep ==
    \/ Load \/ Clone \/ RunCommand \/ CommandLost \/ CommandsDone
    \/ SaveResult \/ WorkerRemoves \/ WorkerExits

Next ==
    \/ \E c \in Checks : StartBaseline(c) \/ CancelBaseline(c)
    \/ SetPaused \/ StartWork \/ WorkEnds
    \/ WorkerStep
    \/ Tick \/ StartRetention \/ EndRetention
    \/ Shutdown \/ Ends \/ Restart \/ DiskFails \/ DiskReturns

Spec == Init /\ [][Next]_vars

\* A worker's steps have deadlines, the scheduler ticks and housekeeping runs
\* on timers, Shutdown ends once the workers have, the service manager restarts
\* the process, and store outages end.  Housekeeping walks the stale checks
\* with a cursor, so none of them is passed over for ever.
FairSpec ==
    /\ Spec
    /\ WF_vars(WorkerStep)
    /\ WF_vars(Tick)
    /\ \A c \in Checks : SF_vars(StartRetention /\ keeper' = c)
    /\ WF_vars(EndRetention)
    /\ WF_vars(process = "stopping" /\ Ends)
    /\ WF_vars(Restart)
    /\ WF_vars(DiskReturns)

(***************************************************************************)
(* Properties                                                              *)
(***************************************************************************)

\* A check is saved as passed only when every command has a result and all of
\* them succeeded (executeBaseline), and the operator had not cancelled it.
PassedIsEarned ==
    \A c \in Checks :
       check[c].status = "passed" =>
          check[c].done = NumCommands /\ check[c].good /\ c \notin marked

\* A check the operator cancelled never ends with a verdict on the commands,
\* whichever of the worker, its exit, the cancel itself or a later recovery
\* settles it (CancelBaseline, baselineWorker, abandonBaseline).
CancelWins ==
    \A c \in marked : check[c].status \in {"running", "cancelled", "interrupted"}

\* At most one check is saved as running, and it has a worker, or admissions
\* wait behind the recovery barrier, or the process is down or stopping and
\* Recover comes first (baselineWorker's exit, recoverBaselines).
RunningIsOwned ==
    \A c \in Checks :
       check[c].status = "running" =>
          /\ job = c \/ barrier \/ process = "down"
          /\ \A d \in Checks : check[d].status = "running" => d = c

\* A check owns the whole service while it has a worker (tick: "A running
\* baseline check owns the whole service").
BaselineIsAlone == job # None => ~work /\ paused

\* A clone recorded as removed is gone for good: neither a worker's late write
\* nor a second cleanup brings it back (removeBaselineWorkspace, retention).
RemovedIsGone == \A c \in Checks : check[c].removed => c \notin dir

\* The status of a finished check is final (docs/architecture.md:
\* "Cancellation, timeouts and restarts are terminal"): no write of a worker,
\* of recovery or of housekeeping replaces it.
FinishedIsFinal ==
    [][\A c \in Checks :
          check[c].status \in Terminal => check'[c].status = check[c].status]_vars

\* Every check ends, through outages, refused writes, stops and deaths.
CheckEnds ==
    \A c \in Checks : check[c].status = "running" ~> check[c].status \in Terminal

\* Every check's clone is removed in the end and recorded as removed ("failed
\* clone cleanups are retried by housekeeping").
CloneGoes ==
    \A c \in Checks : check[c].status = "running" ~> c \notin dir /\ check[c].removed

\* What is saved of a check is true: passed was earned by every command, a
\* marked check is not passed, a running one has a worker or recovery to come,
\* its worker is alone in the service, and a clone recorded as removed is gone.
CheckIsTrue ==
    /\ TypeOK
    /\ PassedIsEarned
    /\ CancelWins
    /\ RunningIsOwned
    /\ BaselineIsAlone
    /\ RemovedIsGone

\* Every check ends and its clone goes.
ChecksEnd == CheckEnds /\ CloneGoes

=============================================================================
