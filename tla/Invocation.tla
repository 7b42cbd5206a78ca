----------------------------- MODULE Invocation ------------------------------
(* One piece of model work (invoke in src/internal/engine/invocation.go) on *)
(* a session manager of its own (Runners in src/internal/runner/runner.go): *)
(* check the route, take an admission, start or resume a session, record    *)
(* it, run the turn, release the runner, judge the answer, record the end.  *)
(* The invocation composes the two adapters and the session budget, which   *)
(* rivals in other repositories draw on at the same time.                   *)
EXTENDS Codex, OpenCode, SessionBudget

CONSTANTS Own,          \* the repository this invocation works for
          MaxAttempts   \* bound: times the work is taken up

VARIABLES
    kind,        \* "executor" keeps its session in a slot, "reviewer" starts
                 \* afresh and judges, "planner" has no task at all
    pc,          \* where the invocation stands
    mem, db,     \* the task: its session slot and records, held and stored
    catalog,     \* the manager knows the backend's models
    evidence,    \* sandbox records the manager holds: whose they are
    attributed,  \* sandbox records kept with the session
    outcome,     \* what the start or the turn returned
    credit,      \* admissions taken minus sessions started
    answered,    \* sessions whose answer the engine took
    attempts,
    rivalry      \* rivals act beside this invocation

adapter == <<backend, call, ret, step, child, loose, pipe, turn, sessions, cancelled>>
manager == <<catalog, evidence, attributed>>
records == <<mem, db>>
work == <<kind, attempts, rivalry>>
vars == <<adapter, faults, manager, records, work, pc, outcome, credit, answered, budget>>

Threads == 1 .. MaxThreads
NoTask == [slot |-> 0, rec |-> [t \in Threads |-> "none"]]

\* The manager's next call, with everything else of the adapter as it is.
Call(op) ==
    /\ Ask(op)
    /\ UNCHANGED <<backend, child, loose, sessions, cancelled>>

\* Runners.release: the manager keeps what the sandbox recorded.
Release(whose) == Call("close") /\ evidence' = evidence \cup {whose}

Returned(op) == call = op /\ ret # "none"
Idle == call = "none"

\* checkpointTask: the task is stored unless the store refuses, the worker was
\* cancelled, or the marker is set; the caller keeps what it holds.
Checkpoint(to, next) ==
    /\ mem' = to
    /\ \/ ~cancelled /\ db' = to /\ next /\ UNCHANGED faults
       \/ cancelled /\ pc' = "end" /\ UNCHANGED <<db, faults>>
       \/ ~cancelled /\ Fault /\ pc' = "end" /\ UNCHANGED db

-----------------------------------------------------------------------------
\* A worker or a planning role takes the work up with a new manager.
Attempt ==
    /\ pc = "idle" /\ attempts < MaxAttempts
    /\ db.slot # 0 => db.rec[db.slot] # "done"
    /\ attempts' = attempts + 1
    /\ mem' = db /\ credit' = 0 /\ outcome' = "none"
    /\ catalog' = FALSE /\ evidence' = {} /\ attributed' = {}
    /\ loose' = FALSE /\ cancelled' = FALSE /\ thread' = db.slot
    /\ pc' = IF kind = "planner" THEN "admit" ELSE "routes"
    /\ UNCHANGED <<backend, call, ret, step, child, pipe, turn, threads, rollout, faults, db, kind,
                   rivalry, answered, budget>>

\* Runners.ValidateRoutes and App.validateRoutes: connect, diagnose, list the
\* models, release again, and forget the sandbox record: it is no session's.
Routes ==
    /\ pc = "routes"
    /\ \/ Idle /\ Call("connect") /\ UNCHANGED <<manager, pc>>
       \/ Returned("connect") /\ ret = "ok" /\ Call("diagnose") /\ UNCHANGED <<manager, pc>>
       \/ Returned("diagnose") /\ ret = "ok" /\ Call("models") /\ UNCHANGED <<manager, pc>>
       \/ /\ Returned("models") /\ ret = "ok" /\ catalog' = TRUE /\ Release("routes")
          /\ UNCHANGED <<attributed, pc>>
       \/ /\ Returned("connect") /\ ret = "error" /\ Call("none") /\ pc' = "end"
          /\ UNCHANGED manager
       \/ /\ Returned("diagnose") \/ Returned("models")
          /\ ret = "error" /\ Release("routes") /\ UNCHANGED <<catalog, attributed, pc>>
       \/ /\ Returned("close") /\ Call("none")
          /\ evidence' = {} /\ UNCHANGED <<catalog, attributed>>
          /\ pc' = IF catalog /\ ret = "ok" THEN "admit" ELSE "end"
    /\ UNCHANGED <<faults, records, work, outcome, credit, answered, budget>>

\* admit: the storage is measured, then one transaction takes the admission.
\* Storage that is full or cannot be measured refuses it.
Admit ==
    /\ pc = "admit"
    /\ \/ /\ ~cancelled /\ ReserveSession(Own, kind = "planner")
          /\ credit' = credit + 1 /\ pc' = "start" /\ UNCHANGED faults
       \/ /\ cancelled \/ ~CanReserve(Own, kind = "planner")
          /\ pc' = "end" /\ UNCHANGED <<credit, budget, faults>>
       \/ Fault /\ pc' = "end" /\ UNCHANGED <<credit, budget>>
    /\ UNCHANGED <<adapter, manager, records, work, outcome, answered>>

\* Runners.Start: the client is connected again, the catalog checked once.
Start ==
    /\ pc = "start"
    /\ \/ Idle /\ Call("connect") /\ UNCHANGED <<catalog, evidence, pc, outcome, credit>>
       \/ /\ Returned("connect") /\ ret = "ok" /\ ~catalog /\ Call("models")
          /\ UNCHANGED <<catalog, evidence, pc, outcome, credit>>
       \/ /\ \/ Returned("connect") /\ ret = "ok" /\ catalog
             \/ Returned("models") /\ ret = "ok"
          /\ catalog' = TRUE /\ credit' = credit - 1 /\ Call("start") /\ UNCHANGED <<evidence, pc, outcome>>
       \/ /\ Returned("start") /\ ret = "ok" /\ Call("none") /\ pc' = "record"
          /\ UNCHANGED <<catalog, evidence, outcome, credit>>
       \/ /\ Returned("connect") /\ ret = "error" /\ Call("none")
          /\ outcome' = ret /\ pc' = "end" /\ UNCHANGED <<catalog, evidence, credit>>
       \/ /\ Returned("models") \/ Returned("start")
          /\ ret # "ok" /\ outcome' = ret /\ Release("session") /\ pc' = "unstarted"
          /\ UNCHANGED <<catalog, credit>>
    /\ UNCHANGED <<attributed, faults, records, work, answered, budget>>

\* startInvocation after a failed start: only a Codex thread that was never
\* started and is missing is dropped, and its replacement is admitted anew.
Replaceable ==
    /\ outcome = "missing" /\ backend = "codex" /\ kind = "executor" /\ mem.slot # 0
    /\ mem.rec[mem.slot] = "new" /\ ret = "ok" /\ ~cancelled

Replace ==
    /\ pc = "unstarted" /\ Returned("close")
    /\ attributed' = attributed \cup evidence /\ evidence' = {} /\ UNCHANGED catalog
    /\ IF Replaceable
       THEN /\ Checkpoint([slot |-> 0, rec |-> [mem.rec EXCEPT ![mem.slot] = "dropped"]], pc' = "admit")
            /\ thread' = 0
       ELSE pc' = "end" /\ UNCHANGED <<records, thread, faults>>
    /\ Ask("none") /\ UNCHANGED <<backend, child, loose, threads, rollout, cancelled>>
    /\ UNCHANGED <<work, outcome, credit, answered, budget>>

\* The session is recorded before its turn: a new one as not yet started, a
\* resumed one as started, for the runner did keep it.
Recorded ==
    IF mem.rec[thread] = "none"
    THEN [slot |-> IF kind = "executor" THEN thread ELSE 0, rec |-> [mem.rec EXCEPT ![thread] = "new"]]
    ELSE [mem EXCEPT !.rec[thread] = "begun"]

Record ==
    /\ pc = "record"
    /\ IF kind = "planner" THEN pc' = "turn" /\ UNCHANGED <<records, faults>>
       ELSE Checkpoint(Recorded, pc' = "turn")
    /\ UNCHANGED <<adapter, manager, work, outcome, credit, answered, budget>>

BeginTurn ==
    /\ pc = "turn" /\ Idle /\ Call("turn")
    /\ UNCHANGED <<faults, manager, records, work, pc, outcome, credit, answered, budget>>

\* The started callback: FirstTurnStarted is stored before the turn is awaited.
AfterStarted == IF backend = "codex" THEN "await" ELSE "subscribe"

Started ==
    /\ InProgress("turn") /\ step = "started"
    /\ \/ /\ kind = "planner" \/ mem.rec[thread] # "new"
          /\ step' = AfterStarted /\ saved' = TRUE /\ UNCHANGED <<records, ret, faults>>
       \/ /\ kind # "planner" /\ mem.rec[thread] = "new"
          /\ mem' = [mem EXCEPT !.rec[thread] = "begun"]
          /\ \/ ~cancelled /\ db' = mem' /\ step' = AfterStarted /\ saved' = TRUE /\ UNCHANGED <<ret, faults>>
             \/ /\ IF cancelled THEN UNCHANGED faults ELSE Fault
                /\ Finish("error") /\ UNCHANGED <<db, saved>>
    /\ UNCHANGED <<backend, call, child, loose, pipe, runtime, sessions, cancelled, manager, work,
                   pc, outcome, credit, answered, budget>>

\* Nothing a runner started outlives its turn: the client is released first.
EndTurn ==
    /\ pc = "turn" /\ Returned("turn")
    /\ outcome' = ret /\ Release("session") /\ pc' = "settle"
    /\ UNCHANGED <<faults, catalog, attributed, records, work, credit, answered, budget>>

\* Fault: the turn's answer is taken whatever became of the release.
Settle_IgnoresClose ==
    /\ pc = "settle" /\ Returned("close")
    /\ attributed' = attributed \cup evidence /\ evidence' = {}
    /\ IF outcome = "answer"
       THEN /\ answered' = answered \cup {thread}
            /\ pc' = IF kind = "executor" THEN "complete" ELSE "judge"
       ELSE pc' = "end" /\ UNCHANGED answered
    /\ Call("none")
    /\ UNCHANGED <<catalog, faults, records, work, outcome, credit, budget>>

Settle ==
    /\ pc = "settle" /\ Returned("close")
    /\ attributed' = attributed \cup evidence /\ evidence' = {}
    /\ IF outcome = "answer" /\ ret = "ok"
       THEN /\ answered' = answered \cup {thread}
            /\ pc' = IF kind = "executor" THEN "complete" ELSE "judge"
       ELSE pc' = "end" /\ UNCHANGED answered
    /\ Call("none")
    /\ UNCHANGED <<catalog, faults, records, work, outcome, credit, budget>>

\* The summary is stored, then the judge reads the answer and the work tree.
Judge ==
    /\ pc = "judge"
    /\ \/ /\ \E good \in BOOLEAN :
                pc' = IF good /\ (kind = "planner" \/ ~cancelled) THEN "complete" ELSE "end"
          /\ UNCHANGED faults
       \/ Fault /\ pc' = "end"
    /\ UNCHANGED <<adapter, manager, records, work, outcome, credit, answered, budget>>

Complete ==
    /\ pc = "complete"
    /\ IF kind = "planner" THEN pc' = "end" /\ UNCHANGED <<records, faults>>
       ELSE Checkpoint([mem EXCEPT !.rec[thread] = "done"], pc' = "end")
    /\ UNCHANGED <<adapter, manager, work, outcome, credit, answered, budget>>

\* The worker closes its manager and stores the task as it left it.
End ==
    /\ pc = "end"
    /\ \/ Idle /\ child # "none" /\ Call("close") /\ UNCHANGED <<pc, db, faults>>
       \/ Returned("close") /\ Call("none") /\ UNCHANGED <<pc, db, faults>>
       \/ /\ Idle /\ child = "none" /\ pc' = "idle" /\ UNCHANGED adapter
          /\ \/ db' = mem /\ UNCHANGED faults
             \/ Fault /\ UNCHANGED db
    /\ UNCHANGED <<manager, mem, work, outcome, credit, answered, budget>>

\* The service dies: the broker ends the sandboxes whose streams it held.
Crash ==
    /\ pc # "idle" /\ Fault /\ pc' = "idle"
    /\ Ask("none") /\ child' = "none" /\ loose' = FALSE /\ cancelled' = FALSE
    /\ UNCHANGED <<backend, sessions, manager, records, work, outcome, credit, answered, budget>>

\* The adapter, its child, and the manager's context.
AdapterStep ==
    /\ \/ Respond \/ Exit \/ Join \/ GiveUp
       \/ ConnectCodex \/ CodexDiagnose \/ CodexModels \/ CodexStart \/ CodexTurn \/ CloseCodex
       \/ CodexWorks \/ CodexRpc \/ CodexAwait
       \/ ConnectOpenCode \/ OpenCodeModels \/ OpenCodeStart \/ CloseOpenCode
       \/ OpenCodeWorks \/ OpenCodeCall \/ OpenCodeDiagnose \/ OpenCodeTurn \/ OpenCodeSubscribe
       \/ OpenCodeEvent \/ OpenCodePosted
       \/ Forget
       \/ pc # "idle" /\ Cancel
    /\ UNCHANGED <<backend, manager, records, work, pc, outcome, credit, answered, budget>>

\* Other work of the instance draws on the same budget: tasks and planning
\* cycles of every repository, this one's included, and the day turns.
Rivals ==
    /\ rivalry
    /\ \/ \E r \in Repos : BeginCycle(r) \/ EndCycle(r) \/ ReserveSession(r, FALSE)
       \/ \E r \in running : ReserveSession(r, TRUE)
       \/ NewDay
    /\ kind = "planner" => Own \in running'
    /\ UNCHANGED <<adapter, faults, manager, records, work, pc, outcome, credit, answered>>

InvocationStep ==
    \/ Attempt \/ Routes \/ Admit \/ Start \/ Replace \/ Record \/ BeginTurn \/ Started
    \/ EndTurn \/ Settle \/ Judge \/ Complete \/ End

Next == InvocationStep \/ AdapterStep \/ Crash \/ Rivals

InitWith(spent, earlier) ==
    /\ backend \in {"codex", "opencode"} /\ kind \in {"executor", "reviewer", "planner"}
    /\ call = "none" /\ ret = "none" /\ step = "none" /\ child = "none" /\ loose = FALSE
    /\ asked = FALSE /\ inbox = <<>> /\ pending = <<>> /\ notes = 0 /\ post = "none"
    /\ heard = "none" /\ saved = FALSE /\ runtime = "idle"
    /\ thread = 0 /\ threads = 0 /\ rollout = {} /\ cancelled = FALSE /\ faults = spent
    /\ pc = "idle" /\ mem = NoTask /\ db = NoTask
    /\ catalog = FALSE /\ evidence = {} /\ attributed = {} /\ outcome = "none" /\ credit = 0
    /\ answered = {} /\ attempts = earlier /\ rivalry \in BOOLEAN
    /\ used = [r \in Repos |-> 0]
    /\ running = IF kind = "planner" THEN {Own} ELSE {}
    /\ committed = [r \in Repos |-> IF r \in running THEN PlanningCost ELSE 0]

Init == InitWith(0, 0)

\* Fairness: the service's goroutines run, deadlines pass, a killed child is
\* reaped.  Nothing is assumed of the runtime.
Fairness ==
    /\ WF_vars(InvocationStep /\ pc # "idle")
    /\ WF_vars(AdapterStep /\ step = "closing")
    /\ WF_vars(AdapterStep /\ (ret' # ret \/ step' # step))

Spec == Init /\ [][Next]_vars /\ Fairness

-----------------------------------------------------------------------------
TypeOK ==
    /\ pc \in {"idle", "routes", "admit", "start", "unstarted", "record", "turn", "settle", "judge",
               "complete", "end"}
    /\ call \in {"none", "connect", "diagnose", "models", "start", "turn", "close"}
    /\ ret \in {"none", "ok", "missing", "error", "answer", "failed", "unsettled"}
    /\ step \in {"none", "ask", "started", "subscribe", "await", "closing"}
    /\ child \in {"none", "up", "exited", "crashed"}
    /\ \A t \in {mem, db} :
          /\ t.slot \in 0 .. MaxThreads
          /\ \A i \in Threads : t.rec[i] \in {"none", "new", "begun", "done", "dropped"}
    /\ Len(pending) <= MaxBacklog

\* Nothing a runner started may outlive its turn (turn in invocation.go): when
\* the answer is judged or accepted, the manager has no child, and none whose
\* end it could not confirm.
JudgedAlone == pc \in {"judge", "complete"} => child = "none" /\ ~loose

\* While a task's turn is awaited the store knows that it began, so that no
\* later attempt takes the session for one that never started.
TurnIsStored ==
    InProgress("turn") /\ step \in {"await", "subscribe"} /\ kind # "planner" =>
        db.rec[thread] \in {"begun", "done"}

\* An executor's session whose answer was taken stays the task's session, in
\* memory and in the store, over crashes, refused saves and lost rollouts:
\* startInvocation replaces only a session that never started.
AnsweredIsKept ==
    kind = "executor" => \A t \in answered : mem.slot = t /\ db.slot = t

\* The sandbox record of a route check belongs to no session (validateRoutes).
EvidenceIsOwn == "routes" \notin attributed

\* Every start of a session has an admission of its own, the replacement of a
\* missing session included (startInvocation).
StartsAreAdmitted == credit \in {0, 1}

\* However admissions, beginning cycles and the turn of the day interleave, no
\* limit is passed, and what a planning cycle still holds is there for it: its
\* next session is not refused for the instance ceiling (ReserveSession).
BudgetHolds ==
    /\ \A r \in Repos : used[r] <= Limit
    /\ Total + Committed(Repos) <= Ceiling
    /\ \A r \in Repos : committed[r] > 0 => Committed(Repos \ {r}) < Ceiling - Total

SessionIsTrue ==
    /\ TypeOK /\ JudgedAlone /\ TurnIsStored /\ AnsweredIsKept /\ EvidenceIsOwn
    /\ StartsAreAdmitted /\ BudgetHolds

\* Both adapters, under the manager that uses them, keep the promise of an
\* adapter: a turn is answered only with this turn's own completed message,
\* after the caller stored that it began; a close without complaint leaves no
\* child.
Promise ==
    INSTANCE Adapter WITH
        child <- IF child \in {"exited", "crashed"} THEN "gone" ELSE child,
        heard <- IF heard \in {"none", "mine"} THEN heard ELSE "other"
AdapterPromise == Promise!Spec

\* Work that was taken up ends, whatever the runtime does or leaves undone:
\* every wait of an adapter has a deadline.
InvocationEnds == pc # "idle" ~> pc = "idle"
=============================================================================
