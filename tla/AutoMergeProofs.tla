--------------------------- MODULE AutoMergeProofs ---------------------------
(***************************************************************************)
(* Proofs about AutoMerge, for any number of deliveries to the branch and  *)
(* any number of faults and of moves by other people.                      *)
(***************************************************************************)
EXTENDS AutoMerge, TLAPS

Tasks == [status: TaskStates, archived: BOOLEAN]
Prechecks == [expected: Record, settlement: Settlement]
States == {"open", "closed", "merged"}
Requests == [attempt: Nat, head: Deliveries]

\* The types, without the bound on the number of attempts.
Typed ==
    /\ pr \in Remote /\ rec \in Record
    /\ task \in [Deliveries -> Tasks]
    /\ snapshot \in [Deliveries -> Record \cup {None}]
    /\ mode \in {"paused", "continuous", "once"} /\ batch \in SUBSET Deliveries
    /\ policy \in {"allows", "tightened", "standard"}
    /\ worker \in Worker
    /\ unsettled \in BOOLEAN /\ foreign \in BOOLEAN
    /\ precheck \in Prechecks \cup {None} /\ recovering \in Prechecks \cup {None}
    /\ refresh \in PullRequest \cup {None}
    /\ wire \in SUBSET Requests
    /\ attempts \in Nat /\ faults \in 0 .. MaxFaults /\ moves \in 0 .. MaxMoves

\* The saved record is the one of the last delivery: the published deliveries
\* are the ones up to it, at most the next one is planned, and only a finished
\* task is archived.
LastDelivery ==
    /\ \A d \in Deliveries : task[d].status # "absent" => d <= rec.task + 1
    /\ \A d \in Deliveries : task[d].status = "published" <=> d <= rec.task
    /\ \A d \in Deliveries : task[d].archived => task[d].status \in {"published", "cancelled"}

\* What the worker holds of the record: an intent it has read stays the saved
\* one until the worker settles it, and without one the saved record has none.
Holding == worker.pc \in {"loaded", "check", "reconcile", "attempt", "sent", "settle"}
WorkerHolds ==
    Holding =>
        IF InFlight(worker.obs.status)
        THEN /\ InFlight(rec.status)
             /\ worker.obs.task = rec.task /\ worker.obs.attempt = rec.attempt
        ELSE ~InFlight(rec.status) /\ worker.obs.task <= rec.task

\* What each step of the worker knows of its observation.
WorkerKnows ==
    /\ Holding => worker.obs.status \notin {"merged", "closed"} /\ worker.obs.source # "confirmed"
    /\ worker.pc \in {"check", "attempt"} => ~InFlight(worker.obs.status)
    /\ worker.pc = "attempt" => ~\E d \in Deliveries : task[d].status \in AtWork
    /\ worker.pc = "settle" =>
          /\ worker.settlement.source = "confirmed" \/ worker.settlement.status \in {"merging", "uncertain"}
                => InFlight(worker.obs.status)
          /\ worker.settlement.source # None => worker.settlement.status \in {"merged", "closed"}
          /\ worker.settlement.source = "confirmed" => worker.settlement.status = "merged"

\* A refused settlement that recovery retries is not that of an intent, and no
\* intent is saved while one waits.
RetriesHold ==
    /\ precheck # None \/ recovering # None => ~InFlight(rec.status)
    /\ recovering # None => worker.pc # "sent"
    /\ \A c \in {precheck, recovering} \ {None} :
          /\ c.settlement.status \notin {"merging", "uncertain"}
          /\ c.settlement.source # None => c.settlement.status \in {"merged", "closed"}
          /\ c.settlement.source = "confirmed" => c.settlement.status = "merged"

\* Every merge request names the delivery of its attempt.
RequestsAreOwn ==
    /\ \A q \in wire : q.attempt <= attempts
    /\ worker.pc = "sent" =>
          /\ worker.obs.attempt <= attempts
          /\ \A q \in wire : q.attempt = worker.obs.attempt => q.head = worker.obs.task

\* A merge of delivery d that is claimed happened.
MergedAt(d, source) ==
    /\ pr.state = "merged" /\ Bound(pr, d)
    /\ source = "confirmed" => pr.by = "octomus"
ReadsAreTrue ==
    /\ refresh # None => (refresh.state = "merged" => refresh = SamePR(pr))
    /\ worker.pc = "sent" /\ worker.reply = "merged" => MergedAt(worker.obs.task, "confirmed")
    /\ worker.pc = "settle" /\ worker.settlement.status = "merged" =>
          MergedAt(worker.obs.task, worker.settlement.source)
    /\ \A c \in {precheck, recovering} \ {None} :
          c.settlement.status = "merged" => MergedAt(c.expected.task, c.settlement.source)
SourceIsOutcome == rec.source = "confirmed" => rec.status = "merged"

IInv ==
    /\ Typed /\ LastDelivery /\ WorkerHolds /\ WorkerKnows /\ RetriesHold /\ RequestsAreOwn
    /\ InFlightIsAuthorized /\ BarrierHasIntent /\ ReadsAreTrue /\ SourceIsOutcome
    /\ OutcomeIsTrue
-----------------------------------------------------------------------------
\* PassEnds and Restart leave the worker idle.
LEMMA Ended == NoWorker \in Worker /\ NoWorker.pc = "idle"
<1>1. NoRecord \in Record /\ NoSettlement \in Settlement
  BY BoundsAssumption DEF NoRecord, Record, Deliveries, Statuses, Sources, NoSettlement, Settlement
<1> QED BY <1>1 DEF NoWorker, Worker

\* A decision is about the observation the worker has.
LEMMA DecideEffect ==
    ASSUME worker \in Worker, NEW status \in Statuses, NEW source \in Sources,
           NEW revoke \in BOOLEAN, Decide(status, source, revoke)
    PROVE  /\ worker' \in Worker /\ worker'.pc = "settle" /\ worker'.obs = worker.obs
           /\ worker'.settlement.status = status /\ worker'.settlement.source = source
           /\ worker'.settlement.revoke = revoke
<1> DEFINE s == [status |-> status, source |-> source, revoke |-> revoke]
<1>1. s \in Settlement /\ s.status = status /\ s.source = source /\ s.revoke = revoke
  BY DEF Settlement
<1>2. worker.obs \in Record
  BY DEF Worker
<1>3. PICK u : u = s
  BY Zenon
<1>4. worker' = [NoWorker EXCEPT !.pc = "settle", !.obs = worker.obs, !.settlement = u]
  BY <1>3 DEF Decide
<1>5. worker' \in Worker /\ worker'.pc = "settle" /\ worker'.obs = worker.obs /\ worker'.settlement = u
  BY <1>1, <1>2, <1>3, <1>4, Ended, Zenon DEF Worker
<1> QED BY <1>1, <1>3, <1>5

\* mergeCandidate goes on with the observation it has.
LEMMA GotoEffect ==
    ASSUME worker \in Worker, NEW pc \in {"check", "attempt"}, Goto(pc)
    PROVE  worker' \in Worker /\ worker'.pc = pc /\ worker'.obs = worker.obs
BY DEF Worker, Goto

\* A reconciliation is about the observation the worker has.
LEMMA ReconcileEffect ==
    ASSUME worker \in Worker, worker' = [NoWorker EXCEPT !.pc = "reconcile", !.obs = worker.obs]
    PROVE  worker' \in Worker /\ worker'.pc = "reconcile" /\ worker'.obs = worker.obs
BY Ended, Zenon DEF Worker

\* A step counts at most one fault, and only below the bound.
LEMMA FaultBounded == ASSUME Typed, Fault \/ NoFault PROVE faults' \in 0 .. MaxFaults
BY BoundsAssumption DEF Typed, Fault, NoFault

\* A step of the worker that touches nothing else, and does not send a request.
WorkerOnly ==
    /\ UNCHANGED <<pr, rec, task, snapshot, control, unsettled, precheck, recovering, refresh, wire,
                   foreign, attempts, moves>>
    /\ faults' \in 0 .. MaxFaults
    /\ worker' \in Worker /\ worker'.pc # "sent"

\* Such a step keeps the invariant when what the worker then holds is true.
LEMMA WorkerMoves ==
    ASSUME IInv, WorkerOnly, WorkerHolds', WorkerKnows',
           worker'.pc = "settle" /\ worker'.settlement.status = "merged" =>
               MergedAt(worker'.obs.task, worker'.settlement.source)
    PROVE  IInv'
<1> USE DEF WorkerOnly, control
<1>1. Typed'
  BY DEF IInv, Typed
<1>2. LastDelivery' /\ BarrierHasIntent' /\ SourceIsOutcome'
  BY DEF IInv, LastDelivery, BarrierHasIntent, SourceIsOutcome
<1>3. RetriesHold'
  BY DEF IInv, RetriesHold
<1>4. RequestsAreOwn' /\ InFlightIsAuthorized'
  BY DEF IInv, RequestsAreOwn, InFlightIsAuthorized
<1>5. OutcomeIsTrue'
  BY DEF IInv, OutcomeIsTrue, Bound
<1>6. ReadsAreTrue'
  BY DEF IInv, ReadsAreTrue, MergedAt, Bound, SamePR
<1> QED BY <1>1, <1>2, <1>3, <1>4, <1>5, <1>6 DEF IInv

\* The pass ends: the worker holds nothing.
LEMMA PassEndsHolds ==
    ASSUME IInv, PassEnds, Fault \/ NoFault,
           UNCHANGED <<pr, rec, task, snapshot, control, unsettled, precheck, recovering, refresh,
                       wire, foreign, attempts, moves>>
    PROVE  IInv'
<1>1. worker' \in Worker /\ worker'.pc = "idle"
  BY Ended DEF PassEnds
<1>2. faults' \in 0 .. MaxFaults
  BY FaultBounded DEF IInv
<1>3. WorkerHolds' /\ WorkerKnows'
  BY <1>1 DEF WorkerHolds, Holding, WorkerKnows
<1> QED BY <1>1, <1>2, <1>3, WorkerMoves DEF WorkerOnly

\* The worker decides about an observation it holds.
LEMMA DecideHolds ==
    ASSUME IInv, Holding, NEW status \in Statuses, NEW source \in Sources, NEW revoke \in BOOLEAN,
           Decide(status, source, revoke), Fault \/ NoFault,
           UNCHANGED <<pr, rec, task, snapshot, control, unsettled, precheck, recovering, refresh,
                       wire, foreign, attempts, moves>>,
           source = "confirmed" \/ status \in {"merging", "uncertain"} => InFlight(worker.obs.status),
           source # None => status \in {"merged", "closed"},
           source = "confirmed" => status = "merged",
           status = "merged" => MergedAt(worker.obs.task, source)
    PROVE  IInv'
<1>1. worker \in Worker
  BY DEF IInv, Typed
<1>2. /\ worker' \in Worker /\ worker'.pc = "settle" /\ worker'.obs = worker.obs
      /\ worker'.settlement.status = status /\ worker'.settlement.source = source
  BY <1>1, DecideEffect
<1>3. faults' \in 0 .. MaxFaults
  BY FaultBounded DEF IInv
<1>4. WorkerHolds'
  BY <1>2 DEF IInv, WorkerHolds, Holding
<1>5. WorkerKnows'
  BY <1>2 DEF IInv, WorkerKnows, Holding
<1> QED BY <1>2, <1>3, <1>4, <1>5, WorkerMoves DEF WorkerOnly

\* The worker turns to reconciling the observation it holds.
LEMMA ReconcileHolds ==
    ASSUME IInv, Holding, worker' = [NoWorker EXCEPT !.pc = "reconcile", !.obs = worker.obs], NoFault,
           UNCHANGED <<pr, rec, task, snapshot, control, unsettled, precheck, recovering, refresh,
                       wire, foreign, attempts, moves>>
    PROVE  IInv'
<1>1. worker' \in Worker /\ worker'.pc = "reconcile" /\ worker'.obs = worker.obs
  BY ReconcileEffect DEF IInv, Typed
<1>2. faults' \in 0 .. MaxFaults
  BY FaultBounded DEF IInv
<1>3. WorkerHolds' /\ WorkerKnows'
  BY <1>1, Zenon DEF IInv, WorkerHolds, Holding, WorkerKnows
<1> QED BY <1>1, <1>2, <1>3, WorkerMoves DEF WorkerOnly

\* The worker goes on with an observation that is no intent, to the attempt
\* only when no other delivery is at work on the branch.
LEMMA GotoHolds ==
    ASSUME IInv, Holding, NEW pc \in {"check", "attempt"}, Goto(pc), NoFault,
           UNCHANGED <<pr, rec, task, snapshot, control, unsettled, precheck, recovering, refresh,
                       wire, foreign, attempts, moves>>,
           ~InFlight(worker.obs.status),
           pc = "attempt" => ~UnfinishedBranchWork(worker.obs.task)
    PROVE  IInv'
<1>1. worker' \in Worker /\ worker'.pc = pc /\ worker'.obs = worker.obs
  BY GotoEffect DEF IInv, Typed
<1>2. faults' \in 0 .. MaxFaults
  BY FaultBounded DEF IInv
<1>3. WorkerHolds'
  BY <1>1 DEF IInv, WorkerHolds, Holding
<1>4. worker.obs.task \in Deliveries /\ worker.obs.task <= rec.task
  BY DEF IInv, Typed, Worker, Record, WorkerHolds
<1>5. ASSUME pc = "attempt" PROVE ~\E d \in Deliveries : task[d].status \in AtWork
  <2> SUFFICES ASSUME NEW d \in Deliveries, task[d].status \in AtWork PROVE FALSE
    OBVIOUS
  <2>1. d # worker.obs.task
    BY <1>4 DEF AtWork, IInv, LastDelivery
  <2>2. ~task[d].archived
    BY DEF AtWork, IInv, LastDelivery
  <2> QED BY <1>5, <2>1, <2>2 DEF UnfinishedBranchWork, AtWork
<1>6. WorkerKnows'
  BY <1>1, <1>5 DEF IInv, WorkerKnows, Holding
<1> QED BY <1>1, <1>2, <1>3, <1>6, WorkerMoves DEF WorkerOnly

\* checkMerges and mergePass: the pass starts and reads the candidate.
LEMMA PassBeginsHolds ==
    ASSUME IInv, StartPass \/ LoadCandidate
    PROVE  IInv'
<1>0. worker \in Worker /\ rec \in Record /\ task[rec.task].archived \in BOOLEAN
  BY Zenon DEF IInv, Typed, Record, Tasks
<1>1. CASE StartPass
  <2>1. worker' \in Worker /\ worker'.pc = "pass"
    BY <1>0, <1>1, Zenon DEF StartPass, IInv, Typed, Worker
  <2>2. WorkerHolds' /\ WorkerKnows'
    BY <2>1 DEF WorkerHolds, Holding, WorkerKnows
  <2> QED BY <1>1, <2>1, <2>2, WorkerMoves DEF StartPass, WorkerOnly, counters, IInv, Typed
<1>2. CASE LoadCandidate /\ ~IsCandidate(rec)
  BY <1>2, PassEndsHolds, Zenon DEF LoadCandidate, PassEnds, NoFault, counters
<1>3. CASE LoadCandidate /\ IsCandidate(rec)
  <2>1. worker' \in Worker /\ worker'.pc = "loaded" /\ worker'.obs = rec
    BY <1>0, <1>3, Zenon DEF LoadCandidate, Worker
  <2>2. WorkerHolds' /\ WorkerKnows'
    BY <1>0, <1>3, <2>1 DEF LoadCandidate, IsCandidate, Pending, IInv, SourceIsOutcome, WorkerHolds, Holding, WorkerKnows,
                            Record, Deliveries
  <2> QED BY <1>3, <2>1, <2>2, WorkerMoves DEF LoadCandidate, WorkerOnly, counters, IInv, Typed
<1> QED BY <1>1, <1>2, <1>3

\* mergeCandidate up to its precheck.
LEMMA ClaimBranchHolds ==
    ASSUME IInv, ClaimBranch
    PROVE  IInv'
<1>1. /\ Holding
      /\ NoFault /\ (Fault \/ NoFault)
      /\ UNCHANGED <<pr, rec, task, snapshot, control, unsettled, precheck, recovering, refresh, wire,
                     foreign, attempts, moves>>
  BY DEF ClaimBranch, Holding, NoFault, counters
<1>2. \/ worker' = [NoWorker EXCEPT !.pc = "reconcile", !.obs = worker.obs]
      \/ PassEnds
      \/ Decide("manual", None, TRUE)
      \/ ~InFlight(worker.obs.status) /\ Goto("check")
  BY Zenon DEF ClaimBranch
<1>3. ASSUME Decide("manual", None, TRUE) PROVE IInv'
  BY <1>1, <1>3, DecideHolds, NoneIsNoAnswer, Zenon DEF Statuses, Sources
<1>4. ASSUME ~InFlight(worker.obs.status), Goto("check") PROVE IInv'
  BY <1>1, <1>4, GotoHolds
<1> QED BY <1>1, <1>2, <1>3, <1>4, PassEndsHolds, ReconcileHolds, Zenon

\* What mergeBlocked can come to: it goes on to the attempt only with an open
\* pull request at the reviewed head and no other work on the branch.
LEMMA CheckOutcome ==
    ASSUME Check, pr.state \in {"open", "closed", "merged"},
           pr.checks \in {"pending", "ready", "failing", "rewritten"}
    PROVE  \/ /\ \/ Decide("manual", None, TRUE) \/ Decide("waiting", None, FALSE)
                 \/ Decide("manual", None, FALSE)
              /\ Fault \/ NoFault
           \/ NoFault /\ worker' = [NoWorker EXCEPT !.pc = "reconcile", !.obs = worker.obs]
           \/ /\ NoFault /\ ~UnfinishedBranchWork(worker.obs.task) /\ Goto("attempt")
              /\ pr.state = "open" /\ Bound(pr, worker.obs.task)
<1> DEFINE d == worker.obs.task
<1>1. CASE NoFault /\ ~UnfinishedBranchWork(d) /\
           (CASE pr.state # "open" -> worker' = [NoWorker EXCEPT !.pc = "reconcile", !.obs = worker.obs]
              [] pr.state = "open" /\ ~Bound(pr, d) -> Decide("manual", None, TRUE)
              [] pr.state = "open" /\ Bound(pr, d) ->
                   CASE pr.checks = "pending" -> Decide("waiting", None, FALSE)
                     [] pr.checks = "failing" -> Decide("manual", None, FALSE)
                     [] pr.checks = "rewritten" -> Decide("manual", None, TRUE)
                     [] pr.checks = "ready" -> Goto("attempt"))
  <2>1. CASE pr.state # "open"
    BY <1>1, <2>1, Zenon
  <2>2. CASE pr.state = "open" /\ ~Bound(pr, d)
    BY <1>1, <2>2, Zenon
  <2>3. CASE pr.state = "open" /\ Bound(pr, d)
    <3>1. CASE pr.checks = "pending"
      BY <1>1, <2>3, <3>1, Zenon
    <3>2. CASE pr.checks = "failing"
      BY <1>1, <2>3, <3>2, Zenon
    <3>3. CASE pr.checks = "rewritten"
      BY <1>1, <2>3, <3>3, Zenon
    <3>4. CASE pr.checks = "ready"
      BY <1>1, <2>3, <3>4, Zenon
    <3> QED BY <3>1, <3>2, <3>3, <3>4, Zenon
  <2> QED BY <2>1, <2>2, <2>3, Zenon
<1> HIDE DEF d
<1>2. CASE (Decide("manual", None, TRUE) \/ Decide("waiting", None, FALSE)) /\ (Fault \/ NoFault)
  BY <1>2, Zenon
<1> QED BY <1>1, <1>2, Zenon DEF Check, d

\* The worker's precheck keeps the invariant, whatever it decides.
LEMMA CheckHolds ==
    ASSUME IInv, Check
    PROVE  IInv'
<1>1. /\ Holding /\ ~InFlight(worker.obs.status)
      /\ UNCHANGED <<pr, rec, task, snapshot, control, unsettled, precheck, recovering, refresh, wire,
                     foreign, attempts, moves>>
  BY DEF Check, Holding, IInv, WorkerKnows
<1>2. \/ /\ Decide("manual", None, TRUE) \/ Decide("waiting", None, FALSE) \/ Decide("manual", None, FALSE)
         /\ Fault \/ NoFault
      \/ NoFault /\ worker' = [NoWorker EXCEPT !.pc = "reconcile", !.obs = worker.obs]
      \/ NoFault /\ ~UnfinishedBranchWork(worker.obs.task) /\ Goto("attempt")
  BY CheckOutcome, Zenon DEF IInv, Typed, Remote
<1>3. ASSUME Fault \/ NoFault, NEW s \in {"manual", "waiting"}, NEW revoke \in BOOLEAN,
             Decide(s, None, revoke)
      PROVE  IInv'
  BY <1>1, <1>3, DecideHolds, NoneIsNoAnswer DEF Statuses, Sources
<1>4. ASSUME NoFault, ~UnfinishedBranchWork(worker.obs.task), Goto("attempt") PROVE IInv'
  BY <1>1, <1>4, GotoHolds
<1> QED BY <1>1, <1>2, <1>3, <1>4, ReconcileHolds, Zenon

\* mergeAttempt after SquashMerge returned: a merge is reported only when
\* GitHub did it.
LEMMA MergeReturnsHolds ==
    ASSUME IInv, MergeReturns
    PROVE  IInv'
<1>1. /\ worker.pc = "sent" /\ Holding /\ InFlight(worker.obs.status)
      /\ UNCHANGED <<pr, rec, task, snapshot, control, unsettled, precheck, recovering, refresh, wire,
                     foreign, attempts, moves>>
  BY DEF MergeReturns, Holding, IInv, InFlightIsAuthorized, WorkerHolds, InFlight
<1>2. CASE worker.reply = "merged" /\ Decide("merged", "confirmed", FALSE) /\ NoFault
  <2>1. MergedAt(worker.obs.task, "confirmed")
    BY <1>1, <1>2 DEF IInv, ReadsAreTrue
  <2> QED BY <1>1, <1>2, <2>1, DecideHolds, Zenon DEF Statuses, Sources
<1>3. CASE Decide("manual", None, TRUE) /\ NoFault
  BY <1>1, <1>3, DecideHolds, NoneIsNoAnswer, Zenon DEF Statuses, Sources
<1>4. CASE Decide("uncertain", None, FALSE) /\ (Fault \/ NoFault)
  BY <1>1, <1>4, DecideHolds, NoneIsNoAnswer, Zenon DEF Statuses, Sources
<1> QED BY <1>2, <1>3, <1>4, Zenon DEF MergeReturns

\* reconcileMerge decides what the remote read shows.
LEMMA ReconcileMergeHolds ==
    ASSUME IInv, ReconcileMerge
    PROVE  IInv'
<1>1. /\ Holding
      /\ UNCHANGED <<pr, rec, task, snapshot, control, unsettled, precheck, recovering, refresh, wire,
                     foreign, attempts, moves>>
  BY DEF ReconcileMerge, Holding
<1>2. worker.obs.status \in Statuses /\ pr.state \in {"open", "closed", "merged"}
  BY DEF IInv, Typed, Worker, Record, Remote
<1>3. CASE Decide(worker.obs.status, None, FALSE) /\ Fault
  <2>1. worker.obs.status # "merged"
    BY <1>1 DEF ReconcileMerge, IInv, WorkerKnows
  <2> QED BY <1>1, <1>2, <1>3, <2>1, DecideHolds, NoneIsNoAnswer, Zenon DEF Sources, InFlight
<1>4. CASE NoFault /\ (Decide("manual", None, TRUE) \/ Decide("waiting", None, FALSE))
  <2>1. ASSUME NEW s \in {"manual", "waiting"}, NEW revoke \in BOOLEAN, Decide(s, None, revoke)
        PROVE  IInv'
    BY <1>1, <1>4, <2>1, DecideHolds, NoneIsNoAnswer DEF Statuses, Sources
  <2> QED BY <1>4, <2>1, Zenon
<1>5. CASE NoFault /\ Bound(pr, worker.obs.task) /\ pr.state # "open" /\ Decide(pr.state, "observed", FALSE)
  BY <1>1, <1>2, <1>5, DecideHolds, Zenon DEF Statuses, Sources, MergedAt
<1> QED BY <1>3, <1>4, <1>5, Zenon DEF ReconcileMerge

\* The intent ClaimMerge saves, and the worker after it: with the request sent
\* or with the intent given up.
Intent(o, k, x) == [o EXCEPT !.status = "merging", !.attempt = k, !.pr = x]
Sending(i) == [NoWorker EXCEPT !.pc = "sent", !.obs = i]
GivingUp(i) == [NoWorker EXCEPT !.pc = "settle", !.obs = i,
                  !.settlement = [status |-> "manual", source |-> None, revoke |-> FALSE]]

\* The record that claimMerge saves: merging, under a new attempt number.
LEMMA IntentEffect ==
    ASSUME NEW o \in Record, NEW k \in Nat, NEW x \in States, NEW i,
           i = Intent(o, k, x)
    PROVE  /\ i \in Record /\ i.status = "merging" /\ i.attempt = k
           /\ i.task = o.task /\ i.authorized = o.authorized /\ i.source = o.source
BY Zenon DEF Record, Statuses, Intent, States

\* The three ways an attempt ends: the claim is refused, or the intent is
\* saved and the request is sent, or it is saved and not sent.
LEMMA ClaimEffect ==
    ASSUME worker.obs \in Record, rec \in Record, attempts \in Nat,
           rec' = Intent(worker.obs, attempts + 1, rec.pr)
    PROVE  /\ rec' \in Record /\ rec'.status = "merging" /\ rec'.attempt = attempts + 1
           /\ rec'.task = worker.obs.task /\ rec'.authorized = worker.obs.authorized
           /\ rec'.source = worker.obs.source
<1>1. PICK k \in Nat : k = attempts + 1
  OBVIOUS
<1>2. PICK x \in States : x = rec.pr
  BY DEF Record, States
<1>3. PICK i : i = Intent(worker.obs, k, x)
  OBVIOUS
<1>4. /\ i \in Record /\ i.status = "merging" /\ i.attempt = k
      /\ i.task = worker.obs.task /\ i.authorized = worker.obs.authorized
      /\ i.source = worker.obs.source
  BY <1>3, IntentEffect
<1>5. rec' = i
  BY <1>1, <1>2, <1>3
<1> QED BY <1>1, <1>4, <1>5

\* The worker that has sent a request waits for its answer.
LEMMA SentEffect ==
    ASSUME NEW i \in Record, NEW w, w = Sending(i)
    PROVE  w \in Worker /\ w.pc = "sent" /\ w.obs = i /\ w.reply = None
<1>1. w \in Worker /\ w.pc = "sent" /\ w.obs = i /\ w.reply = NoWorker.reply
  BY Ended, Zenon DEF Worker, Sending
<1>2. NoWorker.reply = None
  BY DEF NoWorker
<1> QED BY <1>1, <1>2

\* The worker whose request was not sent settles the intent as uncertain.
LEMMA GivenUpEffect ==
    ASSUME NEW i \in Record, NEW w, w = GivingUp(i)
    PROVE  /\ w \in Worker /\ w.pc = "settle" /\ w.obs = i
           /\ w.settlement.status = "manual" /\ w.settlement.source = None /\ ~w.settlement.revoke
<1> DEFINE s == [status |-> "manual", source |-> None, revoke |-> FALSE]
<1>1. s \in Settlement /\ s.status = "manual" /\ s.source = None /\ ~s.revoke
  BY DEF Settlement, Statuses, Sources
<1>2. PICK u : u = s
  BY Zenon
<1>3. w = [NoWorker EXCEPT !.pc = "settle", !.obs = i, !.settlement = u]
  BY <1>2 DEF GivingUp
<1>4. w \in Worker /\ w.pc = "settle" /\ w.obs = i /\ w.settlement = u
  BY <1>1, <1>2, <1>3, Ended, Zenon DEF Worker
<1> QED BY <1>1, <1>2, <1>4

\* mergeAttempt up to the mutation, once the intent is saved: it is what the
\* worker holds, and a request is sent only under the conditions that were
\* read again.
LEMMA ClaimedHolds ==
    ASSUME IInv, worker.pc = "attempt", GateFree, AttemptAuthorized(worker.obs.task),
           NEW allowManual, ClaimAccepts(worker.obs, allowManual),
           rec' = Intent(worker.obs, attempts + 1, rec.pr),
           attempts' = attempts + 1, Fault \/ NoFault,
           \/ /\ worker' = Sending(rec')
              /\ wire' = wire \cup {[attempt |-> attempts + 1, head |-> worker.obs.task]}
           \/ worker' = GivingUp(rec') /\ wire' = wire,
           UNCHANGED <<pr, task, snapshot, control, unsettled, precheck, recovering, refresh, foreign,
                       moves>>
    PROVE  IInv'
<1>0. worker \in Worker /\ rec \in Record /\ attempts \in Nat /\ worker.obs \in Record
  BY Zenon DEF IInv, Typed, Worker
<1>1. /\ rec' \in Record /\ rec'.status = "merging" /\ rec'.attempt = attempts + 1
      /\ rec'.task = worker.obs.task /\ rec'.authorized = worker.obs.authorized
      /\ rec'.source = worker.obs.source
  BY <1>0, ClaimEffect, Zenon
<1>2. /\ worker' \in Worker /\ worker'.obs = rec'
      /\ \/ worker'.pc = "sent" /\ worker'.reply = None
         \/ /\ worker'.pc = "settle" /\ wire' = wire
            /\ worker'.settlement.status = "manual" /\ worker'.settlement.source = None
  BY <1>1, SentEffect, GivenUpEffect
<1>3. faults' \in 0 .. MaxFaults /\ attempts' \in Nat
  BY <1>0, FaultBounded DEF IInv
<1>4. /\ rec.authorized /\ worker.obs.authorized /\ rec.task = worker.obs.task
      /\ precheck = None /\ recovering = None /\ ~unsettled
  BY Zenon DEF ClaimAccepts, AttemptAuthorized, RecoveryConflict, GateFree
<1>5. Typed'
  <2>1. wire' \in SUBSET Requests
    <3>1. [attempt |-> attempts + 1, head |-> worker.obs.task] \in Requests
      BY <1>0 DEF Requests, Record
    <3> QED BY <3>1, Zenon DEF IInv, Typed
  <2> QED BY <1>1, <1>2, <1>3, <2>1, Zenon DEF IInv, Typed, control
<1>6. LastDelivery'
  BY <1>1, <1>4, Zenon DEF IInv, LastDelivery
<1>7. WorkerHolds' /\ BarrierHasIntent'
  BY <1>1, <1>2, Zenon DEF WorkerHolds, InFlight, BarrierHasIntent
<1>8. WorkerKnows'
  BY <1>1, <1>2, NoneIsNoAnswer, Zenon DEF IInv, WorkerKnows, Holding, InFlight
<1>9. RetriesHold'
  BY <1>4, Zenon DEF RetriesHold
<1>10. RequestsAreOwn'
  <2>1. \A q \in wire : q.attempt \in Nat /\ q.attempt <= attempts
    BY DEF IInv, Typed, Requests, RequestsAreOwn
  <2>2. \A q \in wire' : \/ q \in wire
                         \/ q.attempt = attempts + 1 /\ q.head = worker.obs.task
    OBVIOUS
  <2> QED BY <1>0, <1>1, <1>2, <2>1, <2>2 DEF RequestsAreOwn
<1>11. InFlightIsAuthorized'
  BY <1>1, <1>2, <1>4, Zenon DEF InFlightIsAuthorized, AttemptAuthorized, UnfinishedBranchWork, control
<1>12. ReadsAreTrue'
  BY <1>2, <1>4, NoneIsNoAnswer, Zenon DEF IInv, ReadsAreTrue, SamePR
<1>13. SourceIsOutcome'
  BY <1>1, Zenon DEF IInv, SourceIsOutcome, WorkerKnows, Holding
<1>14. OutcomeIsTrue'
  BY <1>1, Zenon DEF OutcomeIsTrue
<1> QED BY <1>5, <1>6, <1>7, <1>8, <1>9, <1>10, <1>11, <1>12, <1>13, <1>14 DEF IInv

\* claimMerge and the request that follows it keep the invariant.
LEMMA MergeAttemptHolds ==
    ASSUME IInv, MergeAttempt
    PROVE  IInv'
<1> DEFINE d == worker.obs.task
<1> DEFINE intent == Intent(worker.obs, attempts + 1, rec.pr)
<1> DEFINE ok == AttemptAuthorized(d) /\ ClaimAccepts(worker.obs, worker.mode = "continuous")
<1>1. /\ worker.pc = "attempt" /\ GateFree
      /\ UNCHANGED <<pr, task, snapshot, control, unsettled, precheck, recovering, refresh, foreign,
                     moves>>
  BY DEF MergeAttempt
<1>2. CASE PassEnds /\ attempts' \in {attempts, attempts + 1} /\ (Fault \/ NoFault)
           /\ UNCHANGED <<rec, wire>>
  <2>1. worker' \in Worker /\ worker'.pc = "idle"
    BY <1>2, Ended, Zenon DEF PassEnds
  <2>2. faults' \in 0 .. MaxFaults /\ attempts' \in Nat
    BY <1>2, FaultBounded DEF IInv, Typed
  <2>3. Typed'
    BY <1>1, <1>2, <2>1, <2>2, Zenon DEF IInv, Typed, control
  <2>4. LastDelivery' /\ BarrierHasIntent' /\ SourceIsOutcome' /\ RetriesHold'
    BY <1>1, <1>2, <2>1, Zenon DEF IInv, LastDelivery, BarrierHasIntent, SourceIsOutcome, RetriesHold
  <2>5. WorkerHolds' /\ WorkerKnows' /\ InFlightIsAuthorized'
    BY <2>1, Zenon DEF WorkerHolds, Holding, WorkerKnows, InFlightIsAuthorized
  <2>6. RequestsAreOwn'
    BY <1>2, <2>1 DEF IInv, Typed, Requests, RequestsAreOwn
  <2>7. ReadsAreTrue' /\ OutcomeIsTrue'
    BY <1>1, <1>2, <2>1, Zenon DEF IInv, ReadsAreTrue, MergedAt, Bound, SamePR, OutcomeIsTrue
  <2> QED BY <2>3, <2>4, <2>5, <2>6, <2>7 DEF IInv
<1>3. CASE ok /\ attempts' = attempts + 1 /\ rec' = intent /\ NoFault
           /\ worker' = Sending(intent)
           /\ wire' = wire \cup {[attempt |-> attempts + 1, head |-> d]}
  BY <1>1, <1>3, ClaimedHolds, Zenon
<1>4. CASE ok /\ attempts' = attempts + 1 /\ rec' = intent /\ Fault
           /\ worker' = GivingUp(intent)
           /\ wire' = wire
  BY <1>1, <1>4, ClaimedHolds
<1>5. \/ ok /\ attempts' = attempts + 1 /\ rec' = intent /\ NoFault
         /\ worker' = Sending(intent)
         /\ wire' = wire \cup {[attempt |-> attempts + 1, head |-> d]}
      \/ ok /\ attempts' = attempts + 1 /\ rec' = intent /\ Fault
         /\ worker' = GivingUp(intent)
         /\ UNCHANGED wire
      \/ attempts' = attempts + 1 /\ PassEnds /\ Fault /\ UNCHANGED <<rec, wire>>
      \/ PassEnds /\ UNCHANGED <<rec, wire, attempts, faults>>
  BY Zenon DEF MergeAttempt, Intent, Sending, GivingUp
<1> QED BY <1>2, <1>3, <1>4, <1>5 DEF NoFault

-----------------------------------------------------------------------------
\* Settlements.

\* SettleMerge replaces the status of a candidate, and of an outcome only its
\* source.
LEMMA SettledEffect ==
    ASSUME rec \in Record, NEW e, NEW s \in Settlement, SettleApplies(e, s), NEW r, r = Settled(s)
    PROVE  /\ r \in Record /\ r.task = rec.task /\ r.status = s.status
           /\ r.authorized => rec.authorized
           /\ IsCandidate(rec) /\ s.revoke => ~r.authorized
           /\ r.source \in {rec.source, s.source}
           /\ rec.source = "confirmed" /\ ~IsCandidate(rec) => r.source = "confirmed"
           /\ ~IsCandidate(rec) => rec.status \in {"merged", "closed"} /\ r.authorized = rec.authorized
<1>1. /\ s.status \in Statuses /\ s.source \in Sources /\ s.revoke \in BOOLEAN
      /\ rec.source \in Sources /\ rec.authorized \in BOOLEAN /\ rec.attempt \in Nat
      /\ rec.pr \in {"open", "closed", "merged"}
  BY DEF Record, Settlement
<1>2. CASE IsCandidate(rec)
  <2>1. PICK a \in BOOLEAN : a = (rec.authorized /\ ~s.revoke)
    BY Zenon
  <2>2. PICK n \in Nat : n = IF s.status = "waiting" THEN 0 ELSE rec.attempt
    BY <1>1
  <2>3. PICK c \in Sources : c = IF s.source = None THEN rec.source ELSE s.source
    BY <1>1
  <2>4. PICK p \in {"open", "closed", "merged"} :
           p = IF s.status \in {"merged", "closed"} THEN s.status ELSE rec.pr
    BY <1>1
  <2>5. r = [rec EXCEPT !.status = s.status, !.authorized = a, !.attempt = n, !.source = c, !.pr = p]
    BY <1>2, <2>1, <2>2, <2>3, <2>4 DEF Settled
  <2>6. /\ r \in Record /\ r.task = rec.task /\ r.status = s.status /\ r.authorized = a
        /\ r.source = c
    BY <1>1, <2>5, Zenon DEF Record
  <2> QED BY <1>2, <2>1, <2>3, <2>6, Zenon
<1>3. CASE ~IsCandidate(rec)
  <2>1. PICK c \in Sources :
           c = IF s.source = "confirmed" \/ (rec.source = None /\ s.source # None)
               THEN s.source ELSE rec.source
    BY <1>1
  <2>2. r = [rec EXCEPT !.source = c]
    BY <1>3, <2>1 DEF Settled
  <2>3. /\ r \in Record /\ r.task = rec.task /\ r.status = rec.status /\ r.source = c
        /\ r.authorized = rec.authorized
    BY <2>2 DEF Record
  <2>4. rec.status = s.status /\ rec.status \in {"merged", "closed"}
    BY <1>3 DEF SettleApplies
  <2>5. rec.source = "confirmed" => c = "confirmed"
    BY <2>1, NoneIsNoAnswer
  <2> QED BY <1>3, <2>1, <2>3, <2>4, <2>5
<1> QED BY <1>2, <1>3

\* A settlement that applies claims an outcome only when it is true.
LEMMA SettledIsTrue ==
    ASSUME IInv, NEW e, NEW s \in Settlement, SettleApplies(e, s), rec' = Settled(s),
           s.source = "confirmed" => s.status = "merged",
           s.status = "merged" => MergedAt(e.task, s.source),
           pr' = pr
    PROVE  SourceIsOutcome' /\ OutcomeIsTrue'
<1>1. /\ rec' \in Record /\ rec'.task = rec.task /\ rec'.status = s.status
      /\ rec'.source \in {rec.source, s.source}
      /\ ~IsCandidate(rec) => rec.status = s.status
  BY SettledEffect DEF IInv, Typed, SettleApplies
<1>2. IsCandidate(rec) => rec.status # "merged"
  BY DEF IsCandidate, Pending
<1>3. rec.source = "confirmed" => s.status = "merged" \/ IsCandidate(rec)
  BY <1>1 DEF IInv, SourceIsOutcome
<1>4. rec.source = "confirmed" => ~IsCandidate(rec)
  BY <1>2 DEF IInv, SourceIsOutcome
<1>5. rec.task = e.task
  BY Zenon DEF SettleApplies
<1>6. SourceIsOutcome'
  BY <1>1, <1>3, <1>4 DEF SourceIsOutcome
<1>7. rec.source = "confirmed" => pr.by = "octomus"
  BY Zenon DEF IInv, SourceIsOutcome, OutcomeIsTrue
<1>8. OutcomeIsTrue'
  BY <1>1, <1>5, <1>7, Zenon DEF OutcomeIsTrue, MergedAt, Bound
<1> QED BY <1>6, <1>8, Zenon

\* What the worker has decided, when it settles.
LEMMA Settling ==
    ASSUME IInv, worker.pc = "settle"
    PROVE  /\ worker.settlement \in Settlement /\ worker.obs \in Record
           /\ Holding
           /\ worker.settlement.source = "confirmed" \/ worker.settlement.status \in {"merging", "uncertain"}
                => InFlight(worker.obs.status)
           /\ worker.settlement.source # None => worker.settlement.status \in {"merged", "closed"}
           /\ worker.settlement.source = "confirmed" => worker.settlement.status = "merged"
           /\ worker.settlement.status = "merged" =>
                  MergedAt(worker.obs.task, worker.settlement.source)
           /\ InFlight(worker.obs.status) =>
                  InFlight(rec.status) /\ SettleApplies(worker.obs, worker.settlement)
           /\ ~InFlight(worker.obs.status) => ~InFlight(rec.status)
<1>1. worker.settlement \in Settlement /\ worker.obs \in Record /\ Holding
  BY Zenon DEF IInv, Typed, Worker, Holding
<1>2. /\ worker.settlement.source = "confirmed" \/ worker.settlement.status \in {"merging", "uncertain"}
           => InFlight(worker.obs.status)
      /\ worker.settlement.source # None => worker.settlement.status \in {"merged", "closed"}
      /\ worker.settlement.source = "confirmed" => worker.settlement.status = "merged"
  BY Zenon DEF IInv, WorkerKnows
<1>3. worker.settlement.status = "merged" => MergedAt(worker.obs.task, worker.settlement.source)
  BY Zenon DEF IInv, ReadsAreTrue
<1>4. /\ InFlight(worker.obs.status) =>
             InFlight(rec.status) /\ SettleApplies(worker.obs, worker.settlement)
      /\ ~InFlight(worker.obs.status) => ~InFlight(rec.status)
  BY <1>1 DEF IInv, WorkerHolds, SettleApplies, IsCandidate, Pending, InFlight
<1> QED BY <1>1, <1>2, <1>3, <1>4

\* settleMerge: a settlement that applies ends what it is about; one that
\* storage refuses leaves a barrier that the saved record explains.
LEMMA SettleHolds ==
    ASSUME IInv, Settle
    PROVE  IInv'
<1> DEFINE s == worker.settlement
<1> DEFINE confirmed == s.source = "confirmed"
<1>1. /\ worker.pc = "settle" /\ PassEnds
      /\ UNCHANGED <<pr, task, snapshot, control, recovering, refresh, wire, foreign, attempts, moves>>
  BY Zenon DEF Settle
<1>2. /\ s \in Settlement /\ worker.obs \in Record
      /\ confirmed \/ s.status \in {"merging", "uncertain"} => InFlight(worker.obs.status)
      /\ s.source # None => s.status \in {"merged", "closed"}
      /\ confirmed => s.status = "merged"
      /\ s.status = "merged" => MergedAt(worker.obs.task, s.source)
      /\ InFlight(worker.obs.status) => InFlight(rec.status) /\ SettleApplies(worker.obs, s)
      /\ ~InFlight(worker.obs.status) => ~InFlight(rec.status)
  BY <1>1, Settling
<1>3. worker' \in Worker /\ worker'.pc = "idle"
  BY <1>1, Ended DEF PassEnds
<1>4. faults' \in 0 .. MaxFaults
  BY FaultBounded, Zenon DEF IInv, Settle
<1>5. \/ SettleApplies(worker.obs, s) /\ rec' = Settled(s) /\ unsettled' = FALSE /\ precheck' = None
      \/ UNCHANGED <<rec, unsettled, precheck>>
      \/ UNCHANGED <<rec, precheck>> /\ unsettled' = TRUE /\ InFlight(worker.obs.status)
      \/ /\ UNCHANGED <<rec, unsettled>> /\ ~InFlight(worker.obs.status) /\ ~confirmed
         /\ precheck' = [expected |-> worker.obs, settlement |-> s]
  <2>1. unsettled \in BOOLEAN
    BY Zenon DEF IInv, Typed
  <2>2. CASE /\ NoFault
             /\ IF SettleApplies(worker.obs, s)
                THEN rec' = Settled(s) /\ unsettled' = FALSE /\ precheck' = None
                ELSE unsettled' = (unsettled \/ confirmed) /\ UNCHANGED <<rec, precheck>>
    BY <1>2, <2>1, <2>2, Zenon
  <2>3. CASE /\ Fault /\ UNCHANGED rec
             /\ IF confirmed \/ InFlight(worker.obs.status) \/ s.status = "uncertain"
                THEN unsettled' = TRUE /\ UNCHANGED precheck
                ELSE precheck' = [expected |-> worker.obs, settlement |-> s] /\ UNCHANGED unsettled
    BY <1>2, <2>3, Zenon
  <2> QED BY <2>2, <2>3, Zenon DEF Settle
<1> HIDE DEF s
<1>6. WorkerHolds' /\ WorkerKnows' /\ InFlightIsAuthorized'
  BY <1>3 DEF WorkerHolds, Holding, WorkerKnows, InFlightIsAuthorized
<1>7. RequestsAreOwn'
  BY <1>1, <1>3, Zenon DEF IInv, RequestsAreOwn
<1>8. CASE SettleApplies(worker.obs, s) /\ rec' = Settled(s) /\ unsettled' = FALSE /\ precheck' = None
  <2>1. rec' \in Record /\ rec'.task = rec.task /\ rec'.status = s.status
    BY <1>2, <1>8, SettledEffect DEF IInv, Typed
  <2>2. Typed'
    BY <1>1, <1>3, <1>4, <1>8, <2>1, Zenon DEF IInv, Typed, control
  <2>3. LastDelivery' /\ BarrierHasIntent'
    BY <1>1, <1>8, <2>1, Zenon DEF IInv, LastDelivery, BarrierHasIntent
  <2>4. recovering # None => ~InFlight(rec'.status)
    BY <1>2, <2>1, Zenon DEF IInv, RetriesHold, InFlight
  <2>5. RetriesHold'
    BY <1>1, <1>3, <1>8, <2>4 DEF IInv, RetriesHold
  <2>6. ReadsAreTrue'
    BY <1>1, <1>3, <1>8, Zenon DEF IInv, ReadsAreTrue, MergedAt, Bound, SamePR
  <2>7. SourceIsOutcome' /\ OutcomeIsTrue'
    BY <1>1, <1>2, <1>8, SettledIsTrue
  <2> QED BY <1>6, <1>7, <2>2, <2>3, <2>5, <2>6, <2>7, Zenon DEF IInv
<1>9. CASE /\ UNCHANGED rec
           /\ \/ UNCHANGED <<unsettled, precheck>>
              \/ UNCHANGED precheck /\ unsettled' = TRUE /\ InFlight(worker.obs.status)
              \/ /\ UNCHANGED unsettled /\ ~InFlight(worker.obs.status) /\ ~confirmed
                 /\ precheck' = [expected |-> worker.obs, settlement |-> s]
  <2> DEFINE c == [expected |-> worker.obs, settlement |-> s]
  <2>1. c \in Prechecks /\ c.expected = worker.obs /\ c.settlement = s
    BY <1>2 DEF Prechecks
  <2>2. \/ precheck' = precheck
        \/ precheck' = c /\ ~InFlight(worker.obs.status)
    BY <1>9
  <2> HIDE DEF c
  <2>3. unsettled' \in BOOLEAN /\ precheck' \in Prechecks \cup {None}
    BY <1>9, <2>1, <2>2, Zenon DEF IInv, Typed
  <2>4. Typed'
    BY <1>1, <1>3, <1>4, <1>9, <2>3, Zenon DEF IInv, Typed, control
  <2>5. LastDelivery' /\ SourceIsOutcome'
    BY <1>1, <1>9 DEF IInv, LastDelivery, SourceIsOutcome
  <2>6. BarrierHasIntent'
    BY <1>2, <1>9, Zenon DEF IInv, BarrierHasIntent
  <2>7. RetriesHold'
    BY <1>1, <1>2, <1>3, <1>9, <2>1, <2>2, Zenon DEF IInv, RetriesHold
  <2>8. ReadsAreTrue'
    BY <1>1, <1>2, <1>3, <2>1, <2>2, Zenon DEF IInv, ReadsAreTrue, MergedAt, Bound, SamePR
  <2>9. OutcomeIsTrue'
    BY <1>1, <1>9 DEF IInv, OutcomeIsTrue, Bound
  <2> QED BY <1>6, <1>7, <2>4, <2>5, <2>6, <2>7, <2>8, <2>9, Zenon DEF IInv
<1> QED BY <1>5, <1>8, <1>9, Zenon

\* recoverMergePrecheck, first part.
LEMMA RecoverPrecheckHolds ==
    ASSUME IInv, RecoverPrecheck
    PROVE  IInv'
<1>1. /\ worker.pc # "sent" /\ precheck # None
      /\ UNCHANGED <<pr, rec, task, snapshot, control, worker, unsettled, refresh, wire, foreign,
                     attempts, faults, moves>>
      /\ \/ recovering' = precheck /\ precheck' = precheck
         \/ precheck' = None /\ recovering' = recovering
  BY Zenon DEF RecoverPrecheck, GateFree, counters
<1>2. Typed'
  BY <1>1, Zenon DEF IInv, Typed, control
<1>3. LastDelivery' /\ SourceIsOutcome' /\ BarrierHasIntent' /\ WorkerHolds' /\ WorkerKnows'
  BY <1>1, Zenon DEF IInv, LastDelivery, SourceIsOutcome, BarrierHasIntent, WorkerHolds, Holding, WorkerKnows
<1>4. RetriesHold'
  BY <1>1, Zenon DEF IInv, RetriesHold
<1>5. RequestsAreOwn' /\ InFlightIsAuthorized'
  BY <1>1, Zenon DEF IInv, RequestsAreOwn, InFlightIsAuthorized
<1>6. ReadsAreTrue' /\ OutcomeIsTrue'
  BY <1>1, Zenon DEF IInv, ReadsAreTrue, MergedAt, Bound, SamePR, OutcomeIsTrue
<1> QED BY <1>2, <1>3, <1>4, <1>5, <1>6 DEF IInv

\* A write of the record that resolves no intent and makes none, outside the
\* request.
Unresolving ==
    /\ rec' \in Record /\ rec'.task = rec.task
    /\ InFlight(rec.status) => rec'.status = rec.status /\ rec'.attempt = rec.attempt
    /\ ~InFlight(rec.status) => ~InFlight(rec'.status)

\* Such a write keeps what the worker, the barriers and the requests rely on.
LEMMA RecordMoves ==
    ASSUME IInv, Unresolving, worker.pc # "sent", UNCHANGED <<worker, unsettled, wire, attempts>>
    PROVE  /\ WorkerHolds' /\ BarrierHasIntent' /\ RequestsAreOwn' /\ InFlightIsAuthorized'
           /\ \A d \in Deliveries : d <= rec.task <=> d <= rec'.task
           /\ \A d \in Deliveries : d <= rec.task + 1 <=> d <= rec'.task + 1
<1>1. WorkerHolds'
  BY Zenon DEF IInv, Unresolving, WorkerHolds, Holding
<1>2. BarrierHasIntent'
  BY Zenon DEF IInv, Unresolving, BarrierHasIntent
<1>3. RequestsAreOwn' /\ InFlightIsAuthorized'
  BY DEF IInv, RequestsAreOwn, InFlightIsAuthorized
<1> QED BY <1>1, <1>2, <1>3, Zenon DEF Unresolving

\* recoverMergePrecheck, second part: the retried settlement is of a record
\* without an intent.
LEMMA RetryPrecheckHolds ==
    ASSUME IInv, RetryPrecheck
    PROVE  IInv'
<1>1. /\ recovering # None /\ recovering' = None
      /\ precheck' \in {None, precheck} /\ faults' \in 0 .. MaxFaults
      /\ rec' = rec \/ (SettleApplies(recovering.expected, recovering.settlement)
                           /\ rec' = Settled(recovering.settlement))
      /\ UNCHANGED <<pr, task, snapshot, control, worker, unsettled, refresh, wire, foreign, attempts, moves>>
  BY FaultBounded, Zenon DEF RetryPrecheck, IInv
<1>2. /\ recovering \in Prechecks /\ recovering.settlement \in Settlement
      /\ ~InFlight(rec.status) /\ worker.pc # "sent"
      /\ recovering.settlement.status \notin {"merging", "uncertain"}
      /\ recovering.settlement.source = "confirmed" => recovering.settlement.status = "merged"
      /\ recovering.settlement.status = "merged" =>
             MergedAt(recovering.expected.task, recovering.settlement.source)
  BY <1>1 DEF IInv, Typed, RetriesHold, ReadsAreTrue, Prechecks
<1>3. Unresolving
  <2>1. CASE rec' = rec
    BY <2>1, Zenon DEF IInv, Typed, Unresolving
  <2>2. CASE /\ SettleApplies(recovering.expected, recovering.settlement)
             /\ rec' = Settled(recovering.settlement)
    <3>1. rec' \in Record /\ rec'.task = rec.task /\ rec'.status = recovering.settlement.status
      BY <1>2, <2>2, SettledEffect DEF IInv, Typed
    <3> QED BY <1>2, <3>1, Zenon DEF Unresolving, InFlight
  <2> QED BY <1>1, <2>1, <2>2, Zenon
<1>4. WorkerHolds' /\ BarrierHasIntent' /\ RequestsAreOwn' /\ InFlightIsAuthorized' /\ LastDelivery'
  BY <1>1, <1>2, <1>3, RecordMoves, Zenon DEF IInv, LastDelivery
<1>5. Typed'
  BY <1>1, <1>3, Zenon DEF IInv, Typed, Unresolving, control
<1>6. WorkerKnows'
  BY <1>1, Zenon DEF IInv, WorkerKnows, Holding
<1>7. RetriesHold'
  BY <1>1, <1>2, <1>3, Zenon DEF IInv, RetriesHold, Unresolving
<1>8. ReadsAreTrue'
  BY <1>1, Zenon DEF IInv, ReadsAreTrue, MergedAt, Bound, SamePR
<1>9. SourceIsOutcome' /\ OutcomeIsTrue'
  <2>1. CASE rec' = rec
    BY <1>1, <2>1 DEF IInv, SourceIsOutcome, OutcomeIsTrue, Bound
  <2> QED BY <1>1, <1>2, <2>1, SettledIsTrue, Zenon
<1> QED BY <1>4, <1>5, <1>6, <1>7, <1>8, <1>9, Zenon DEF IInv

-----------------------------------------------------------------------------
\* Remote observation.

\* A refresh that reads the remote pull request writes nothing.
LEMMA ReadPRHolds ==
    ASSUME IInv, ReadPR
    PROVE  IInv'
<1>1. /\ refresh' = SamePR(pr)
      /\ UNCHANGED <<pr, rec, task, snapshot, control, worker, unsettled, precheck, recovering, wire,
                     foreign, attempts, faults, moves>>
  BY Zenon DEF ReadPR, counters
<1>2. SamePR(pr) \in PullRequest
  BY Zenon DEF IInv, Typed, Remote, PullRequest, SamePR
<1>3. Typed'
  BY <1>1, <1>2, Zenon DEF IInv, Typed, control
<1>4. LastDelivery' /\ SourceIsOutcome' /\ BarrierHasIntent' /\ WorkerHolds' /\ WorkerKnows'
  BY <1>1, Zenon DEF IInv, LastDelivery, SourceIsOutcome, BarrierHasIntent, WorkerHolds, Holding, WorkerKnows
<1>5. RetriesHold'
  BY <1>1, Zenon DEF IInv, RetriesHold
<1>6. RequestsAreOwn' /\ InFlightIsAuthorized'
  BY <1>1, Zenon DEF IInv, RequestsAreOwn, InFlightIsAuthorized, UnfinishedBranchWork, control
<1>7. ReadsAreTrue'
  <2>1. SamePR(pr)' = SamePR(pr)
    BY <1>1, Zenon DEF SamePR
  <2> QED BY <1>1, <2>1, Zenon DEF IInv, ReadsAreTrue, MergedAt, Bound
<1>8. OutcomeIsTrue'
  BY <1>1, Zenon DEF IInv, OutcomeIsTrue, Bound
<1> QED BY <1>3, <1>4, <1>5, <1>6, <1>7, <1>8 DEF IInv

\* preserveAutoMerge and the saved state: an intent keeps its status, authority
\* is only taken away, and an outcome is kept or is what was read of this
\* delivery.
LEMMA ObservationEffect ==
    ASSUME rec \in Record, NEW p \in PullRequest, NEW r, r = RecordPRObservation(p)
    PROVE  /\ r \in Record /\ r.task = rec.task /\ r.attempt = rec.attempt
           /\ r.authorized => rec.authorized
           /\ InFlight(rec.status) => r.status = rec.status
           /\ ~InFlight(rec.status) => ~InFlight(r.status)
           /\ rec.status \in {"merged", "closed"} => r.status = rec.status /\ r.source = rec.source
           /\ r.source \in {rec.source, "observed"}
           /\ r.status \in {"merged", "closed"} => rec.status = r.status \/ r.source = "observed"
           /\ r.status = "merged" => rec.status = "merged" \/ (p.state = "merged" /\ Bound(p, rec.task))
           /\ r.status \in {rec.status, "manual", p.state}
<1>1. p.state \in {"open", "closed", "merged"}
  BY DEF PullRequest
<1>2. PICK q : q = Preserved(p)
  BY Zenon
<1>3. /\ q \in Record /\ q.task = rec.task /\ q.attempt = rec.attempt
      /\ q.authorized => rec.authorized
      /\ InFlight(rec.status) => q.status = rec.status
      /\ ~InFlight(rec.status) => ~InFlight(q.status)
      /\ rec.status \in {"merged", "closed"} => q.status = rec.status /\ q.source = rec.source
      /\ q.source \in {rec.source, "observed"}
      /\ q.status \in {"merged", "closed"} => rec.status = q.status \/ q.source = "observed"
      /\ q.status = "merged" => rec.status = "merged" \/ (p.state = "merged" /\ Bound(p, rec.task))
      /\ q.status \in {rec.status, "manual", p.state}
  <2>1. CASE q = rec
    BY <2>1
  <2>2. CASE InFlight(rec.status) /\ q = [rec EXCEPT !.authorized = rec.authorized /\ Bound(p, rec.task)]
    BY <2>2, Zenon DEF Record, InFlight, Bound
  <2>3. CASE /\ ~InFlight(rec.status) /\ rec.status \notin {"merged", "closed"}
             /\ q = [rec EXCEPT !.authorized = FALSE, !.status = "manual"]
    BY <2>3, Zenon DEF Record, Statuses, InFlight
  <2>4. CASE /\ ~InFlight(rec.status) /\ rec.status \notin {"merged", "closed"}
             /\ p.state \in {"merged", "closed"} /\ Bound(p, rec.task)
             /\ q = [rec EXCEPT !.status = p.state, !.source = "observed"]
    BY <2>4, Zenon DEF Record, Statuses, Sources, InFlight
  <2>5. IsCandidate(rec) => rec.status \notin {"merged", "closed"}
    BY DEF IsCandidate, Pending
  <2> QED BY <1>2, <2>1, <2>2, <2>3, <2>4, <2>5 DEF Preserved
<1>4. r = [q EXCEPT !.pr = p.state]
  BY <1>2 DEF RecordPRObservation
<1>5. /\ r \in Record /\ r.task = q.task /\ r.attempt = q.attempt /\ r.authorized = q.authorized
      /\ r.status = q.status /\ r.source = q.source
  BY <1>1, <1>3, <1>4 DEF Record
<1> QED BY <1>3, <1>5

\* The read is saved under the gate, so no request waits for an answer.
LEMMA SavePRHolds ==
    ASSUME IInv, SavePR
    PROVE  IInv'
<1>1. /\ worker.pc # "sent" /\ refresh # None /\ refresh' = None
      /\ rec' = RecordPRObservation(refresh)
      /\ UNCHANGED <<pr, task, snapshot, control, worker, unsettled, precheck, recovering, wire,
                     foreign, attempts, faults, moves>>
  BY Zenon DEF SavePR, GateFree, counters
<1>2. rec \in Record /\ refresh \in PullRequest
  BY <1>1, Zenon DEF IInv, Typed
<1>3. /\ rec' \in Record /\ rec'.task = rec.task /\ rec'.attempt = rec.attempt
      /\ InFlight(rec.status) => rec'.status = rec.status
      /\ ~InFlight(rec.status) => ~InFlight(rec'.status)
      /\ rec.status \in {"merged", "closed"} => rec'.status = rec.status /\ rec'.source = rec.source
      /\ rec'.source \in {rec.source, "observed"}
      /\ rec'.status \in {"merged", "closed"} => rec.status = rec'.status \/ rec'.source = "observed"
      /\ rec'.status = "merged" =>
             rec.status = "merged" \/ (refresh.state = "merged" /\ Bound(refresh, rec.task))
  BY <1>1, <1>2, ObservationEffect, Zenon
<1>4. Unresolving
  BY <1>3 DEF Unresolving
<1>5. WorkerHolds' /\ BarrierHasIntent' /\ RequestsAreOwn' /\ InFlightIsAuthorized' /\ LastDelivery'
  BY <1>1, <1>4, RecordMoves, Zenon DEF IInv, LastDelivery
<1>6. Typed'
  BY <1>1, <1>3 DEF IInv, Typed, control
<1>7. WorkerKnows'
  BY <1>1, Zenon DEF IInv, WorkerKnows, Holding
<1>8. RetriesHold'
  BY <1>1, <1>3, Zenon DEF IInv, RetriesHold
<1>9. ReadsAreTrue'
  BY <1>1 DEF IInv, ReadsAreTrue, MergedAt, Bound
<1>10. SourceIsOutcome'
  BY <1>3, Zenon DEF IInv, SourceIsOutcome
<1>11. OutcomeIsTrue'
  <2> SUFFICES ASSUME rec'.status = "merged"
               PROVE  pr.state = "merged" /\ Bound(pr, rec.task)
                        /\ (rec'.source = "confirmed" => pr.by = "octomus")
    BY <1>1, <1>3, Zenon DEF OutcomeIsTrue, Bound
  <2>1. CASE rec.status = "merged"
    BY <1>3, <2>1, Zenon DEF IInv, OutcomeIsTrue
  <2>2. CASE rec.status # "merged"
    <3>1. refresh = SamePR(pr) /\ Bound(refresh, rec.task) /\ refresh.state = "merged"
      BY <1>1, <1>3, <2>2, Zenon DEF IInv, ReadsAreTrue
    <3>2. pr.state = "merged" /\ Bound(pr, rec.task)
      BY <3>1 DEF SamePR, Bound
    <3> QED BY <1>3, <2>2, <3>2
  <2> QED BY <2>1, <2>2, Zenon
<1> QED BY <1>5, <1>6, <1>7, <1>8, <1>9, <1>10, <1>11 DEF IInv

-----------------------------------------------------------------------------
\* Deliveries, operators and the outside.

\* A pull request that is merged stays as it is; before, no claim is about it.
MergedStays ==
    pr.state = "merged" => /\ pr'.state = "merged" /\ pr'.by = pr.by
                           /\ pr'.head = pr.head /\ pr'.base = pr.base

\* While a merge stays, every claim about it stays true.
LEMMA ClaimsKept ==
    ASSUME IInv, pr' \in Remote, MergedStays, UNCHANGED <<rec, worker, refresh, precheck, recovering>>
    PROVE  ReadsAreTrue' /\ OutcomeIsTrue'
<1>1. \A d, source : MergedAt(d, source) => MergedAt(d, source)'
  BY DEF MergedAt, Bound, MergedStays
<1>2. refresh # None => (refresh.state = "merged" => refresh = SamePR(pr'))
  <2> SUFFICES ASSUME refresh # None, refresh.state = "merged" PROVE refresh = SamePR(pr')
    BY Zenon
  <2>1. refresh = SamePR(pr) /\ SamePR(pr).state = pr.state
    BY DEF IInv, ReadsAreTrue, SamePR
  <2>2. SamePR(pr') = SamePR(pr)
    BY <2>1, Zenon DEF MergedStays, SamePR
  <2> QED BY <2>1, <2>2
<1>3. ReadsAreTrue'
  BY <1>1, <1>2, Zenon DEF IInv, ReadsAreTrue
<1>4. OutcomeIsTrue'
  BY DEF IInv, OutcomeIsTrue, MergedStays, Bound
<1> QED BY <1>3, <1>4, Zenon

\* A task of the branch changes, other than by publication, and perhaps the
\* pull request with it.
LEMMA TaskMoves ==
    ASSUME IInv, NEW d \in Deliveries, NEW s \in TaskStates \ {"published"}, SetTask(d, s),
           task[d].status \notin {"published", "cancelled"}, d <= rec.task + 1,
           worker.pc = "sent" => task[d].status \in AtWork,
           worker.pc = "attempt" => s \notin AtWork \/ task[d].status \in AtWork,
           pr' \in Remote, MergedStays, foreign' \in BOOLEAN, batch' \in SUBSET Deliveries,
           UNCHANGED <<rec, snapshot, mode, policy, engine, wire, counters>>
    PROVE  IInv'
<1> USE DEF engine, counters
<1>1. task \in [Deliveries -> Tasks] /\ ~task[d].archived
  BY DEF IInv, Typed, LastDelivery, Tasks
<1>2. /\ task' \in [Deliveries -> Tasks] /\ task'[d].status = s /\ task'[d].archived = task[d].archived
      /\ \A e \in Deliveries : e # d => task'[e] = task[e]
  BY <1>1, Zenon DEF SetTask, Tasks
<1>3. Typed'
  BY <1>2, Zenon DEF IInv, Typed
<1>4. LastDelivery'
  BY <1>1, <1>2, Zenon DEF IInv, LastDelivery
<1>5. WorkerHolds' /\ BarrierHasIntent' /\ SourceIsOutcome' /\ RetriesHold' /\ RequestsAreOwn'
  BY Zenon DEF IInv, WorkerHolds, Holding, BarrierHasIntent, SourceIsOutcome, RetriesHold, RequestsAreOwn
<1>6. WorkerKnows'
  <2>1. worker.pc = "attempt" => ~\E e \in Deliveries : task'[e].status \in AtWork
    BY <1>2, Zenon DEF IInv, WorkerKnows
  <2> QED BY <2>1, Zenon DEF IInv, WorkerKnows, Holding
<1>7. worker.pc # "sent"
  <2> SUFFICES ASSUME worker.pc = "sent" PROVE FALSE
    BY Zenon
  <2>1. d = worker.obs.task
    BY <1>1, Zenon DEF IInv, InFlightIsAuthorized, UnfinishedBranchWork, AtWork
  <2>2. rec.task = worker.obs.task /\ rec.task \in Nat
    BY DEF IInv, InFlightIsAuthorized, Typed, Record, Deliveries
  <2> QED BY <2>1, <2>2 DEF IInv, LastDelivery
<1>8. InFlightIsAuthorized'
  BY <1>7, Zenon DEF InFlightIsAuthorized
<1>9. ReadsAreTrue' /\ OutcomeIsTrue'
  BY ClaimsKept, Zenon
<1> QED BY <1>3, <1>4, <1>5, <1>6, <1>8, <1>9, Zenon DEF IInv

\* Where a follow-up delivery is, it is the next one of the record.
LEMMA FollowUp ==
    ASSUME IInv, NEW d \in Deliveries, task[d].status # "absent"
    PROVE  d <= rec.task + 1 /\ rec.task \in Nat /\ d \in Nat
BY DEF IInv, Typed, Record, Deliveries, LastDelivery

\* The steps of a follow-up delivery before it is recorded.
LEMMA DeliveryHolds ==
    ASSUME IInv, NEW d \in Deliveries \ {1},
           Plan(d) \/ Dispatch(d) \/ Push(d) \/ Confirm(d) \/ FailTask(d) \/ RetryTask(d) \/ CancelTask(d)
    PROVE  IInv'
<1>0. /\ pr \in Remote /\ foreign \in BOOLEAN /\ batch \in SUBSET Deliveries
      /\ pr' = pr => MergedStays
  BY DEF IInv, Typed, MergedStays
<1>1. CASE Plan(d)
  <2>1. d - 1 \in Deliveries /\ d \in Nat /\ rec.task \in Nat
    BY BoundsAssumption DEF Deliveries, IInv, Typed, Record
  <2>2. task[d - 1].status = "published" => d - 1 <= rec.task
    BY <2>1, Zenon DEF IInv, LastDelivery
  <2>3. d <= rec.task + 1
    BY <1>1, <2>1, <2>2 DEF Plan
  <2> QED BY <1>0, <1>1, <2>3, TaskMoves, Zenon DEF Plan, GateFree, TaskStates, AtWork
<1>2. CASE Push(d)
  <2>1. pr' \in Remote /\ MergedStays /\ foreign' \in BOOLEAN
    <3>1. PICK c \in {"pending", "ready", "failing", "rewritten"} :
             pr' = [pr EXCEPT !.head = d, !.checks = c]
      BY <1>0, <1>2, Zenon DEF Push, Remote
    <3>2. d \in 0 .. N
      BY BoundsAssumption DEF Deliveries
    <3>3. pr.state = "open" /\ foreign' \in BOOLEAN
      BY <1>0, <1>2, Zenon DEF Push
    <3> QED BY <1>0, <3>1, <3>2, <3>3, Zenon DEF Remote, MergedStays
  <2> QED BY <1>0, <1>2, <2>1, FollowUp, TaskMoves, Zenon DEF Push, control, TaskStates, AtWork
<1>3. CASE Dispatch(d)
  BY <1>0, <1>3, FollowUp, TaskMoves, Zenon DEF Dispatch, GateFree, BranchClaimed, control, TaskStates, AtWork
<1>4. CASE Confirm(d)
  BY <1>0, <1>4, FollowUp, TaskMoves DEF Confirm, control, TaskStates, AtWork
<1>5. CASE FailTask(d) \/ RetryTask(d) \/ CancelTask(d)
  BY <1>0, <1>5, FollowUp, TaskMoves, Zenon DEF FailTask, RetryTask, CancelTask, GateFree, control, TaskStates,
                                         AtWork
<1> QED BY <1>1, <1>2, <1>3, <1>4, <1>5, Zenon

\* initialMergeState has no intent and no outcome.
LEMMA InitialEffect ==
    ASSUME NEW d \in Deliveries, NEW r, r = InitialMerge(d)
    PROVE  /\ r \in Record /\ r.task = d /\ r.source = None /\ r.attempt = 0
           /\ r.status \in {"waiting", "manual"} /\ ~InFlight(r.status)
BY Zenon DEF InitialMerge, Record, Statuses, Sources, InFlight

\* CompletePublication: an unresolved intent refuses the delivery, otherwise
\* the record becomes its own.
LEMMA CompleteHolds ==
    ASSUME IInv, NEW d \in Deliveries, Complete(d)
    PROVE  IInv'
<1>1. /\ worker.pc # "sent" /\ recovering = None /\ task[d].status = "delivered"
      /\ UNCHANGED <<pr, mode, batch, policy, engine, wire, foreign, counters>>
  BY Zenon DEF Complete, GateFree, control
<1>2. d <= rec.task + 1 /\ rec.task \in Nat /\ d \in Nat /\ ~(d <= rec.task)
  BY <1>1, FollowUp, Zenon DEF IInv, LastDelivery
<1>3. CASE InFlight(rec.status)
  <2>1. SetTask(d, "blocked") /\ UNCHANGED <<rec, snapshot>>
    BY <1>3 DEF Complete
  <2> QED BY <1>1, <1>2, <2>1, TaskMoves, Zenon DEF IInv, Typed, MergedStays, TaskStates, AtWork
<1>4. CASE ~InFlight(rec.status)
  <2> USE DEF engine, counters
  <2>1. /\ SetTask(d, "published") /\ rec' = InitialMerge(d)
        /\ snapshot' = snapshot \/ snapshot' = [snapshot EXCEPT ![rec.task] = rec]
    BY <1>4, Zenon DEF Complete
  <2>2. /\ rec' \in Record /\ rec'.task = d /\ rec'.source = None
        /\ rec'.status \in {"waiting", "manual"} /\ ~InFlight(rec'.status)
    BY <2>1, InitialEffect, Zenon
  <2>3. task \in [Deliveries -> Tasks] /\ rec \in Record /\ snapshot \in [Deliveries -> Record \cup {None}]
    BY DEF IInv, Typed
  <2>4. /\ task' \in [Deliveries -> Tasks] /\ task'[d].status = "published"
        /\ \A e \in Deliveries : task'[e].archived = task[e].archived
        /\ \A e \in Deliveries : e # d => task'[e].status = task[e].status
    BY <2>1, <2>3 DEF SetTask, Tasks, TaskStates
  <2>5. Typed'
    BY <1>1, <2>1, <2>2, <2>3, <2>4, Zenon DEF IInv, Typed
  <2>6. LastDelivery'
    <3>1. ASSUME NEW e \in Deliveries
          PROVE  /\ task'[e].status # "absent" => e <= d + 1
                 /\ task'[e].status = "published" <=> e <= d
                 /\ task'[e].archived => task'[e].status \in {"published", "cancelled"}
      <4>1. e \in Nat
        BY DEF Deliveries
      <4>2. CASE e = d
        BY <1>2, <2>4, <4>2
      <4>3. CASE e # d
        <5>1. /\ task[e].status # "absent" => e <= rec.task + 1
              /\ task[e].status = "published" <=> e <= rec.task
              /\ task[e].archived => task[e].status \in {"published", "cancelled"}
          BY Zenon DEF IInv, LastDelivery
        <5> QED BY <1>2, <2>4, <4>1, <4>3, <5>1
      <4> QED BY <4>2, <4>3, Zenon
    <3> QED BY <2>2, <3>1, Zenon DEF LastDelivery
  <2>7. WorkerHolds'
    <3>1. Holding => ~InFlight(worker.obs.status) /\ worker.obs.task <= rec.task /\ worker.obs.task \in Nat
      BY <1>4 DEF IInv, WorkerHolds, Typed, Worker, Record, Deliveries
    <3>2. Holding => worker.obs.task <= d
      BY <1>2, <3>1
    <3> QED BY <1>1, <2>2, <3>1, <3>2, Zenon DEF WorkerHolds, Holding
  <2>8. BarrierHasIntent'
    BY <1>1, <1>4, Zenon DEF IInv, BarrierHasIntent
  <2>9. WorkerKnows'
    <3>1. worker.pc = "attempt" => ~\E e \in Deliveries : task'[e].status \in AtWork
      BY <2>4 DEF IInv, WorkerKnows, AtWork
    <3> QED BY <1>1, <3>1, Zenon DEF IInv, WorkerKnows, Holding
  <2>10. RetriesHold'
    BY <1>1, <2>2, Zenon DEF IInv, RetriesHold
  <2>11. RequestsAreOwn' /\ InFlightIsAuthorized'
    BY <1>1, Zenon DEF IInv, RequestsAreOwn, InFlightIsAuthorized
  <2>12. ReadsAreTrue'
    BY <1>1, Zenon DEF IInv, ReadsAreTrue, MergedAt, Bound, SamePR
  <2>13. SourceIsOutcome' /\ OutcomeIsTrue'
    BY <2>2, NoneIsNoAnswer, Zenon DEF SourceIsOutcome, OutcomeIsTrue
  <2> QED BY <2>5, <2>6, <2>7, <2>8, <2>9, <2>10, <2>11, <2>12, <2>13, Zenon DEF IInv
<1> QED BY <1>3, <1>4

\* txRevokeTaskMerges takes authority and leaves intents and outcomes.
LEMMA RevokedEffect ==
    ASSUME rec \in Record, NEW d, NEW r, r = RevokedMerges(d)
    PROVE  /\ r \in Record /\ r.task = rec.task /\ r.attempt = rec.attempt /\ r.source = rec.source
           /\ r.authorized => rec.authorized
           /\ rec.status \in {"merged", "closed"} \/ InFlight(rec.status) => r.status = rec.status
           /\ r.status \in {rec.status, "manual"}
<1>1. CASE r = rec
  BY <1>1, Zenon
<1>2. CASE r # rec
  <2>1. PICK s \in Statuses : s = IF rec.status \in {"merged", "closed"} \/ InFlight(rec.status)
                                  THEN rec.status ELSE "manual"
    BY DEF Record, Statuses
  <2>2. r = [rec EXCEPT !.authorized = FALSE, !.status = s]
    BY <1>2, <2>1 DEF RevokedMerges
  <2>3. /\ r \in Record /\ r.task = rec.task /\ r.attempt = rec.attempt /\ r.source = rec.source
        /\ r.authorized = FALSE /\ r.status = s
    BY <2>2, Zenon DEF Record
  <2> QED BY <2>1, <2>3
<1> QED BY <1>1, <1>2

\* ArchiveTask, which no request in flight meets.
LEMMA ArchiveHolds ==
    ASSUME IInv, NEW d \in Deliveries, Archive(d)
    PROVE  IInv'
<1> USE DEF engine, counters
<1>1. /\ worker.pc \notin {"sent", "attempt"} /\ rec' = RevokedMerges(d)
      /\ task[d].status \in {"published", "blocked", "cancelled"}
      /\ task' = [task EXCEPT ![d] =
                     [status |-> IF task[d].status = "blocked" THEN "cancelled" ELSE task[d].status,
                      archived |-> TRUE]]
      /\ UNCHANGED <<pr, snapshot, control, engine, wire, foreign, counters>>
  BY Zenon DEF Archive, GateFree, BranchClaimed
<1>2. task \in [Deliveries -> Tasks] /\ rec \in Record
  BY Zenon DEF IInv, Typed
<1>3. /\ rec' \in Record /\ rec'.task = rec.task /\ rec'.attempt = rec.attempt
      /\ rec'.source = rec.source
      /\ rec.status \in {"merged", "closed"} \/ InFlight(rec.status) => rec'.status = rec.status
      /\ rec'.status \in {rec.status, "manual"}
  BY <1>1, <1>2, RevokedEffect, Zenon
<1>4. Unresolving
  BY <1>3, Zenon DEF Unresolving, InFlight
<1>5. /\ task' \in [Deliveries -> Tasks] /\ task'[d].status \in {"published", "cancelled"}
      /\ task'[d].status = "published" <=> task[d].status = "published"
      /\ \A e \in Deliveries : e # d => task'[e] = task[e]
  <2>1. PICK s \in {"published", "cancelled"} :
           s = IF task[d].status = "blocked" THEN "cancelled" ELSE task[d].status
    BY <1>1, Zenon
  <2>2. task' = [task EXCEPT ![d] = [status |-> s, archived |-> TRUE]]
    BY <1>1, <2>1, Zenon
  <2> QED BY <1>1, <1>2, <2>1, <2>2 DEF Tasks, TaskStates
<1>6. LastDelivery'
  BY <1>1, <1>3, <1>5, Zenon DEF IInv, LastDelivery
<1>7. WorkerHolds' /\ BarrierHasIntent' /\ RequestsAreOwn' /\ InFlightIsAuthorized'
  BY <1>1, <1>4, RecordMoves
<1>8. Typed'
  BY <1>1, <1>3, <1>5, Zenon DEF IInv, Typed, control
<1>9. WorkerKnows'
  BY <1>1, Zenon DEF IInv, WorkerKnows, Holding
<1>10. RetriesHold'
  BY <1>1, <1>4, Zenon DEF IInv, RetriesHold, Unresolving
<1>11. ReadsAreTrue'
  BY <1>1 DEF IInv, ReadsAreTrue, MergedAt, Bound, SamePR
<1>12. SourceIsOutcome' /\ OutcomeIsTrue'
  BY <1>1, <1>3, Zenon DEF IInv, SourceIsOutcome, OutcomeIsTrue, Bound
<1> QED BY <1>6, <1>7, <1>8, <1>9, <1>10, <1>11, <1>12, Zenon DEF IInv

\* Mode, batch and policy change only while no request is in flight.
LEMMA ControlHolds ==
    ASSUME IInv, worker.pc # "sent", mode' \in {"paused", "continuous", "once"},
           batch' \in SUBSET Deliveries, policy' \in {"allows", "tightened", "standard"},
           UNCHANGED <<pr, rec, task, snapshot, engine, wire, foreign, counters>>
    PROVE  IInv'
<1> USE DEF engine, counters
<1>1. Typed'
  BY DEF IInv, Typed
<1>2. LastDelivery' /\ SourceIsOutcome' /\ BarrierHasIntent' /\ WorkerHolds' /\ WorkerKnows'
  BY Zenon DEF IInv, LastDelivery, SourceIsOutcome, BarrierHasIntent, WorkerHolds, Holding, WorkerKnows
<1>3. RetriesHold' /\ RequestsAreOwn' /\ InFlightIsAuthorized'
  BY Zenon DEF IInv, RetriesHold, RequestsAreOwn, InFlightIsAuthorized
<1>4. ReadsAreTrue' /\ OutcomeIsTrue'
  BY Zenon DEF IInv, ReadsAreTrue, MergedAt, Bound, SamePR, OutcomeIsTrue
<1> QED BY <1>1, <1>2, <1>3, <1>4, Zenon DEF IInv

\* The operator's actions keep the invariant.
LEMMA OperatorHolds ==
    ASSUME IInv, OperatorStep
    PROVE  IInv'
<1>0. mode \in {"paused", "continuous", "once"} /\ policy \in {"allows", "tightened", "standard"}
      /\ batch \in SUBSET Deliveries
  BY Zenon DEF IInv, Typed
<1>1. CASE Pause \/ Resume \/ RunOnce \/ FinishRunOnce
  <2>1. /\ worker.pc # "sent" /\ mode' \in {"paused", "continuous", "once"}
        /\ batch' \in SUBSET Deliveries /\ policy' = policy
        /\ UNCHANGED <<pr, rec, task, snapshot, engine, wire, foreign, counters>>
    BY <1>1 DEF Pause, Resume, RunOnce, FinishRunOnce, GateFree
  <2> QED BY <1>0, <2>1, ControlHolds, Zenon
<1>2. CASE SaveConfig
  BY <1>0, <1>2, ControlHolds, Zenon DEF SaveConfig, GateFree
<1> QED BY <1>1, <1>2, ArchiveHolds, Zenon DEF OperatorStep

\* GitHub acts on a request: a merge it reports to the worker that waits for it
\* is the merge of the delivery the worker holds.
LEMMA GitHubActsHolds ==
    ASSUME IInv, GitHubActs
    PROVE  IInv'
<1>1. PICK q \in wire :
        /\ wire' = wire \ {q}
        /\ \E reply \in {"merged", "refused", "conflict"} :
             /\ IF reply = "merged"
                THEN /\ pr.state = "open" /\ Bound(pr, q.head)
                     /\ pr' = [pr EXCEPT !.state = "merged", !.by = "octomus"]
                ELSE UNCHANGED pr
             /\ IF reply = "conflict" /\ pr.state = "open" /\ Bound(pr, q.head) THEN Fault ELSE NoFault
             /\ worker' = IF worker.pc = "sent" /\ worker.obs.attempt = q.attempt
                          THEN [worker EXCEPT !.reply = reply] ELSE worker
        /\ UNCHANGED <<rec, task, snapshot, control, unsettled, precheck, recovering, refresh, foreign,
                       attempts, moves>>
  BY DEF GitHubActs
<1>2. PICK reply \in {"merged", "refused", "conflict"} :
        /\ IF reply = "merged"
           THEN /\ pr.state = "open" /\ Bound(pr, q.head)
                /\ pr' = [pr EXCEPT !.state = "merged", !.by = "octomus"]
           ELSE UNCHANGED pr
        /\ IF reply = "conflict" /\ pr.state = "open" /\ Bound(pr, q.head) THEN Fault ELSE NoFault
        /\ worker' = IF worker.pc = "sent" /\ worker.obs.attempt = q.attempt
                     THEN [worker EXCEPT !.reply = reply] ELSE worker
  BY <1>1
<1>3. faults' \in 0 .. MaxFaults
  BY <1>2, FaultBounded, Zenon DEF IInv
<1>4. pr \in Remote /\ worker \in Worker
  BY DEF IInv, Typed
<1>5. /\ pr' \in Remote /\ MergedStays
      /\ reply = "merged" => /\ pr'.state = "merged" /\ pr'.by = "octomus"
                             /\ Bound(pr', q.head)
  <2>1. CASE reply # "merged"
    BY <1>2, <1>4, <2>1 DEF MergedStays
  <2>2. CASE reply = "merged"
    BY <1>2, <1>4, <2>2, Zenon DEF Remote, MergedStays, Bound
  <2> QED BY <2>1, <2>2
<1>6. /\ worker' \in Worker /\ worker'.pc = worker.pc /\ worker'.obs = worker.obs
      /\ worker'.settlement = worker.settlement
      /\ \/ worker'.reply = worker.reply
         \/ worker.pc = "sent" /\ worker.obs.attempt = q.attempt /\ worker'.reply = reply
  BY <1>2, <1>4 DEF Worker
<1>7. Typed'
  BY <1>1, <1>3, <1>5, <1>6 DEF IInv, Typed, control
<1>8. LastDelivery' /\ SourceIsOutcome' /\ BarrierHasIntent' /\ WorkerHolds'
  BY <1>1, <1>6, Zenon DEF IInv, LastDelivery, SourceIsOutcome, BarrierHasIntent, WorkerHolds, Holding
<1>9. WorkerKnows' /\ RetriesHold'
  BY <1>1, <1>6 DEF IInv, Holding, WorkerKnows, RetriesHold
<1>10. RequestsAreOwn' /\ InFlightIsAuthorized'
  BY <1>1, <1>6, Zenon DEF IInv, RequestsAreOwn, InFlightIsAuthorized, UnfinishedBranchWork, control
<1>11. \A d, source : MergedAt(d, source) => MergedAt(d, source)'
  BY <1>5, Zenon DEF MergedAt, Bound, MergedStays
<1>12. OutcomeIsTrue'
  BY <1>1, <1>5 DEF IInv, OutcomeIsTrue, MergedStays, Bound
<1>13. refresh # None => (refresh.state = "merged" => refresh = SamePR(pr'))
  <2> SUFFICES ASSUME refresh # None, refresh.state = "merged" PROVE refresh = SamePR(pr')
    OBVIOUS
  <2>1. refresh = SamePR(pr) /\ SamePR(pr).state = pr.state
    BY Zenon DEF IInv, ReadsAreTrue, SamePR
  <2>2. SamePR(pr') = SamePR(pr)
    BY <1>5, <2>1, Zenon DEF MergedStays, SamePR
  <2> QED BY <2>1, <2>2
<1>14. worker'.pc = "sent" /\ worker'.reply = "merged" => MergedAt(worker.obs.task, "confirmed")'
  <2>1. CASE worker'.reply = worker.reply
    BY <1>1, <1>6, <1>11, <2>1, Zenon DEF IInv, ReadsAreTrue
  <2>2. CASE worker.pc = "sent" /\ worker.obs.attempt = q.attempt /\ worker'.reply = reply
    <3>1. q.head = worker.obs.task
      BY <2>2, Zenon DEF IInv, RequestsAreOwn
    <3> QED BY <1>5, <1>6, <2>2, <3>1, Zenon DEF MergedAt, Bound
  <2> QED BY <1>6, <2>1, <2>2
<1>15. ReadsAreTrue'
  <2>1. worker'.pc = "settle" /\ worker'.settlement.status = "merged" =>
           MergedAt(worker.obs.task, worker.settlement.source)'
    BY <1>6, <1>11, Zenon DEF IInv, ReadsAreTrue
  <2>2. \A c \in {precheck, recovering} \ {None} :
           c.settlement.status = "merged" => MergedAt(c.expected.task, c.settlement.source)'
    BY <1>11 DEF IInv, ReadsAreTrue
  <2>3. refresh' = refresh /\ precheck' = precheck /\ recovering' = recovering
    BY <1>1
  <2>4. (refresh # None => (refresh.state = "merged" => refresh = SamePR(pr)))'
    BY <1>13, <2>3, Zenon
  <2>5. (\A c \in {precheck, recovering} \ {None} :
            c.settlement.status = "merged" => MergedAt(c.expected.task, c.settlement.source))'
    BY <2>2, <2>3, Zenon
  <2> QED BY <1>14, <2>1, <2>4, <2>5, Zenon DEF ReadsAreTrue
<1> QED BY <1>7, <1>8, <1>9, <1>10, <1>12, <1>15 DEF IInv

\* Checks finish and people move the pull request, which stays as it is once it
\* is merged.
LEMMA PeopleHold ==
    ASSUME IInv, ChecksFinish \/ SomeoneMoves
    PROVE  IInv'
<1>1. /\ moves' \in 0 .. MaxMoves /\ foreign' \in BOOLEAN
      /\ UNCHANGED <<rec, task, snapshot, control, engine, wire, attempts, faults>>
  <2>1. foreign \in BOOLEAN /\ moves \in 0 .. MaxMoves
    BY DEF IInv, Typed
  <2>2. CASE ChecksFinish
    BY <2>1, <2>2, Zenon DEF ChecksFinish, counters
  <2>3. CASE SomeoneMoves
    <3>1. /\ moves < MaxMoves /\ moves' = moves + 1 /\ foreign' = TRUE
          /\ UNCHANGED <<rec, task, snapshot, control, engine, wire, attempts, faults>>
      BY <2>3, Zenon DEF SomeoneMoves
    <3> QED BY <2>1, <3>1, BoundsAssumption
  <2> QED BY <2>2, <2>3, Zenon
<1>2. pr \in Remote /\ rec.task \in 0 .. N
  BY BoundsAssumption DEF IInv, Typed, Record, Deliveries
<1>3. pr' \in Remote /\ MergedStays
  <2>1. CASE ChecksFinish
    BY <1>2, <2>1 DEF ChecksFinish, Remote, MergedStays
  <2>2. CASE SomeoneMoves
    <3>1. \A h \in {Foreign, rec.task} : h \in 0 .. N
      BY <1>2, BoundsAssumption DEF Foreign
    <3>2. CASE pr.state = "open" /\ pr' = [pr EXCEPT !.state = "merged", !.by = "human"]
      BY <1>2, <3>2, Zenon DEF Remote, MergedStays
    <3>3. CASE \/ pr.state = "open" /\ pr' = [pr EXCEPT !.state = "closed"]
               \/ pr.state = "closed" /\ pr' = [pr EXCEPT !.state = "open"]
      BY <1>2, <3>3 DEF Remote, MergedStays
    <3>4. CASE pr.state = "open" /\ \E h \in {Foreign, rec.task} \ {pr.head} : pr' = [pr EXCEPT !.head = h]
      BY <1>2, <3>1, <3>4 DEF Remote, MergedStays
    <3>5. CASE pr.state = "open" /\ \E b \in {"default", "other"} \ {pr.base} : pr' = [pr EXCEPT !.base = b]
      BY <1>2, <3>5, Zenon DEF Remote, MergedStays
    <3> QED BY <2>2, <3>2, <3>3, <3>4, <3>5, Zenon DEF SomeoneMoves
  <2> QED BY <2>1, <2>2
<1> USE DEF engine
<1>4. Typed'
  BY <1>1, <1>3 DEF IInv, Typed, control
<1>5. LastDelivery' /\ SourceIsOutcome' /\ BarrierHasIntent' /\ WorkerHolds' /\ WorkerKnows'
  BY <1>1, Zenon DEF IInv, LastDelivery, SourceIsOutcome, BarrierHasIntent, WorkerHolds, Holding, WorkerKnows
<1>6. RetriesHold' /\ RequestsAreOwn'
  BY <1>1, Zenon DEF IInv, RetriesHold, RequestsAreOwn
<1>7. InFlightIsAuthorized'
  BY <1>1, Zenon DEF IInv, InFlightIsAuthorized, UnfinishedBranchWork, control
<1>8. ReadsAreTrue' /\ OutcomeIsTrue'
  BY <1>1, <1>3, ClaimsKept, Zenon
<1> QED BY <1>4, <1>5, <1>6, <1>7, <1>8, Zenon DEF IInv

\* A restart forgets the worker and its barriers; the saved record stays.
LEMMA RestartHolds ==
    ASSUME IInv, Restart
    PROVE  IInv'
<1>1. /\ unsettled' = FALSE /\ precheck' = None /\ recovering' = None /\ refresh' = None
      /\ task' = [d \in Deliveries |-> IF task[d].status \in AtWork
                                       THEN [task[d] EXCEPT !.status = "queued"] ELSE task[d]]
      /\ UNCHANGED <<pr, rec, snapshot, control, wire, foreign, attempts, moves>>
  BY DEF Restart
<1>2. worker' \in Worker /\ worker'.pc = "idle" /\ faults' \in 0 .. MaxFaults
  BY Ended, FaultBounded, Zenon DEF Restart, PassEnds, IInv
<1>3. /\ task' \in [Deliveries -> Tasks]
      /\ \A d \in Deliveries :
            /\ task'[d].archived = task[d].archived
            /\ task'[d].status = IF task[d].status \in AtWork THEN "queued" ELSE task[d].status
  <2>1. task \in [Deliveries -> Tasks]
    BY DEF IInv, Typed
  <2>2. ASSUME NEW d \in Deliveries
        PROVE  /\ task'[d] \in Tasks /\ task'[d].archived = task[d].archived
               /\ task'[d].status = IF task[d].status \in AtWork THEN "queued" ELSE task[d].status
    <3>1. task[d] \in Tasks
      BY <2>1
    <3> QED BY <1>1, <3>1 DEF Tasks, TaskStates
  <2>3. task' \in [Deliveries -> Tasks]
    BY <1>1, <2>2
  <2> QED BY <2>2, <2>3, Zenon
<1>4. Typed'
  BY <1>1, <1>2, <1>3, Zenon DEF IInv, Typed, control
<1>5. LastDelivery'
  BY <1>1, <1>3 DEF IInv, LastDelivery, AtWork
<1>6. WorkerHolds' /\ WorkerKnows' /\ InFlightIsAuthorized' /\ BarrierHasIntent'
  BY <1>1, <1>2 DEF WorkerHolds, Holding, WorkerKnows, InFlightIsAuthorized, BarrierHasIntent
<1>7. RetriesHold'
  BY <1>1 DEF RetriesHold
<1>8. RequestsAreOwn'
  BY <1>1, <1>2 DEF IInv, RequestsAreOwn
<1>9. ReadsAreTrue'
  BY <1>1, <1>2 DEF ReadsAreTrue
<1>10. SourceIsOutcome' /\ OutcomeIsTrue'
  BY <1>1 DEF IInv, SourceIsOutcome, OutcomeIsTrue, Bound
<1> QED BY <1>4, <1>5, <1>6, <1>7, <1>8, <1>9, <1>10 DEF IInv

-----------------------------------------------------------------------------
\* The theorems.

\* The first delivery is published and recorded, with no attempt made.
LEMMA InitHolds == Init => IInv
<1> SUFFICES ASSUME Init PROVE IInv
  OBVIOUS
<1>1. 1 \in Deliveries /\ 1 \in 0 .. N
  BY BoundsAssumption DEF Deliveries
<1>2. /\ rec \in Record /\ rec.task = 1 /\ rec.source = None
      /\ rec.status \in {"waiting", "manual"} /\ ~InFlight(rec.status)
  BY <1>1, InitialEffect, Zenon DEF Init
<1>3. worker \in Worker /\ worker.pc = "idle"
  BY Ended, Zenon DEF Init
<1>4. /\ task \in [Deliveries -> Tasks]
      /\ \A d \in Deliveries : task[d].status = (IF d = 1 THEN "published" ELSE "absent") /\ ~task[d].archived
  BY Zenon DEF Init, Tasks, TaskStates
<1>5. pr \in Remote
  BY <1>1, Zenon DEF Init, Remote
<1>6. Typed
  <2>1. /\ mode \in {"paused", "continuous", "once"} /\ batch \in SUBSET Deliveries
        /\ snapshot \in [Deliveries -> Record \cup {None}]
        /\ policy \in {"allows", "tightened", "standard"}
    BY <1>1, Zenon DEF Init
  <2>2. attempts \in Nat /\ faults \in 0 .. MaxFaults /\ moves \in 0 .. MaxMoves
    BY BoundsAssumption DEF Init
  <2>3. /\ unsettled \in BOOLEAN /\ foreign \in BOOLEAN /\ wire \in SUBSET Requests
        /\ precheck = None /\ recovering = None /\ refresh = None
    BY Zenon DEF Init
  <2> QED BY <1>2, <1>3, <1>4, <1>5, <2>1, <2>2, <2>3, Zenon DEF Typed
<1>7. LastDelivery
  BY <1>2, <1>4 DEF LastDelivery, Deliveries
<1>8. WorkerHolds /\ WorkerKnows /\ InFlightIsAuthorized
  BY <1>3, Zenon DEF WorkerHolds, Holding, WorkerKnows, InFlightIsAuthorized
<1>9. BarrierHasIntent /\ RetriesHold
  BY Zenon DEF Init, BarrierHasIntent, RetriesHold
<1>10. RequestsAreOwn
  BY <1>3, Zenon DEF Init, RequestsAreOwn
<1>11. ReadsAreTrue
  BY <1>3, Zenon DEF Init, ReadsAreTrue
<1>12. SourceIsOutcome /\ OutcomeIsTrue
  BY <1>2, NoneIsNoAnswer DEF SourceIsOutcome, OutcomeIsTrue
<1> QED BY <1>6, <1>7, <1>8, <1>9, <1>10, <1>11, <1>12 DEF IInv

\* Every step of the merge worker, of recovery, of a delivery, of the
\* operator and of GitHub keeps the invariant.
LEMMA StepHolds == IInv /\ [Next]_vars => IInv'
<1> SUFFICES ASSUME IInv, [Next]_vars PROVE IInv'
  BY Zenon
<1>1. CASE PassStep
  BY <1>1, PassBeginsHolds, ClaimBranchHolds, CheckHolds, MergeAttemptHolds, MergeReturnsHolds,
     ReconcileMergeHolds, SettleHolds DEF PassStep
<1>2. CASE RecoveryStep \/ ObservationStep
  BY <1>2, RecoverPrecheckHolds, RetryPrecheckHolds, ReadPRHolds, SavePRHolds, Zenon
     DEF RecoveryStep, ObservationStep
<1>3. CASE DeliveryStep
  BY <1>3, DeliveryHolds, CompleteHolds DEF DeliveryStep
<1>4. CASE OperatorStep
  BY <1>4, OperatorHolds
<1>5. CASE OutsideStep
  BY <1>5, GitHubActsHolds, PeopleHold, RestartHolds, Zenon DEF OutsideStep
<1>6. CASE UNCHANGED vars
  <2> USE <1>6 DEF vars
  <2>1. Typed'
    BY DEF IInv, Typed
  <2>2. LastDelivery' /\ SourceIsOutcome' /\ BarrierHasIntent' /\ WorkerHolds' /\ WorkerKnows'
    BY Zenon DEF IInv, LastDelivery, SourceIsOutcome, BarrierHasIntent, WorkerHolds, Holding, WorkerKnows
  <2>3. RetriesHold' /\ RequestsAreOwn'
    BY Zenon DEF IInv, RetriesHold, RequestsAreOwn
  <2>4. InFlightIsAuthorized'
    BY Zenon DEF IInv, InFlightIsAuthorized, UnfinishedBranchWork
  <2>5. ReadsAreTrue' /\ OutcomeIsTrue'
    BY Zenon DEF IInv, ReadsAreTrue, MergedAt, Bound, SamePR, OutcomeIsTrue
  <2> QED BY <2>1, <2>2, <2>3, <2>4, <2>5, Zenon DEF IInv
<1> QED BY <1>1, <1>2, <1>3, <1>4, <1>5, <1>6 DEF Next

\* A recorded merge happened, at the reviewed head and into the default branch,
\* and was the service's own when the record says so.
THEOREM OutcomesAreTrue == Spec => []OutcomeIsTrue
<1>1. IInv => OutcomeIsTrue
  BY Zenon DEF IInv
<1> QED BY <1>1, InitHolds, StepHolds, PTL DEF Spec

\* What a step may do to the saved record.
IntentKept ==
    InFlight(rec.status) =>
       \/ rec'.task = rec.task /\ rec'.attempt = rec.attempt /\ rec'.status = rec.status
       \/ worker.pc = "settle" /\ worker.obs.task = rec.task /\ worker.obs.attempt = rec.attempt
EndKept ==
    rec.status \in {"merged", "closed"} =>
       \/ /\ rec'.task = rec.task /\ rec'.status = rec.status
          /\ rec.source = "confirmed" => rec'.source = "confirmed"
       \/ rec'.task # rec.task /\ snapshot'[rec.task] = rec
RevokedKept == rec'.task = rec.task /\ ~rec.authorized => ~rec'.authorized
HistoryStep == IntentKept /\ EndKept /\ RevokedKept

\* A settlement that applies, of the worker or of recovery.
LEMMA SettlementKeeps ==
    ASSUME IInv, NEW e, NEW s \in Settlement, SettleApplies(e, s), rec' = Settled(s),
           InFlight(rec.status) => worker.pc = "settle" /\ e = worker.obs
    PROVE  HistoryStep
<1>1. /\ rec' \in Record /\ rec'.task = rec.task /\ rec'.status = s.status
      /\ rec'.authorized => rec.authorized
      /\ rec.source = "confirmed" /\ ~IsCandidate(rec) => rec'.source = "confirmed"
  BY SettledEffect, Zenon DEF IInv, Typed
<1>2. IntentKept
  BY Zenon DEF IntentKept, SettleApplies
<1>3. EndKept
  BY <1>1 DEF EndKept, SettleApplies, IsCandidate, Pending
<1> QED BY <1>1, <1>2, <1>3 DEF HistoryStep, RevokedKept

\* Every step keeps the history of the record.
LEMMA HistoryHolds == IInv /\ [Next]_vars => HistoryStep
<1> SUFFICES ASSUME IInv, [Next]_vars PROVE HistoryStep
  BY Zenon
<1>0. rec \in Record /\ worker \in Worker /\ attempts \in Nat
  BY Zenon DEF IInv, Typed
<1>1. ASSUME rec' = rec PROVE HistoryStep
  BY <1>1 DEF HistoryStep, IntentKept, EndKept, RevokedKept
<1>2. CASE \/ StartPass \/ LoadCandidate \/ ClaimBranch \/ Check \/ MergeReturns \/ ReconcileMerge
           \/ RecoverPrecheck \/ ReadPR
  BY <1>1, <1>2, Zenon DEF StartPass, LoadCandidate, ClaimBranch, Check, MergeReturns, ReconcileMerge,
                    RecoverPrecheck, ReadPR
<1>3. CASE MergeAttempt
  <2>1. \/ rec' = rec
        \/ /\ ClaimAccepts(worker.obs, worker.mode = "continuous")
           /\ rec' = Intent(worker.obs, attempts + 1, rec.pr)
    BY <1>3, Zenon DEF MergeAttempt, Intent
  <2>2. CASE /\ ClaimAccepts(worker.obs, worker.mode = "continuous")
             /\ rec' = Intent(worker.obs, attempts + 1, rec.pr)
    BY <2>2 DEF ClaimAccepts, HistoryStep, IntentKept, EndKept, RevokedKept, InFlight
  <2> QED BY <1>1, <2>1, <2>2
<1>4. CASE Settle
  <2>1. worker.pc = "settle" /\ worker.settlement \in Settlement
    BY <1>0, <1>4 DEF Settle, Worker
  <2>2. \/ rec' = rec
        \/ SettleApplies(worker.obs, worker.settlement) /\ rec' = Settled(worker.settlement)
    BY <1>4, Zenon DEF Settle
  <2> QED BY <1>1, <2>1, <2>2, SettlementKeeps, Zenon
<1>5. CASE RetryPrecheck
  <2>1. recovering \in Prechecks /\ recovering.settlement \in Settlement /\ ~InFlight(rec.status)
    BY <1>5, Zenon DEF RetryPrecheck, IInv, Typed, RetriesHold, Prechecks
  <2>2. \/ rec' = rec
        \/ /\ SettleApplies(recovering.expected, recovering.settlement)
           /\ rec' = Settled(recovering.settlement)
    BY <1>5, Zenon DEF RetryPrecheck
  <2> QED BY <1>1, <2>1, <2>2, SettlementKeeps
<1>6. CASE SavePR
  <2>1. refresh \in PullRequest /\ rec' = RecordPRObservation(refresh)
    BY <1>6, Zenon DEF SavePR, IInv, Typed
  <2>2. /\ rec'.task = rec.task /\ rec'.attempt = rec.attempt
        /\ rec'.authorized => rec.authorized
        /\ InFlight(rec.status) => rec'.status = rec.status
        /\ rec.status \in {"merged", "closed"} => rec'.status = rec.status /\ rec'.source = rec.source
    BY <1>0, <2>1, ObservationEffect, Zenon
  <2> QED BY <2>2, Zenon DEF HistoryStep, IntentKept, EndKept, RevokedKept
<1>7. CASE DeliveryStep
  <2>1. PICK d \in Deliveries : \/ Plan(d) \/ Dispatch(d) \/ Push(d) \/ Confirm(d) \/ FailTask(d)
                                \/ RetryTask(d) \/ CancelTask(d)
                                \/ Complete(d)
    BY <1>7, Zenon DEF DeliveryStep
  <2>2. CASE \/ Plan(d) \/ Dispatch(d) \/ Push(d) \/ Confirm(d) \/ FailTask(d) \/ RetryTask(d)
             \/ CancelTask(d)
    BY <1>1, <2>2, Zenon DEF Plan, Dispatch, Push, Confirm, FailTask, RetryTask, CancelTask
  <2>3. CASE Complete(d)
    <3>1. d # rec.task
      BY <2>3 DEF Complete, IInv, LastDelivery, Typed, Record, Deliveries
    <3>2. CASE InFlight(rec.status)
      BY <1>1, <2>3, <3>2, Zenon DEF Complete
    <3>3. CASE ~InFlight(rec.status)
      <4>1. rec' = InitialMerge(d) /\ snapshot' = [snapshot EXCEPT ![rec.task] = rec]
        BY <2>3, <3>1, <3>3, Zenon DEF Complete
      <4>2. rec'.task = d
        BY <4>1, InitialEffect, Zenon
      <4>3. snapshot'[rec.task] = rec
        BY <1>0, <4>1 DEF IInv, Typed, Record
      <4> QED BY <3>1, <3>3, <4>2, <4>3 DEF HistoryStep, IntentKept, EndKept, RevokedKept
    <3> QED BY <3>2, <3>3, Zenon
  <2> QED BY <2>1, <2>2, <2>3
<1>8. CASE OperatorStep
  <2>1. CASE Pause \/ Resume \/ RunOnce \/ FinishRunOnce \/ SaveConfig
    BY <1>1, <2>1, Zenon DEF Pause, Resume, RunOnce, FinishRunOnce, SaveConfig
  <2>2. ASSUME NEW d \in Deliveries, Archive(d) PROVE HistoryStep
    <3>1. rec' = RevokedMerges(d)
      BY <2>2, Zenon DEF Archive
    <3>2. /\ rec'.task = rec.task /\ rec'.attempt = rec.attempt /\ rec'.source = rec.source
          /\ rec'.authorized => rec.authorized
          /\ rec.status \in {"merged", "closed"} \/ InFlight(rec.status) => rec'.status = rec.status
      BY <1>0, <3>1, RevokedEffect
    <3> QED BY <3>2, Zenon DEF HistoryStep, IntentKept, EndKept, RevokedKept
  <2> QED BY <1>8, <2>1, <2>2, Zenon DEF OperatorStep
<1>9. CASE OutsideStep \/ UNCHANGED vars
  <2>1. rec' = rec
    BY <1>9, Zenon DEF OutsideStep, GitHubActs, ChecksFinish, SomeoneMoves, Restart, vars
  <2> QED BY <1>1, <2>1
<1> QED BY <1>2, <1>3, <1>4, <1>5, <1>6, <1>7, <1>8, <1>9
        DEF Next, PassStep, RecoveryStep, ObservationStep

\* No write of the service forgets an unresolved intent or a recorded outcome,
\* or gives a revoked delivery its authority back.
THEOREM MergeHistoryIsKept == Spec => MergeHistoryKept
<1>1. IInv /\ [Next]_vars => [IntentKept]_vars /\ [EndKept]_vars /\ [RevokedKept]_vars
  BY HistoryHolds DEF HistoryStep
<1>2. Spec => [][IntentKept]_vars /\ [][EndKept]_vars /\ [][RevokedKept]_vars
  BY <1>1, InitHolds, StepHolds, PTL DEF Spec
<1> QED BY <1>2 DEF MergeHistoryKept, UnresolvedIntentKept, OutcomeKept, AuthorityNeverReturns,
                    IntentKept, EndKept, RevokedKept
=============================================================================
