-------------------------- MODULE AutoMergeAttempts --------------------------
(***************************************************************************)
(* How many merge requests a branch can cost: one for each delivery, and   *)
(* one more for each fault or move by other people.  The bound completes   *)
(* the type invariant of AutoMerge.                                        *)
(***************************************************************************)
EXTENDS AutoMergeProofs

\* Whether the record may lead to another attempt without a further fault or
\* move, counted as the attempts it may still cost.
OpenAt(d) == pr.state = "open" /\ Bound(pr, d)
Live == rec.authorized /\ rec.status \in {"waiting", "manual"}
Trying == worker.pc = "attempt" /\ worker.obs.task = rec.task
Answered ==
    \/ worker.pc = "sent" /\ worker.reply = "refused"
    \/ worker.pc = "sent" /\ worker.reply = None /\ OpenAt(rec.task)
    \/ worker.pc = "settle" /\ worker.settlement.revoke /\ worker.settlement.status = "manual"
Credit ==
    IF Live
    THEN IF Trying THEN IF pr.state = "merged" \/ OpenAt(rec.task) THEN 1 ELSE 2
                   ELSE IF pr.state = "merged" THEN 0 ELSE 1
    ELSE IF pr.state # "merged" /\ InFlight(rec.status) /\ ~Answered THEN 1 ELSE 0
AttemptsPaid == attempts + Credit <= rec.task + faults + moves

\* A request is answered at most once.
AnsweredOnce ==
    worker.pc = "sent" /\ worker.reply # None => \A q \in wire : q.attempt # worker.obs.attempt
-----------------------------------------------------------------------------
\* The number of attempts.

\* At most two further attempts are open, and two only for a worker that has
\* checked a pull request which has moved since.
LEMMA CreditRange ==
    /\ Credit \in {0, 1, 2} /\ Credit' \in {0, 1, 2}
    /\ ~Trying => Credit \in {0, 1}
    /\ ~Trying' => Credit' \in {0, 1}
BY DEF Credit

\* A step that pays for what its credit grows by.
LEMMA PaidStep ==
    ASSUME IInv, IInv', AttemptsPaid, attempts' = attempts, NEW k \in Nat, Credit' <= Credit + k,
           rec.task + faults + moves + k <= rec'.task + faults' + moves'
    PROVE  AttemptsPaid'
<1>1. /\ attempts \in Nat /\ rec.task \in Nat /\ faults \in Nat /\ moves \in Nat
      /\ attempts' \in Nat /\ rec'.task \in Nat /\ faults' \in Nat /\ moves' \in Nat
  BY DEF IInv, Typed, Record, Deliveries
<1>2. PICK c \in Nat : c = Credit
  BY CreditRange
<1>3. PICK n \in Nat : n = Credit'
  BY CreditRange
<1>4. attempts + c <= rec.task + faults + moves /\ n <= c + k
  BY <1>2, <1>3 DEF AttemptsPaid
<1>5. attempts' + n <= rec'.task + faults' + moves'
  BY <1>1, <1>4
<1> QED BY <1>3, <1>5, Zenon DEF AttemptsPaid

\* A step without a fault or a move, of the same delivery.
LEMMA FreeStep ==
    ASSUME IInv, IInv', AttemptsPaid, UNCHANGED <<attempts, faults, moves>>, rec'.task = rec.task,
           Credit' <= Credit
    PROVE  AttemptsPaid'
<1>1. rec.task \in Nat /\ faults \in Nat /\ moves \in Nat
  BY DEF IInv, Typed, Record, Deliveries
<1>2. Credit' <= Credit + 0
  BY CreditRange
<1> QED BY <1>1, <1>2, PaidStep

\* A fault of a step that leaves the worker away from an attempt, and a move of
\* a person, pay for themselves.
LEMMA FaultStep ==
    ASSUME IInv, IInv', AttemptsPaid, UNCHANGED <<attempts, moves>>, Fault, rec'.task = rec.task,
           Credit' <= Credit + 1
    PROVE  AttemptsPaid'
<1>1. rec.task \in Nat /\ faults \in Nat /\ moves \in Nat /\ faults' = faults + 1
  BY DEF IInv, Typed, Record, Deliveries, Fault
<1> QED BY <1>1, PaidStep

\* A step of the worker that is not an answer: it costs nothing unless it goes
\* to an attempt, and then the pull request was just read as open.
LEMMA DecisionPaid ==
    ASSUME IInv, IInv', AttemptsPaid, UNCHANGED <<pr, rec, attempts, moves>>, Fault \/ NoFault,
           worker.pc \in {"idle", "pass", "loaded", "check", "reconcile"}, worker'.pc # "sent",
           worker'.pc = "attempt" => pr.state = "open" /\ Bound(pr, worker'.obs.task)
    PROVE  AttemptsPaid'
<1>1. ~Trying /\ ~Answered
  BY DEF Trying, Answered
<1>2. Trying' => OpenAt(rec.task) /\ pr.state # "merged"
  BY DEF Trying, OpenAt
<1>3. (OpenAt(rec.task))' = OpenAt(rec.task) /\ Live' = Live
  BY DEF OpenAt, Bound, Live
<1>4. Credit' <= Credit
  <2>1. CASE Live
    BY <1>1, <1>2, <1>3, <2>1 DEF Credit
  <2>2. CASE ~Live
    BY <1>1, <1>3, <2>2 DEF Credit
  <2> QED BY <2>1, <2>2
<1>5. Credit' <= Credit + 1
  BY <1>4, CreditRange
<1> QED BY <1>4, <1>5, FreeStep, FaultStep DEF NoFault

\* The pass up to its attempt, and reconciliation.
LEMMA PassPaid ==
    ASSUME IInv, IInv', AttemptsPaid,
           StartPass \/ LoadCandidate \/ ClaimBranch \/ Check \/ ReconcileMerge
    PROVE  AttemptsPaid'
<1>0. worker \in Worker
  BY DEF IInv, Typed
<1>1. ASSUME NEW s \in Statuses, NEW c \in Sources, NEW r \in BOOLEAN, Decide(s, c, r)
      PROVE  worker'.pc = "settle"
  BY <1>0, <1>1, DecideEffect
<1>2. PassEnds => worker'.pc = "idle"
  BY Ended DEF PassEnds
<1>3. worker' = [NoWorker EXCEPT !.pc = "reconcile", !.obs = worker.obs] => worker'.pc = "reconcile"
  BY <1>0, ReconcileEffect
<1>4. /\ {"manual", "waiting", "merged", "closed"} \subseteq Statuses
      /\ None \in Sources /\ "observed" \in Sources
  BY DEF Statuses, Sources
<1>5. CASE StartPass
  BY <1>0, <1>5, DecisionPaid DEF StartPass, NoFault, counters, Worker
<1>6. CASE LoadCandidate
  <2>1. worker'.pc \in {"loaded", "idle"}
    BY <1>0, <1>6, Ended, Zenon DEF LoadCandidate, Worker
  <2> QED BY <1>6, <2>1, DecisionPaid DEF LoadCandidate, NoFault, counters
<1>7. CASE ClaimBranch
  <2>1. \/ worker' = [NoWorker EXCEPT !.pc = "reconcile", !.obs = worker.obs]
        \/ PassEnds \/ Decide("manual", None, TRUE) \/ Goto("check")
    BY <1>7, Zenon DEF ClaimBranch
  <2>2. Goto("check") => worker'.pc = "check"
    BY <1>0, GotoEffect
  <2>3. worker'.pc \in {"reconcile", "idle", "settle", "check"}
    BY <1>1, <1>2, <1>3, <1>4, <2>1, <2>2, Zenon
  <2> QED BY <1>7, <2>3, DecisionPaid DEF ClaimBranch, NoFault, counters
<1>8. CASE ReconcileMerge
  <2>1. worker.obs.status \in Statuses /\ pr.state \in {"open", "closed", "merged"}
    BY Zenon DEF IInv, Typed, Worker, Record, Remote
  <2>2. \/ Decide(worker.obs.status, None, FALSE) \/ Decide("manual", None, TRUE)
        \/ Decide("waiting", None, FALSE)
        \/ pr.state # "open" /\ Decide(pr.state, "observed", FALSE)
    BY <1>8, Zenon DEF ReconcileMerge
  <2>3. worker'.pc = "settle"
    BY <1>1, <1>4, <2>1, <2>2, Zenon
  <2>4. UNCHANGED <<pr, rec, attempts, moves>> /\ (Fault \/ NoFault)
    BY <1>8, Zenon DEF ReconcileMerge
  <2> QED BY <1>8, <2>3, <2>4, DecisionPaid DEF ReconcileMerge
<1>9. CASE Check
  <2>1. UNCHANGED <<pr, rec, attempts, moves>> /\ (Fault \/ NoFault) /\ worker.pc = "check"
    BY <1>9, Zenon DEF Check
  <2>2. pr.state \in {"open", "closed", "merged"} /\ pr.checks \in {"pending", "ready", "failing", "rewritten"}
    BY DEF IInv, Typed, Remote
  <2>3. \/ Decide("manual", None, TRUE) \/ Decide("waiting", None, FALSE) \/ Decide("manual", None, FALSE)
        \/ worker' = [NoWorker EXCEPT !.pc = "reconcile", !.obs = worker.obs]
        \/ pr.state = "open" /\ Bound(pr, worker.obs.task) /\ Goto("attempt")
    BY <1>9, <2>2, CheckOutcome, Zenon
  <2>4. Goto("attempt") => worker'.pc = "attempt" /\ worker'.obs = worker.obs
    BY <1>0, GotoEffect
  <2>5. \/ worker'.pc \in {"settle", "reconcile"}
        \/ /\ worker'.pc = "attempt" /\ worker'.obs = worker.obs
           /\ pr.state = "open" /\ Bound(pr, worker.obs.task)
    BY <1>1, <1>3, <1>4, <2>3, <2>4, Zenon
  <2> QED BY <2>1, <2>5, DecisionPaid
<1> QED BY <1>5, <1>6, <1>7, <1>8, <1>9, Zenon

\* GitHub's answer: a refusal and a conflict over a head that moved were paid
\* for, a lost answer is a fault, and a merge ends the matter.
LEMMA MergeReturnsPaid ==
    ASSUME IInv, IInv', AttemptsPaid, MergeReturns
    PROVE  AttemptsPaid'
<1>0. /\ worker \in Worker /\ worker.pc = "sent" /\ rec.status = "merging"
      /\ UNCHANGED <<pr, rec, attempts, moves>>
  BY Zenon DEF IInv, Typed, MergeReturns, InFlightIsAuthorized
<1>1. ~Live /\ ~Live' /\ InFlight(rec.status) /\ InFlight(rec'.status)
  BY <1>0 DEF Live, InFlight
<1>2. CASE Fault
  <2>1. Credit' <= Credit + 1
    BY <1>1, CreditRange DEF Credit
  <2> QED BY <1>0, <1>2, <2>1, FaultStep, Zenon
<1>3. CASE worker.reply = "merged" /\ NoFault
  <2>1. pr.state = "merged" /\ pr' = pr
    BY <1>0, <1>3, Zenon DEF IInv, ReadsAreTrue, MergedAt
  <2>2. Credit' <= Credit
    BY <1>1, <2>1 DEF Credit
  <2> QED BY <1>0, <1>3, <2>2, FreeStep DEF NoFault
<1>4. CASE worker.reply = "refused" /\ Decide("manual", None, TRUE) /\ NoFault
  <2>1. worker'.pc = "settle" /\ worker'.settlement.revoke /\ worker'.settlement.status = "manual"
    BY <1>0, <1>4, DecideEffect, Zenon DEF Statuses, Sources
  <2>2. Answered'
    BY <2>1, Zenon DEF Answered
  <2>3. Credit' <= Credit
    BY <1>1, <2>2, CreditRange DEF Credit
  <2> QED BY <1>0, <1>4, <2>3, FreeStep DEF NoFault
<1>5. CASE worker.reply = "conflict" /\ NoFault
  <2>1. ~Answered
    BY <1>0, <1>5, NoneIsNoAnswer DEF Answered
  <2>2. Credit' <= Credit
    BY <1>0, <1>1, <2>1 DEF Credit
  <2> QED BY <1>0, <1>5, <2>2, FreeStep DEF NoFault
<1> QED BY <1>2, <1>3, <1>4, <1>5, Zenon DEF MergeReturns

\* An attempt spends the credit of the record it claims.
LEMMA MergeAttemptPaid ==
    ASSUME IInv, IInv', AttemptsPaid, MergeAttempt
    PROVE  AttemptsPaid'
<1> DEFINE intent == Intent(worker.obs, attempts + 1, rec.pr)
<1>0. /\ worker \in Worker /\ worker.obs \in Record /\ rec \in Record /\ attempts \in Nat /\ faults \in Nat
      /\ moves \in Nat /\ rec.task \in Nat /\ rec.authorized \in BOOLEAN
      /\ worker.pc = "attempt" /\ pr' = pr /\ moves' = moves
  BY DEF IInv, Typed, Worker, Record, Deliveries, MergeAttempt
<1>1. \/ /\ ClaimAccepts(worker.obs, worker.mode = "continuous") /\ attempts' = attempts + 1
         /\ rec' = intent /\ NoFault /\ worker' = Sending(intent)
      \/ /\ ClaimAccepts(worker.obs, worker.mode = "continuous") /\ attempts' = attempts + 1
         /\ rec' = intent /\ Fault /\ worker' = GivingUp(intent)
      \/ /\ ClaimAccepts(worker.obs, worker.mode = "continuous") /\ attempts' = attempts + 1
         /\ PassEnds /\ Fault /\ UNCHANGED rec
      \/ PassEnds /\ UNCHANGED <<rec, attempts, faults>>
  BY Zenon DEF MergeAttempt, Intent, Sending, GivingUp
<1>2. ~Answered
  BY <1>0 DEF Answered
<1>3. ASSUME ClaimAccepts(worker.obs, worker.mode = "continuous")
      PROVE  Live /\ Trying /\ Credit = IF pr.state = "merged" \/ OpenAt(rec.task) THEN 1 ELSE 2
  BY <1>0, <1>3 DEF ClaimAccepts, Live, Trying, Credit
<1>4. ASSUME ClaimAccepts(worker.obs, worker.mode = "continuous"), attempts' = attempts + 1,
             rec'.task = rec.task, Fault, Credit' <= 1
      PROVE  AttemptsPaid'
  <2>1. faults' = faults + 1
    BY <1>4 DEF Fault
  <2>2. PICK c \in {0, 1} : c = Credit'
    BY <1>4, CreditRange
  <2>3. attempts + 1 <= rec.task + faults + moves
    BY <1>0, <1>3, <1>4 DEF AttemptsPaid
  <2>4. attempts' + c <= rec'.task + faults' + moves'
    BY <1>0, <1>4, <2>1, <2>2, <2>3
  <2> QED BY <2>2, <2>4 DEF AttemptsPaid
<1>5. ASSUME rec' = intent, ClaimAccepts(worker.obs, worker.mode = "continuous")
      PROVE  /\ rec' \in Record /\ rec'.status = "merging" /\ rec'.task = rec.task
             /\ ~Live' /\ InFlight(rec'.status)
  <2>1. rec' \in Record /\ rec'.status = "merging" /\ rec'.task = worker.obs.task
    BY <1>0, <1>5, ClaimEffect
  <2> QED BY <1>5, <2>1 DEF ClaimAccepts, Live, InFlight
<1>6. CASE /\ ClaimAccepts(worker.obs, worker.mode = "continuous") /\ attempts' = attempts + 1
           /\ rec' = intent /\ NoFault /\ worker' = Sending(intent)
  <2>1. worker'.pc = "sent" /\ worker'.reply = None
    BY <1>5, <1>6, SentEffect, Zenon
  <2>2. OpenAt(rec.task)' = OpenAt(rec.task)
    BY <1>0, <1>5, <1>6 DEF OpenAt, Bound
  <2>3. OpenAt(rec.task) => Answered'
    BY <2>1, <2>2 DEF Answered
  <2>4. Credit' = IF pr.state = "merged" \/ Answered' THEN 0 ELSE 1
    BY <1>0, <1>5, <1>6, Zenon DEF Credit
  <2>5. PICK c \in {0, 1} : c = Credit'
    BY <2>4
  <2>6. attempts + 1 + c <= rec.task + faults + moves
    <3>1. CASE pr.state = "merged" \/ OpenAt(rec.task)
      BY <1>0, <1>3, <1>6, <2>3, <2>4, <2>5, <3>1 DEF AttemptsPaid
    <3>2. CASE ~(pr.state = "merged" \/ OpenAt(rec.task))
      BY <1>0, <1>3, <1>6, <2>5, <3>2 DEF AttemptsPaid
    <3> QED BY <3>1, <3>2, Zenon
  <2>7. attempts' + c <= rec'.task + faults' + moves'
    BY <1>0, <1>5, <1>6, <2>6 DEF NoFault
  <2> QED BY <2>5, <2>7 DEF AttemptsPaid
<1>7. CASE /\ ClaimAccepts(worker.obs, worker.mode = "continuous") /\ attempts' = attempts + 1
           /\ rec' = intent /\ Fault /\ worker' = GivingUp(intent)
  <2>1. Credit' <= 1
    BY <1>5, <1>7 DEF Credit
  <2> QED BY <1>4, <1>5, <1>7, <2>1, Zenon
<1>8. CASE PassEnds /\ UNCHANGED rec
  <2>1. worker'.pc = "idle"
    BY <1>8, Ended DEF PassEnds
  <2>2. ~Trying' /\ ~Answered' /\ Live' = Live
    BY <1>8, <2>1 DEF Trying, Answered, Live
  <2>3. Credit' <= 1
    BY <2>2 DEF Credit
  <2>4. Credit' <= Credit
    BY <1>0, <1>2, <1>8, <2>2 DEF Credit
  <2>5. CASE UNCHANGED <<attempts, faults>>
    BY <1>0, <1>8, <2>4, <2>5, FreeStep
  <2> QED BY <1>1, <1>4, <1>5, <1>6, <1>7, <1>8, <2>3, <2>5, Zenon
<1> QED BY <1>1, <1>6, <1>7, <1>8, Zenon

\* A record that no settlement of an intent writes: it becomes no candidate
\* that it was not before.
LEMMA QuietRecordPaid ==
    ASSUME IInv, IInv', AttemptsPaid, UNCHANGED <<pr, worker, attempts, moves>>, Fault \/ NoFault,
           rec'.task = rec.task, Live' => Live,
           InFlight(rec'.status) => InFlight(rec.status) /\ ~Live
    PROVE  AttemptsPaid'
<1>1. Trying' = Trying /\ Answered' = Answered /\ (OpenAt(rec.task))' = OpenAt(rec.task)
  BY DEF Trying, Answered, OpenAt, Bound
<1>2. Credit' <= Credit
  <2>1. CASE Live'
    BY <1>1, <2>1 DEF Credit
  <2>2. CASE ~Live' /\ InFlight(rec'.status)
    BY <1>1, <2>2 DEF Credit
  <2>3. CASE ~Live' /\ ~InFlight(rec'.status)
    BY <2>3, CreditRange DEF Credit
  <2> QED BY <2>1, <2>2, <2>3, Zenon
<1>3. Credit' <= Credit + 1
  BY <1>2, CreditRange
<1> QED BY <1>2, <1>3, FreeStep, FaultStep DEF NoFault

\* A settlement leads back to a candidate only from one, or from an intent
\* whose further attempt is paid for.
LEMMA SettlePaid ==
    ASSUME IInv, IInv', AttemptsPaid, Settle
    PROVE  AttemptsPaid'
<1> DEFINE s == worker.settlement
<1>0. /\ worker.pc = "settle" /\ worker'.pc = "idle" /\ pr' = pr /\ UNCHANGED <<attempts, moves>>
  BY Ended, Zenon DEF Settle, PassEnds
<1>1. /\ s \in Settlement
      /\ s.status \in {"merging", "uncertain"} => InFlight(worker.obs.status)
      /\ InFlight(worker.obs.status) => InFlight(rec.status) /\ SettleApplies(worker.obs, s)
      /\ ~InFlight(worker.obs.status) => ~InFlight(rec.status)
  BY <1>0, Settling, Zenon
<1>2. \/ NoFault /\ SettleApplies(worker.obs, s) /\ rec' = Settled(s)
      \/ NoFault /\ ~SettleApplies(worker.obs, s) /\ rec' = rec
      \/ Fault /\ rec' = rec
  BY Zenon DEF Settle
<1> HIDE DEF s
<1>3. ~Trying /\ ~Trying' /\ ~Answered'
  BY <1>0 DEF Trying, Answered
<1>4. CASE Fault /\ rec' = rec
  <2>1. Credit' <= Credit + 1
    BY <1>3, CreditRange
  <2> QED BY <1>0, <1>4, <2>1, FaultStep
<1>5. CASE NoFault /\ ~SettleApplies(worker.obs, s) /\ rec' = rec
  <2>1. ~InFlight(rec.status) /\ ~InFlight(rec'.status) /\ Live' = Live
    BY <1>1, <1>5 DEF Live
  <2>2. Credit' <= Credit
    BY <1>0, <1>3, <2>1 DEF Credit
  <2> QED BY <1>0, <1>5, <2>2, FreeStep DEF NoFault
<1>6. CASE NoFault /\ SettleApplies(worker.obs, s) /\ rec' = Settled(s)
  <2>0. rec \in Record /\ rec.status \in Statuses
    BY DEF IInv, Typed, Record
  <2>1. /\ rec' \in Record /\ rec'.task = rec.task /\ rec'.status = s.status
        /\ rec'.authorized => rec.authorized
        /\ IsCandidate(rec) /\ s.revoke => ~rec'.authorized
        /\ ~IsCandidate(rec) => rec.status \in {"merged", "closed"} /\ rec.status = s.status
    BY <1>1, <1>6, <2>0, SettledEffect, Zenon DEF SettleApplies
  <2>2. Answered => s.revoke /\ s.status = "manual"
    BY <1>0 DEF Answered, s
  <2>3. CASE Live'
    <3>1. IsCandidate(rec) /\ rec.authorized /\ ~Answered
      BY <2>1, <2>2, <2>3, Zenon DEF Live
    <3>2. Live \/ InFlight(rec.status)
      BY <2>0, <3>1, Zenon DEF Live, IsCandidate, Pending, InFlight
    <3>3. Credit' <= Credit
      BY <1>0, <1>3, <2>3, <3>1, <3>2 DEF Credit
    <3> QED BY <1>0, <1>6, <2>1, <3>3, FreeStep, Zenon DEF NoFault
  <2>4. CASE ~Live' /\ InFlight(rec'.status)
    <3>1. InFlight(rec.status) /\ ~Live /\ ~Answered
      BY <1>1, <2>1, <2>2, <2>4, Zenon DEF InFlight, Live
    <3>2. Credit' <= Credit
      BY <1>0, <1>3, <2>4, <3>1 DEF Credit
    <3> QED BY <1>0, <1>6, <2>1, <3>2, FreeStep, Zenon DEF NoFault
  <2>5. CASE ~Live' /\ ~InFlight(rec'.status)
    <3>1. Credit' <= Credit
      BY <2>5, CreditRange DEF Credit
    <3> QED BY <1>0, <1>6, <2>1, <3>1, FreeStep, Zenon DEF NoFault
  <2> QED BY <2>3, <2>4, <2>5, Zenon
<1> QED BY <1>2, <1>4, <1>5, <1>6

\* The other writers of the record give no new authority.
LEMMA WritersPaid ==
    ASSUME IInv, IInv', AttemptsPaid,
           RetryPrecheck \/ SavePR \/ \E d \in Deliveries : Archive(d)
    PROVE  AttemptsPaid'
<1>0. rec \in Record /\ rec.status \in Statuses
  BY Zenon DEF IInv, Typed, Record
<1>1. CASE RetryPrecheck
  <2> DEFINE c == recovering.settlement
  <2>1. /\ UNCHANGED <<pr, worker, attempts, moves>> /\ (Fault \/ NoFault)
        /\ rec' = rec \/ (SettleApplies(recovering.expected, c) /\ rec' = Settled(c))
    BY <1>1 DEF RetryPrecheck
  <2>2. /\ c \in Settlement /\ ~InFlight(rec.status) /\ c.status \notin {"merging", "uncertain"}
    BY <1>1, Zenon DEF RetryPrecheck, IInv, Typed, RetriesHold, Prechecks
  <2> HIDE DEF c
  <2>3. CASE rec' = rec
    BY <2>1, <2>2, <2>3, QuietRecordPaid DEF Live
  <2>4. CASE SettleApplies(recovering.expected, c) /\ rec' = Settled(c)
    <3>1. /\ rec'.task = rec.task /\ rec'.status = c.status
          /\ rec'.authorized => rec.authorized
          /\ ~IsCandidate(rec) => rec.status \in {"merged", "closed"} /\ rec.status = c.status
      BY <1>0, <2>2, <2>4, SettledEffect, Zenon DEF SettleApplies
    <3>2. Live' => Live
      BY <1>0, <2>2, <3>1, Zenon DEF Live, IsCandidate, Pending, InFlight
    <3>3. ~InFlight(rec'.status)
      BY <2>2, <3>1, Zenon DEF InFlight
    <3> QED BY <2>1, <3>1, <3>2, <3>3, QuietRecordPaid, Zenon
  <2> QED BY <2>1, <2>3, <2>4, Zenon
<1>2. CASE SavePR
  <2>1. /\ refresh \in PullRequest /\ rec' = RecordPRObservation(refresh)
        /\ UNCHANGED <<pr, worker, attempts, moves>> /\ NoFault
    BY <1>2, Zenon DEF SavePR, IInv, Typed, counters, NoFault
  <2>2. /\ rec'.task = rec.task
        /\ rec'.authorized => rec.authorized
        /\ rec.status \in {"merged", "closed"} => rec'.status = rec.status
        /\ InFlight(rec.status) => rec'.status = rec.status
        /\ ~InFlight(rec.status) => ~InFlight(rec'.status)
    BY <1>0, <2>1, ObservationEffect
  <2>3. Live' => Live
    BY <1>0, <2>2 DEF Live, InFlight, Statuses
  <2>4. InFlight(rec'.status) => InFlight(rec.status) /\ ~Live
    BY <2>2, Zenon DEF Live, InFlight
  <2> QED BY <2>1, <2>2, <2>3, <2>4, QuietRecordPaid, Zenon
<1>3. ASSUME NEW d \in Deliveries, Archive(d) PROVE AttemptsPaid'
  <2>1. /\ rec' = RevokedMerges(d)
        /\ UNCHANGED <<pr, worker, attempts, moves>> /\ NoFault
    BY <1>3 DEF Archive, engine, counters, NoFault
  <2>2. /\ rec'.task = rec.task
        /\ rec'.authorized => rec.authorized
        /\ rec.status \in {"merged", "closed"} \/ InFlight(rec.status) => rec'.status = rec.status
        /\ rec'.status \in {rec.status, "manual"}
    BY <1>0, <2>1, RevokedEffect
  <2>3. Live' => Live
    BY <1>0, <2>2 DEF Live, InFlight, Statuses
  <2>4. InFlight(rec'.status) => InFlight(rec.status) /\ ~Live
    BY <2>2 DEF Live, InFlight
  <2> QED BY <2>1, <2>2, <2>3, <2>4, QuietRecordPaid, Zenon
<1> QED BY <1>1, <1>2, <1>3

\* A follow-up delivery pays for the first attempt of its own record, and none
\* moves the branch under an attempt.
LEMMA DeliveryPaid ==
    ASSUME IInv, IInv', AttemptsPaid, DeliveryStep
    PROVE  AttemptsPaid'
<1>0. PICK d \in Deliveries : \/ Plan(d) \/ Dispatch(d) \/ Confirm(d) \/ FailTask(d) \/ RetryTask(d)
                              \/ CancelTask(d)
                              \/ Push(d) \/ Complete(d)
  BY Zenon DEF DeliveryStep
<1>1. CASE \/ Plan(d) \/ Dispatch(d) \/ Confirm(d) \/ FailTask(d) \/ RetryTask(d) \/ CancelTask(d)
  <2>1. UNCHANGED <<pr, rec, worker, attempts, faults, moves>>
    BY <1>1, Zenon DEF Plan, Dispatch, Confirm, FailTask, RetryTask, CancelTask, engine, counters
  <2>2. Credit' = Credit
    BY <2>1 DEF Credit, Live, Trying, Answered, OpenAt, Bound
  <2>3. Credit' <= Credit
    BY <2>2, CreditRange
  <2> QED BY <2>1, <2>3, FreeStep
<1>2. CASE Push(d)
  <2>1. /\ UNCHANGED <<rec, worker, attempts, faults, moves>>
        /\ task[d].status = "running"
    BY <1>2, Zenon DEF Push, engine, counters
  <2>2. pr.state = "open" /\ pr'.state = "open"
    <3>1. PICK c : pr' = [pr EXCEPT !.head = d, !.checks = c]
      BY <1>2, Zenon DEF Push
    <3>2. pr \in Remote /\ pr.state = "open"
      BY <1>2, Zenon DEF Push, IInv, Typed
    <3> QED BY <3>1, <3>2 DEF Remote
  <2>3. worker.pc # "attempt"
    BY <2>1, Zenon DEF IInv, WorkerKnows, AtWork
  <2>4. worker.pc # "sent"
    <3>1. ASSUME worker.pc = "sent" PROVE FALSE
      <4>1. d # worker.obs.task
        BY <2>1, <3>1 DEF IInv, InFlightIsAuthorized, LastDelivery, Typed, Record, Deliveries
      <4>2. ~task[d].archived
        BY <2>1, Zenon DEF IInv, LastDelivery
      <4> QED BY <2>1, <3>1, <4>1, <4>2, Zenon DEF IInv, InFlightIsAuthorized, UnfinishedBranchWork
    <3> QED BY <3>1, Zenon
  <2>5. ~Trying /\ ~Trying' /\ Answered' = Answered /\ Live' = Live
    BY <2>1, <2>3, <2>4, Zenon DEF Trying, Answered, Live
  <2>6. Credit' <= Credit
    BY <2>1, <2>2, <2>5 DEF Credit
  <2> QED BY <2>1, <2>6, FreeStep
<1>3. CASE Complete(d)
  <2>1. UNCHANGED <<pr, worker, attempts, faults, moves>> /\ task[d].status = "delivered"
    BY <1>3 DEF Complete, engine, counters
  <2>2. CASE InFlight(rec.status)
    <3>1. rec' = rec
      BY <1>3, <2>2, Zenon DEF Complete
    <3>2. Credit' = Credit
      BY <2>1, <3>1, Zenon DEF Credit, Live, Trying, Answered, OpenAt, Bound
    <3>3. Credit' <= Credit
      BY <3>2, CreditRange
    <3> QED BY <2>1, <3>1, <3>3, FreeStep, Zenon
  <2>3. CASE ~InFlight(rec.status)
    <3>1. rec' = InitialMerge(d)
      BY <1>3, <2>3 DEF Complete
    <3>2. rec'.task = d
      BY <3>1, InitialEffect, Zenon
    <3>3. d <= rec.task + 1 /\ rec.task \in Nat /\ d \in Nat /\ ~(d <= rec.task)
      BY <2>1, FollowUp, Zenon DEF IInv, LastDelivery
    <3>4. worker.pc = "attempt" => worker.obs.task <= rec.task /\ worker.obs.task \in Nat
      BY <2>3 DEF IInv, WorkerHolds, Holding, WorkerKnows, Typed, Worker, Record, Deliveries
    <3>5. ~Trying'
      BY <2>1, <3>2, <3>3, <3>4, Zenon DEF Trying
    <3>6. Credit' <= Credit + 1
      BY <3>5, CreditRange
    <3>7. rec.task + faults + moves + 1 <= rec'.task + faults' + moves'
      BY <2>1, <3>2, <3>3 DEF IInv, Typed
    <3> QED BY <2>1, <3>6, <3>7, PaidStep, Zenon
  <2> QED BY <2>2, <2>3, Zenon
<1> QED BY <1>0, <1>1, <1>2, <1>3

\* GitHub and the people: a conflict without a cause is a fault, every other one
\* follows a move, and a merge leaves nothing to attempt.
LEMMA OutsidePaid ==
    ASSUME IInv, IInv', AttemptsPaid, AnsweredOnce, OutsideStep
    PROVE  AttemptsPaid'
<1>0. pr \in Remote /\ worker \in Worker
  BY DEF IInv, Typed
<1>1. CASE Restart
  <2>1. worker'.pc = "idle" /\ rec' = rec /\ Fault /\ UNCHANGED <<attempts, moves>>
    BY <1>1, Ended DEF Restart, PassEnds
  <2>2. ~Trying'
    BY <2>1 DEF Trying
  <2>3. Credit' <= Credit + 1
    BY <2>2, CreditRange
  <2> QED BY <2>1, <2>3, FaultStep
<1>2. CASE ChecksFinish
  <2>1. /\ UNCHANGED <<rec, worker, attempts, faults, moves>>
        /\ pr'.state = pr.state /\ pr'.head = pr.head /\ pr'.base = pr.base
    BY <1>0, <1>2, Zenon DEF ChecksFinish, engine, counters, Remote
  <2>2. Credit' = Credit
    BY <2>1 DEF Credit, Live, Trying, Answered, OpenAt, Bound
  <2>3. Credit' <= Credit
    BY <2>2, CreditRange
  <2> QED BY <2>1, <2>3, FreeStep, Zenon
<1>3. CASE SomeoneMoves
  <2>1. UNCHANGED <<rec, worker, attempts, faults>> /\ moves' = moves + 1
    BY <1>3, Zenon DEF SomeoneMoves, engine
  <2>2. pr.state # "merged"
    BY <1>3, Zenon DEF SomeoneMoves
  <2>3. Live' = Live /\ Trying' = Trying
    BY <2>1, Zenon DEF Live, Trying
  <2>4. Credit' <= Credit + 1
    BY <2>1, <2>2, <2>3, CreditRange DEF Credit
  <2>5. rec.task + faults + moves + 1 <= rec'.task + faults' + moves'
    BY <2>1 DEF IInv, Typed, Record, Deliveries
  <2> QED BY <2>1, <2>4, <2>5, PaidStep
<1>4. CASE GitHubActs
  <2>1. PICK q \in wire, reply \in {"merged", "refused", "conflict"} :
          /\ IF reply = "merged"
             THEN /\ pr.state = "open" /\ Bound(pr, q.head)
                  /\ pr' = [pr EXCEPT !.state = "merged", !.by = "octomus"]
             ELSE UNCHANGED pr
          /\ IF reply = "conflict" /\ pr.state = "open" /\ Bound(pr, q.head) THEN Fault ELSE NoFault
          /\ worker' = IF worker.pc = "sent" /\ worker.obs.attempt = q.attempt
                       THEN [worker EXCEPT !.reply = reply] ELSE worker
          /\ UNCHANGED <<rec, attempts, moves>>
    BY <1>4 DEF GitHubActs
  <2>2. /\ worker'.pc = worker.pc /\ worker'.obs = worker.obs /\ worker'.settlement = worker.settlement
        /\ \/ worker' = worker
           \/ worker.pc = "sent" /\ worker.obs.attempt = q.attempt /\ worker'.reply = reply
    BY <1>0, <2>1 DEF Worker
  <2>3. Live' = Live /\ Trying' = Trying /\ UNCHANGED <<rec, attempts, moves>>
    BY <2>1, <2>2 DEF Live, Trying
  <2>4. CASE reply = "merged"
    <3>1. pr'.state = "merged" /\ NoFault
      BY <1>0, <2>1, <2>4, Zenon DEF Remote
    <3>2. Credit' <= Credit
      BY <2>3, <3>1, CreditRange DEF Credit
    <3> QED BY <2>3, <3>1, <3>2, FreeStep DEF NoFault
  <2>5. CASE reply # "merged" /\ worker' = worker
    <3>1. Credit' = Credit
      BY <2>1, <2>5, Zenon DEF Credit, Live, Trying, Answered, OpenAt, Bound
    <3>2. Credit' <= Credit /\ Credit' <= Credit + 1
      BY <3>1, CreditRange
    <3>3. Fault \/ NoFault
      BY <2>1
    <3> QED BY <2>3, <3>2, <3>3, FreeStep, FaultStep DEF NoFault
  <2>6. CASE /\ reply # "merged"
             /\ worker.pc = "sent" /\ worker.obs.attempt = q.attempt /\ worker'.reply = reply
    <3>1. ~Trying /\ ~Trying' /\ q.head = rec.task /\ worker.reply = None /\ pr' = pr
      BY <2>1, <2>2, <2>6 DEF Trying, IInv, RequestsAreOwn, InFlightIsAuthorized, AnsweredOnce
    <3>2. Credit' <= Credit + 1
      BY <3>1, CreditRange
    <3>3. CASE Fault
      BY <2>3, <3>2, <3>3, FaultStep
    <3>4. CASE reply = "refused"
      <4>1. Answered' /\ NoFault
        BY <2>1, <2>2, <2>6, <3>4, Zenon DEF Answered
      <4>2. Credit' <= Credit
        BY <2>3, <3>1, <4>1, CreditRange DEF Credit
      <4> QED BY <2>3, <4>1, <4>2, FreeStep DEF NoFault
    <3>5. CASE reply = "conflict" /\ NoFault /\ ~OpenAt(rec.task)
      <4>1. ~Answered
        BY <2>6, <3>1, <3>5, NoneIsNoAnswer, Zenon DEF Answered
      <4>2. Credit' <= Credit
        BY <2>3, <3>1, <4>1 DEF Credit
      <4> QED BY <2>3, <3>5, <4>2, FreeStep, Zenon DEF NoFault
    <3>6. Fault \/ reply = "refused" \/ (reply = "conflict" /\ NoFault /\ ~OpenAt(rec.task))
      BY <2>1, <2>6, <3>1 DEF OpenAt
    <3> QED BY <3>3, <3>4, <3>5, <3>6, Zenon
  <2> QED BY <2>2, <2>4, <2>5, <2>6
<1> QED BY <1>1, <1>2, <1>3, <1>4, Zenon DEF OutsideStep

\* GitHub answers a merge request once, so that an answered request is no
\* longer on the wire.
LEMMA AnswersHold == IInv /\ IInv' /\ AnsweredOnce /\ [Next]_vars => AnsweredOnce'
<1> SUFFICES ASSUME IInv, IInv', AnsweredOnce, [Next]_vars PROVE AnsweredOnce'
  BY Zenon
<1>0. worker \in Worker /\ attempts \in Nat
  BY DEF IInv, Typed
<1>1. ASSUME UNCHANGED <<worker, wire>> PROVE AnsweredOnce'
  BY <1>1 DEF AnsweredOnce
<1>2. ASSUME worker'.pc # "sent" PROVE AnsweredOnce'
  BY <1>2 DEF AnsweredOnce
<1>3. CASE PassStep \/ Restart
  <2>1. CASE \/ StartPass \/ LoadCandidate \/ ClaimBranch \/ Check \/ MergeReturns \/ ReconcileMerge
             \/ Settle \/ Restart
    <3>1. /\ UNCHANGED wire
          /\ \/ worker.pc # "sent"
             \/ MergeReturns \/ Restart
      BY <2>1, Zenon DEF StartPass, LoadCandidate, ClaimBranch, Check, MergeReturns, ReconcileMerge, Settle,
                  Restart, counters
    <3>2. CASE MergeReturns
      <4>1. \/ Decide("merged", "confirmed", FALSE) \/ Decide("manual", None, TRUE)
            \/ Decide("uncertain", None, FALSE)
        BY <3>2, Zenon DEF MergeReturns
      <4>2. worker'.pc = "settle"
        BY <1>0, <4>1, DecideEffect, Zenon DEF Statuses, Sources
      <4> QED BY <1>2, <4>2
    <3>3. CASE Restart
      BY <1>2, <3>3, Ended DEF Restart, PassEnds
    <3>4. CASE StartPass \/ LoadCandidate \/ Settle
      BY <1>0, <1>2, <3>4, Ended, Zenon DEF StartPass, LoadCandidate, Settle, PassEnds, Worker
    <3>5. CASE ClaimBranch
      <4>1. \/ worker' = [NoWorker EXCEPT !.pc = "reconcile", !.obs = worker.obs]
            \/ PassEnds \/ Decide("manual", None, TRUE) \/ Goto("check")
        BY <3>5, Zenon DEF ClaimBranch
      <4>2. worker'.pc # "sent"
        BY <1>0, <4>1, Ended, DecideEffect, GotoEffect, ReconcileEffect, Zenon DEF PassEnds, Statuses, Sources
      <4> QED BY <1>2, <4>2
    <3>6. CASE Check
      <4>1. \/ Decide("manual", None, TRUE) \/ Decide("waiting", None, FALSE)
            \/ Decide("manual", None, FALSE)
            \/ worker' = [NoWorker EXCEPT !.pc = "reconcile", !.obs = worker.obs]
            \/ Goto("attempt")
        BY <3>6, CheckOutcome, Zenon DEF IInv, Typed, Remote
      <4>2. worker'.pc # "sent"
        BY <1>0, <4>1, DecideEffect, GotoEffect, ReconcileEffect, Zenon DEF Statuses, Sources
      <4> QED BY <1>2, <4>2
    <3>7. CASE ReconcileMerge
      <4>1. worker.obs.status \in Statuses /\ pr.state \in {"open", "closed", "merged"}
        BY Zenon DEF IInv, Typed, Worker, Record, Remote
      <4>2. \/ Decide(worker.obs.status, None, FALSE) \/ Decide("manual", None, TRUE)
            \/ Decide("waiting", None, FALSE)
            \/ pr.state # "open" /\ Decide(pr.state, "observed", FALSE)
        BY <3>7, Zenon DEF ReconcileMerge
      <4>3. worker'.pc # "sent"
        BY <1>0, <4>1, <4>2, DecideEffect, Zenon DEF Statuses, Sources
      <4> QED BY <1>2, <4>3
    <3> QED BY <2>1, <3>2, <3>3, <3>4, <3>5, <3>6, <3>7
  <2>2. CASE MergeAttempt
    <3>1. \/ worker' = Sending(Intent(worker.obs, attempts + 1, rec.pr))
             /\ rec' = Intent(worker.obs, attempts + 1, rec.pr)
          \/ worker' = GivingUp(Intent(worker.obs, attempts + 1, rec.pr))
             /\ rec' = Intent(worker.obs, attempts + 1, rec.pr)
          \/ PassEnds
      BY <2>2, Zenon DEF MergeAttempt, Intent, Sending, GivingUp
    <3>2. rec' \in Record
      BY Zenon DEF IInv, Typed
    <3>3. worker'.reply = None \/ worker'.pc # "sent"
      BY <3>1, <3>2, SentEffect, GivenUpEffect, Ended DEF PassEnds
    <3> QED BY <3>3 DEF AnsweredOnce
  <2> QED BY <1>3, <2>1, <2>2 DEF PassStep
<1>4. CASE RecoveryStep \/ ObservationStep
  BY <1>1, <1>4 DEF RecoveryStep, RecoverPrecheck, RetryPrecheck, ObservationStep, ReadPR, SavePR
<1>5. CASE DeliveryStep
  BY <1>1, <1>5, Zenon DEF DeliveryStep, Plan, Dispatch, Push, Confirm, Complete, FailTask, RetryTask,
                           CancelTask, engine
<1>6. CASE OperatorStep
  BY <1>1, <1>6, Zenon DEF OperatorStep, Pause, Resume, RunOnce, FinishRunOnce, SaveConfig, Archive,
                           engine
<1>7. CASE ChecksFinish \/ SomeoneMoves \/ UNCHANGED vars
  BY <1>1, <1>7, Zenon DEF ChecksFinish, SomeoneMoves, engine, vars
<1>8. CASE GitHubActs
  <2>1. PICK q \in wire, reply \in {"merged", "refused", "conflict"} :
          /\ wire' = wire \ {q}
          /\ worker' = IF worker.pc = "sent" /\ worker.obs.attempt = q.attempt
                       THEN [worker EXCEPT !.reply = reply] ELSE worker
    BY <1>8 DEF GitHubActs
  <2>2. CASE worker' = worker
    BY <2>1, <2>2, Zenon DEF AnsweredOnce
  <2>3. CASE worker.pc = "sent" /\ worker.obs.attempt = q.attempt
    <3>1. \A p \in wire : p.attempt = worker.obs.attempt => p = q
      BY <2>3 DEF IInv, Typed, Requests, RequestsAreOwn
    <3>2. worker'.obs = worker.obs
      BY <1>0, <2>1, Zenon DEF Worker
    <3> QED BY <2>1, <2>3, <3>1, <3>2, Zenon DEF AnsweredOnce
  <2> QED BY <2>1, <2>2, <2>3
<1> QED BY <1>3, <1>4, <1>5, <1>6, <1>7, <1>8 DEF Next, OutsideStep

\* Every step pays for the attempts it makes possible: a delivery, a fault or
\* a move of someone else for each.
LEMMA PaidHolds == IInv /\ IInv' /\ AnsweredOnce /\ AttemptsPaid /\ [Next]_vars => AttemptsPaid'
<1> SUFFICES ASSUME IInv, IInv', AnsweredOnce, AttemptsPaid, [Next]_vars PROVE AttemptsPaid'
  OBVIOUS
<1>1. ASSUME UNCHANGED <<pr, rec, worker, attempts, faults, moves>> PROVE AttemptsPaid'
  <2>1. Credit' = Credit
    BY <1>1 DEF Credit, Live, Trying, Answered, OpenAt, Bound
  <2>2. Credit' <= Credit
    BY <2>1, CreditRange
  <2> QED BY <1>1, <2>2, FreeStep, Zenon
<1>2. CASE \/ RecoverPrecheck \/ ReadPR \/ Pause \/ Resume \/ RunOnce \/ FinishRunOnce \/ SaveConfig
           \/ UNCHANGED vars
  BY <1>1, <1>2, Zenon DEF RecoverPrecheck, ReadPR, Pause, Resume, RunOnce, FinishRunOnce, SaveConfig,
                           vars, engine, counters
<1> QED BY <1>2, PassPaid, MergeReturnsPaid, MergeAttemptPaid, SettlePaid, WritersPaid, DeliveryPaid,
           OutsidePaid DEF Next, PassStep, RecoveryStep, ObservationStep, OperatorStep

\* A merge request in flight has the mode, policy, task and saved intent that
\* authorize it, a service-wide barrier has its intent, and every attempt after
\* the first of a delivery was caused by a fault or by a move of someone else.
THEOREM MergesAreAuthorized == Spec => []MergeIsAuthorized
<1>1. Init => IInv /\ AnsweredOnce /\ AttemptsPaid
  <2> SUFFICES ASSUME Init, IInv PROVE AnsweredOnce /\ AttemptsPaid
    BY InitHolds, Zenon
  <2>1. worker.pc = "idle" /\ rec.task = 1 /\ attempts = 0 /\ faults = 0 /\ moves = 0
    BY Ended, BoundsAssumption, Zenon DEF Init, InitialMerge
  <2>2. ~Trying
    BY <2>1 DEF Trying
  <2>3. PICK c \in {0, 1} : c = Credit
    BY <2>2, CreditRange
  <2> QED BY <2>1, <2>3 DEF AnsweredOnce, AttemptsPaid
<1>2. IInv /\ AnsweredOnce /\ AttemptsPaid /\ [Next]_vars => (IInv /\ AnsweredOnce /\ AttemptsPaid)'
  BY StepHolds, AnswersHold, PaidHolds
<1>3. IInv /\ AttemptsPaid => MergeIsAuthorized
  <2> SUFFICES ASSUME IInv, AttemptsPaid PROVE MergeIsAuthorized
    BY Zenon
  <2>1. /\ attempts \in Nat /\ rec.task \in 1 .. N /\ faults \in 0 .. MaxFaults /\ moves \in 0 .. MaxMoves
    BY DEF IInv, Typed, Record, Deliveries
  <2>2. PICK c \in Nat : c = Credit
    BY CreditRange
  <2>3. attempts \in 0 .. MaxAttempts
    BY <2>1, <2>2, BoundsAssumption DEF AttemptsPaid, MaxAttempts
  <2>4. {precheck, recovering} \subseteq [expected: Record, settlement: Settlement] \cup {None}
    BY Zenon DEF IInv, Typed, Prechecks
  <2>5. TypeOK
    BY <2>3, <2>4 DEF TypeOK, IInv, Typed, Tasks, Requests
  <2> QED BY <2>5 DEF MergeIsAuthorized, IInv
<1> QED BY <1>1, <1>2, <1>3, PTL DEF Spec

=============================================================================
