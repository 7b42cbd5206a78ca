--------------------------- MODULE BaselineProofs ---------------------------
(* Proofs about Baseline for every number of checks, commands and faults:   *)
(* what is saved of a check is true, and a finished check stays as it ended. *)
(*                                                                           *)
(* The argument is about who may write a check's record.  While a worker     *)
(* runs its commands the record is its own and saved as running; recovery    *)
(* takes only running checks without a worker, housekeeping only finished    *)
(* ones, and a worker that has saved its result reads the record again.      *)
EXTENDS Baseline, TLAPS

Workers == [at : {"none", "load", "clone", "commands", "settle", "cleanup", "exit"},
            allOK : BOOLEAN, copy : CheckRecord]

\* A worker and the claim on the service go together, and end with the process.
ClaimHeld ==
    /\ job # None <=> worker.at # "none"
    /\ process = "down" => job = None

\* Until its result is saved, the worker's check is running and its clone is
\* not recorded as removed.
CheckHeld ==
    worker.at \in {"load", "clone", "commands", "settle"} =>
       check[job].status = "running" /\ ~check[job].removed

\* The copy the worker holds tells what its commands did.
CopyHeld ==
    /\ worker.at = "load" => check[job] = Begun /\ worker.allOK
    /\ worker.at \in {"clone", "commands"} =>
          /\ worker.copy.status = "running" /\ ~worker.copy.removed
          /\ worker.copy.good = worker.allOK
    /\ worker.at = "settle" =>
          /\ worker.copy.status \in Terminal /\ ~worker.copy.removed
          /\ worker.copy.status = "passed" => worker.copy.done = NumCommands /\ worker.copy.good

\* Housekeeping and the worker never have the same check.
KeeperApart == keeper # None => check[keeper].status \in Terminal /\ keeper # job

IInv ==
    /\ TypeOK /\ ClaimHeld /\ CheckHeld /\ CopyHeld /\ KeeperApart
    /\ PassedIsEarned /\ CancelWins /\ RunningIsOwned /\ BaselineIsAlone /\ RemovedIsGone
-----------------------------------------------------------------------------
\* What the writes of a record do.

\* A write of the store changes one check, or nothing when it is refused.
LEMMA PutEffect ==
    ASSUME NEW c \in Checks, NEW r \in CheckRecord, NEW accepted \in BOOLEAN,
           check \in [Checks -> CheckRecord], Put(c, r, accepted)
    PROVE  /\ check' \in [Checks -> CheckRecord]
           /\ check'[c] = IF accepted THEN r ELSE check[c]
           /\ \A d \in Checks : d # c => check'[d] = check[d]
BY DEF Put

\* A check that begins has no results and no removal.
LEMMA Fresh ==
    /\ Begun \in CheckRecord /\ Begun.status = "running" /\ ~Begun.removed /\ Begun.good = TRUE
    /\ Unused \in CheckRecord /\ Unused.status = "none" /\ ~Unused.removed
<1>1. 0 \in 0..NumCommands
  BY BaselineBounds
<1>2. /\ Begun.status = "running" /\ Begun.removed = FALSE /\ Begun.good = TRUE
      /\ Unused.status = "none" /\ Unused.removed = FALSE
  BY DEF Begun, Unused
<1>3. Unused \in CheckRecord
  BY <1>1 DEF CheckRecord, Unused
<1>4. \A e \in CheckRecord : [e EXCEPT !.status = "running"] \in CheckRecord
  BY DEF CheckRecord
<1>5. Begun \in CheckRecord
  BY <1>3, <1>4 DEF Begun
<1> QED BY <1>2, <1>3, <1>5

\* The store answers yes or no.
LEMMA Answers == Accepted \subseteq BOOLEAN
BY DEF Accepted

\* abandonBaseline ends a check and leaves the rest of its record.
LEMMA AbandonEffect ==
    ASSUME NEW c \in Checks, NEW cancels, check \in [Checks -> CheckRecord],
           NEW r, r = Abandoned(c, cancels)
    PROVE  /\ r \in CheckRecord /\ r.removed = check[c].removed
           /\ r.status = IF c \in cancels THEN "cancelled" ELSE "interrupted"
<1>1. PICK e \in CheckRecord : e = check[c]
  OBVIOUS
<1>2. r = [e EXCEPT !.status = IF c \in cancels THEN "cancelled" ELSE "interrupted"]
  BY <1>1 DEF Abandoned
<1> QED BY <1>1, <1>2 DEF CheckRecord, Terminal

\* A status set on a record leaves the rest of it.
LEMMA StatusEffect ==
    ASSUME NEW e \in CheckRecord, NEW s \in Terminal, NEW r, r = [e EXCEPT !.status = s]
    PROVE  /\ r \in CheckRecord /\ r.status = s /\ r.removed = e.removed
           /\ r.done = e.done /\ r.good = e.good
BY DEF CheckRecord, Terminal

\* A removal's outcome leaves the rest of a record.
LEMMA RemovalEffect ==
    ASSUME NEW e \in CheckRecord, NEW gone \in BOOLEAN, NEW r,
           r = [e EXCEPT !.removed = @ \/ gone]
    PROVE  /\ r \in CheckRecord /\ r.status = e.status /\ r.removed = (e.removed \/ gone)
           /\ r.done = e.done /\ r.good = e.good
BY DEF CheckRecord

\* A worker that settles holds its verdict with the results it had.
LEMMA SettlesEffect ==
    ASSUME worker \in Workers, NEW e \in CheckRecord, NEW s \in Terminal, Settles(e, s)
    PROVE  /\ worker' \in Workers /\ worker'.at = "settle" /\ worker'.copy.status = s
           /\ worker'.copy.removed = e.removed /\ worker'.copy.done = e.done
           /\ worker'.copy.good = e.good
<1>1. PICK r : r = [e EXCEPT !.status = s]
  OBVIOUS
<1>2. /\ r \in CheckRecord /\ r.status = s /\ r.removed = e.removed
      /\ r.done = e.done /\ r.good = e.good
  BY <1>1, StatusEffect
<1>3. worker' = [worker EXCEPT !.at = "settle", !.copy = r]
  BY <1>1 DEF Settles
<1>4. worker' \in Workers /\ worker'.at = "settle" /\ worker'.copy = r
  BY <1>2, <1>3 DEF Workers
<1> QED BY <1>2, <1>4

\* What is saved stays true when one check is written and the record written
\* is true.
LEMMA SafeWrite ==
    ASSUME IInv, NEW c \in Checks,
           \A d \in Checks : d # c => check'[d] = check[d],
           \A d \in Checks : d # c /\ d \in marked' => d \in marked,
           \A d \in Checks : d # c /\ d \in dir' => d \in dir,
           check'[c].status = "passed" =>
              check'[c].done = NumCommands /\ check'[c].good /\ c \notin marked',
           c \in marked' => check'[c].status \in {"running", "cancelled", "interrupted"},
           check'[c].status = "running" =>
              /\ job' = c \/ barrier' \/ process' = "down"
              /\ \A d \in Checks : check[d].status = "running" => d = c,
           \A d \in Checks :
              d # c /\ check[d].status = "running" => job' = d \/ barrier' \/ process' = "down",
           check'[c].removed => c \notin dir',
           marked' \subseteq Checks
    PROVE  PassedIsEarned' /\ CancelWins' /\ RunningIsOwned' /\ RemovedIsGone'
<1>1. PassedIsEarned'
  BY DEF IInv, PassedIsEarned
<1>2. CancelWins'
  BY DEF IInv, CancelWins
<1>3. RunningIsOwned'
  <2> SUFFICES ASSUME NEW d \in Checks, check'[d].status = "running"
               PROVE  /\ job' = d \/ barrier' \/ process' = "down"
                      /\ \A e \in Checks : check'[e].status = "running" => e = d
    BY DEF RunningIsOwned
  <2>1. CASE d = c
    BY <2>1
  <2>2. CASE d # c
    BY <2>2 DEF IInv, RunningIsOwned
  <2> QED BY <2>1, <2>2
<1>4. RemovedIsGone'
  BY DEF IInv, RemovedIsGone
<1> QED BY <1>1, <1>2, <1>3, <1>4

-----------------------------------------------------------------------------
\* The worker's steps.  Each leaves the service, the claim, the markers and
\* housekeeping as they are.

Quiet == UNCHANGED <<process, disk, paused, work, barrier, job, marked, keeper>>

\* A step of a worker that still holds its check.
LEMMA WorkerKeeps ==
    ASSUME IInv, Quiet, Running, job # None,
           faults' \in 0..MaxFaults, live' \in BOOLEAN, dir' \subseteq Checks,
           worker' \in Workers, check' \in [Checks -> CheckRecord], worker'.at # "none",
           CheckHeld', CopyHeld',
           PassedIsEarned', CancelWins', RunningIsOwned', RemovedIsGone',
           \A d \in Checks : d # job => check'[d] = check[d]
    PROVE  IInv'
<1>1. TypeOK'
  BY DEF IInv, TypeOK, Quiet, Workers
<1>2. ClaimHeld' /\ BaselineIsAlone'
  BY DEF IInv, ClaimHeld, BaselineIsAlone, Quiet, Running
<1>3. KeeperApart'
  BY DEF IInv, TypeOK, KeeperApart, Quiet
<1> QED BY <1>1, <1>2, <1>3 DEF IInv

\* A worker that has a check.
LEMMA Working ==
    ASSUME IInv, worker.at # "none"
    PROVE  /\ job # None /\ job \in Checks /\ worker \in Workers
           /\ check \in [Checks -> CheckRecord] /\ check[job] \in CheckRecord
           /\ worker.copy \in CheckRecord /\ dir \subseteq Checks
           /\ faults \in 0..MaxFaults /\ live \in BOOLEAN /\ marked \subseteq Checks
<1>1. job # None /\ job \in Checks
  BY DEF IInv, ClaimHeld, TypeOK
<1>2. worker \in Workers /\ check \in [Checks -> CheckRecord] /\ dir \subseteq Checks
      /\ faults \in 0..MaxFaults /\ live \in BOOLEAN /\ marked \subseteq Checks
  BY DEF IInv, TypeOK, Workers
<1> QED BY <1>1, <1>2 DEF Workers

\* A step that writes no check, before the result is saved.
LEMMA NoWrite ==
    ASSUME IInv, check' = check, dir' = dir, Quiet
    PROVE  PassedIsEarned' /\ CancelWins' /\ RunningIsOwned' /\ RemovedIsGone'
BY DEF IInv, PassedIsEarned, CancelWins, RunningIsOwned, RemovedIsGone, Quiet

\* The worker's first read of its check copies the running record, or ends
\* the worker when the store does not answer.
LEMMA LoadHolds ==
    ASSUME IInv, Load
    PROVE  IInv'
<1>1. /\ worker.at = "load" /\ Quiet /\ Running
      /\ UNCHANGED <<faults, live, check, dir>>
  BY DEF Load, Quiet, service
<1>2. PICK accepted \in BOOLEAN :
         worker' = [worker EXCEPT !.at = IF accepted THEN "clone" ELSE "exit",
                                  !.copy = IF accepted THEN check[job] ELSE worker.copy]
  BY Answers DEF Load
<1>3. job # None /\ job \in Checks /\ check[job] = Begun /\ worker.allOK
  BY <1>1, Working DEF IInv, CopyHeld
<1>4. Begun \in CheckRecord /\ Begun.status = "running" /\ ~Begun.removed /\ Begun.good = TRUE
  BY Fresh
<1>5. /\ worker' \in Workers /\ worker'.at = IF accepted THEN "clone" ELSE "exit"
      /\ worker'.allOK = worker.allOK
      /\ accepted => worker'.copy = Begun
  <2>1. worker \in Workers /\ worker.copy \in CheckRecord
    BY <1>1, Working
  <2>2. PICK r \in CheckRecord : r = IF accepted THEN check[job] ELSE worker.copy
    BY <1>3, <1>4, <2>1
  <2>3. worker' = [worker EXCEPT !.at = IF accepted THEN "clone" ELSE "exit", !.copy = r]
    BY <1>2, <2>2
  <2> HIDE DEF Begun
  <2> QED BY <1>3, <2>1, <2>2, <2>3 DEF Workers
<1>6. PassedIsEarned' /\ CancelWins' /\ RunningIsOwned' /\ RemovedIsGone'
  BY <1>1, NoWrite
<1>7. CheckHeld'
  BY <1>1, <1>3, <1>4 DEF CheckHeld, Quiet
<1>8. CopyHeld'
  <2> HIDE DEF Begun
  <2> QED BY <1>3, <1>4, <1>5 DEF CopyHeld, Workers
<1> QED BY <1>1, <1>3, <1>5, <1>6, <1>7, <1>8, Working, WorkerKeeps

\* The worker settles without a write.
LEMMA SettleHolds ==
    ASSUME IInv, Running, Quiet, worker.at \in {"clone", "commands"},
           NEW s \in Terminal, Settles(worker.copy, s),
           s = "passed" => worker.copy.done = NumCommands /\ worker.copy.good,
           UNCHANGED <<faults, live, check, dir>>
    PROVE  IInv'
<1>1. job # None /\ job \in Checks /\ worker.copy \in CheckRecord /\ worker \in Workers
  BY Working
<1>2. /\ worker' \in Workers /\ worker'.at = "settle" /\ worker'.copy.status = s
      /\ worker'.copy.removed = worker.copy.removed /\ worker'.copy.done = worker.copy.done
      /\ worker'.copy.good = worker.copy.good
  BY <1>1, SettlesEffect
<1>3. PassedIsEarned' /\ CancelWins' /\ RunningIsOwned' /\ RemovedIsGone'
  BY NoWrite
<1>4. CheckHeld' /\ CopyHeld'
  BY <1>2 DEF IInv, CheckHeld, CopyHeld, Quiet
<1> QED BY <1>1, <1>2, <1>3, <1>4, Working, WorkerKeeps

\* What an error makes of a check.
LEMMA ErrorIsNoPass ==
    /\ ErrorStatus \cup {"timed_out"} \subseteq Terminal \ {"passed"}
    /\ Expired \in Terminal \ {"passed"}
BY DEF ErrorStatus, Expired, Terminal

\* A command that is lost leaves the check running, and the worker settles
\* its copy with a status that is never passed.
LEMMA CommandLostHolds ==
    ASSUME IInv, CommandLost
    PROVE  IInv'
<1>1. worker.at = "commands" /\ Quiet /\ Running /\ UNCHANGED <<faults, live, check, dir>>
  BY DEF CommandLost, Quiet, service
<1>2. PICK s \in {"interrupted", Expired} : Settles(worker.copy, s)
  BY DEF CommandLost
<1>3. s \in Terminal /\ s # "passed"
  BY <1>2, ErrorIsNoPass DEF Terminal
<1> QED BY <1>1, <1>2, <1>3, SettleHolds

\* With every command run the worker settles its copy; it may call it passed
\* only when each command succeeded.
LEMMA CommandsDoneHolds ==
    ASSUME IInv, CommandsDone
    PROVE  IInv'
<1>1. /\ worker.at = "commands" /\ Quiet /\ Running /\ UNCHANGED <<faults, live, check, dir>>
      /\ worker.copy.done = NumCommands /\ worker.copy.good = worker.allOK
  BY DEF CommandsDone, Quiet, service, IInv, CopyHeld
<1>2. PICK s \in {IF worker.allOK THEN "passed" ELSE "failed", Expired} :
         Settles(worker.copy, s)
  BY DEF CommandsDone
<1>3. s \in Terminal /\ (s = "passed" => worker.allOK)
  BY <1>2, ErrorIsNoPass DEF Terminal
<1> QED BY <1>1, <1>2, <1>3, SettleHolds

\* Before its result is saved the worker writes its check as running, and the
\* clone it makes is of a check not recorded as removed.
LEMMA RunningWrite ==
    ASSUME IInv, Quiet, worker.at \in {"clone", "commands"},
           NEW e \in CheckRecord, e.status = "running", ~e.removed,
           check' \in [Checks -> CheckRecord], check'[job] \in {e, check[job]},
           \A d \in Checks : d # job => check'[d] = check[d],
           dir' \in {dir, dir \cup {job}}
    PROVE  /\ PassedIsEarned' /\ CancelWins' /\ RunningIsOwned' /\ RemovedIsGone'
           /\ check'[job].status = "running" /\ ~check'[job].removed
<1>1. job # None /\ job \in Checks /\ marked \subseteq Checks
  BY Working
<1>2. check[job].status = "running" /\ ~check[job].removed
  BY DEF IInv, CheckHeld
<1>3. check'[job].status = "running" /\ ~check'[job].removed
  BY <1>2
<1>4. \A d \in Checks : check[d].status = "running" => d = job
  BY <1>1, <1>2 DEF IInv, RunningIsOwned
<1> QED BY <1>1, <1>3, <1>4, SafeWrite DEF Quiet

\* The clone makes the directory and is saved on a running check.
LEMMA CloneHolds ==
    ASSUME IInv, Clone
    PROVE  IInv'
<1>1. worker.at = "clone" /\ Quiet /\ Running /\ UNCHANGED <<faults, live>>
  BY DEF Clone, Quiet, service
<1>2. PICK accepted \in BOOLEAN :
         /\ Put(job, worker.copy, accepted)
         /\ \/ worker' = [worker EXCEPT !.at = "commands"] /\ dir' = dir \cup {job}
            \/ \E status \in ErrorStatus : Settles(worker.copy, status)
               /\ dir' \in {dir, dir \cup {job}}
  BY Answers DEF Clone
<1>3. /\ job # None /\ job \in Checks /\ worker \in Workers /\ worker.copy \in CheckRecord
      /\ check \in [Checks -> CheckRecord] /\ dir \subseteq Checks
      /\ faults \in 0..MaxFaults /\ live \in BOOLEAN
  BY <1>1, Working
<1>4. /\ worker.copy.status = "running" /\ ~worker.copy.removed
      /\ worker.copy.good = worker.allOK
  BY <1>1 DEF IInv, CopyHeld
<1>5. /\ check' \in [Checks -> CheckRecord] /\ check'[job] \in {worker.copy, check[job]}
      /\ \A d \in Checks : d # job => check'[d] = check[d]
  BY <1>2, <1>3, PutEffect
<1>6. dir' \in {dir, dir \cup {job}} /\ dir' \subseteq Checks
  BY <1>2, <1>3
<1>7. /\ PassedIsEarned' /\ CancelWins' /\ RunningIsOwned' /\ RemovedIsGone'
      /\ check'[job].status = "running" /\ ~check'[job].removed
  BY <1>1, <1>3, <1>4, <1>5, <1>6, RunningWrite
<1>8. CheckHeld'
  BY <1>1, <1>7 DEF CheckHeld, Quiet
<1>9. worker' \in Workers /\ worker'.at \in {"commands", "settle"} /\ CopyHeld'
  <2>1. CASE worker' = [worker EXCEPT !.at = "commands"]
    <3>1. /\ worker' \in Workers /\ worker'.at = "commands" /\ worker'.copy = worker.copy
          /\ worker'.allOK = worker.allOK
      BY <1>3, <2>1 DEF Workers
    <3> QED BY <1>4, <3>1 DEF CopyHeld
  <2>2. ASSUME NEW s \in ErrorStatus, Settles(worker.copy, s)
        PROVE  worker' \in Workers /\ worker'.at \in {"commands", "settle"} /\ CopyHeld'
    <3>1. s \in Terminal /\ s # "passed"
      BY ErrorIsNoPass
    <3>2. /\ worker' \in Workers /\ worker'.at = "settle" /\ worker'.copy.status = s
          /\ worker'.copy.removed = worker.copy.removed
      BY <1>3, <2>2, <3>1, SettlesEffect
    <3> QED BY <1>4, <3>1, <3>2 DEF CopyHeld
  <2> QED BY <1>2, <2>1, <2>2
<1> QED BY <1>1, <1>3, <1>5, <1>6, <1>7, <1>8, <1>9, WorkerKeeps

\* A command's result is saved on a running check, and counted in the copy
\* the worker keeps.
LEMMA RunCommandHolds ==
    ASSUME IInv, RunCommand
    PROVE  IInv'
<1>1. /\ worker.at = "commands" /\ Quiet /\ Running /\ UNCHANGED <<faults, live, dir>>
      /\ worker.copy.done < NumCommands
  BY DEF RunCommand, Quiet, service
<1>2. PICK accepted \in BOOLEAN, success \in BOOLEAN :
         /\ Put(job, Recorded(success), accepted)
         /\ \/ worker' = [worker EXCEPT !.copy = Recorded(success), !.allOK = AllOK(success)]
            \/ \E status \in ErrorStatus \cup {"timed_out"} : Settles(Recorded(success), status)
  BY Answers DEF RunCommand
<1>3. /\ job # None /\ job \in Checks /\ worker \in Workers /\ worker.copy \in CheckRecord
      /\ check \in [Checks -> CheckRecord] /\ dir \subseteq Checks
      /\ faults \in 0..MaxFaults /\ live \in BOOLEAN
  BY <1>1, Working
<1>4. /\ worker.copy.status = "running" /\ ~worker.copy.removed
      /\ worker.copy.good = worker.allOK
  BY <1>1 DEF IInv, CopyHeld
<1>5. PICK e : e = Recorded(success)
  OBVIOUS
<1>6. /\ e \in CheckRecord /\ e.status = "running" /\ ~e.removed
      /\ e.good = AllOK(success)
  <2>1. PICK w \in CheckRecord : w = worker.copy
    BY <1>3
  <2>2. e = [w EXCEPT !.done = @ + 1, !.good = @ /\ success]
    BY <1>5, <2>1 DEF Recorded
  <2>3. w.done + 1 \in 0..NumCommands
    BY <1>1, <2>1, BaselineBounds DEF CheckRecord
  <2>4. e \in CheckRecord /\ e.status = w.status /\ e.removed = w.removed
        /\ e.good = (w.good /\ success)
    BY <2>2, <2>3 DEF CheckRecord
  <2> QED BY <1>4, <2>1, <2>4 DEF AllOK
<1>7. /\ check' \in [Checks -> CheckRecord] /\ check'[job] \in {e, check[job]}
      /\ \A d \in Checks : d # job => check'[d] = check[d]
  BY <1>2, <1>3, <1>5, <1>6, PutEffect
<1>8. /\ PassedIsEarned' /\ CancelWins' /\ RunningIsOwned' /\ RemovedIsGone'
      /\ check'[job].status = "running" /\ ~check'[job].removed
  BY <1>1, <1>3, <1>6, <1>7, RunningWrite
<1>9. CheckHeld'
  BY <1>1, <1>8 DEF CheckHeld, Quiet
<1>10. worker' \in Workers /\ worker'.at \in {"commands", "settle"} /\ CopyHeld'
  <2>1. CASE worker' = [worker EXCEPT !.copy = e, !.allOK = AllOK(success)]
    <3>0. AllOK(success) \in BOOLEAN
      BY DEF AllOK
    <3>1. /\ worker' \in Workers /\ worker'.at = "commands" /\ worker'.copy = e
          /\ worker'.allOK = AllOK(success)
      BY <1>1, <1>3, <1>6, <2>1, <3>0 DEF Workers
    <3> QED BY <1>6, <3>1 DEF CopyHeld
  <2>2. ASSUME NEW s \in ErrorStatus \cup {"timed_out"}, Settles(e, s)
        PROVE  worker' \in Workers /\ worker'.at \in {"commands", "settle"} /\ CopyHeld'
    <3>1. s \in Terminal /\ s # "passed"
      BY ErrorIsNoPass
    <3>2. /\ worker' \in Workers /\ worker'.at = "settle" /\ worker'.copy.status = s
          /\ worker'.copy.removed = e.removed
      BY <1>3, <1>6, <2>2, <3>1, SettlesEffect
    <3> QED BY <1>6, <3>1, <3>2 DEF CopyHeld
  <2> QED BY <1>2, <1>5, <2>1, <2>2
<1> QED BY <1>1, <1>3, <1>7, <1>8, <1>9, <1>10, WorkerKeeps

\* The final write: a cancellation wins, and a pass is one the commands earned.
LEMMA SaveResultHolds ==
    ASSUME IInv, SaveResult
    PROVE  IInv'
<1>1. /\ worker.at = "settle" /\ Quiet /\ Running /\ UNCHANGED <<faults, live, dir>>
      /\ worker' = [worker EXCEPT !.at = "cleanup"]
  BY DEF SaveResult, Quiet, service
<1>2. PICK readable \in BOOLEAN, accepted \in BOOLEAN :
         Put(job, [worker.copy EXCEPT !.status = Outcome(readable)], accepted)
  BY Answers DEF SaveResult
<1>3. /\ job # None /\ job \in Checks /\ worker \in Workers /\ worker.copy \in CheckRecord
      /\ check \in [Checks -> CheckRecord] /\ dir \subseteq Checks
      /\ faults \in 0..MaxFaults /\ live \in BOOLEAN /\ marked \subseteq Checks
  BY <1>1, Working
<1>4. /\ worker.copy.status \in Terminal /\ ~worker.copy.removed
      /\ worker.copy.status = "passed" => worker.copy.done = NumCommands /\ worker.copy.good
  BY <1>1 DEF IInv, CopyHeld
<1>5. /\ Outcome(readable) \in Terminal
      /\ job \in marked => Outcome(readable) \in {"cancelled", "interrupted"}
      /\ Outcome(readable) = "passed" => worker.copy.status = "passed"
  BY <1>4 DEF Outcome, Terminal
<1>6. PICK e : e = [worker.copy EXCEPT !.status = Outcome(readable)]
  OBVIOUS
<1>7. /\ e \in CheckRecord /\ e.status = Outcome(readable) /\ e.removed = worker.copy.removed
      /\ e.done = worker.copy.done /\ e.good = worker.copy.good
  BY <1>3, <1>5, <1>6, StatusEffect
<1>8. /\ check' \in [Checks -> CheckRecord] /\ check'[job] = IF accepted THEN e ELSE check[job]
      /\ \A d \in Checks : d # job => check'[d] = check[d]
  BY <1>2, <1>3, <1>6, <1>7, PutEffect
<1>9. check[job].status = "running" /\ ~check[job].removed
  BY <1>1 DEF IInv, CheckHeld
<1>10. \A d \in Checks : check[d].status = "running" => d = job
  BY <1>3, <1>9 DEF IInv, RunningIsOwned
<1>11. PassedIsEarned' /\ CancelWins' /\ RunningIsOwned' /\ RemovedIsGone'
  <2>1. /\ check'[job].status = "passed" => check'[job].done = NumCommands /\ check'[job].good /\ job \notin marked
        /\ job \in marked => check'[job].status \in {"running", "cancelled", "interrupted"}
        /\ ~check'[job].removed
    BY <1>4, <1>5, <1>7, <1>8, <1>9
  <2> QED BY <1>1, <1>3, <1>8, <1>10, <2>1, SafeWrite DEF Quiet
<1>12. worker' \in Workers /\ worker'.at = "cleanup"
  BY <1>1, <1>3 DEF Workers
<1>13. CheckHeld' /\ CopyHeld'
  BY <1>12 DEF CheckHeld, CopyHeld
<1> QED BY <1>1, <1>3, <1>8, <1>11, <1>12, <1>13, WorkerKeeps

\* removeBaselineWorkspace keeps the status of the check, whoever removes.
LEMMA RemovalKeeps ==
    ASSUME IInv, NEW c \in Checks, RemoveWorkspace(c), UNCHANGED <<process, barrier, job, marked>>
    PROVE  /\ check' \in [Checks -> CheckRecord] /\ dir' \subseteq Checks
           /\ check'[c].status = check[c].status
           /\ \A d \in Checks : d # c => check'[d] = check[d]
           /\ faults' \in 0..MaxFaults
           /\ PassedIsEarned' /\ CancelWins' /\ RunningIsOwned' /\ RemovedIsGone'
<1>1. /\ check \in [Checks -> CheckRecord] /\ dir \subseteq Checks /\ check[c] \in CheckRecord
      /\ faults \in 0..MaxFaults /\ marked \subseteq Checks
  BY DEF IInv, TypeOK
<1>2. PICK accepted \in BOOLEAN, gone \in BOOLEAN :
         /\ SaveRemoval(c, gone, accepted)
         /\ dir' = IF gone THEN dir \ {c} ELSE dir
  BY Answers DEF RemoveWorkspace
<1>3. faults' \in 0..MaxFaults
  <2>1. faults' = faults \/ (faults < MaxFaults /\ faults' = faults + 1)
    BY DEF RemoveWorkspace, Fault
  <2> QED BY <1>1, <2>1, BaselineBounds
<1>4. PICK e : e = [check[c] EXCEPT !.removed = @ \/ gone]
  OBVIOUS
<1>5. /\ e \in CheckRecord /\ e.status = check[c].status /\ e.removed = (check[c].removed \/ gone)
      /\ e.done = check[c].done /\ e.good = check[c].good
  BY <1>1, <1>4, RemovalEffect
<1>6. /\ check' \in [Checks -> CheckRecord] /\ check'[c] = IF accepted THEN e ELSE check[c]
      /\ \A d \in Checks : d # c => check'[d] = check[d]
  BY <1>1, <1>2, <1>4, <1>5, PutEffect DEF SaveRemoval
<1>7. /\ check'[c].status = check[c].status /\ check'[c].done = check[c].done
      /\ check'[c].good = check[c].good
      /\ check'[c].removed => c \notin dir'
  BY <1>2, <1>5, <1>6 DEF IInv, RemovedIsGone
<1>8. PassedIsEarned' /\ CancelWins' /\ RunningIsOwned' /\ RemovedIsGone'
  <2>1. /\ check'[c].status = "passed" => check'[c].done = NumCommands /\ check'[c].good /\ c \notin marked
        /\ c \in marked => check'[c].status \in {"running", "cancelled", "interrupted"}
    BY <1>7 DEF IInv, PassedIsEarned, CancelWins
  <2>2. \A d \in Checks :
           check[d].status = "running" =>
              /\ job = d \/ barrier \/ process = "down"
              /\ \A x \in Checks : check[x].status = "running" => x = d
    BY DEF IInv, RunningIsOwned
  <2> QED BY <1>1, <1>2, <1>6, <1>7, <2>1, <2>2, SafeWrite
<1> QED BY <1>1, <1>2, <1>3, <1>6, <1>7, <1>8

\* The worker's own removal of its workspace, after the check was settled.
LEMMA WorkerRemovesHolds ==
    ASSUME IInv, WorkerRemoves
    PROVE  IInv'
<1>1. /\ worker.at = "cleanup" /\ Quiet /\ Running /\ UNCHANGED live
      /\ worker' = [worker EXCEPT !.at = "exit"] /\ RemoveWorkspace(job)
  BY DEF WorkerRemoves, Quiet
<1>2. job # None /\ job \in Checks /\ worker \in Workers /\ live \in BOOLEAN
  BY <1>1, Working
<1>3. /\ check' \in [Checks -> CheckRecord] /\ dir' \subseteq Checks
      /\ \A d \in Checks : d # job => check'[d] = check[d]
      /\ faults' \in 0..MaxFaults
      /\ PassedIsEarned' /\ CancelWins' /\ RunningIsOwned' /\ RemovedIsGone'
  BY <1>1, <1>2, RemovalKeeps DEF Quiet
<1>4. worker' \in Workers /\ worker'.at = "exit"
  BY <1>1, <1>2 DEF Workers
<1>5. CheckHeld' /\ CopyHeld'
  BY <1>4 DEF CheckHeld, CopyHeld
<1> QED BY <1>1, <1>2, <1>3, <1>4, <1>5, WorkerKeeps

\* No worker: nothing is held.
LEMMA Released ==
    ASSUME worker' = NoWorker
    PROVE  worker' \in Workers /\ worker'.at = "none" /\ CheckHeld' /\ CopyHeld'
<1>1. worker' \in Workers /\ worker'.at = "none"
  BY Fresh DEF NoWorker, Workers
<1> QED BY <1>1 DEF CheckHeld, CopyHeld

\* The exit gives up the service with the check settled or the barrier up.
LEMMA WorkerExitsHolds ==
    ASSUME IInv, WorkerExits
    PROVE  IInv'
<1>1. /\ worker.at = "exit" /\ Running /\ job' = None /\ worker' = NoWorker
      /\ UNCHANGED <<process, disk, faults, paused, work, live, marked, dir, keeper>>
  BY DEF WorkerExits, service
<1>2. PICK accepted \in BOOLEAN :
         /\ Put(job, IF check[job].status = "running" THEN Abandoned(job, marked) ELSE check[job],
                accepted)
         /\ barrier' = (barrier \/ ~accepted)
  BY Answers DEF WorkerExits
<1>3. /\ job # None /\ job \in Checks /\ check \in [Checks -> CheckRecord]
      /\ check[job] \in CheckRecord /\ marked \subseteq Checks
  BY <1>1, Working
<1>4. PICK e : e = IF check[job].status = "running" THEN Abandoned(job, marked) ELSE check[job]
  OBVIOUS
<1>5. /\ e \in CheckRecord /\ e.removed = check[job].removed /\ e.status # "running"
      /\ e.status = "passed" => e = check[job]
      /\ job \in marked => e.status \in {"cancelled", "interrupted"}
  <2>1. CASE check[job].status = "running"
    <3>1. e = Abandoned(job, marked)
      BY <1>4, <2>1
    <3> QED BY <1>3, <3>1, AbandonEffect
  <2>2. CASE check[job].status # "running"
    BY <1>3, <1>4, <2>2 DEF IInv, CancelWins
  <2> QED BY <2>1, <2>2
<1>6. /\ check' \in [Checks -> CheckRecord] /\ check'[job] = IF accepted THEN e ELSE check[job]
      /\ \A d \in Checks : d # job => check'[d] = check[d]
  BY <1>2, <1>3, <1>4, <1>5, PutEffect
<1>7. PassedIsEarned' /\ CancelWins' /\ RunningIsOwned' /\ RemovedIsGone'
  <2>1. /\ check'[job].status = "passed" => check'[job].done = NumCommands /\ check'[job].good /\ job \notin marked
        /\ job \in marked => check'[job].status \in {"running", "cancelled", "interrupted"}
        /\ check'[job].removed => job \notin dir
    BY <1>3, <1>5, <1>6 DEF IInv, PassedIsEarned, CancelWins, RemovedIsGone
  <2>2. check'[job].status = "running" =>
           /\ barrier'
           /\ \A d \in Checks : check[d].status = "running" => d = job
    BY <1>2, <1>3, <1>5, <1>6 DEF IInv, RunningIsOwned
  <2>3. \A d \in Checks : d # job /\ check[d].status = "running" => barrier'
    BY <1>1, <1>2 DEF IInv, RunningIsOwned, Running
  <2> QED BY <1>1, <1>3, <1>6, <2>1, <2>2, <2>3, SafeWrite
<1>8. worker' \in Workers /\ worker'.at = "none" /\ CheckHeld' /\ CopyHeld'
  BY <1>1, Released
<1>9. ClaimHeld' /\ BaselineIsAlone'
  BY <1>1, <1>8 DEF ClaimHeld, BaselineIsAlone
<1>10. KeeperApart'
  BY <1>1, <1>3, <1>6 DEF IInv, TypeOK, KeeperApart
<1>11. TypeOK'
  BY <1>1, <1>2, <1>6, <1>8 DEF IInv, TypeOK, Workers
<1> QED BY <1>7, <1>8, <1>9, <1>10, <1>11 DEF IInv

-----------------------------------------------------------------------------
\* The operator, recovery, housekeeping and the process.

\* A check starts only when no other is saved as running.
LEMMA StartHolds ==
    ASSUME IInv, NEW c \in Checks, StartBaseline(c)
    PROVE  IInv'
<1>1. /\ ~Blocked /\ check[c].status = "none" /\ Put(c, Begun, TRUE) /\ job' = c /\ live' = TRUE
      /\ worker' = [NoWorker EXCEPT !.at = "load"]
      /\ UNCHANGED <<process, disk, faults, paused, work, barrier, marked, dir, keeper>>
  BY DEF StartBaseline, service
<1>2. check \in [Checks -> CheckRecord] /\ marked \subseteq Checks /\ c # None
  BY NoneIsNoCheck DEF IInv, TypeOK, Checks
<1>3. /\ check' \in [Checks -> CheckRecord] /\ check'[c] = Begun
      /\ \A d \in Checks : d # c => check'[d] = check[d]
  BY <1>1, <1>2, Fresh, PutEffect
<1>4. \A d \in Checks : check[d].status # "running"
  <2>1. ~barrier /\ job = None /\ process = "up"
    BY <1>1 DEF Blocked
  <2> QED BY <2>1, NoneIsNoCheck DEF IInv, RunningIsOwned, Checks
<1>5. c \notin marked
  BY <1>1 DEF IInv, CancelWins
<1>6. PassedIsEarned' /\ CancelWins' /\ RunningIsOwned' /\ RemovedIsGone'
  <2>1. Begun.status = "running" /\ ~Begun.removed
    BY Fresh
  <2> HIDE DEF Begun
  <2> QED BY <1>1, <1>2, <1>3, <1>4, <1>5, <2>1, SafeWrite
<1>7. worker' \in Workers /\ worker'.at = "load" /\ worker'.allOK
  <2>1. NoWorker \in Workers /\ NoWorker.allOK = TRUE
    BY Fresh DEF NoWorker, Workers
  <2>2. \A w \in Workers : /\ [w EXCEPT !.at = "load"] \in Workers
                           /\ [w EXCEPT !.at = "load"].at = "load"
                           /\ [w EXCEPT !.at = "load"].allOK = w.allOK
    BY DEF Workers
  <2> HIDE DEF NoWorker
  <2> QED BY <1>1, <2>1, <2>2
<1>8. CheckHeld' /\ CopyHeld'
  BY <1>1, <1>3, <1>7, Fresh DEF CheckHeld, CopyHeld
<1>9. ClaimHeld' /\ BaselineIsAlone'
  BY <1>1, <1>2, <1>7 DEF ClaimHeld, BaselineIsAlone, Blocked
<1>10. KeeperApart'
  BY <1>1, <1>3 DEF IInv, TypeOK, KeeperApart, Terminal
<1>11. TypeOK'
  BY <1>1, <1>3, <1>7 DEF IInv, TypeOK, Workers
<1> QED BY <1>6, <1>8, <1>9, <1>10, <1>11 DEF IInv

\* A cancellation reaches the worker, or settles a check that has none.
LEMMA CancelHolds ==
    ASSUME IInv, NEW c \in Checks, CancelBaseline(c)
    PROVE  IInv'
<1>1. /\ check[c].status = "running" /\ marked' = marked \cup {c} /\ live' \in BOOLEAN
      /\ UNCHANGED <<process, disk, faults, paused, work, barrier, job, worker, dir, keeper>>
  BY DEF CancelBaseline, service, IInv, TypeOK
<1>2. check \in [Checks -> CheckRecord] /\ marked' \subseteq Checks
  BY <1>1 DEF IInv, TypeOK
<1>3. /\ check' \in [Checks -> CheckRecord]
      /\ \A d \in Checks : d # c => check'[d] = check[d]
      /\ \/ check'[c] = check[c]
         \/ /\ job # c /\ check'[c].status = "cancelled"
            /\ check'[c].removed = check[c].removed
  <2>1. CASE job = c
    BY <1>2, <2>1 DEF CancelBaseline
  <2>2. CASE job # c
    <3>1. PICK accepted \in BOOLEAN : Put(c, Abandoned(c, marked'), accepted)
      BY <2>2, Answers DEF CancelBaseline
    <3>2. PICK e : e = Abandoned(c, marked')
      OBVIOUS
    <3>3. e \in CheckRecord /\ e.removed = check[c].removed /\ e.status = "cancelled"
      BY <1>1, <1>2, <3>2, AbandonEffect
    <3>4. /\ check' \in [Checks -> CheckRecord] /\ check'[c] = IF accepted THEN e ELSE check[c]
          /\ \A d \in Checks : d # c => check'[d] = check[d]
      BY <1>2, <3>1, <3>2, <3>3, PutEffect
    <3> QED BY <2>2, <3>3, <3>4
  <2> QED BY <2>1, <2>2
<1>4. \A d \in Checks : check[d].status = "running" => d = c
  BY <1>1 DEF IInv, RunningIsOwned
<1>5. PassedIsEarned' /\ CancelWins' /\ RunningIsOwned' /\ RemovedIsGone'
  <2>1. /\ check'[c].status # "passed"
        /\ check'[c].status \in {"running", "cancelled", "interrupted"}
        /\ check'[c].removed => c \notin dir'
    BY <1>1, <1>3 DEF IInv, RemovedIsGone
  <2>2. job' = c \/ barrier' \/ process' = "down"
    BY <1>1 DEF IInv, RunningIsOwned
  <2> QED BY <1>1, <1>2, <1>3, <1>4, <2>1, <2>2, SafeWrite
<1>6. CheckHeld' /\ CopyHeld'
  BY <1>1, <1>3, Working DEF IInv, CheckHeld, CopyHeld
<1>7. ClaimHeld' /\ BaselineIsAlone'
  BY <1>1 DEF IInv, ClaimHeld, BaselineIsAlone
<1>8. KeeperApart'
  BY <1>1, <1>3 DEF IInv, TypeOK, KeeperApart, Terminal
<1>9. TypeOK'
  BY <1>1, <1>2, <1>3 DEF IInv, TypeOK
<1> QED BY <1>5, <1>6, <1>7, <1>8, <1>9 DEF IInv

\* recoverBaselines ends the running checks without a worker and no other.
LEMMA RecoveryKeeps ==
    ASSUME IInv, RecoverBaselines, UNCHANGED <<job, marked, dir, worker, keeper>>
    PROVE  /\ check' \in [Checks -> CheckRecord]
           /\ \A c \in Checks : c \notin Orphans => check'[c] = check[c]
           /\ \A c \in Orphans : check'[c].status \in {"cancelled", "interrupted"}
           /\ \A c \in Checks : check'[c].status = "running" => c = job
           /\ PassedIsEarned' /\ CancelWins' /\ RunningIsOwned' /\ RemovedIsGone'
           /\ CheckHeld' /\ CopyHeld' /\ KeeperApart'
<1>1. check \in [Checks -> CheckRecord] /\ marked \subseteq Checks
  BY DEF IInv, TypeOK
<1>2. /\ DOMAIN check' = Checks
      /\ \A c \in Checks : check'[c] = IF c \in Orphans THEN Abandoned(c, marked) ELSE check[c]
  BY DEF RecoverBaselines
<1>3. ASSUME NEW c \in Checks, c \in Orphans
      PROVE  /\ check'[c] \in CheckRecord /\ check'[c].removed = check[c].removed
             /\ check'[c].status = IF c \in marked THEN "cancelled" ELSE "interrupted"
  BY <1>1, <1>2, <1>3, AbandonEffect
<1>4. check' \in [Checks -> CheckRecord]
  <2>1. \A c \in Checks : check'[c] \in CheckRecord
    BY <1>1, <1>2, <1>3
  <2> QED BY <2>1 DEF RecoverBaselines
<1>5. \A c \in Checks : c \notin Orphans => check'[c] = check[c]
  BY <1>2
<1>6. \A c \in Checks : check'[c].status = "running" => c = job
  BY <1>3, <1>5 DEF Orphans
<1>7. PassedIsEarned' /\ CancelWins' /\ RunningIsOwned' /\ RemovedIsGone'
  <2>1. PassedIsEarned'
    BY <1>3, <1>5 DEF IInv, PassedIsEarned
  <2>2. CancelWins'
    BY <1>1, <1>3, <1>5 DEF IInv, CancelWins
  <2>3. RunningIsOwned'
    BY <1>6 DEF RunningIsOwned
  <2>4. RemovedIsGone'
    BY <1>3, <1>5 DEF IInv, RemovedIsGone
  <2> QED BY <2>1, <2>2, <2>3, <2>4
<1>8. CheckHeld' /\ CopyHeld'
  <2>1. worker.at # "none" => job \in Checks /\ check'[job] = check[job]
    BY <1>5, Working DEF Orphans
  <2> QED BY <2>1 DEF IInv, CheckHeld, CopyHeld
<1>9. KeeperApart'
  BY <1>5 DEF IInv, TypeOK, KeeperApart, Orphans, Terminal
<1> QED BY <1>3, <1>4, <1>5, <1>6, <1>7, <1>8, <1>9 DEF Orphans

\* A tick that recovered lifts the barrier, and one that could not raises it.
LEMMA TickHolds ==
    ASSUME IInv, Tick
    PROVE  IInv'
<1>1. /\ process = "up"
      /\ UNCHANGED <<process, disk, faults, paused, work, job, live, worker, marked, dir, keeper>>
  BY DEF Tick, service
<1>2. PICK accepted \in BOOLEAN :
         /\ IF accepted THEN RecoverBaselines ELSE UNCHANGED check
         /\ barrier' = ~accepted
  BY Answers DEF Tick
<1>3. ClaimHeld' /\ BaselineIsAlone'
  BY <1>1 DEF IInv, ClaimHeld, BaselineIsAlone
<1>4. CASE accepted
  <2>1. /\ check' \in [Checks -> CheckRecord]
        /\ PassedIsEarned' /\ CancelWins' /\ RunningIsOwned' /\ RemovedIsGone'
        /\ CheckHeld' /\ CopyHeld' /\ KeeperApart'
    BY <1>1, <1>2, <1>4, RecoveryKeeps
  <2>2. TypeOK'
    BY <1>1, <1>2, <2>1 DEF IInv, TypeOK
  <2> QED BY <1>3, <2>1, <2>2 DEF IInv
<1>5. CASE ~accepted
  <2>1. check' = check /\ barrier' = TRUE
    BY <1>2, <1>5
  <2>2. TypeOK'
    BY <1>1, <2>1 DEF IInv, TypeOK
  <2>3. PassedIsEarned' /\ CancelWins' /\ RunningIsOwned' /\ RemovedIsGone'
    BY <1>1, <2>1 DEF IInv, PassedIsEarned, CancelWins, RunningIsOwned, RemovedIsGone
  <2>4. CheckHeld' /\ CopyHeld' /\ KeeperApart'
    BY <1>1, <2>1 DEF IInv, CheckHeld, CopyHeld, KeeperApart
  <2> QED BY <1>3, <2>2, <2>3, <2>4 DEF IInv
<1> QED BY <1>4, <1>5

\* Recover runs before anything else of a new process.
LEMMA RestartHolds ==
    ASSUME IInv, Restart
    PROVE  IInv'
<1>1. /\ process = "down" /\ process' = "up" /\ RecoverBaselines
      /\ UNCHANGED <<disk, faults, paused, work, barrier, job, live, worker, marked, dir, keeper>>
  BY DEF Restart
<1>2. /\ check' \in [Checks -> CheckRecord]
      /\ PassedIsEarned' /\ CancelWins' /\ RunningIsOwned' /\ RemovedIsGone'
      /\ CheckHeld' /\ CopyHeld' /\ KeeperApart'
  BY <1>1, RecoveryKeeps
<1>3. ClaimHeld' /\ BaselineIsAlone'
  BY <1>1 DEF IInv, ClaimHeld, BaselineIsAlone
<1>4. TypeOK'
  BY <1>1, <1>2 DEF IInv, TypeOK
<1> QED BY <1>2, <1>3, <1>4 DEF IInv

\* Housekeeping takes a finished check without a worker, and keeps its status.
LEMMA RetentionHolds ==
    ASSUME IInv, StartRetention \/ EndRetention
    PROVE  IInv'
<1>1. CASE StartRetention
  <2>1. UNCHANGED <<process, disk, faults, paused, work, barrier, job, live, worker, check, marked, dir>>
    BY <1>1 DEF StartRetention, service
  <2>2. PICK c \in Checks : Stale(c) /\ keeper' = c
    BY <1>1 DEF StartRetention
  <2>3. TypeOK'
    BY <2>1, <2>2 DEF IInv, TypeOK
  <2>4. KeeperApart'
    BY <2>1, <2>2 DEF KeeperApart, Stale
  <2>5. /\ ClaimHeld' /\ CheckHeld' /\ CopyHeld'
        /\ PassedIsEarned' /\ CancelWins' /\ RunningIsOwned' /\ BaselineIsAlone' /\ RemovedIsGone'
    BY <2>1 DEF IInv, ClaimHeld, CheckHeld, CopyHeld, PassedIsEarned, CancelWins, RunningIsOwned,
                BaselineIsAlone, RemovedIsGone
  <2> QED BY <2>3, <2>4, <2>5 DEF IInv
<1>2. CASE EndRetention
  <2>1. /\ keeper # None /\ RemoveWorkspace(keeper) /\ keeper' = None
        /\ UNCHANGED <<process, disk, paused, work, barrier, job, live, worker, marked>>
    BY <1>2 DEF EndRetention
  <2>2. keeper \in Checks /\ keeper # job /\ check[keeper].status # "running"
    BY <2>1 DEF IInv, TypeOK, KeeperApart, Terminal
  <2>3. /\ check' \in [Checks -> CheckRecord] /\ dir' \subseteq Checks
        /\ \A d \in Checks : d # keeper => check'[d] = check[d]
        /\ faults' \in 0..MaxFaults
        /\ PassedIsEarned' /\ CancelWins' /\ RunningIsOwned' /\ RemovedIsGone'
    BY <2>1, <2>2, RemovalKeeps
  <2>4. TypeOK'
    BY <2>1, <2>3 DEF IInv, TypeOK
  <2>5. CheckHeld' /\ CopyHeld'
    <3>1. worker.at # "none" => job \in Checks /\ check'[job] = check[job]
      BY <2>2, <2>3, Working
    <3> QED BY <2>1, <3>1 DEF IInv, CheckHeld, CopyHeld
  <2>6. ClaimHeld' /\ BaselineIsAlone' /\ KeeperApart'
    BY <2>1 DEF IInv, ClaimHeld, BaselineIsAlone, KeeperApart
  <2> QED BY <2>3, <2>4, <2>5, <2>6 DEF IInv
<1> QED BY <1>1, <1>2

\* Faults stay within their bound.
LEMMA FaultsBounded ==
    ASSUME IInv, faults' = faults \/ Fault
    PROVE  faults' \in 0..MaxFaults
BY BaselineBounds DEF IInv, TypeOK, Fault

\* The process ends with its worker's claim; what was running waits for Recover.
LEMMA EndsHolds ==
    ASSUME IInv, Ends
    PROVE  IInv'
<1>1. /\ process' = "down" /\ job' = None /\ live' = TRUE /\ worker' = NoWorker /\ keeper' = None
      /\ work' = FALSE /\ barrier' = FALSE /\ UNCHANGED <<disk, paused, check, marked, dir>>
      /\ faults' = faults \/ Fault
  BY DEF Ends
<1>2. worker' \in Workers /\ worker'.at = "none" /\ CheckHeld' /\ CopyHeld'
  BY <1>1, Released
<1>3. TypeOK'
  BY <1>1, <1>2, FaultsBounded DEF IInv, TypeOK, Workers
<1>4. ClaimHeld' /\ KeeperApart' /\ BaselineIsAlone'
  BY <1>1, <1>2 DEF ClaimHeld, KeeperApart, BaselineIsAlone
<1>5. PassedIsEarned' /\ CancelWins' /\ RunningIsOwned' /\ RemovedIsGone'
  BY <1>1 DEF IInv, PassedIsEarned, CancelWins, RunningIsOwned, RemovedIsGone
<1> QED BY <1>2, <1>3, <1>4, <1>5 DEF IInv

\* The steps that touch no check: the operator's pause, other work, the store's
\* outages and the start of a shutdown.
LEMMA ServiceHolds ==
    ASSUME IInv, SetPaused \/ StartWork \/ WorkEnds \/ Shutdown \/ DiskFails \/ DiskReturns
    PROVE  IInv'
<1>1. /\ UNCHANGED <<barrier, job, worker, check, marked, dir, keeper>>
      /\ faults' = faults \/ Fault
  BY DEF SetPaused, StartWork, WorkEnds, Shutdown, DiskFails, DiskReturns
<1>2. /\ process' \in {"up", "stopping", "down"} /\ disk' \in BOOLEAN /\ paused' \in BOOLEAN
      /\ work' \in BOOLEAN /\ live' \in BOOLEAN
      /\ process' = "down" <=> process = "down"
  BY DEF SetPaused, StartWork, WorkEnds, Shutdown, DiskFails, DiskReturns, IInv, TypeOK
<1>3. TypeOK'
  BY <1>1, <1>2, FaultsBounded DEF IInv, TypeOK
<1>4. BaselineIsAlone'
  BY <1>1 DEF IInv, BaselineIsAlone, SetPaused, StartWork, WorkEnds, Shutdown, DiskFails, DiskReturns
<1>5. ClaimHeld' /\ CheckHeld' /\ CopyHeld' /\ KeeperApart'
  BY <1>1, <1>2 DEF IInv, ClaimHeld, CheckHeld, CopyHeld, KeeperApart
<1>6. PassedIsEarned' /\ CancelWins' /\ RunningIsOwned' /\ RemovedIsGone'
  BY <1>1, <1>2 DEF IInv, PassedIsEarned, CancelWins, RunningIsOwned, RemovedIsGone
<1> QED BY <1>3, <1>4, <1>5, <1>6 DEF IInv

-----------------------------------------------------------------------------
\* Before the first check nothing is held.
LEMMA InitHolds ==
    ASSUME Init
    PROVE  IInv
<1>1. /\ NoWorker \in Workers /\ NoWorker.at = "none"
  BY Fresh DEF NoWorker, Workers
<1>2. /\ check = [c \in Checks |-> Unused] /\ worker = NoWorker /\ faults \in 0..MaxFaults
  BY BaselineBounds DEF Init
<1>3. \A c \in Checks : check[c].status = "none" /\ ~check[c].removed
  BY <1>2, Fresh
<1>4. TypeOK
  BY <1>1, <1>2, Fresh DEF Init, TypeOK, Workers
<1>5. /\ ClaimHeld /\ CheckHeld /\ CopyHeld /\ KeeperApart /\ BaselineIsAlone
  BY <1>1 DEF Init, ClaimHeld, CheckHeld, CopyHeld, KeeperApart, BaselineIsAlone
<1>6. PassedIsEarned /\ CancelWins /\ RunningIsOwned /\ RemovedIsGone
  BY <1>3 DEF Init, PassedIsEarned, CancelWins, RunningIsOwned, RemovedIsGone
<1> QED BY <1>4, <1>5, <1>6 DEF IInv

\* Every step keeps the invariant.
LEMMA StepHolds ==
    ASSUME IInv, [Next]_vars
    PROVE  IInv'
<1>1. CASE UNCHANGED vars
  BY <1>1 DEF vars, IInv, TypeOK, ClaimHeld, CheckHeld, CopyHeld, KeeperApart, PassedIsEarned,
              CancelWins, RunningIsOwned, BaselineIsAlone, RemovedIsGone
<1>2. CASE WorkerStep
  BY <1>2, LoadHolds, CloneHolds, RunCommandHolds, CommandLostHolds, CommandsDoneHolds,
     SaveResultHolds, WorkerRemovesHolds, WorkerExitsHolds DEF WorkerStep
<1> QED
  BY <1>1, <1>2, StartHolds, CancelHolds, TickHolds, RestartHolds, RetentionHolds, EndsHolds,
     ServiceHolds DEF Next

\* What is saved of a check is true, through outages, refused writes, stops and
\* deaths: a pass was earned by every command, a cancellation is never
\* overruled, a running check has a worker or recovery to come, its worker is
\* alone in the service, and a clone recorded as removed is gone
\* (baselineWorker, abandonBaseline, recoverBaselines, removeBaselineWorkspace).
THEOREM ChecksAreTrue == Spec => []CheckIsTrue
<1>1. Init => IInv
  BY InitHolds
<1>2. IInv /\ [Next]_vars => IInv'
  BY StepHolds
<1>3. IInv => CheckIsTrue
  BY DEF IInv, CheckIsTrue
<1> QED BY <1>1, <1>2, <1>3, PTL DEF Spec

\* A check that was written keeps a status it ended with when only a running
\* check is written, or the status is kept.
LEMMA FinalWrite ==
    ASSUME NEW c \in Checks, NEW r, NEW accepted \in BOOLEAN,
           check \in [Checks -> CheckRecord], Put(c, r, accepted),
           check[c].status \notin Terminal \/ r.status = check[c].status
    PROVE  \A d \in Checks : check[d].status \in Terminal => check'[d].status = check[d].status
BY DEF Put

\* Whoever writes, a finished check keeps the status it ended with: the worker
\* writes its own check while it is saved as running, recovery and a
\* cancellation only running checks, and a removal keeps the status.
THEOREM FinishedStays == Spec => FinishedIsFinal
<1> DEFINE Final == \A c \in Checks :
                       check[c].status \in Terminal => check'[c].status = check[c].status
<1>1. Init => IInv
  BY InitHolds
<1>2. IInv /\ [Next]_vars => IInv'
  BY StepHolds
<1>3. IInv /\ [Next]_vars => [Final]_vars
  <2> SUFFICES ASSUME IInv, Next PROVE Final
    OBVIOUS
  <2>0. check \in [Checks -> CheckRecord] /\ "running" \notin Terminal /\ "none" \notin Terminal
    BY DEF IInv, TypeOK, Terminal
  <2>1. ASSUME check' = check PROVE Final
    BY <2>1
  <2>2. ASSUME NEW c \in Checks, NEW r, NEW accepted \in BOOLEAN, Put(c, r, accepted),
               check[c].status \notin Terminal \/ r.status = check[c].status
        PROVE  Final
    BY <2>0, <2>2, FinalWrite
  <2>3. ASSUME NEW c \in Checks, StartBaseline(c) PROVE Final
    BY <2>0, <2>2, <2>3 DEF StartBaseline
  <2>4. ASSUME NEW c \in Checks, CancelBaseline(c) PROVE Final
    BY <2>0, <2>1, <2>2, <2>4, Answers DEF CancelBaseline
  <2>5. CASE WorkerStep
    <3>1. CASE Load \/ CommandLost \/ CommandsDone
      BY <2>1, <3>1 DEF Load, CommandLost, CommandsDone
    <3>2. CASE Clone \/ RunCommand \/ SaveResult
      <4>1. worker.at \in {"clone", "commands", "settle"}
        BY <3>2 DEF Clone, RunCommand, SaveResult
      <4>2. job \in Checks /\ check[job].status \notin Terminal
        BY <2>0, <4>1, Working DEF IInv, CheckHeld
      <4>4. CASE Clone
        BY <2>2, <4>2, <4>4, Answers DEF Clone
      <4>5. CASE RunCommand
        BY <2>2, <4>2, <4>5, Answers DEF RunCommand
      <4>6. CASE SaveResult
        BY <2>2, <4>2, <4>6, Answers DEF SaveResult
      <4> QED BY <3>2, <4>4, <4>5, <4>6
    <3>3. CASE WorkerRemoves
      <4>1. /\ job \in Checks /\ RemoveWorkspace(job)
            /\ UNCHANGED <<process, barrier, job, marked>>
        BY <3>3, Working DEF WorkerRemoves
      <4> QED BY <4>1, RemovalKeeps
    <3>4. CASE WorkerExits
      <4>1. job \in Checks
        BY <3>4, Working DEF WorkerExits
      <4>2. PICK accepted \in BOOLEAN :
               Put(job, IF check[job].status = "running" THEN Abandoned(job, marked) ELSE check[job],
                   accepted)
        BY <3>4, Answers DEF WorkerExits
      <4> QED BY <2>0, <2>2, <4>1, <4>2
    <3> QED BY <2>5, <3>1, <3>2, <3>3, <3>4 DEF WorkerStep
  <2>6. CASE Tick \/ Restart
    <3>1. /\ check' = check \/ RecoverBaselines
          /\ UNCHANGED <<job, marked, dir, worker, keeper>>
      BY <2>6, Answers DEF Tick, Restart
    <3>2. CASE RecoverBaselines
      <4>1. \A c \in Checks : c \notin Orphans => check'[c] = check[c]
        BY <3>1, <3>2, RecoveryKeeps
      <4> QED BY <2>0, <4>1 DEF Orphans
    <3> QED BY <2>1, <3>1, <3>2
  <2>7. CASE EndRetention
    <3>1. /\ keeper \in Checks /\ RemoveWorkspace(keeper)
          /\ UNCHANGED <<process, barrier, job, marked>>
      BY <2>7 DEF EndRetention, IInv, TypeOK
    <3> QED BY <3>1, RemovalKeeps
  <2>8. CASE \/ SetPaused \/ StartWork \/ WorkEnds \/ StartRetention \/ Shutdown \/ Ends
             \/ DiskFails \/ DiskReturns
    BY <2>1, <2>8 DEF SetPaused, StartWork, WorkEnds, StartRetention, Shutdown, Ends, DiskFails,
                      DiskReturns
  <2> QED BY <2>3, <2>4, <2>5, <2>6, <2>7, <2>8 DEF Next
<1> QED BY <1>1, <1>2, <1>3, PTL DEF Spec, FinishedIsFinal

=============================================================================
