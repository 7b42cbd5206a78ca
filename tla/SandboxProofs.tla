--------------------------- MODULE SandboxProofs ---------------------------
(***************************************************************************)
(* Proofs about the broker and its clients, for every set of requests and  *)
(* every limit: the broker's limit holds, what a report says is true, what *)
(* a finished request left behind has a reaper, and a child whose Wait     *)
(* reports a status is gone.                                               *)
(*                                                                         *)
(* The argument is per sandbox.  Local(s) says, for each place the handler *)
(* of s can be, what the daemon, the lease directory and the slots hold of *)
(* s, with what a restarted broker finds of its predecessor's sandboxes.   *)
(***************************************************************************)
EXTENDS SandboxClient, FiniteSetTheorems, TLAPS

Truthful == {"command", "killed", "time_limit"}

\* A request without a slot owns nothing yet.
Fresh(s) ==
    pc[s] \in {"new", "waiting"} =>
       /\ container[s] = "absent" /\ start[s] = "no" /\ ~known[s]
       /\ ~slot[s] /\ ~lease[s] /\ reaper[s] = {} /\ end[s] = NewEnding

\* What a handler holds while it prepares, runs and removes its container.
Held(s) ==
    /\ pc[s] \in Handled => slot[s]
    /\ pc[s] \in Handled \ {"removing"} => reaper[s] = {}
    /\ pc[s] = "leasing" => container[s] = "absent" /\ ~lease[s]
    /\ pc[s] \in {"leasing", "creating"} => ~known[s]
    /\ pc[s] \in {"ready"} \cup Executing => known[s]
    /\ pc[s] \in Preparing => start[s] = "no" /\ end[s] = NewEnding
    /\ pc[s] = "running" => start[s] = "done"
    /\ pc[s] = "removing" =>
          ("lease" \in reaper[s] <=> lease[s]) /\ "container" \notin reaper[s]

\* A finished request holds exactly what its reaper has to remove.
Done(s) ==
    pc[s] = "done" =>
       /\ "lease" \in reaper[s] <=> lease[s]
       /\ "container" \in reaper[s] <=> slot[s]
       /\ ~slot[s] => container[s] = "absent"

\* What an earlier broker left: once a new one serves, at most a container
\* whose create came late, which nobody starts.
Lost(s) ==
    pc[s] = "lost" =>
       /\ ~slot[s] /\ reaper[s] = {}
       /\ broker # "down" =>
             /\ ~lease[s]
             /\ container[s] \in {"absent", "pending", "created"}
             /\ container[s] # "absent" => start[s] = "no"

\* Nobody handles a request of a broker that is down.
Idle(s) ==
    broker = "down" => pc[s] \in {"new", "done", "lost"} /\ reaper[s] = {}

\* A create in flight has no start behind it, and nothing confirms its end.
Pending(s) == container[s] = "pending" => start[s] = "no" /\ ~known[s]

\* The ending that run builds: a credited kill was asked for and has stopped the
\* container, and a run ends with a failure, a kill or an exit.
Ending(s) ==
    /\ end[s].by # "none" \/ end[s].unanswered => end[s].asked # "none"
    /\ pc[s] \in {"starting", "running"} =>
          /\ end[s].exit = "none"
          /\ end[s].by # "none" => container[s] \in {"exited", "sigkilled"}
    /\ pc[s] = "running" => end[s].started
    /\ pc[s] \in {"ended"} \cup Removing =>
          \/ end[s].mute \/ end[s].err
          \/ end[s].started /\ (end[s].by # "none" \/ end[s].exit # "none")

\* What a report without a failure rests on.
Claims(s) ==
    /\ report[s] # "none" => pc[s] \in {"done", "lost"}
    /\ report[s] \in Truthful =>
          /\ pc[s] = "done" /\ reaper[s] = {} /\ end[s].started
          /\ report[s] = "command" => end[s].exit # "none" /\ end[s].by = "none"
          /\ report[s] # "command" => end[s].asked # "none"

\* The control plane's end of the stream.
Child(s) ==
    /\ child[s] = "new" => pc[s] = "new" /\ client[s]
    /\ child[s] = "opening" =>
          client[s] /\ start[s] = "no" /\ pc[s] \notin {"ready"} \cup Executing
    /\ child[s] = "refused" =>
          /\ start[s] = "no" /\ pc[s] \in {"new", "done", "lost"}
          /\ pc[s] = "new" => client[s]
    /\ child[s] = "status" => report[s] \in Truthful

\* A kill asked for has stopped the container or is retried.
KillHeld(s) ==
    pc[s] = "running" /\ end[s].asked # "none" /\ container[s] = "running" =>
          end[s].unanswered

Local(s) ==
    /\ Fresh(s) /\ Held(s) /\ Done(s) /\ Lost(s) /\ Idle(s) /\ Pending(s)
    /\ Ending(s) /\ KillHeld(s) /\ Claims(s) /\ Child(s)

\* Everything the runs check of the broker and its clients follows from this.
IInv ==
    /\ TypeOK /\ ClientTypeOK
    /\ IsFiniteSet(Taken) /\ Cardinality(Taken) <= MaxLive
    /\ \A s \in Sandboxes : Local(s)

\* Nothing of t changes, and the broker is as it was.
Same(t) ==
    /\ broker' = broker
    /\ client'[t] = client[t] /\ child'[t] = child[t] /\ pc'[t] = pc[t]
    /\ container'[t] = container[t] /\ start'[t] = start[t]
    /\ known'[t] = known[t] /\ slot'[t] = slot[t] /\ lease'[t] = lease[t]
    /\ end'[t] = end[t] /\ reaper'[t] = reaper[t] /\ report'[t] = report[t]

\* A step of one sandbox or of its child.
Steps(s) ==
    \/ Begin(s) \/ Refused(s) \/ Cancelled(s) \/ Upgraded(s)
    \/ Kills(s) \/ Cuts(s) \/ Reported(s) \/ Lose(s)
    \/ Arrives(s) \/ Serves(s) \/ KillArrives(s)
    \/ (Reap(s) \/ DaemonCreates(s) \/ DaemonStarts(s) \/ ProgramEnds(s)) /\ UNCHANGED child

\* What a step leaves alone keeps its invariant.
LEMMA Unmoved ==
    ASSUME NEW t \in Sandboxes, Local(t), Same(t)
    PROVE  Local(t)'
  BY DEF Same, Local, Fresh, Held, Done, Lost, Idle, Pending, Ending, Claims, Child, KillHeld

\* One SIGKILL request (sandbox.kill): it records who asked first, it never
\* clears what was recorded before, and a container that still runs after it
\* has an unanswered kill on record.
LEMMA KillEffect ==
    ASSUME TypeOK, NEW s \in Sandboxes, NEW reason \in {"none", "client", "limit"},
           NEW e \in Endings, Kill(s, reason, e)
    PROVE  /\ end' \in [Sandboxes -> Endings]
           /\ container' \in [Sandboxes -> {"absent", "pending"} \cup Exists]
           /\ faults' \in 0..MaxFaults
           /\ \A t \in Sandboxes \ {s} : end'[t] = end[t] /\ container'[t] = container[t]
           /\ end'[s].started = e.started /\ end'[s].exit = e.exit
           /\ end'[s].mute = e.mute /\ end'[s].err = e.err
           /\ end'[s].asked = IF e.asked = "none" THEN reason ELSE e.asked
           /\ e.unanswered => end'[s].unanswered
           /\ \/ /\ container[s] = "running" /\ container'[s] = "sigkilled"
                 /\ end'[s].by = IF e.by = "none" THEN reason ELSE e.by
              \/ /\ container[s] = "running" /\ container'[s] = "sigkilled"
                 /\ end'[s].by = e.by
              \/ /\ container'[s] = container[s] /\ end'[s].by = e.by
                 /\ container[s] # "running" \/ end'[s].unanswered
<1> DEFINE asking == [e EXCEPT !.asked = IF @ = "none" THEN reason ELSE @]
<1>1. /\ asking \in Endings /\ asking.asked = IF e.asked = "none" THEN reason ELSE e.asked
      /\ asking.started = e.started /\ asking.exit = e.exit /\ asking.mute = e.mute
      /\ asking.err = e.err /\ asking.by = e.by /\ asking.unanswered = e.unanswered
  BY DEF Endings
<1> DEFINE killed == [asking EXCEPT !.by = IF @ = "none" THEN reason ELSE @]
           unsure == [asking EXCEPT !.unanswered = TRUE]
<1> HIDE DEF asking
<1>2. /\ killed \in Endings /\ killed.by = IF e.by = "none" THEN reason ELSE e.by
      /\ killed.started = e.started /\ killed.exit = e.exit /\ killed.mute = e.mute
      /\ killed.err = e.err /\ killed.asked = asking.asked /\ killed.unanswered = e.unanswered
  BY <1>1 DEF Endings
<1>3. /\ unsure \in Endings /\ unsure.unanswered
      /\ unsure.started = e.started /\ unsure.exit = e.exit /\ unsure.mute = e.mute
      /\ unsure.err = e.err /\ unsure.asked = asking.asked /\ unsure.by = e.by
  BY <1>1 DEF Endings
<1>4. \/ /\ container[s] = "running" /\ faults' = faults
         /\ container' = [container EXCEPT ![s] = "sigkilled"]
         /\ end' = [end EXCEPT ![s] = killed]
      \/ /\ container[s] # "running" /\ container' = container /\ faults' = faults
         /\ end' = [end EXCEPT ![s] = asking]
      \/ /\ container' = container /\ faults' = faults
         /\ end' = [end EXCEPT ![s] = unsure]
      \/ /\ container[s] = "running" /\ Fault
         /\ container' = [container EXCEPT ![s] = "sigkilled"]
         /\ end' = [end EXCEPT ![s] = unsure]
  BY DEF Kill, asking
<1> HIDE DEF killed, unsure
<1>5. faults' \in 0..MaxFaults
  BY <1>4, BrokerBounds DEF Fault, TypeOK
<1> QED
  BY <1>1, <1>2, <1>3, <1>4, <1>5 DEF TypeOK, Exists

\* The confirmation of a start (run): it sends again a kill that was asked for
\* during the start and not credited yet.
LEMMA StartedEffect ==
    ASSUME TypeOK, NEW s \in Sandboxes, Started(s)
    PROVE  /\ end' \in [Sandboxes -> Endings]
           /\ container' \in [Sandboxes -> {"absent", "pending"} \cup Exists]
           /\ faults' \in 0..MaxFaults
           /\ \A t \in Sandboxes \ {s} : end'[t] = end[t] /\ container'[t] = container[t]
           /\ end'[s].started /\ end'[s].exit = end[s].exit
           /\ end'[s].asked = end[s].asked
           /\ end[s].unanswered => end'[s].unanswered
           /\ end'[s].unanswered => end[s].unanswered \/ end[s].asked # "none"
           /\ \/ /\ container[s] = "running" /\ container'[s] = "sigkilled"
                 /\ end'[s].by \in {end[s].by, end[s].asked}
              \/ /\ container'[s] = container[s] /\ end'[s].by = end[s].by
                 /\ end[s].asked # "none" /\ end[s].by = "none" =>
                       container[s] # "running" \/ end'[s].unanswered
<1> DEFINE e == [end[s] EXCEPT !.started = TRUE]
<1>1. end[s] \in Endings
  BY DEF TypeOK
<1>2. /\ e \in Endings /\ e.started /\ e.exit = end[s].exit /\ e.asked = end[s].asked
      /\ e.unanswered = end[s].unanswered /\ e.by = end[s].by
  BY <1>1 DEF Endings
<1>3. IF e.asked # "none" /\ e.by = "none"
        THEN Kill(s, e.asked, e)
        ELSE end' = [end EXCEPT ![s] = e] /\ container' = container /\ faults' = faults
  BY DEF Started
<1> HIDE DEF e
<1>4. CASE e.asked # "none" /\ e.by = "none"
  <2>1. e.asked \in {"none", "client", "limit"}
    BY <1>2 DEF Endings
  <2>2. Kill(s, e.asked, e)
    BY <1>3, <1>4
  <2> QED
    BY <1>2, <1>4, <2>1, <2>2, KillEffect
<1>5. CASE ~(e.asked # "none" /\ e.by = "none")
  BY <1>2, <1>3, <1>5 DEF TypeOK
<1> QED
  BY <1>4, <1>5

\* The ways run marks an ending leave who asked for and who caused it alone.
LEMMA Marked ==
    ASSUME TypeOK, NEW s \in Sandboxes
    PROVE  /\ end' = [end EXCEPT ![s].mute = TRUE] =>
                 /\ end' \in [Sandboxes -> Endings]
                 /\ end'[s].mute /\ end'[s].asked = end[s].asked
                 /\ end'[s].by = end[s].by /\ end'[s].unanswered = end[s].unanswered
           /\ end' = [end EXCEPT ![s].err = TRUE] =>
                 /\ end' \in [Sandboxes -> Endings]
                 /\ end'[s].err /\ end'[s].asked = end[s].asked
                 /\ end'[s].by = end[s].by /\ end'[s].unanswered = end[s].unanswered
           /\ end' = [end EXCEPT ![s].attempted = TRUE] =>
                 /\ end' \in [Sandboxes -> Endings]
                 /\ end'[s].asked = end[s].asked /\ end'[s].exit = end[s].exit
                 /\ end'[s].by = end[s].by /\ end'[s].unanswered = end[s].unanswered
<1>1. end \in [Sandboxes -> Endings] /\ end[s] \in Endings
  BY DEF TypeOK
<1>2. ASSUME end' = [end EXCEPT ![s].mute = TRUE]
      PROVE  /\ end' \in [Sandboxes -> Endings]
             /\ end'[s].mute /\ end'[s].asked = end[s].asked
             /\ end'[s].by = end[s].by /\ end'[s].unanswered = end[s].unanswered
  BY <1>1, <1>2 DEF Endings
<1>3. ASSUME end' = [end EXCEPT ![s].err = TRUE]
      PROVE  /\ end' \in [Sandboxes -> Endings]
             /\ end'[s].err /\ end'[s].asked = end[s].asked
             /\ end'[s].by = end[s].by /\ end'[s].unanswered = end[s].unanswered
  BY <1>1, <1>3 DEF Endings
<1>4. ASSUME end' = [end EXCEPT ![s].attempted = TRUE]
      PROVE  /\ end' \in [Sandboxes -> Endings]
             /\ end'[s].asked = end[s].asked /\ end'[s].exit = end[s].exit
             /\ end'[s].by = end[s].by /\ end'[s].unanswered = end[s].unanswered
  BY <1>1, <1>4 DEF Endings
<1> QED
  BY <1>2, <1>3, <1>4

\* A run that the wait or stopWait ends has an exit or a kill to report.
LEMMA Stopped ==
    ASSUME TypeOK, NEW s \in Sandboxes, WaitResult(s) \/ ForceStop(s)
    PROVE  /\ end' \in [Sandboxes -> Endings]
           /\ end'[s].started = end[s].started /\ end'[s].asked = end[s].asked
           /\ end'[s].unanswered = end[s].unanswered
           /\ end'[s].by = end[s].by \/ end'[s].by = end[s].asked
           /\ end'[s].by # "none" \/ end'[s].exit # "none"
<1>1. end \in [Sandboxes -> Endings] /\ end[s] \in Endings
  BY DEF TypeOK
<1>2. CASE WaitResult(s)
  <2> DEFINE by == IF /\ end[s].by = "none" /\ end[s].unanswered
                      /\ container[s] = "sigkilled"
                     THEN end[s].asked ELSE end[s].by
             e == [end[s] EXCEPT !.exit = container[s], !.by = by]
  <2>1. by \in {"none", "client", "limit"} /\ container[s] \in {"exited", "sigkilled"}
    BY <1>1, <1>2 DEF WaitResult, Endings
  <2>2. end' = [end EXCEPT ![s] = e]
    BY <1>2 DEF WaitResult
  <2> HIDE DEF by
  <2>3. /\ e \in Endings /\ e.started = end[s].started /\ e.asked = end[s].asked
        /\ e.unanswered = end[s].unanswered /\ e.by = by /\ e.exit # "none"
    BY <1>1, <2>1 DEF Endings
  <2> HIDE DEF e
  <2> QED
    BY <1>1, <2>2, <2>3 DEF by
<1>3. CASE ForceStop(s)
  <2> DEFINE by == IF end[s].by = "none" THEN end[s].asked ELSE end[s].by
             e == [end[s] EXCEPT !.by = by]
  <2>1. by \in {"none", "client", "limit"} /\ end[s].asked # "none"
    BY <1>1, <1>3 DEF ForceStop, Endings
  <2>2. end' = [end EXCEPT ![s] = e]
    BY <1>3 DEF ForceStop
  <2> HIDE DEF by
  <2>3. /\ e \in Endings /\ e.started = end[s].started /\ e.asked = end[s].asked
        /\ e.unanswered = end[s].unanswered /\ e.by = by
    BY <1>1, <2>1 DEF Endings
  <2> HIDE DEF e
  <2> QED
    BY <1>1, <2>1, <2>2, <2>3 DEF by
<1> QED
  BY <1>2, <1>3

\* A handler, a reaper, a client or the daemon works on one sandbox at a time.
LEMMA OneMoves ==
    ASSUME TypeOK, ClientTypeOK, NEW s \in Sandboxes, NEW t \in Sandboxes, t # s, Steps(s)
    PROVE  Same(t)
<1> USE DEF TypeOK, ClientTypeOK, Same, world, brokerSide, vars
<1>1. CASE Begin(s)
  BY <1>1 DEF Begin, Becomes
<1>2. CASE Refused(s)
  BY <1>2 DEF Refused, Becomes, HangUp
<1>3. CASE Cancelled(s)
  BY <1>3 DEF Cancelled, Becomes, HangUp
<1>4. CASE Upgraded(s) \/ Kills(s) \/ Reported(s) \/ Lose(s)
  BY <1>4 DEF Upgraded, Kills, Reported, Lose, Becomes
<1>5. CASE Cuts(s)
  BY <1>5 DEF Cuts, Becomes, HangUp
<1>6. CASE Arrives(s)
  BY <1>6 DEF Arrives, HandleSandbox, Goto
<1>7. CASE KillArrives(s)
  BY <1>7 DEF KillArrives, KillAsked, Becomes, Kill
<1>8. CASE Serves(s)
  <2>1. child'[t] = child[t]
    BY <1>8 DEF Serves
  <2>2. CASE Acquire(s)
    BY <2>1, <2>2 DEF Acquire, Goto
  <2>3. CASE Grant(s)
    BY <2>1, <2>3 DEF Grant, Goto
  <2>4. CASE Created(s)
    BY <2>1, <2>4 DEF Created, Goto
  <2>5. CASE Rejected(s)
    BY <2>1, <2>5 DEF Rejected, Goto
  <2>6. CASE CreateFailed(s)
    BY <2>1, <2>6 DEF CreateFailed, Goto
  <2>7. CASE Start(s)
    BY <2>1, <2>7 DEF Start, Goto
  <2>8. CASE AskKill(s)
    BY <2>1, <2>8 DEF AskKill, Kill
  <2>9. CASE Started(s)
    <3>1. end'[t] = end[t] /\ container'[t] = container[t]
      <4> HIDE DEF TypeOK
      <4> QED
        BY <2>9, StartedEffect
    <3> QED
      BY <2>1, <2>9, <3>1 DEF Started, Goto
  <2>10. CASE StartFailed(s) \/ WaitResult(s) \/ RunFailed(s) \/ ForceStop(s) \/ StreamClosed(s)
    BY <2>1, <2>10 DEF StartFailed, WaitResult, RunFailed, ForceStop, StreamClosed, Goto
  <2>11. CASE Collect(s) \/ Revoke(s)
    BY <2>1, <2>11 DEF Collect, Revoke, Goto
  <2>12. CASE RemoveConfirmed(s) \/ RemoveFailed(s)
    BY <2>1, <2>12 DEF RemoveConfirmed, RemoveFailed, Goto
  <2> QED
    BY <1>8, <2>2, <2>3, <2>4, <2>5, <2>6, <2>7, <2>8, <2>9, <2>10, <2>11, <2>12 DEF Serves, Handler
<1>9. CASE Reap(s) /\ UNCHANGED child
  BY <1>9 DEF Reap
<1>10. CASE (DaemonCreates(s) \/ DaemonStarts(s) \/ ProgramEnds(s)) /\ UNCHANGED child
  BY <1>10 DEF DaemonCreates, DaemonStarts, ProgramEnds
<1> QED
  BY <1>1, <1>2, <1>3, <1>4, <1>5, <1>6, <1>7, <1>8, <1>9, <1>10 DEF Steps


\* Every step of a sandbox keeps the types.
LEMMA OwnTypes ==
    ASSUME TypeOK, ClientTypeOK, NEW s \in Sandboxes, Steps(s)
    PROVE  TypeOK' /\ ClientTypeOK'
<1>0. Fault => faults' \in 0..MaxFaults
  BY BrokerBounds DEF Fault, TypeOK
<1> USE DEF TypeOK, ClientTypeOK
<1>1. CASE Begin(s)
  BY <1>0, <1>1 DEF Begin, Becomes, brokerSide, Holding, Streaming, Ended
<1>2. CASE Refused(s) \/ Cancelled(s) \/ Cuts(s)
  BY <1>2 DEF Refused, Cancelled, Cuts, Becomes, HangUp, brokerSide, Holding, Streaming, Ended
<1>3. CASE Upgraded(s) \/ Kills(s) \/ Reported(s) \/ Lose(s)
  BY <1>3 DEF Upgraded, Kills, Reported, Verdict, Lose, Becomes, vars, Holding, Streaming, Ended
<1>4. CASE Arrives(s)
  BY <1>4 DEF Arrives, HandleSandbox, Goto, world
<1>5. CASE KillArrives(s)
  <2>1. Kill(s, "client", end[s]) /\ end[s] \in Endings
    BY <1>5 DEF KillArrives, KillAsked
  <2>2. /\ end' \in [Sandboxes -> Endings] /\ faults' \in 0..MaxFaults
        /\ container' \in [Sandboxes -> {"absent", "pending"} \cup Exists]
    <3> HIDE DEF TypeOK
    <3> QED
      BY <2>1, KillEffect
  <2> QED
    BY <1>5, <2>2 DEF KillArrives, KillAsked, Becomes, Holding, Streaming
<1>6. CASE Serves(s)
  <2>1. ClientTypeOK'
    BY <1>6 DEF Serves, Holding
  <2>2. CASE Acquire(s)
    BY <2>1, <2>2 DEF Acquire, Goto, world, Handled, Preparing
  <2>3. CASE Start(s)
    BY <2>1, <2>3, Marked DEF Start, Goto, world, Handled, Executing
  <2>4. CASE Grant(s)
    <3>1. slot' \in [Sandboxes -> BOOLEAN] /\ lease' \in [Sandboxes -> BOOLEAN]
      BY <2>4 DEF Grant
    <3>2. container' \in [Sandboxes -> {"absent", "pending"} \cup Exists]
      BY <2>4 DEF Grant
    <3> QED
      BY <2>1, <2>4, <3>1, <3>2 DEF Grant, Goto, world, Handled, Preparing
  <2>5. CASE Rejected(s)
    BY <1>0, <2>1, <2>5 DEF Rejected, Goto
  <2>6. CASE Created(s)
    BY <1>0, <2>1, <2>6, Marked DEF Created, Goto, world, Handled, Preparing, Removing
  <2>7. CASE CreateFailed(s)
    <3>1. end' \in [Sandboxes -> Endings]
      BY <2>7, Marked DEF CreateFailed
    <3>2. container' \in [Sandboxes -> {"absent", "pending"} \cup Exists]
      BY <2>7 DEF CreateFailed, Exists
    <3>3. /\ known' \in [Sandboxes -> BOOLEAN] /\ faults' \in 0..MaxFaults
          /\ UNCHANGED <<broker, docker, disk>>
      BY <1>0, <2>7 DEF CreateFailed, world
    <3> QED
      BY <2>1, <2>7, <3>1, <3>2, <3>3 DEF CreateFailed, Goto, Handled, Removing
  <2>8. CASE AskKill(s)
    <3>1. end[s] \in Endings /\ end[s].asked \in {"none", "client", "limit"}
      BY DEF Endings
    <3>2. Kill(s, "limit", end[s]) \/ Kill(s, end[s].asked, end[s])
      BY <2>8 DEF AskKill
    <3>3. /\ end' \in [Sandboxes -> Endings] /\ faults' \in 0..MaxFaults
          /\ container' \in [Sandboxes -> {"absent", "pending"} \cup Exists]
      <4> HIDE DEF TypeOK
      <4> QED
        BY <3>1, <3>2, KillEffect
    <3> QED
      BY <2>1, <2>8, <3>3 DEF AskKill
  <2>9. CASE Started(s)
    <3>1. /\ end' \in [Sandboxes -> Endings] /\ faults' \in 0..MaxFaults
          /\ container' \in [Sandboxes -> {"absent", "pending"} \cup Exists]
      <4> HIDE DEF TypeOK
      <4> QED
        BY <2>9, StartedEffect
    <3> QED
      BY <2>1, <2>9, <3>1 DEF Started, Goto, Handled, Executing
  <2>10. CASE StartFailed(s) \/ RunFailed(s) \/ StreamClosed(s)
    BY <2>1, <2>10, Marked
       DEF StartFailed, RunFailed, StreamClosed, Goto, world, Handled, Executing
  <2>11. CASE WaitResult(s) \/ ForceStop(s)
    BY <2>1, <2>11, Stopped DEF WaitResult, ForceStop, Goto, world, Handled, Executing
  <2>12. CASE Collect(s)
    BY <2>1, <2>12 DEF Collect, Evidence, Goto, world, Handled, Removing
  <2>13. CASE Revoke(s)
    BY <2>1, <2>13 DEF Revoke, Goto, world, Handled, Removing
  <2>14. CASE RemoveConfirmed(s)
    BY <2>1, <2>14 DEF RemoveConfirmed, Reports, Goto, world
  <2>15. CASE RemoveFailed(s)
    BY <2>1, <2>15 DEF RemoveFailed, Reports, Goto, world
  <2> QED
    BY <1>6, <2>2, <2>3, <2>4, <2>5, <2>6, <2>7, <2>8, <2>9,
       <2>10, <2>11, <2>12, <2>13, <2>14, <2>15
       DEF Serves, Handler
<1>7. CASE Reap(s) /\ UNCHANGED child
  BY <1>7 DEF Reap, world
<1>8. CASE (DaemonCreates(s) \/ DaemonStarts(s) \/ ProgramEnds(s)) /\ UNCHANGED child
  BY <1>0, <1>8 DEF DaemonCreates, DaemonStarts, ProgramEnds, Exists, world
<1> QED
  BY <1>1, <1>2, <1>3, <1>4, <1>5, <1>6, <1>7, <1>8 DEF Steps


\* Every step of a sandbox keeps its own invariant, one case per action.
LEMMA OwnStep ==
    ASSUME TypeOK, ClientTypeOK, NEW s \in Sandboxes, Local(s), Steps(s)
    PROVE  Local(s)'
<1> USE DEF Local, Fresh, Held, Done, Lost, Idle, Pending, Ending, Claims, Child, KillHeld,
            Handled, Preparing, Executing, Removing, Exists, Truthful, Serving, TypeOK, ClientTypeOK
<1>1. CASE Begin(s)
  BY <1>1 DEF Begin, Becomes, brokerSide
<1>2. CASE Refused(s)
  <2>1. child'[s] = "refused" /\ start[s] = "no" /\ pc[s] \in {"new", "done", "lost"}
    BY <1>2 DEF Refused, Becomes
  <2>2. pc[s] = "new" => client'[s]
    BY <1>2 DEF Refused
  <2> QED
    BY <1>2, <2>1, <2>2 DEF Refused, brokerSide
<1>3. CASE Cancelled(s) \/ Cuts(s)
  BY <1>3 DEF Cancelled, Cuts, Becomes, HangUp, brokerSide
<1>4. CASE Upgraded(s) \/ Kills(s) \/ Lose(s)
  BY <1>4 DEF Upgraded, Kills, Lose, Becomes, vars
<1>5. CASE Reported(s)
  BY <1>5 DEF Reported, Verdict, Becomes, vars
<1>6. CASE Arrives(s)
  BY <1>6 DEF Arrives, HandleSandbox, Goto, world
<1>7. CASE KillArrives(s)
  <2>1. Kill(s, "client", end[s]) /\ end[s] \in Endings
    BY <1>7 DEF KillArrives, KillAsked
  <2>2. /\ end'[s].started = end[s].started /\ end'[s].exit = end[s].exit
        /\ end'[s].asked # "none"
        /\ end[s].unanswered => end'[s].unanswered
        /\ \/ container[s] = "running" /\ container'[s] = "sigkilled"
           \/ /\ container'[s] = container[s] /\ end'[s].by = end[s].by
              /\ container[s] # "running" \/ end'[s].unanswered
    <3> HIDE DEF TypeOK
    <3> QED
      BY <2>1, KillEffect
  <2> QED
    BY <1>7, <2>2 DEF KillArrives, KillAsked, Becomes
<1>8. CASE Serves(s)
  <2>1. child'[s] = IF child[s] = "opening" /\ pc'[s] = "ready" THEN "answered" ELSE child[s]
    BY <1>8 DEF Serves
  <2>2. CASE Acquire(s)
    BY <2>1, <2>2 DEF Acquire, Goto, world
  <2>3. CASE Grant(s)
    BY <2>1, <2>3 DEF Grant, Goto, world
  <2>4. CASE Created(s)
    <3>1. CASE pc'[s] = "ready"
      BY <2>1, <2>4, <3>1 DEF Created, Goto, world
    <3>2. CASE pc'[s] = "revoking"
      <4>1. end' = [end EXCEPT ![s].mute = TRUE]
        BY <2>4, <3>2 DEF Created, Goto
      <4>2. end[s].by = "none" /\ ~end[s].unanswered
        BY <2>4 DEF Created, NewEnding
      <4>3. end'[s].mute /\ end'[s].by = "none" /\ ~end'[s].unanswered
        <5> HIDE DEF TypeOK
        <5> QED
          BY <4>1, <4>2, Marked
      <4> QED
        BY <2>1, <2>4, <3>2, <4>3 DEF Created, Goto, world
    <3> QED
      BY <2>4, <3>1, <3>2 DEF Created, Goto
  <2>5. CASE Rejected(s)
    BY <2>1, <2>5 DEF Rejected, Goto
  <2>6. CASE CreateFailed(s)
    BY <2>1, <2>6 DEF CreateFailed, Goto, world, NewEnding
  <2>7. CASE Start(s)
    <3>1. end[s].by = "none" /\ ~end[s].unanswered /\ end[s].exit = "none"
      BY <2>7 DEF Start, NewEnding
    <3>2. /\ end'[s].by = "none" /\ ~end'[s].unanswered
          /\ start'[s] = "no" => end'[s].mute
          /\ start'[s] # "no" => end'[s].exit = "none"
      <4>1. \/ end' = [end EXCEPT ![s].attempted = TRUE] /\ start'[s] = "sent"
            \/ end' = [end EXCEPT ![s].mute = TRUE] /\ start'[s] = "no"
        BY <2>7 DEF Start
      <4> HIDE DEF TypeOK
      <4> QED
        BY <3>1, <4>1, Marked
    <3>3. pc'[s] = IF start'[s] = "no" THEN "ended" ELSE "starting"
      BY <2>7 DEF Start, Goto
    <3> QED
      BY <2>1, <2>7, <3>2, <3>3 DEF Start, world
  <2>8. CASE AskKill(s)
    <3>1. end[s] \in Endings /\ end[s].asked \in {"none", "client", "limit"}
      BY DEF Endings
    <3>2. Kill(s, "limit", end[s]) \/ (end[s].unanswered /\ Kill(s, end[s].asked, end[s]))
      BY <2>8 DEF AskKill
    <3>3. /\ end'[s].started = end[s].started /\ end'[s].exit = end[s].exit
          /\ end'[s].asked # "none"
          /\ end[s].unanswered => end'[s].unanswered
          /\ \/ container[s] = "running" /\ container'[s] = "sigkilled"
             \/ /\ container'[s] = container[s] /\ end'[s].by = end[s].by
                /\ container[s] # "running" \/ end'[s].unanswered
      <4>1. end[s].unanswered => end[s].asked # "none"
        OBVIOUS
      <4> HIDE DEF TypeOK
      <4> QED
        BY <3>1, <3>2, <4>1, KillEffect
    <3> QED
      BY <2>1, <2>8, <3>3 DEF AskKill
  <2>9. CASE Started(s)
    <3>1. /\ end'[s].started /\ end'[s].exit = end[s].exit
          /\ end'[s].asked = end[s].asked
          /\ end'[s].unanswered => end[s].unanswered \/ end[s].asked # "none"
          /\ \/ /\ container[s] = "running" /\ container'[s] = "sigkilled"
                /\ end'[s].by \in {end[s].by, end[s].asked}
             \/ /\ container'[s] = container[s] /\ end'[s].by = end[s].by
                /\ end[s].asked # "none" /\ end[s].by = "none" =>
                      container[s] # "running" \/ end'[s].unanswered
      <4> HIDE DEF TypeOK
      <4> QED
        BY <2>9, StartedEffect
    <3>2. pc'[s] = "running" /\ pc[s] = "starting" /\ start[s] = "done"
      BY <2>9 DEF Started, Goto
    <3>3. Ending(s)' /\ KillHeld(s)'
      BY <3>1, <3>2
    <3>4. UNCHANGED <<broker, client, start, known, slot, lease, reaper, report>>
      BY <2>9 DEF Started
    <3> QED
      BY <2>1, <3>1, <3>2, <3>3, <3>4
  <2>10. CASE StartFailed(s) \/ RunFailed(s) \/ StreamClosed(s)
    BY <2>1, <2>10 DEF StartFailed, RunFailed, StreamClosed, Goto, world, Endings
  <2>11. CASE WaitResult(s)
    BY <2>1, <2>11 DEF WaitResult, Goto, world, Endings
  <2>12. CASE ForceStop(s)
    BY <2>1, <2>12 DEF ForceStop, Goto, world, Endings
  <2>13. CASE Collect(s)
    BY <2>1, <2>13 DEF Collect, Goto, world
  <2>14. CASE Revoke(s)
    BY <2>1, <2>14 DEF Revoke, Goto, world
  <2>15. CASE RemoveConfirmed(s)
    <3>1. /\ pc'[s] = "done" /\ ~slot'[s] /\ container'[s] = "absent"
          /\ UNCHANGED <<broker, client, start, known, lease, end, reaper>>
      BY <2>15 DEF RemoveConfirmed, Removable, Goto, world
    <3>2. report'[s] \in Truthful =>
             /\ reaper[s] = {} /\ ~end[s].mute /\ ~end[s].err
             /\ report'[s] = "command" => end[s].by = "none"
             /\ report'[s] # "command" => end[s].by # "none"
      BY <2>15 DEF RemoveConfirmed, Reports, Endings
    <3> QED
      BY <2>1, <2>15, <3>1, <3>2 DEF RemoveConfirmed
  <2>16. CASE RemoveFailed(s)
    BY <2>1, <2>16 DEF RemoveFailed, Reports, Goto, world
  <2> QED
    BY <1>8, <2>2, <2>3, <2>4, <2>5, <2>6, <2>7, <2>8, <2>9, <2>10, <2>11, <2>12,
       <2>13, <2>14, <2>15, <2>16 DEF Serves, Handler
<1>9. CASE Reap(s) /\ UNCHANGED child
  BY <1>9 DEF Reap, Removable, world
<1>10. CASE (DaemonCreates(s) \/ DaemonStarts(s) \/ ProgramEnds(s)) /\ UNCHANGED child
  BY <1>10 DEF DaemonCreates, DaemonStarts, ProgramEnds, world
<1> QED
  BY <1>1, <1>2, <1>3, <1>4, <1>5, <1>6, <1>7, <1>8, <1>9, <1>10 DEF Steps

\* A step that is nobody's in particular.
Common ==
    \/ ControlPlaneDies
    \/ (Shutdown \/ FinalSweep \/ Crash \/ New \/ Outage \/ Recovery) /\ UNCHANGED child

\* Outages, shutdowns, crashes and restarts keep the types.
LEMMA CommonTypes ==
    ASSUME TypeOK, ClientTypeOK, Common
    PROVE  TypeOK' /\ ClientTypeOK'
<1>0. Fault => faults' \in 0..MaxFaults
  BY BrokerBounds DEF Fault, TypeOK
<1> USE DEF TypeOK, ClientTypeOK
<1>1. CASE ControlPlaneDies
  BY <1>0, <1>1 DEF ControlPlaneDies, brokerSide, Holding, Ended
<1>2. CASE (Shutdown \/ Outage \/ Recovery) /\ UNCHANGED child
  BY <1>0, <1>2 DEF Shutdown, Outage, Recovery
<1>3. CASE FinalSweep /\ UNCHANGED child
  BY <1>3 DEF FinalSweep, Sweep, ProcessEnds
<1>4. CASE Crash /\ UNCHANGED child
  BY <1>0, <1>4 DEF Crash, ProcessEnds
<1>5. CASE New /\ UNCHANGED child
  BY <1>0, <1>5 DEF New, Sweep
<1> QED
  BY <1>1, <1>2, <1>3, <1>4, <1>5 DEF Common

\* Outages, shutdowns, crashes and restarts keep every sandbox's invariant:
\* what a broker that ends holds becomes lost, and the next one sweeps it.
LEMMA CommonStep ==
    ASSUME TypeOK, ClientTypeOK, NEW s \in Sandboxes, Local(s), Common
    PROVE  Local(s)'
<1> USE DEF Local, Fresh, Held, Done, Lost, Idle, Pending, Ending, Claims, Child, KillHeld,
            Handled, Preparing, Executing, Removing, Exists, Truthful, TypeOK, ClientTypeOK
<1>1. CASE ControlPlaneDies
  BY <1>1 DEF ControlPlaneDies, brokerSide, Holding, Streaming
<1>2. CASE (Shutdown \/ Outage \/ Recovery) /\ UNCHANGED child
  BY <1>2 DEF Shutdown, Outage, Recovery
<1>3. CASE FinalSweep /\ UNCHANGED child
  BY <1>3 DEF FinalSweep, Sweep, ProcessEnds
<1>4. CASE Crash /\ UNCHANGED child
  BY <1>4 DEF Crash, ProcessEnds
<1>5. CASE New /\ UNCHANGED child
  BY <1>5 DEF New, Sweep
<1> QED
  BY <1>1, <1>2, <1>3, <1>4, <1>5 DEF Common

\* acquire takes a slot only while one is free.
LEMMA SlotTaken ==
    ASSUME TypeOK, NEW s \in Sandboxes, Acquire(s),
           IsFiniteSet(Taken), Cardinality(Taken) <= MaxLive
    PROVE  IsFiniteSet(Taken') /\ Cardinality(Taken') <= MaxLive
<1>1. CASE slot' = slot
  BY <1>1 DEF Taken
<1>2. CASE slot' = [slot EXCEPT ![s] = TRUE] /\ Cardinality(Taken) < MaxLive
  <2>1. Taken' = Taken \cup {s}
    BY <1>2 DEF Taken, TypeOK
  <2>2. /\ IsFiniteSet(Taken \cup {s}) /\ Cardinality(Taken) \in Nat
        /\ Cardinality(Taken \cup {s}) \in {Cardinality(Taken), Cardinality(Taken) + 1}
    BY FS_AddElement, FS_CardinalityType
  <2> QED
    BY <1>2, <2>1, <2>2, BrokerBounds
<1> QED
  BY <1>1, <1>2 DEF Acquire

\* Giving slots back keeps the limit.
LEMMA SlotsShrink ==
    ASSUME IsFiniteSet(Taken), Cardinality(Taken) <= MaxLive, Taken' \subseteq Taken
    PROVE  IsFiniteSet(Taken') /\ Cardinality(Taken') <= MaxLive
<1>1. IsFiniteSet(Taken') /\ Cardinality(Taken') <= Cardinality(Taken)
  BY FS_Subset
<1>2. Cardinality(Taken) \in Nat /\ Cardinality(Taken') \in Nat
  BY <1>1, FS_CardinalityType
<1> QED
  BY <1>1, <1>2, BrokerBounds

\* No step of a sandbox but acquire takes a slot.
LEMMA SlotsStep ==
    ASSUME TypeOK, NEW s \in Sandboxes, Steps(s)
    PROVE  Acquire(s) \/ Taken' \subseteq Taken
<1> USE DEF Taken, TypeOK
<1>1. CASE ~Serves(s)
  <2>1. CASE Reap(s)
    BY <2>1 DEF Reap
  <2>2. CASE UNCHANGED slot
    BY <2>2
  <2> QED
    BY <1>1, <2>1, <2>2
       DEF Steps, Begin, Refused, Cancelled, Upgraded, Kills, Cuts, Reported, Lose, Arrives,
           HandleSandbox, KillArrives, KillAsked, DaemonCreates, DaemonStarts, ProgramEnds,
           brokerSide, vars
<1>2. CASE Serves(s)
  <2>1. CASE Grant(s) \/ Rejected(s) \/ RemoveConfirmed(s)
    BY <2>1 DEF Grant, Rejected, RemoveConfirmed
  <2>2. CASE UNCHANGED slot
    BY <2>2
  <2> QED
    BY <1>2, <2>1, <2>2
       DEF Serves, Handler, Created, CreateFailed, Start, AskKill, Started, StartFailed,
           WaitResult, RunFailed, ForceStop, StreamClosed, Collect, Revoke, RemoveFailed
<1> QED
  BY <1>1, <1>2

\* No common step takes a slot.
LEMMA SlotsCommon ==
    ASSUME TypeOK, Common
    PROVE  Taken' \subseteq Taken
  BY DEF TypeOK, Taken, Common, ControlPlaneDies, Shutdown, FinalSweep, Crash, New,
         Outage, Recovery, ProcessEnds, brokerSide

\* The invariant holds before the first request.
LEMMA InitHolds == ClientInit => IInv
<1> SUFFICES ASSUME ClientInit PROVE IInv
  OBVIOUS
<1>1. TypeOK /\ ClientTypeOK
  BY BrokerBounds DEF ClientInit, Init, TypeOK, ClientTypeOK, Endings, NewEnding
<1>2. IsFiniteSet(Taken) /\ Cardinality(Taken) <= MaxLive
  <2>1. Taken = {}
    BY DEF ClientInit, Init, Taken
  <2> QED
    BY <2>1, FS_EmptySet, BrokerBounds
<1>3. ASSUME NEW s \in Sandboxes PROVE Local(s)
  BY DEF ClientInit, Init, Local, Fresh, Held, Done, Lost, Idle, Pending, Ending, Claims, Child,
         KillHeld, Handled, Preparing, Executing, Removing, Truthful, NewEnding
<1> QED
  BY <1>1, <1>2, <1>3 DEF IInv

\* Every step of the broker, its clients and the daemon keeps the invariant.
LEMMA StepHolds == IInv /\ [Next]_clientVars => IInv'
<1> SUFFICES ASSUME IInv, [Next]_clientVars PROVE IInv'
  OBVIOUS
<1>1. ASSUME NEW s \in Sandboxes, Steps(s) PROVE IInv'
  <2>1. TypeOK' /\ ClientTypeOK'
    BY <1>1, OwnTypes DEF IInv
  <2>2. IsFiniteSet(Taken') /\ Cardinality(Taken') <= MaxLive
    BY <1>1, SlotsStep, SlotTaken, SlotsShrink DEF IInv
  <2>3. ASSUME NEW t \in Sandboxes PROVE Local(t)'
    <3>1. CASE t = s
      BY <1>1, <3>1, OwnStep DEF IInv
    <3>2. CASE t # s
      BY <1>1, <3>2, OneMoves, Unmoved DEF IInv
    <3> QED
      BY <3>1, <3>2
  <2> QED
    BY <2>1, <2>2, <2>3 DEF IInv
<1>2. CASE Common
  <2>1. TypeOK' /\ ClientTypeOK'
    BY <1>2, CommonTypes DEF IInv
  <2>2. IsFiniteSet(Taken') /\ Cardinality(Taken') <= MaxLive
    BY <1>2, SlotsCommon, SlotsShrink DEF IInv
  <2>3. ASSUME NEW t \in Sandboxes PROVE Local(t)'
    BY <1>2, CommonStep DEF IInv
  <2> QED
    BY <2>1, <2>2, <2>3 DEF IInv
<1>3. CASE UNCHANGED clientVars
  <2>1. TypeOK' /\ ClientTypeOK' /\ Taken' = Taken
    BY <1>3 DEF IInv, TypeOK, ClientTypeOK, Taken, clientVars, vars
  <2>2. ASSUME NEW t \in Sandboxes PROVE Local(t)'
    BY <1>3, Unmoved DEF IInv, Same, clientVars, vars
  <2> QED
    BY <2>1, <2>2 DEF IInv
<1> QED
  BY <1>1, <1>2, <1>3 DEF Next, Environment, Steps, Common

\* However many requests there are and whatever fails, a broker's slots never
\* exceed its limit and a slot is given back only once its container is gone
\* (broker.go, slots; execute, removeContainer and forget): a container
\* without a slot is an earlier broker's, and a serving broker never has one
\* of those running.
THEOREM SlotsAreBounded == Spec => []SlotMeansGone
<1>1. IInv => SlotMeansGone
  BY DEF IInv, TypeOK, SlotMeansGone, Local, Fresh, Held, Done, Lost, Handled
<1> QED
  BY <1>1, InitHolds, StepHolds, PTL DEF Spec

\* For every set of requests: what a finished sandbox still holds has a reaper
\* for exactly that part, an exit report without a failure is true, a kill
\* asked for during the start does not miss the container, a child that Wait
\* reports with a status is gone with its lease and its slot, and a start
\* refused as never started never ran (execute, cleanupOutcome, run, lose,
\* Error.Started).
THEOREM SandboxesAreOwned == Spec => []SandboxesAreTrue
<1>1. IInv => SandboxIsOwned
  BY DEF IInv, TypeOK, SandboxIsOwned, CleanupIsOwned, ReportIsTrue, KillDoesNotEscape,
         Local, Fresh, Held, Done, Lost, Claims, KillHeld, Handled, Truthful
<1>2. IInv => StatusIsConfirmed /\ RefusedNeverRan
  BY DEF IInv, TypeOK, StatusIsConfirmed, RefusedNeverRan, Local, Done, Claims, Child, Truthful
<1>3. IInv => SandboxesAreTrue
  BY <1>1, <1>2 DEF SandboxesAreTrue, IInv
<1> QED
  BY <1>3, InitHolds, StepHolds, PTL DEF Spec

=============================================================================
