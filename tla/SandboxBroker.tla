--------------------------- MODULE SandboxBroker ---------------------------
(***************************************************************************)
(* The sandbox broker (internal/sandbox/broker): it admits sandbox         *)
(* requests up to a limit, grants each one an egress lease, creates,       *)
(* starts, kills and removes its container through the Docker Engine, and  *)
(* reports how it ended.                                                   *)
(*                                                                         *)
(* The daemon is external: a request to it may be answered, refused, or    *)
(* stay unanswered while the daemon still carries it out.  An outage of    *)
(* the daemon or of the lease directory makes every request fail until it  *)
(* ends.  Outages, refusals, crashes and shutdowns count against MaxFaults.*)
(* Every sandbox is used once.  SandboxClient adds the control plane's end *)
(* of the streams and composes the two.                                    *)
(***************************************************************************)
EXTENDS Naturals, FiniteSets

CONSTANTS Sandboxes,    \* the sandbox requests of a behaviour
          MaxLive,      \* OCTOMUS_SANDBOX_MAX, the capacity of b.slots
          MaxFaults     \* bound on outages, refusals, crashes and shutdowns

ASSUME BrokerBounds == MaxLive \in Nat \ {0} /\ MaxFaults \in Nat

VARIABLES
    broker,     \* "up", "closing" (Serve shuts down) or "down"
    docker,     \* whether the daemon answers
    disk,       \* whether the lease directory can be written
    faults,
    client,     \* per sandbox: whether its control stream is open
    pc,         \* per sandbox: where its handler is
    container,  \* per sandbox: its container as the daemon has it
    start,      \* per sandbox: its start request
    known,      \* per sandbox: whether cleanup may remove it by ID or name
    slot,       \* per sandbox: whether it holds a slot of b.slots
    lease,      \* per sandbox: whether its lease file exists
    end,        \* per sandbox: the ending that run builds
    reaper,     \* per sandbox: what is left to its reaper
    evidence,   \* per sandbox: the record collected for it
    report      \* per sandbox: the exit report it sent

vars == <<broker, docker, disk, faults, client, pc, container, start, known,
          slot, lease, end, reaper, evidence, report>>

world == <<broker, docker, disk, faults>>

Preparing == {"leasing", "creating", "ready"}
Executing == {"starting", "running", "ended"}
Removing  == {"revoking", "removing"}
Handled   == Preparing \cup Executing \cup Removing
Exists    == {"created", "running", "exited", "sigkilled"}

Endings == [attempted : BOOLEAN, started : BOOLEAN,
            asked : {"none", "client", "limit"}, by : {"none", "client", "limit"},
            unanswered : BOOLEAN, exit : {"none", "exited", "sigkilled"},
            mute : BOOLEAN, err : BOOLEAN]

NewEnding == [attempted |-> FALSE, started |-> FALSE, asked |-> "none",
              by |-> "none", unanswered |-> FALSE, exit |-> "none",
              mute |-> FALSE, err |-> FALSE]

TypeOK ==
    /\ broker \in {"up", "closing", "down"}
    /\ docker \in BOOLEAN
    /\ disk \in BOOLEAN
    /\ faults \in 0..MaxFaults
    /\ client \in [Sandboxes -> BOOLEAN]
    /\ pc \in [Sandboxes -> {"new", "waiting", "done", "lost"} \cup Handled]
    /\ container \in [Sandboxes -> {"absent", "pending"} \cup Exists]
    /\ start \in [Sandboxes -> {"no", "sent", "done", "refused"}]
    /\ known \in [Sandboxes -> BOOLEAN]
    /\ slot \in [Sandboxes -> BOOLEAN]
    /\ lease \in [Sandboxes -> BOOLEAN]
    /\ end \in [Sandboxes -> Endings]
    /\ reaper \in [Sandboxes -> SUBSET {"lease", "container"}]
    /\ evidence \in [Sandboxes -> {"none", "complete", "incomplete"}]
    /\ report \in [Sandboxes ->
                     {"none", "command", "killed", "time_limit", "failure"}]

Init ==
    /\ broker = "up"
    /\ docker = TRUE
    /\ disk = TRUE
    /\ faults = 0
    /\ client = [s \in Sandboxes |-> TRUE]
    /\ pc = [s \in Sandboxes |-> "new"]
    /\ container = [s \in Sandboxes |-> "absent"]
    /\ start = [s \in Sandboxes |-> "no"]
    /\ known = [s \in Sandboxes |-> FALSE]
    /\ slot = [s \in Sandboxes |-> FALSE]
    /\ lease = [s \in Sandboxes |-> FALSE]
    /\ end = [s \in Sandboxes |-> NewEnding]
    /\ reaper = [s \in Sandboxes |-> {}]
    /\ evidence = [s \in Sandboxes |-> "none"]
    /\ report = [s \in Sandboxes |-> "none"]

Fault == faults < MaxFaults /\ faults' = faults + 1

Serving == broker # "down"

\* The request's context: its stream closed, or Serve cancelled all requests.
Cut(s) == ~client[s] \/ broker # "up"

Taken == {s \in Sandboxes : slot[s]}

Goto(s, where) == pc' = [pc EXCEPT ![s] = where]

(***************************************************************************)
(* Admission and preparation                                               *)
(***************************************************************************)

\* handleSandbox: a decoded request waits for a slot.
HandleSandbox(s) ==
    /\ broker = "up"
    /\ pc[s] = "new"
    /\ Goto(s, "waiting")
    /\ UNCHANGED <<world, client, container, start, known, slot, lease, end,
                   reaper, evidence, report>>

\* acquire: the select takes a free slot, or gives up with the request or the
\* broker.  Both cases may be ready, and then either is taken.
Acquire(s) ==
    /\ Serving
    /\ pc[s] = "waiting"
    /\ \/ /\ Cardinality(Taken) < MaxLive
          /\ slot' = [slot EXCEPT ![s] = TRUE]
          /\ Goto(s, "leasing")
       \/ /\ Cut(s)
          /\ Goto(s, "done")
          /\ UNCHANGED slot
    /\ UNCHANGED <<world, client, container, start, known, lease, end, reaper,
                   evidence, report>>

\* prepare up to the create request: a lease that cannot be granted gives the
\* slot back.  A closing broker's base context ends the create unsent.
Grant(s) ==
    /\ Serving
    /\ pc[s] = "leasing"
    /\ \/ /\ disk
          /\ lease' = [lease EXCEPT ![s] = TRUE]
          /\ container' = [container EXCEPT ![s] =
                             IF broker = "up" THEN "pending" ELSE @]
          /\ Goto(s, "creating")
          /\ UNCHANGED slot
       \/ /\ ~disk
          /\ slot' = [slot EXCEPT ![s] = FALSE]
          /\ Goto(s, "done")
          /\ UNCHANGED <<lease, container>>
    /\ UNCHANGED <<world, client, start, known, end, reaper, evidence, report>>

\* The create is answered with the container's ID.  A warning, a request that
\* ended meanwhile or a failed attach discards the container.
Created(s) ==
    /\ Serving
    /\ pc[s] = "creating"
    /\ docker
    /\ container[s] = "created"
    /\ known' = [known EXCEPT ![s] = TRUE]
    /\ \/ /\ ~Cut(s)
          /\ Goto(s, "ready")
          /\ UNCHANGED <<world, end>>
       \/ /\ Cut(s)
          /\ Goto(s, "revoking")
          /\ end' = [end EXCEPT ![s].mute = TRUE]
          /\ UNCHANGED world
       \/ /\ Fault
          /\ Goto(s, "revoking")
          /\ end' = [end EXCEPT ![s].mute = TRUE]
          /\ UNCHANGED <<broker, docker, disk>>
    /\ UNCHANGED <<client, container, start, slot, lease, reaper, evidence,
                   report>>

\* The daemon rejects the create (400 or 409): there is no container.  A lease
\* that cannot be revoked is left to a reaper; the slot is free either way.
Rejected(s) ==
    /\ Serving
    /\ pc[s] = "creating"
    /\ docker
    /\ container[s] = "pending"
    /\ Fault
    /\ container' = [container EXCEPT ![s] = "absent"]
    /\ lease' = [lease EXCEPT ![s] = ~disk]
    /\ reaper' = [reaper EXCEPT ![s] = IF disk THEN {} ELSE {"lease"}]
    /\ slot' = [slot EXCEPT ![s] = FALSE]
    /\ Goto(s, "done")
    /\ UNCHANGED <<broker, docker, disk, client, start, known, end, evidence,
                   report>>

\* The create fails otherwise.  After an error answer (docker) the daemon has
\* finished and the container's name is enough to remove whatever is left of
\* it; with no answer, nothing is known of the container.
CreateFailed(s) ==
    /\ Serving
    /\ pc[s] = "creating"
    /\ \/ /\ docker
          /\ container[s] = "pending"
          /\ Fault
          /\ \E left \in {"absent", "created"} :
                container' = [container EXCEPT ![s] = left]
          /\ known' = [known EXCEPT ![s] = TRUE]
          /\ UNCHANGED <<broker, docker, disk>>
       \/ /\ ~docker \/ broker = "closing" \/ container[s] = "absent"
          /\ UNCHANGED <<world, container, known>>
       \/ /\ Fault
          /\ UNCHANGED <<broker, docker, disk, container, known>>
    /\ end' = [end EXCEPT ![s].mute = TRUE]
    /\ Goto(s, "revoking")
    /\ UNCHANGED <<client, start, slot, lease, reaper, evidence, report>>

(***************************************************************************)
(* run: the container's start, its controls and its end                    *)
(***************************************************************************)

\* The handler sends the start, unless the stream is gone already.
Start(s) ==
    /\ Serving
    /\ pc[s] = "ready"
    /\ \/ /\ ~Cut(s)
          /\ start' = [start EXCEPT ![s] = "sent"]
          /\ end' = [end EXCEPT ![s].attempted = TRUE]
          /\ Goto(s, "starting")
       \/ /\ Cut(s)
          /\ end' = [end EXCEPT ![s].mute = TRUE]
          /\ Goto(s, "ended")
          /\ UNCHANGED start
    /\ UNCHANGED <<world, client, container, known, slot, lease, reaper,
                   evidence, report>>

\* What one SIGKILL request changes.  A container that does not run refuses
\* it; an unanswered one may have been delivered all the same.
Kill(s, reason, e) ==
    LET asking == [e EXCEPT !.asked = IF @ = "none" THEN reason ELSE @]
    IN  \/ /\ docker
           /\ container[s] = "running"
           /\ container' = [container EXCEPT ![s] = "sigkilled"]
           /\ end' = [end EXCEPT ![s] =
                        [asking EXCEPT !.by = IF @ = "none" THEN reason ELSE @]]
           /\ UNCHANGED faults
        \/ /\ docker
           /\ container[s] # "running"
           /\ end' = [end EXCEPT ![s] = asking]
           /\ UNCHANGED <<container, faults>>
        \/ /\ ~docker
           /\ end' = [end EXCEPT ![s] = [asking EXCEPT !.unanswered = TRUE]]
           /\ UNCHANGED <<container, faults>>
        \/ /\ docker
           /\ container[s] = "running"
           /\ Fault
           /\ container' = [container EXCEPT ![s] = "sigkilled"]
           /\ end' = [end EXCEPT ![s] = [asking EXCEPT !.unanswered = TRUE]]

\* The client asks for a kill, also during the start.
KillAsked(s) ==
    /\ Serving
    /\ pc[s] \in {"starting", "running"}
    /\ client[s]
    /\ Kill(s, "client", end[s])
    /\ UNCHANGED <<broker, docker, disk, client, pc, start, known, slot, lease,
                   reaper, evidence, report>>

\* The time limit of a started container passes, or an unanswered kill is sent
\* again.
AskKill(s) ==
    /\ Serving
    /\ pc[s] \in {"starting", "running"}
    /\ \/ pc[s] = "running" /\ Kill(s, "limit", end[s])
       \/ /\ end[s].unanswered
          /\ end[s].by = "none"
          /\ Kill(s, end[s].asked, end[s])
    /\ UNCHANGED <<broker, docker, disk, client, pc, start, known, slot, lease,
                   reaper, evidence, report>>

\* The start is confirmed: a kill asked for during the start is sent again.
Started(s) ==
    /\ Serving
    /\ pc[s] = "starting"
    /\ docker
    /\ start[s] = "done"
    /\ ~Cut(s)
    /\ Goto(s, "running")
    /\ LET e == [end[s] EXCEPT !.started = TRUE]
       IN  IF e.asked # "none" /\ e.by = "none"
             THEN Kill(s, e.asked, e)
             ELSE end' = [end EXCEPT ![s] = e] /\ UNCHANGED <<container, faults>>
    /\ UNCHANGED <<broker, docker, disk, client, start, known, slot, lease,
                   reaper, evidence, report>>

\* The start is refused, unanswered, or not confirmed before the time limit
\* or the wait after a kill: the daemon may still carry it out.
StartFailed(s) ==
    /\ Serving
    /\ pc[s] = "starting"
    /\ end' = [end EXCEPT ![s].err = TRUE]
    /\ Goto(s, "ended")
    /\ UNCHANGED <<world, client, container, start, known, slot, lease, reaper,
                   evidence, report>>

\* The wait reports the exit.  A SIGKILL's status after an unanswered kill is
\* that kill's.
WaitResult(s) ==
    /\ Serving
    /\ pc[s] = "running"
    /\ docker
    /\ container[s] \in {"exited", "sigkilled"}
    /\ end' = [end EXCEPT ![s] =
                 [end[s] EXCEPT !.exit = container[s],
                                !.by = IF /\ end[s].by = "none"
                                          /\ end[s].unanswered
                                          /\ container[s] = "sigkilled"
                                         THEN end[s].asked ELSE end[s].by]]
    /\ Goto(s, "ended")
    /\ UNCHANGED <<world, client, container, start, known, slot, lease, reaper,
                   evidence, report>>

\* An error ends the run while the container may still be running: the wait
\* fails, or the input backlog is exceeded.
RunFailed(s) ==
    /\ Serving
    /\ pc[s] = "running"
    /\ ~docker \/ client[s]
    /\ end' = [end EXCEPT ![s].err = TRUE]
    /\ Goto(s, "ended")
    /\ UNCHANGED <<world, client, container, start, known, slot, lease, reaper,
                   evidence, report>>

\* stopWait passes after a kill without a reported exit: the removal will stop
\* the sandbox by force.
ForceStop(s) ==
    /\ Serving
    /\ pc[s] = "running"
    /\ end[s].asked # "none"
    /\ end' = [end EXCEPT ![s].by = IF @ = "none" THEN end[s].asked ELSE @]
    /\ Goto(s, "ended")
    /\ UNCHANGED <<world, client, container, start, known, slot, lease, reaper,
                   evidence, report>>

\* The control stream closes, or the broker shuts down.
StreamClosed(s) ==
    /\ Serving
    /\ pc[s] \in {"starting", "running"}
    /\ Cut(s)
    /\ end' = [end EXCEPT ![s].mute = TRUE]
    /\ Goto(s, "ended")
    /\ UNCHANGED <<world, client, container, start, known, slot, lease, reaper,
                   evidence, report>>

(***************************************************************************)
(* execute after run: early revocation, evidence, removal and the report   *)
(***************************************************************************)

\* What the broker can read of a sandbox that ended: oomKilled needs the
\* daemon, and evidence the gateway's summary, which may be missing too.
Evidence(s) ==
    LET e == end[s]
        readable == CASE e.mute -> FALSE
                      [] e.err  -> e.started /\ docker
                      [] OTHER  -> e.exit # "none" /\ docker
    IN  IF ~e.attempted THEN {"none"}
        ELSE IF readable THEN {"complete", "incomplete"} ELSE {"incomplete"}

\* A start that was never confirmed loses its lease before the evidence is
\* collected.
Collect(s) ==
    /\ Serving
    /\ pc[s] = "ended"
    /\ lease' = [lease EXCEPT ![s] =
                   @ /\ ~(end[s].attempted /\ ~end[s].started /\ disk)]
    /\ \E record \in Evidence(s) :
          evidence' = [evidence EXCEPT ![s] = record]
    /\ Goto(s, "revoking")
    /\ UNCHANGED <<world, client, container, start, known, slot, end, reaper,
                   report>>

\* remove revokes the lease first; a failure never prevents the removal.
Revoke(s) ==
    /\ Serving
    /\ pc[s] = "revoking"
    /\ lease' = [lease EXCEPT ![s] = @ /\ ~disk]
    /\ reaper' = [reaper EXCEPT ![s] = IF lease[s] /\ ~disk THEN {"lease"} ELSE {}]
    /\ Goto(s, "removing")
    /\ UNCHANGED <<world, client, container, start, known, slot, end, evidence,
                   report>>

\* The reports execute and stream may send: a failed cleanup is a failure
\* whatever the sandbox did, and so is output cut short without a kill.  A
\* stream that failed under the output carries none.
Reports(s, clean) ==
    LET e == end[s]
    IN  IF e.mute \/ Cut(s) THEN {"none"}
        ELSE IF e.err \/ ~clean THEN {"failure", "none"}
        ELSE CASE e.by = "client" -> {"killed", "none"}
               [] e.by = "limit"  -> {"time_limit", "none"}
               [] OTHER           -> {"command", "failure", "none"}

\* A removal that takes a missing name for a removed container.
Removable_NotFound(s) == docker

\* removeContainer can confirm that the container is gone: an unanswered create
\* is first observed by its reserved name.
Removable(s) == docker /\ (known[s] \/ container[s] \in Exists)

\* The removal is confirmed and forget releases the slot.
RemoveConfirmed(s) ==
    /\ Serving
    /\ pc[s] = "removing"
    /\ Removable(s)
    /\ container' = [container EXCEPT ![s] = IF @ \in Exists THEN "absent" ELSE @]
    /\ slot' = [slot EXCEPT ![s] = FALSE]
    /\ \E r \in Reports(s, reaper[s] = {}) : report' = [report EXCEPT ![s] = r]
    /\ Goto(s, "done")
    /\ UNCHANGED <<world, client, start, known, lease, end, reaper, evidence>>

\* A removal that fails with nobody to try it again.
RemoveFailed_Dropped(s) ==
    /\ Serving
    /\ pc[s] = "removing"
    /\ ~Removable(s) \/ broker = "closing"
    /\ \E r \in Reports(s, FALSE) : report' = [report EXCEPT ![s] = r]
    /\ Goto(s, "done")
    /\ UNCHANGED <<world, client, container, start, known, slot, lease, end,
                   reaper, evidence>>

\* The teardown's deadline passes first: the reaper takes the container over,
\* with its slot.
RemoveFailed(s) ==
    /\ Serving
    /\ pc[s] = "removing"
    /\ ~Removable(s) \/ broker = "closing"
    /\ known' = [known EXCEPT ![s] = @ \/ (docker /\ container[s] \in Exists)]
    /\ reaper' = [reaper EXCEPT ![s] = @ \cup {"container"}]
    /\ \E r \in Reports(s, FALSE) : report' = [report EXCEPT ![s] = r]
    /\ Goto(s, "done")
    /\ UNCHANGED <<world, client, container, start, slot, lease, end, evidence>>

\* reap retries each part on its own until the broker closes.
Reap(s) ==
    /\ broker = "up"
    /\ pc[s] = "done"
    /\ reaper[s] # {}
    /\ LET removed == "container" \in reaper[s] /\ Removable(s)
           revoked == "lease" \in reaper[s] /\ disk
       IN  /\ container' = [container EXCEPT ![s] =
                              IF removed /\ @ \in Exists THEN "absent" ELSE @]
           /\ slot' = [slot EXCEPT ![s] = @ /\ ~removed]
           /\ lease' = [lease EXCEPT ![s] = @ /\ ~revoked]
           /\ reaper' = [reaper EXCEPT ![s] =
                           @ \ {x \in @ : IF x = "lease" THEN revoked ELSE removed}]
    /\ UNCHANGED <<world, client, pc, start, known, end, evidence, report>>

(***************************************************************************)
(* The broker's own life                                                   *)
(***************************************************************************)

\* sweep: every container the daemon lists goes, and every lease file, each
\* whether or not the other could be done.
Sweep ==
    /\ container' = [s \in Sandboxes |->
                       IF docker /\ container[s] \in Exists THEN "absent"
                       ELSE container[s]]
    /\ lease' = [s \in Sandboxes |-> lease[s] /\ ~disk]

\* The process ends: its handlers, reapers and slots are gone.
ProcessEnds ==
    /\ broker' = "down"
    /\ pc' = [s \in Sandboxes |->
                CASE pc[s] \in Handled \/ reaper[s] # {} -> "lost"
                  [] pc[s] = "waiting" -> "done"
                  [] OTHER -> pc[s]]
    /\ slot' = [s \in Sandboxes |-> FALSE]
    /\ reaper' = [s \in Sandboxes |-> {}]
    /\ UNCHANGED <<docker, disk, client, start, known, end, evidence, report>>

\* Serve's context ends: requests are cancelled and reapers stop.
Shutdown ==
    /\ broker = "up"
    /\ Fault
    /\ broker' = "closing"
    /\ UNCHANGED <<docker, disk, client, pc, container, start, known, slot,
                   lease, end, reaper, evidence, report>>

\* The final sweep, after the bounded wait for the handlers, and the exit.
FinalSweep ==
    /\ broker = "closing"
    /\ Sweep
    /\ ProcessEnds
    /\ UNCHANGED faults

\* The process dies with nothing cleaned up.
Crash ==
    /\ Serving
    /\ Fault
    /\ ProcessEnds
    /\ UNCHANGED <<container, lease>>

\* New needs the daemon, sweeps first, and serves only when the sweep found
\* nothing it could not remove and the later checks pass.
New ==
    /\ broker = "down"
    /\ docker
    /\ Sweep
    /\ \/ disk /\ broker' = "up" /\ UNCHANGED faults
       \/ ~disk /\ UNCHANGED <<broker, faults>>
       \/ Fault /\ UNCHANGED broker
    /\ UNCHANGED <<docker, disk, client, pc, start, known, slot, end, reaper,
                   evidence, report>>

(***************************************************************************)
(* The daemon and the programs                                             *)
(***************************************************************************)

\* A create in flight is carried out, or the request never reached the daemon.
DaemonCreates(s) ==
    /\ container[s] = "pending"
    /\ \/ container' = [container EXCEPT ![s] = "created"] /\ UNCHANGED faults
       \/ container' = [container EXCEPT ![s] = "absent"] /\ Fault
    /\ UNCHANGED <<broker, docker, disk, client, pc, start, known, slot, lease,
                   end, reaper, evidence, report>>

\* A start in flight is carried out, whether or not anyone waits for it, or
\* refused.
DaemonStarts(s) ==
    /\ start[s] = "sent"
    /\ container[s] = "created"
    /\ \/ /\ start' = [start EXCEPT ![s] = "done"]
          /\ container' = [container EXCEPT ![s] = "running"]
          /\ UNCHANGED faults
       \/ /\ start' = [start EXCEPT ![s] = "refused"]
          /\ Fault
          /\ UNCHANGED container
    /\ UNCHANGED <<broker, docker, disk, client, pc, known, slot, lease, end,
                   reaper, evidence, report>>

\* The program exits, by itself or on a SIGTERM that terminate sent, or the
\* kernel kills it for memory.
ProgramEnds(s) ==
    /\ container[s] = "running"
    /\ \E status \in {"exited", "sigkilled"} :
          container' = [container EXCEPT ![s] = status]
    /\ UNCHANGED <<world, client, pc, start, known, slot, lease, end, reaper,
                   evidence, report>>

\* The daemon or the lease directory stops answering, or comes back.
Outage ==
    /\ Fault
    /\ \/ docker /\ docker' = FALSE /\ UNCHANGED disk
       \/ disk /\ disk' = FALSE /\ UNCHANGED docker
    /\ UNCHANGED <<broker, client, pc, container, start, known, slot, lease,
                   end, reaper, evidence, report>>

Recovery ==
    /\ \/ ~docker /\ docker' = TRUE /\ UNCHANGED disk
       \/ ~disk /\ disk' = TRUE /\ UNCHANGED docker
    /\ UNCHANGED <<broker, faults, client, pc, container, start, known, slot,
                   lease, end, reaper, evidence, report>>

Handler(s) ==
    \/ Acquire(s) \/ Grant(s) \/ Created(s) \/ Rejected(s) \/ CreateFailed(s)
    \/ Start(s) \/ AskKill(s) \/ Started(s) \/ StartFailed(s) \/ WaitResult(s)
    \/ RunFailed(s) \/ ForceStop(s) \/ StreamClosed(s)
    \/ Collect(s) \/ Revoke(s) \/ RemoveConfirmed(s) \/ RemoveFailed(s)

\* Steps that no request of a client is behind.
Environment ==
    \/ \E s \in Sandboxes :
          Reap(s) \/ DaemonCreates(s) \/ DaemonStarts(s) \/ ProgramEnds(s)
    \/ Shutdown \/ FinalSweep \/ Crash \/ New
    \/ Outage \/ Recovery

\* Every wait of a handler has a deadline, reapers retry on a timer, the
\* service manager starts the broker again, outages end, and the daemon
\* carries out or drops what it has received.
Fairness ==
    /\ \A s \in Sandboxes : /\ WF_vars(Handler(s))
                            /\ WF_vars(Reap(s))
                            /\ WF_vars(DaemonCreates(s))
    /\ WF_vars(FinalSweep)
    /\ WF_vars(New)
    /\ WF_vars(Recovery)

(***************************************************************************)
(* Properties                                                              *)
(***************************************************************************)

\* A slot is given back only once its container is gone (broker.go, slots: "A
\* sandbox gives its slot back only once its removal is confirmed"), so the
\* containers of a broker never exceed its limit: a container without a slot
\* was left by an earlier broker, and while a broker serves, such a container
\* has never been started.
SlotMeansGone ==
    /\ Cardinality(Taken) <= MaxLive
    /\ \A s \in Sandboxes :
          container[s] # "absent" /\ ~slot[s] =>
             /\ pc[s] = "lost"
             /\ broker = "down" \/ container[s] \in {"pending", "created"}

\* While a broker serves, whatever a finished sandbox still holds, its lease
\* or its slot, has a reaper that retries exactly that part (cleanupOutcome:
\* "A reaper owns every remaining failure").
CleanupIsOwned ==
    broker = "up" =>
       \A s \in Sandboxes :
          pc[s] \in {"new", "waiting", "done", "lost"} =>
             /\ lease[s] <=> "lease" \in reaper[s]
             /\ slot[s] <=> "container" \in reaper[s]

\* A report without a failure is true: the container and the lease are gone, a
\* command report tells the exit the container had with no kill behind it, and
\* a kill is reported only when one was asked for.
ReportIsTrue ==
    \A s \in Sandboxes :
       /\ report[s] \in {"command", "killed", "time_limit"} =>
             container[s] = "absent" /\ ~lease[s] /\ ~slot[s]
       /\ report[s] = "command" => end[s].exit # "none" /\ end[s].by = "none"
       /\ report[s] \in {"killed", "time_limit"} => end[s].asked # "none"

\* A kill asked for while the start was pending reaches the container once the
\* start is confirmed: a started sandbox whose kill was asked for either has
\* stopped or has a kill the broker retries (run: "Starting later must not let
\* it escape that request").
KillDoesNotEscape ==
    \A s \in Sandboxes :
       pc[s] = "running" /\ end[s].asked # "none" /\ container[s] = "running" =>
          end[s].unanswered

\* A record marked complete was collected from a sandbox that had ended
\* (evidence: "evidence records what one finished sandbox ran").
CompleteRecordIsFinal ==
    \A s \in Sandboxes :
       evidence[s] = "complete" => container[s] # "running"

\* A serving broker has none of an earlier broker's containers (New: "New
\* removes any sandbox a previous broker left behind").
StartupLeavesNothing ==
    broker = "up" =>
       \A s \in Sandboxes : pc[s] = "lost" => container[s] \notin Exists

\* A program whose control stream closed is stopped and its container removed
\* (stream: "if it closes, the container is killed and removed"), through
\* outages, crashes and restarts.
LifelineHolds ==
    \A s \in Sandboxes :
       (container[s] = "running" /\ Cut(s)) ~> container[s] = "absent"

\* Every slot comes back, unless the create behind it was never answered and
\* never carried out (removeContainer: "Time alone never releases that
\* admission slot").
SlotComesBack ==
    \A s \in Sandboxes :
       slot[s] ~> ~slot[s] \/ (~known[s] /\ container[s] = "absent")

\* Every lease is revoked in the end.
LeaseEnds == \A s \in Sandboxes : lease[s] ~> ~lease[s]

\* Whatever a request left behind has someone who removes it, what the broker
\* reported of an end is true, and no container survives the kill sent to it.
SandboxIsOwned == TypeOK /\ CleanupIsOwned /\ ReportIsTrue /\ KillDoesNotEscape

\* A cut sandbox is removed, and its slot and its lease come back.
BrokerEnds == LifelineHolds /\ SlotComesBack /\ LeaseEnds

=============================================================================
