--------------------------- MODULE SandboxClient ---------------------------
(***************************************************************************)
(* The control plane's end of a sandbox (internal/sandbox/remote.go),      *)
(* composed with the broker.  start waits for a slot of its own, asks the  *)
(* broker for a sandbox and waits for the upgrade; the child then reads    *)
(* the stream until the exit report or the stream's end, and Kill waits a  *)
(* bounded time for that report before it cuts the stream.                 *)
(*                                                                         *)
(* Only a report ends a child with a status: child "status" is a Wait      *)
(* without an error, "failed" one with an error, "refused" a start that    *)
(* failed with Started unset, and "cancelled" a child nobody waits for.    *)
(***************************************************************************)
EXTENDS SandboxBroker

VARIABLE child      \* per sandbox: where the client's start, read or Kill is

clientVars == <<vars, child>>

Streaming == {"open", "killing", "awaiting", "cut"}
Holding   == {"opening", "answered"} \cup Streaming
Ended     == {"status", "failed", "refused", "cancelled"}

ClientTypeOK == child \in [Sandboxes -> {"new"} \cup Holding \cup Ended]

ClientInit == Init /\ child = [s \in Sandboxes |-> "new"]

Becomes(s, where) == child' = [child EXCEPT ![s] = where]

HangUp(s) == client' = [client EXCEPT ![s] = FALSE]

brokerSide == <<broker, docker, disk, pc, container, start, known, slot, lease,
                end, reaper, evidence, report>>

\* start up to the request: the broker's info may be unreadable unless it is
\* cached, the root may not be prepared, and the client keeps its own count of
\* the broker's slots.
Begin(s) ==
    /\ child[s] = "new"
    /\ \/ /\ Cardinality({x \in Sandboxes : child[x] \in Holding}) < MaxLive
          /\ Becomes(s, "opening")
          /\ UNCHANGED faults
       \/ /\ broker # "up"
          /\ Becomes(s, "refused")
          /\ UNCHANGED faults
       \/ /\ Fault
          /\ Becomes(s, "refused")
    /\ UNCHANGED <<brokerSide, client>>

\* open fails: the broker cannot be dialled, answers with a refusal, or dies
\* before it upgrades the connection.
Refused(s) ==
    /\ child[s] = "opening"
    /\ \/ pc[s] = "new" /\ broker # "up" /\ UNCHANGED client
       \/ pc[s] \in {"done", "lost"} /\ HangUp(s)
    /\ Becomes(s, "refused")
    /\ UNCHANGED <<brokerSide, faults>>

\* The caller's context ends before start returns: the connection is closed,
\* also when the upgrade was already answered.
Cancelled(s) ==
    /\ child[s] \in {"new", "opening", "answered"}
    /\ IF child[s] = "new" THEN UNCHANGED client ELSE HangUp(s)
    /\ Becomes(s, "cancelled")
    /\ UNCHANGED <<brokerSide, faults>>

\* upgradeSandbox returns the stream, which no longer follows that context.
Upgraded(s) ==
    /\ child[s] = "answered"
    /\ Becomes(s, "open")
    /\ UNCHANGED vars

\* Kill: the output is discarded and the kill frame sent.
Kills(s) ==
    /\ child[s] = "open"
    /\ Becomes(s, "killing")
    /\ UNCHANGED vars

\* Kill's wait for the report runs out and it cuts the stream.
Cuts(s) ==
    /\ child[s] \in {"killing", "awaiting"}
    /\ Becomes(s, "cut")
    /\ HangUp(s)
    /\ UNCHANGED <<brokerSide, faults>>

\* Wait tells a result from a failure by the broker's classification: a kill
\* and a time limit are results.
Verdict(s) == IF report[s] = "failure" THEN "failed" ELSE "status"

\* The reader finds the exit frame, also one that a cut left in its buffer.
Reported(s) ==
    /\ child[s] \in Streaming
    /\ report[s] # "none"
    /\ Becomes(s, Verdict(s))
    /\ UNCHANGED vars

\* A stream cut after a kill that counts as a clean end.
Lose_Clean(s) ==
    /\ child[s] \in Streaming
    /\ child[s] = "cut" \/ (pc[s] \in {"done", "lost"} /\ report[s] = "none")
    /\ Becomes(s, IF child[s] = "cut" THEN "status" ELSE "failed")
    /\ UNCHANGED vars

\* lose: the stream ends without a report, because Kill cut it or the broker
\* closed it.
Lose(s) ==
    /\ child[s] \in Streaming
    /\ child[s] = "cut" \/ (pc[s] \in {"done", "lost"} /\ report[s] = "none")
    /\ Becomes(s, "failed")
    /\ UNCHANGED vars

\* The control plane's process ends, and its connections with it.
ControlPlaneDies ==
    /\ Fault
    /\ child' = [s \in Sandboxes |->
                   IF child[s] \in {"new"} \cup Holding THEN "cancelled" ELSE child[s]]
    /\ client' = [s \in Sandboxes |-> client[s] /\ child[s] \notin Holding]
    /\ UNCHANGED brokerSide

\* The broker handles a request that was written to its socket, even when the
\* client has hung up since.
Arrives(s) ==
    /\ child[s] = "opening" \/ ~client[s]
    /\ HandleSandbox(s)
    /\ UNCHANGED child

\* A handler's step: the one that makes a sandbox ready answers the upgrade.
Serves(s) ==
    /\ Handler(s)
    /\ child' = [child EXCEPT ![s] =
                   IF @ = "opening" /\ pc'[s] = "ready" THEN "answered" ELSE @]

\* The kill frame is read, once.
KillArrives(s) ==
    /\ child[s] = "killing"
    /\ KillAsked(s)
    /\ Becomes(s, "awaiting")

Next ==
    \/ \E s \in Sandboxes :
          \/ Begin(s) \/ Refused(s) \/ Cancelled(s) \/ Upgraded(s)
          \/ Kills(s) \/ Cuts(s) \/ Reported(s) \/ Lose(s)
          \/ Arrives(s) \/ Serves(s) \/ KillArrives(s)
    \/ ControlPlaneDies
    \/ Environment /\ UNCHANGED child

\* Besides the broker's, the timer of a Kill fires and a stream's end is read.
ClientFairness ==
    \A s \in Sandboxes :
       WF_clientVars(child[s] # "open" /\ (Cuts(s) \/ Reported(s) \/ Lose(s)))

Spec == ClientInit /\ [][Next]_clientVars /\ Fairness /\ ClientFairness

\* A child whose Wait reports a status is gone with its lease and its slot: a
\* broker's report is the only proof of it (lose: "Only that report confirms
\* the container is gone").
StatusIsConfirmed ==
    \A s \in Sandboxes :
       child[s] = "status" =>
          container[s] = "absent" /\ ~lease[s] /\ ~slot[s] /\ end[s].started

\* A start that fails as never started never had its program started (Error:
\* "Started is false when the child never started").
RefusedNeverRan ==
    \A s \in Sandboxes : child[s] = "refused" => start[s] = "no"

\* The container of a child that was killed, or whose caller was cancelled or
\* died, is removed for good, whether or not the kill frame arrived, unless it
\* is never started: a create may outlive its broker's sweep.
KilledIsRemoved ==
    \A s \in Sandboxes :
       child[s] \in {"killing", "cancelled"} ~>
          [](container[s] = "absent" \/ start[s] = "no")

\* The broker's safety, and what the client tells its caller of it.
SandboxesAreTrue ==
    SandboxIsOwned /\ ClientTypeOK /\ StatusIsConfirmed /\ RefusedNeverRan

\* Cut and killed sandboxes are removed, and slots and leases come back.
SandboxesEnd == BrokerEnds /\ KilledIsRemoved

=============================================================================
