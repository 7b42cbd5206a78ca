------------------------------ MODULE Gateway ------------------------------
(***************************************************************************)
(* The egress gateway (internal/egress): every request a sandbox makes to  *)
(* the network is admitted under its lease, decided, counted in the        *)
(* sandbox's summary, and spliced as a tunnel until it ends or is cut.     *)
(* The broker collects the summary once as the sandbox's evidence.         *)
(*                                                                         *)
(* A section under statsMu is one step.  Durations are guards: the marks   *)
(* of collected sandboxes and the grace of uncollected summaries (two      *)
(* minutes) outlast a request's lookup, dial and ClientHello (ten seconds  *)
(* each) and the broker's teardown.                                        *)
(***************************************************************************)
EXTENDS Integers, FiniteSets, FiniteSetsExt

CONSTANTS
    Sandboxes,          \* each holds one lease in its life
    PerSandbox,         \* requests each sandbox may make
    Hosts,              \* the targets they ask for
    Allowlist,          \* the hosts the policy allows
    tunnelLimit,
    summaryHostLimit,
    foldedNameLimit,
    perSourceLimit,
    MaxFaults           \* stops and crashes of the gateway, in total

ASSUME ConstantsOK ==
    /\ Allowlist \subseteq Hosts
    /\ tunnelLimit \in Nat \ {0} /\ perSourceLimit \in Nat \ {0}
    /\ summaryHostLimit \in Nat \ {0} /\ foldedNameLimit \in Nat
    /\ PerSandbox \in Nat /\ MaxFaults \in Nat

Requests == Sandboxes \X (1 .. PerSandbox)
Decisions == {"allowed", "denied", "failed"}
Keys == Hosts \cup {"other"}
NoCounts == [d \in Decisions |-> [k \in Keys |-> 0]]

VARIABLES
    gateway,    \* "up", "stopping" or "down"
    faults,     \* stops and crashes so far
    prog,       \* the program of each sandbox: "new", "running", "exited"
    lease,      \* its lease file: "none", "live", "revoked"
    early,      \* sandboxes leased before the present gateway started
    pc,         \* where each request is
    host,       \* the target it asks for
    counted,    \* the request's entry pointer still is its sandbox's summary
    cut,        \* both ends of its tunnel were closed for it
    conn,       \* its client connection is open
    slots,      \* limitedListener.bySource
    stats,      \* Gateway.stats: the uncollected summaries
    mark,       \* Gateway.collected
    open,       \* Gateway.open
    sweep,      \* leases the running sweep found gone, or "idle"
    log,        \* the folded hosts the log names
    record,     \* the broker's record of each sandbox
    repeat,     \* the answer to a repeated collection
    made        \* ghost: the decisions made on each sandbox's requests

gw == <<gateway, faults>>
world == <<prog, lease, early>>
requests == <<pc, host, counted, cut, conn, slots>>
evidence == <<stats, mark, log, made>>
broker == <<record, repeat>>
vars == <<gw, world, requests, evidence, open, sweep, broker>>

Of(s) == {r \in Requests : r[1] = s}
Undecided == {"sent", "found", "begun", "reserved", "tracked"}
Pending == {"begun", "reserved", "tracked"}
Holding == {"reserved", "tracked", "open"}
Tracked == {"tracked", "open"}

NoEntry == [none |-> TRUE]
NewEntry == [none |-> FALSE, counts |-> NoCounts, incomplete |-> FALSE,
             pending |-> 0, revoked |-> FALSE, named |-> {}]
NoRecord == [state |-> "none", counts |-> NoCounts]

Entry(e) == IF e.none THEN NewEntry ELSE e
Total(counts) == MapThenSumSet(LAMBDA k : counts[k], DOMAIN counts)

TypeOK ==
    /\ gateway \in {"up", "stopping", "down"} /\ faults \in 0 .. MaxFaults
    /\ prog \in [Sandboxes -> {"new", "running", "exited"}]
    /\ lease \in [Sandboxes -> {"none", "live", "revoked"}]
    /\ early \subseteq Sandboxes
    /\ pc \in [Requests -> Undecided \cup {"idle", "open", "over"}]
    /\ host \in [Requests -> Hosts]
    /\ counted \in [Requests -> BOOLEAN] /\ cut \in [Requests -> BOOLEAN]
    /\ conn \in [Requests -> BOOLEAN]
    /\ slots \in [Sandboxes -> 0 .. perSourceLimit]
    /\ open \in [Sandboxes -> 0 .. tunnelLimit]
    /\ \A s \in Sandboxes :
        ~stats[s].none => stats[s].pending \in 0 .. PerSandbox
    /\ mark \in [Sandboxes -> {"none", "complete", "incomplete"}]
    /\ sweep = {"idle"} \/ sweep \subseteq Sandboxes

Init ==
    /\ gateway = "up" /\ faults = 0
    /\ prog = [s \in Sandboxes |-> "new"]
    /\ lease = [s \in Sandboxes |-> "none"]
    /\ early = {}
    /\ pc = [r \in Requests |-> "idle"]
    /\ host \in [Requests -> Hosts]
    /\ counted = [r \in Requests |-> FALSE]
    /\ cut = [r \in Requests |-> FALSE]
    /\ conn = [r \in Requests |-> FALSE]
    /\ slots = [s \in Sandboxes |-> 0]
    /\ stats = [s \in Sandboxes |-> NoEntry]
    /\ mark = [s \in Sandboxes |-> "none"]
    /\ open = [s \in Sandboxes |-> 0]
    /\ sweep = {"idle"}
    /\ log = {}
    /\ record = [s \in Sandboxes |-> NoRecord]
    /\ repeat = [s \in Sandboxes |-> "none"]
    /\ made = [s \in Sandboxes |-> NoCounts]

-----------------------------------------------------------------------------
(* The sandboxes and their leases.                                         *)

\* The broker grants a lease and starts the program.
Grant(s) ==
    /\ lease[s] = "none"
    /\ lease' = [lease EXCEPT ![s] = "live"]
    /\ prog' = [prog EXCEPT ![s] = "running"]
    /\ UNCHANGED <<gw, early, requests, evidence, open, sweep, broker>>

Exits(s) ==
    /\ prog[s] = "running"
    /\ prog' = [prog EXCEPT ![s] = "exited"]
    /\ UNCHANGED <<gw, lease, early, requests, evidence, open, sweep, broker>>

\* Teardown after the collection, or before it when the start is in doubt.
Revoke(s) ==
    /\ lease[s] = "live"
    /\ lease' = [lease EXCEPT ![s] = "revoked"]
    /\ UNCHANGED <<gw, prog, early, requests, evidence, open, sweep, broker>>

Send(r) ==
    /\ gateway = "up" /\ prog[r[1]] = "running" /\ pc[r] = "idle"
    /\ pc' = [pc EXCEPT ![r] = "sent"]
    /\ UNCHANGED <<gw, world, host, counted, cut, conn, slots, evidence, open,
                   sweep, broker>>

-----------------------------------------------------------------------------
(* Serving one request.                                                    *)

Admits(s) == slots[s] < perSourceLimit

Arrive(r) ==
    LET s == r[1]
        admitted == Admits(s) /\ lease[s] = "live" IN
    /\ gateway = "up" /\ pc[r] = "sent"
    /\ pc' = [pc EXCEPT ![r] = IF admitted THEN "found" ELSE "over"]
    /\ conn' = [conn EXCEPT ![r] = admitted]
    /\ slots' = IF admitted THEN [slots EXCEPT ![s] = @ + 1] ELSE slots
    /\ UNCHANGED <<gw, world, host, counted, cut, evidence, open, sweep,
                   broker>>

\* limitedConn.Close of the connections of a set of requests; only the first
\* Close of each gives its slot back.
Released_Twice(s, rs) == Cardinality(rs \cap Of(s))
Released(s, rs) == Cardinality({r \in rs \cap Of(s) : conn[r]})

Close(rs) ==
    /\ conn' = [r \in Requests |-> conn[r] /\ r \notin rs]
    /\ slots' = [s \in Sandboxes |-> slots[s] - Released(s, rs)]

\* begin: a sandbox already collected gets no new request.
Closed_Never(s) == FALSE
Closed(s) == mark[s] # "none"

Begin(r) ==
    LET s == r[1] IN
    /\ gateway # "down" /\ pc[r] = "found"
    /\ IF Closed(s)
       THEN /\ pc' = [pc EXCEPT ![r] = "over"]
            /\ Close({r})
            /\ UNCHANGED <<stats, counted>>
       ELSE /\ pc' = [pc EXCEPT ![r] = "begun"]
            /\ stats' = [stats EXCEPT ![s] =
                            [Entry(stats[s]) EXCEPT !.pending = @ + 1]]
            /\ counted' = [counted EXCEPT ![r] = TRUE]
            /\ UNCHANGED <<conn, slots>>
    /\ UNCHANGED <<gw, world, host, cut, mark, log, made, open, sweep, broker>>

\* count: the key a decision is counted under, and whether the log must name
\* its host because the summary does not.
Folds(e, d, h) ==
    /\ e.counts[d][h] = 0
    /\ Cardinality({k \in Keys : e.counts[d][k] > 0}) >= summaryHostLimit

Unnamed(e, d, h) ==
    /\ Folds(e, d, h)
    /\ <<d, h>> \notin e.named
    /\ Cardinality(e.named) < foldedNameLimit

Counted(e, d, h) ==
    [e EXCEPT !.counts[d][IF Folds(e, d, h) THEN "other" ELSE h] = @ + 1,
              !.named = IF Unnamed(e, d, h) THEN @ \cup {<<d, h>>} ELSE @]

\* The entry once the request's pending share is given back.
Settled(r) ==
    IF counted[r] THEN [stats[r[1]] EXCEPT !.pending = @ - 1] ELSE stats[r[1]]

Count(r, d) ==
    LET s == r[1]
        e == Entry(Settled(r)) IN
    /\ stats' = [stats EXCEPT ![s] = IF Closed(s) THEN Settled(r)
                                     ELSE Counted(e, d, host[r])]
    /\ log' = IF ~Closed(s) /\ Unnamed(e, d, host[r])
              THEN log \cup {<<s, d, host[r]>>} ELSE log
    /\ counted' = [counted EXCEPT ![r] = FALSE]
    /\ made' = [made EXCEPT ![s][d][host[r]] = @ + 1]

\* abandon: the request ended without a decision.
Abandon(r) ==
    /\ stats' = [stats EXCEPT ![r[1]] =
                    IF counted[r] THEN [Settled(r) EXCEPT !.incomplete = TRUE]
                    ELSE @]
    /\ counted' = [counted EXCEPT ![r] = FALSE]
    /\ UNCHANGED <<log, made>>

\* The handler returns: untrack, close both ends, release its reservation.
Return(r) ==
    /\ pc' = [pc EXCEPT ![r] = "over"]
    /\ Close({r})
    /\ open' = IF pc[r] \in Holding THEN [open EXCEPT ![r[1]] = @ - 1] ELSE open

\* The method, the target and the allowlist are decided before any lookup;
\* an allowed host needs one of its sandbox's tunnels.
Reserves(s) == open[s] < tunnelLimit

Refuse(r) ==
    /\ gateway # "down" /\ pc[r] = "begun"
    /\ \/ host[r] \notin Allowlist /\ Count(r, "denied")
       \/ host[r] \in Allowlist /\ ~Reserves(r[1]) /\ Count(r, "failed")
    /\ Return(r)
    /\ UNCHANGED <<gw, world, host, cut, mark, sweep, broker>>

Reserve(r) ==
    /\ gateway # "down" /\ pc[r] = "begun"
    /\ host[r] \in Allowlist /\ Reserves(r[1])
    /\ pc' = [pc EXCEPT ![r] = "reserved"]
    /\ open' = [open EXCEPT ![r[1]] = @ + 1]
    /\ UNCHANGED <<gw, world, host, counted, cut, conn, slots, evidence, sweep,
                   broker>>

\* The name does not resolve, resolves to no public address, or cannot be
\* dialed; or the client goes away while its connection is taken over.
Unreached(r) ==
    /\ gateway # "down" /\ pc[r] = "reserved"
    /\ Count(r, "failed") \/ Count(r, "denied") \/ Abandon(r)
    /\ Return(r)
    /\ UNCHANGED <<gw, world, host, cut, mark, sweep, broker>>

\* track refuses once the gateway is stopping.
Tracks == gateway = "up"

Track(r) ==
    /\ gateway # "down" /\ pc[r] = "reserved"
    /\ IF Tracks
       THEN /\ pc' = [pc EXCEPT ![r] = "tracked"]
            /\ UNCHANGED <<open, counted, conn, slots, stats, log, made>>
       ELSE Abandon(r) /\ Return(r)
    /\ UNCHANGED <<gw, world, host, cut, mark, sweep, broker>>

\* The ClientHello arrives and matches: the tunnel is counted, then opened.
Opens(r) ==
    /\ gateway # "down" /\ pc[r] = "tracked" /\ ~cut[r]
    /\ Count(r, "allowed")
    /\ pc' = [pc EXCEPT ![r] = "open"]
    /\ UNCHANGED <<gw, world, host, cut, conn, slots, mark, open, sweep, broker>>

\* The ClientHello is refused, late, or its tunnel was cut.
HelloFails(r) ==
    /\ gateway # "down" /\ pc[r] = "tracked"
    /\ Count(r, "failed") \/ Count(r, "denied")
    /\ Return(r)
    /\ UNCHANGED <<gw, world, host, cut, mark, sweep, broker>>

\* Both directions end: by themselves, by the idle or lifetime bound, or cut.
TunnelEnds(r) ==
    /\ gateway # "down" /\ pc[r] = "open"
    /\ Return(r)
    /\ UNCHANGED <<gw, world, host, counted, cut, evidence, sweep, broker>>

-----------------------------------------------------------------------------
(* Evidence.                                                               *)

Incomplete(s) ==
    \/ ~stats[s].none /\ (stats[s].incomplete \/ stats[s].pending > 0)
    \/ mark[s] = "incomplete"

Verdict(incomplete) == IF incomplete THEN "incomplete" ELSE "complete"

Collected(s) ==
    /\ stats' = [stats EXCEPT ![s] = NoEntry]
    /\ counted' = [r \in Requests |-> counted[r] /\ r[1] # s]
    /\ mark' = [mark EXCEPT ![s] = Verdict(Incomplete(s))]

\* The broker's record is complete when it knows how the program ended (the
\* broker's own side of this is modelled in SandboxBroker), the summary is
\* complete and the gateway saw the sandbox from its lease on.  The counts of
\* an incomplete record are abstracted away.
Vouched(s) == prog[s] = "exited" /\ ~Incomplete(s) /\ s \notin early

Collect(s) ==
    /\ gateway # "down" /\ prog[s] # "new" /\ record[s].state = "none"
    /\ Collected(s)
    /\ record' = [record EXCEPT ![s] =
        [state |-> Verdict(~Vouched(s)),
         counts |-> IF Vouched(s) THEN Entry(stats[s]).counts ELSE NoCounts]]
    /\ UNCHANGED <<gw, world, pc, host, cut, conn, slots, log, made, open,
                   sweep, repeat>>

\* The collector cannot be reached, or its answer is lost.
CollectFails(s) ==
    /\ prog[s] # "new" /\ record[s].state = "none"
    /\ \/ gateway # "down" /\ Collected(s)
       \/ UNCHANGED <<stats, counted, mark>>
    /\ record' = [record EXCEPT ![s] = [@ EXCEPT !.state = "incomplete"]]
    /\ UNCHANGED <<gw, world, pc, host, cut, conn, slots, log, made, open,
                   sweep, repeat>>

\* A second request for the summary while the mark of the first stands.
CollectAgain(s) ==
    /\ gateway # "down" /\ mark[s] # "none" /\ repeat[s] = "none"
    /\ Collected(s)
    /\ repeat' = [repeat EXCEPT ![s] = Verdict(Incomplete(s))]
    /\ UNCHANGED <<gw, world, pc, host, cut, conn, slots, log, made, open,
                   sweep, record>>

-----------------------------------------------------------------------------
(* The sweep.                                                              *)

\* The leases of the tunnels and summaries are read without the lock.
Swept_Summaries == {s \in Sandboxes : ~stats[s].none}
Swept ==
    {s \in Sandboxes : \/ ~stats[s].none
                       \/ \E r \in Of(s) : pc[r] \in Tracked}

SweepReads ==
    /\ gateway = "up" /\ sweep = {"idle"}
    /\ sweep' = {s \in Swept : lease[s] = "revoked"}
    /\ UNCHANGED <<gw, world, requests, evidence, open, broker>>

\* A summary is forgotten when its lease has been gone for the grace period,
\* longer than the broker takes to collect it.
Forgettable(s) ==
    /\ ~stats[s].none /\ stats[s].revoked /\ record[s].state # "none"
    /\ open[s] = 0 /\ stats[s].pending = 0

Expirable(s) ==
    /\ mark[s] # "none"
    /\ \A r \in Of(s) : pc[r] \notin Undecided

Revoked(gone) == {r \in Requests : pc[r] \in Tracked /\ r[1] \in gone}

Sweeps ==
    /\ gateway = "up" /\ sweep # {"idle"}
    /\ \E forget \in SUBSET {s \in sweep : Forgettable(s)},
          expire \in SUBSET {s \in Sandboxes : Expirable(s)} :
        /\ stats' = [s \in Sandboxes |->
            IF s \in forget THEN NoEntry
            ELSE IF s \in sweep /\ ~stats[s].none
                 THEN [stats[s] EXCEPT !.revoked = TRUE] ELSE stats[s]]
        /\ counted' = [r \in Requests |-> counted[r] /\ r[1] \notin forget]
        /\ mark' = [s \in Sandboxes |->
                        IF s \in expire THEN "none" ELSE mark[s]]
    /\ cut' = [r \in Requests |-> cut[r] \/ r \in Revoked(sweep)]
    /\ Close(Revoked(sweep))
    /\ sweep' = {"idle"}
    /\ UNCHANGED <<gw, world, pc, host, log, made, open, broker>>

-----------------------------------------------------------------------------
(* The gateway's life.                                                     *)

\* server.Close closes the connections it still serves, stop the tunnels.
Stop ==
    /\ gateway = "up" /\ faults < MaxFaults
    /\ gateway' = "stopping" /\ faults' = faults + 1
    /\ cut' = [r \in Requests |-> cut[r] \/ pc[r] \in Tracked]
    /\ Close(Requests)
    /\ sweep' = {"idle"}
    /\ UNCHANGED <<world, pc, host, counted, evidence, open, broker>>

\* The process ends, stopped or crashed, and with it all it holds in memory.
Ends ==
    /\ gateway = "stopping" \/ (gateway = "up" /\ faults < MaxFaults)
    /\ gateway' = "down"
    /\ faults' = IF gateway = "up" THEN faults + 1 ELSE faults
    /\ pc' = [r \in Requests |-> IF pc[r] = "idle" THEN "idle" ELSE "over"]
    /\ Close(Requests)
    /\ counted' = [r \in Requests |-> FALSE]
    /\ stats' = [s \in Sandboxes |-> NoEntry]
    /\ mark' = [s \in Sandboxes |-> "none"]
    /\ open' = [s \in Sandboxes |-> 0]
    /\ sweep' = {"idle"}
    /\ UNCHANGED <<world, host, cut, log, made, broker>>

New ==
    /\ gateway = "down"
    /\ gateway' = "up"
    /\ early' = {s \in Sandboxes : prog[s] # "new"}
    /\ UNCHANGED <<faults, prog, lease, requests, evidence, open, sweep, broker>>

Handler(r) ==
    \/ Arrive(r) \/ Begin(r) \/ Refuse(r) \/ Reserve(r) \/ Unreached(r)
    \/ Track(r) \/ Opens(r) \/ HelloFails(r)

Next ==
    \/ \E s \in Sandboxes :
        \/ Grant(s) \/ Exits(s) \/ Revoke(s)
        \/ Collect(s) \/ CollectFails(s) \/ CollectAgain(s)
    \/ \E r \in Requests : Send(r) \/ Handler(r) \/ TunnelEnds(r)
    \/ SweepReads \/ Sweeps \/ Stop \/ Ends \/ New

Spec == Init /\ [][Next]_vars

\* The sweep's ticker runs while the gateway is up, a request's lookup, dial
\* and ClientHello are bounded, closed sockets end both copies, a stopping
\* gateway waits five seconds at most and the service manager restarts it.
FairSpec ==
    /\ Spec
    /\ WF_vars(SweepReads) /\ WF_vars(Sweeps) /\ WF_vars(New)
    /\ WF_vars(gateway = "stopping" /\ Ends)
    /\ \A r \in Requests :
        WF_vars(Handler(r)) /\ WF_vars(cut[r] /\ TunnelEnds(r))

-----------------------------------------------------------------------------
(* Properties.                                                             *)

\* A record the broker keeps as complete holds every decision ever made on
\* the sandbox's requests, also the ones whose lookup or dial was in flight
\* when the summary was collected (begin, count, collect).
CompleteRecordHolds ==
    \A s \in Sandboxes : record[s].state = "complete" =>
        \A d \in Decisions : Total(record[s].counts[d]) = Total(made[s][d])

\* Each host of a complete record is named in it, or its first decision is in
\* the log, up to the bound on folded names (count, logRefusal, logOpened).
HostsAreNamed ==
    \A s \in Sandboxes : record[s].state = "complete" =>
        \A d \in Decisions, h \in Hosts :
            made[s][d][h] > 0 =>
                \/ record[s].counts[d][h] > 0 \/ <<s, d, h>> \in log
                \/ Cardinality({l \in log : l[1] = s}) >= foldedNameLimit

\* A summary's pending count is the number of its requests still without a
\* decision (begin, count, abandon), so the entry is not forgotten under them.
PendingIsExact ==
    \A s \in Sandboxes :
        /\ \A r \in Of(s) : counted[r] => ~stats[s].none
        /\ ~stats[s].none => stats[s].pending =
            Cardinality({r \in Of(s) : counted[r] /\ pc[r] \in Pending})

\* The listener's count of a source is its open connections, however often
\* cutting, splicing and returning close one of them (limitedConn.Close).
SlotsAreExact ==
    \A s \in Sandboxes :
        /\ slots[s] = Cardinality({r \in Of(s) : conn[r]})
        /\ open[s] = Cardinality({r \in Of(s) : pc[r] \in Holding})

\* A repeated collection never turns incomplete evidence into complete
\* evidence (collection.incomplete).
RepeatKeepsVerdict ==
    [][\A s \in Sandboxes :
        repeat'[s] = "complete" /\ repeat[s] = "none" =>
            mark[s] = "complete"]_vars

\* A stopping gateway opens no tunnel it has not already cut (track, stop).
StoppedIsCut ==
    gateway = "stopping" =>
        \A r \in Requests : pc[r] \in Tracked => cut[r]

\* The tunnels of a revoked lease end, also those a lookup in flight opens
\* after the revocation (Serve, sweep).
RevokedTunnelsEnd ==
    \A s \in Sandboxes :
        lease[s] = "revoked" ~> [](\A r \in Of(s) : pc[r] \notin Tracked)

\* A summary that says complete names every tunnel the sandbox opened and every
\* host it asked for, and collecting again never improves the verdict.
SummaryIsTrue == [](CompleteRecordHolds /\ HostsAreNamed) /\ RepeatKeepsVerdict

\* The counts of pending requests, tunnels and connections are exact, and a
\* stopping gateway has cut every tunnel it tracks.
ConnectionsAreExact == TypeOK /\ PendingIsExact /\ SlotsAreExact /\ StoppedIsCut

=============================================================================
