--------------------------- MODULE GatewayProofs ---------------------------
(***************************************************************************)
(* Proofs about the egress gateway, for every number of sandboxes and      *)
(* requests, every allowlist and every limit: its three counters (pending  *)
(* requests of a summary, connections of a source, tunnels of a sandbox)   *)
(* are exact and within their limits, and a stopping gateway has cut every *)
(* tunnel it tracks.                                                       *)
(*                                                                         *)
(* A counter is exact when it is the size of the set of requests it stands *)
(* for.  Each step moves one request into or out of a set, or empties the  *)
(* set together with its counter.                                          *)
(***************************************************************************)
EXTENDS Gateway, FiniteSetTheorems, TLAPS

Entries == [none : {FALSE}, counts : [Decisions -> [Keys -> Nat]],
            incomplete : BOOLEAN, pending : Nat, revoked : BOOLEAN,
            named : SUBSET (Decisions \X Hosts)]

\* The requests each counter of a sandbox stands for.
Waiting(s) == {r \in Of(s) : counted[r]}
Conns(s)   == {r \in Of(s) : conn[r]}
Tunnels(s) == {r \in Of(s) : pc[r] \in Holding}

\* The types, the counters' own apart.
Typed ==
    /\ gateway \in {"up", "stopping", "down"} /\ faults \in 0 .. MaxFaults
    /\ prog \in [Sandboxes -> {"new", "running", "exited"}]
    /\ lease \in [Sandboxes -> {"none", "live", "revoked"}]
    /\ early \subseteq Sandboxes
    /\ pc \in [Requests -> Undecided \cup {"idle", "open", "over"}]
    /\ host \in [Requests -> Hosts]
    /\ counted \in [Requests -> BOOLEAN] /\ cut \in [Requests -> BOOLEAN]
    /\ conn \in [Requests -> BOOLEAN]
    /\ stats \in [Sandboxes -> {NoEntry} \cup Entries]
    /\ mark \in [Sandboxes -> {"none", "complete", "incomplete"}]
    /\ sweep = {"idle"} \/ sweep \subseteq Sandboxes

\* A request waits in a summary only while it is undecided, and the summary
\* stays as long as one does.
PendingHolds ==
    /\ \A r \in Requests : counted[r] => pc[r] \in Pending /\ ~stats[r[1]].none
    /\ \A s \in Sandboxes :
          ~stats[s].none => stats[s].pending = Cardinality(Waiting(s))

ConnsHold ==
    /\ slots \in [Sandboxes -> 0 .. perSourceLimit]
    /\ \A s \in Sandboxes : slots[s] = Cardinality(Conns(s))
    /\ \A r \in Requests : pc[r] \in {"idle", "sent"} => ~conn[r]

TunnelsHold ==
    /\ open \in [Sandboxes -> 0 .. tunnelLimit]
    /\ \A s \in Sandboxes : open[s] = Cardinality(Tunnels(s))

IInv == Typed /\ PendingHolds /\ ConnsHold /\ TunnelsHold /\ StoppedIsCut

-----------------------------------------------------------------------------

\* A sandbox makes PerSandbox requests at most.
LEMMA OfFinite ==
    ASSUME NEW s \in Sandboxes
    PROVE  IsFiniteSet(Of(s)) /\ Cardinality(Of(s)) = PerSandbox
<1>1. Of(s) = {s} \X (1 .. PerSandbox)
  BY DEF Of, Requests
<1>2. IsFiniteSet({s}) /\ Cardinality({s}) = 1
  BY FS_Singleton
<1>3. IsFiniteSet(1 .. PerSandbox) /\ Cardinality(1 .. PerSandbox) = PerSandbox
  <2>1. PerSandbox \in Nat /\ 1 \in Int /\ PerSandbox \in Int
    BY ConstantsOK
  <2>2. /\ IsFiniteSet(1 .. PerSandbox)
        /\ Cardinality(1 .. PerSandbox) = IF 1 > PerSandbox THEN 0 ELSE PerSandbox - 1 + 1
    BY <2>1, FS_Interval
  <2> QED
    BY <2>1, <2>2
<1>4. /\ IsFiniteSet({s} \X (1 .. PerSandbox))
      /\ Cardinality({s} \X (1 .. PerSandbox)) = Cardinality({s}) * Cardinality(1 .. PerSandbox)
  BY <1>2, <1>3, FS_Product, Zenon
<1> QED
  BY <1>1, <1>2, <1>3, <1>4, ConstantsOK

\* A request is its own sandbox's, and nobody else's.
LEMMA Owner ==
    ASSUME NEW r \in Requests
    PROVE  r[1] \in Sandboxes /\ \A s \in Sandboxes : r \in Of(s) <=> s = r[1]
  BY DEF Requests, Of

\* The sets behind the counters are finite, so their sizes are numbers.
LEMMA SetsFinite ==
    ASSUME NEW s \in Sandboxes, NEW rs \in SUBSET Of(s)
    PROVE  IsFiniteSet(rs) /\ Cardinality(rs) \in 0 .. PerSandbox
<1>1. IsFiniteSet(rs) /\ Cardinality(rs) <= PerSandbox
  BY OfFinite, FS_Subset
<1>2. Cardinality(rs) \in Nat
  BY <1>1, FS_CardinalityType
<1> QED
  BY <1>1, <1>2, ConstantsOK

-----------------------------------------------------------------------------
(* Connections.                                                            *)

\* A step that neither takes nor closes a connection.
LEMMA ConnsKept ==
    ASSUME ConnsHold, UNCHANGED <<conn, slots>>,
           \A r \in Requests : pc'[r] \in {"idle", "sent"} => pc[r] \in {"idle", "sent"}
    PROVE  ConnsHold'
  BY DEF ConnsHold, Conns, Of

\* limitedConn.Close, of any set of requests and however often: the slots given
\* back are exactly those of the connections that were open.
LEMMA ConnsClosed ==
    ASSUME Typed, ConnsHold, NEW rs, Close(rs),
           \A r \in Requests : pc'[r] \in {"idle", "sent"} => pc[r] \in {"idle", "sent"}
    PROVE  ConnsHold' /\ conn' \in [Requests -> BOOLEAN]
<1>1. conn' = [r \in Requests |-> conn[r] /\ r \notin rs]
  BY DEF Close
<1>2. ASSUME NEW s \in Sandboxes
      PROVE  slots'[s] = Cardinality(Conns(s)') /\ slots'[s] \in 0 .. perSourceLimit
  <2> DEFINE R == {r \in rs \cap Of(s) : conn[r]}
  <2>1. Conns(s)' = Conns(s) \ R
    BY <1>1 DEF Conns, Of
  <2>2. Conns(s) \cap R = R
    BY DEF Conns
  <2>3. IsFiniteSet(Conns(s)) /\ Cardinality(Conns(s)) \in Nat
    BY SetsFinite DEF Conns
  <2>4. IsFiniteSet(R) /\ Cardinality(R) \in Nat
    BY SetsFinite
  <2>5. slots'[s] = slots[s] - Cardinality(R)
    BY DEF Close, Released
  <2> HIDE DEF R
  <2>6. /\ IsFiniteSet(Conns(s) \ R)
        /\ Cardinality(Conns(s) \ R) = Cardinality(Conns(s)) - Cardinality(R)
    BY <2>2, <2>3, FS_Difference
  <2>7. Cardinality(Conns(s) \ R) \in Nat
    BY <2>6, FS_CardinalityType
  <2>8. slots[s] = Cardinality(Conns(s)) /\ slots[s] \in 0 .. perSourceLimit
    BY DEF ConnsHold
  <2> QED
    BY <2>1, <2>3, <2>4, <2>5, <2>6, <2>7, <2>8, ConstantsOK
<1>3. slots' \in [Sandboxes -> 0 .. perSourceLimit]
  BY <1>2 DEF Close
<1>4. \A r \in Requests : pc'[r] \in {"idle", "sent"} => ~conn'[r]
  BY <1>1 DEF ConnsHold
<1> QED
  BY <1>1, <1>2, <1>3, <1>4 DEF ConnsHold, Typed

\* Accept: a source below its limit gets one more connection.
LEMMA ConnsArrive ==
    ASSUME Typed, ConnsHold, NEW r \in Requests, Arrive(r)
    PROVE  ConnsHold'
<1>1. r[1] \in Sandboxes
  BY Owner
<1>2. ~conn[r]
  BY DEF Arrive, ConnsHold
<1>3. CASE Admits(r[1]) /\ lease[r[1]] = "live"
  <2>1. /\ conn' = [conn EXCEPT ![r] = TRUE]
        /\ slots' = [slots EXCEPT ![r[1]] = @ + 1]
        /\ pc' = [pc EXCEPT ![r] = "found"]
    BY <1>3 DEF Arrive, Typed
  <2>2. ASSUME NEW s \in Sandboxes
        PROVE  slots'[s] = Cardinality(Conns(s)') /\ slots'[s] \in 0 .. perSourceLimit
    <3>1. IsFiniteSet(Conns(s)) /\ Cardinality(Conns(s)) \in Nat
      BY SetsFinite DEF Conns
    <3>2. slots[s] = Cardinality(Conns(s)) /\ slots[s] \in 0 .. perSourceLimit
      BY DEF ConnsHold
    <3>3. CASE s = r[1]
      <4>1. Conns(s)' = Conns(s) \cup {r} /\ r \notin Conns(s)
        BY <1>2, <2>1, <3>3, Owner DEF Conns, Of, Typed
      <4>2. Cardinality(Conns(s) \cup {r}) = Cardinality(Conns(s)) + 1
        BY <3>1, <4>1, FS_AddElement
      <4>3. slots'[s] = slots[s] + 1 /\ slots[s] < perSourceLimit
        BY <1>3, <2>1, <3>3 DEF Admits, ConnsHold
      <4> QED
        BY <3>1, <3>2, <4>1, <4>2, <4>3, ConstantsOK
    <3>4. CASE s # r[1]
      <4>1. Conns(s)' = Conns(s)
        BY <2>1, <3>4, Owner DEF Conns, Of, Typed
      <4> QED
        BY <2>1, <3>2, <3>4, <4>1 DEF ConnsHold
    <3> QED
      BY <3>3, <3>4
  <2> QED
    BY <2>1, <2>2 DEF ConnsHold, Typed
<1>4. CASE ~(Admits(r[1]) /\ lease[r[1]] = "live")
  <2>1. conn' = [conn EXCEPT ![r] = FALSE] /\ slots' = slots /\ pc' = [pc EXCEPT ![r] = "over"]
    BY <1>4 DEF Arrive
  <2>2. conn' = conn
    BY <1>2, <2>1 DEF Typed
  <2> QED
    BY <2>1, <2>2, ConnsKept DEF Typed
<1> QED
  BY <1>3, <1>4

-----------------------------------------------------------------------------
(* Tunnels.                                                                *)

\* A step that neither reserves nor releases a tunnel.
LEMMA TunnelsKept ==
    ASSUME TunnelsHold, UNCHANGED open,
           \A r \in Requests : pc'[r] \in Holding <=> pc[r] \in Holding
    PROVE  TunnelsHold'
<1>1. ASSUME NEW s \in Sandboxes PROVE Tunnels(s)' = Tunnels(s)
  BY DEF Tunnels, Of
<1> QED
  BY <1>1 DEF TunnelsHold

\* reserve: a sandbox below its limit gets one more tunnel.
LEMMA TunnelsReserve ==
    ASSUME Typed, TunnelsHold, NEW r \in Requests, Reserve(r)
    PROVE  TunnelsHold'
<1>1. r[1] \in Sandboxes
  BY Owner
<1>2. /\ pc[r] = "begun" /\ pc' = [pc EXCEPT ![r] = "reserved"]
      /\ open[r[1]] < tunnelLimit /\ open' = [open EXCEPT ![r[1]] = @ + 1]
  BY DEF Reserve, Reserves
<1>3. ASSUME NEW s \in Sandboxes
      PROVE  open'[s] = Cardinality(Tunnels(s)') /\ open'[s] \in 0 .. tunnelLimit
  <2>1. IsFiniteSet(Tunnels(s)) /\ Cardinality(Tunnels(s)) \in Nat
    BY SetsFinite DEF Tunnels
  <2>2. open[s] = Cardinality(Tunnels(s)) /\ open[s] \in 0 .. tunnelLimit
    BY DEF TunnelsHold
  <2>3. CASE s = r[1]
    <3>1. Tunnels(s)' = Tunnels(s) \cup {r} /\ r \notin Tunnels(s)
      BY <1>2, <2>3, Owner DEF Tunnels, Of, Typed, Holding
    <3>2. Cardinality(Tunnels(s) \cup {r}) = Cardinality(Tunnels(s)) + 1
      BY <2>1, <3>1, FS_AddElement
    <3>3. open'[s] = open[s] + 1 /\ open[s] < tunnelLimit
      BY <1>2, <2>3 DEF TunnelsHold
    <3> QED
      BY <2>1, <2>2, <3>1, <3>2, <3>3, ConstantsOK
  <2>4. CASE s # r[1]
    <3>1. Tunnels(s)' = Tunnels(s)
      BY <1>2, <2>4, Owner DEF Tunnels, Of, Typed
    <3> QED
      BY <1>2, <2>2, <2>4, <3>1 DEF TunnelsHold
  <2> QED
    BY <2>3, <2>4
<1> QED
  BY <1>2, <1>3 DEF TunnelsHold

\* release: a handler that returns gives back the tunnel it reserved, if any.
LEMMA TunnelsReturn ==
    ASSUME Typed, TunnelsHold, NEW r \in Requests, Return(r)
    PROVE  TunnelsHold'
<1>1. r[1] \in Sandboxes
  BY Owner
<1>2. pc' = [pc EXCEPT ![r] = "over"]
  BY DEF Return
<1>3. CASE pc[r] \notin Holding
  <2>1. \A q \in Requests : pc'[q] \in Holding <=> pc[q] \in Holding
    BY <1>2, <1>3 DEF Typed, Holding
  <2> QED
    BY <1>3, <2>1, TunnelsKept DEF Return
<1>4. CASE pc[r] \in Holding
  <2>0. open' = [open EXCEPT ![r[1]] = @ - 1]
    BY <1>4 DEF Return
  <2>1. ASSUME NEW s \in Sandboxes
        PROVE  open'[s] = Cardinality(Tunnels(s)') /\ open'[s] \in 0 .. tunnelLimit
    <3>1. IsFiniteSet(Tunnels(s)) /\ Cardinality(Tunnels(s)) \in Nat
      BY SetsFinite DEF Tunnels
    <3>2. open[s] = Cardinality(Tunnels(s)) /\ open[s] \in 0 .. tunnelLimit
      BY DEF TunnelsHold
    <3>3. CASE s = r[1]
      <4>1. Tunnels(s)' = Tunnels(s) \ {r} /\ r \in Tunnels(s)
        BY <1>2, <1>4, <3>3, Owner DEF Tunnels, Of, Typed, Holding
      <4>2. /\ IsFiniteSet(Tunnels(s) \ {r})
            /\ Cardinality(Tunnels(s) \ {r}) = Cardinality(Tunnels(s)) - 1
        BY <3>1, <4>1, FS_RemoveElement
      <4>3. Cardinality(Tunnels(s) \ {r}) \in Nat
        BY <4>2, FS_CardinalityType
      <4>4. open'[s] = open[s] - 1
        BY <2>0, <3>3 DEF TunnelsHold
      <4> QED
        BY <3>1, <3>2, <4>1, <4>2, <4>3, <4>4, ConstantsOK
    <3>4. CASE s # r[1]
      <4>1. Tunnels(s)' = Tunnels(s)
        BY <1>2, <3>4, Owner DEF Tunnels, Of, Typed
      <4> QED
        BY <2>0, <3>2, <3>4, <4>1 DEF TunnelsHold
    <3> QED
      BY <3>3, <3>4
  <2> QED
    BY <2>0, <2>1 DEF TunnelsHold
<1> QED
  BY <1>3, <1>4

-----------------------------------------------------------------------------
(* Pending requests.                                                       *)

\* A step that moves no request into or out of a summary.
LEMMA PendingKept ==
    ASSUME PendingHolds, UNCHANGED counted,
           \A s \in Sandboxes : /\ stats'[s].none = stats[s].none
                                /\ stats'[s].pending = stats[s].pending,
           \A r \in Requests : counted[r] => pc'[r] \in Pending
    PROVE  PendingHolds'
<1>1. ASSUME NEW s \in Sandboxes PROVE Waiting(s)' = Waiting(s)
  BY DEF Waiting, Of
<1>2. \A r \in Requests : counted'[r] => pc'[r] \in Pending /\ ~stats'[r[1]].none
  BY Owner DEF PendingHolds
<1> QED
  BY <1>1, <1>2 DEF PendingHolds

\* Summaries that are collected, forgotten or lost take all their requests with
\* them.
LEMMA PendingCleared ==
    ASSUME PendingHolds, NEW gone,
           counted' = [r \in Requests |-> counted[r] /\ r[1] \notin gone],
           \A s \in Sandboxes :
              IF s \in gone THEN stats'[s].none
              ELSE stats'[s].none = stats[s].none /\ stats'[s].pending = stats[s].pending,
           \A r \in Requests : counted[r] /\ r[1] \notin gone => pc'[r] = pc[r]
    PROVE  PendingHolds'
<1>1. ASSUME NEW s \in Sandboxes, s \notin gone PROVE Waiting(s)' = Waiting(s)
  BY <1>1 DEF Waiting, Of
<1>2. \A r \in Requests : counted'[r] => pc'[r] \in Pending /\ ~stats'[r[1]].none
  BY Owner DEF PendingHolds
<1>3. ASSUME NEW s \in Sandboxes, ~stats'[s].none
      PROVE  stats'[s].pending = Cardinality(Waiting(s)')
  BY <1>1, <1>3 DEF PendingHolds
<1> QED
  BY <1>2, <1>3 DEF PendingHolds

\* count and abandon: a request leaves its summary, and its share goes with it.
LEMMA PendingLeft ==
    ASSUME Typed, PendingHolds, NEW r \in Requests,
           counted' = [counted EXCEPT ![r] = FALSE],
           \A s \in Sandboxes : s # r[1] => stats'[s] = stats[s],
           ~stats[r[1]].none =>
              /\ ~stats'[r[1]].none
              /\ stats'[r[1]].pending = IF counted[r] THEN stats[r[1]].pending - 1
                                        ELSE stats[r[1]].pending,
           stats[r[1]].none /\ ~stats'[r[1]].none => stats'[r[1]].pending = 0,
           \A q \in Requests : q # r => pc'[q] = pc[q]
    PROVE  PendingHolds'
<1>1. r[1] \in Sandboxes
  BY Owner
<1>2. \A q \in Requests : counted'[q] => pc'[q] \in Pending /\ ~stats'[q[1]].none
  BY Owner DEF PendingHolds, Typed
<1>3. ASSUME NEW s \in Sandboxes, ~stats'[s].none
      PROVE  stats'[s].pending = Cardinality(Waiting(s)')
  <2>1. Waiting(s)' = Waiting(s) \ {r}
    BY DEF Waiting, Of, Typed
  <2>2. IsFiniteSet(Waiting(s)) /\ Cardinality(Waiting(s)) \in Nat
    BY SetsFinite DEF Waiting
  <2>3. CASE s # r[1]
    <3>1. r \notin Waiting(s)
      BY <2>3, Owner DEF Waiting
    <3>2. Waiting(s)' = Waiting(s)
      BY <2>1, <3>1
    <3> QED
      BY <1>3, <2>3, <3>2 DEF PendingHolds
  <2>4. CASE s = r[1] /\ ~stats[s].none
    <3>1. Cardinality(Waiting(s) \ {r}) =
             IF r \in Waiting(s) THEN Cardinality(Waiting(s)) - 1 ELSE Cardinality(Waiting(s))
      BY <2>2, FS_RemoveElement
    <3>2. r \in Waiting(s) <=> counted[r]
      BY <2>4, Owner DEF Waiting
    <3>3. stats[s].pending = Cardinality(Waiting(s))
      BY <2>4 DEF PendingHolds
    <3> QED
      BY <2>1, <2>4, <3>1, <3>2, <3>3
  <2>5. CASE s = r[1] /\ stats[s].none
    <3>1. Waiting(s) = {}
      BY <2>5 DEF PendingHolds, Waiting, Of
    <3>2. Waiting(s)' = {}
      BY <2>1, <3>1
    <3> QED
      BY <1>3, <2>5, <3>2, FS_EmptySet
  <2> QED
    BY <2>3, <2>4, <2>5
<1> QED
  BY <1>2, <1>3 DEF PendingHolds

\* An entry counts one decision more and nothing else of it changes.
LEMMA CountedEntry ==
    ASSUME NEW e \in Entries, NEW d \in Decisions, NEW h \in Hosts
    PROVE  /\ Counted(e, d, h) \in Entries
           /\ Counted(e, d, h).pending = e.pending
<1> DEFINE k == IF Folds(e, d, h) THEN "other" ELSE h
           named == IF Unnamed(e, d, h) THEN e.named \cup {<<d, h>>} ELSE e.named
           counts == [e.counts EXCEPT ![d][k] = @ + 1]
<1>1. k \in Keys /\ named \in SUBSET (Decisions \X Hosts)
  BY DEF Keys, Entries
<1>2. Counted(e, d, h) = [e EXCEPT !.counts = counts, !.named = named]
  BY DEF Counted, Entries
<1> HIDE DEF k, named
<1>3. counts \in [Decisions -> [Keys -> Nat]]
  BY <1>1 DEF Entries
<1> HIDE DEF counts
<1> QED
  BY <1>1, <1>2, <1>3 DEF Entries

\* The entry a request leaves: its share of pending is there to give back.
LEMMA SettledEntry ==
    ASSUME Typed, PendingHolds, NEW r \in Requests
    PROVE  /\ Settled(r) \in {NoEntry} \cup Entries
           /\ Settled(r).none = stats[r[1]].none
           /\ counted[r] => Settled(r) \in Entries
           /\ ~stats[r[1]].none =>
                 Settled(r).pending = IF counted[r] THEN stats[r[1]].pending - 1
                                      ELSE stats[r[1]].pending
<1>1. r[1] \in Sandboxes /\ r \in Of(r[1])
  BY Owner
<1>2. CASE ~counted[r]
  BY <1>1, <1>2 DEF Settled, Typed
<1>3. CASE counted[r]
  <2>1. ~stats[r[1]].none /\ stats[r[1]].pending = Cardinality(Waiting(r[1]))
    BY <1>1, <1>3 DEF PendingHolds
  <2>2. stats[r[1]] \in Entries
    BY <1>1, <2>1 DEF Typed, NoEntry
  <2>3. r \in Waiting(r[1]) /\ IsFiniteSet(Waiting(r[1]))
    BY <1>1, <1>3, SetsFinite DEF Waiting
  <2>4. Cardinality(Waiting(r[1])) # 0 /\ Cardinality(Waiting(r[1])) \in Nat
    BY <2>3, FS_EmptySet, FS_CardinalityType
  <2>5. stats[r[1]].pending - 1 \in Nat
    BY <2>1, <2>4
  <2>6. Settled(r) = [stats[r[1]] EXCEPT !.pending = stats[r[1]].pending - 1]
    BY <1>3 DEF Settled
  <2> DEFINE e == stats[r[1]]
             p == stats[r[1]].pending - 1
  <2>7. e \in Entries /\ p \in Nat /\ Settled(r) = [e EXCEPT !.pending = p]
    BY <2>2, <2>5, <2>6
  <2>8. ~e.none
    BY <2>1
  <2>9. Settled(r) \in Entries /\ Settled(r).pending = p /\ Settled(r).none = FALSE
    <3> HIDE DEF e, p
    <3> QED
      BY <2>7 DEF Entries
  <2> QED
    BY <1>3, <2>1, <2>2, <2>9 DEF Entries
<1> QED
  BY <1>2, <1>3

\* count, for any decision.
LEMMA CountHolds ==
    ASSUME Typed, PendingHolds, NEW r \in Requests, NEW d \in Decisions, Count(r, d),
           \A q \in Requests : q # r => pc'[q] = pc[q]
    PROVE  PendingHolds' /\ stats' \in [Sandboxes -> {NoEntry} \cup Entries]
<1>1. r[1] \in Sandboxes /\ host[r] \in Hosts
  BY Owner DEF Typed
<1> DEFINE e == Entry(Settled(r))
           new == IF Closed(r[1]) THEN Settled(r) ELSE Counted(e, d, host[r])
<1>2. stats' = [stats EXCEPT ![r[1]] = new] /\ counted' = [counted EXCEPT ![r] = FALSE]
  BY DEF Count
<1>3. NewEntry \in Entries /\ NewEntry.pending = 0
  BY DEF NewEntry, Entries, NoCounts
<1>4. /\ e \in Entries
      /\ ~stats[r[1]].none => e.pending = Settled(r).pending
      /\ stats[r[1]].none => e.pending = 0
  <2>1. Settled(r) \in {NoEntry} \cup Entries /\ Settled(r).none = stats[r[1]].none
    BY SettledEntry
  <2>2. NoEntry.none = TRUE /\ \A x \in Entries : x.none = FALSE
    BY DEF NoEntry, Entries
  <2> QED
    BY <1>3, <2>1, <2>2 DEF Entry
<1> HIDE DEF e
<1>5. Counted(e, d, host[r]) \in Entries /\ Counted(e, d, host[r]).pending = e.pending
  BY <1>1, <1>4, CountedEntry
<1>6. \A x \in Entries : x.none = FALSE
  BY DEF Entries
<1>7. /\ new \in {NoEntry} \cup Entries
      /\ ~stats[r[1]].none => ~new.none /\ new.pending = Settled(r).pending
      /\ stats[r[1]].none /\ ~new.none => new.pending = 0
  BY <1>4, <1>5, <1>6, SettledEntry
<1> HIDE DEF new
<1>8. stats'[r[1]] = new /\ \A s \in Sandboxes : s # r[1] => stats'[s] = stats[s]
  BY <1>1, <1>2 DEF Typed
<1>9. stats' \in [Sandboxes -> {NoEntry} \cup Entries]
  BY <1>2, <1>7 DEF Typed
<1>10. ~stats[r[1]].none => new.pending = IF counted[r] THEN stats[r[1]].pending - 1
                                          ELSE stats[r[1]].pending
  BY <1>7, SettledEntry
<1>11. PendingHolds'
  BY <1>2, <1>7, <1>8, <1>10, PendingLeft
<1> QED
  BY <1>9, <1>11

\* abandon.
LEMMA AbandonHolds ==
    ASSUME Typed, PendingHolds, NEW r \in Requests, Abandon(r),
           \A q \in Requests : q # r => pc'[q] = pc[q]
    PROVE  PendingHolds' /\ stats' \in [Sandboxes -> {NoEntry} \cup Entries]
<1>1. r[1] \in Sandboxes
  BY Owner
<1> DEFINE new == IF counted[r] THEN [Settled(r) EXCEPT !.incomplete = TRUE] ELSE stats[r[1]]
<1>2. stats' = [stats EXCEPT ![r[1]] = new] /\ counted' = [counted EXCEPT ![r] = FALSE]
  BY DEF Abandon
<1>3. ASSUME NEW e \in Entries
      PROVE  /\ [e EXCEPT !.incomplete = TRUE] \in Entries
             /\ [e EXCEPT !.incomplete = TRUE].pending = e.pending
             /\ [e EXCEPT !.incomplete = TRUE].none = FALSE
  BY DEF Entries
<1>4. /\ new \in {NoEntry} \cup Entries
      /\ ~stats[r[1]].none =>
            /\ ~new.none
            /\ new.pending = IF counted[r] THEN stats[r[1]].pending - 1 ELSE stats[r[1]].pending
      /\ stats[r[1]].none => new.none
  <2>1. CASE counted[r]
    <3>1. Settled(r) \in Entries /\ ~stats[r[1]].none
      BY <2>1, SettledEntry DEF PendingHolds
    <3>2. Settled(r).pending = stats[r[1]].pending - 1
      BY <2>1, <3>1, SettledEntry
    <3> QED
      BY <1>3, <2>1, <3>1, <3>2
  <2>2. CASE ~counted[r]
    BY <1>1, <2>2 DEF Typed
  <2> QED
    BY <2>1, <2>2
<1> HIDE DEF new
<1>5. stats'[r[1]] = new /\ \A s \in Sandboxes : s # r[1] => stats'[s] = stats[s]
  BY <1>1, <1>2 DEF Typed
<1>6. stats' \in [Sandboxes -> {NoEntry} \cup Entries]
  BY <1>2, <1>4 DEF Typed
<1>7. PendingHolds'
  BY <1>2, <1>4, <1>5, PendingLeft
<1> QED
  BY <1>6, <1>7

\* begin: a request of a sandbox not yet collected enters its summary.
LEMMA BeginHolds ==
    ASSUME Typed, PendingHolds, NEW r \in Requests, Begin(r), ~Closed(r[1])
    PROVE  PendingHolds' /\ stats' \in [Sandboxes -> {NoEntry} \cup Entries]
<1>1. r[1] \in Sandboxes /\ r \in Of(r[1])
  BY Owner
<1> DEFINE e == Entry(stats[r[1]])
           new == [e EXCEPT !.pending = @ + 1]
<1>2. /\ stats' = [stats EXCEPT ![r[1]] = new] /\ counted' = [counted EXCEPT ![r] = TRUE]
      /\ pc[r] = "found" /\ pc' = [pc EXCEPT ![r] = "begun"]
  BY DEF Begin
<1>3. ~counted[r]
  BY <1>2 DEF PendingHolds, Pending
<1>4. NewEntry \in Entries /\ NewEntry.pending = 0
  BY DEF NewEntry, Entries, NoCounts
<1>5. e \in Entries /\ e.pending = Cardinality(Waiting(r[1]))
  <2>1. CASE stats[r[1]].none
    <3>1. Waiting(r[1]) = {}
      BY <2>1 DEF PendingHolds, Waiting, Of
    <3> QED
      BY <1>4, <2>1, <3>1, FS_EmptySet DEF Entry
  <2>2. CASE ~stats[r[1]].none
    <3>1. stats[r[1]] \in Entries
      BY <1>1, <2>2 DEF Typed, NoEntry
    <3> QED
      BY <1>1, <2>2, <3>1 DEF Entry, PendingHolds
  <2> QED
    BY <2>1, <2>2
<1> HIDE DEF e
<1>6. new \in Entries /\ new.pending = e.pending + 1 /\ new.none = FALSE
  <2>1. ASSUME NEW x \in Entries, NEW p \in Nat
        PROVE  LET y == [x EXCEPT !.pending = p]
               IN  y \in Entries /\ y.pending = p /\ y.none = FALSE
    BY DEF Entries
  <2>2. e.pending + 1 \in Nat
    BY <1>5 DEF Entries
  <2> QED
    BY <1>5, <2>1, <2>2
<1> HIDE DEF new
<1>7. stats'[r[1]] = new /\ \A s \in Sandboxes : s # r[1] => stats'[s] = stats[s]
  BY <1>1, <1>2 DEF Typed
<1>8. stats' \in [Sandboxes -> {NoEntry} \cup Entries]
  BY <1>2, <1>6 DEF Typed
<1>9. \A q \in Requests : counted'[q] => pc'[q] \in Pending /\ ~stats'[q[1]].none
  BY <1>2, <1>6, <1>7, Owner DEF PendingHolds, Typed, Pending
<1>10. ASSUME NEW s \in Sandboxes, ~stats'[s].none
       PROVE  stats'[s].pending = Cardinality(Waiting(s)')
  <2>1. CASE s # r[1]
    <3>1. Waiting(s)' = Waiting(s)
      BY <1>2, <2>1, Owner DEF Waiting, Of, Typed
    <3> QED
      BY <1>7, <1>10, <2>1, <3>1 DEF PendingHolds
  <2>2. CASE s = r[1]
    <3>1. Waiting(s)' = Waiting(s) \cup {r} /\ r \notin Waiting(s)
      BY <1>1, <1>2, <1>3, <2>2 DEF Waiting, Of, Typed
    <3>2. IsFiniteSet(Waiting(s))
      BY SetsFinite DEF Waiting
    <3>3. Cardinality(Waiting(s) \cup {r}) = Cardinality(Waiting(s)) + 1
      BY <3>1, <3>2, FS_AddElement
    <3> QED
      BY <1>5, <1>6, <1>7, <2>2, <3>1, <3>3
  <2> QED
    BY <2>1, <2>2
<1> QED
  BY <1>8, <1>9, <1>10 DEF PendingHolds

\* collect: the summary is gone, with its requests.
LEMMA CollectedHolds ==
    ASSUME Typed, PendingHolds, NEW s \in Sandboxes, Collected(s), UNCHANGED pc
    PROVE  /\ PendingHolds'
           /\ stats' \in [Sandboxes -> {NoEntry} \cup Entries]
           /\ counted' \in [Requests -> BOOLEAN]
           /\ mark' \in [Sandboxes -> {"none", "complete", "incomplete"}]
<1>1. /\ stats' = [stats EXCEPT ![s] = NoEntry]
      /\ counted' = [r \in Requests |-> counted[r] /\ r[1] \notin {s}]
  BY DEF Collected
<1>2. \A t \in Sandboxes :
         IF t \in {s} THEN stats'[t].none
         ELSE stats'[t].none = stats[t].none /\ stats'[t].pending = stats[t].pending
  BY <1>1 DEF Typed, NoEntry
<1>3. PendingHolds'
  BY <1>1, <1>2, PendingCleared
<1> QED
  BY <1>1, <1>3 DEF Typed, Collected, Verdict

-----------------------------------------------------------------------------
(* The steps.                                                              *)

\* The invariant holds before the first lease.
LEMMA InitHolds == Init => IInv
<1> SUFFICES ASSUME Init PROVE IInv
  OBVIOUS
<1>0. Cardinality({}) = 0 /\ 0 \in 0 .. perSourceLimit /\ 0 \in 0 .. tunnelLimit
  BY FS_EmptySet, ConstantsOK
<1>1. Typed
  BY ConstantsOK DEF Init, Typed
<1>2. PendingHolds
  BY DEF Init, PendingHolds, NoEntry
<1>3. ConnsHold
  <2>1. \A s \in Sandboxes : Conns(s) = {}
    BY DEF Init, Conns, Of
  <2> QED
    BY <1>0, <2>1 DEF Init, ConnsHold
<1>4. TunnelsHold
  <2>1. \A s \in Sandboxes : Tunnels(s) = {}
    BY DEF Init, Tunnels, Of, Holding
  <2> QED
    BY <1>0, <2>1 DEF Init, TunnelsHold
<1>5. StoppedIsCut
  BY DEF Init, StoppedIsCut
<1> QED
  BY <1>1, <1>2, <1>3, <1>4, <1>5 DEF IInv

\* What the broker and the sandboxes do to leases, programs and evidence.
LEMMA SandboxStep ==
    ASSUME IInv, NEW s \in Sandboxes,
           \/ Grant(s) \/ Exits(s) \/ Revoke(s)
           \/ Collect(s) \/ CollectFails(s) \/ CollectAgain(s)
    PROVE  IInv'
<1> USE DEF IInv
<1>1. UNCHANGED <<gw, early, pc, host, cut, conn, slots, open, sweep>>
  BY DEF Grant, Exits, Revoke, Collect, CollectFails, CollectAgain, requests, world
<1>2. /\ prog' \in [Sandboxes -> {"new", "running", "exited"}]
      /\ lease' \in [Sandboxes -> {"none", "live", "revoked"}]
  BY DEF Typed, Grant, Exits, Revoke, Collect, CollectFails, CollectAgain, world
<1>3. Collected(s) \/ UNCHANGED <<stats, counted, mark>>
  BY DEF Grant, Exits, Revoke, Collect, CollectFails, CollectAgain, requests, evidence
<1>4. PendingHolds' /\ Typed'
  <2>1. CASE Collected(s)
    BY <1>1, <1>2, <2>1, CollectedHolds DEF Typed, gw
  <2>2. CASE UNCHANGED <<stats, counted, mark>>
    BY <1>1, <1>2, <2>2 DEF Typed, PendingHolds, Waiting, Of, gw
  <2> QED
    BY <1>3, <2>1, <2>2
<1>5. ConnsHold' /\ TunnelsHold' /\ StoppedIsCut'
  BY <1>1, ConnsKept, TunnelsKept DEF StoppedIsCut, gw
<1> QED
  BY <1>4, <1>5

\* A handler's last step: whatever it decides, its connection, its tunnel and
\* its share of the summary go together.
LEMMA ReturnStep ==
    ASSUME IInv, NEW r \in Requests, Return(r),
           \/ \E d \in Decisions : Count(r, d)
           \/ Abandon(r)
           \/ pc[r] \notin Pending /\ UNCHANGED <<stats, counted>>,
           UNCHANGED <<gw, world, host, cut, mark, sweep>>
    PROVE  IInv'
<1> USE DEF IInv
<1>1. pc' = [pc EXCEPT ![r] = "over"] /\ Close({r})
  BY DEF Return
<1>2. ConnsHold' /\ conn' \in [Requests -> BOOLEAN]
  BY <1>1, ConnsClosed DEF Typed
<1>3. TunnelsHold'
  BY TunnelsReturn
<1>4. StoppedIsCut'
  BY <1>1 DEF StoppedIsCut, Typed, Tracked, gw
<1>5. PendingHolds' /\ stats' \in [Sandboxes -> {NoEntry} \cup Entries]
  <2>1. \A q \in Requests : q # r => pc'[q] = pc[q]
    BY <1>1 DEF Typed
  <2>2. CASE \E d \in Decisions : Count(r, d)
    BY <2>1, <2>2, CountHolds
  <2>3. CASE Abandon(r)
    BY <2>1, <2>3, AbandonHolds
  <2>4. CASE pc[r] \notin Pending /\ UNCHANGED <<stats, counted>>
    <3>1. \A q \in Requests : counted[q] => pc'[q] \in Pending
      BY <2>1, <2>4 DEF PendingHolds
    <3> QED
      BY <2>4, <3>1, PendingKept DEF Typed
  <2> QED
    BY <2>2, <2>3, <2>4
<1>6. counted' \in [Requests -> BOOLEAN]
  BY DEF Typed, Count, Abandon
<1>7. Typed'
  BY <1>1, <1>2, <1>5, <1>6 DEF Typed, gw, world
<1> QED
  BY <1>2, <1>3, <1>4, <1>5, <1>7

\* Every step that serves a request, one case per action.
LEMMA RequestStep ==
    ASSUME IInv, NEW r \in Requests, Send(r) \/ Handler(r) \/ TunnelEnds(r)
    PROVE  IInv'
<1>0. r[1] \in Sandboxes /\ {"denied", "failed", "allowed"} \subseteq Decisions
  BY Owner DEF Decisions
<1>1. CASE Send(r)
  <2>1. /\ pc[r] = "idle" /\ pc' = [pc EXCEPT ![r] = "sent"]
        /\ UNCHANGED <<gw, world, host, counted, cut, conn, slots, stats, mark, open, sweep>>
    BY <1>1 DEF Send, evidence
  <2>2. Typed'
    BY <2>1 DEF IInv, Typed, gw, world, Undecided
  <2>3. PendingHolds'
    <3>1. \A q \in Requests : counted[q] => pc'[q] \in Pending
      BY <2>1 DEF IInv, Typed, PendingHolds, Pending
    <3> QED
      BY <2>1, <3>1, PendingKept DEF IInv
  <2>4. ConnsHold'
    BY <2>1, ConnsKept DEF IInv, Typed
  <2>5. TunnelsHold'
    BY <2>1, TunnelsKept DEF IInv, Typed, Holding
  <2>6. StoppedIsCut'
    BY <2>1 DEF IInv, Typed, StoppedIsCut, Tracked, gw
  <2> QED
    BY <2>2, <2>3, <2>4, <2>5, <2>6 DEF IInv
<1>2. CASE Arrive(r)
  <2>1. /\ pc[r] = "sent" /\ pc'[r] \in {"found", "over"}
        /\ pc' \in [Requests -> Undecided \cup {"idle", "open", "over"}]
        /\ \A q \in Requests : q # r => pc'[q] = pc[q]
        /\ UNCHANGED <<gw, world, host, counted, cut, stats, mark, open, sweep>>
    BY <1>2 DEF Arrive, evidence, IInv, Typed, Undecided
  <2>2. Typed'
    BY <1>2, <2>1 DEF IInv, Typed, gw, world, Arrive, Admits
  <2>3. PendingHolds'
    <3>1. \A q \in Requests : counted[q] => pc'[q] \in Pending
      BY <2>1 DEF IInv, Typed, PendingHolds, Pending
    <3> QED
      BY <2>1, <3>1, PendingKept DEF IInv
  <2>4. ConnsHold'
    BY <1>2, ConnsArrive DEF IInv
  <2>5. TunnelsHold'
    <3>1. \A q \in Requests : pc'[q] \in Holding <=> pc[q] \in Holding
      BY <2>1 DEF Holding
    <3> QED
      BY <2>1, <3>1, TunnelsKept DEF IInv
  <2>6. StoppedIsCut'
    BY <2>1 DEF IInv, StoppedIsCut, Tracked, gw
  <2> QED
    BY <2>2, <2>3, <2>4, <2>5, <2>6 DEF IInv
<1>3. CASE Begin(r)
  <2>1. CASE Closed(r[1])
    <3>1. /\ pc[r] = "found" /\ pc' = [pc EXCEPT ![r] = "over"] /\ Close({r})
          /\ UNCHANGED <<gw, world, host, cut, mark, sweep, open, stats, counted>>
      BY <1>3, <2>1 DEF Begin
    <3>2. Return(r) /\ pc[r] \notin Pending
      BY <3>1 DEF Return, Holding, Pending
    <3> QED
      BY <3>1, <3>2, ReturnStep
  <2>2. CASE ~Closed(r[1])
    <3>1. /\ pc[r] = "found" /\ pc' = [pc EXCEPT ![r] = "begun"]
          /\ counted' = [counted EXCEPT ![r] = TRUE]
          /\ UNCHANGED <<gw, world, host, cut, conn, slots, mark, sweep, open>>
      BY <1>3, <2>2 DEF Begin
    <3>2. PendingHolds' /\ stats' \in [Sandboxes -> {NoEntry} \cup Entries]
      BY <1>3, <2>2, BeginHolds DEF IInv
    <3>3. Typed'
      BY <3>1, <3>2 DEF IInv, Typed, gw, world, Undecided
    <3>4. ConnsHold'
      BY <3>1, ConnsKept DEF IInv, Typed
    <3>5. TunnelsHold'
      BY <3>1, TunnelsKept DEF IInv, Typed, Holding
    <3>6. StoppedIsCut'
      BY <3>1 DEF IInv, Typed, StoppedIsCut, Tracked, gw
    <3> QED
      BY <3>2, <3>3, <3>4, <3>5, <3>6 DEF IInv
  <2> QED
    BY <2>1, <2>2
<1>4. CASE Refuse(r)
  BY <1>0, <1>4, ReturnStep DEF Refuse
<1>5. CASE Unreached(r)
  BY <1>0, <1>5, ReturnStep DEF Unreached
<1>6. CASE HelloFails(r)
  BY <1>0, <1>6, ReturnStep DEF HelloFails
<1>7. CASE TunnelEnds(r)
  BY <1>7, ReturnStep DEF TunnelEnds, evidence, Pending
<1>8. CASE Reserve(r)
  <2>1. /\ pc[r] = "begun" /\ pc' = [pc EXCEPT ![r] = "reserved"]
        /\ UNCHANGED <<gw, world, host, counted, cut, conn, slots, stats, mark, sweep>>
    BY <1>8 DEF Reserve, evidence
  <2>2. Typed'
    BY <2>1 DEF IInv, Typed, gw, world, Undecided
  <2>3. PendingHolds'
    <3>1. \A q \in Requests : counted[q] => pc'[q] \in Pending
      BY <2>1 DEF IInv, Typed, PendingHolds, Pending
    <3> QED
      BY <2>1, <3>1, PendingKept DEF IInv
  <2>4. ConnsHold'
    BY <2>1, ConnsKept DEF IInv, Typed
  <2>5. TunnelsHold'
    BY <1>8, TunnelsReserve DEF IInv
  <2>6. StoppedIsCut'
    BY <2>1 DEF IInv, Typed, StoppedIsCut, Tracked, gw
  <2> QED
    BY <2>2, <2>3, <2>4, <2>5, <2>6 DEF IInv
<1>9. CASE Track(r)
  <2>1. CASE ~Tracks
    BY <1>9, <2>1, ReturnStep DEF Track
  <2>2. CASE Tracks
    <3>1. /\ pc[r] = "reserved" /\ pc' = [pc EXCEPT ![r] = "tracked"] /\ gateway = "up"
          /\ UNCHANGED <<gw, world, host, counted, cut, conn, slots, stats, mark, open, sweep>>
      BY <1>9, <2>2 DEF Track, Tracks
    <3>2. Typed'
      BY <3>1 DEF IInv, Typed, gw, world, Undecided
    <3>3. PendingHolds'
      <4>1. \A q \in Requests : counted[q] => pc'[q] \in Pending
        BY <3>1 DEF IInv, Typed, PendingHolds, Pending
      <4> QED
        BY <3>1, <4>1, PendingKept DEF IInv
    <3>4. ConnsHold'
      BY <3>1, ConnsKept DEF IInv, Typed
    <3>5. TunnelsHold'
      BY <3>1, TunnelsKept DEF IInv, Typed, Holding
    <3>6. StoppedIsCut'
      BY <3>1 DEF IInv, StoppedIsCut, gw
    <3> QED
      BY <3>2, <3>3, <3>4, <3>5, <3>6 DEF IInv
  <2> QED
    BY <2>1, <2>2
<1>10. CASE Opens(r)
  <2>1. /\ pc[r] = "tracked" /\ ~cut[r] /\ pc' = [pc EXCEPT ![r] = "open"]
        /\ Count(r, "allowed")
        /\ UNCHANGED <<gw, world, host, cut, conn, slots, mark, open, sweep>>
    BY <1>10 DEF Opens
  <2>2. PendingHolds' /\ stats' \in [Sandboxes -> {NoEntry} \cup Entries]
    BY <1>0, <2>1, CountHolds DEF IInv, Typed
  <2>3. Typed'
    BY <2>1, <2>2 DEF IInv, Typed, gw, world, Count
  <2>4. ConnsHold'
    BY <2>1, ConnsKept DEF IInv, Typed
  <2>5. TunnelsHold'
    BY <2>1, TunnelsKept DEF IInv, Typed, Holding
  <2>6. StoppedIsCut'
    BY <2>1 DEF IInv, Typed, StoppedIsCut, Tracked, gw
  <2> QED
    BY <2>2, <2>3, <2>4, <2>5, <2>6 DEF IInv
<1> QED
  BY <1>1, <1>2, <1>3, <1>4, <1>5, <1>6, <1>7, <1>8, <1>9, <1>10 DEF Handler

\* The sweep closes the tunnels of the leases it found gone and forgets only
\* summaries without a pending request.
LEMMA SweepStep ==
    ASSUME IInv, Sweeps
    PROVE  IInv'
<1> USE DEF IInv
<1>1. UNCHANGED <<gw, world, pc, host, open>> /\ sweep' = {"idle"}
  BY DEF Sweeps
<1>2. ConnsHold' /\ conn' \in [Requests -> BOOLEAN]
  <2>1. Close(Revoked(sweep))
    BY DEF Sweeps
  <2> QED
    BY <1>1, <2>1, ConnsClosed
<1>3. PICK forget \in SUBSET {s \in sweep : Forgettable(s)},
           expire \in SUBSET {s \in Sandboxes : Expirable(s)} :
        /\ stats' = [s \in Sandboxes |->
              IF s \in forget THEN NoEntry
              ELSE IF s \in sweep /\ ~stats[s].none
                   THEN [stats[s] EXCEPT !.revoked = TRUE] ELSE stats[s]]
        /\ counted' = [r \in Requests |-> counted[r] /\ r[1] \notin forget]
        /\ mark' = [s \in Sandboxes |-> IF s \in expire THEN "none" ELSE mark[s]]
  BY DEF Sweeps
<1>4. ASSUME NEW e \in Entries
      PROVE  LET f == [e EXCEPT !.revoked = TRUE]
             IN  f \in Entries /\ f.pending = e.pending /\ f.none = e.none
  BY DEF Entries
<1>5. ASSUME NEW s \in Sandboxes, ~stats[s].none PROVE stats[s] \in Entries
  BY <1>5 DEF Typed, NoEntry
<1>6. ASSUME NEW s \in Sandboxes
      PROVE  /\ stats'[s] \in {NoEntry} \cup Entries
             /\ IF s \in forget THEN stats'[s].none
                ELSE stats'[s].none = stats[s].none /\ stats'[s].pending = stats[s].pending
  <2>1. CASE s \in forget
    BY <1>3, <2>1 DEF NoEntry
  <2>2. CASE s \notin forget /\ s \in sweep /\ ~stats[s].none
    <3>1. stats'[s] = [stats[s] EXCEPT !.revoked = TRUE] /\ stats[s] \in Entries
      BY <1>3, <1>5, <2>2
    <3> QED
      BY <1>4, <2>2, <3>1
  <2>3. CASE s \notin forget /\ ~(s \in sweep /\ ~stats[s].none)
    BY <1>3, <2>3 DEF Typed
  <2> QED
    BY <2>1, <2>2, <2>3
<1>7. PendingHolds'
  BY <1>1, <1>3, <1>6, PendingCleared
<1>8. stats' \in [Sandboxes -> {NoEntry} \cup Entries]
  BY <1>3, <1>6
<1>9. cut' \in [Requests -> BOOLEAN] /\ \A r \in Requests : cut[r] => cut'[r]
  BY DEF Sweeps, Typed
<1>10. Typed'
  BY <1>1, <1>2, <1>3, <1>8, <1>9 DEF Typed, gw, world
<1>11. TunnelsHold' /\ StoppedIsCut'
  BY <1>1, <1>9, TunnelsKept DEF StoppedIsCut, gw
<1> QED
  BY <1>2, <1>7, <1>10, <1>11

\* Stopping closes every connection and cuts every tunnel.
LEMMA StopStep ==
    ASSUME IInv, Stop
    PROVE  IInv'
<1> USE DEF IInv
<1>1. /\ UNCHANGED <<world, pc, host, counted, stats, mark, open>> /\ sweep' = {"idle"}
      /\ gateway' = "stopping" /\ faults' \in 0 .. MaxFaults
      /\ cut' = [r \in Requests |-> cut[r] \/ pc[r] \in Tracked]
  BY ConstantsOK DEF Stop, evidence, Typed
<1>2. ConnsHold' /\ conn' \in [Requests -> BOOLEAN]
  <2>1. Close(Requests)
    BY DEF Stop
  <2> QED
    BY <1>1, <2>1, ConnsClosed
<1>3. Typed'
  BY <1>1, <1>2 DEF Typed, world
<1>4. PendingHolds'
  BY <1>1, PendingKept DEF PendingHolds
<1>5. TunnelsHold' /\ StoppedIsCut'
  BY <1>1, TunnelsKept DEF StoppedIsCut
<1> QED
  BY <1>2, <1>3, <1>4, <1>5

\* The process ends with its counters and the requests behind them.
LEMMA EndsStep ==
    ASSUME IInv, Ends
    PROVE  IInv'
<1> USE DEF IInv
<1>1. /\ UNCHANGED <<world, host, cut>> /\ sweep' = {"idle"} /\ gateway' = "down"
      /\ pc' = [r \in Requests |-> IF pc[r] = "idle" THEN "idle" ELSE "over"]
      /\ counted' = [r \in Requests |-> FALSE]
      /\ stats' = [s \in Sandboxes |-> NoEntry]
      /\ mark' = [s \in Sandboxes |-> "none"]
      /\ open' = [s \in Sandboxes |-> 0]
  BY DEF Ends
<1>2. faults' \in 0 .. MaxFaults
  BY ConstantsOK DEF Ends, Typed
<1>3. ConnsHold' /\ conn' \in [Requests -> BOOLEAN]
  <2>1. Close(Requests)
    BY DEF Ends
  <2>2. \A r \in Requests : pc'[r] \in {"idle", "sent"} => pc[r] \in {"idle", "sent"}
    BY <1>1
  <2> QED
    BY <2>1, <2>2, ConnsClosed
<1>4. Typed'
  BY <1>1, <1>2, <1>3 DEF Typed, world
<1>5. PendingHolds'
  BY <1>1 DEF PendingHolds, NoEntry
<1>6. TunnelsHold'
  <2>1. \A s \in Sandboxes : Tunnels(s)' = {}
    BY <1>1 DEF Tunnels, Of, Holding
  <2>2. Cardinality({}) = 0 /\ 0 \in 0 .. tunnelLimit
    BY FS_EmptySet, ConstantsOK
  <2> QED
    BY <1>1, <2>1, <2>2 DEF TunnelsHold
<1>7. StoppedIsCut'
  BY <1>1 DEF StoppedIsCut
<1> QED
  BY <1>3, <1>4, <1>5, <1>6, <1>7

\* Steps that touch no request: a start of the gateway, and the sweep's reading.
LEMMA QuietStep ==
    ASSUME IInv, SweepReads \/ New \/ UNCHANGED vars
    PROVE  IInv'
<1> USE DEF IInv
<1>1. UNCHANGED <<faults, prog, lease, requests, stats, mark, open>>
  BY DEF SweepReads, New, vars, gw, world, evidence
<1>2. gateway' \in {gateway, "up"} /\ early' \subseteq Sandboxes
  BY DEF SweepReads, New, vars, gw, world, Typed
<1>3. sweep' = {"idle"} \/ sweep' \subseteq Sandboxes
  BY DEF SweepReads, New, vars, Swept, Typed
<1>4. Typed'
  BY <1>1, <1>2, <1>3 DEF Typed, requests
<1>5. PendingHolds'
  BY <1>1, PendingKept DEF PendingHolds, requests
<1>6. ConnsHold' /\ TunnelsHold'
  BY <1>1, ConnsKept, TunnelsKept DEF requests
<1>7. StoppedIsCut'
  BY <1>1, <1>2 DEF StoppedIsCut, requests
<1> QED
  BY <1>4, <1>5, <1>6, <1>7

\* Every step of the gateway, its sandboxes and the broker keeps the invariant.
LEMMA StepHolds == IInv /\ [Next]_vars => IInv'
  BY SandboxStep, RequestStep, SweepStep, StopStep, EndsStep, QuietStep DEF Next

\* The invariant is what the gateway promises of its counters.
LEMMA InvariantSuffices == IInv => ConnectionsAreExact
<1> SUFFICES ASSUME IInv PROVE ConnectionsAreExact
  OBVIOUS
<1> USE DEF IInv
<1>1. ASSUME NEW s \in Sandboxes, ~stats[s].none PROVE stats[s].pending \in 0 .. PerSandbox
  <2>1. Cardinality(Waiting(s)) \in 0 .. PerSandbox
    BY SetsFinite DEF Waiting
  <2> QED
    BY <1>1, <2>1 DEF PendingHolds
<1>2. TypeOK
  BY <1>1 DEF Typed, TypeOK, ConnsHold, TunnelsHold
<1>3. ASSUME NEW s \in Sandboxes
      PROVE  {r \in Of(s) : counted[r] /\ pc[r] \in Pending} = Waiting(s)
  BY DEF PendingHolds, Waiting, Of
<1>4. PendingIsExact
  BY <1>3 DEF PendingIsExact, PendingHolds, Of
<1>5. SlotsAreExact
  BY DEF SlotsAreExact, ConnsHold, TunnelsHold, Conns, Tunnels
<1> QED
  BY <1>2, <1>4, <1>5 DEF ConnectionsAreExact

\* The gateway's counters are exact and within their limits in every reachable
\* state, whatever the sandboxes ask for and whenever it is stopped, killed or
\* swept (begin, count, abandon, collect, sweep; limitedListener and
\* limitedConn.Close; reserve and release), and a stopping gateway tracks no
\* tunnel it has not cut (track, stop).
THEOREM CountersAreExact == Spec => []ConnectionsAreExact
  BY InitHolds, StepHolds, InvariantSuffices, PTL DEF Spec

\* A repeated collection answers complete only where the first one did
\* (collect, collection.incomplete).
THEOREM RepeatsAreNoBetter == Spec => RepeatKeepsVerdict
<1> DEFINE Repeats == repeat \in [Sandboxes -> {"none", "complete", "incomplete"}]
<1>1. Init => Repeats
  BY DEF Init
<1>2. ASSUME [Next]_vars
      PROVE  UNCHANGED repeat \/ \E t \in Sandboxes : CollectAgain(t)
  BY <1>2
     DEF Next, vars, broker, Grant, Exits, Revoke, Collect, CollectFails, Send, Handler,
         Arrive, Begin, Refuse, Reserve, Unreached, Track, Opens, HelloFails, TunnelEnds,
         SweepReads, Sweeps, Stop, Ends, New
<1>3. ASSUME Repeats, [Next]_vars PROVE Repeats'
  BY <1>2, <1>3 DEF CollectAgain, Verdict
<1>4. ASSUME IInv, Repeats, [Next]_vars, NEW s \in Sandboxes,
             repeat'[s] = "complete", repeat[s] = "none"
      PROVE  mark[s] = "complete"
  <2>1. PICK t \in Sandboxes : CollectAgain(t)
    BY <1>2, <1>4
  <2>2. repeat' = [repeat EXCEPT ![t] = Verdict(Incomplete(t))] /\ mark[t] # "none"
    BY <2>1 DEF CollectAgain
  <2>3. t = s /\ ~Incomplete(s)
    BY <1>4, <2>2 DEF Verdict
  <2> QED
    BY <1>4, <2>2, <2>3 DEF Incomplete, IInv, Typed
<1>5. ASSUME IInv, Repeats, [Next]_vars
      PROVE  [\A s \in Sandboxes : repeat'[s] = "complete" /\ repeat[s] = "none" =>
                 mark[s] = "complete"]_vars
  BY <1>4, <1>5
<1> HIDE DEF Repeats
<1> QED
  BY <1>1, <1>3, <1>5, InitHolds, StepHolds, PTL DEF Spec, RepeatKeepsVerdict

=============================================================================
