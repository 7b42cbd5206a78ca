------------------------------- MODULE Outbox -------------------------------
(***************************************************************************)
(* The durable outbox of attention events: SQLite triggers add one row per *)
(* enabled destination in the transaction that saves a record              *)
(* (store/schema.sql), one worker per destination claims, sends and        *)
(* settles rows (store/notifications.go, notifications/notifications.go    *)
(* for the webhook, chat/notify.go for Slack and Discord), and each start  *)
(* of the process applies the configured destinations.                     *)
(*                                                                         *)
(* A store transaction is one action; a send and the write of its outcome  *)
(* are two.  Clock values are reduced to what the code compares: a row is  *)
(* due, is older than a day, and a destination cools down, or not.         *)
(***************************************************************************)
EXTENDS Naturals, FiniteSets, SequencesExt

CONSTANTS None,
          Webhooks,      \* webhook URLs the operator may configure
          Chats,         \* alert channels the operator may configure
          MaxEvents,     \* bound on attention events
          MaxPending,    \* the cap on pending rows (1,000 in the schema)
          MaxAttempts,   \* maxAttempts (5 in the store)
          Retain,        \* settled rows that are kept
          MaxFaults      \* bound on stops, crashes and refused writes

ASSUME OutboxBounds ==
    /\ MaxPending \in Nat \ {0}
    /\ MaxAttempts \in Nat \ {0}
    /\ {MaxEvents, Retain, MaxFaults} \subseteq Nat
    /\ None \notin Webhooks \cup Chats

VARIABLES
    phase,     \* of the process: "down", "webhook", "prepared", "up", "stopping"
    webhook,   \* the configured webhook, or None
    chats,     \* the configured alert channels
    table,     \* notification_destinations: absent, disabled or enabled
    cooling,   \* destinations whose saved cooldown is not over
    row,       \* notification_outbox, in the order of seq
    worker,    \* each destination's worker
    mirror,    \* channels whose worker remembers a cooldown
    asked,     \* destinations whose receiver asked for a pause that still runs
    told,      \* those of asked whose pause was written
    events,    \* attention events so far
    faults

vars == <<phase, webhook, chats, table, cooling, row, worker, mirror, asked,
          told, events, faults>>

process == <<phase, webhook, chats>>
pauses == <<cooling, mirror, asked, told>>

Destinations == Webhooks \cup Chats

Settled == {"delivered", "failed", "cancelled", "gone"}

Row == [dest : Destinations, status : {"pending"} \cup Settled,
        attempts : 0..MaxAttempts,
        due : BOOLEAN,      \* next_attempt_at has come
        old : BOOLEAN,      \* created more than a day ago
        held : BOOLEAN,     \* next_attempt_at waits for a provider's deadline
        acked : BOOLEAN]    \* the receiver answered an attempt with success

Answers == {"ok", "later", "retry", "refused", "lost", "invalid"}

Idle == [at |-> "idle", seq |-> 0, answer |-> None]

TypeOK ==
    /\ phase \in {"down", "webhook", "prepared", "up", "stopping"}
    /\ webhook \in Webhooks \cup {None}
    /\ chats \subseteq Chats
    /\ table \in [Destinations -> {"absent", "disabled", "enabled"}]
    /\ row \in Seq(Row)
    /\ worker \in [Destinations ->
                     [at : {"idle", "sending", "answered"},
                      seq : Nat, answer : Answers \cup {None}]]
    /\ mirror \subseteq Chats
    /\ {cooling, asked, told} \subseteq SUBSET Destinations
    /\ events \in 0..MaxEvents
    /\ faults \in 0..MaxFaults

Init ==
    /\ phase = "down"
    /\ webhook = None
    /\ chats = {}
    /\ table = [d \in Destinations |-> "absent"]
    /\ cooling = {}
    /\ row = <<>>
    /\ worker = [d \in Destinations |-> Idle]
    /\ mirror = {}
    /\ asked = {}
    /\ told = {}
    /\ events = 0
    /\ faults = 0

Fault == faults < MaxFaults /\ faults' = faults + 1

Pending(rows) == {i \in DOMAIN rows : rows[i].status = "pending"}

\* A settled row: its clock no longer matters.
Settle(r, status) == [r EXCEPT !.status = status, !.due = FALSE, !.old = FALSE,
                               !.held = FALSE, !.attempts = 0]

SettleAll(rows, which, status) ==
    [i \in DOMAIN rows |-> IF i \in which THEN Settle(rows[i], status) ELSE rows[i]]

(***************************************************************************)
(* Start of the process                                                    *)
(***************************************************************************)

\* SetNotifyPolicy on the table: superseded webhooks stay as disabled rows and
\* keep their cooldown.
Policy(w, t, cool) ==
    [table |-> [d \in Destinations |->
                  IF d = w THEN "enabled"
                  ELSE IF d \in Webhooks /\ t[d] # "absent" THEN "disabled" ELSE t[d]],
     cooling |-> cool]

\* A rotation that leaves the old URL's rows pending.
Superseded_None(w) == {}

\* The rows SetNotifyPolicy cancels: those of other webhooks.
Superseded(w) ==
    {i \in Pending(row) : row[i].dest \in Webhooks /\ row[i].dest # w
                          /\ table[row[i].dest] # "absent"}

SetNotifyPolicy(w) ==
    /\ row' = SettleAll(row, Superseded(w), "cancelled")
    /\ table' = Policy(w, table, cooling).table
    /\ cooling' = Policy(w, table, cooling).cooling

\* Configure, the webhook's transaction: the operator may have changed the
\* environment since the last start.
ConfigureWebhook ==
    /\ phase = "down"
    /\ \E w \in Webhooks \cup {None} :
          /\ webhook' = w
          /\ SetNotifyPolicy(w)
    /\ phase' = "webhook"
    /\ UNCHANGED <<chats, worker, mirror, asked, told, events, faults>>

\* The channels that SetChatDestinations removes.
Removed(cs) == {c \in Chats \ cs : table[c] # "absent"}

\* Configure, the channels' transaction (SetChatDestinations): a removed channel
\* is deleted with its cooldown, and its pending rows are cancelled.
ConfigureChats ==
    /\ phase = "webhook"
    /\ \E cs \in SUBSET Chats :
          /\ chats' = cs
          /\ row' = SettleAll(row, {i \in Pending(row) : row[i].dest \in Removed(cs)},
                              "cancelled")
          /\ table' = [d \in Destinations |->
                         IF d \in cs THEN "enabled"
                         ELSE IF d \in Removed(cs) THEN "absent" ELSE table[d]]
          /\ cooling' = cooling \ Removed(cs)
    /\ phase' = "prepared"
    /\ UNCHANGED <<webhook, worker, mirror, asked, told, events, faults>>

\* Start reapplies both once recovery is done, and starts the workers.
StartWorkers ==
    /\ phase = "prepared"
    /\ phase' = "up"
    /\ SetNotifyPolicy(webhook)
    /\ UNCHANGED <<webhook, chats, worker, mirror, asked, told, events, faults>>

(***************************************************************************)
(* Attention events                                                        *)
(***************************************************************************)

Enabled == {d \in Destinations : table[d] = "enabled"}

\* An overflow rule that spares rows a worker has claimed.
Overflow_Unclaimed(rows) ==
    {i \in Pending(rows) : rows[i].attempts = 0
        /\ Cardinality({j \in Pending(rows) : j > i}) >= MaxPending}

\* The oldest pending rows beyond the cap, of whatever destination.
Overflow(rows) ==
    {i \in Pending(rows) : Cardinality({j \in Pending(rows) : j > i}) >= MaxPending}

NewRow(d) == [dest |-> d, status |-> "pending", attempts |-> 0, due |-> TRUE,
              old |-> FALSE, held |-> FALSE, acked |-> FALSE]

\* A trigger: one row per enabled destination, then the cap.
Event ==
    /\ phase \in {"prepared", "up", "stopping"}
    /\ events < MaxEvents
    /\ Enabled # {}
    /\ events' = events + 1
    /\ \E order \in SetToSeqs(Enabled) :
          LET rows == row \o [k \in DOMAIN order |-> NewRow(order[k])]
          IN  row' = SettleAll(rows, Overflow(rows), "failed")
    /\ UNCHANGED <<process, table, worker, pauses, faults>>

(***************************************************************************)
(* A destination's worker                                                  *)
(***************************************************************************)

\* ClaimDelivery fails what the claiming destination can no longer send: due
\* rows that are too old, or that were claimed as often as is allowed.
Unsendable(d) ==
    {i \in Pending(row) : row[i].dest = d /\ row[i].due
                          /\ (row[i].old \/ row[i].attempts >= MaxAttempts)}

Claimable(d, rows) ==
    {i \in Pending(rows) : rows[i].dest = d /\ rows[i].due
                           /\ table[d] = "enabled" /\ d \notin cooling}

\* Settled rows beyond the newest Retain are deleted.
Pruned(rows) ==
    LET kept == {i \in DOMAIN rows : rows[i].status \notin {"pending", "gone"}}
    IN  SettleAll(rows, {i \in kept : Cardinality({j \in kept : j > i}) >= Retain},
                  "gone")

\* The configured destinations have a worker.
Served(d) == d = webhook \/ d \in chats

\* ClaimDelivery: clean up, take the oldest due row, count the attempt and set
\* the next one before anything is sent.
Claim(d) ==
    /\ phase = "up"
    /\ Served(d)
    /\ worker[d].at = "idle"
    /\ d \notin mirror
    /\ LET rows == SettleAll(row, Unsendable(d), "failed")
           ready == Claimable(d, rows)
       IN  IF ready = {}
             THEN row' = Pruned(rows) /\ UNCHANGED worker
             ELSE LET i == CHOOSE k \in ready : \A l \in ready : k <= l
                  IN  /\ row' = Pruned([rows EXCEPT ![i].attempts = @ + 1,
                                                    ![i].due = FALSE,
                                                    ![i].held = FALSE])
                      /\ worker' = [worker EXCEPT ![d] =
                                      [at |-> "sending", seq |-> i, answer |-> None]]
    /\ UNCHANGED <<process, table, pauses, events, faults>>

\* The request ends.  A lost one may have reached the receiver; only a webhook's
\* payload is checked before it is sent.
Send(d) ==
    /\ phase \in {"up", "stopping"}
    /\ worker[d].at = "sending"
    /\ \E answer \in Answers :
          /\ answer = "invalid" => d \in Webhooks
          /\ worker' = [worker EXCEPT ![d].at = "answered", ![d].answer = answer]
          /\ row' = [row EXCEPT ![worker[d].seq].acked =
                       @ \/ (answer = "ok" /\ row[worker[d].seq].status # "gone")]
          /\ asked' = IF answer = "later" THEN asked \cup {d} ELSE asked
    /\ UNCHANGED <<process, table, cooling, mirror, told, events, faults>>

\* Outcomes a worker leaves unrecorded once it is stopping: an interrupted
\* webhook request, or any failed post to a channel.
Unrecorded(d, answer) ==
    /\ phase = "stopping"
    /\ answer \in IF d \in Webhooks THEN {"lost", "invalid"} ELSE Answers \ {"ok"}

\* A late outcome that overwrites whatever became of the row.
StillPending_Any(i) == row[i].status # "gone"

\* MarkDelivered and MarkFailedAt touch pending rows only.
StillPending(i) == row[i].status = "pending"

Outcome(r, answer) ==
    IF answer = "ok" THEN Settle(r, "delivered")
    ELSE IF answer \in {"later", "retry", "lost"} /\ r.attempts < MaxAttempts
      THEN [r EXCEPT !.held = @ \/ answer = "later"]
    ELSE Settle(r, "failed")

\* A channel's worker remembers a provider's deadline, whatever the store says.
Mirrored(d, answer) ==
    IF answer = "later" /\ d \in Chats /\ ~Unrecorded(d, answer)
      THEN mirror \cup {d} ELSE mirror

\* The worker records the answer.  A provider's deadline also cools the
\* destination down, in the same transaction, when the row was still pending.
Record(d) ==
    /\ phase \in {"up", "stopping"}
    /\ worker[d].at = "answered"
    /\ LET i == worker[d].seq
           answer == worker[d].answer
       IN  \E accepted \in BOOLEAN :
              /\ IF accepted THEN UNCHANGED faults ELSE Fault
              /\ IF accepted /\ StillPending(i) /\ ~Unrecorded(d, answer)
                   THEN /\ row' = [row EXCEPT ![i] = Outcome(@, answer)]
                        /\ cooling' = IF answer = "later" THEN cooling \cup {d} ELSE cooling
                        /\ told' = IF answer = "later" THEN told \cup {d} ELSE told
                   ELSE UNCHANGED <<row, cooling, told>>
              /\ mirror' = Mirrored(d, answer)
    /\ worker' = [worker EXCEPT ![d] = Idle]
    /\ UNCHANGED <<process, table, asked, events>>

(***************************************************************************)
(* Time, and the end of the process                                        *)
(***************************************************************************)

Due(i) ==
    /\ i \in Pending(row)
    /\ ~row[i].due
    /\ row[i].held => row[i].dest \notin cooling
    /\ row' = [row EXCEPT ![i].due = TRUE]
    /\ UNCHANGED <<process, table, worker, pauses, events, faults>>

Ages(i) ==
    /\ i \in Pending(row)
    /\ ~row[i].old
    /\ row' = [row EXCEPT ![i].old = TRUE]
    /\ UNCHANGED <<process, table, worker, pauses, events, faults>>

PauseEnds(d) ==
    /\ d \in cooling \cup asked \cup mirror
    /\ cooling' = cooling \ {d}
    /\ mirror' = mirror \ {d}
    /\ asked' = asked \ {d}
    /\ told' = told \ {d}
    /\ UNCHANGED <<process, table, row, worker, events, faults>>

Stop ==
    /\ phase = "up"
    /\ Fault
    /\ phase' = "stopping"
    /\ UNCHANGED <<webhook, chats, table, row, worker, pauses, events>>

\* The process ends: in a stop when the workers are done, or by a crash.
Ends ==
    /\ phase # "down"
    /\ IF phase = "stopping" /\ \A d \in Destinations : worker[d].at = "idle"
         THEN UNCHANGED faults ELSE Fault
    /\ phase' = "down"
    /\ worker' = [d \in Destinations |-> Idle]
    /\ mirror' = {}
    /\ UNCHANGED <<webhook, chats, table, cooling, row, asked, told, events>>

Next ==
    \/ ConfigureWebhook \/ ConfigureChats \/ StartWorkers
    \/ Event
    \/ \E d \in Destinations : Claim(d) \/ Send(d) \/ Record(d) \/ PauseEnds(d)
    \/ \E i \in DOMAIN row : Due(i) \/ Ages(i)
    \/ Stop \/ Ends

Spec == Init /\ [][Next]_vars

\* The process is restarted, every request has a time limit, a worker tries
\* once a second, and time passes.
FairSpec ==
    /\ Spec
    /\ WF_vars(ConfigureWebhook)
    /\ WF_vars(ConfigureChats)
    /\ WF_vars(StartWorkers)
    /\ WF_vars(phase = "stopping" /\ Ends)
    /\ \A d \in Destinations :
          /\ WF_vars(Claim(d))
          /\ WF_vars(Send(d))
          /\ WF_vars(Record(d))
          /\ WF_vars(PauseEnds(d))
    /\ \A i \in 1..(MaxEvents * Cardinality(Destinations)) :
          WF_vars(i \in DOMAIN row /\ (Due(i) \/ Ages(i)))

(***************************************************************************)
(* Properties                                                              *)
(***************************************************************************)

\* A row is recorded as delivered only after its receiver acknowledged it
\* (deliverNext), through retries, crashes and overflow.
DeliveredWasAcknowledged ==
    \A i \in DOMAIN row : row[i].status = "delivered" => row[i].acked

\* At most the cap's number of rows wait at any time, all destinations together
\* (docs: "1,000 pending cap across every destination").
PendingIsCapped == Cardinality(Pending(row)) <= MaxPending

\* Once the workers run, every pending row belongs to an enabled destination
\* with a worker: no rotation, removal or half-done configuration strands one.
PendingIsServed ==
    phase = "up" =>
       \A i \in Pending(row) : Served(row[i].dest) /\ table[row[i].dest] = "enabled"

\* A settled row is never sent again nor given another outcome, whatever a
\* worker still holds of it (MarkDelivered, MarkFailedAt).
SettledIsFinal ==
    [][\A i \in DOMAIN row : row[i].status \in Settled =>
          row'[i].status \in {row[i].status, "gone"}
          /\ \A d \in Destinations :
                worker'[d].at = "sending" /\ worker[d].at = "idle" => worker'[d].seq # i]_vars

\* Configuring destinations cancels only rows of destinations that are no
\* longer configured ("Changing or removing an alert channel cancels only that
\* destination's pending alerts").
CancelIsScoped ==
    [][\A i \in DOMAIN row :
          row[i].status = "pending" /\ row'[i].status = "cancelled" =>
             row[i].dest # webhook' /\ (phase' = "prepared" => row[i].dest \notin chats')
             /\ (row[i].dest \in Chats => phase' = "prepared")]_vars

Claims(d) == worker[d].at = "idle" /\ worker'[d].at = "sending"

\* A pause the webhook's receiver asked for and that was written holds until
\* its deadline, through restarts and changes of the configuration.
PauseHolds == [][\A d \in Webhooks : Claims(d) => d \notin told]_vars

\* docs/deployment.md: "Retryable responses with a valid Retry-After header
\* pause the destination until that deadline".
RetryAfterPauses == [][\A d \in Webhooks : Claims(d) => d \notin asked]_vars

\* Every row is settled in the end: delivered, failed or cancelled.
RowSettles ==
    \A i \in 1..(MaxEvents * Cardinality(Destinations)) :
       (i \in DOMAIN row /\ row[i].status = "pending")
          ~> (i \in DOMAIN row /\ row[i].status \in Settled)

\* What the queue says is true: delivered rows were acknowledged, no more than
\* the limit is pending, and a pending row has a worker that will send it.
QueueIsTrue ==
    /\ TypeOK
    /\ DeliveredWasAcknowledged
    /\ PendingIsCapped
    /\ PendingIsServed

\* A settled row stays settled, a change of configuration cancels only the rows
\* of the destinations it removes, and a saved pause outlives it.
SettledKept == SettledIsFinal /\ CancelIsScoped /\ PauseHolds

=============================================================================
