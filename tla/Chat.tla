-------------------------------- MODULE Chat ---------------------------------
(* The chat surface (src/internal/chat): interactions of operators reach    *)
(* the engine through one adapter's socket, are told apart from their own   *)
(* redeliveries by a durable record, and mutate only after a one-shot       *)
(* confirmation by the operator who asked.  Runner.Stop ends the loops,     *)
(* joins the handlers and only then lets the store close.                   *)
EXTENDS ChatSocket, ChatDigest

CONSTANTS Operators,   \* the allowlist
          Strangers,   \* people who are not on it
          MaxPending   \* maxPending in chat.go (100)

VARIABLES
    made,       \* the interactions people made, in order
    stage,      \* of each delivery's handler
    seen,       \* chat_events, durable
    offered,    \* asking interactions whose answer carries buttons
    pending,    \* the parked action of each asking interaction
    ran,        \* times an interaction's own effect took place
    acted,      \* times a parked action ran
    withdrawn   \* parked actions their operator cancelled

handling == <<stage, seen, offered, pending, ran, acted, withdrawn>>
vars == <<provider, phase, socket, peer, copies, faults, made, handling, digest>>

Copies == 1 .. MaxCopies
People == Operators \cup Strangers

\* What people do: file a request, ask for a control or task action, press one
\* of the two buttons of an earlier question.
Interactions ==
    [kind : {"file", "ask"}, user : People, of : {0}]
        \cup [kind : {"confirm", "cancel"}, user : People, of : offered]

Make ==
    /\ phase = "running" /\ Len(made) < MaxEvents
    /\ \E i \in Interactions : made' = Append(made, i)
    /\ Dispatch(Len(made) + 1)
    /\ UNCHANGED <<handling, digest>>

\* The allowlist is the only authority.
Authorized(e) == made[e].user \in Operators

\* A delivery is read: Discord's needs its callback first, Slack's was
\* acknowledged by the read loop.
Deliver ==
    \E e \in 1 .. Len(made), h \in 0 .. MaxCopies :
        /\ SlackEvent(e, h) \/ DiscordEvent(e, h)
        /\ stage' = IF h = 0 THEN stage
                    ELSE [stage EXCEPT ![e][h] = IF provider = "discord" THEN "callback"
                                                 ELSE IF Authorized(e) THEN "mark" ELSE "done"]
        /\ UNCHANGED <<made, seen, offered, pending, ran, acted, withdrawn, digest>>

Go(e, c, to) == stage' = [stage EXCEPT ![e][c] = to]

\* A REST call fails: by a fault, or because its context ended with the
\* runner's.
CallFails == IF phase = "running" THEN Fault ELSE UNCHANGED faults

\* handleInteraction up to the callback.  A stranger, and an operator who
\* presses another operator's button (pendingOwnedByOther, which drops an
\* expired one), are refused privately; a callback that is refused or whose
\* answer is lost ends the matter.
PressesOthers(e) ==
    /\ made[e].of # 0 /\ pending[made[e].of] = "live"
    /\ made[made[e].of].user # made[e].user

DropExpired(t) == IF t # 0 /\ pending[t] = "expired" THEN [pending EXCEPT ![t] = "none"] ELSE pending

Callback(e, c) ==
    /\ stage[e][c] = "callback"
    /\ \/ /\ ~Authorized(e) \/ PressesOthers(e)
          /\ Go(e, c, "done") /\ UNCHANGED <<pending, faults>>
       \/ /\ Authorized(e) /\ ~PressesOthers(e)
          /\ pending' = DropExpired(made[e].of)
          /\ \/ Go(e, c, "mark") /\ UNCHANGED faults
             \/ Go(e, c, "done") /\ CallFails
    /\ UNCHANGED <<seen, offered, ran, acted, withdrawn>>

\* Handle: MarkChatEventSeen in one transaction, before anything else; a
\* record that cannot be made refuses the interaction.
Mark(e, c) ==
    /\ stage[e][c] = "mark"
    /\ \/ /\ e \in seen /\ Go(e, c, "done") /\ UNCHANGED <<seen, faults>>
       \/ /\ e \notin seen /\ seen' = seen \cup {e} /\ Go(e, c, "run") /\ UNCHANGED faults
       \/ /\ Fault /\ Go(e, c, "done") /\ UNCHANGED seen
    /\ UNCHANGED <<offered, pending, ran, acted, withdrawn>>

\* handleCommand: createRequest acts at once, the confirms park.
File(e, c) ==
    /\ stage[e][c] = "run" /\ made[e].kind = "file"
    /\ ran' = [ran EXCEPT ![e] = @ + 1] /\ Go(e, c, "done")
    /\ UNCHANGED <<seen, offered, pending, acted, withdrawn, faults>>

\* confirm: expired actions make room, a full table refuses.
Confirm(e, c) ==
    /\ stage[e][c] = "run" /\ made[e].kind = "ask"
    /\ LET kept == [t \in Events |-> IF pending[t] = "expired" THEN "none" ELSE pending[t]] IN
       IF Cardinality({t \in Events : kept[t] # "none"}) < MaxPending
       THEN pending' = [kept EXCEPT ![e] = "live"] /\ offered' = offered \cup {e}
       ELSE pending' = kept /\ UNCHANGED offered
    /\ Go(e, c, "done")
    /\ UNCHANGED <<seen, ran, acted, withdrawn, faults>>

\* Mutation: a confirmation that is looked up and not consumed.
Press_KeepsToken(e, c) ==
    /\ stage[e][c] = "run" /\ made[e].kind \in {"confirm", "cancel"}
    /\ LET t == made[e].of
           mine == pending[t] = "live" /\ made[t].user = made[e].user IN
       /\ Go(e, c, IF mine /\ made[e].kind = "confirm" THEN "act" ELSE "done")
       /\ withdrawn' = IF mine /\ made[e].kind = "cancel" THEN withdrawn \cup {t} ELSE withdrawn
    /\ UNCHANGED <<seen, offered, pending, ran, acted, faults>>

\* handleAction, takePending: the token is consumed by its operator only, and
\* what it parked runs outside the lock.
Press(e, c) ==
    /\ stage[e][c] = "run" /\ made[e].kind \in {"confirm", "cancel"}
    /\ LET t == made[e].of
           mine == pending[t] = "live" /\ made[t].user = made[e].user IN
       /\ pending' = IF mine THEN [pending EXCEPT ![t] = "none"] ELSE DropExpired(t)
       /\ Go(e, c, IF mine /\ made[e].kind = "confirm" THEN "act" ELSE "done")
       /\ withdrawn' = IF mine /\ made[e].kind = "cancel" THEN withdrawn \cup {t} ELSE withdrawn
    /\ UNCHANGED <<seen, offered, ran, acted, faults>>

\* The parked action: ControlAction, TaskAction or RequestAction.
Act(e, c) ==
    /\ stage[e][c] = "act"
    /\ acted' = [acted EXCEPT ![made[e].of] = @ + 1] /\ Go(e, c, "done")
    /\ UNCHANGED <<seen, offered, pending, ran, withdrawn, faults>>

HandlerStep ==
    /\ \E e \in 1 .. Len(made), c \in Copies :
          \/ Callback(e, c) \/ Mark(e, c) \/ File(e, c) \/ Confirm(e, c) \/ Press(e, c) \/ Act(e, c)
    /\ UNCHANGED <<provider, phase, socket, peer, copies, made, digest>>

\* pendingTTL passes for a parked action.
Expire ==
    /\ \E t \in Events : pending[t] = "live" /\ pending' = [pending EXCEPT ![t] = "expired"]
    /\ UNCHANGED <<provider, phase, socket, peer, copies, faults, made, stage, seen, offered, ran, acted,
                   withdrawn, digest>>

SocketStep ==
    /\ \/ DialSlack \/ DialDiscord \/ DialFails \/ SlackRead \/ DiscordRead \/ Heartbeat \/ Liveness
       \/ BeatAnswered \/ HelloTimeout \/ Break \/ ProviderEnds \/ LoopEnds
    /\ UNCHANGED <<made, handling, digest>>

DigestStep ==
    /\ \/ phase = "running" /\ (DigestDue \/ DigestPost \/ DigestWait)
       \/ phase = "stopping" /\ DigestStops
    /\ UNCHANGED <<provider, phase, socket, peer, copies, faults, made, handling>>

Active == {h \in Events \X Copies : stage[h[1]][h[2]] \notin {"none", "done"}}

\* Runner.Stop: the context ends; the loops are waited for, then the handlers;
\* then the process closes the store.
Stop ==
    /\ \/ phase = "running" /\ phase' = "stopping"
       \/ phase = "stopping" /\ link = "down" /\ spot = NoSpot /\ phase' = "joined"
       \/ phase = "joined" /\ Active = {} /\ phase' = "closed"
    /\ UNCHANGED <<provider, socket, peer, copies, faults, made, handling, digest>>

\* The process dies and starts again: only the record of events is left.
Restart ==
    /\ phase = "running" /\ Fault
    /\ Disconnect /\ ClearSession
    /\ stage' = [e \in Events |-> [c \in Copies |-> IF stage[e][c] = "none" THEN "none" ELSE "done"]]
    /\ pending' = [e \in Events |-> "none"]
    /\ spot' = NoSpot /\ pausing' = FALSE
    /\ UNCHANGED <<provider, phase, peer, copies, made, seen, offered, ran, acted, withdrawn, limited, posted,
                   skipped, digests>>

Next == Make \/ Deliver \/ HandlerStep \/ Expire \/ SocketStep \/ DigestStep \/ Stop \/ Restart

\* No connection yet, or none any more: of the earlier interactions those in
\* parked were carried by one and wait for a button, the others were lost.
InitWith(sent, earlier, parked, failed) ==
    /\ provider \in {"slack", "discord"} /\ phase = "running"
    /\ link = "down" /\ half = FALSE /\ greeted = FALSE /\ attached = FALSE /\ wire = <<>>
    /\ beat = FALSE /\ ackDue = FALSE /\ session = 0 /\ seq = 0
    /\ gsession = 0 /\ gcount = Cardinality(parked) /\ log = <<>> /\ unacked = {}
    /\ copies = [e \in Events |-> IF e \in parked THEN 1 ELSE 0] /\ faults = failed
    /\ made = earlier
    /\ stage = [e \in Events |-> [c \in Copies |-> IF e \in parked /\ c = 1 THEN "done" ELSE "none"]]
    /\ seen = parked /\ offered = parked
    /\ pending = [e \in Events |-> IF e \in parked THEN "live" ELSE "none"]
    /\ ran = [e \in Events |-> 0] /\ acted = [e \in Events |-> 0] /\ withdrawn = {}
    /\ DigestInit(sent)

Init == InitWith(FALSE, <<>>, {}, 0)

\* The timers that watch a silent connection.
Silence == half /\ (Heartbeat \/ Liveness \/ HelloTimeout)

\* Fairness: the goroutines run and timers fire; the provider answers what it
\* was sent on a connection that holds.
Fairness ==
    /\ WF_vars(/\ DialSlack \/ DialDiscord \/ SlackRead \/ DiscordRead \/ LoopEnds \/ Silence
               /\ UNCHANGED <<made, handling, digest>>)
    /\ WF_vars(Deliver)
    /\ WF_vars(HandlerStep)
    /\ WF_vars(DigestStep)
    /\ WF_vars(Stop /\ phase # "running")

Spec == Init /\ [][Next]_vars /\ Fairness

-----------------------------------------------------------------------------
TypeOK ==
    /\ provider \in {"slack", "discord"} /\ phase \in {"running", "stopping", "joined", "closed"}
    /\ link \in {"down", "open"} /\ {half, greeted, attached, beat, ackDue} \subseteq BOOLEAN
    /\ session \in 0 .. MaxSessions /\ gsession \in 0 .. MaxSessions
    /\ \A e \in Events :
          /\ pending[e] \in {"none", "live", "expired"}
          /\ \A c \in Copies : stage[e][c] \in {"none", "callback", "mark", "run", "act", "done"}

\* However often a provider delivers an interaction, over lost
\* acknowledgements, reconnects and restarts, its command takes effect at most
\* once (MarkChatEventSeen), and a stranger's never does.
ExecutedOnce ==
    \A e \in Events :
        /\ ran[e] <= 1 /\ acted[e] <= 1
        /\ ran[e] + acted[e] > 0 => Authorized(e)

\* A parked action runs only for the operator who asked, through a button
\* press of theirs that was recorded, and not once they cancelled it; there
\* are never more parked actions than the table holds (confirm, takePending).
ActedIsConfirmed ==
    /\ \A t \in Events : acted[t] > 0 =>
          /\ t \notin withdrawn
          /\ \E e \in seen : made[e].kind = "confirm" /\ made[e].of = t /\ made[e].user = made[t].user
    /\ Cardinality({t \in Events : pending[t] # "none"}) <= MaxPending

\* When the store may close no handler is left that could touch it, and no
\* loop that could start one (Runner.Stop, goHandle).
ClosedIsQuiet == phase = "closed" => Active = {} /\ link = "down" /\ spot = NoSpot

\* Resuming skips nothing: what the gateway dispatched up to the sequence
\* number the adapter would resume from has reached a handler.
ResumeIsExact ==
    provider = "discord" /\ session # 0 /\ session = gsession =>
        /\ seq <= Len(log)
        /\ \A i \in 1 .. seq : copies[log[i]] > 0

ChatIsTrue == TypeOK /\ ExecutedOnce /\ ActedIsConfirmed /\ ClosedIsQuiet /\ ResumeIsExact

\* Each channel gets the pages in order and none twice; a page is passed over
\* only when the provider refused it or limited every attempt; nothing is
\* posted while the channel's rate-limit window is known to be open
\* (deliverDigestMessages, postDigestPage).
DigestIsWhole ==
    /\ \A c \in 1 .. Channels :
          /\ \A i, j \in 1 .. Len(posted[c]) : i < j => posted[c][i] < posted[c][j]
          /\ spot.channel = c /\ c \in limited => pausing
    /\ \A s \in skipped : s[3] = "limited" => s[4] = MaxPageTries
    /\ spot.channel # 0 => \A p \in 1 .. spot.page - 1 :
          \/ \E i \in DOMAIN posted[spot.channel] : posted[spot.channel][i] = p
          \/ \E s \in skipped : s[1] = spot.channel /\ s[2] = p

\* A half-open connection is noticed; a lost connection or a discarded session
\* is replaced; a stop completes; a digest ends.
ChatRecovers ==
    /\ half ~> ~half
    /\ phase = "running" ~> (attached \/ phase # "running")
    /\ phase = "stopping" ~> phase = "closed"
    /\ spot # NoSpot ~> spot = NoSpot
=============================================================================
