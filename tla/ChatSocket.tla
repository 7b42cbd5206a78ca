----------------------------- MODULE ChatSocket ------------------------------
(* The outbound connection of a chat adapter: Discord's gateway session     *)
(* with its heartbeats, resumes and discarded sessions                      *)
(* (src/internal/chat/discord.go), or Slack's Socket Mode with its          *)
(* acknowledgements and pings (src/internal/chat/slack.go), over one        *)
(* WebSocket (src/internal/chat/wsconn.go).  The provider is external and   *)
(* modelled from what the adapters expect of it.                            *)
EXTENDS Naturals, Sequences, FiniteSets, SequencesExt

CONSTANTS MaxEvents,    \* bound: interactions people make
          MaxCopies,    \* bound: deliveries of one interaction
          MaxSessions,  \* bound: Discord gateway sessions
          MaxFaults     \* bound: failures

VARIABLES
    provider,   \* "slack" or "discord"
    phase,      \* of the chat runner: running, stopping, joined, closed
    link,       \* our end of the socket, "down" or "open"
    half,       \* the peer is gone and our end does not know
    greeted,    \* Hello was read: heartbeats run
    attached,   \* the provider delivers events to this connection
    wire,       \* what the provider sent and the read loop has not read
    beat,       \* hbAcked, or activity since the last ping
    ackDue,     \* the answer to a heartbeat or ping is under way
    session,    \* the session Discord's READY named, 0 for none
    seq,        \* the last sequence number read in it
    gsession,   \* the session the gateway holds, 0 when it discarded it
    gcount,     \* sessions it made
    log,        \* the events it dispatched in that session
    unacked,    \* Slack: interactions without an acknowledgement
    copies,     \* deliveries of each interaction that reached a handler
    faults

peer == <<gsession, gcount, log, unacked>>
socket == <<link, half, greeted, attached, wire, beat, ackDue, session, seq>>

Events == 1 .. MaxEvents
Fault == faults < MaxFaults /\ faults' = faults + 1

Message(t, e, n) == [t |-> t, e |-> e, n |-> n]
Control(t) == Message(t, 0, 0)

\* The connection ends; Discord's session outlives it.
Disconnect ==
    /\ link' = "down" /\ half' = FALSE /\ greeted' = FALSE /\ attached' = FALSE
    /\ wire' = <<>> /\ ackDue' = FALSE /\ beat' = FALSE

ClearSession == session' = 0 /\ seq' = 0
KeepSession == UNCHANGED <<session, seq>>

\* The provider dispatches an interaction: to the connection it has, if any,
\* and to its memory of what may have to be sent again.
Dispatch(e) ==
    /\ IF provider = "slack"
       THEN /\ unacked' = unacked \cup {e} /\ UNCHANGED log
            /\ wire' = IF attached /\ ~half THEN Append(wire, Message("event", e, 0)) ELSE wire
       ELSE /\ log' = IF gsession = 0 THEN log ELSE Append(log, e)
            /\ wire' = IF attached /\ ~half THEN Append(wire, Message("event", e, Len(log) + 1)) ELSE wire
            /\ UNCHANGED unacked
    /\ UNCHANGED <<provider, phase, link, half, greeted, attached, beat, ackDue, session, seq, gsession,
                   gcount, copies, faults>>

\* wsDial: the socket is up.
Opened ==
    /\ phase = "running" /\ link = "down"
    /\ link' = "open" /\ beat' = TRUE /\ ackDue' = FALSE /\ half' = FALSE
    /\ UNCHANGED <<provider, phase, session, seq, peer, copies, faults>>

\* Slack's run: apps.connections.open names a fresh address.  Slack sends
\* again what was not acknowledged.
DialSlack ==
    /\ provider = "slack" /\ Opened
    /\ greeted' = TRUE /\ attached' = TRUE
    /\ LET again == SetToSortSeq({e \in unacked : copies[e] < MaxCopies}, <) IN
       wire' = [i \in DOMAIN again |-> Message("event", again[i], 0)]

\* Discord's run: the resume URL when there is a session, gatewayURL if not.
DialDiscord ==
    /\ provider = "discord" /\ Opened
    /\ greeted' = FALSE /\ attached' = FALSE /\ wire' = <<Control("hello")>>

\* A failure is retried after a pause that grows.
DialFails ==
    /\ phase = "running" /\ link = "down" /\ Fault
    /\ UNCHANGED <<provider, phase, socket, peer, copies>>

\* What the gateway does with Identify and with Resume: a new session, the
\* events missed, or a refusal, which may come as opcode 9 or as a close code.
Identified ==
    IF session = 0
    THEN /\ gcount < MaxSessions
         /\ gcount' = gcount + 1 /\ gsession' = gcount + 1 /\ log' = <<>>
         /\ wire' = Append(Tail(wire), Message("ready", 0, gcount + 1)) /\ attached' = TRUE
    ELSE /\ \/ /\ session = gsession
               /\ wire' = [i \in 1 .. Len(log) - seq |-> Message("event", log[seq + i], seq + i)]
               /\ attached' = TRUE
            \/ /\ session # gsession /\ attached' = FALSE
               /\ \E refusal \in {"invalid", "close"} : wire' = Append(Tail(wire), Control(refusal))
         /\ UNCHANGED <<gsession, gcount, log>>

\* Slack's read loop on everything but interactions: a request to reconnect.
SlackRead ==
    /\ provider = "slack" /\ link = "open" /\ ~half /\ wire # <<>> /\ Head(wire).t = "reconnect"
    /\ Disconnect /\ KeepSession
    /\ UNCHANGED <<provider, phase, peer, copies, faults>>

\* Discord's: Hello, READY, a request to reconnect, and what ends a session.
DiscordRead ==
    /\ provider = "discord" /\ link = "open" /\ ~half /\ wire # <<>> /\ Head(wire).t # "event"
    /\ LET m == Head(wire) IN
       CASE m.t = "hello" ->
              greeted' = TRUE /\ beat' = TRUE /\ Identified /\ KeepSession /\ UNCHANGED <<link, half, ackDue>>
         [] m.t = "ready" ->
              /\ session' = m.n /\ seq' = 0 /\ wire' = Tail(wire)
              /\ UNCHANGED <<link, half, greeted, attached, beat, ackDue, gsession, gcount, log>>
         [] m.t = "reconnect" -> Disconnect /\ KeepSession /\ UNCHANGED <<gsession, gcount, log>>
         [] OTHER -> Disconnect /\ ClearSession /\ UNCHANGED <<gsession, gcount, log>>
    /\ UNCHANGED <<provider, phase, unacked, copies, faults>>

\* An interaction is read; h is the delivery handed to a handler, 0 when there
\* is none.
ReadEvent(e, h) ==
    /\ link = "open" /\ ~half /\ wire # <<>> /\ Head(wire).t = "event" /\ Head(wire).e = e
    /\ h \in {0, copies[e] + 1} /\ h <= MaxCopies
    /\ copies' = IF h = 0 THEN copies ELSE [copies EXCEPT ![e] = h]
    /\ UNCHANGED <<provider, phase, gsession, gcount, log>>

\* handleEnvelope acknowledges first.  An acknowledgement that cannot be
\* written ends the connection; one that is lost is not noticed.
SlackEvent(e, h) ==
    /\ provider = "slack" /\ ReadEvent(e, h)
    /\ \/ /\ h > 0 /\ wire' = Tail(wire) /\ beat' = TRUE
          /\ \/ unacked' = unacked \ {e} /\ UNCHANGED faults
             \/ Fault /\ UNCHANGED unacked
          /\ UNCHANGED <<link, half, greeted, attached, ackDue, session, seq>>
       \/ h = 0 /\ Fault /\ Disconnect /\ KeepSession /\ UNCHANGED unacked

\* Discord's sequence number is kept for the next heartbeat or resume.
DiscordEvent(e, h) ==
    /\ provider = "discord" /\ h > 0 /\ ReadEvent(e, h)
    /\ wire' = Tail(wire) /\ seq' = Head(wire).n
    /\ UNCHANGED <<link, half, greeted, attached, beat, ackDue, session, unacked, faults>>

\* A beat that was not answered closes the connection, for a half-open one
\* never fails a write.  A healthy connection meets this only when the answer
\* is late.
Beat ==
    /\ link = "open" /\ greeted
    /\ IF beat THEN /\ beat' = FALSE /\ ackDue' = ~half
                    /\ UNCHANGED <<link, half, greeted, attached, wire, session, seq, faults>>
       ELSE Disconnect /\ KeepSession /\ IF half THEN UNCHANGED faults ELSE Fault
    /\ UNCHANGED <<provider, phase, peer, copies>>

\* Mutation: a heartbeat that does not look for the answer to the last one.
Heartbeat_Blind ==
    /\ provider = "discord" /\ link = "open" /\ greeted /\ beat' = FALSE /\ ackDue' = ~half
    /\ UNCHANGED <<provider, phase, link, half, greeted, attached, wire, session, seq, peer, copies, faults>>

Heartbeat == provider = "discord" /\ Beat
Liveness == provider = "slack" /\ Beat

\* The heartbeat's acknowledgement, or any frame for Slack.
BeatAnswered ==
    /\ link = "open" /\ ackDue /\ ~half
    /\ beat' = TRUE /\ ackDue' = FALSE
    /\ UNCHANGED <<provider, phase, link, half, greeted, attached, wire, session, seq, peer, copies, faults>>

\* Discord's Hello has a deadline of its own.
HelloTimeout ==
    /\ link = "open" /\ ~greeted
    /\ IF half THEN UNCHANGED faults ELSE Fault
    /\ Disconnect /\ KeepSession
    /\ UNCHANGED <<provider, phase, peer, copies>>

\* The network: the connection breaks, noticed or not.
Break ==
    /\ link = "open" /\ ~half /\ Fault
    /\ \/ Disconnect
       \/ half' = TRUE /\ UNCHANGED <<link, greeted, attached, wire, beat, ackDue>>
    /\ KeepSession /\ UNCHANGED <<provider, phase, peer, copies>>

\* The provider asks for a reconnect, or discards the session.
ProviderEnds ==
    /\ Fault
    /\ \/ /\ attached /\ ~half /\ wire' = Append(wire, Control("reconnect")) /\ attached' = FALSE
          /\ UNCHANGED gsession
       \/ /\ gsession # 0 /\ gsession' = 0 /\ attached' = FALSE
          /\ wire' = IF attached /\ ~half THEN Append(wire, Control("close")) ELSE wire
    /\ UNCHANGED <<provider, phase, link, half, greeted, beat, ackDue, session, seq, gcount, log, unacked,
                   copies>>

\* The context ends: both the loop and the socket do.
LoopEnds ==
    /\ phase = "stopping" /\ link = "open" /\ Disconnect /\ KeepSession
    /\ UNCHANGED <<provider, phase, peer, copies, faults>>
=============================================================================
