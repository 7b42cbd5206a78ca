------------------------------ MODULE OpenCode ------------------------------
(* The OpenCode adapter (src/internal/runner/opencode.go): HTTP calls to    *)
(* the child, and a turn that is one long POST beside a stream of events.   *)
(* The events only report and refuse; the answer is the POST's.             *)
EXTENDS Runner

OpenCodeEvents == {"stale", "progress", "request", "failed"}

\* The server accepts the message, reports on it and completes it; its answer
\* may be for another session, message or model.
OpenCodeWorks ==
    /\ backend = "opencode" /\ InProgress("turn") /\ child = "up" /\ step = "await"
    /\ \/ runtime = "idle" /\ runtime' = "working" /\ UNCHANGED <<inbox, notes, post>>
       \/ /\ notes < MaxNotes /\ notes' = notes + 1
          /\ \E e \in OpenCodeEvents : inbox' = Append(inbox, e)
          /\ UNCHANGED <<runtime, post>>
       \/ /\ runtime = "working"
          /\ \E r \in {"finished", "failed"} :
                runtime' = r /\ post' = IF r = "finished" THEN "mine" ELSE "bad"
          /\ UNCHANGED <<inbox, notes>>
       \/ /\ runtime # "finished" /\ post = "none" /\ post' = "stale"
          /\ UNCHANGED <<runtime, inbox, notes>>
    /\ UNCHANGED <<call, ret, step, child, loose, asked, pending, heard, saved, sessions,
                   cancelled, faults>>

\* connectOpenCode, and the calls that are one request.
ConnectOpenCode == backend = "opencode" /\ Spawn
OpenCodeModels == backend = "opencode" /\ Request("models")
OpenCodeStart == backend = "opencode" /\ Request("start")
CloseOpenCode == backend = "opencode" /\ Close

\* call: one request, one answer.
OpenCodeCall ==
    /\ backend = "opencode" /\ step = "ask" /\ inbox # <<>> /\ ~cancelled
    /\ IF Head(inbox) = "ok" THEN Finish("ok") ELSE Fails
    /\ inbox' = Tail(inbox)
    /\ UNCHANGED <<call, child, loose, asked, pending, notes, post, heard, turn, sessions,
                   cancelled, faults>>

\* Diagnose tells what the connection learned.
OpenCodeDiagnose ==
    /\ backend = "opencode" /\ InProgress("diagnose") /\ Finish("ok")
    /\ UNCHANGED <<call, child, loose, pipe, turn, sessions, cancelled, faults>>

\* Turn: the session exists since Start, so the callback comes first.
OpenCodeTurn ==
    /\ backend = "opencode" /\ InProgress("turn") /\ step = "none" /\ step' = "started"
    /\ UNCHANGED <<call, ret, child, loose, pipe, turn, sessions, cancelled, faults>>

\* turnInner subscribes to the events, then posts the message.
OpenCodeSubscribe ==
    /\ backend = "opencode" /\ step = "subscribe"
    /\ \/ child = "up" /\ ~cancelled /\ step' = "await" /\ UNCHANGED ret
       \/ Finish("error")
    /\ UNCHANGED <<call, child, loose, pipe, turn, sessions, cancelled, faults>>

\* handleEvent: what is not of this session is skipped.
OpenCodeEvent ==
    /\ backend = "opencode" /\ step = "await" /\ inbox # <<>> /\ ~cancelled
    /\ LET e == Head(inbox) IN
       \/ e \in {"stale", "progress"} /\ UNCHANGED <<ret, step, faults>>
       \/ e = "progress" /\ Fault /\ Fails
       \/ e \in {"request", "failed"} /\ Fails /\ UNCHANGED faults
    /\ inbox' = Tail(inbox)
    /\ UNCHANGED <<call, child, loose, asked, pending, notes, post, heard, turn, sessions, cancelled>>

\* The select takes whichever is ready; validateTurn accepts only the answer
\* to this message, FinishTurn only one that is valid for the schema.
OpenCodePosted ==
    /\ backend = "opencode" /\ step = "await" /\ post # "none" /\ ~cancelled
    /\ heard' = post
    /\ \E valid \in BOOLEAN : Finish(IF post = "mine" /\ valid THEN "answer" ELSE "error")
    /\ UNCHANGED <<call, child, loose, asked, inbox, pending, notes, post, turn, sessions,
                   cancelled, faults>>
=============================================================================
