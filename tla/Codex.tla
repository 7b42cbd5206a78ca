------------------------------- MODULE Codex --------------------------------
(* The Codex adapter (src/internal/runner/codex.go): JSON-RPC lines over    *)
(* the child's pipes.  Answers and notifications share one stream, so the   *)
(* notifications that arrive before an answer wait in a bounded backlog,    *)
(* and those of other threads and earlier turns are skipped.                *)
EXTENDS Runner

\* What a line can be besides an answer: a message of this turn, one of
\* another thread or turn, progress, a request for a person, the turn's end.
CodexEnds == {"done", "failed"}
CodexNotes == {"mine", "stale", "progress", "request"} \cup CodexEnds

\* The app-server works on the turn once it has the request and may report on
\* it before it answers that request.
CodexWorks ==
    /\ backend = "codex" /\ InProgress("turn") /\ child = "up" /\ step \in {"ask", "started", "await"}
    /\ \/ /\ runtime = "idle" /\ asked /\ runtime' = "working"
          /\ rollout' = rollout \cup {thread}
          /\ UNCHANGED <<inbox, notes>>
       \/ /\ runtime # "idle" /\ notes < MaxNotes /\ notes' = notes + 1
          /\ \E n \in {"mine", "stale", "progress", "request"} :
                /\ n = "mine" => runtime = "working"
                /\ inbox' = Append(inbox, n)
          /\ UNCHANGED <<runtime, rollout>>
       \/ /\ runtime = "working"
          /\ \E e \in CodexEnds :
                /\ inbox' = Append(inbox, e)
                /\ runtime' = IF e = "done" THEN "finished" ELSE "failed"
          /\ UNCHANGED <<notes, rollout>>
    /\ UNCHANGED <<call, ret, step, child, loose, asked, pending, post, heard, saved,
                   thread, threads, cancelled, faults>>

\* connectCodex, and the requests of the other calls; a turn's request starts
\* the turn.
ConnectCodex == backend = "codex" /\ Spawn
CodexDiagnose == backend = "codex" /\ Request("diagnose")
CodexModels == backend = "codex" /\ Request("models")
CodexStart == backend = "codex" /\ Request("start")
CodexTurn == backend = "codex" /\ Request("turn")
CloseCodex == backend = "codex" /\ Close

\* rpc: read lines until the answer.  Everything else goes to the backlog; a
\* full backlog and a request for a person end the call.
Push(m) ==
    IF Len(pending) < MaxBacklog
    THEN pending' = Append(pending, m) /\ UNCHANGED <<ret, step>>
    ELSE Fails /\ UNCHANGED pending

CodexRpc ==
    /\ backend = "codex" /\ step = "ask" /\ inbox # <<>> /\ ~cancelled
    /\ LET m == Head(inbox) IN
       CASE m = "ok" -> /\ IF call = "turn" THEN step' = "started" /\ UNCHANGED ret ELSE Finish("ok")
                        /\ UNCHANGED pending
         [] m = "missing" -> Finish("missing") /\ UNCHANGED pending
         [] m \in {"bad", "request"} -> Fails /\ UNCHANGED pending
         [] OTHER -> Push(m)
    /\ inbox' = Tail(inbox)
    /\ UNCHANGED <<call, child, loose, asked, notes, post, heard, turn, sessions, cancelled, faults>>

\* nextEvent: what waited in the backlog comes before what the child sends.
NextEvent(m) ==
    IF pending # <<>>
    THEN m = Head(pending) /\ pending' = Tail(pending) /\ UNCHANGED inbox
    ELSE inbox # <<>> /\ m = Head(inbox) /\ inbox' = Tail(inbox) /\ UNCHANGED pending

\* Fault: messages of other threads and turns are not told apart.
CodexAwait_AnyMessage ==
    /\ backend = "codex" /\ step = "await" /\ ~cancelled
    /\ \E m \in CodexNotes :
          /\ NextEvent(m)
          /\ heard' = IF m \in {"mine", "stale"} THEN m ELSE heard
          /\ CASE m \in {"mine", "stale", "progress"} -> UNCHANGED <<ret, step>>
               [] m = "done" -> Finish(IF heard # "none" THEN "answer" ELSE "error")
               [] OTHER -> Fails
    /\ UNCHANGED <<call, child, loose, asked, notes, post, turn, sessions, cancelled, faults>>

\* awaitTurn: the last message of this turn is its answer when the turn
\* completes; the answer must then be valid for the schema (FinishTurn).
CodexAwait ==
    /\ backend = "codex" /\ step = "await" /\ ~cancelled
    /\ \E m \in CodexNotes :
          /\ NextEvent(m)
          /\ heard' = IF m = "mine" THEN "mine" ELSE heard
          /\ CASE m = "stale" -> UNCHANGED <<ret, step, faults>>
               [] m \in {"mine", "progress"} ->
                     \/ UNCHANGED <<ret, step, faults>>
                     \/ Fault /\ Fails
               [] m = "done" -> /\ \E valid \in BOOLEAN :
                                      Finish(IF heard = "mine" /\ valid THEN "answer" ELSE "error")
                                /\ UNCHANGED faults
               [] OTHER -> Fails /\ UNCHANGED faults
    /\ UNCHANGED <<call, child, loose, asked, notes, post, turn, sessions, cancelled>>
=============================================================================
