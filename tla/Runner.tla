------------------------------- MODULE Runner -------------------------------
(* One runner child and the adapter that owns it, as far as the two         *)
(* protocols agree: starting it, the calls that are one request and one     *)
(* answer, and closing it (src/internal/runner/owned.go and the Close of    *)
(* codex.go and opencode.go).  The child and the runtime in it are external *)
(* and modelled from what the adapters accept from them.                    *)
EXTENDS Naturals, Sequences

CONSTANTS MaxNotes,   \* bound: notifications a child sends during one call
          MaxBacklog, \* Codex's notification backlog (10000 in the code)
          MaxThreads, \* bound: runner sessions
          MaxFaults   \* bound: failures of children, writes and the service

VARIABLES
    backend,    \* the route's backend
    call, ret,  \* the adapter call in progress and what it returned
    step,       \* how far that call is
    child,      \* the adapter's child process
    loose,      \* this manager gave up on a child that still runs
    asked,      \* the child owes an answer to a request
    inbox,      \* what the child sent and the adapter has not read
    pending,    \* notifications Codex read while it waited for an answer
    notes,      \* notifications sent during this call
    post,       \* OpenCode's answer to the posted message
    heard,      \* the final message the adapter would return
    saved,      \* the started callback of this turn was accepted
    runtime,    \* what the runtime did of this turn
    thread,     \* the session this invocation speaks to, 0 before it has one
    threads,    \* sessions the runtime created
    rollout,    \* sessions the runtime can resume
    cancelled,  \* the manager's context
    faults

pipe == <<asked, inbox, pending, notes, post, heard>>
turn == <<saved, runtime>>
sessions == <<thread, threads, rollout>>

Fault == faults < MaxFaults /\ faults' = faults + 1

InProgress(op) == call = op /\ ret = "none"

\* A call returns.
Finish(r) == ret' = r /\ step' = "none"

\* A call fails: a connection that fails closes its own child first.
Fails == IF call = "connect" THEN step' = "closing" /\ ret' = "none" ELSE Finish("error")

\* The owner makes the next call, or none.
Ask(op) ==
    /\ call' = op /\ ret' = "none" /\ step' = "none"
    /\ asked' = FALSE /\ inbox' = <<>> /\ pending' = <<>> /\ notes' = 0
    /\ post' = "none" /\ heard' = "none" /\ saved' = FALSE /\ runtime' = "idle"

\* connectCodex, connectOpenCode: the sandbox starts the child; the first
\* request (initialize, or health and configuration) follows.
Spawn ==
    /\ InProgress("connect") /\ step = "none"
    /\ \/ /\ ~cancelled
          /\ child' = "up" /\ step' = "ask" /\ asked' = TRUE /\ UNCHANGED <<ret, faults>>
       \/ /\ IF cancelled THEN UNCHANGED faults ELSE Fault
          /\ Finish("error") /\ UNCHANGED <<child, asked>>
    /\ UNCHANGED <<call, loose, inbox, pending, notes, post, heard, turn, sessions, cancelled>>

\* A request is written; a child that is gone fails it.
Request(op) ==
    /\ InProgress(op) /\ step = "none"
    /\ IF child = "up" /\ ~cancelled
       THEN step' = "ask" /\ asked' = TRUE /\ UNCHANGED ret
       ELSE Finish("error") /\ UNCHANGED asked
    /\ UNCHANGED <<call, child, loose, inbox, pending, notes, post, heard, turn, sessions,
                   cancelled, faults>>

\* What the runtime may answer to the request in progress, and the sessions it
\* then has.  A Codex thread can be resumed once a turn began on it; an
\* OpenCode session is kept from its creation on.
Answers ==
    CASE call = "start" /\ thread = 0 -> {"ok", "bad"}
      [] call = "start" /\ thread \in rollout -> {"ok", "bad"}
      [] call = "start" -> IF backend = "codex" THEN {"missing", "bad"} ELSE {"bad"}
      [] call = "turn" -> IF runtime = "idle" THEN {"bad"} ELSE {"ok"}
      [] OTHER -> {"ok", "bad"}

Respond ==
    /\ asked /\ child = "up" /\ step = "ask"
    /\ \E a \in Answers :
          /\ inbox' = Append(inbox, a)
          /\ IF call = "start" /\ thread = 0 /\ a = "ok"
             THEN /\ threads < MaxThreads
                  /\ threads' = threads + 1 /\ thread' = threads + 1
                  /\ rollout' = IF backend = "opencode" THEN rollout \cup {threads + 1} ELSE rollout
             ELSE UNCHANGED sessions
    /\ asked' = FALSE
    /\ UNCHANGED <<call, ret, step, child, loose, pending, notes, post, heard, turn, cancelled, faults>>

\* The child ends by itself, or because it was killed.
Exit ==
    /\ child = "up"
    /\ \/ step = "closing" /\ child' = "exited" /\ UNCHANGED faults
       \/ Fault /\ child' = "crashed"
    /\ UNCHANGED <<call, ret, step, loose, pipe, turn, sessions, cancelled>>

\* Close: kill the child, close its streams, join its owners.
Close ==
    /\ InProgress("close") /\ step = "none" /\ step' = "closing"
    /\ UNCHANGED <<call, ret, child, loose, pipe, turn, sessions, cancelled, faults>>

\* joinOwned: a child that ended before it was killed reports how; one that
\* holds on beyond the cleanup budget, or whose end the broker cannot confirm,
\* is an infrastructure failure.
Join ==
    /\ step = "closing"
    /\ \/ child \in {"exited", "crashed"} /\ UNCHANGED <<loose, faults>>
       \/ child = "up" /\ Fault /\ loose' = TRUE
    /\ child' = "none"
    /\ Finish(IF call = "connect" THEN "error"
              ELSE CASE child = "exited" -> "ok" [] child = "crashed" -> "failed" [] OTHER -> "unsettled")
    /\ UNCHANGED <<call, pipe, turn, sessions, cancelled>>

\* Fault: only the turn has a time limit, the other requests have none.
GiveUp_TurnOnly ==
    /\ step = "await"
    /\ Fails
    /\ UNCHANGED <<call, child, loose, pipe, turn, sessions, cancelled, faults>>

\* A deadline passes, the context ends, or the stream does.
GiveUp ==
    /\ step \in {"ask", "await"}
    /\ Fails
    /\ UNCHANGED <<call, child, loose, pipe, turn, sessions, cancelled, faults>>

Cancel ==
    /\ ~cancelled /\ Fault /\ cancelled' = TRUE
    /\ UNCHANGED <<call, ret, step, child, loose, pipe, turn, sessions>>

\* The runtime loses the sessions it kept (its login volume was replaced).
Forget ==
    /\ rollout # {} /\ Fault /\ rollout' = {}
    /\ UNCHANGED <<call, ret, step, child, loose, pipe, turn, thread, threads, cancelled>>
=============================================================================
