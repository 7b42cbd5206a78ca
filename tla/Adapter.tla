------------------------------ MODULE Adapter -------------------------------
(* What the session manager Runners relies on in a runner adapter, whatever *)
(* protocol the runner speaks (interface Adapter and Runners in             *)
(* src/internal/runner/runner.go).  The owner makes one call at a time.  An *)
(* adapter starts a child, speaks to it, and ends it again:                 *)
(*   - a call to resume may answer that the session does not exist;         *)
(*   - a turn is answered only after the caller saved that the runtime      *)
(*     accepted it, with what the runtime completed for that very turn;     *)
(*   - a close that returns without complaint leaves no child behind.       *)

VARIABLES call,     \* the call in progress, or the last one that returned
          ret,      \* what it returned, "none" while it is in progress
          saved,    \* the started callback of this turn was accepted
          runtime,  \* what the runtime did of this turn
          heard,    \* whose message the adapter holds as the turn's answer
          child     \* the child process

vars == <<call, ret, saved, runtime, heard, child>>

Ops == {"connect", "diagnose", "models", "start", "turn", "close"}

Init ==
    /\ call = "none" /\ ret = "none" /\ ~saved
    /\ runtime = "idle" /\ heard = "none" /\ child = "none"

\* The owner takes a result, asks for the next thing, or both.
Ask ==
    /\ call = "none" \/ ret # "none"
    /\ call' \in Ops \cup {"none"} /\ ret' = "none"
    /\ call' = "connect" => child = "none"
    /\ call' \in Ops \ {"connect"} => child # "none"
    /\ saved' = FALSE /\ runtime' = "idle" /\ heard' = "none"
    /\ UNCHANGED child

InProgress(op) == call = op /\ ret = "none"

Spawn ==
    /\ InProgress("connect") /\ child = "none" /\ child' = "up"
    /\ UNCHANGED <<call, ret, saved, runtime, heard>>

Save ==
    /\ InProgress("turn") /\ ~saved /\ saved' = TRUE
    /\ UNCHANGED <<call, ret, runtime, heard, child>>

Hear ==
    /\ InProgress("turn") /\ heard' \in {"mine", "other"}
    /\ heard' = "mine" => runtime # "idle"
    /\ UNCHANGED <<call, ret, saved, runtime, child>>

Work ==
    /\ InProgress("turn") /\ child = "up"
    /\ \/ runtime = "idle" /\ runtime' = "working"
       \/ runtime = "working" /\ runtime' \in {"finished", "failed"}
    /\ UNCHANGED <<call, ret, saved, heard, child>>

Exit ==
    /\ child = "up" /\ child' = "gone"
    /\ UNCHANGED <<call, ret, saved, runtime, heard>>

Return ==
    /\ call # "none" /\ ret = "none"
    /\ \/ /\ call \in {"connect", "diagnose", "models", "start"} /\ child # "none"
          /\ ret' = "ok" /\ UNCHANGED child
       \/ call = "start" /\ ret' = "missing" /\ UNCHANGED child
       \/ /\ call = "turn" /\ saved /\ runtime = "finished"
          /\ heard' = "mine" /\ ret' = "answer" /\ UNCHANGED child
       \/ call \in Ops \ {"connect", "close"} /\ ret' = "error" /\ UNCHANGED child
       \/ call = "connect" /\ ret' = "error" /\ child' = "none"
       \/ call = "close" /\ child = "gone" /\ ret' = "ok" /\ child' = "none"
       \/ call = "close" /\ ret' \in {"failed", "unsettled"} /\ child' = "none"
    /\ call # "turn" => UNCHANGED heard
    /\ heard' \in {heard, "mine", "other"}
    /\ UNCHANGED <<call, saved, runtime>>

\* The service dies; a sandbox does not outlive the stream it was started on.
Die ==
    /\ call' = "none" /\ ret' = "none" /\ ~saved'
    /\ runtime' = "idle" /\ heard' = "none" /\ child' = "none"

Next == Ask \/ Spawn \/ Save \/ Hear \/ Work \/ Exit \/ Return \/ Die

Spec == Init /\ [][Next]_vars
=============================================================================
