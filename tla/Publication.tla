----------------------------- MODULE Publication -----------------------------
(* Publish (src/internal/git/publish.go) against GitHub: one task's reviewed *)
(* commit goes to its branch under a lease and its pull request is created,  *)
(* or an earlier one annotated.  Each command may fail before its effect or  *)
(* lose its answer after it, the process may die between two commands, and   *)
(* people move the branch, the pull requests and the default branch.  An     *)
(* observer reads the open pull requests and their status                    *)
(* (src/internal/git/github.go).  GitHub is external.                        *)
EXTENDS Naturals, Sequences, FiniteSets

CONSTANTS MaxFaults,    \* bound: failed commands and crashes
          MaxAttempts,  \* bound: calls of Publish
          MaxDrift,     \* bound: what people do
          MaxPRs        \* bound: pull requests of the branch

ASSUME BoundsAssumption == MaxFaults < MaxAttempts

VARIABLES
    followUp,  \* the task has a PRNumber: it updates pull request 1
    fits,      \* its title and body can be published
    head,      \* the branch at the remote
    moved,     \* the default branch is past the task's DefaultRevision
    prs,       \* the pull requests of the branch
    pc, mem,   \* the running Publish and what it read
    result,    \* of the last one
    seen,      \* the observer's open pull request and its status
    attempts, drift, faults

task == <<followUp, fits>>
github == <<head, moved, prs>>
publisher == <<pc, mem, result>>
vars == <<task, github, publisher, seen, attempts, drift, faults>>

Heads == {"none", "source", "output", "foreign"}
Nothing == [pr |-> 0, state |-> "none", head |-> "none", owned |-> FALSE, body |-> FALSE,
            marker |-> FALSE, remote |-> "none"]
Fault == faults < MaxFaults /\ faults' = faults + 1
Calm == UNCHANGED faults

-----------------------------------------------------------------------------
\* GitHub.  A pull request is open on its branch's head and keeps the last one
\* when it closes; the heads it has had are remembered.

Open == {p \in DOMAIN prs : prs[p].state = "open"}
HeadOf(p) == IF p \in Open THEN head ELSE prs[p].at
Marked(p) == prs[p].body \/ prs[p].notes > 0

NewPR(marked) == [state |-> "open", at |-> head, owned |-> marked, body |-> marked, notes |-> 0, heads |-> {head}]

\* The branch moves to h; without a branch a pull request closes.
MoveBranch(h) ==
    /\ head' = h
    /\ prs' = [p \in DOMAIN prs |->
                 IF p \notin Open THEN prs[p]
                 ELSE IF h = "none" THEN [prs[p] EXCEPT !.state = "closed", !.at = head]
                 ELSE [prs[p] EXCEPT !.heads = @ \cup {h}]]

\* What Publish and its helpers read of a pull request in one response.
Fetched(p) == [mem EXCEPT !.pr = p, !.state = prs[p].state, !.head = HeadOf(p), !.owned = prs[p].owned,
                          !.body = prs[p].body]

\* People merge, close, reopen and open pull requests, and move or delete the
\* branch and the default branch.
People ==
    /\ drift < MaxDrift /\ drift' = drift + 1
    /\ \/ \E p \in Open :
             \/ prs' = [prs EXCEPT ![p].state = "merged", ![p].at = head] /\ moved' = TRUE /\ UNCHANGED head
             \/ prs' = [prs EXCEPT ![p].state = "closed", ![p].at = head] /\ UNCHANGED <<head, moved>>
       \/ /\ Open = {} /\ head # "none"
          /\ \/ \E p \in DOMAIN prs : prs[p].state = "closed" /\ prs[p].at = head
                                      /\ prs' = [prs EXCEPT ![p].state = "open"]
             \/ Len(prs) < MaxPRs /\ prs' = Append(prs, NewPR(FALSE))
          /\ UNCHANGED <<head, moved>>
       \/ \E h \in {"none", "source", "foreign"} : h # head /\ MoveBranch(h) /\ UNCHANGED moved
       \/ ~moved /\ moved' = TRUE /\ UNCHANGED <<head, prs>>
    /\ UNCHANGED <<task, publisher, seen, attempts, faults>>

-----------------------------------------------------------------------------
\* Publish, one step for each command that reads or changes the remote.

Step(from) == pc = from /\ UNCHANGED <<task, seen, attempts, drift>>
Goto(to) == pc' = to /\ UNCHANGED result
Return(r) == pc' = "idle" /\ result' = r

\* Any command may fail; an error of no other kind is publication_uncertain.
CommandFails == Fault /\ Return("uncertain") /\ UNCHANGED <<github, mem>>

\* The origin, the review, the verification and the workspace are in order;
\* a retry comes after any result but a delivery.
Begin ==
    /\ pc = "idle" /\ result # "published" /\ attempts < MaxAttempts
    /\ attempts' = attempts + 1 /\ mem' = Nothing /\ Goto("find")
    /\ UNCHANGED <<task, github, seen, drift, faults>>

\* Mutation: a lookup that asks for open pull requests only.
Find_OpenOnly ==
    /\ Step("find")
    /\ \/ CommandFails
       \/ /\ Calm /\ UNCHANGED github
          /\ LET found == IF followUp THEN {1} ELSE Open IN
             \/ found = {} /\ Goto("remote") /\ UNCHANGED mem
             \/ \E p \in found : found = {p} /\ mem' = Fetched(p) /\ Goto("mark")

\* PR for a follow-up, PublicationPR otherwise: in any state, and one only.
Find ==
    /\ Step("find")
    /\ \/ CommandFails
       \/ /\ Calm /\ UNCHANGED github
          /\ LET found == IF followUp THEN {1} ELSE DOMAIN prs IN
             \/ Cardinality(found) > 1 /\ Return("blocked") /\ UNCHANGED mem
             \/ found = {} /\ Goto("remote") /\ UNCHANGED mem
             \/ \E p \in found : found = {p} /\ mem' = Fetched(p) /\ Goto("mark")

\* validatePublication
Valid(read, marker, reconcile) ==
    /\ read.owned /\ marker /\ read.head = "output"
    /\ read.state = "open" \/ reconcile

\* TaskMarker on the pull request found, and what follows from it.
Mark ==
    /\ Step("mark")
    /\ \/ CommandFails
       \/ /\ Calm /\ UNCHANGED github
          /\ LET marker == mem.body \/ prs[mem.pr].notes > 0 IN
             /\ mem' = [mem EXCEPT !.marker = marker]
             /\ IF Valid(mem, marker, TRUE) THEN Return("published")
                ELSE IF \/ marker /\ mem.head # "output"
                        \/ ~mem.owned \/ mem.state # "open"
                        \/ ~followUp /\ ~marker
                THEN Return("blocked") ELSE Goto("remote")

\* preparePublication refuses what GitHub would, before anything is written.
Refused == ~fits /\ Calm /\ Return("blocked") /\ UNCHANGED <<github, mem>>

\* RemoteRevision of the branch, then of the default branch; what the branch
\* may be before a push.
Remote ==
    /\ Step("remote")
    /\ \/ Refused
       \/ fits /\ CommandFails
       \/ fits /\ Calm /\ mem' = [mem EXCEPT !.remote = head] /\ Goto("base") /\ UNCHANGED github

Pushable == IF followUp THEN "source" ELSE "none"

\* Mutation: a branch that holds the output already is taken for a conflict.
Base_Conflict ==
    /\ Step("base")
    /\ \/ CommandFails
       \/ /\ Calm /\ UNCHANGED <<github, mem>>
          /\ IF moved \/ mem.remote # Pushable THEN Return("blocked") ELSE Goto("push")

Base ==
    /\ Step("base")
    /\ \/ CommandFails
       \/ /\ Calm /\ UNCHANGED <<github, mem>>
          /\ IF moved THEN Return("blocked")
             ELSE IF mem.remote = "output" THEN Goto(IF mem.pr = 0 THEN "create" ELSE "latest")
             ELSE IF mem.remote # Pushable THEN Return("blocked") ELSE Goto("push")

Pushed == MoveBranch("output") /\ UNCHANGED <<moved, mem>>

\* Mutation: a forced push without the lease.
Push_Forced ==
    /\ Step("push")
    /\ \/ CommandFails
       \/ Fault /\ Pushed /\ Return("uncertain")
       \/ Calm /\ Pushed /\ Goto(IF mem.pr = 0 THEN "create" ELSE "latest")

\* pushGit: the remote compares the branch with the lease.
Push ==
    /\ Step("push")
    /\ \/ CommandFails
       \/ head # mem.remote /\ Calm /\ Return("uncertain") /\ UNCHANGED <<github, mem>>
       \/ head = mem.remote /\ Fault /\ Pushed /\ Return("uncertain")
       \/ head = mem.remote /\ Calm /\ Pushed /\ Goto(IF mem.pr = 0 THEN "create" ELSE "latest")

\* createPR: GitHub refuses a second open pull request for a branch, and one
\* without a branch; prNumber reads the answer.
Create ==
    /\ Step("create") /\ UNCHANGED <<head, moved>>
    /\ \/ CommandFails
       \/ (Open # {} \/ head = "none") /\ Calm /\ Return("uncertain") /\ UNCHANGED <<prs, mem>>
       \/ /\ Open = {} /\ head # "none" /\ Len(prs) < MaxPRs
          /\ prs' = Append(prs, NewPR(TRUE))
          /\ \/ Fault /\ Return("uncertain") /\ UNCHANGED mem
             \/ Calm /\ Goto("confirm") /\ mem' = [mem EXCEPT !.pr = Len(prs) + 1]

\* updatePR: the latest state of the pull request, its marker, a comment.
Latest ==
    /\ Step("latest")
    /\ \/ CommandFails
       \/ /\ Calm /\ UNCHANGED github /\ mem' = Fetched(mem.pr)
          /\ IF mem'.owned /\ mem'.state = "open" /\ mem'.head = "output" THEN Goto("note") ELSE Return("blocked")

Note ==
    /\ Step("note")
    /\ \/ CommandFails
       \/ /\ Calm /\ UNCHANGED <<github, mem>>
          /\ Goto(IF mem.body \/ prs[mem.pr].notes > 0 THEN "confirm" ELSE "comment")

Commented == prs' = [prs EXCEPT ![mem.pr].notes = @ + 1] /\ UNCHANGED <<head, moved, mem>>

Comment ==
    /\ Step("comment")
    /\ \/ CommandFails
       \/ Fault /\ Commented /\ Return("uncertain")
       \/ Calm /\ Commented /\ Goto("confirm")

\* The closing read of both: the pull request, and for an update the marker.
Confirm ==
    /\ Step("confirm")
    /\ \/ CommandFails
       \/ /\ Calm /\ UNCHANGED github /\ mem' = Fetched(mem.pr)
          /\ IF followUp THEN Goto("verify")
             ELSE Return(IF Valid(mem', mem'.body, FALSE) THEN "published" ELSE "uncertain")

Verify ==
    /\ Step("verify")
    /\ \/ CommandFails
       \/ /\ Calm /\ UNCHANGED <<github, mem>>
          /\ Return(IF Valid(mem, mem.body \/ prs[mem.pr].notes > 0, FALSE) THEN "published" ELSE "uncertain")

\* The process dies between two commands and the task is published again.
Crash ==
    /\ pc # "idle" /\ Fault /\ Return("uncertain") /\ mem' = Nothing
    /\ UNCHANGED <<task, github, seen, attempts, drift>>

Publishing ==
    \/ Find \/ Mark \/ Remote \/ Base \/ Push \/ Create \/ Latest \/ Note \/ Comment \/ Confirm \/ Verify

-----------------------------------------------------------------------------
\* The observer, OwnedPRs: the inventory names an owned open pull request, PR
\* reads it again, ownedPRStatus asks for its head's checks and
\* applyOwnedPRStatus compares the two heads.
Unseen == [pr |-> 0, head |-> "none", status |-> "none"]

Observe ==
    /\ \/ \E p \in Open : seen.pr = 0 /\ prs[p].owned /\ seen' = [Unseen EXCEPT !.pr = p]
       \/ /\ seen.pr # 0 /\ seen.head = "none"
          /\ seen' = IF seen.pr \in Open THEN [seen EXCEPT !.head = head] ELSE Unseen
       \/ /\ seen.head # "none" /\ seen.status = "none"
          /\ seen' = IF HeadOf(seen.pr) = seen.head THEN [seen EXCEPT !.status = HeadOf(seen.pr)] ELSE Unseen
    /\ UNCHANGED <<task, github, publisher, attempts, drift, faults>>

Next == Begin \/ Publishing \/ Crash \/ People \/ Observe

Init ==
    /\ followUp \in BOOLEAN /\ fits \in BOOLEAN /\ moved = FALSE
    /\ head = IF followUp THEN "source" ELSE "none"
    /\ prs = IF followUp THEN <<[state |-> "open", at |-> "source", owned |-> TRUE, body |-> FALSE, notes |-> 0,
                                 heads |-> {"source"}]>>
             ELSE <<>>
    /\ pc = "idle" /\ mem = Nothing /\ result = "none" /\ seen = Unseen
    /\ attempts = 0 /\ drift = 0 /\ faults = 0

\* Commands end, and an undelivered task is tried again.
Fairness == WF_vars(Publishing) /\ WF_vars(Begin)

Spec == Init /\ [][Next]_vars /\ Fairness

-----------------------------------------------------------------------------
TypeOK ==
    /\ {followUp, fits, moved} \subseteq BOOLEAN /\ head \in Heads
    /\ result \in {"none", "published", "blocked", "uncertain"}
    /\ pc \in {"idle", "find", "mark", "remote", "base", "push", "create", "latest", "note", "comment", "confirm",
               "verify"}
    /\ \A p \in DOMAIN prs : prs[p].state \in {"open", "closed", "merged"} /\ prs[p].heads \subseteq Heads

\* Over lost answers, crashes and retries a task leaves one trace on GitHub: a
\* single pull request it opened, or a single delivery comment on the one it
\* follows up (PublicationPR and TaskMarker before every write).
PublishedOnce ==
    /\ Cardinality({p \in DOMAIN prs : Marked(p)}) <= 1
    /\ \A p \in DOMAIN prs : prs[p].notes <= 1 /\ (prs[p].notes > 0 => ~prs[p].body /\ followUp)

\* A publication that reports success is on a pull request that carries the
\* task's marker and had the reviewed commit as its head, whatever people did
\* between the reads (validatePublication).
DeliveryIsTrue ==
    result = "published" => mem.pr \in DOMAIN prs /\ Marked(mem.pr) /\ "output" \in prs[mem.pr].heads

\* A status the observer attaches was computed for the head it shows, a head
\* the pull request has had.
StatusIsOwn ==
    seen.status # "none" => seen.status = seen.head /\ seen.head \in prs[seen.pr].heads

PublicationIsTrue == TypeOK /\ PublishedOnce /\ DeliveryIsTrue /\ StatusIsOwn

\* Publish moves the branch only from what the task may replace, at the
\* remote and not merely when it looked: no branch for a new pull request, the
\* recorded source for a follow-up, and only when the pull request's text can
\* be published too.  Once a delivery marker is up it never
\* pushes again, whatever people did to the branch meanwhile.
PushIsLeased ==
    [][head' # head /\ drift' = drift =>
         head = Pushable /\ head' = "output" /\ fits /\ \A p \in DOMAIN prs : ~Marked(p)]_vars

\* When nobody interferes, no crash or lost answer wedges a task: the retries
\* recognise what an earlier attempt left behind and deliver.
RetriesDeliver == fits /\ [](drift = 0) => <>(result = "published")
=============================================================================
