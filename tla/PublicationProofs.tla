-------------------------- MODULE PublicationProofs --------------------------
(* Proofs about Publish for every number of attempts, failed commands, lost  *)
(* answers, crashes, interventions of people and pull requests: a task       *)
(* leaves one trace on GitHub, a success it reports is true, and it pushes   *)
(* only over what it may replace and never after its marker is up.           *)
(*                                                                           *)
(* The argument is about what Publish still knows of its reads: markers are  *)
(* its own writes, so "not marked yet", once read, stays true until it       *)
(* writes one itself, while the branch and the pull requests may move.       *)
EXTENDS Publication, FiniteSetTheorems, TLAPS

PRStates == {"open", "closed", "merged"}
PRs == [state : PRStates, at : Heads, owned : BOOLEAN, body : BOOLEAN, notes : Nat,
        heads : SUBSET Heads]
Mems == [pr : Nat, state : {"none"} \cup PRStates, head : Heads, owned : BOOLEAN,
         body : BOOLEAN, marker : BOOLEAN, remote : Heads]

Typed ==
    /\ followUp \in BOOLEAN /\ fits \in BOOLEAN /\ moved \in BOOLEAN /\ head \in Heads
    /\ prs \in Seq(PRs) /\ mem \in Mems /\ drift \in Nat
    /\ result \in {"none", "published", "blocked", "uncertain"}
    /\ pc \in {"idle", "find", "mark", "remote", "base", "push", "create", "latest", "note",
               "comment", "confirm", "verify"}

\* The markers there are: for a new pull request its body, for a follow-up one
\* comment on pull request 1.
Traces ==
    /\ followUp => Len(prs) > 0
    /\ \A p \in DOMAIN prs :
          /\ prs[p].body => ~followUp
          /\ prs[p].notes > 0 => followUp /\ p = 1 /\ prs[p].notes = 1
    /\ \A p, q \in DOMAIN prs : prs[p].body /\ prs[q].body => p = q

\* Once Publish has looked for its marker and found none, there is none until
\* it writes one.
Unmarked ==
    pc \in {"remote", "base", "push", "create", "latest", "note", "comment"} =>
       \A p \in DOMAIN prs : ~Marked(p)

\* The heads a pull request has had include the one it shows.
HeadsKept ==
    \A p \in DOMAIN prs :
       /\ prs[p].at \in prs[p].heads
       /\ p \in Open => head \in prs[p].heads /\ head # "none"

\* What Publish read of its pull request stays true of it.
Reads ==
    /\ mem.pr = 0 => mem.head = "none" /\ ~mem.body
    /\ mem.pr # 0 =>
          /\ mem.pr \in DOMAIN prs
          /\ mem.head # "none" => mem.head \in prs[mem.pr].heads
          /\ mem.body => prs[mem.pr].body

\* Where Publish can be with which task.
Places ==
    /\ pc = "find" => mem = Nothing
    /\ pc \in {"mark", "latest", "note", "comment", "confirm", "verify"} => mem.pr # 0
    /\ followUp /\ pc \notin {"idle", "find"} => mem.pr = 1
    /\ ~followUp /\ pc \in {"remote", "base", "push"} => mem.pr = 0
    /\ pc = "create" => ~followUp /\ mem.pr = 0
    /\ pc \in {"latest", "note", "comment", "verify"} => followUp
    /\ pc \in {"base", "push"} => fits
    /\ pc = "push" => mem.remote = Pushable
    /\ result = "published" => pc = "idle"

Sights ==
    /\ seen.pr = 0 => seen.head = "none"
    /\ seen.pr # 0 => seen.pr \in DOMAIN prs
    /\ seen.head # "none" => seen.head \in prs[seen.pr].heads
    /\ seen.status # "none" => seen.status = seen.head /\ seen.head # "none"

IInv ==
    /\ Typed /\ Traces /\ Unmarked /\ HeadsKept /\ Reads /\ Places
    /\ DeliveryIsTrue /\ Sights
-----------------------------------------------------------------------------
\* What everyone but Publish's two marker writes does to the pull requests.

\* No pull request or head is forgotten.
Extends ==
    /\ prs' \in Seq(PRs) /\ Len(prs) <= Len(prs')
    /\ \A p \in DOMAIN prs :
          prs'[p].body = prs[p].body /\ prs[p].heads \subseteq prs'[p].heads

\* Nor is a marker made.
Keeps ==
    /\ Extends
    /\ \A p \in DOMAIN prs : prs'[p].notes = prs[p].notes
    /\ \A p \in DOMAIN prs' : p \notin DOMAIN prs => ~prs'[p].body /\ prs'[p].notes = 0

\* A pull request that opens again has its state changed and nothing else.
LEMMA Reopened ==
    ASSUME NEW e \in PRs, NEW f, f = [e EXCEPT !.state = "open"]
    PROVE  /\ f \in PRs /\ f.state = "open" /\ f.at = e.at
           /\ f.body = e.body /\ f.notes = e.notes /\ f.heads = e.heads
BY DEF PRs, PRStates

\* One that closes keeps the head it had.
Shut(e, s, h) == [e EXCEPT !.state = s, !.at = h]

\* So it is still the pull request it was.
LEMMA Closed ==
    ASSUME NEW e \in PRs, NEW s \in PRStates, NEW h \in Heads, NEW f, f = Shut(e, s, h)
    PROVE  /\ f \in PRs /\ f.state = s /\ f.at = h
           /\ f.body = e.body /\ f.notes = e.notes /\ f.heads = e.heads
BY DEF PRs, PRStates, Shut

\* One whose branch moves has one head more.
LEMMA Advanced ==
    ASSUME NEW e \in PRs, NEW h \in Heads, NEW f, f = [e EXCEPT !.heads = @ \cup {h}]
    PROVE  /\ f \in PRs /\ f.state = e.state /\ f.at = e.at
           /\ f.body = e.body /\ f.notes = e.notes /\ f.heads = e.heads \cup {h}
BY DEF PRs, PRStates

\* A comment adds a note.
LEMMA Annotated ==
    ASSUME NEW e \in PRs, NEW f, f = [e EXCEPT !.notes = @ + 1]
    PROVE  /\ f \in PRs /\ f.state = e.state /\ f.at = e.at
           /\ f.body = e.body /\ f.notes = e.notes + 1 /\ f.heads = e.heads
BY DEF PRs, PRStates

\* A sequence of pull requests is a function on an interval, and conversely.
LEMMA AsFunction ==
    /\ \A q \in Seq(PRs) : /\ Len(q) \in Nat /\ DOMAIN q = 1 .. Len(q)
                           /\ \A p \in DOMAIN q : q[p] \in PRs
    /\ \A n \in Nat : \A q \in [1 .. n -> PRs] : q \in Seq(PRs) /\ Len(q) = n
OBVIOUS

\* The branch moves, by a push or by people.
LEMMA BranchMoves ==
    ASSUME Typed, HeadsKept, NEW h \in Heads, MoveBranch(h)
    PROVE  Keeps /\ HeadsKept' /\ head' \in Heads
<1> DEFINE n == Len(prs)
<1>1. n \in Nat /\ DOMAIN prs = 1 .. n /\ \A p \in 1 .. n : prs[p] \in PRs
  BY AsFunction DEF Typed
<1>2. prs' = [p \in 1 .. n |->
                IF p \notin Open THEN prs[p]
                ELSE IF h = "none" THEN Shut(prs[p], "closed", head)
                ELSE [prs[p] EXCEPT !.heads = @ \cup {h}]]
  BY <1>1 DEF MoveBranch, Shut
<1>3. ASSUME NEW p \in 1 .. n
      PROVE  /\ prs'[p] \in PRs /\ prs'[p].body = prs[p].body /\ prs'[p].notes = prs[p].notes
             /\ prs[p].heads \subseteq prs'[p].heads
             /\ prs'[p].at \in prs'[p].heads
             /\ prs'[p].state = "open" => h \in prs'[p].heads /\ h # "none"
  <2>0. prs[p] \in PRs /\ head \in Heads /\ prs[p].at \in prs[p].heads
    BY <1>1 DEF Typed, HeadsKept
  <2>1. CASE p \notin Open
    BY <1>1, <1>2, <2>0, <2>1 DEF Open
  <2>2. CASE p \in Open /\ h = "none"
    <3>1. prs'[p] = Shut(prs[p], "closed", head)
      BY <1>2, <2>2
    <3>2. head \in prs[p].heads
      BY <1>1, <2>2 DEF HeadsKept
    <3>3. "closed" \in PRStates
      BY DEF PRStates
    <3>4. /\ prs'[p] \in PRs /\ prs'[p].state = "closed" /\ prs'[p].at = head
          /\ prs'[p].body = prs[p].body /\ prs'[p].notes = prs[p].notes
          /\ prs'[p].heads = prs[p].heads
      BY <2>0, <3>1, <3>3, Closed
    <3> QED BY <3>2, <3>4
  <2>3. CASE p \in Open /\ h # "none"
    <3>1. prs'[p] = [prs[p] EXCEPT !.heads = @ \cup {h}]
      BY <1>2, <2>3
    <3> QED BY <2>0, <2>3, <3>1, Advanced
  <2> QED BY <2>1, <2>2, <2>3
<1>4. prs' \in [1 .. n -> PRs]
  BY <1>2, <1>3
<1>5. prs' \in Seq(PRs) /\ Len(prs') = n /\ DOMAIN prs' = 1 .. n
  BY <1>1, <1>4, AsFunction
<1>6. head' = h
  BY DEF MoveBranch
<1> QED
  BY <1>1, <1>3, <1>5, <1>6 DEF Keeps, Extends, HeadsKept, Open

\* One pull request changes, and the branch stays.
LEMMA OneChanges ==
    ASSUME Typed, HeadsKept, NEW p \in DOMAIN prs, NEW f \in PRs,
           prs' = [prs EXCEPT ![p] = f], head' = head,
           f.body = prs[p].body, f.heads = prs[p].heads, f.at \in f.heads,
           f.state = "open" => head \in f.heads /\ head # "none"
    PROVE  /\ Extends /\ HeadsKept' /\ DOMAIN prs' = DOMAIN prs /\ Len(prs') = Len(prs)
           /\ prs'[p] = f /\ \A q \in DOMAIN prs : q # p => prs'[q] = prs[q]
<1> DEFINE n == Len(prs)
<1>1. n \in Nat /\ DOMAIN prs = 1 .. n /\ \A q \in 1 .. n : prs[q] \in PRs
  BY AsFunction DEF Typed
<1>2. prs \in [1 .. n -> PRs]
  BY <1>1, AsFunction DEF Typed
<1>3. prs' \in [1 .. n -> PRs] /\ prs'[p] = f /\ \A q \in 1 .. n : q # p => prs'[q] = prs[q]
  BY <1>1, <1>2
<1>4. prs' \in Seq(PRs) /\ Len(prs') = n /\ DOMAIN prs' = 1 .. n
  BY <1>1, <1>3, AsFunction
<1>5. Extends
  BY <1>1, <1>3, <1>4 DEF Extends
<1>6. HeadsKept'
  BY <1>1, <1>3, <1>4 DEF HeadsKept, Open
<1> QED BY <1>1, <1>3, <1>4, <1>5, <1>6

\* A pull request is opened on the branch.
LEMMA OneOpens ==
    ASSUME Typed, HeadsKept, NEW m \in BOOLEAN, prs' = Append(prs, NewPR(m)),
           head' = head, head # "none"
    PROVE  /\ Extends /\ HeadsKept' /\ DOMAIN prs' = 1 .. Len(prs) + 1
           /\ Len(prs') = Len(prs) + 1 /\ prs'[Len(prs) + 1] = NewPR(m)
           /\ NewPR(m).body = m /\ NewPR(m).notes = 0
           /\ \A q \in DOMAIN prs : prs'[q] = prs[q]
<1> DEFINE n == Len(prs)
           f == NewPR(m)
<1>1. n \in Nat /\ DOMAIN prs = 1 .. n /\ \A q \in 1 .. n : prs[q] \in PRs
  BY AsFunction DEF Typed
<1>2. /\ f \in PRs /\ f.at = head /\ f.heads = {head} /\ f.body = m /\ f.notes = 0
      /\ f.state = "open"
  BY DEF NewPR, PRs, PRStates, Typed
<1> HIDE DEF f
<1>3. /\ prs' \in Seq(PRs) /\ Len(prs') = n + 1
      /\ prs'[n + 1] = f /\ \A q \in 1 .. n : prs'[q] = prs[q]
  BY <1>1, <1>2 DEF Typed, f
<1>4. DOMAIN prs' = 1 .. n + 1 /\ \A q \in DOMAIN prs' : q \in 1 .. n \/ q = n + 1
  BY <1>1, <1>3, AsFunction
<1>5. Extends
  BY <1>1, <1>3, <1>4 DEF Extends
<1>6. HeadsKept'
  BY <1>1, <1>2, <1>3, <1>4 DEF HeadsKept, Open
<1> QED BY <1>1, <1>2, <1>3, <1>4, <1>5, <1>6 DEF f

\* Nothing that people do makes a marker or forgets a head.
LEMMA PeopleKeep ==
    ASSUME Typed, HeadsKept, People
    PROVE  Keeps /\ HeadsKept' /\ head' \in Heads /\ moved' \in BOOLEAN
<1>0. DOMAIN prs = 1 .. Len(prs) /\ Len(prs) \in Nat /\ \A p \in DOMAIN prs : prs[p] \in PRs
  BY AsFunction DEF Typed
<1>1. ASSUME NEW p \in Open, NEW s \in {"merged", "closed"}, head' = head,
             prs' = [prs EXCEPT ![p].state = s, ![p].at = head]
      PROVE  Keeps /\ HeadsKept'
  <2>1. p \in DOMAIN prs /\ head \in Heads /\ head \in prs[p].heads /\ s \in PRStates
    BY <1>1 DEF Open, HeadsKept, Typed, PRStates
  <2>2. prs' = [prs EXCEPT ![p] = Shut(prs[p], s, head)]
    BY <1>0, <1>1, <2>1 DEF Shut
  <2>3. PICK f : f = Shut(prs[p], s, head)
    OBVIOUS
  <2>4. /\ f \in PRs /\ f.state = s /\ f.at = head /\ f.body = prs[p].body
        /\ f.notes = prs[p].notes /\ f.heads = prs[p].heads
    BY <1>0, <2>1, <2>3, Closed
  <2>5. /\ Extends /\ HeadsKept' /\ DOMAIN prs' = DOMAIN prs
        /\ prs'[p] = f /\ \A q \in DOMAIN prs : q # p => prs'[q] = prs[q]
    <3>1. prs' = [prs EXCEPT ![p] = f]
      BY <2>2, <2>3, Zenon
    <3>2. f.at \in f.heads /\ f.state # "open"
      BY <1>1, <2>1, <2>4
    <3> QED BY <1>1, <2>1, <2>4, <3>1, <3>2, OneChanges
  <2> QED BY <2>4, <2>5 DEF Keeps
<1>2. ASSUME NEW p \in DOMAIN prs, prs[p].state = "closed", prs[p].at = head, head # "none",
             head' = head, prs' = [prs EXCEPT ![p].state = "open"]
      PROVE  Keeps /\ HeadsKept'
  <2>1. prs' = [prs EXCEPT ![p] = [prs[p] EXCEPT !.state = "open"]] /\ prs[p] \in PRs
    BY <1>0, <1>2
  <2>2. PICK f : f = [prs[p] EXCEPT !.state = "open"]
    OBVIOUS
  <2>3. /\ f \in PRs /\ f.state = "open" /\ f.at = prs[p].at /\ f.body = prs[p].body
        /\ f.notes = prs[p].notes /\ f.heads = prs[p].heads
    BY <2>1, <2>2, Reopened
  <2>4. prs[p].at \in prs[p].heads
    BY DEF HeadsKept
  <2>5. /\ Extends /\ HeadsKept' /\ DOMAIN prs' = DOMAIN prs
        /\ prs'[p] = f /\ \A q \in DOMAIN prs : q # p => prs'[q] = prs[q]
    BY <1>2, <2>1, <2>2, <2>3, <2>4, OneChanges
  <2> QED BY <2>3, <2>5 DEF Keeps
<1>3. ASSUME head # "none", head' = head, prs' = Append(prs, NewPR(FALSE))
      PROVE  Keeps /\ HeadsKept'
  <2>1. /\ Extends /\ HeadsKept' /\ DOMAIN prs' = 1 .. Len(prs) + 1
        /\ prs'[Len(prs) + 1] = NewPR(FALSE)
        /\ ~NewPR(FALSE).body /\ NewPR(FALSE).notes = 0
        /\ \A q \in DOMAIN prs : prs'[q] = prs[q]
    BY <1>3, FALSE \in BOOLEAN, OneOpens, Zenon
  <2>2. \A p \in DOMAIN prs' : p \notin DOMAIN prs => p = Len(prs) + 1
    BY <1>0, <2>1
  <2> QED BY <2>1, <2>2, Zenon DEF Keeps
<1>4. ASSUME NEW h \in {"none", "source", "foreign"}, MoveBranch(h)
      PROVE  Keeps /\ HeadsKept' /\ head' \in Heads
  BY <1>4, BranchMoves DEF Heads
<1>5. ASSUME UNCHANGED <<head, prs>>
      PROVE  Keeps /\ HeadsKept'
  BY <1>0, <1>5 DEF Keeps, Extends, HeadsKept, Open, Typed
<1>6. Keeps /\ HeadsKept'
  <2>1. ASSUME NEW p \in Open, People,
               \/ prs' = [prs EXCEPT ![p].state = "merged", ![p].at = head] /\ head' = head
               \/ prs' = [prs EXCEPT ![p].state = "closed", ![p].at = head] /\ head' = head
        PROVE  Keeps /\ HeadsKept'
    BY <1>1, <2>1, "merged" \in {"merged", "closed"}, "closed" \in {"merged", "closed"}, Zenon
  <2> QED BY <1>2, <1>3, <1>4, <1>5, <2>1, Zenon DEF People
<1>7. head' \in Heads /\ moved' \in BOOLEAN
  BY <1>4 DEF People, Typed
<1> QED BY <1>6, <1>7

-----------------------------------------------------------------------------
\* What the steps leave of the invariant when they do not forget.

\* Without a new marker there is the trace there was, and none where there was
\* none.
LEMMA TracesKept ==
    ASSUME Typed, Traces, Keeps, followUp' = followUp
    PROVE  /\ Traces'
           /\ (\A p \in DOMAIN prs : ~Marked(p)) => (\A p \in DOMAIN prs : ~Marked(p))'
<1>1. /\ Len(prs) \in Nat /\ Len(prs') \in Nat /\ Len(prs) <= Len(prs')
      /\ DOMAIN prs = 1 .. Len(prs) /\ DOMAIN prs' = 1 .. Len(prs')
  BY AsFunction DEF Typed, Keeps, Extends
<1>2. /\ \A p \in DOMAIN prs : prs'[p].body = prs[p].body /\ prs'[p].notes = prs[p].notes
      /\ \A p \in DOMAIN prs' : p \notin DOMAIN prs => ~prs'[p].body /\ prs'[p].notes = 0
  BY DEF Keeps, Extends
<1>3. (followUp => Len(prs) > 0)'
  BY <1>1 DEF Traces
<1>4. ASSUME NEW p \in DOMAIN prs'
      PROVE  /\ prs'[p].body => ~followUp'
             /\ prs'[p].notes > 0 => followUp' /\ p = 1 /\ prs'[p].notes = 1
  BY <1>2 DEF Traces
<1>5. ASSUME NEW p \in DOMAIN prs', NEW q \in DOMAIN prs', prs'[p].body, prs'[q].body
      PROVE  p = q
  BY <1>2, <1>5 DEF Traces
<1>6. (\A p \in DOMAIN prs : ~Marked(p)) => (\A p \in DOMAIN prs : ~Marked(p))'
  BY <1>2 DEF Marked
<1> QED BY <1>3, <1>4, <1>5, <1>6 DEF Traces

\* What Publish remembers of its pull request, and the observer of its own,
\* stays true.
LEMMA MemoryKept ==
    ASSUME Typed, Extends, Reads, Sights
    PROVE  /\ mem' = mem => Reads'
           /\ seen' = seen => Sights'
<1>1. \A p \in DOMAIN prs : p \in DOMAIN prs'
  BY AsFunction DEF Typed, Extends
<1>2. ASSUME mem' = mem PROVE Reads'
  BY <1>1, <1>2 DEF Reads, Extends
<1>3. ASSUME seen' = seen PROVE Sights'
  <2>1. CASE seen.pr = 0
    BY <1>3, <2>1 DEF Sights
  <2>2. CASE seen.pr # 0
    BY <1>1, <1>3, <2>2 DEF Sights, Extends
  <2> QED BY <2>1, <2>2
<1> QED BY <1>2, <1>3

\* A command that only reads.
LEMMA ReadOnly ==
    ASSUME Typed, Traces, HeadsKept, Reads, Sights, UNCHANGED <<task, github, seen>>
    PROVE  /\ Traces' /\ HeadsKept' /\ Sights'
           /\ followUp' \in BOOLEAN /\ fits' \in BOOLEAN /\ moved' \in BOOLEAN /\ head' \in Heads
           /\ prs' \in Seq(PRs)
           /\ mem' = mem => Reads'
           /\ \A p \in DOMAIN prs : Marked(p)' = Marked(p)
           /\ DOMAIN prs' = DOMAIN prs
BY DEF Typed, Traces, HeadsKept, Open, Reads, Sights, task, github, Marked

\* What one response tells of a pull request is true of it.
LEMMA FetchedIsTrue ==
    ASSUME Typed, HeadsKept, NEW p \in DOMAIN prs, p # 0, mem' = Fetched(p), prs' = prs
    PROVE  /\ mem' \in Mems /\ Reads' /\ mem'.pr = p /\ mem'.remote = mem.remote
           /\ mem'.body = prs[p].body
<1>1. prs[p] \in PRs /\ p \in Nat
  BY AsFunction DEF Typed
<1>2. HeadOf(p) \in prs[p].heads /\ HeadOf(p) \in Heads
  BY <1>1 DEF HeadOf, HeadsKept, Typed, PRs
<1>3. /\ mem' \in Mems /\ mem'.pr = p /\ mem'.remote = mem.remote
      /\ mem'.body = prs[p].body /\ mem'.head = HeadOf(p)
  BY <1>1, <1>2 DEF Fetched, Typed, Mems, PRs
<1> QED BY <1>1, <1>2, <1>3 DEF Reads

-----------------------------------------------------------------------------
\* The steps of Publish.

\* An attempt ends without a delivery.
LEMMA GivesUp ==
    ASSUME IInv, UNCHANGED <<task, seen, drift>>, pc' = "idle",
           result' \in {"blocked", "uncertain"}, mem' \in Mems, Reads',
           UNCHANGED github
    PROVE  IInv'
<1>1. Traces' /\ HeadsKept' /\ Sights' /\ Typed'
  BY ReadOnly DEF IInv, Typed
<1>2. Unmarked' /\ Places' /\ DeliveryIsTrue'
  BY DEF Unmarked, Places, DeliveryIsTrue
<1> QED BY <1>1, <1>2 DEF IInv

\* A command fails before its effect, or the text is refused.
LEMMA FailureHolds ==
    ASSUME IInv, UNCHANGED <<task, seen, drift>>, CommandFails \/ Refused
    PROVE  IInv'
<1>1. /\ UNCHANGED <<github, mem>> /\ pc' = "idle" /\ result' \in {"blocked", "uncertain"}
  BY DEF CommandFails, Refused, Return
<1>2. mem' \in Mems /\ Reads'
  BY <1>1, ReadOnly DEF IInv, Typed
<1> QED BY <1>1, <1>2, GivesUp

\* An attempt goes on after a read.
LEMMA GoesOn ==
    ASSUME IInv, UNCHANGED <<task, seen, drift, result, github>>, pc # "idle",
           pc' \in {"mark", "remote", "base", "push", "create", "latest", "note", "comment",
                    "confirm", "verify"},
           mem' \in Mems, Reads', Unmarked', Places'
    PROVE  IInv'
<1>1. Traces' /\ HeadsKept' /\ Sights' /\ Typed'
  BY ReadOnly DEF IInv, Typed
<1>2. DeliveryIsTrue'
  BY DEF IInv, Places, DeliveryIsTrue
<1> QED BY <1>1, <1>2 DEF IInv

\* The lookup of the pull request: none at all leads on unmarked, and the one
\* found is remembered as it was (PublicationPR, PR).
LEMMA FindHolds ==
    ASSUME IInv, Find
    PROVE  IInv'
<1>1. UNCHANGED <<task, seen, drift>> /\ pc = "find" /\ mem = Nothing
  BY DEF Find, Step, IInv, Places
<1>2. CASE CommandFails
  BY <1>1, <1>2, FailureHolds
<1>3. CASE UNCHANGED <<github, mem>> /\ Return("blocked")
  BY <1>1, <1>3, ReadOnly, GivesUp DEF Return, IInv, Typed
<1>4. CASE ~followUp /\ DOMAIN prs = {} /\ UNCHANGED <<github, mem>> /\ Goto("remote")
  <2>1. mem.pr = 0 /\ mem' \in Mems /\ Reads'
    BY <1>1, <1>4, ReadOnly DEF IInv, Typed, Nothing
  <2>2. Unmarked'
    BY <1>4 DEF Unmarked, github
  <2>3. Places'
    BY <1>1, <1>4, <2>1 DEF Places, IInv, Goto, task
  <2> QED BY <1>1, <1>4, <2>1, <2>2, <2>3, GoesOn DEF Goto
<1>5. ASSUME NEW p \in DOMAIN prs, p # 0, followUp => p = 1, UNCHANGED github,
             mem' = Fetched(p), Goto("mark")
      PROVE  IInv'
  <2>1. mem' \in Mems /\ Reads' /\ mem'.pr = p
    BY <1>5, FetchedIsTrue DEF IInv, github
  <2>2. Unmarked' /\ Places'
    BY <1>1, <1>5, <2>1 DEF Unmarked, Places, IInv, Goto, task
  <2> QED BY <1>1, <1>5, <2>1, <2>2, GoesOn DEF Goto
<1>6. followUp => 1 \in DOMAIN prs
  BY AsFunction DEF IInv, Typed, Traces
<1>7. 0 \notin DOMAIN prs
  BY AsFunction DEF IInv, Typed
<1>8. CASE followUp
  <2>1. ASSUME NEW p \in {1}, UNCHANGED github, mem' = Fetched(p), Goto("mark")
        PROVE  IInv'
    BY <1>5, <1>6, <1>8, <2>1
  <2> QED BY <1>2, <1>3, <1>8, <2>1, Zenon DEF Find
<1>9. CASE ~followUp
  <2>1. ASSUME NEW p \in DOMAIN prs, UNCHANGED github, mem' = Fetched(p), Goto("mark")
        PROVE  IInv'
    BY <1>5, <1>7, <1>9, <2>1
  <2> QED BY <1>2, <1>3, <1>4, <1>9, <2>1, Zenon DEF Find
<1> QED BY <1>8, <1>9

\* The first look for the marker: a follow-up goes on only when it has none,
\* a new task never goes on (TaskMarker, validatePublication).
LEMMA MarkHolds ==
    ASSUME IInv, Mark
    PROVE  IInv'
<1>1. /\ UNCHANGED <<task, seen, drift>> /\ pc = "mark" /\ mem.pr # 0 /\ mem.pr \in DOMAIN prs
      /\ mem.head # "none" => mem.head \in prs[mem.pr].heads
      /\ mem.body => prs[mem.pr].body
      /\ followUp => mem.pr = 1
  BY DEF Mark, Step, IInv, Places, Reads
<1>2. CASE CommandFails
  BY <1>1, <1>2, FailureHolds
<1>3. ASSUME ~CommandFails PROVE IInv'
  <2> DEFINE marker == mem.body \/ prs[mem.pr].notes > 0
  <2>1. UNCHANGED github /\ mem' = [mem EXCEPT !.marker = marker]
    BY <1>3 DEF Mark
  <2>2. /\ mem' \in Mems /\ mem'.pr = mem.pr /\ mem'.head = mem.head /\ mem'.body = mem.body
    BY <2>1 DEF IInv, Typed, Mems
  <2>3. Reads'
    BY <1>1, <2>1, <2>2 DEF Reads, github
  <2>4. CASE Return("published") /\ Valid(mem, marker, TRUE)
    <3>1. Marked(mem.pr) /\ "output" \in prs[mem.pr].heads
      BY <1>1, <2>4 DEF Valid, Marked
    <3>2. DeliveryIsTrue'
      BY <1>1, <2>1, <2>2, <3>1 DEF DeliveryIsTrue, github, Marked
    <3>3. Unmarked' /\ Places'
      BY <2>4 DEF Unmarked, Places, Return
    <3>4. Traces' /\ HeadsKept' /\ Sights' /\ Typed'
      BY <1>1, <2>1, <2>2, <2>4, ReadOnly DEF IInv, Typed, Return
    <3> QED BY <2>3, <3>2, <3>3, <3>4 DEF IInv
  <2>5. CASE Return("blocked")
    BY <1>1, <2>1, <2>2, <2>3, <2>5, GivesUp DEF Return
  <2>6. CASE followUp /\ ~marker /\ Goto("remote")
    <3>1. \A p \in DOMAIN prs : ~Marked(p)
      BY <1>1, <2>6 DEF IInv, Traces, Marked, Reads
    <3>2. Unmarked'
      BY <2>1, <3>1 DEF Unmarked, github, Marked
    <3>3. Places'
      BY <1>1, <2>2, <2>6 DEF Places, IInv, Goto, task
    <3> QED BY <1>1, <2>1, <2>2, <2>3, <2>6, <3>2, <3>3, GoesOn DEF Goto
  <2>7. \/ Return("published") /\ Valid(mem, marker, TRUE)
        \/ Return("blocked")
        \/ followUp /\ ~marker /\ Goto("remote")
    BY <1>3 DEF Mark, Valid
  <2> QED BY <2>4, <2>5, <2>6, <2>7
<1> QED BY <1>2, <1>3

\* The branch is read, for a text that can be published (RemoteRevision).
LEMMA RemoteHolds ==
    ASSUME IInv, Remote
    PROVE  IInv'
<1>1. UNCHANGED <<task, seen, drift>> /\ pc = "remote"
  BY DEF Remote, Step
<1>2. CASE CommandFails \/ Refused
  BY <1>1, <1>2, FailureHolds
<1>3. CASE fits /\ mem' = [mem EXCEPT !.remote = head] /\ Goto("base") /\ UNCHANGED github
  <2>1. mem' \in Mems /\ mem'.pr = mem.pr /\ mem'.head = mem.head /\ mem'.body = mem.body
    BY <1>3 DEF IInv, Typed, Mems
  <2>2. Reads'
    BY <1>3, <2>1 DEF IInv, Reads, github
  <2>3. Unmarked'
    BY <1>1, <1>3 DEF IInv, Unmarked, github, Marked
  <2>4. Places'
    BY <1>1, <1>3, <2>1 DEF IInv, Places, Goto, task
  <2> QED BY <1>1, <1>3, <2>1, <2>2, <2>3, <2>4, GoesOn DEF Goto
<1> QED BY <1>2, <1>3 DEF Remote

\* The default branch is read, and what the branch may be decides where the
\* attempt goes (Publish).
LEMMA BaseHolds ==
    ASSUME IInv, Base
    PROVE  IInv'
<1>1. UNCHANGED <<task, seen, drift>> /\ pc = "base"
  BY DEF Base, Step
<1>2. CASE CommandFails
  BY <1>1, <1>2, FailureHolds
<1>3. ASSUME ~CommandFails PROVE IInv'
  <2>1. UNCHANGED <<github, mem>>
    BY <1>3 DEF Base
  <2>2. mem' \in Mems /\ Reads'
    BY <1>1, <2>1, ReadOnly DEF IInv, Typed
  <2>3. CASE Return("blocked")
    BY <1>1, <2>1, <2>2, <2>3, GivesUp DEF Return
  <2>4. \/ Return("blocked")
        \/ Goto(IF mem.pr = 0 THEN "create" ELSE "latest")
        \/ mem.remote = Pushable /\ Goto("push")
    BY <1>3 DEF Base
  <2>5. ASSUME NEW to \in {"create", "latest", "push"}, Goto(to),
               to = "create" => mem.pr = 0, to = "latest" => mem.pr # 0,
               to = "push" => mem.remote = Pushable
        PROVE  IInv'
    <3>1. Unmarked'
      BY <1>1, <2>1 DEF IInv, Unmarked, github, Marked
    <3>2. Places'
      BY <1>1, <2>1, <2>5 DEF IInv, Places, Goto, task, Pushable
    <3> QED BY <1>1, <2>1, <2>2, <2>5, <3>1, <3>2, GoesOn DEF Goto
  <2> QED BY <2>3, <2>4, <2>5
<1> QED BY <1>2, <1>3

\* The push is the one step of Publish that moves the branch.
LEMMA PushHolds ==
    ASSUME IInv, Push
    PROVE  IInv'
<1>1. UNCHANGED <<task, seen, drift>> /\ pc = "push"
  BY DEF Push, Step
<1>2. CASE CommandFails
  BY <1>1, <1>2, FailureHolds
<1>3. CASE Return("uncertain") /\ UNCHANGED <<github, mem>>
  BY <1>1, <1>3, ReadOnly, GivesUp DEF Return, IInv, Typed
<1>4. ASSUME Pushed PROVE IInv'
  <2>1. Keeps /\ HeadsKept' /\ head' \in Heads /\ mem' = mem /\ moved' = moved
    BY <1>4, BranchMoves DEF Pushed, IInv, Heads
  <2>2. Traces' /\ ((\A p \in DOMAIN prs : ~Marked(p)) => (\A p \in DOMAIN prs : ~Marked(p))')
    BY <1>1, <2>1, TracesKept DEF IInv, task
  <2>3. Reads' /\ Sights'
    BY <1>1, <2>1, MemoryKept DEF IInv, Keeps
  <2>4. /\ pc' \in {"idle", "create", "latest"}
        /\ pc' = "create" => mem.pr = 0
        /\ pc' = "latest" => mem.pr # 0
        /\ result' \in {result, "uncertain"}
    BY <1>1 DEF Push, CommandFails, Return, Goto, Calm
  <2>5. Unmarked'
    BY <1>1, <2>2 DEF IInv, Unmarked
  <2>6. result # "published"
    BY <1>1 DEF IInv, Places
  <2>7. Places' /\ DeliveryIsTrue'
    BY <1>1, <2>1, <2>4, <2>6 DEF IInv, Places, DeliveryIsTrue, task
  <2>8. Typed'
    BY <1>1, <2>1, <2>4 DEF IInv, Typed, Keeps, Extends, task
  <2> QED BY <2>1, <2>2, <2>3, <2>5, <2>7, <2>8 DEF IInv
<1> QED BY <1>2, <1>3, <1>4 DEF Push

\* The new pull request is the task's first marker, also when the answer is
\* lost (createPR).
LEMMA CreateHolds ==
    ASSUME IInv, Create
    PROVE  IInv'
<1>1. /\ UNCHANGED <<task, seen, drift, head, moved>> /\ pc = "create" /\ ~followUp
      /\ mem.pr = 0 /\ result # "published"
  BY DEF Create, Step, IInv, Places
<1>2. CASE CommandFails
  BY <1>1, <1>2, FailureHolds
<1>3. CASE Return("uncertain") /\ UNCHANGED <<prs, mem>>
  BY <1>1, <1>3, ReadOnly, GivesUp DEF Return, IInv, Typed, github
<1>4. ASSUME head # "none", prs' = Append(prs, NewPR(TRUE)),
             \/ Return("uncertain") /\ UNCHANGED mem
             \/ Goto("confirm") /\ mem' = [mem EXCEPT !.pr = Len(prs) + 1]
      PROVE  IInv'
  <2>1. /\ Extends /\ HeadsKept' /\ DOMAIN prs' = 1 .. Len(prs) + 1
        /\ Len(prs') = Len(prs) + 1 /\ prs'[Len(prs) + 1] = NewPR(TRUE)
        /\ NewPR(TRUE).body = TRUE /\ NewPR(TRUE).notes = 0
        /\ \A q \in DOMAIN prs : prs'[q] = prs[q]
    BY <1>1, <1>4, TRUE \in BOOLEAN, OneOpens, Zenon DEF IInv
  <2>2. Len(prs) \in Nat /\ DOMAIN prs = 1 .. Len(prs)
    BY AsFunction DEF IInv, Typed
  <2>3. \A q \in DOMAIN prs' : q \in DOMAIN prs \/ q = Len(prs) + 1
    BY <2>1, <2>2
  <2>4. \A q \in DOMAIN prs : ~prs[q].body /\ ~(prs[q].notes > 0)
    BY <1>1 DEF IInv, Unmarked, Marked
  <2>5. Len(prs) + 1 \notin DOMAIN prs /\ Len(prs) + 1 \in DOMAIN prs' /\ ~(0 > 0)
    BY <2>1, <2>2
  <2>6. Traces'
    BY <1>1, <2>1, <2>3, <2>4, <2>5, Zenon DEF Traces, task
  <2>7. Sights'
    BY <1>1, <2>1, MemoryKept DEF IInv
  <2>8. CASE Return("uncertain") /\ UNCHANGED mem
    <3>1. Reads'
      BY <2>1, <2>8, MemoryKept DEF IInv
    <3>2. Unmarked' /\ Places' /\ DeliveryIsTrue' /\ Typed'
      BY <1>1, <2>1, <2>8 DEF IInv, Unmarked, Places, DeliveryIsTrue, Typed, Return, Extends,
                              task
    <3> QED BY <2>1, <2>6, <2>7, <3>1, <3>2 DEF IInv
  <2>9. CASE Goto("confirm") /\ mem' = [mem EXCEPT !.pr = Len(prs) + 1]
    <3>1. /\ mem' \in Mems /\ mem'.pr = Len(prs) + 1 /\ mem'.head = "none" /\ ~mem'.body
      BY <1>1, <2>2, <2>9 DEF IInv, Typed, Mems, Reads
    <3>2. Reads'
      BY <2>2, <2>5, <3>1 DEF Reads
    <3>3. Unmarked' /\ Places' /\ DeliveryIsTrue'
      BY <1>1, <2>2, <2>9, <3>1 DEF IInv, Unmarked, Places, DeliveryIsTrue, Goto, task
    <3>4. Typed'
      BY <1>1, <2>1, <2>9, <3>1 DEF IInv, Typed, Goto, Extends, task
    <3> QED BY <2>1, <2>6, <2>7, <3>2, <3>3, <3>4 DEF IInv
  <2> QED BY <1>4, <2>8, <2>9
<1> QED BY <1>2, <1>3, <1>4, Zenon DEF Create

\* updatePR reads the pull request again.
LEMMA LatestHolds ==
    ASSUME IInv, Latest
    PROVE  IInv'
<1>1. /\ UNCHANGED <<task, seen, drift>> /\ pc = "latest" /\ mem.pr # 0 /\ mem.pr \in DOMAIN prs
      /\ followUp /\ mem.pr = 1
  BY DEF Latest, Step, IInv, Places, Reads
<1>2. CASE CommandFails
  BY <1>1, <1>2, FailureHolds
<1>3. ASSUME UNCHANGED github, mem' = Fetched(mem.pr), Goto("note") \/ Return("blocked")
      PROVE  IInv'
  <2>1. mem' \in Mems /\ Reads' /\ mem'.pr = mem.pr
    BY <1>1, <1>3, FetchedIsTrue DEF IInv, github
  <2>2. CASE Return("blocked")
    BY <1>1, <1>3, <2>1, <2>2, GivesUp DEF Return
  <2>3. CASE Goto("note")
    <3>1. Unmarked'
      BY <1>1, <1>3 DEF IInv, Unmarked, github, Marked
    <3>2. Places'
      BY <1>1, <2>1, <2>3 DEF IInv, Places, Goto, task
    <3> QED BY <1>1, <1>3, <2>1, <2>3, <3>1, <3>2, GoesOn DEF Goto
  <2> QED BY <1>3, <2>2, <2>3
<1> QED BY <1>2, <1>3, Zenon DEF Latest

\* updatePR looks for the marker before it comments.
LEMMA NoteHolds ==
    ASSUME IInv, Note
    PROVE  IInv'
<1>1. UNCHANGED <<task, seen, drift>> /\ pc = "note"
  BY DEF Note, Step
<1>2. CASE CommandFails
  BY <1>1, <1>2, FailureHolds
<1>3. ASSUME UNCHANGED <<github, mem>>, NEW to \in {"confirm", "comment"}, Goto(to)
      PROVE  IInv'
  <2>1. mem' \in Mems /\ Reads'
    BY <1>1, <1>3, ReadOnly DEF IInv, Typed
  <2>2. Unmarked'
    BY <1>1, <1>3 DEF IInv, Unmarked, github, Marked
  <2>3. Places'
    BY <1>1, <1>3 DEF IInv, Places, Goto, task
  <2> QED BY <1>1, <1>3, <2>1, <2>2, <2>3, GoesOn DEF Goto
<1> QED BY <1>2, <1>3 DEF Note

\* The comment is the follow-up's first marker, also when the answer is lost
\* (updatePR).
LEMMA CommentHolds ==
    ASSUME IInv, Comment
    PROVE  IInv'
<1>1. /\ UNCHANGED <<task, seen, drift>> /\ pc = "comment" /\ followUp /\ mem.pr = 1
      /\ mem.pr \in DOMAIN prs /\ result # "published"
  BY DEF Comment, Step, IInv, Places, Reads
<1>2. CASE CommandFails
  BY <1>1, <1>2, FailureHolds
<1>3. ASSUME Commented, Goto("confirm") \/ Return("uncertain")
      PROVE  IInv'
  <2>0. prs[1] \in PRs /\ UNCHANGED <<head, moved, mem>>
    BY <1>1, <1>3, AsFunction DEF IInv, Typed, Commented
  <2>1. PICK f : f = [prs[1] EXCEPT !.notes = @ + 1]
    OBVIOUS
  <2>2. /\ f \in PRs /\ f.state = prs[1].state /\ f.at = prs[1].at
        /\ f.body = prs[1].body /\ f.notes = prs[1].notes + 1 /\ f.heads = prs[1].heads
    BY <2>0, <2>1, Annotated
  <2>3. prs' = [prs EXCEPT ![1] = f]
    BY <1>1, <1>3, <2>1 DEF Commented
  <2>4. /\ f.at \in f.heads
        /\ f.state = "open" => head \in f.heads /\ head # "none"
    BY <1>1, <2>2 DEF IInv, HeadsKept, Open
  <2>5. /\ Extends /\ HeadsKept' /\ DOMAIN prs' = DOMAIN prs /\ Len(prs') = Len(prs)
        /\ prs'[1] = f /\ \A q \in DOMAIN prs : q # 1 => prs'[q] = prs[q]
    BY <1>1, <2>0, <2>2, <2>3, <2>4, OneChanges DEF IInv
  <2>6. /\ \A p \in DOMAIN prs : ~prs[p].body /\ ~(prs[p].notes > 0)
        /\ prs[1].notes = 0
    BY <1>1, <2>0 DEF IInv, Unmarked, Marked, PRs
  <2>7. Traces'
    BY <1>1, <2>2, <2>5, <2>6 DEF IInv, Traces, task
  <2>8. Reads' /\ Sights'
    BY <1>1, <2>0, <2>5, MemoryKept DEF IInv
  <2>9. Unmarked' /\ Places' /\ DeliveryIsTrue'
    BY <1>1, <1>3, <2>0 DEF IInv, Unmarked, Places, DeliveryIsTrue, Goto, Return, task
  <2>10. Typed'
    BY <1>1, <1>3, <2>0, <2>5 DEF IInv, Typed, Extends, Goto, Return, task
  <2> QED BY <2>5, <2>7, <2>8, <2>9, <2>10 DEF IInv
<1> QED BY <1>2, <1>3 DEF Comment

\* A success is reported on what the closing reads found.
LEMMA Delivered ==
    ASSUME IInv, UNCHANGED <<task, seen, drift, github>>, mem' \in Mems, Reads',
           mem'.pr # 0, "output" = mem'.head, mem'.body \/ prs[mem'.pr].notes > 0,
           Return("published")
    PROVE  IInv'
<1>1. Traces' /\ HeadsKept' /\ Sights' /\ Typed'
  BY ReadOnly DEF IInv, Typed, Return
<1>2. Unmarked' /\ Places'
  BY DEF Unmarked, Places, Return
<1>3. DeliveryIsTrue'
  BY DEF DeliveryIsTrue, Reads, Marked, github
<1> QED BY <1>1, <1>2, <1>3 DEF IInv

\* The closing read of the pull request (createPR, updatePR).
LEMMA ConfirmHolds ==
    ASSUME IInv, Confirm
    PROVE  IInv'
<1>1. /\ UNCHANGED <<task, seen, drift>> /\ pc = "confirm" /\ mem.pr # 0
      /\ mem.pr \in DOMAIN prs
      /\ followUp => mem.pr = 1
  BY DEF Confirm, Step, IInv, Places, Reads
<1>2. CASE CommandFails
  BY <1>1, <1>2, FailureHolds
<1>3. ASSUME ~CommandFails PROVE IInv'
  <2>1. UNCHANGED github /\ mem' = Fetched(mem.pr)
    BY <1>3 DEF Confirm
  <2>2. mem' \in Mems /\ Reads' /\ mem'.pr = mem.pr
    BY <1>1, <2>1, FetchedIsTrue DEF IInv, github
  <2>3. CASE followUp /\ Goto("verify")
    <3>1. Unmarked' /\ Places'
      BY <1>1, <2>2, <2>3 DEF IInv, Unmarked, Places, Goto, task
    <3> QED BY <1>1, <2>1, <2>2, <2>3, <3>1, GoesOn DEF Goto
  <2>4. CASE Return("uncertain")
    BY <1>1, <2>1, <2>2, <2>4, GivesUp DEF Return
  <2>5. CASE Return("published") /\ Valid(mem', mem'.body, FALSE)
    <3>1. mem'.body /\ mem'.head = "output"
      BY <2>5 DEF Valid
    <3> QED BY <1>1, <2>1, <2>2, <2>5, <3>1, Delivered
  <2> QED BY <1>3, <2>3, <2>4, <2>5 DEF Confirm
<1> QED BY <1>2, <1>3

\* The closing look for a follow-up's marker (updatePR).
LEMMA VerifyHolds ==
    ASSUME IInv, Verify
    PROVE  IInv'
<1>1. UNCHANGED <<task, seen, drift>> /\ pc = "verify" /\ mem.pr # 0
  BY DEF Verify, Step, IInv, Places
<1>2. CASE CommandFails
  BY <1>1, <1>2, FailureHolds
<1>3. ASSUME ~CommandFails PROVE IInv'
  <2>1. UNCHANGED <<github, mem>>
    BY <1>3 DEF Verify
  <2>2. mem' \in Mems /\ Reads'
    BY <1>1, <2>1, ReadOnly DEF IInv, Typed
  <2>3. CASE Return("uncertain")
    BY <1>1, <2>1, <2>2, <2>3, GivesUp DEF Return
  <2>4. CASE Return("published") /\ Valid(mem, mem.body \/ prs[mem.pr].notes > 0, FALSE)
    BY <1>1, <2>1, <2>2, <2>4, Delivered DEF Valid
  <2> QED BY <1>3, <2>3, <2>4 DEF Verify
<1> QED BY <1>2, <1>3

-----------------------------------------------------------------------------
\* The other steps, and the theorems.

\* Before the first attempt there is no marker.
LEMMA InitHolds ==
    ASSUME Init
    PROVE  IInv
<1> DEFINE first == [state |-> "open", at |-> "source", owned |-> TRUE, body |-> FALSE,
                     notes |-> 0, heads |-> {"source"}]
<1>1. first \in PRs
  BY DEF PRs, PRStates, Heads
<1>2. mem = Nothing /\ mem \in Mems /\ mem.pr = 0 /\ mem.head = "none" /\ ~mem.body
  BY DEF Init, Nothing, Mems, Heads
<1>3. seen = Unseen /\ seen.pr = 0 /\ seen.head = "none" /\ seen.status = "none"
  BY DEF Init, Unseen
<1>4. CASE followUp
  <2>1. prs = <<first>> /\ head = "source"
    BY <1>4 DEF Init
  <2>2. prs \in Seq(PRs) /\ Len(prs) = 1 /\ DOMAIN prs = {1} /\ prs[1] = first
    BY <1>1, <2>1
  <2>3. first.at = "source" /\ first.heads = {"source"} /\ ~first.body /\ first.notes = 0
    OBVIOUS
  <2> HIDE DEF first
  <2>4. Typed /\ Reads /\ Places /\ DeliveryIsTrue /\ Sights /\ Unmarked
    BY <1>2, <1>3, <2>1, <2>2 DEF Init, Typed, Reads, Places, DeliveryIsTrue, Sights, Unmarked,
                                 Heads
  <2>5. HeadsKept
    BY <2>1, <2>2, <2>3 DEF HeadsKept
  <2>6. Traces
    BY <2>1, <2>2, <2>3 DEF Traces
  <2> QED BY <2>4, <2>5, <2>6 DEF IInv
<1>5. CASE ~followUp
  <2>1. prs = <<>> /\ head = "none"
    BY <1>5 DEF Init
  <2>2. prs \in Seq(PRs) /\ DOMAIN prs = {}
    BY <2>1
  <2>3. Typed /\ Reads /\ Places /\ DeliveryIsTrue /\ Sights /\ Unmarked
    BY <1>2, <1>3, <2>1, <2>2 DEF Init, Typed, Reads, Places, DeliveryIsTrue, Sights, Unmarked,
                                 Heads
  <2>4. HeadsKept /\ Traces
    BY <1>5, <2>2 DEF HeadsKept, Traces
  <2> QED BY <2>3, <2>4 DEF IInv
<1> QED BY <1>4, <1>5

\* A new attempt remembers nothing.
LEMMA BeginHolds ==
    ASSUME IInv, Begin
    PROVE  IInv'
<1>1. /\ UNCHANGED <<task, github, seen, drift, result>> /\ mem' = Nothing /\ pc' = "find"
      /\ result # "published"
  BY DEF Begin, Goto
<1>2. mem' \in Mems /\ mem'.pr = 0 /\ mem'.head = "none" /\ ~mem'.body
  BY <1>1 DEF Nothing, Mems, Heads
<1>3. Traces' /\ HeadsKept' /\ Sights' /\ Typed'
  BY <1>1, <1>2, ReadOnly DEF IInv, Typed
<1>4. Unmarked' /\ Places' /\ DeliveryIsTrue' /\ Reads'
  BY <1>1, <1>2 DEF Unmarked, Places, DeliveryIsTrue, Reads
<1> QED BY <1>3, <1>4 DEF IInv

\* Nor does a process that died.
LEMMA CrashHolds ==
    ASSUME IInv, Crash
    PROVE  IInv'
<1>1. /\ UNCHANGED <<task, github, seen, drift>> /\ mem' = Nothing /\ pc' = "idle"
      /\ result' = "uncertain"
  BY DEF Crash, Return
<1>2. mem' \in Mems /\ mem'.pr = 0 /\ mem'.head = "none" /\ ~mem'.body
  BY <1>1 DEF Nothing, Mems, Heads
<1>3. Reads'
  BY <1>2 DEF Reads
<1> QED BY <1>1, <1>2, <1>3, GivesUp

\* What people do leaves what Publish knows of its markers.
LEMMA PeopleHold ==
    ASSUME IInv, People
    PROVE  IInv'
<1>1. UNCHANGED <<task, publisher, seen>> /\ drift' = drift + 1
  BY DEF People
<1>2. Keeps /\ HeadsKept' /\ head' \in Heads /\ moved' \in BOOLEAN
  BY PeopleKeep DEF IInv
<1>3. Traces' /\ ((\A p \in DOMAIN prs : ~Marked(p)) => (\A p \in DOMAIN prs : ~Marked(p))')
  BY <1>1, <1>2, TracesKept DEF IInv, task
<1>4. Reads' /\ Sights'
  BY <1>1, <1>2, MemoryKept DEF IInv, Keeps, publisher
<1>5. Unmarked'
  BY <1>1, <1>3 DEF IInv, Unmarked, publisher
<1>6. Places'
  BY <1>1 DEF IInv, Places, publisher, task, Pushable
<1>7. Typed'
  BY <1>1, <1>2 DEF IInv, Typed, Keeps, Extends, publisher, task
<1>8. DeliveryIsTrue'
  <2>1. \A p \in DOMAIN prs : p \in DOMAIN prs'
    BY <1>2, AsFunction DEF IInv, Typed, Keeps, Extends
  <2> QED BY <1>1, <1>2, <2>1 DEF IInv, DeliveryIsTrue, Marked, Keeps, Extends, publisher
<1> QED BY <1>2, <1>3, <1>4, <1>5, <1>6, <1>7, <1>8 DEF IInv

\* The observer attaches a status to the head it was computed for
\* (applyOwnedPRStatus).
LEMMA ObserveHolds ==
    ASSUME IInv, Observe
    PROVE  IInv'
<1>1. UNCHANGED <<task, github, publisher, drift>>
  BY DEF Observe
<1>2. /\ Typed' /\ Traces' /\ Unmarked' /\ HeadsKept' /\ Reads' /\ Places' /\ DeliveryIsTrue'
  BY <1>1 DEF IInv, Typed, Traces, Unmarked, Marked, HeadsKept, Open, Reads, Places,
              DeliveryIsTrue, task, github, publisher, Pushable
<1>3. 0 \notin DOMAIN prs /\ prs' = prs
  BY <1>1, AsFunction DEF IInv, Typed, github
<1>4. Sights'
  <2>1. ASSUME seen' = Unseen PROVE Sights'
    BY <2>1 DEF Unseen, Sights
  <2>2. ASSUME NEW p \in Open, seen' = [Unseen EXCEPT !.pr = p] PROVE Sights'
    BY <1>3, <2>2 DEF Unseen, Sights, Open
  <2>3. ASSUME seen.pr # 0, seen.pr \in Open, seen' = [seen EXCEPT !.head = head],
               seen.head = "none"
        PROVE  Sights'
    BY <1>3, <2>3 DEF IInv, Sights, HeadsKept, Open
  <2>4. ASSUME seen.head # "none", HeadOf(seen.pr) = seen.head,
               seen' = [seen EXCEPT !.status = HeadOf(seen.pr)]
        PROVE  Sights'
    BY <1>3, <2>4 DEF IInv, Sights
  <2> QED BY <2>1, <2>2, <2>3, <2>4 DEF Observe
<1> QED BY <1>2, <1>4 DEF IInv

\* Every step keeps the invariant.
LEMMA StepHolds ==
    ASSUME IInv, [Next]_vars
    PROVE  IInv'
<1>1. CASE UNCHANGED vars
  BY <1>1 DEF vars, task, github, publisher, IInv, Typed, Traces, Unmarked, Marked, HeadsKept,
              Open, Reads, Places, DeliveryIsTrue, Sights, Pushable
<1> QED
  BY <1>1, BeginHolds, FindHolds, MarkHolds, RemoteHolds, BaseHolds, PushHolds, CreateHolds,
     LatestHolds, NoteHolds, CommentHolds, ConfirmHolds, VerifyHolds, CrashHolds, PeopleHold,
     ObserveHolds DEF Next, Publishing

\* Two marked pull requests would be two traces.
LEMMA InvariantSuffices ==
    ASSUME IInv
    PROVE  PublicationIsTrue
<1> DEFINE marks == {p \in DOMAIN prs : Marked(p)}
<1>1. \A p \in DOMAIN prs : prs[p] \in PRs
  BY AsFunction DEF IInv, Typed
<1>2. \A p, q \in marks : p = q
  BY DEF IInv, Traces, Marked
<1>3. Cardinality(marks) <= 1
  <2>1. CASE marks = {}
    BY <2>1, FS_EmptySet
  <2>2. ASSUME NEW p \in marks PROVE marks = {p}
    BY <1>2
  <2> QED BY <2>1, <2>2, FS_Singleton
<1>4. PublishedOnce
  <2>1. \A p \in DOMAIN prs : prs[p].notes <= 1 /\ (prs[p].notes > 0 => ~prs[p].body /\ followUp)
    BY <1>1 DEF IInv, Traces, PRs
  <2> QED BY <1>3, <2>1 DEF PublishedOnce
<1>5. TypeOK
  BY <1>1 DEF IInv, Typed, TypeOK, PRs, PRStates
<1>6. StatusIsOwn
  BY DEF IInv, Sights, StatusIsOwn
<1> QED BY <1>4, <1>5, <1>6 DEF IInv, PublicationIsTrue

\* However often Publish is tried, whatever commands fail, lose their answers
\* or are cut off, and whatever people do between them, the task leaves one
\* marked pull request or one delivery comment, a reported success is on a
\* pull request that carries it, and a status the observer attaches is of the
\* head it shows (Publish, validatePublication, applyOwnedPRStatus).
THEOREM OneTrace == Spec => []PublicationIsTrue
<1>1. Init => IInv
  BY InitHolds
<1>2. IInv /\ [Next]_vars => IInv'
  BY StepHolds
<1>3. IInv => PublicationIsTrue
  BY InvariantSuffices
<1> QED BY <1>1, <1>2, <1>3, PTL DEF Spec

\* Publish moves the branch only from what the task may replace, with a text
\* that fits, and never once its marker is up (pushGit's lease, and TaskMarker
\* before the push).
THEOREM PushesAreLeased == Spec => PushIsLeased
<1> DEFINE Leased == head' # head /\ drift' = drift =>
                        /\ head = Pushable /\ head' = "output" /\ fits
                        /\ \A p \in DOMAIN prs : ~Marked(p)
<1>1. Init => IInv
  BY InitHolds
<1>2. IInv /\ [Next]_vars => IInv'
  BY StepHolds
<1>3. IInv /\ [Next]_vars => [Leased]_vars
  <2> SUFFICES ASSUME IInv, [Next]_vars, head' # head, drift' = drift
               PROVE  Leased
    OBVIOUS
  <2>1. ~CommandFails /\ ~Refused /\ ~UNCHANGED vars /\ ~UNCHANGED github
    BY DEF CommandFails, Refused, vars, github
  <2>2. ~Begin /\ ~Crash /\ ~Observe
    BY <2>1, Zenon DEF Begin, Crash, Observe
  <2>3. ~People
    <3>1. People => drift' = drift + 1
      BY Zenon DEF People
    <3> QED BY <3>1 DEF IInv, Typed
  <2>4. ~Find /\ ~Mark /\ ~Latest /\ ~Confirm
    BY <2>1, Zenon DEF Find, Mark, Latest, Confirm
  <2>5. ~Remote /\ ~Base /\ ~Note /\ ~Verify
    BY <2>1, Zenon DEF Remote, Base, Note, Verify
  <2>6. ~Create /\ ~Comment
    BY <2>1 DEF Create, Comment, Commented
  <2>7. Push
    BY <2>1, <2>2, <2>3, <2>4, <2>5, <2>6 DEF Next, Publishing
  <2>8. head = mem.remote /\ head' = "output" /\ pc = "push"
    BY <2>1, <2>7 DEF Push, Pushed, MoveBranch, Step, CommandFails, github
  <2> QED BY <2>8 DEF IInv, Places, Unmarked
<1> QED BY <1>1, <1>2, <1>3, PTL DEF Spec, PushIsLeased

=============================================================================
