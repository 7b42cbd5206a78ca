-------------------------- MODULE PRCapacityProofs --------------------------
(***************************************************************************)
(* Proofs about PRCapacity for every set of tasks and every limit: an      *)
(* unfinished delivery keeps its slot whatever reads overlap, and while    *)
(* only one read of the inventory runs at a time every open pull request   *)
(* is counted and no admission exceeds the limit.                          *)
(***************************************************************************)
EXTENDS PRCapacity, FiniteSetTheorems, TLAPS

\* No two reads of the inventory overlap.
OneReader == \A q, r \in Refreshers : q = r

\* What a read in progress may have missed: a pull request opened after the
\* list was read still has its reservation, and a confirmed release is final.
ReadIsSound ==
    \A r \in Refreshers :
        /\ read[r].pc \in {"listed", "done"} =>
             \A t \in Tasks : pr[t] = "open" /\ t \notin reopened /\ t \notin read[r].open => t \in reserved
        /\ \A t \in read[r].released : /\ task[t] \in {"published", "abandoned"}
                                       /\ pr[t] = "open" => t \in reopened

\* A pull request belongs to a task with an output.
OwnerHasOutput ==
    \A t \in Tasks : pr[t] # "none" =>
        task[t] \in {"publishing", "replayed", "uncertain", "published", "abandoned"}

\* The part of the type that the arguments below use.
Typed ==
    /\ task \in [Tasks -> Statuses] /\ pr \in [Tasks -> {"none", "open", "closed"}]
    /\ reserved \subseteq Tasks /\ saved \subseteq Tasks
    /\ read \in [Refreshers -> [pc: {"idle", "started", "listed", "done"},
                                open: SUBSET Tasks, released: SUBSET Tasks, stale: BOOLEAN]]
    /\ limit \in Limits

-----------------------------------------------------------------------------
(* Types *)

\* A status written to some tasks leaves a function of statuses.
LEMMA SetTasksType ==
    ASSUME Typed, NEW S, NEW status \in Statuses, SetTasks(S, status)
    PROVE  task' \in [Tasks -> Statuses]
BY DEF SetTasks, Typed

\* Ending or dropping a read leaves well-typed reads.
LEMMA IdleType ==
    Idle \in [pc: {"idle", "started", "listed", "done"},
              open: SUBSET Tasks, released: SUBSET Tasks, stale: BOOLEAN]
BY DEF Idle

\* Every step of a refresh keeps the types.
LEMMA RefreshTyped ==
    ASSUME Typed, NEW r \in Refreshers, RefreshStep(r)
    PROVE  Typed'
<1>1. CASE StartRefresh(r)
  BY <1>1 DEF StartRefresh, Typed
<1>2. CASE ListOpen(r)
  BY <1>2 DEF ListOpen, Typed, Open
<1>3. CASE ReadDetails(r)
  <2>1. CASE read[r].open \subseteq Open
    BY <1>3, <2>1 DEF ReadDetails, Typed, Releasable
  <2>2. CASE ~(read[r].open \subseteq Open)
    BY <1>3, <2>2, IdleType DEF ReadDetails, Typed, Ends
  <2> QED
    BY <2>1, <2>2
<1>4. CASE RefreshFails(r)
  BY <1>4, IdleType DEF RefreshFails, Typed, Ends
<1>5. CASE SaveRefresh(r)
  <2>1. CASE read[r].stale
    BY <1>5, <2>1, IdleType DEF SaveRefresh, Typed
  <2>2. CASE ~read[r].stale
    <3>1. saved' \subseteq Tasks /\ reserved' \subseteq Tasks
      BY <1>5, <2>2 DEF SaveRefresh, Typed, Kept
    <3>2. PICK earlier : read' = [q \in Refreshers |-> IF q = r THEN Idle
                                     ELSE [read[q] EXCEPT !.stale = @ \/ q \in earlier]]
      BY <1>5, <2>2 DEF SaveRefresh
    <3>3. \A q \in Refreshers : (read[q].stale \/ q \in earlier) \in BOOLEAN
      OBVIOUS
    <3>4. read' \in [Refreshers -> [pc: {"idle", "started", "listed", "done"},
                                    open: SUBSET Tasks, released: SUBSET Tasks, stale: BOOLEAN]]
      BY <3>2, <3>3, IdleType DEF Typed
    <3> QED
      BY <1>5, <3>1, <3>4 DEF SaveRefresh, Typed
  <2> QED
    BY <2>1, <2>2
<1> QED
  BY <1>1, <1>2, <1>3, <1>4, <1>5 DEF RefreshStep

\* Every other step keeps the types.
LEMMA OtherTyped ==
    ASSUME Typed, Next, \A r \in Refreshers : ~RefreshStep(r)
    PROVE  Typed'
<1> {"queued", "executing", "publishing", "replayed", "published",
     "blocked", "uncertain", "cancelled", "abandoned"} = Statuses
  BY DEF Statuses
<1>1. ASSUME NEW S \in SUBSET Tasks, Dispatch(S) PROVE Typed'
  <2>1. task' \in [Tasks -> Statuses]
    BY <1>1, SetTasksType DEF Dispatch
  <2> QED
    BY <1>1, <2>1 DEF Dispatch, Typed
<1>2. ASSUME NEW t \in Tasks, Redispatch(t) PROVE Typed'
  <2>1. task' \in [Tasks -> Statuses]
    BY <1>2, SetTasksType DEF Redispatch
  <2> QED
    BY <1>2, <2>1 DEF Redispatch, Typed
<1>3. ASSUME NEW t \in Tasks, NEW from, NEW to \in Statuses, Moves(t, from, to), Elsewhere,
             UNCHANGED reserved \/ Unreserved(t, to)
      PROVE  Typed'
  <2>1. task' \in [Tasks -> Statuses]
    BY <1>3, SetTasksType DEF Moves
  <2> QED
    BY <1>3, <2>1 DEF Elsewhere, Unreserved, Typed
<1>4. ASSUME NEW t \in Tasks, CreatePR(t) \/ ClosePR(t) \/ ReopenPR(t) PROVE Typed'
  BY <1>4 DEF CreatePR, ClosePR, ReopenPR, Typed
<1>5. ASSUME NEW t \in Tasks, WorkerStep(t) \/ OperatorStep(t) PROVE Typed'
  BY <1>3, <1>4, <1>5 DEF WorkerStep, OperatorStep, Authorize, TaskFails, Published, Cancel, Retry, Reconcile, Archive
<1>6. CASE ObservationExpires \/ Resume
  BY <1>6 DEF ObservationExpires, Resume, Typed
<1>7. CASE Pause \/ SaveConfig
  BY <1>7, IdleType DEF Pause, SaveConfig, InvalidatePRs, Typed
<1>8. CASE Restart
  <2>1. task' \in [Tasks -> Statuses] /\ reserved' \subseteq Tasks
    BY <1>8 DEF Restart, Typed
  <2> QED
    BY <1>8, <2>1, IdleType DEF Restart, Typed
<1> QED
  BY <1>1, <1>2, <1>4, <1>5, <1>6, <1>7, <1>8 DEF Next

\* The typed part of the state stays typed.
LEMMA TypedCorrect == Spec => []Typed
<1>1. Init => Typed
  BY IdleType DEF Init, Typed, Statuses
<1>2. Typed /\ [Next]_vars => Typed'
  <2> SUFFICES ASSUME Typed, [Next]_vars PROVE Typed'
    OBVIOUS
  <2>1. CASE UNCHANGED vars
    BY <2>1 DEF vars, Typed
  <2> QED
    BY <2>1, RefreshTyped, OtherTyped
<1> QED
  BY <1>1, <1>2, PTL DEF Spec

-----------------------------------------------------------------------------
(* Unfinished deliveries keep their slot *)

\* A step of a refresh, of an operator control or of GitHub writes no task and
\* takes no slot of an unfinished one.
LEMMA ReservedByReads ==
    ASSUME UnfinishedIsReserved, NEW r \in Refreshers, RefreshStep(r)
    PROVE  /\ UNCHANGED <<task, pr, reopened>> /\ reserved' \subseteq reserved
           /\ UnfinishedIsReserved'
<1>1. CASE SaveRefresh(r) /\ ~read[r].stale
  <2>1. reserved' = Kept(read[r].open, read[r].released) /\ UNCHANGED <<task, pr, reopened>>
    BY <1>1 DEF SaveRefresh
  <2> QED
    BY <2>1 DEF Kept, UnfinishedIsReserved
<1>2. CASE ~(SaveRefresh(r) /\ ~read[r].stale)
  BY <1>2 DEF RefreshStep, StartRefresh, ListOpen, ReadDetails, RefreshFails, SaveRefresh, UnfinishedIsReserved
<1> QED
  BY <1>1, <1>2

\* A move of one task keeps the slots of unfinished tasks when it leaves the
\* reservations alone or applies the release triggers.
LEMMA ReservedByMove ==
    ASSUME UnfinishedIsReserved, NEW t \in Tasks, NEW from, NEW to, Moves(t, from, to),
           UNCHANGED reserved \/ Unreserved(t, to),
           to \in {"executing", "publishing", "replayed", "uncertain"} => t \in reserved
    PROVE  UnfinishedIsReserved' /\ reserved' \subseteq reserved
BY DEF UnfinishedIsReserved, Moves, SetTasks, Unreserved

\* So do the worker and the operator.
LEMMA ReservedByTask ==
    ASSUME UnfinishedIsReserved, NEW t \in Tasks, WorkerStep(t) \/ OperatorStep(t)
    PROVE  UnfinishedIsReserved' /\ reserved' \subseteq reserved
<1>1. CASE CreatePR(t)
  BY <1>1 DEF CreatePR, UnfinishedIsReserved
<1>2. CASE ~CreatePR(t)
  <2>1. PICK from, to :
          /\ Moves(t, from, to)
          /\ UNCHANGED reserved \/ Unreserved(t, to)
          /\ to \in {"executing", "publishing", "replayed", "uncertain"} =>
               from \subseteq {"executing", "publishing", "replayed", "uncertain"}
    BY <1>2 DEF WorkerStep, OperatorStep, Authorize, TaskFails, Published, Cancel, Retry, Reconcile, Archive
  <2>2. to \in {"executing", "publishing", "replayed", "uncertain"} => t \in reserved
    BY <2>1 DEF Moves, UnfinishedIsReserved
  <2> QED
    BY <2>1, <2>2, ReservedByMove
<1> QED
  BY <1>1, <1>2

\* Only an admission adds a reservation: Recover seeds what is already there.
LEMMA ReservedByNext ==
    ASSUME Typed, UnfinishedIsReserved, Next
    PROVE  /\ UnfinishedIsReserved'
           /\ reserved' \subseteq reserved \/ \E S \in SUBSET Tasks : Dispatch(S)
<1>1. ASSUME NEW S \in SUBSET Tasks, Dispatch(S) PROVE UnfinishedIsReserved'
  BY <1>1 DEF Dispatch, SetTasks, UnfinishedIsReserved
<1>2. ASSUME NEW t \in Tasks, Redispatch(t) PROVE UnfinishedIsReserved' /\ reserved' \subseteq reserved
  BY <1>2 DEF Redispatch, SetTasks, UnfinishedIsReserved
<1>3. CASE \/ ObservationExpires \/ Pause \/ Resume \/ SaveConfig
          \/ \E t \in Tasks : ClosePR(t) \/ ReopenPR(t)
  BY <1>3 DEF ObservationExpires, Pause, Resume, SaveConfig, ClosePR, ReopenPR, UnfinishedIsReserved
<1>4. CASE Restart
  <2>1. PICK blocked \in SUBSET Tasks :
          /\ \A t \in Tasks : task'[t] \in {"executing", "publishing", "replayed", "uncertain"} =>
               task[t] \in {"publishing", "replayed", "uncertain"}
          /\ reserved' = (reserved \cup {t \in Tasks : task[t] \in {"executing", "publishing", "replayed", "uncertain"}})
                          \ {t \in blocked : task[t] = "executing"}
    BY <1>4, Zenon DEF Restart, Typed
  <2> QED
    BY <2>1 DEF UnfinishedIsReserved
<1> QED
  BY <1>1, <1>2, <1>3, <1>4, ReservedByReads, ReservedByTask DEF Next

\* For any number of tasks, any limit and any overlap of reads, a task that runs
\* or whose output may still become a pull request holds its reservation: no
\* saved inventory, failure, retry, reconciliation or restart releases it.
THEOREM UnfinishedKeepsSlot == Spec => []UnfinishedIsReserved
<1>1. Init => UnfinishedIsReserved
  BY DEF Init, UnfinishedIsReserved
<1>2. Typed /\ UnfinishedIsReserved /\ [Next]_vars => UnfinishedIsReserved'
  <2>1. ASSUME UnfinishedIsReserved, UNCHANGED vars PROVE UnfinishedIsReserved'
    BY <2>1 DEF vars, UnfinishedIsReserved
  <2> QED
    BY <2>1, ReservedByNext
<1> QED
  BY <1>1, <1>2, TypedCorrect, PTL DEF Spec

-----------------------------------------------------------------------------
(* With one read at a time, every open pull request is counted *)

\* A status that a task with a pull request can have leads to another one.
LEMMA OwnerByNext ==
    ASSUME Typed, OwnerHasOutput, Next
    PROVE  OwnerHasOutput'
<1> DEFINE Delivering == {"publishing", "replayed", "uncertain", "published", "abandoned"}
<1>1. ASSUME NEW t \in Tasks, NEW from, NEW to, Moves(t, from, to), UNCHANGED pr,
             from \cap Delivering # {} => to \in Delivering
      PROVE  OwnerHasOutput'
  BY <1>1 DEF Moves, SetTasks, OwnerHasOutput
<1>2. ASSUME NEW t \in Tasks, WorkerStep(t) \/ OperatorStep(t), ~CreatePR(t) PROVE OwnerHasOutput'
  <2>1. PICK from, to : Moves(t, from, to) /\ UNCHANGED pr /\ (from \cap Delivering # {} => to \in Delivering)
    BY <1>2 DEF WorkerStep, OperatorStep, Authorize, TaskFails, Published, Cancel, Retry, Reconcile, Archive, Elsewhere
  <2> QED
    BY <1>1, <2>1
<1>3. ASSUME NEW t \in Tasks, CreatePR(t) \/ ClosePR(t) \/ ReopenPR(t) PROVE OwnerHasOutput'
  BY <1>3 DEF CreatePR, ClosePR, ReopenPR, OwnerHasOutput, Typed
<1>4. ASSUME NEW S \in SUBSET Tasks, Dispatch(S) PROVE OwnerHasOutput'
  BY <1>4 DEF Dispatch, SetTasks, Waiting, OwnerHasOutput
<1>5. ASSUME NEW t \in Tasks, Redispatch(t) PROVE OwnerHasOutput'
  BY <1>5 DEF Redispatch, SetTasks, OwnerHasOutput
<1>6. CASE Restart
  <2>1. \A t \in Tasks : task[t] \in Delivering => task'[t] \in Delivering
    BY <1>6, Zenon DEF Restart
  <2> QED
    BY <1>6, <2>1 DEF Restart, OwnerHasOutput
<1>7. CASE ObservationExpires \/ Pause \/ Resume \/ SaveConfig \/ \E r \in Refreshers : RefreshStep(r)
  <2>1. UNCHANGED <<task, pr>>
    BY <1>7 DEF ObservationExpires, Pause, Resume, SaveConfig, RefreshStep, StartRefresh, ListOpen,
                ReadDetails, RefreshFails, SaveRefresh
  <2> QED
    BY <2>1 DEF OwnerHasOutput
<1> QED
  BY <1>2, <1>3, <1>4, <1>5, <1>6, <1>7 DEF Next

\* A read in progress stays sound when reads are dropped or left alone, no slot
\* of an open pull request is released and finished tasks stay finished.
LEMMA SoundElsewhere ==
    ASSUME ReadIsSound, OpenIsCounted, Typed,
           \A r \in Refreshers : read'[r] = read[r] \/ read'[r] = Idle,
           \A t \in Tasks : t \in reserved /\ pr[t] = "open" => t \in reserved',
           \A t \in Tasks : task[t] \in {"published", "abandoned"} => task'[t] = task[t],
           UNCHANGED <<pr, reopened, saved>>
    PROVE  ReadIsSound' /\ OpenIsCounted'
BY DEF ReadIsSound, OpenIsCounted, Typed, Idle

\* Reads: what a save releases is in the inventory it saves, or over.
LEMMA CountedByReads ==
    ASSUME OneReader, Typed, UnfinishedIsReserved, ReadIsSound, OpenIsCounted,
           NEW r \in Refreshers, RefreshStep(r)
    PROVE  ReadIsSound' /\ OpenIsCounted'
<1> Refreshers = {r}
  BY DEF OneReader
<1>1. CASE StartRefresh(r)
  BY <1>1 DEF StartRefresh, ReadIsSound, OpenIsCounted, Typed
<1>2. CASE ListOpen(r)
  BY <1>2 DEF ListOpen, ReadIsSound, OpenIsCounted, Typed, Open
<1>3. CASE ReadDetails(r) /\ read[r].open \subseteq Open
  <2>1. /\ read'[r].open = read[r].open /\ read'[r].released = Releasable(read[r].open)
        /\ read[r].pc = "listed" /\ UNCHANGED <<task, pr, reopened, reserved, saved>>
    BY <1>3 DEF ReadDetails, Typed
  <2> QED
    BY <2>1 DEF ReadIsSound, OpenIsCounted, Typed, Releasable
<1>4. CASE RefreshFails(r) \/ (ReadDetails(r) /\ ~(read[r].open \subseteq Open)) \/ (SaveRefresh(r) /\ read[r].stale)
  <2>1. read'[r] = Idle /\ UNCHANGED <<task, pr, reopened, reserved, saved>>
    BY <1>4 DEF RefreshFails, ReadDetails, SaveRefresh, Ends, Typed
  <2> QED
    BY <2>1, SoundElsewhere
<1>5. CASE SaveRefresh(r) /\ ~read[r].stale
  <2>1. /\ read'[r] = Idle /\ UNCHANGED <<task, pr, reopened>> /\ read[r].pc = "done"
        /\ saved' = read[r].open /\ reserved' = Kept(read[r].open, read[r].released)
    BY <1>5 DEF SaveRefresh
  <2>2. OpenIsCounted'
    BY <2>1 DEF OpenIsCounted, ReadIsSound, Kept
  <2>3. ReadIsSound'
    BY <2>1 DEF ReadIsSound, Idle
  <2> QED
    BY <2>2, <2>3
<1> QED
  BY <1>1, <1>2, <1>3, <1>4, <1>5 DEF RefreshStep

\* Everything else: a new pull request has its reservation, and the triggers
\* release only tasks that never opened one.
LEMMA CountedByNext ==
    ASSUME OneReader, Typed, UnfinishedIsReserved, OwnerHasOutput, ReadIsSound, OpenIsCounted, Next
    PROVE  ReadIsSound' /\ OpenIsCounted'
<1>1. ASSUME NEW t \in Tasks, CreatePR(t) PROVE ReadIsSound' /\ OpenIsCounted'
  <2>1. t \in reserved
    BY <1>1 DEF CreatePR, UnfinishedIsReserved
  <2> QED
    BY <1>1, <2>1 DEF CreatePR, ReadIsSound, OpenIsCounted, Typed
<1>2. ASSUME NEW t \in Tasks, ClosePR(t) \/ ReopenPR(t) PROVE ReadIsSound' /\ OpenIsCounted'
  BY <1>2 DEF ClosePR, ReopenPR, ReadIsSound, OpenIsCounted, Typed
<1>3. ASSUME NEW t \in Tasks, NEW from, NEW to, Moves(t, from, to), Elsewhere,
             UNCHANGED reserved \/ Unreserved(t, to), from \cap {"published", "abandoned"} = {},
             to \in {"blocked", "cancelled"} => from \subseteq {"queued", "executing", "blocked"}
      PROVE  ReadIsSound' /\ OpenIsCounted'
  <2>1. \A u \in Tasks : u \in reserved /\ pr[u] = "open" => u \in reserved'
    BY <1>3 DEF Moves, Unreserved, OwnerHasOutput
  <2>2. \A u \in Tasks : task[u] \in {"published", "abandoned"} => task'[u] = task[u]
    BY <1>3 DEF Moves, SetTasks, Typed
  <2> QED
    BY <1>3, <2>1, <2>2, SoundElsewhere DEF Elsewhere
<1>4. ASSUME NEW t \in Tasks, WorkerStep(t) \/ OperatorStep(t) PROVE ReadIsSound' /\ OpenIsCounted'
  BY <1>1, <1>3, <1>4
  DEF WorkerStep, OperatorStep, Authorize, TaskFails, Published, Cancel, Retry, Reconcile, Archive
<1>5. ASSUME NEW S \in SUBSET Tasks, Dispatch(S) PROVE ReadIsSound' /\ OpenIsCounted'
  <2>1. \A u \in Tasks : task[u] \in {"published", "abandoned"} => task'[u] = task[u]
    BY <1>5 DEF Dispatch, SetTasks, Waiting
  <2> QED
    BY <1>5, <2>1, SoundElsewhere DEF Dispatch
<1>6. ASSUME NEW t \in Tasks, Redispatch(t) PROVE ReadIsSound' /\ OpenIsCounted'
  <2>1. \A u \in Tasks : task[u] \in {"published", "abandoned"} => task'[u] = task[u]
    BY <1>6 DEF Redispatch, SetTasks
  <2> QED
    BY <1>6, <2>1, SoundElsewhere DEF Redispatch
<1>7. CASE ObservationExpires \/ Resume \/ Pause \/ SaveConfig
  <2>1. \A r \in Refreshers : read'[r] = read[r] \/ read'[r] = Idle
    BY <1>7 DEF ObservationExpires, Resume, Pause, SaveConfig, InvalidatePRs
  <2> QED
    BY <1>7, <2>1, SoundElsewhere DEF ObservationExpires, Resume, Pause, SaveConfig
<1>8. CASE Restart
  <2>1. /\ \A u \in Tasks : task[u] \in {"published", "abandoned"} => task'[u] = task[u]
        /\ \A u \in Tasks : u \in reserved /\ task[u] # "executing" => u \in reserved'
    BY <1>8, Zenon DEF Restart
  <2>2. \A u \in Tasks : u \in reserved /\ pr[u] = "open" => u \in reserved'
    BY <2>1 DEF OwnerHasOutput
  <2> QED
    BY <1>8, <2>1, <2>2, SoundElsewhere DEF Restart
<1> QED
  BY <1>2, <1>4, <1>5, <1>6, <1>7, <1>8, CountedByReads DEF Next

\* The rest of the type, which no argument below uses.
OtherTypes ==
    /\ reopened \subseteq Tasks /\ observation \in {"none", "fresh", "outdated", "consumed"}
    /\ older \in [Refreshers -> SUBSET Refreshers]
    /\ paused \in BOOLEAN /\ faults \in 0 .. MaxFaults

\* Every step keeps it: what a failed refresh leaves of an observation, whose
\* reads are older, and the faults of the instance.
LEMMA OtherTypesByNext ==
    ASSUME OtherTypes, Next
    PROVE  OtherTypes'
<1> USE FaultsAssumption
<1>1. Fault => faults' \in 0 .. MaxFaults
  BY DEF Fault, OtherTypes
<1>2. \A r : Over(r) => older' \in [Refreshers -> SUBSET Refreshers]
  BY DEF Over, OtherTypes
<1>3. ASSUME NEW r \in Refreshers, RefreshStep(r) PROVE OtherTypes'
  <2>1. CASE StartRefresh(r) \/ ListOpen(r)
    BY <2>1 DEF StartRefresh, ListOpen, OtherTypes
  <2>2. CASE ReadDetails(r)
    BY <1>2, <2>2 DEF ReadDetails, Ends, Distrusts, OtherTypes
  <2>3. CASE RefreshFails(r)
    BY <1>1, <1>2, <2>3 DEF RefreshFails, Ends, Distrusts, OtherTypes
  <2>4. CASE SaveRefresh(r)
    BY <1>1, <1>2, <2>4 DEF SaveRefresh, Superseded, OtherTypes
  <2> QED
    BY <1>3, <2>1, <2>2, <2>3, <2>4 DEF RefreshStep
<1>4. ASSUME NEW S \in SUBSET Tasks, Dispatch(S) PROVE OtherTypes'
  BY <1>4 DEF Dispatch, OtherTypes
<1>5. ASSUME NEW t \in Tasks, Redispatch(t) \/ ClosePR(t) \/ ReopenPR(t) \/ CreatePR(t) PROVE OtherTypes'
  BY <1>5 DEF Redispatch, ClosePR, ReopenPR, CreatePR, OtherTypes
<1>6. ASSUME Elsewhere PROVE OtherTypes'
  BY <1>6 DEF Elsewhere, OtherTypes
<1>7. ASSUME NEW t \in Tasks, WorkerStep(t) \/ OperatorStep(t) PROVE OtherTypes'
  BY <1>5, <1>6, <1>7 DEF WorkerStep, OperatorStep, Authorize, TaskFails, Published, Cancel, Retry, Reconcile, Archive
<1>8. CASE ObservationExpires \/ Resume
  BY <1>8 DEF ObservationExpires, Resume, OtherTypes
<1>9. CASE Pause \/ SaveConfig
  BY <1>2, <1>9 DEF Pause, SaveConfig, InvalidatePRs, OtherTypes
<1>10. CASE Restart
  BY <1>1, <1>10 DEF Restart, OtherTypes
<1> QED
  BY <1>3, <1>4, <1>5, <1>7, <1>8, <1>9, <1>10 DEF Next

\* While reads of the inventory do not overlap, the release of a reservation
\* never uncovers an open pull request: each one is reserved or listed
\* (PersistPRInventory, releasableReservations).
THEOREM OneReaderCounts == OneReader => (Spec => []SlotsAreCounted)
<1> SUFFICES ASSUME OneReader PROVE Spec => []SlotsAreCounted
  OBVIOUS
<1> DEFINE Inv == OwnerHasOutput /\ ReadIsSound /\ OpenIsCounted /\ OtherTypes
<1>1. Init => Inv
  <2>1. Init => OwnerHasOutput /\ ReadIsSound /\ OpenIsCounted
    BY DEF Init, OwnerHasOutput, ReadIsSound, OpenIsCounted, Idle
  <2>2. Init => OtherTypes
    <3>1. Init => faults \in 0 .. MaxFaults
      BY FaultsAssumption DEF Init
    <3>2. Init => /\ reopened \subseteq Tasks /\ observation \in {"none", "fresh", "outdated", "consumed"}
                  /\ paused \in BOOLEAN
      BY DEF Init
    <3>3. Init => older \in [Refreshers -> SUBSET Refreshers]
      BY DEF Init
    <3> QED
      BY <3>1, <3>2, <3>3 DEF OtherTypes
  <2> QED
    BY <2>1, <2>2
<1>2. Typed /\ UnfinishedIsReserved /\ Inv /\ [Next]_vars => Inv'
  <2>1. ASSUME Inv, UNCHANGED vars PROVE Inv'
    BY <2>1 DEF vars, OwnerHasOutput, ReadIsSound, OpenIsCounted, OtherTypes
  <2> QED
    BY <2>1, OwnerByNext, CountedByNext, OtherTypesByNext
<1>3. Typed /\ Inv => SlotsAreCounted
  BY Zenon DEF Typed, OtherTypes, SlotsAreCounted, TypeOK
<1> QED
  BY <1>1, <1>2, <1>3, TypedCorrect, UnfinishedKeepsSlot, PTL DEF Spec

-----------------------------------------------------------------------------
(* ... and no admission exceeds the limit *)

\* PRUnion's sum bounds the union it stands for, with the tasks to admit.
LEMMA UnionBound ==
    ASSUME NEW A \in SUBSET Tasks, NEW B \in SUBSET Tasks, NEW S \in SUBSET Tasks,
           NEW C \in SUBSET (A \cup B \cup S)
    PROVE  /\ Cardinality(A) \in Nat /\ Cardinality(B \ A) \in Nat /\ Cardinality(S) \in Nat
           /\ Cardinality(C) \in Nat
           /\ Cardinality(C) <= Cardinality(A) + Cardinality(B \ A) + Cardinality(S)
<1>1. /\ IsFiniteSet(A) /\ IsFiniteSet(B \ A) /\ IsFiniteSet(S)
      /\ IsFiniteSet(C) /\ IsFiniteSet(A \cup (B \ A)) /\ IsFiniteSet((A \cup (B \ A)) \cup S)
  BY TasksFinite, FS_Subset
<1>2. IsFiniteSet(A \cap (B \ A)) /\ IsFiniteSet((A \cup (B \ A)) \cap S)
  BY TasksFinite, FS_Subset
<1>3. /\ Cardinality(A) \in Nat /\ Cardinality(B \ A) \in Nat /\ Cardinality(S) \in Nat /\ Cardinality(C) \in Nat
      /\ Cardinality(A \cup (B \ A)) \in Nat /\ Cardinality((A \cup (B \ A)) \cup S) \in Nat
      /\ Cardinality(A \cap (B \ A)) \in Nat /\ Cardinality((A \cup (B \ A)) \cap S) \in Nat
  BY <1>1, <1>2, FS_CardinalityType, Zenon
<1>4. Cardinality(A \cup (B \ A)) <= Cardinality(A) + Cardinality(B \ A)
  <2>1. Cardinality(A \cup (B \ A)) = Cardinality(A) + Cardinality(B \ A) - Cardinality(A \cap (B \ A))
    BY <1>1, FS_Union, Zenon
  <2> QED
    BY <1>3, <2>1
<1>5. Cardinality((A \cup (B \ A)) \cup S) <= Cardinality(A \cup (B \ A)) + Cardinality(S)
  <2>1. Cardinality((A \cup (B \ A)) \cup S)
          = Cardinality(A \cup (B \ A)) + Cardinality(S) - Cardinality((A \cup (B \ A)) \cap S)
    BY <1>1, FS_Union, Zenon
  <2> QED
    BY <1>3, <2>1
<1>6. Cardinality(C) <= Cardinality((A \cup (B \ A)) \cup S)
  <2>1. C \subseteq (A \cup (B \ A)) \cup S
    OBVIOUS
  <2> QED
    BY <1>1, <2>1, FS_Subset
<1> QED
  BY <1>3, <1>4, <1>5, <1>6

\* While reads of the inventory do not overlap, the owned open pull requests and
\* the admitted deliveries stay within the limit at every admission, for any
\* number of tasks and across every change of the limit.
THEOREM OneReaderAdmits == OneReader => (Spec => AdmissionWithinLimit)
<1> SUFFICES ASSUME OneReader PROVE Spec => AdmissionWithinLimit
  OBVIOUS
<1> DEFINE Within == ~(reserved' \subseteq reserved) => Cardinality(reserved' \cup (Open \ reopened)) <= limit
<1>1. Typed /\ UnfinishedIsReserved /\ OpenIsCounted /\ [Next]_vars => [Within]_vars
  <2> SUFFICES ASSUME Typed, UnfinishedIsReserved, OpenIsCounted, Next, ~(reserved' \subseteq reserved)
               PROVE  Cardinality(reserved' \cup (Open \ reopened)) <= limit
    OBVIOUS
  <2>1. PICK S \in SUBSET Tasks : Dispatch(S)
    BY ReservedByNext
  <2>2. reserved' = reserved \cup S /\ S # {} /\ Cardinality(S) <= Remaining
    BY <2>1 DEF Dispatch
  <2>3. reserved' \cup (Open \ reopened) \in SUBSET (saved \cup reserved \cup S)
    BY <2>2 DEF OpenIsCounted, Open
  <2>4. saved \in SUBSET Tasks /\ reserved \in SUBSET Tasks /\ limit \in Nat
    BY LimitsAssumption DEF Typed
  <2>5. /\ Cardinality(saved) \in Nat /\ Cardinality(reserved \ saved) \in Nat /\ Cardinality(S) \in Nat
        /\ Cardinality(reserved' \cup (Open \ reopened)) \in Nat
        /\ Cardinality(reserved' \cup (Open \ reopened)) <= Cardinality(saved) + Cardinality(reserved \ saved) + Cardinality(S)
    BY <2>3, <2>4, UnionBound
  <2>6. Cardinality(S) # 0
    BY <2>2, TasksFinite, FS_Subset, FS_EmptySet
  <2> QED
    BY <2>2, <2>4, <2>5, <2>6 DEF Remaining
<1>2. SlotsAreCounted => OpenIsCounted
  BY DEF SlotsAreCounted
<1> QED
  BY <1>1, TypedCorrect, UnfinishedKeepsSlot, OneReaderCounts, <1>2, PTL DEF Spec, AdmissionWithinLimit

=============================================================================
