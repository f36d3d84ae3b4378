----------------------------- MODULE EventWrites -----------------------------
(***************************************************************************)
(* The write side of the API over MongoDB: every write runs in a snapshot  *)
(* transaction that first increments its owner's coordination record, so   *)
(* that two writes of one owner meet in a write conflict, and the driver   *)
(* reruns the loser on a new snapshot.  Requests are served by any number  *)
(* of replicas and share nothing but the database.  The reminder planner   *)
(* acknowledges events without a transaction.                              *)
(***************************************************************************)
EXTENDS EventService

CONSTANTS
    Requests,          \* one for each write a client sends; a create mints its ID
    Inputs,            \* the requests clients may send
    StoredCalendars,   \* the calendars an earlier run may have left
    MaxFaults,         \* a bound on failures in one behaviour
    MaxPasses          \* a bound on the planner's acknowledgements

ASSUME RequestsAreIds == Requests \subseteq Ids
ASSUME InputsAssumption == \A q \in Inputs : IsRequest(q)
ASSUME StoredAssumption ==
    \A cal \in StoredCalendars :
        /\ IsCalendar(cal) /\ AllExpand(cal) /\ NoClashes(cal)
        /\ \A r \in Requests : cal[r] = None
ASSUME BoundsAssumption == MaxFaults \in Nat /\ MaxPasses \in Nat

VARIABLES
    events,         \* the events collection: a document or None per ID
    marker,         \* per event: remindersPending and the planner's retry
    planned,        \* per event: the reminders its last planning scheduled
    plan,           \* the document the planner has read and not acknowledged
    coordination,   \* the owners that have a record in event_write_owners
    request,        \* per request: the operation sent
    pc,             \* per request: the next step of withEventWriteLock
    snapshot,       \* per request: the calendar its transaction reads
    staged,         \* per request: the result its transaction will commit
    writes,         \* per request: the records its open transaction wrote
    stale,          \* per request: records others committed after its snapshot
    outcome,        \* per request: the HTTP status it earned, 0 before
    faults,         \* failures so far
    passes          \* acknowledgements by the planner so far

calendarVars == <<events, marker, planned>>
planVars == <<plan, passes>>
txnVars == <<snapshot, staged, writes, stale>>
vars == <<calendarVars, planVars, coordination, request, pc, txnVars, outcome, faults>>

OwnerRecord(o) == <<"owner", o>>
EventRecord(i) == <<"event", i>>
Records == {OwnerRecord(o) : o \in Owners} \cup {EventRecord(i) : i \in Ids}

NoCalendar == [i \in Ids |-> None]

(* The transaction is open on the server, its process alive or not.        *)
Open == {"lock", "operate", "commit", "orphaned"}
InFlight == {"ensure", "begin"} \cup Open

Init ==
    /\ events \in StoredCalendars
    /\ marker = [i \in Ids |-> "pending"]
    /\ planned = [i \in Ids |-> {}]
    /\ plan = None
    /\ coordination = {}
    /\ request = [r \in Requests |-> None]
    /\ pc = [r \in Requests |-> "idle"]
    /\ snapshot = [r \in Requests |-> NoCalendar]
    /\ staged = [r \in Requests |-> None]
    /\ writes = [r \in Requests |-> {}]
    /\ stale = [r \in Requests |-> {}]
    /\ outcome = [r \in Requests |-> 0]
    /\ faults = 0
    /\ passes = 0

-----------------------------------------------------------------------------
(* Moves of one request *)

Goto(r, label) == pc' = [pc EXCEPT ![r] = label]

Fault == faults < MaxFaults /\ faults' = faults + 1

(* Mutated: a session is left without ending its transaction. *)
EndTransactionHolding(r, others) ==
    /\ snapshot' = [snapshot EXCEPT ![r] = NoCalendar]
    /\ staged' = [staged EXCEPT ![r] = None]
    /\ UNCHANGED <<writes, stale>>

(* The server forgets r's transaction; others has what it must tell them.  *)
EndTransaction(r, others) ==
    /\ snapshot' = [snapshot EXCEPT ![r] = NoCalendar]
    /\ staged' = [staged EXCEPT ![r] = None]
    /\ writes' = [writes EXCEPT ![r] = {}]
    /\ stale' = [s \in Requests |->
                    IF s = r THEN {}
                    ELSE IF pc[s] \in Open THEN stale[s] \cup others
                    ELSE stale[s]]

Abort(r) == EndTransaction(r, {})

(* The first write of a record wins: by another open transaction, or by a  *)
(* commit that r's snapshot does not contain.                              *)
WriteConflict(r, record) ==
    \/ record \in stale[r]
    \/ \E s \in Requests \ {r} : record \in writes[s]

Submit(r, q) ==
    /\ pc[r] = "idle"
    /\ request' = [request EXCEPT ![r] = q]
    /\ Goto(r, "ensure")
    /\ UNCHANGED <<calendarVars, planVars, coordination, txnVars, outcome, faults>>

(* createEvent validates and expands its document before taking the lock.  *)
RefuseBadCreate(r) ==
    /\ pc[r] = "ensure"
    /\ BadCreate(request[r])
    /\ outcome' = [outcome EXCEPT ![r] = 400]
    /\ Goto(r, "answered")
    /\ UNCHANGED <<calendarVars, planVars, coordination, request, txnVars, faults>>

(* Mutated: the coordination record is never created. *)
EnsureNothing(r) ==
    /\ pc[r] = "ensure"
    /\ ~BadCreate(request[r])
    /\ Goto(r, "begin")
    /\ UNCHANGED <<calendarVars, planVars, coordination, request, txnVars, outcome, faults>>

(* The upsert runs outside the transaction; a duplicate key is ignored.    *)
EnsureOwner(r) ==
    /\ pc[r] = "ensure"
    /\ ~BadCreate(request[r])
    /\ coordination' = coordination \cup {request[r].owner}
    /\ Goto(r, "begin")
    /\ UNCHANGED <<calendarVars, planVars, request, txnVars, outcome, faults>>

Begin(r) ==
    /\ pc[r] = "begin"
    /\ snapshot' = [snapshot EXCEPT ![r] = events]
    /\ Goto(r, "lock")
    /\ UNCHANGED <<calendarVars, planVars, coordination, request, staged, writes, stale,
                   outcome, faults>>

(* Mutated: the owner's record is read, not written. *)
ReadOwner(r) ==
    /\ pc[r] = "lock"
    /\ Goto(r, "operate")
    /\ UNCHANGED <<calendarVars, planVars, coordination, request, txnVars, outcome, faults>>

(* Incrementing the coordination record is the lock; without a record the  *)
(* update matches nothing and locks nothing.                               *)
LockOwner(r) ==
    LET record == OwnerRecord(request[r].owner)
        exists == request[r].owner \in coordination
    IN  /\ pc[r] = "lock"
        /\ exists => ~WriteConflict(r, record)
        /\ writes' = [writes EXCEPT ![r] = IF exists THEN {record} ELSE {}]
        /\ Goto(r, "operate")
        /\ UNCHANGED <<calendarVars, planVars, coordination, request, snapshot, staged,
                       stale, outcome, faults>>

(* An error thrown by the operation aborts the transaction and is answered. *)
Refused(r) ==
    /\ pc[r] = "operate"
    /\ \E result \in Results(request[r], r, snapshot[r]) :
          /\ result.status \in Refusals \ {404}
          /\ outcome' = [outcome EXCEPT ![r] = result.status]
    /\ Abort(r)
    /\ Goto(r, "answered")
    /\ UNCHANGED <<calendarVars, planVars, coordination, request, faults>>

(* A missing event is a result, not an error: its transaction commits.     *)
StageNothing(r) ==
    /\ pc[r] = "operate"
    /\ Refuse(404) \in Results(request[r], r, snapshot[r])
    /\ staged' = [staged EXCEPT ![r] = Refuse(404)]
    /\ Goto(r, "commit")
    /\ UNCHANGED <<calendarVars, planVars, coordination, request, snapshot, writes, stale,
                   outcome, faults>>

StageWrite(r) ==
    LET record == EventRecord(Target(request[r], r)) IN
    /\ pc[r] = "operate"
    /\ ~WriteConflict(r, record)
    /\ \E result \in Results(request[r], r, snapshot[r]) :
          /\ result.write
          /\ staged' = [staged EXCEPT ![r] = result]
    /\ writes' = [writes EXCEPT ![r] = @ \cup {record}]
    /\ Goto(r, "commit")
    /\ UNCHANGED <<calendarVars, planVars, coordination, request, snapshot, stale, outcome,
                   faults>>

(* Mutated: the rerun goes on with the snapshot it has. *)
RestartKeeping(r) ==
    /\ pc[r] = "lock"
    /\ request[r].owner \in coordination
    /\ WriteConflict(r, OwnerRecord(request[r].owner))
    /\ stale' = [stale EXCEPT ![r] = {}]
    /\ UNCHANGED <<calendarVars, planVars, coordination, request, pc, snapshot, staged,
                   writes, outcome, faults>>

(* The driver reruns the whole transaction after a write conflict.         *)
Restart(r) ==
    /\ \/ /\ pc[r] = "lock"
          /\ request[r].owner \in coordination
          /\ WriteConflict(r, OwnerRecord(request[r].owner))
       \/ /\ pc[r] = "operate"
          /\ WriteConflict(r, EventRecord(Target(request[r], r)))
          /\ \E result \in Results(request[r], r, snapshot[r]) : result.write
    /\ Abort(r)
    /\ Goto(r, "begin")
    /\ UNCHANGED <<calendarVars, planVars, coordination, request, outcome, faults>>

(* Applying a staged result to the collection. *)
Store(id, result) ==
    /\ events' = [events EXCEPT ![id] = result.doc]
    /\ marker' = [marker EXCEPT ![id] =
           IF result.replan \/ result.doc = None THEN "pending" ELSE @]
    /\ planned' = [planned EXCEPT ![id] = IF result.doc = None THEN {} ELSE @]

CommitTransaction(r) ==
    /\ pc[r] = "commit"
    /\ IF staged[r].write THEN Store(Target(request[r], r), staged[r])
                          ELSE UNCHANGED calendarVars
    /\ outcome' = [outcome EXCEPT ![r] = staged[r].status]
    /\ EndTransaction(r, writes[r])
    /\ UNCHANGED <<planVars, coordination, request>>

Commit(r) == CommitTransaction(r) /\ Goto(r, "answered") /\ UNCHANGED faults

-----------------------------------------------------------------------------
(* Failures *)

(* The commit is applied, but its acknowledgement never reaches the client. *)
CommitUnheard(r) == CommitTransaction(r) /\ Goto(r, "lost") /\ Fault

(* A transient error: the driver aborts and reruns the transaction.        *)
Transient(r) ==
    /\ pc[r] \in Open \ {"orphaned"}
    /\ Fault
    /\ Abort(r)
    /\ Goto(r, "begin")
    /\ UNCHANGED <<calendarVars, planVars, coordination, request, outcome>>

(* Any other error, or the driver's time limit: the client gets a 500.     *)
GiveUp(r) ==
    /\ pc[r] \in InFlight \ {"orphaned"}
    /\ Fault
    /\ Abort(r)
    /\ Goto(r, "lost")
    /\ UNCHANGED <<calendarVars, planVars, coordination, request, outcome>>

(* The process dies; its open transaction stays until the server reaps it. *)
Crash(r) ==
    /\ pc[r] \in Open \ {"orphaned"}
    /\ Fault
    /\ Goto(r, "orphaned")
    /\ UNCHANGED <<calendarVars, planVars, coordination, request, txnVars, outcome>>

Reap(r) ==
    /\ pc[r] = "orphaned"
    /\ Abort(r)
    /\ Goto(r, "lost")
    /\ UNCHANGED <<calendarVars, planVars, coordination, request, outcome, faults>>

-----------------------------------------------------------------------------
(* The reminder planner: read an event, schedule its jobs, acknowledge it. *)

PlanRead(i) ==
    /\ passes < MaxPasses
    /\ events[i] # None
    /\ plan' = [id |-> i, doc |-> events[i]]
    /\ UNCHANGED <<calendarVars, coordination, request, pc, txnVars, outcome, faults,
                   passes>>

(* Mutated: the acknowledgement names the event alone. *)
StillThere(p) == events[p.id] # None

(* The acknowledgement names the revision that was read. *)
StillCurrent(p) == events[p.id] # None /\ events[p.id].rev = p.doc.rev

(* Planning may have failed: then the event is to be planned again soon.  A *)
(* write outside a transaction waits for the open one that wrote its record. *)
PlanAck(failed) ==
    /\ plan # None
    /\ passes < MaxPasses /\ passes' = passes + 1
    /\ IF StillCurrent(plan)
       THEN /\ \A r \in Requests : EventRecord(plan.id) \notin writes[r]
            /\ marker' = [marker EXCEPT ![plan.id] =
                   IF failed THEN "retry" ELSE "planned"]
            /\ planned' = [planned EXCEPT ![plan.id] =
                   IF failed THEN @ ELSE Reminders(plan.doc)]
            /\ stale' = [r \in Requests |->
                   IF pc[r] \in Open THEN stale[r] \cup {EventRecord(plan.id)}
                   ELSE stale[r]]
       ELSE UNCHANGED <<marker, planned, stale>>
    /\ plan' = None
    /\ UNCHANGED <<events, coordination, request, pc, snapshot, staged, writes, outcome,
                   faults>>

-----------------------------------------------------------------------------
Steps(r) ==
    \/ RefuseBadCreate(r) \/ EnsureOwner(r) \/ Begin(r) \/ LockOwner(r)
    \/ Refused(r) \/ StageNothing(r) \/ StageWrite(r) \/ Restart(r) \/ Commit(r)
    \/ Reap(r)

Failures(r) == CommitUnheard(r) \/ Transient(r) \/ GiveUp(r) \/ Crash(r)

Planner == (\E i \in Ids : PlanRead(i)) \/ (\E failed \in BOOLEAN : PlanAck(failed))

Next ==
    \/ \E r \in Requests : (\E q \in Inputs : Submit(r, q)) \/ Steps(r) \/ Failures(r)
    \/ Planner

Spec == Init /\ [][Next]_vars

(* Every replica and the server keep running; clients, failures and the    *)
(* planner owe nothing.                                                    *)
Fairness == \A r \in Requests : WF_vars(Steps(r))

FairSpec == Spec /\ Fairness

-----------------------------------------------------------------------------
(* Properties *)

(* Every variable keeps its shape; in particular stored documents have     *)
(* their defaults resolved.                                                *)
TypeOK ==
    /\ IsCalendar(events)
    /\ marker \in [Ids -> {"pending", "planned", "retry"}]
    /\ planned = [i \in Ids |-> planned[i]]
    /\ plan # None => plan.id \in Ids /\ IsDocument(plan.doc)
    /\ coordination \subseteq Owners
    /\ request \in [Requests -> Inputs \cup {None}]
    /\ pc \in [Requests -> {"idle", "answered", "lost"} \cup InFlight]
    /\ DOMAIN snapshot = Requests /\ \A r \in Requests : IsCalendar(snapshot[r])
    /\ DOMAIN staged = Requests
    /\ writes \in [Requests -> SUBSET Records]
    /\ stale \in [Requests -> SUBSET Records]
    /\ outcome \in [Requests -> {0} \cup Accepted \cup Refusals]
    /\ faults \in 0 .. MaxFaults
    /\ passes \in 0 .. MaxPasses

(* No interleaving of requests, planner and failures leaves two events of  *)
(* one owner overlapping when neither allows conflicts, nor one such event *)
(* overlapping itself (assertNoEventConflict under withEventWriteLock).    *)
NoDoubleBooking == NoClashes(events)

(* Every stored document still expands, so that no later read, export or   *)
(* conflict check of the calendar can fail on it (expandEvent's throws).   *)
StoredExpands == AllExpand(events)

(* A transaction past its lock reads its owner's events as they are now:   *)
(* what the conflict check saw still holds when the write commits, though  *)
(* snapshots are taken before the lock.                                    *)
LockedSnapshotCurrent ==
    \A r \in Requests : pc[r] \in {"operate", "commit"} =>
        \A i \in Ids :
            \/ snapshot[r][i] = events[i]
            \/ /\ events[i] # None => events[i].owner # request[r].owner
               /\ snapshot[r][i] # None => snapshot[r][i].owner # request[r].owner

(* At most one of the requests that name one revision of one event is ever *)
(* accepted: If-Match, across owners' retries and lost answers.            *)
OneWinnerPerRevision ==
    \A r, s \in Requests :
        LET won(x) == outcome[x] \in {200, 204} IN
        r # s /\ won(r) /\ won(s) =>
            \/ request[r].id # request[s].id
            \/ request[r].rev # request[s].rev

(* An event the planner has acknowledged has exactly its current reminders *)
(* planned: no edit that changes them is lost to an acknowledgement that   *)
(* races it (reminderScheduleChanged, remindersPending, revision).         *)
PlannedIsCurrent ==
    \A i \in Ids : marker[i] = "planned" =>
        events[i] # None /\ planned[i] = Reminders(events[i])

(* Every committed change is made on the committed document it replaces:   *)
(* no update is lost, and none is applied twice by a rerun.                *)
RevisionsStep ==
    [][\A i \in Ids : events'[i] # events[i] /\ events'[i] # None =>
          events'[i].rev = IF events[i] = None THEN 1 ELSE events[i].rev + 1]_vars

(* Each request and each planning takes effect in one step computed from   *)
(* the calendar at that step: AtomicCalendar's promise.                    *)
Atomic == INSTANCE AtomicCalendar WITH
    status <- [r \in Requests |-> IF pc[r] \in InFlight THEN "waiting" ELSE pc[r]]

AtomicSpec == Atomic!Spec

(* A deleted event stays deleted: no edit that read it before, no rerun of *)
(* its creation and no late commit of a dead process brings it back.       *)
DeletedForGood ==
    \A i \in Ids : [](events[i] # None => [](events[i] = None => [](events[i] = None)))

(* A submitted request always ends: the losers of write conflicts are      *)
(* rerun but not forever, and a dead holder's lock does not stay.          *)
EveryRequestEnds ==
    \A r \in Requests : pc[r] \in InFlight ~> pc[r] \in {"answered", "lost"}

=============================================================================
