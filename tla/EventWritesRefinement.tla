------------------------ MODULE EventWritesRefinement ------------------------
(***************************************************************************)
(* EventWrites implements AtomicCalendar, and what follows from it over    *)
(* the history of an event: revisions advance by one, one request wins a   *)
(* revision, and what the planner acknowledged is current.                 *)
(*                                                                         *)
(* The argument.  What a request may do depends on its owner's events      *)
(* alone (ResultsAreOwn), and past the lock the snapshot holds those as    *)
(* they are, so every commit and every refusal is one that the collection  *)
(* itself gives.  HInv adds to IInv what ties a winner's revision and the  *)
(* planner's document to the collection: both only fall behind.  The last  *)
(* sections are what the other modules need of this one: a deleted event   *)
(* stays deleted, readers and planner meet only the writes that            *)
(* CalendarReads and Reminders take others to make, and a conflict search  *)
(* only the calendars and candidates of ConflictScan.                      *)
(***************************************************************************)
EXTENDS EventWritesProofs

-----------------------------------------------------------------------------
(* The instance's operators are those of EventService: every one it needs. *)

LEMMA SameCardinality == \A S : Atomic!Cardinality(S) = Cardinality(S)
BY DEF Atomic!Cardinality, Cardinality

LEMMA SameKeys ==
    \A d : Atomic!LiveKeys(d) = LiveKeys(d) /\ Atomic!BaseKeys(d) = BaseKeys(d)
BY DEF Atomic!LiveKeys, LiveKeys, Atomic!BaseKeys, BaseKeys, Atomic!LastIndex, LastIndex,
       Atomic!Period, Period, Atomic!Day, Day

LEMMA SameOccurrences ==
    \A d, key : Atomic!OccurrenceSchedule(d, key) = OccurrenceSchedule(d, key)
BY DEF Atomic!OccurrenceSchedule, OccurrenceSchedule, Atomic!ScheduleAt, ScheduleAt,
       Atomic!Overridden, Overridden

LEMMA SameScan ==
    \A d, self, cal : Atomic!Scanned(d, self, cal) = Scanned(d, self, cal)
BY DEF Atomic!Scanned, Scanned, Atomic!LiveKeys, LiveKeys, Atomic!BaseKeys, BaseKeys,
       Atomic!LastIndex, LastIndex, Atomic!Period, Period, Atomic!Day, Day,
       Atomic!OccurrenceSchedule, OccurrenceSchedule, Atomic!ScheduleAt, ScheduleAt,
       Atomic!Overridden, Overridden

LEMMA SameCapacity ==
    \A d, self, cal : Atomic!OverCapacity(d, self, cal) <=> OverCapacity(d, self, cal)
BY SameCardinality, SameKeys, SameScan DEF Atomic!OverCapacity, OverCapacity

LEMMA SameClashes ==
    \A d, e : /\ Atomic!Clash(d, e) <=> Clash(d, e)
              /\ Atomic!SelfClash(d) <=> SelfClash(d)
BY SameKeys, SameOccurrences
   DEF Atomic!Clash, Clash, Atomic!SelfClash, SelfClash, Atomic!Overlap, Overlap

LEMMA SameVerdicts ==
    \A d, self, cal : Atomic!Verdicts(d, self, cal) = Verdicts(d, self, cal)
BY SameKeys, SameCapacity, SameScan, SameClashes DEF Atomic!Verdicts, Verdicts

LEMMA SameExpandable == \A d : Atomic!Expandable(d) <=> Expandable(d)
BY SameKeys, SameOccurrences
   DEF Atomic!Expandable, Expandable, Atomic!ValidSchedule, ValidSchedule,
       Atomic!RecurrenceFits, RecurrenceFits, Atomic!LatestEnd, LatestEnd,
       Atomic!LastIndex, LastIndex, Atomic!Period, Period, Atomic!Day, Day

LEMMA SameReminders == \A d : Atomic!Reminders(d) = Reminders(d)
BY DEF Atomic!Reminders, Reminders, Atomic!OccurrenceSchedule, OccurrenceSchedule,
       Atomic!ScheduleAt, ScheduleAt, Atomic!Overridden, Overridden,
       Atomic!OccurrenceEmail, OccurrenceEmail, Atomic!ResolveEmail, ResolveEmail,
       Atomic!LiveKeys, LiveKeys, Atomic!BaseKeys, BaseKeys, Atomic!LastIndex, LastIndex,
       Atomic!Period, Period, Atomic!Day, Day

LEMMA SameScheduleChanged ==
    \A d, e : Atomic!ReminderScheduleChanged(d, e) = ReminderScheduleChanged(d, e)
BY DEF Atomic!ReminderScheduleChanged, ReminderScheduleChanged, Atomic!TimedExceptions,
       TimedExceptions

LEMMA SameRefuse == \A s : Atomic!Refuse(s) = Refuse(s)
BY DEF Atomic!Refuse, Refuse

LEMMA SameIfNoConflict ==
    \A d, self, cal, result :
        Atomic!IfNoConflict(d, self, cal, result) = IfNoConflict(d, self, cal, result)
BY SameVerdicts, SameRefuse DEF Atomic!IfNoConflict, IfNoConflict

LEMMA SameNewDocument == \A q : Atomic!NewDocument(q) = NewDocument(q)
BY DEF Atomic!NewDocument, NewDocument, Atomic!ResolveRecurrence, ResolveRecurrence,
       Atomic!LatestEnd, LatestEnd, Atomic!Day, Day, Atomic!ResolveEmail, ResolveEmail,
       Atomic!NoExceptions, NoExceptions

LEMMA SameUpdatedDocument ==
    \A q, d : Atomic!UpdatedDocument(q, d) = UpdatedDocument(q, d)
BY DEF Atomic!UpdatedDocument, UpdatedDocument, Atomic!ResolveRecurrence,
       ResolveRecurrence, Atomic!LatestEnd, LatestEnd, Atomic!Day, Day,
       Atomic!ResolveEmail, ResolveEmail, Atomic!NoExceptions, NoExceptions,
       Atomic!Merge, Merge

LEMMA SameChangedDocument ==
    \A q, d : Atomic!ChangedDocument(q, d) = ChangedDocument(q, d)
BY DEF Atomic!ChangedDocument, ChangedDocument, Atomic!ChangedExceptions,
       ChangedExceptions, Atomic!EditedException, EditedException, Atomic!Cancellation,
       Cancellation, Atomic!Overridden, Overridden, Atomic!Merge, Merge

LEMMA SameWhenCurrent ==
    \A q, cal, results :
        Atomic!WhenCurrent(q, cal, results) = WhenCurrent(q, cal, results)
BY SameRefuse DEF Atomic!WhenCurrent, WhenCurrent, Atomic!Found, Found

LEMMA SameCreateResults ==
    \A q, self, cal : Atomic!CreateResults(q, self, cal) = CreateResults(q, self, cal)
BY SameExpandable, SameRefuse, SameIfNoConflict, SameNewDocument
   DEF Atomic!CreateResults, CreateResults, Atomic!BadCreate, BadCreate, Atomic!Write, Write

LEMMA SameUpdateResults ==
    \A q, cal : Atomic!UpdateResults(q, cal) = UpdateResults(q, cal)
<1> TAKE q, cal
<1> DEFINE d == cal[q.id]
           next == UpdatedDocument(q, d)
           done == Write(200, next, ReminderScheduleChanged(d, next))
<1>1. Atomic!Write(200, next, Atomic!ReminderScheduleChanged(d, next)) = done
  BY SameScheduleChanged DEF Atomic!Write, Write
<1>2. Atomic!UpdatedDocument(q, d) = next
  BY SameUpdatedDocument
<1>3. Atomic!Orphans(q, d) <=> Orphans(q, d)
  BY DEF Atomic!Orphans, Orphans
<1>4. Atomic!IfNoConflict(next, q.id, cal, done) = IfNoConflict(next, q.id, cal, done)
  BY SameIfNoConflict
<1> HIDE DEF next, done
<1>5. (IF Atomic!Orphans(q, d) \/ ~Atomic!Expandable(next) THEN {Atomic!Refuse(400)}
       ELSE Atomic!IfNoConflict(next, q.id, cal, done))
      = (IF Orphans(q, d) \/ ~Expandable(next) THEN {Refuse(400)}
         ELSE IfNoConflict(next, q.id, cal, done))
  BY <1>3, <1>4, SameExpandable, SameRefuse
<1> QED
  BY <1>1, <1>2, <1>5, SameWhenCurrent
     DEF Atomic!UpdateResults, UpdateResults, next, done

LEMMA SameDeleteResults ==
    \A q, cal : Atomic!DeleteResults(q, cal) = DeleteResults(q, cal)
BY SameWhenCurrent DEF Atomic!DeleteResults, DeleteResults, Atomic!Write, Write

LEMMA SameOccurrenceResults ==
    \A q, cal : Atomic!OccurrenceResults(q, cal) = OccurrenceResults(q, cal)
<1> TAKE q, cal
<1> DEFINE d == cal[q.id]
           next == ChangedDocument(q, d)
           done == Write(200, next, ReminderScheduleChanged(d, next))
<1>1. Atomic!Write(200, next, Atomic!ReminderScheduleChanged(d, next)) = done
  BY SameScheduleChanged DEF Atomic!Write, Write
<1>2. Atomic!ChangedDocument(q, d) = next
  BY SameChangedDocument
<1>3. Atomic!IfNoConflict(next, q.id, cal, done) = IfNoConflict(next, q.id, cal, done)
  BY SameIfNoConflict
<1>4. Atomic!BaseKeys(d) = BaseKeys(d)
  BY SameKeys
<1>5. Atomic!Refuse(400) = Refuse(400) /\ Atomic!Refuse(404) = Refuse(404)
  BY SameRefuse
<1> HIDE DEF next, done
<1>6. Atomic!Expandable(next) <=> Expandable(next)
  BY SameExpandable
<1> QED
  BY <1>1, <1>2, <1>3, <1>4, <1>5, <1>6, SameWhenCurrent
     DEF Atomic!OccurrenceResults, OccurrenceResults, next, done

LEMMA SameResults ==
    \A q, self, cal : Atomic!Results(q, self, cal) = Results(q, self, cal)
BY SameCreateResults, SameUpdateResults, SameDeleteResults, SameOccurrenceResults
   DEF Atomic!Results, Results

-----------------------------------------------------------------------------
(* A request is decided by its owner's events alone. *)

(* The calendars hold the same events of owner o. *)
SameFor(o, cal, other) ==
    \A i \in Ids : cal[i] # other[i] => ~OwnedBy(cal[i], o) /\ ~OwnedBy(other[i], o)

(* The check scans the events of the document's owner, and none else.      *)
LEMMA VerdictsAreOwn ==
    ASSUME NEW d, NEW self, NEW cal, NEW other, SameFor(d.owner, cal, other)
    PROVE  Verdicts(d, self, cal) = Verdicts(d, self, other)
<1> DEFINE ids == Scanned(d, self, cal)
<1> HIDE DEF ids
<1>1. ids = Scanned(d, self, other) /\ \A i \in ids : cal[i] = other[i]
  BY DEF Scanned, SameFor, OwnedBy, ids
<1>2. UNION {{i} \X BaseKeys(cal[i]) : i \in ids}
          = UNION {{i} \X BaseKeys(other[i]) : i \in ids}
  <2>1. {{i} \X BaseKeys(cal[i]) : i \in ids} = {{i} \X BaseKeys(other[i]) : i \in ids}
    BY <1>1
  <2> QED
    BY <2>1
<1>3. OverCapacity(d, self, cal) <=> OverCapacity(d, self, other)
  BY <1>1, <1>2 DEF OverCapacity, ids
<1>4. (\E i \in Scanned(d, self, cal) : Clash(d, cal[i]))
         <=> (\E i \in Scanned(d, self, other) : Clash(d, other[i]))
  BY <1>1 DEF ids
<1> QED
  BY <1>3, <1>4 DEF Verdicts

LEMMA ResultsAreOwn ==
    ASSUME NEW q, IsRequest(q), NEW self, NEW cal, NEW other, SameFor(q.owner, cal, other)
    PROVE  Results(q, self, cal) = Results(q, self, other)
<1>1. ASSUME NEW d, d.owner = q.owner, NEW at, NEW result
      PROVE  IfNoConflict(d, at, cal, result) = IfNoConflict(d, at, other, result)
  BY <1>1, VerdictsAreOwn DEF IfNoConflict
<1>2. ASSUME q.op # "create"
      PROVE  /\ Found(q, cal) <=> Found(q, other)
             /\ Found(q, cal) => cal[q.id] = other[q.id] /\ cal[q.id].owner = q.owner
  BY <1>2 DEF IsRequest, SameFor, OwnedBy, Found
<1>3. CASE q.op = "create"
  <2>1. NewDocument(q).owner = q.owner
    BY DEF NewDocument
  <2>2. CreateResults(q, self, cal) = CreateResults(q, self, other)
    BY <1>1, <2>1 DEF CreateResults
  <2> QED
    BY <1>3, <2>2 DEF Results
<1>4. CASE q.op # "create" /\ ~Found(q, cal)
  BY <1>2, <1>4 DEF Results, UpdateResults, DeleteResults, OccurrenceResults, WhenCurrent,
                    IsRequest, Operations
<1>5. CASE q.op # "create" /\ Found(q, cal)
  <2> DEFINE d == cal[q.id]
  <2>1. d = other[q.id] /\ d.owner = q.owner /\ Found(q, other)
    BY <1>2, <1>5
  <2>2. UpdatedDocument(q, d).owner = q.owner /\ ChangedDocument(q, d).owner = q.owner
    BY <2>1 DEF UpdatedDocument, ChangedDocument
  <2>3. UpdateResults(q, cal) = UpdateResults(q, other)
    BY <1>1, <1>5, <2>1, <2>2 DEF UpdateResults, WhenCurrent
  <2>4. DeleteResults(q, cal) = DeleteResults(q, other)
    BY <1>5, <2>1 DEF DeleteResults, WhenCurrent
  <2>5. OccurrenceResults(q, cal) = OccurrenceResults(q, other)
    BY <1>1, <1>5, <2>1, <2>2 DEF OccurrenceResults, WhenCurrent
  <2> QED
    BY <1>5, <2>3, <2>4, <2>5 DEF Results, IsRequest, Operations
<1> QED
  BY <1>3, <1>4, <1>5
-----------------------------------------------------------------------------
(* What a commit does *)

(* A transaction that ends in a commit was decided as if it had read the   *)
(* collection that it is committed to.                                     *)
LEMMA StagedOnCurrent ==
    ASSUME IInv, NEW r \in Requests, pc[r] = "commit"
    PROVE  staged[r] \in Results(request[r], r, events)
<1>1. IsRequest(request[r])
  BY InputsAssumption DEF IInv, RequestSent
<1>2. SameFor(request[r].owner, snapshot[r], events)
  BY DEF IInv, SnapshotFresh, LockFresh, Locked, Running, Agrees, SameFor
<1> QED
  BY <1>1, <1>2, ResultsAreOwn DEF IInv, StagedFromSnapshot

LEMMA RefusedOnCurrent ==
    ASSUME IInv, NEW r \in Requests, pc[r] = "operate"
    PROVE  Results(request[r], r, snapshot[r]) = Results(request[r], r, events)
<1>1. IsRequest(request[r])
  BY InputsAssumption DEF IInv, RequestSent
<1>2. SameFor(request[r].owner, snapshot[r], events)
  BY DEF IInv, SnapshotFresh, LockFresh, Locked, Running, Agrees, SameFor
<1> QED
  BY <1>1, <1>2, ResultsAreOwn

(* doc follows what the collection holds under i: a first revision or the  *)
(* next one, and with the same reminders unless it is to be planned again. *)
Follows(doc, replan, i) ==
    /\ IsDocument(doc)
    /\ doc.rev = IF events[i] = None THEN 1 ELSE events[i].rev + 1
    /\ replan \/ (events[i] # None /\ Reminders(doc) = Reminders(events[i]))

LEMMA CommitEffect ==
    ASSUME IInv, NEW r \in Requests, CommitTransaction(r)
    PROVE  LET q == request[r]
               i == Target(q, r)
               result == staged[r]
           IN  \/ /\ UNCHANGED calendarVars
                  /\ outcome' = [outcome EXCEPT ![r] = result.status]
                  /\ result.status \in Refusals
               \/ /\ i \in Ids
                  /\ Store(i, result)
                  /\ outcome' = [outcome EXCEPT ![r] = result.status]
                  /\ q.op = "create" => result.status = 201 /\ i = r /\ events[i] = None
                  /\ q.op # "create" =>
                        /\ i = q.id /\ events[i] # None /\ events[i].rev = q.rev
                        /\ \A s \in Requests : Unborn(s) => s # i
                  /\ result.doc # None => Follows(result.doc, result.replan, i)
<1> DEFINE q == request[r]
           i == Target(q, r)
           result == staged[r]
<1>1. /\ pc[r] = "commit"
      /\ outcome' = [outcome EXCEPT ![r] = result.status]
      /\ IF result.write THEN Store(i, result) ELSE UNCHANGED calendarVars
  BY DEF CommitTransaction
<1>2. /\ i \in Ids /\ IsRequest(q)
      /\ result.write =>
            /\ SoundResult(result, q, r, snapshot[r])
            /\ q.op = "create" => i = r /\ events[i] = None
            /\ q.op # "create" =>
                  /\ i = q.id /\ events[i] # None
                  /\ events[i] = snapshot[r][i]
                  /\ events[i].owner = q.owner /\ events[i].rev = q.rev
                  /\ \A s \in Requests : Unborn(s) => s # i
  BY <1>1, StagedIsCurrent
<1>3. SoundResult(result, q, r, snapshot[r])
  <2>1. result \in Results(q, r, snapshot[r])
    BY <1>1 DEF IInv, StagedFromSnapshot
  <2>2. IsCalendar(snapshot[r]) /\ AllExpand(snapshot[r]) /\ NoClashes(snapshot[r])
    BY DEF IInv, TypeOK, SnapshotSound
  <2> QED
    BY <1>2, <2>1, <2>2, ResultsAreSound
<1> HIDE DEF q, i, result
<1>4. CASE ~result.write
  BY <1>1, <1>3, <1>4, RefusedOrWritten DEF q, i, result
<1>5. CASE result.write
  <2>1. Due(result.status, q, snapshot[r])
    BY <1>3, <1>5, RefusedOrWritten
  <2>2. ASSUME result.doc # None
        PROVE  /\ IsDocument(result.doc)
               /\ Continues(result.doc, result.replan, q, snapshot[r])
    <3>1. ~\E status \in Refusals : result = Refuse(status)
      BY <1>5 DEF Refuse
    <3> QED
      BY <1>3, <2>2, <3>1 DEF SoundResult
  <2>3. result.doc # None => Follows(result.doc, result.replan, i)
    BY <1>2, <1>5, <2>2 DEF Follows, Continues
  <2>4. q.op = "create" => result.status = 201
    BY <2>1 DEF Due
  <2> QED
    BY <1>1, <1>2, <1>5, <2>3, <2>4 DEF q, i, result
<1> QED
  BY <1>4, <1>5

-----------------------------------------------------------------------------
(* Revisions *)

LEMMA StoredAt ==
    ASSUME IInv, NEW i \in Ids, NEW result, Store(i, result)
    PROVE  \A j \in Ids :
               /\ events'[j] = IF j = i THEN result.doc ELSE events[j]
               /\ marker'[j] = IF j # i THEN marker[j]
                               ELSE IF result.replan \/ result.doc = None THEN "pending"
                               ELSE marker[j]
               /\ planned'[j] = IF j # i THEN planned[j]
                                ELSE IF result.doc = None THEN {} ELSE planned[j]
<1>1. DOMAIN events = Ids /\ DOMAIN marker = Ids /\ DOMAIN planned = Ids
  BY DEF IInv, TypeOK, IsCalendar
<1> QED
  BY <1>1 DEF Store

(* Only commits change the calendar. *)
LEMMA OnlyCommitsWrite ==
    ASSUME [Next]_vars
    PROVE  events' = events \/ \E r \in Requests : CommitTransaction(r)
BY DEF Next, Steps, Failures, Planner, Submit, RefuseBadCreate, EnsureOwner, Begin,
       LockOwner, Refused, StageNothing, StageWrite, Restart, Commit, Reap, CommitUnheard,
       Transient, GiveUp, Crash, PlanRead, PlanAck, vars, calendarVars

(* No committed change is lost or applied twice: each document follows the *)
(* one it replaces (If-Match, the lock and the driver's reruns together).  *)
THEOREM RevisionsAdvance == Spec => RevisionsStep
<1>1. ASSUME IInv, [Next]_vars, NEW i \in Ids, events'[i] # events[i], events'[i] # None
      PROVE  events'[i].rev = IF events[i] = None THEN 1 ELSE events[i].rev + 1
  <2>1. PICK r \in Requests : CommitTransaction(r)
    BY <1>1, OnlyCommitsWrite
  <2> DEFINE j == Target(request[r], r)
  <2>2. /\ j \in Ids /\ Store(j, staged[r])
        /\ staged[r].doc # None => Follows(staged[r].doc, staged[r].replan, j)
    BY <1>1, <2>1, CommitEffect DEF calendarVars
  <2>3. j = i /\ events'[i] = staged[r].doc
    BY <1>1, <2>2, StoredAt
  <2> QED
    BY <1>1, <2>2, <2>3 DEF Follows
<1>2. IInv /\ [Next]_vars
          => [\A i \in Ids : events'[i] # events[i] /\ events'[i] # None =>
                 events'[i].rev = IF events[i] = None THEN 1 ELSE events[i].rev + 1]_vars
  BY <1>1
<1> QED
  BY <1>2, Invariance, PTL DEF Spec, RevisionsStep

-----------------------------------------------------------------------------
(* The life of an ID *)

(* No request may yet create an event under this ID. *)
Used(i) == \A r \in Requests : Unborn(r) => r # i

LEMMA StoredIsUsed ==
    ASSUME IInv, NEW i \in Ids, events[i] # None
    PROVE  Used(i)
BY DEF IInv, NotYetMinted, Used

(* Requests that have ended stay ended. *)
LEMMA UsedStays ==
    ASSUME [Next]_vars, TypeOK, NEW i \in Ids, Used(i)
    PROVE  Used(i)'
<1>1. SUFFICES ASSUME NEW r \in Requests, ~Unborn(r)
               PROVE  ~Unborn(r)'
  BY DEF Used
<1>2. DOMAIN pc = Requests /\ pc[r] \in {"answered", "lost"}
  BY <1>1 DEF TypeOK, Unborn
<1>3. pc'[r] = pc[r]
  <2>1. CASE pc' = pc
    BY <2>1
  <2>2. CASE \E s \in Requests : \E label :
                pc[s] \in {"idle"} \cup InFlight /\ pc' = [pc EXCEPT ![s] = label]
    BY <1>1, <1>2, <2>2 DEF Unborn
  <2>3. CASE \E s \in Requests : (\E q \in Inputs : Submit(s, q)) \/ Steps(s)
    BY <2>2, <2>3 DEF Submit, Steps, RefuseBadCreate, EnsureOwner, Begin, LockOwner, Refused,
          StageNothing, StageWrite, Restart, Commit, CommitTransaction, Reap, Goto,
          InFlight, Open
  <2>4. CASE \E s \in Requests : Failures(s)
    BY <2>2, <2>4 DEF Failures, CommitUnheard, CommitTransaction, Transient, GiveUp, Crash,
          Goto, InFlight, Open
  <2> QED
    BY <2>1, <2>3, <2>4 DEF Next, Planner, PlanRead, PlanAck, vars
<1> QED
  BY <1>1, <1>2, <1>3 DEF Unborn

LEMMA UsedStaysEmpty ==
    ASSUME IInv, [Next]_vars, NEW i \in Ids, Used(i), events[i] = None
    PROVE  events'[i] = None
<1>1. CASE events' = events
  BY <1>1
<1>2. ASSUME NEW r \in Requests, CommitTransaction(r), events' # events
      PROVE  events'[i] = None
  <2> DEFINE j == Target(request[r], r)
  <2>1. /\ j \in Ids /\ Store(j, staged[r])
        /\ request[r].op = "create" => j = r
        /\ request[r].op # "create" => events[j] # None
    BY <1>2, CommitEffect DEF calendarVars
  <2>2. Unborn(r)
    BY <1>2 DEF CommitTransaction, Unborn, InFlight, Open
  <2>3. j # i
    BY <2>1, <2>2 DEF Used
  <2> QED
    BY <2>1, <2>3, StoredAt
<1> QED
  BY <1>1, <1>2, OnlyCommitsWrite

(* An event once deleted never comes back, whatever transactions had read  *)
(* it before, are rerun or commit late (withTransaction, deleteEvent).     *)
THEOREM DeletionsAreFinal == Spec => DeletedForGood
<1>1. SUFFICES ASSUME NEW i \in Ids
               PROVE  Spec => [](events[i] # None =>
                                    [](events[i] = None => [](events[i] = None)))
  BY <1>1 DEF DeletedForGood
<1>2. IInv /\ events[i] # None => Used(i)
  BY StoredIsUsed
<1>3. IInv /\ [Next]_vars /\ Used(i) => Used(i)'
  BY UsedStays DEF IInv
<1>4. IInv /\ [Next]_vars /\ Used(i) /\ events[i] = None => (events[i] = None)'
  BY UsedStaysEmpty
<1> QED
  BY <1>2, <1>3, <1>4, Invariance, PTL DEF Spec

(* What CalendarReads takes every write of others to be. *)
OrdinaryWrite ==
    \E i \in Ids :
        /\ \A j \in Ids \ {i} : events'[j] = events[j]
        /\ events'[i] # None => IsDocument(events'[i]) /\ Expandable(events'[i])
        /\ events[i] # None /\ events'[i] # None => events'[i].owner = events[i].owner

(* A reader beside the writers meets only writes that CalendarReads allows *)
(* for: one event at a time, never another's, and each document expands    *)
(* (with DeletionsAreFinal, which says that no ID is used again).          *)
THEOREM ReadersMeetOrdinaryWrites == Spec => [][OrdinaryWrite]_events
<1>1. ASSUME IInv, [Next]_vars, events' # events
      PROVE  OrdinaryWrite
  <2>1. PICK r \in Requests : CommitTransaction(r)
    BY <1>1, OnlyCommitsWrite
  <2> DEFINE i == Target(request[r], r)
             result == staged[r]
  <2>2. pc[r] = "commit" /\ result.write /\ Store(i, result)
    BY <1>1, <2>1 DEF CommitTransaction, calendarVars
  <2>3. /\ i \in Ids
        /\ request[r].op = "create" => events[i] = None
        /\ request[r].op # "create" => events[i].owner = request[r].owner
        /\ result.doc # None => /\ IsDocument(result.doc) /\ Expandable(result.doc)
                                /\ result.doc.owner = request[r].owner
    BY <1>1, <2>2, StagedIsCurrent
  <2>4. events'[i] = result.doc /\ \A j \in Ids \ {i} : events'[j] = events[j]
    BY <1>1, <2>2, <2>3, StoredAt
  <2> HIDE DEF i, result
  <2> QED
    BY <2>3, <2>4 DEF OrdinaryWrite
<1>2. IInv /\ [Next]_vars => [OrdinaryWrite]_events
  BY <1>1
<1> QED
  BY <1>2, Invariance, PTL DEF Spec

(* The document a request would store, before it is validated and checked. *)
Proposal(q, cal) ==
    CASE q.op = "create" -> NewDocument(q)
      [] q.op = "update" -> UpdatedDocument(q, cal[q.id])
      [] OTHER -> ChangedDocument(q, cal[q.id])

(* What ConflictScan takes its calendar and its candidate to be. *)
SearchedSoundly(r) ==
    LET q == request[r]
        cal == snapshot[r]
    IN  /\ IsCalendar(cal) /\ AllExpand(cal)
        /\ q.op # "delete" /\ (q.op # "create" => Found(q, cal)) =>
              IsDocument(Proposal(q, cal))

(* A conflict search finds the calendar that ConflictScan expects: what    *)
(* ever was committed before the transaction began, every document is an   *)
(* event that expands, all-day ones in whole days, and so is the candidate *)
(* once it has passed validateEvent and expandEvent (createEvent,          *)
(* updateEvent, changeOccurrence).                                         *)
THEOREM SearchersMeetSoundCalendars ==
    Spec => [](\A r \in Requests : pc[r] = "operate" => SearchedSoundly(r))
<1>1. ASSUME IInv, NEW r \in Requests, pc[r] = "operate"
      PROVE  SearchedSoundly(r)
  <2> DEFINE q == request[r]
             cal == snapshot[r]
  <2>1. IsCalendar(cal) /\ AllExpand(cal)
    BY <1>1 DEF IInv, TypeOK, SnapshotSound
  <2>2. IsRequest(q)
    BY <1>1, InputsAssumption DEF IInv, RequestSent, Running, InFlight, Open
  <2> HIDE DEF q, cal
  <2>3. ASSUME q.op # "create", Found(q, cal)
        PROVE  IsDocument(cal[q.id])
    BY <2>1, <2>2, <2>3 DEF IsRequest, IsCalendar, Found
  <2>4. CASE q.op = "create"
    BY <2>1, <2>2, <2>4, NewDocumentTyped DEF SearchedSoundly, Proposal, q, cal
  <2>5. CASE q.op = "update"
    BY <2>1, <2>2, <2>3, <2>5, UpdatedDocumentTyped DEF SearchedSoundly, Proposal, q, cal
  <2>6. CASE q.op \in {"edit", "cancel", "restore"}
    BY <2>1, <2>2, <2>3, <2>6, ChangedDocumentTyped DEF SearchedSoundly, Proposal, q, cal
  <2>7. CASE q.op = "delete"
    BY <2>1, <2>7 DEF SearchedSoundly, q, cal
  <2> QED
    BY <2>2, <2>4, <2>5, <2>6, <2>7 DEF IsRequest, Operations
<1>2. IInv => \A r \in Requests : pc[r] = "operate" => SearchedSoundly(r)
  BY <1>1
<1> QED
  BY <1>2, Invariance, PTL

-----------------------------------------------------------------------------
(* Winners and plans *)

(* The planner's document is at most behind the collection, and an event   *)
(* that is still at the revision it read is the document it read.          *)
PlanBehind ==
    plan # None =>
        /\ \A r \in Requests : Unborn(r) => r # plan.id
        /\ events[plan.id] # None =>
              /\ plan.doc.rev <= events[plan.id].rev
              /\ plan.doc.rev = events[plan.id].rev => plan.doc = events[plan.id]

Won(r) == outcome[r] \in {200, 204}

(* The revision a winner named is gone for good. *)
WinnersPassed ==
    \A r \in Requests :
        /\ Unborn(r) => outcome[r] = 0
        /\ Won(r) =>
              /\ request[r] \in Inputs /\ request[r].op # "create"
              /\ \A s \in Requests : Unborn(s) => s # request[r].id
              /\ events[request[r].id] # None =>
                    request[r].rev < events[request[r].id].rev

HInv ==
    /\ IInv
    /\ PlanBehind
    /\ WinnersPassed
    /\ OneWinnerPerRevision
    /\ PlannedIsCurrent

LEMMA InitHInv == Init => HInv
<1> SUFFICES ASSUME Init PROVE HInv
  OBVIOUS
<1>1. IInv
  BY InitIInv
<1>2. PlanBehind /\ PlannedIsCurrent
  BY DEF Init, PlanBehind, PlannedIsCurrent
<1>3. WinnersPassed /\ OneWinnerPerRevision
  BY DEF Init, WinnersPassed, OneWinnerPerRevision, Won
<1> QED
  BY <1>1, <1>2, <1>3 DEF HInv

(* A step that leaves calendar and planner alone and answers, if anyone, a *)
(* request it refuses.                                                     *)
LEMMA QuietHInv ==
    ASSUME HInv, IInv', UNCHANGED calendarVars, UNCHANGED plan,
           \A r \in Requests :
               /\ Unborn(r)' => Unborn(r)
               /\ \/ outcome'[r] = outcome[r] /\ (Unborn(r) \/ request'[r] = request[r])
                  \/ outcome'[r] \in Refusals /\ ~Unborn(r)'
    PROVE  HInv'
<1>1. PlanBehind' /\ PlannedIsCurrent'
  BY DEF HInv, PlanBehind, PlannedIsCurrent, calendarVars
<1>2. ASSUME NEW r \in Requests, Won(r)'
      PROVE  Won(r) /\ ~Unborn(r) /\ request'[r] = request[r] /\ outcome'[r] = outcome[r]
  BY <1>2 DEF HInv, WinnersPassed, Won, Refusals
<1>3. WinnersPassed'
  BY <1>2 DEF HInv, WinnersPassed, Won, calendarVars, Refusals
<1>4. OneWinnerPerRevision'
  BY <1>2 DEF HInv, OneWinnerPerRevision, Won
<1> QED
  BY <1>1, <1>3, <1>4 DEF HInv

LEMMA CommitHInv ==
    ASSUME HInv, IInv', NEW r \in Requests, CommitTransaction(r),
           NEW label \in {"answered", "lost"}, Goto(r, label)
    PROVE  HInv'
<1> DEFINE q == request[r]
           i == Target(q, r)
           result == staged[r]
<1>1. /\ pc[r] = "commit" /\ Unborn(r) /\ ~Unborn(r)'
      /\ \A s \in Requests : Unborn(s)' => Unborn(s) /\ s # r
      /\ request' = request /\ plan' = plan
      /\ IsRequest(q) /\ q \in Inputs
  <2>1. pc'[r] = label /\ \A s \in Requests \ {r} : pc'[s] = pc[s]
    BY DEF HInv, IInv, TypeOK, Goto
  <2>2. IsRequest(q) /\ q \in Inputs
    BY InputsAssumption DEF HInv, IInv, RequestSent, CommitTransaction
  <2> QED
    BY <2>1, <2>2 DEF CommitTransaction, planVars, Unborn, InFlight, Open
<1>2. \A s \in Requests : outcome'[s] = IF s = r THEN result.status ELSE outcome[s]
  BY DEF HInv, IInv, TypeOK, CommitTransaction
<1> HIDE DEF q, i, result
<1>3. CASE UNCHANGED calendarVars /\ result.status \in Refusals
  BY <1>1, <1>2, <1>3, QuietHInv
<1>4. CASE /\ i \in Ids
           /\ Store(i, result)
           /\ q.op = "create" => result.status = 201 /\ i = r /\ events[i] = None
           /\ q.op # "create" =>
                 /\ i = q.id /\ events[i] # None /\ events[i].rev = q.rev
                 /\ \A s \in Requests : Unborn(s) => s # i
           /\ result.doc # None => Follows(result.doc, result.replan, i)
  <2>1. \A j \in Ids :
            /\ events'[j] = IF j = i THEN result.doc ELSE events[j]
            /\ marker'[j] = IF j # i THEN marker[j]
                            ELSE IF result.replan \/ result.doc = None THEN "pending"
                            ELSE marker[j]
            /\ planned'[j] = IF j # i THEN planned[j]
                             ELSE IF result.doc = None THEN {} ELSE planned[j]
    BY <1>4, StoredAt DEF HInv
  <2>2. PlanBehind'
    <3> SUFFICES ASSUME plan # None, events'[plan.id] # None
                 PROVE  /\ plan.doc.rev <= events'[plan.id].rev
                        /\ plan.doc.rev = events'[plan.id].rev => plan.doc = events'[plan.id]
      BY <1>1 DEF HInv, PlanBehind
    <3>1. /\ plan.id \in Ids /\ plan.doc.rev \in Nat /\ plan.id # r
          /\ events[plan.id] # None =>
                /\ events[plan.id].rev \in Nat
                /\ plan.doc.rev <= events[plan.id].rev
                /\ plan.doc.rev = events[plan.id].rev => plan.doc = events[plan.id]
      BY <1>1 DEF HInv, IInv, TypeOK, IsCalendar, IsDocument, PlanBehind
    <3>2. CASE plan.id # i
      BY <2>1, <3>1, <3>2
    <3>3. CASE plan.id = i
      <4>1. events[i] # None /\ result.doc.rev = events[i].rev + 1
        BY <1>4, <2>1, <3>1, <3>3 DEF Follows
      <4> QED
        BY <2>1, <3>1, <3>3, <4>1
    <3> QED
      BY <3>2, <3>3
  <2>3. PlannedIsCurrent'
    <3> SUFFICES ASSUME NEW j \in Ids, marker'[j] = "planned"
                 PROVE  events'[j] # None /\ planned'[j] = Reminders(events'[j])
      BY DEF PlannedIsCurrent
    <3>1. CASE j # i
      BY <2>1, <3>1 DEF HInv, PlannedIsCurrent
    <3>2. CASE j = i
      <4>1. /\ result.doc # None /\ ~result.replan /\ marker[i] = "planned"
            /\ planned'[i] = planned[i] /\ events'[i] = result.doc
        BY <2>1, <3>2
      <4>2. Reminders(result.doc) = Reminders(events[i])
        BY <1>4, <4>1 DEF Follows
      <4> QED
        BY <1>4, <3>2, <4>1, <4>2 DEF HInv, PlannedIsCurrent
    <3> QED
      BY <3>1, <3>2
  (* Nobody had won the revision that r wins now. *)
  <2>4. ASSUME NEW s \in Requests \ {r}, Won(s), Won(r)',
               request[s].id = q.id, request[s].rev = q.rev
        PROVE  FALSE
    <3>1. q.op # "create"
      BY <1>2, <1>4, <2>4 DEF Won
    <3>2. q.rev < events[i].rev /\ events[i].rev = q.rev /\ q.rev \in Nat
      BY <1>1, <1>4, <2>4, <3>1 DEF HInv, WinnersPassed, IsRequest
    <3> QED
      BY <3>2
  <2>5. OneWinnerPerRevision'
    <3>1. \A s \in Requests \ {r} : Won(s)' <=> Won(s)
      BY <1>2 DEF Won
    <3>2. \A s, t \in Requests : s # t /\ Won(s)' /\ Won(t)' =>
              \/ request[s].id # request[t].id
              \/ request[s].rev # request[t].rev
      BY <2>4, <3>1 DEF HInv, OneWinnerPerRevision, Won, q
    <3> QED
      BY <1>1, <3>2 DEF OneWinnerPerRevision, Won
  <2>6. WinnersPassed'
    <3> SUFFICES ASSUME NEW s \in Requests
                 PROVE  /\ Unborn(s)' => outcome'[s] = 0
                        /\ Won(s)' =>
                              /\ request[s] \in Inputs /\ request[s].op # "create"
                              /\ \A t \in Requests : Unborn(t)' => t # request[s].id
                              /\ events'[request[s].id] # None =>
                                    request[s].rev < events'[request[s].id].rev
      BY <1>1 DEF WinnersPassed
    <3>1. Unborn(s)' => outcome'[s] = 0
      BY <1>1, <1>2 DEF HInv, WinnersPassed
    <3>2. ASSUME s = r, Won(s)'
          PROVE  /\ request[s] \in Inputs /\ request[s].op # "create"
                 /\ \A t \in Requests : Unborn(t)' => t # request[s].id
                 /\ events'[request[s].id] # None =>
                       request[s].rev < events'[request[s].id].rev
      <4>1. q.op # "create" /\ request[s] = q
        BY <1>2, <1>4, <3>2 DEF Won, q
      <4>2. q.rev \in Nat
        BY <1>1, <4>1 DEF IsRequest
      <4> QED
        BY <1>1, <1>4, <2>1, <4>1, <4>2 DEF Follows
    <3>3. ASSUME s # r, Won(s)'
          PROVE  /\ request[s] \in Inputs /\ request[s].op # "create"
                 /\ \A t \in Requests : Unborn(t)' => t # request[s].id
                 /\ events'[request[s].id] # None =>
                       request[s].rev < events'[request[s].id].rev
      <4>1. /\ request[s] \in Inputs /\ request[s].op # "create"
            /\ \A t \in Requests : Unborn(t) => t # request[s].id
            /\ events[request[s].id] # None => request[s].rev < events[request[s].id].rev
        BY <1>2, <3>3 DEF HInv, WinnersPassed, Won
      <4>2. request[s].id \in Ids /\ request[s].rev \in Nat /\ request[s].id # r
        BY <1>1, <4>1, InputsAssumption DEF IsRequest
      <4>3. CASE request[s].id # i
        BY <1>1, <2>1, <4>1, <4>2, <4>3
      <4>4. CASE request[s].id = i
        <5>1. events[i] # None /\ events[i].rev \in Nat
          BY <1>4, <4>2, <4>4 DEF HInv, IInv, TypeOK, IsCalendar, IsDocument
        <5>2. result.doc # None => result.doc.rev = events[i].rev + 1
          BY <1>4, <5>1 DEF Follows
        <5> QED
          BY <1>1, <1>4, <2>1, <4>1, <4>2, <4>4, <5>1, <5>2
      <4> QED
        BY <4>3, <4>4
    <3> QED
      BY <3>1, <3>2, <3>3
  <2> QED
    BY <2>2, <2>3, <2>5, <2>6 DEF HInv
<1> QED
  BY <1>3, <1>4, CommitEffect DEF HInv, q, i, result

(* An acknowledgement that matches the revision plans the document itself. *)
LEMMA PlannerHInv ==
    ASSUME HInv, IInv', Planner
    PROVE  HInv'
<1>1. CASE \E i \in Ids : PlanRead(i)
  <2>1. PICK i \in Ids : PlanRead(i)
    BY <1>1
  <2>2. plan' = [id |-> i, doc |-> events[i]] /\ events[i] # None /\ events' = events
    BY <2>1 DEF PlanRead, calendarVars
  <2>3. events[i].rev \in Nat
    BY <2>2 DEF HInv, IInv, TypeOK, IsCalendar, IsDocument
  <2>4. PlanBehind'
    BY <2>1, <2>2, <2>3 DEF PlanBehind, PlanRead, HInv, IInv, NotYetMinted, Unborn
  <2>5. WinnersPassed' /\ OneWinnerPerRevision' /\ PlannedIsCurrent'
    BY <2>1 DEF PlanRead, HInv, WinnersPassed, OneWinnerPerRevision, PlannedIsCurrent,
                Won, Unborn, calendarVars
  <2> QED
    BY <2>4, <2>5 DEF HInv
<1>2. CASE \E failed \in BOOLEAN : PlanAck(failed)
  <2>1. PICK failed \in BOOLEAN : PlanAck(failed)
    BY <1>2
  <2>2. /\ plan # None /\ plan' = None /\ plan.id \in Ids
        /\ UNCHANGED <<events, request, pc, outcome>>
    BY <2>1 DEF PlanAck, HInv, IInv, TypeOK
  <2>3. PlanBehind' /\ WinnersPassed' /\ OneWinnerPerRevision'
    BY <2>2 DEF HInv, PlanBehind, WinnersPassed, OneWinnerPerRevision, Won, Unborn
  <2>4. PlannedIsCurrent'
    <3>1. CASE StillCurrent(plan)
      <4>1. plan.doc = events[plan.id] /\ events[plan.id] # None
        BY <2>2, <3>1 DEF HInv, PlanBehind, StillCurrent
      <4>2. \A j \in Ids :
                /\ marker'[j] = IF j = plan.id THEN IF failed THEN "retry" ELSE "planned"
                                ELSE marker[j]
                /\ planned'[j] = IF j = plan.id /\ ~failed THEN Reminders(plan.doc)
                                 ELSE planned[j]
        BY <2>1, <2>2, <3>1 DEF PlanAck, HInv, IInv, TypeOK
      <4> QED
        BY <2>2, <4>1, <4>2 DEF HInv, PlannedIsCurrent
    <3>2. CASE ~StillCurrent(plan)
      BY <2>1, <2>2, <3>2 DEF PlanAck, HInv, PlannedIsCurrent
    <3> QED
      BY <3>1, <3>2
  <2> QED
    BY <2>3, <2>4 DEF HInv
<1> QED
  BY <1>1, <1>2 DEF Planner

(* Every other step is quiet. *)
LEMMA RequestHInv ==
    ASSUME HInv, IInv', NEW r \in Requests,
           (\E q \in Inputs : Submit(r, q)) \/ Steps(r) \/ Failures(r)
    PROVE  HInv'
<1> USE DEF calendarVars, planVars, txnVars, Goto, Unborn, InFlight, Open
<1>1. CASE Commit(r) \/ CommitUnheard(r)
  BY <1>1, CommitHInv DEF Commit, CommitUnheard
<1>2. CASE \E q \in Inputs : Submit(r, q)
  <2>1. \A s \in Requests : request'[s] = request[s] \/ s = r
    BY <1>2 DEF Submit, HInv, IInv, TypeOK
  <2> QED
    BY <1>2, <2>1, QuietHInv DEF Submit, HInv, IInv, TypeOK
<1>3. CASE RefuseBadCreate(r) \/ Refused(r)
  <2>1. UNCHANGED calendarVars /\ UNCHANGED plan /\ UNCHANGED request
    BY <1>3 DEF RefuseBadCreate, Refused
  <2>2. \A s \in Requests :
            /\ s # r => pc'[s] = pc[s] /\ outcome'[s] = outcome[s]
            /\ s = r => pc'[s] = "answered" /\ outcome'[s] \in Refusals
    BY <1>3 DEF RefuseBadCreate, Refused, HInv, IInv, TypeOK, Refusals
  <2> QED
    BY <2>1, <2>2, QuietHInv
<1>4. CASE \/ EnsureOwner(r) \/ Begin(r) \/ LockOwner(r) \/ StageNothing(r)
           \/ StageWrite(r) \/ Restart(r) \/ Reap(r)
           \/ Transient(r) \/ GiveUp(r) \/ Crash(r)
  <2>1. UNCHANGED calendarVars /\ UNCHANGED <<plan, request, outcome>>
    BY <1>4 DEF EnsureOwner, Begin, LockOwner, StageNothing, StageWrite, Restart, Reap,
                Transient, GiveUp, Crash
  <2>2. \A s \in Requests :
            /\ s # r => pc'[s] = pc[s]
            /\ s = r => Unborn(s)
    BY <1>4 DEF EnsureOwner, Begin, LockOwner, StageNothing, StageWrite, Restart, Reap,
                Transient, GiveUp, Crash, HInv, IInv, TypeOK
  <2> QED
    BY <2>1, <2>2, QuietHInv
<1> QED
  BY <1>1, <1>2, <1>3, <1>4 DEF Steps, Failures

LEMMA StepHInv ==
    ASSUME HInv, [Next]_vars
    PROVE  HInv'
<1>1. IInv'
  BY StepIInv DEF HInv
<1>2. CASE \E r \in Requests : (\E q \in Inputs : Submit(r, q)) \/ Steps(r) \/ Failures(r)
  BY <1>1, <1>2, RequestHInv
<1>3. CASE Planner
  BY <1>1, <1>3, PlannerHInv
<1>4. CASE UNCHANGED vars
  BY <1>1, <1>4, QuietHInv DEF vars, calendarVars, planVars, Unborn
<1> QED
  BY <1>2, <1>3, <1>4 DEF Next

THEOREM HistoryInvariance == Spec => []HInv
<1>1. Init => HInv
  BY InitHInv
<1>2. HInv /\ [Next]_vars => HInv'
  BY StepHInv
<1> QED
  BY <1>1, <1>2, PTL DEF Spec

(* If-Match: of the requests that name one revision of an event, however   *)
(* many and however often rerun, at most one is accepted.                  *)
THEOREM OneWinner == Spec => []OneWinnerPerRevision
<1>1. HInv => OneWinnerPerRevision
  BY DEF HInv
<1> QED
  BY <1>1, HistoryInvariance, PTL

(* No change of an event's reminders is lost to the planner's              *)
(* acknowledgement of an older document (reminderScheduleChanged with the  *)
(* revision in the acknowledgement's filter).                              *)
THEOREM PlansAreCurrent == Spec => []PlannedIsCurrent
<1>1. HInv => PlannedIsCurrent
  BY DEF HInv
<1> QED
  BY <1>1, HistoryInvariance, PTL

-----------------------------------------------------------------------------
(* What the planner is told *)

(* What Reminders takes the writes of clients and acknowledgements to be:  *)
(* of one event, a creation that marks it, an edit that bumps its revision *)
(* and marks it if the reminders change, a deletion, an acknowledgement.   *)
PlannedWrite ==
    \E i \in Ids :
        /\ \A j \in Ids \ {i} : events'[j] = events[j] /\ marker'[j] = marker[j]
        /\ \/ /\ events[i] = None /\ marker'[i] = "pending"
              /\ events'[i] # None => events'[i].rev = 1
           \/ /\ events[i] # None /\ events'[i] # None
              /\ events'[i].rev = events[i].rev + 1
              /\ marker'[i] \in {marker[i], "pending"}
              /\ Reminders(events'[i]) # Reminders(events[i]) => marker'[i] = "pending"
           \/ events[i] # None /\ events'[i] = None /\ marker'[i] = "pending"
           \/ /\ plan # None /\ plan.id = i
              /\ events' = events /\ events[i] # None /\ plan.doc = events[i]
              /\ marker'[i] \in {"planned", "retry"}

(* Only commits and acknowledgements touch an event's marker. *)
LEMMA OnlyThesePlan ==
    ASSUME [Next]_vars, <<events, marker>>' # <<events, marker>>
    PROVE  \/ \E r \in Requests : CommitTransaction(r)
           \/ \E failed \in BOOLEAN : PlanAck(failed)
BY DEF Next, Steps, Failures, Planner, Submit, RefuseBadCreate, EnsureOwner, Begin,
       LockOwner, Refused, StageNothing, StageWrite, Restart, Commit, Reap, CommitUnheard,
       Transient, GiveUp, Crash, PlanRead, vars, calendarVars

(* The planner beside the writers meets only the writes that Reminders     *)
(* models: the projection that decides whether an edit marks its event     *)
(* overlooks no change of its reminders, a creation or deletion is seen,   *)
(* and an acknowledgement is of the very document that was planned         *)
(* (reminderScheduleChanged, reconcile; with DeletionsAreFinal).           *)
THEOREM PlannerMeetsPlannedWrites == Spec => [][PlannedWrite]_<<events, marker>>
<1>1. ASSUME HInv, [Next]_vars, NEW r \in Requests, CommitTransaction(r),
             <<events, marker>>' # <<events, marker>>
      PROVE  PlannedWrite
  <2> DEFINE q == request[r]
             i == Target(q, r)
             result == staged[r]
  <2>1. pc[r] = "commit" /\ result.write /\ Store(i, result)
    BY <1>1 DEF CommitTransaction, calendarVars
  <2>2. /\ i \in Ids
        /\ q.op = "create" => events[i] = None
        /\ q.op # "create" => events[i] # None
    BY <1>1, <2>1, StagedIsCurrent DEF HInv
  <2>3. result.doc # None => Follows(result.doc, result.replan, i)
    BY <1>1, <2>1, CommitEffect DEF HInv, calendarVars
  <2>4. \A j \in Ids :
            /\ events'[j] = IF j = i THEN result.doc ELSE events[j]
            /\ marker'[j] = IF j # i THEN marker[j]
                            ELSE IF result.replan \/ result.doc = None THEN "pending"
                            ELSE marker[j]
    BY <1>1, <2>1, <2>2, StoredAt DEF HInv
  <2> HIDE DEF q, i, result
  <2>5. CASE result.doc = None
    BY <2>2, <2>4, <2>5 DEF PlannedWrite
  <2>6. CASE result.doc # None
    BY <2>2, <2>3, <2>4, <2>6 DEF PlannedWrite, Follows
  <2> QED
    BY <2>5, <2>6
<1>2. ASSUME HInv, NEW failed \in BOOLEAN, PlanAck(failed),
             <<events, marker>>' # <<events, marker>>
      PROVE  PlannedWrite
  <2>1. /\ plan # None /\ StillCurrent(plan) /\ events' = events
        /\ marker' = [marker EXCEPT ![plan.id] = IF failed THEN "retry" ELSE "planned"]
    BY <1>2 DEF PlanAck
  <2>2. plan.id \in Ids /\ plan.doc = events[plan.id] /\ events[plan.id] # None
    BY <1>2, <2>1 DEF HInv, IInv, TypeOK, PlanBehind, StillCurrent
  <2> QED
    BY <1>2, <2>1, <2>2 DEF PlannedWrite, HInv, IInv, TypeOK
<1>3. HInv /\ [Next]_vars => [PlannedWrite]_<<events, marker>>
  BY <1>1, <1>2, OnlyThesePlan
<1> QED
  BY <1>3, HistoryInvariance, PTL DEF Spec

-----------------------------------------------------------------------------
(* The refinement *)

(* What AtomicCalendar sees of pc. *)
Phases == [r \in Requests |-> IF pc[r] \in InFlight THEN "waiting" ELSE pc[r]]

LEMMA PhaseMoves ==
    ASSUME IInv, NEW r \in Requests, NEW label, Goto(r, label)
    PROVE  Phases' = [Phases EXCEPT ![r] = IF label \in InFlight THEN "waiting" ELSE label]
BY DEF Phases, Goto, IInv, TypeOK

LEMMA InitRefines == Init => Atomic!Init
BY DEF Init, Atomic!Init, InFlight, Open

(* A request that goes on without an effect yet. *)
LEMMA ProgressStutters ==
    ASSUME IInv, NEW r \in Requests, pc[r] \in InFlight, NEW label \in InFlight,
           Goto(r, label), UNCHANGED calendarVars, UNCHANGED <<request, outcome>>
    PROVE  UNCHANGED Atomic!vars
<1>1. Phases' = Phases
  BY PhaseMoves DEF Phases
<1> QED
  BY <1>1 DEF Atomic!vars, calendarVars, Phases

(* A request that ends without an effect. *)
LEMMA LossDrops ==
    ASSUME IInv, NEW r \in Requests, pc[r] \in InFlight,
           Goto(r, "lost"), UNCHANGED calendarVars, UNCHANGED <<request, outcome>>
    PROVE  Atomic!Drop(r)
<1>1. Phases' = [Phases EXCEPT ![r] = "lost"] /\ Phases[r] = "waiting"
  BY PhaseMoves DEF Phases, InFlight, Open
<1> QED
  BY <1>1 DEF Atomic!Drop, calendarVars, Phases

(* A request that ends with a result of the calendar as it is.             *)
LEMMA AnswerApplies ==
    ASSUME IInv, NEW r \in Requests, pc[r] \in InFlight,
           NEW label \in {"answered", "lost"}, Goto(r, label), UNCHANGED request,
           NEW result \in Results(request[r], r, events),
           outcome' = [outcome EXCEPT ![r] = result.status],
           IF result.write THEN Store(Target(request[r], r), result)
                           ELSE UNCHANGED calendarVars
    PROVE  Atomic!Apply(r)
<1>1. Phases' = [Phases EXCEPT ![r] = label] /\ Phases[r] = "waiting"
  BY PhaseMoves DEF Phases, InFlight, Open
<1>2. result \in Atomic!Results(request[r], r, events)
  BY SameResults
<1>3. Atomic!Target(request[r], r) = Target(request[r], r)
  BY DEF Atomic!Target, Target
<1> QED
  BY <1>1, <1>2, <1>3 DEF Atomic!Apply, Store, calendarVars, Phases

LEMMA SubmitRefines ==
    ASSUME IInv, NEW r \in Requests, NEW q \in Inputs, Submit(r, q)
    PROVE  Atomic!Submit(r, q)
<1>1. Phases' = [Phases EXCEPT ![r] = "waiting"] /\ Phases[r] = "idle"
  BY PhaseMoves DEF Submit, Phases, InFlight, Open
<1> QED
  BY <1>1 DEF Submit, Atomic!Submit, calendarVars, Phases

(* A refusal is one that the current calendar gives, though it was found   *)
(* on a snapshot, or before there was one.                                 *)
LEMMA RefusalRefines ==
    ASSUME IInv, NEW r \in Requests, RefuseBadCreate(r) \/ Refused(r)
    PROVE  Atomic!Apply(r)
<1>1. CASE RefuseBadCreate(r)
  <2>1. Refuse(400) \in Results(request[r], r, events)
    BY <1>1 DEF RefuseBadCreate, Results, CreateResults, BadCreate
  <2>2. Refuse(400).status = 400 /\ ~Refuse(400).write
    BY DEF Refuse
  <2> QED
    BY <1>1, <2>1, <2>2, AnswerApplies DEF RefuseBadCreate, InFlight
<1>2. CASE Refused(r)
  <2>1. PICK result \in Results(request[r], r, snapshot[r]) :
            /\ result.status \in Refusals \ {404}
            /\ outcome' = [outcome EXCEPT ![r] = result.status]
    BY <1>2 DEF Refused
  <2>2. result \in Results(request[r], r, events)
    BY <1>2, <2>1, RefusedOnCurrent DEF Refused
  <2>3. ~result.write
    <3>1. IsRequest(request[r])
      BY <1>2, InputsAssumption DEF IInv, RequestSent, Refused
    <3>2. IsCalendar(events) /\ AllExpand(events) /\ NoClashes(events)
      BY DEF IInv, TypeOK, StoredExpands, NoDoubleBooking
    <3>3. SoundResult(result, request[r], r, events)
      BY <2>2, <3>1, <3>2, ResultsAreSound
    <3> QED
      BY <2>1, <3>3, RefusedOrWritten DEF Due, Refusals
  <2> QED
    BY <1>2, <2>1, <2>2, <2>3, AnswerApplies DEF Refused, InFlight, Open
<1> QED
  BY <1>1, <1>2

LEMMA CommitRefines ==
    ASSUME IInv, NEW r \in Requests, CommitTransaction(r),
           NEW label \in {"answered", "lost"}, Goto(r, label)
    PROVE  Atomic!Apply(r)
<1>1. staged[r] \in Results(request[r], r, events)
  BY StagedOnCurrent DEF CommitTransaction
<1> QED
  BY <1>1, AnswerApplies DEF CommitTransaction, InFlight, Open

LEMMA PlannerRefines ==
    ASSUME HInv, Planner
    PROVE  (\E i \in Ids : Atomic!Plan(i)) \/ UNCHANGED Atomic!vars
<1>1. CASE \E i \in Ids : PlanRead(i)
  BY <1>1 DEF PlanRead, Atomic!vars, calendarVars
<1>2. CASE \E failed \in BOOLEAN : PlanAck(failed)
  <2>1. PICK failed \in BOOLEAN : PlanAck(failed)
    BY <1>2
  <2>2. CASE StillCurrent(plan)
    <3>1. plan.id \in Ids /\ plan.doc = events[plan.id] /\ events[plan.id] # None
      BY <2>1, <2>2 DEF PlanAck, HInv, IInv, TypeOK, PlanBehind, StillCurrent
    <3>2. Atomic!Reminders(events[plan.id]) = Reminders(plan.doc)
      BY <3>1, SameReminders
    <3>3. planned = [planned EXCEPT ![plan.id] = planned[plan.id]]
      BY DEF HInv, IInv, TypeOK
    <3> QED
      BY <2>1, <2>2, <3>1, <3>2, <3>3 DEF PlanAck, Atomic!Plan
  <2>3. CASE ~StillCurrent(plan)
    BY <2>1, <2>3 DEF PlanAck, Atomic!vars
  <2> QED
    BY <2>2, <2>3
<1> QED
  BY <1>1, <1>2 DEF Planner

LEMMA StepRefines ==
    ASSUME HInv, [Next]_vars
    PROVE  Atomic!Next \/ UNCHANGED Atomic!vars
<1> USE DEF HInv
<1>1. CASE \E r \in Requests, q \in Inputs : Submit(r, q)
  BY <1>1, SubmitRefines DEF Atomic!Next
<1>2. CASE \E r \in Requests : Steps(r) \/ Failures(r)
  <2>1. PICK r \in Requests : Steps(r) \/ Failures(r)
    BY <1>2
  <2>2. CASE RefuseBadCreate(r) \/ Refused(r)
    BY <2>2, RefusalRefines DEF Atomic!Next
  <2>3. CASE Commit(r) \/ CommitUnheard(r)
    BY <2>3, CommitRefines DEF Commit, CommitUnheard, Atomic!Next
  <2>4. CASE GiveUp(r) \/ Reap(r)
    BY <2>4, LossDrops DEF GiveUp, Reap, InFlight, Open, Atomic!Next
  <2>5. CASE \/ EnsureOwner(r) \/ Begin(r) \/ LockOwner(r) \/ StageNothing(r)
             \/ StageWrite(r) \/ Restart(r) \/ Transient(r) \/ Crash(r)
    BY <2>5, ProgressStutters
       DEF EnsureOwner, Begin, LockOwner, StageNothing, StageWrite, Restart, Transient,
           Crash, InFlight, Open
  <2> QED
    BY <2>1, <2>2, <2>3, <2>4, <2>5 DEF Steps, Failures
<1>3. CASE Planner
  BY <1>3, PlannerRefines DEF Atomic!Next
<1>4. CASE UNCHANGED vars
  BY <1>4 DEF vars, calendarVars, Atomic!vars
<1> QED
  BY <1>1, <1>2, <1>3, <1>4 DEF Next

(* Transactions, the owner lock and the driver's reruns implement the      *)
(* promise: each accepted write and each planning happens in one step on   *)
(* the calendar of that step, and each refusal is one that it justifies.   *)
THEOREM WritesAreAtomic == Spec => AtomicSpec
<1>1. Init => Atomic!Init
  BY InitRefines
<1>2. HInv /\ [Next]_vars => [Atomic!Next]_(Atomic!vars)
  BY StepRefines
<1> QED
  BY <1>1, <1>2, HistoryInvariance, PTL DEF Spec, AtomicSpec, Atomic!Spec

=============================================================================
