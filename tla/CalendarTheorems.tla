-------------------------- MODULE CalendarTheorems --------------------------
(***************************************************************************)
(* Facts about the rules of EventService that hold for every request and   *)
(* every calendar: what a result looks like, and that a result which       *)
(* writes leaves no clash behind.                                          *)
(***************************************************************************)
EXTENDS EventService, TLAPS

(* Two events clash in both directions. *)
LEMMA ClashSymmetric ==
    ASSUME NEW d, NEW e, Clash(d, e)
    PROVE  Clash(e, d)
BY DEF Clash, Overlap

(* A single event without exceptions has one occurrence, its own schedule. *)
LEMMA SingleOccurrence ==
    ASSUME NEW d, IsDocument(d), Expandable(d), d.recurrence = None,
           NEW key \in LiveKeys(d)
    PROVE  OccurrenceSchedule(d, key) = d.schedule
<1>1. DOMAIN d.exceptions = {}
  BY DEF Expandable
<1>2. OccurrenceSchedule(d, key) = ScheduleAt(d, key)
  BY <1>1 DEF OccurrenceSchedule, Overridden
<1>3. PICK i \in 0 .. 0 : key = d.schedule.start + i * Period(d.recurrence)
  BY DEF LiveKeys, BaseKeys, LastIndex
<1>4. d.schedule.start \in Int /\ d.schedule.end \in Int /\ d.schedule \in Schedules
  BY DEF IsDocument, Schedules
<1>5. Period(d.recurrence) \in Int
  BY CalendarAssumption DEF Period
<1>6. i * Period(d.recurrence) = 0
  BY <1>5
<1>7. key = d.schedule.start
  BY <1>3, <1>4, <1>6
<1>8. key + (d.schedule.end - d.schedule.start) = d.schedule.end
  BY <1>4, <1>7
<1> QED
  BY <1>2, <1>4, <1>7, <1>8 DEF ScheduleAt, Schedules

(* What the query's prefilter leaves out cannot clash. *)
LEMMA PrefilterIsComplete ==
    ASSUME NEW d, NEW self, NEW cal, IsCalendar(cal), AllExpand(cal),
           NEW j \in Ids \ {self}, cal[j] # None, cal[j].owner = d.owner,
           Clash(d, cal[j])
    PROVE  j \in Scanned(d, self, cal)
<1>1. PICK k \in LiveKeys(d), l \in LiveKeys(cal[j]) :
          Overlap(OccurrenceSchedule(d, k), OccurrenceSchedule(cal[j], l))
  BY DEF Clash
<1>2. CASE cal[j].recurrence # None
  BY <1>2 DEF Scanned
<1>3. CASE cal[j].recurrence = None
  <2>1. OccurrenceSchedule(cal[j], l) = cal[j].schedule
    BY <1>1, <1>3, SingleOccurrence DEF IsCalendar, AllExpand
  <2> QED
    BY <1>1, <2>1 DEF Scanned, Overlap
<1> QED
  BY <1>2, <1>3

-----------------------------------------------------------------------------
(* The conflict check *)

(* Storing doc under the ID self clashes with nothing of its owner in cal. *)
Harmless(doc, self, cal) ==
    ~doc.allow =>
        /\ ~SelfClash(doc)
        /\ \A j \in Ids \ {self} :
              Restricted(cal, j) /\ cal[j].owner = doc.owner => ~Clash(doc, cal[j])

(* A document that assertNoEventConflict lets through is harmless, although *)
(* it looks only at the events the query selects.                          *)
THEOREM ConflictCheckIsSufficient ==
    ASSUME NEW d, NEW self, NEW cal, IsCalendar(cal), AllExpand(cal),
           200 \in Verdicts(d, self, cal)
    PROVE  Harmless(d, self, cal)
<1>1. CASE d.allow
  BY <1>1 DEF Harmless
<1>2. CASE LiveKeys(d) = {}
  BY <1>2 DEF Harmless, SelfClash, Clash
<1>3. CASE ~d.allow /\ LiveKeys(d) # {}
  <2>1. ~SelfClash(d)
    BY <1>3 DEF Verdicts
  <2>2. \A i \in Scanned(d, self, cal) : ~Clash(d, cal[i])
    BY <1>3, <2>1 DEF Verdicts
  <2>3. ASSUME NEW j \in Ids \ {self}, Restricted(cal, j), cal[j].owner = d.owner,
               Clash(d, cal[j])
        PROVE  FALSE
    BY <2>2, <2>3, PrefilterIsComplete DEF Restricted
  <2> QED
    BY <2>1, <2>3 DEF Harmless
<1> QED
  BY <1>1, <1>2, <1>3

(* The check decides between the write and a refusal. *)
LEMMA CheckedResult ==
    ASSUME NEW d, NEW self, NEW cal, NEW write,
           NEW result \in IfNoConflict(d, self, cal, write)
    PROVE  \/ result = write /\ 200 \in Verdicts(d, self, cal)
           \/ \E v \in {409, 413} : result = Refuse(v)
<1>1. PICK v \in Verdicts(d, self, cal) :
          result = IF v = 200 THEN write ELSE Refuse(v)
  BY DEF IfNoConflict
<1>2. v \in {200, 409, 413}
  BY DEF Verdicts
<1> QED
  BY <1>1, <1>2

-----------------------------------------------------------------------------
(* Documents built by the operations *)

LEMMA RecurrenceResolved ==
    ASSUME NEW s \in Schedules, NEW r \in {None} \cup InputRules
    PROVE  ResolveRecurrence(s, r) \in Rules \cup {None}
<1>1. CASE r = None
  BY <1>1 DEF ResolveRecurrence
<1>2. CASE r \in InputRules /\ r # None /\ r.endsOn # None
  BY <1>2 DEF ResolveRecurrence, InputRules, Rules
<1>3. CASE r \in InputRules /\ r # None /\ r.endsOn = None
  <2>1. LatestEnd(s) \in Int
    BY CalendarAssumption DEF LatestEnd, Day, Schedules
  <2> QED
    BY <1>3, <2>1 DEF ResolveRecurrence, InputRules, Rules
<1> QED
  BY <1>1, <1>2, <1>3

LEMMA EmailResolved ==
    ASSUME NEW e \in {Defaulted} \cup SUBSET Minutes
    PROVE  ResolveEmail(e) \in SUBSET Minutes
BY CalendarAssumption DEF ResolveEmail

LEMMA NewDocumentTyped ==
    ASSUME NEW q, IsRequest(q), q.op = "create"
    PROVE  IsDocument(NewDocument(q)) /\ NewDocument(q).owner = q.owner
<1>1. ResolveRecurrence(q.schedule, q.recurrence) \in Rules \cup {None}
  BY RecurrenceResolved DEF IsRequest
<1>2. q.email # Keep => ResolveEmail(q.email) \in SUBSET Minutes
  BY EmailResolved DEF IsRequest, InputEmails
<1>3. DefaultMinutes \in SUBSET Minutes
  BY CalendarAssumption
<1> QED
  BY <1>1, <1>2, <1>3 DEF IsRequest, NewDocument, IsDocument, NoExceptions

LEMMA UpdatedDocumentTyped ==
    ASSUME NEW q, IsRequest(q), q.op = "update", NEW d, IsDocument(d)
    PROVE  /\ IsDocument(UpdatedDocument(q, d))
           /\ UpdatedDocument(q, d).owner = d.owner
<1> DEFINE schedule == Merge(d.schedule, q.schedule)
           recurrence == Merge(d.recurrence, q.recurrence)
<1>1. schedule \in Schedules
  BY DEF IsRequest, IsDocument, Merge
<1>2. recurrence \in {None} \cup InputRules
  BY DEF IsRequest, IsDocument, Merge, InputRules, Rules
<1>3. ResolveRecurrence(schedule, recurrence) \in Rules \cup {None}
  BY <1>1, <1>2, RecurrenceResolved
<1>4. ResolveEmail(Merge(d.email, q.email)) \in SUBSET Minutes
  <2>1. Merge(d.email, q.email) \in {Defaulted} \cup SUBSET Minutes
    BY DEF IsRequest, IsDocument, Merge, InputEmails
  <2> QED
    BY <2>1, EmailResolved
<1>5. Merge(d.allow, q.allow) \in BOOLEAN
  BY DEF IsRequest, IsDocument, Merge
<1>6. d.owner \in Owners /\ d.rev + 1 \in Nat \ {0}
  BY DEF IsDocument
<1>7. LET x == IF q.clear THEN NoExceptions ELSE d.exceptions
      IN  DOMAIN x \subseteq Int /\ \A key \in DOMAIN x : x[key] \in Exceptions
  BY DEF IsDocument, NoExceptions
<1> HIDE DEF schedule, recurrence
<1>8. UpdatedDocument(q, d) =
        [owner |-> d.owner, rev |-> d.rev + 1, allow |-> Merge(d.allow, q.allow),
         schedule |-> schedule, recurrence |-> ResolveRecurrence(schedule, recurrence),
         email |-> ResolveEmail(Merge(d.email, q.email)),
         exceptions |-> IF q.clear THEN NoExceptions ELSE d.exceptions]
  BY DEF UpdatedDocument, schedule, recurrence
<1> QED
  BY <1>1, <1>3, <1>4, <1>5, <1>6, <1>7, <1>8 DEF IsDocument

LEMMA EditedExceptionTyped ==
    ASSUME NEW q, IsRequest(q), q.op = "edit", NEW d, IsDocument(d)
    PROVE  EditedException(q, d) \in Exceptions
<1>1. Merge(IF Overridden(d, q.key, "schedule") THEN d.exceptions[q.key]["schedule"]
            ELSE None, q.schedule) \in Schedules \cup {None}
  BY DEF IsRequest, IsDocument, Merge, Overridden, Exceptions
<1>2. Merge(IF Overridden(d, q.key, "email") THEN d.exceptions[q.key]["email"]
            ELSE None, q.email) \in {None, Defaulted} \cup SUBSET Minutes
  BY DEF IsRequest, IsDocument, Merge, Overridden, Exceptions, InputEmails
<1> QED
  BY <1>1, <1>2 DEF EditedException, Exceptions

LEMMA ChangedDocumentTyped ==
    ASSUME NEW q, IsRequest(q), q.op \in {"edit", "cancel", "restore"},
           NEW d, IsDocument(d)
    PROVE  /\ IsDocument(ChangedDocument(q, d))
           /\ ChangedDocument(q, d).owner = d.owner
<1>1. Cancellation \in Exceptions
  BY DEF Cancellation, Exceptions
<1>2. q.op = "edit" => EditedException(q, d) \in Exceptions
  BY EditedExceptionTyped
<1>3. q.key \in Int
  BY DEF IsRequest
<1>4. /\ DOMAIN ChangedExceptions(q, d) \subseteq Int
      /\ \A key \in DOMAIN ChangedExceptions(q, d) :
            ChangedExceptions(q, d)[key] \in Exceptions
  BY <1>1, <1>2, <1>3 DEF ChangedExceptions, IsDocument
<1> QED
  BY <1>4 DEF ChangedDocument, IsDocument

-----------------------------------------------------------------------------
(* Cancelling an occurrence only takes intervals away. *)

LEMMA CancelShrinks ==
    ASSUME NEW q, IsRequest(q), q.op = "cancel", NEW d, IsDocument(d)
    PROVE  LET next == ChangedDocument(q, d) IN
           /\ next.allow = d.allow
           /\ next.owner = d.owner
           /\ LiveKeys(next) \subseteq LiveKeys(d)
           /\ \A key \in LiveKeys(next) :
                 OccurrenceSchedule(next, key) = OccurrenceSchedule(d, key)
<1> DEFINE next == ChangedDocument(q, d)
<1>1. /\ next.allow = d.allow /\ next.owner = d.owner
      /\ next.schedule = d.schedule /\ next.recurrence = d.recurrence
      /\ next.exceptions = ChangedExceptions(q, d)
  BY DEF ChangedDocument
<1>2. /\ DOMAIN next.exceptions = DOMAIN d.exceptions \cup {q.key}
      /\ next.exceptions[q.key] = Cancellation
      /\ \A key \in DOMAIN d.exceptions \ {q.key} :
            next.exceptions[key] = d.exceptions[key]
  BY <1>1 DEF ChangedExceptions
<1>3. BaseKeys(next) = BaseKeys(d)
  BY <1>1 DEF BaseKeys
<1>4. Cancellation.cancelled
  BY DEF Cancellation
<1> HIDE DEF next
<1>5. q.key \notin LiveKeys(next)
  BY <1>2, <1>4 DEF LiveKeys
<1>6. LiveKeys(next) \subseteq LiveKeys(d)
  BY <1>2, <1>3, <1>5 DEF LiveKeys
<1>7. ASSUME NEW key \in LiveKeys(next)
      PROVE  OccurrenceSchedule(next, key) = OccurrenceSchedule(d, key)
  <2>1. key # q.key
    BY <1>5
  <2>2. ScheduleAt(next, key) = ScheduleAt(d, key)
    BY <1>1 DEF ScheduleAt
  <2>3. /\ (key \in DOMAIN next.exceptions) <=> (key \in DOMAIN d.exceptions)
        /\ key \in DOMAIN d.exceptions => next.exceptions[key] = d.exceptions[key]
    BY <1>2, <2>1
  <2> QED
    BY <2>2, <2>3 DEF OccurrenceSchedule, Overridden
<1> QED
  BY <1>1, <1>6, <1>7 DEF next

LEMMA CancelIsHarmless ==
    ASSUME NEW q, IsRequest(q), q.op = "cancel", NEW cal, IsCalendar(cal),
           NoClashes(cal), cal[q.id] # None
    PROVE  Harmless(ChangedDocument(q, cal[q.id]), q.id, cal)
<1> DEFINE d == cal[q.id]
           next == ChangedDocument(q, cal[q.id])
<1>1. q.id \in Ids /\ IsDocument(d)
  BY DEF IsRequest, IsCalendar
<1>2. /\ next.allow = d.allow
      /\ next.owner = d.owner
      /\ LiveKeys(next) \subseteq LiveKeys(d)
      /\ \A key \in LiveKeys(next) :
            OccurrenceSchedule(next, key) = OccurrenceSchedule(d, key)
  BY <1>1, CancelShrinks
<1> HIDE DEF next
<1>3. ASSUME ~next.allow
      PROVE  /\ ~SelfClash(d)
             /\ \A j \in Ids \ {q.id} :
                   Restricted(cal, j) /\ cal[j].owner = d.owner => ~Clash(d, cal[j])
  BY <1>1, <1>2, <1>3 DEF NoClashes, Restricted
<1>4. SelfClash(next) => SelfClash(d)
  BY <1>2 DEF SelfClash
<1>5. \A e : Clash(next, e) => Clash(d, e)
  BY <1>2 DEF Clash
<1> QED
  BY <1>2, <1>3, <1>4, <1>5 DEF Harmless, next

-----------------------------------------------------------------------------
(* Reminders *)

(* When reminderScheduleChanged finds no change, the event calls for the   *)
(* same reminders as before: leaving remindersPending alone loses nothing. *)
THEOREM UnchangedScheduleKeepsReminders ==
    ASSUME NEW before, IsDocument(before), NEW after, IsDocument(after),
           ~ReminderScheduleChanged(before, after)
    PROVE  Reminders(after) = Reminders(before)
<1>1. /\ before.schedule = after.schedule /\ before.recurrence = after.recurrence
      /\ before.email = after.email
      /\ TimedExceptions(before) = TimedExceptions(after)
      /\ \A key \in TimedExceptions(before) : before.exceptions[key] = after.exceptions[key]
  BY DEF ReminderScheduleChanged
<1>2. BaseKeys(before) = BaseKeys(after)
  BY <1>1 DEF BaseKeys
<1>3. LiveKeys(before) = LiveKeys(after)
  BY <1>1, <1>2 DEF LiveKeys, TimedExceptions
<1>4. \A key : ScheduleAt(before, key) = ScheduleAt(after, key)
  BY <1>1 DEF ScheduleAt
<1>5. ASSUME NEW key
      PROVE  /\ Overridden(before, key, "schedule") => key \in TimedExceptions(before)
             /\ Overridden(after, key, "schedule") => key \in TimedExceptions(after)
             /\ Overridden(before, key, "email") => key \in TimedExceptions(before)
             /\ Overridden(after, key, "email") => key \in TimedExceptions(after)
  BY DEF Overridden, TimedExceptions
<1>6. \A key : /\ Overridden(before, key, "schedule") <=> Overridden(after, key, "schedule")
               /\ Overridden(before, key, "email") <=> Overridden(after, key, "email")
  BY <1>1, <1>5 DEF Overridden, TimedExceptions
<1>7. \A key : OccurrenceSchedule(before, key) = OccurrenceSchedule(after, key)
  BY <1>1, <1>4, <1>5, <1>6 DEF OccurrenceSchedule
<1>8. \A key : OccurrenceEmail(before, key) = OccurrenceEmail(after, key)
  BY <1>1, <1>5, <1>6 DEF OccurrenceEmail
<1> QED
  BY <1>3, <1>7, <1>8 DEF Reminders

-----------------------------------------------------------------------------
(* Every result of every operation *)

(* The document continues the one it replaces: a revision later, and with  *)
(* the same reminders unless it is marked for planning.                    *)
Continues(doc, replan, q, cal) ==
    /\ q.op = "create" => doc.rev = 1 /\ replan
    /\ q.op # "create" =>
          /\ doc.rev = cal[q.id].rev + 1
          /\ replan \/ Reminders(doc) = Reminders(cal[q.id])

(* The request was due a write with this status. *)
Due(status, q, cal) ==
    /\ q.op = "create" => status = 201
    /\ q.op # "create" =>
          status \in {200, 204} /\ Found(q, cal) /\ cal[q.id].rev = q.rev

SoundResult(result, q, self, cal) ==
    \/ \E status \in Refusals : result = Refuse(status)
    \/ /\ result.write
       /\ Due(result.status, q, cal)
       /\ \/ result.doc = None /\ q.op = "delete"
          \/ /\ IsDocument(result.doc)
             /\ Expandable(result.doc)
             /\ result.doc.owner = q.owner
             /\ Continues(result.doc, result.replan, q, cal)
             /\ Harmless(result.doc, Target(q, self), cal)

LEMMA WrittenIsSound ==
    ASSUME NEW q, NEW self, NEW cal, IsCalendar(cal), AllExpand(cal),
           NEW status, NEW doc, NEW replan, Due(status, q, cal),
           Continues(doc, replan, q, cal),
           IsDocument(doc), Expandable(doc), doc.owner = q.owner,
           NEW result \in IfNoConflict(doc, Target(q, self), cal, Write(status, doc, replan))
    PROVE  SoundResult(result, q, self, cal)
<1> DEFINE w == Write(status, doc, replan)
<1>1. w.write /\ w.status = status /\ w.doc = doc /\ w.replan = replan
  BY DEF Write
<1>2. CASE result = w /\ 200 \in Verdicts(doc, Target(q, self), cal)
  <2>1. Harmless(doc, Target(q, self), cal)
    BY <1>2, ConflictCheckIsSufficient
  <2> QED
    BY <1>1, <1>2, <2>1 DEF SoundResult
<1>3. CASE \E v \in {409, 413} : result = Refuse(v)
  BY <1>3 DEF SoundResult, Refusals
<1> QED
  BY <1>2, <1>3, CheckedResult

(* Whatever an operation answers, it either refuses and writes nothing, or *)
(* writes a valid document of the caller's that clashes with nothing.      *)
THEOREM ResultsAreSound ==
    ASSUME NEW q, IsRequest(q), NEW self, NEW cal, IsCalendar(cal),
           AllExpand(cal), NoClashes(cal), NEW result \in Results(q, self, cal)
    PROVE  SoundResult(result, q, self, cal)
<1> USE DEF Refusals
<1>1. CASE q.op = "create"
  <2>1. result \in CreateResults(q, self, cal)
    BY <1>1 DEF Results
  <2>2. CASE BadCreate(q)
    BY <2>1, <2>2 DEF CreateResults, SoundResult
  <2>3. CASE ~BadCreate(q)
    <3> DEFINE next == NewDocument(q)
               replan == TRUE
    <3>1. result \in IfNoConflict(next, Target(q, self), cal, Write(201, next, replan))
      BY <1>1, <2>1, <2>3 DEF CreateResults, Target
    <3>2. Expandable(next) /\ IsDocument(next) /\ next.owner = q.owner
      BY <1>1, <2>3, NewDocumentTyped DEF BadCreate
    <3>3. Due(201, q, cal) /\ Continues(next, replan, q, cal)
      BY <1>1 DEF Due, Continues, NewDocument
    <3> HIDE DEF next, replan
    <3> QED
      BY <3>1, <3>2, <3>3, WrittenIsSound
  <2> QED
    BY <2>2, <2>3
<1> DEFINE d == cal[q.id]
<1>2. ASSUME q.op # "create", Found(q, cal)
      PROVE  q.id \in Ids /\ IsDocument(d) /\ d.owner = q.owner /\ Target(q, self) = q.id
  BY <1>2 DEF IsRequest, IsCalendar, Found, Target
<1>3. CASE q.op = "update"
  <2> DEFINE next == UpdatedDocument(q, d)
  <2>1. result \in UpdateResults(q, cal)
    BY <1>3 DEF Results
  <2>2. CASE Found(q, cal) /\ ~Orphans(q, d) /\ Expandable(next) /\ d.rev = q.rev
    <3>1. result \in IfNoConflict(next, q.id, cal,
                                  Write(200, next, ReminderScheduleChanged(d, next)))
      BY <2>1, <2>2 DEF UpdateResults, WhenCurrent
    <3>2. IsDocument(next) /\ next.owner = q.owner /\ Target(q, self) = q.id
      BY <1>2, <1>3, <2>2, UpdatedDocumentTyped
    <3>3. next.rev = d.rev + 1
      BY DEF UpdatedDocument
    <3> HIDE DEF next
    <3>4. Due(200, q, cal) /\ Continues(next, ReminderScheduleChanged(d, next), q, cal)
      BY <1>2, <1>3, <2>2, <3>2, <3>3, UnchangedScheduleKeepsReminders DEF Due, Continues
    <3> QED
      BY <2>2, <3>1, <3>2, <3>4, WrittenIsSound
  <2>3. CASE ~(Found(q, cal) /\ ~Orphans(q, d) /\ Expandable(next) /\ d.rev = q.rev)
    BY <2>1, <2>3 DEF UpdateResults, WhenCurrent, SoundResult
  <2> QED
    BY <2>2, <2>3
<1>4. CASE q.op = "delete"
  <2>1. result \in DeleteResults(q, cal)
    BY <1>4 DEF Results
  <2> QED
    BY <1>4, <2>1 DEF DeleteResults, WhenCurrent, SoundResult, Write, Due
<1>5. CASE q.op \in {"edit", "cancel", "restore"}
  <2> DEFINE next == ChangedDocument(q, d)
             replan == ReminderScheduleChanged(d, next)
             done == Write(200, next, replan)
             fits == /\ Found(q, cal) /\ d.rev = q.rev
                     /\ ~(d.recurrence = None \/ q.kind # d.schedule.kind)
                     /\ q.key \in BaseKeys(d) /\ Expandable(next)
  <2>1. result \in OccurrenceResults(q, cal)
    BY <1>5 DEF Results
  <2>2. CASE fits
    <3>1. IsDocument(next) /\ next.owner = q.owner /\ Target(q, self) = q.id
      BY <1>2, <1>5, <2>2, ChangedDocumentTyped
    <3>2. Due(200, q, cal)
      BY <1>5, <2>2 DEF Due
    <3>3. Continues(next, replan, q, cal)
      <4>1. next.rev = d.rev + 1
        BY DEF ChangedDocument
      <4> HIDE DEF next
      <4> QED
        BY <1>2, <1>5, <2>2, <3>1, <4>1, UnchangedScheduleKeepsReminders DEF Continues
    <3>4. CASE q.op # "cancel"
      <4>1. result \in IfNoConflict(next, q.id, cal, done)
        BY <2>1, <2>2, <3>4 DEF OccurrenceResults, WhenCurrent
      <4> HIDE DEF next, replan
      <4> QED
        BY <2>2, <3>1, <3>2, <3>3, <4>1, WrittenIsSound
    <3>5. CASE q.op = "cancel"
      <4>1. result = done
        BY <2>1, <2>2, <3>5 DEF OccurrenceResults, WhenCurrent
      <4>2. Harmless(next, q.id, cal)
        BY <2>2, <3>5, CancelIsHarmless DEF Found
      <4> HIDE DEF next, replan
      <4> QED
        BY <2>2, <3>1, <3>2, <3>3, <4>1, <4>2 DEF SoundResult, Write
    <3> QED
      BY <3>4, <3>5
  <2>3. CASE ~fits
    BY <2>1, <2>3 DEF OccurrenceResults, WhenCurrent, SoundResult
  <2> QED
    BY <2>2, <2>3
<1> QED
  BY <1>1, <1>3, <1>4, <1>5 DEF IsRequest, Operations

=============================================================================
