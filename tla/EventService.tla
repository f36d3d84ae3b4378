---------------------------- MODULE EventService ----------------------------
(***************************************************************************)
(* What each write operation of the API does with the calendar it reads:   *)
(* the checks in the order the code makes them, the answer, and the        *)
(* document it writes.  An effect is a set of possible results because the *)
(* order in which conflicting events are scanned is the database's choice. *)
(*                                                                         *)
(* A calendar cal maps every event ID to its document or None.  A request  *)
(* is a record with op, owner and, unless it creates, the target id and    *)
(* the revision rev taken from If-Match; the other fields hold the body.   *)
(***************************************************************************)
EXTENDS Calendar

Operations == {"create", "update", "delete", "edit", "cancel", "restore"}

(* A rule as clients send it: its end may be left to the default. *)
InputRules == [frequency : {"daily", "weekly"}, endsOn : {None} \cup Int]
InputEmails == {Keep, Defaulted} \cup SUBSET Minutes

(* A request that passes the schemas of the body, the path and If-Match.   *)
IsRequest(q) ==
    /\ q.op \in Operations
    /\ q.owner \in Owners
    /\ q.op # "create" => q.id \in Ids /\ q.rev \in Nat
    /\ q.op = "create" =>
          /\ q.allow \in BOOLEAN
          /\ q.schedule \in Schedules
          /\ q.recurrence \in {None} \cup InputRules
          /\ q.email \in InputEmails
          /\ q.appointment \in BOOLEAN
    /\ q.op = "update" =>
          /\ q.allow \in {Keep} \cup BOOLEAN
          /\ q.schedule \in {Keep} \cup Schedules
          /\ q.recurrence \in {Keep, None} \cup InputRules
          /\ q.email \in InputEmails
          /\ q.clear \in BOOLEAN
    /\ q.op \in {"edit", "cancel", "restore"} =>
          /\ q.key \in Int
          /\ q.kind \in Kinds
          /\ q.schedule \in {Keep} \cup Schedules
          /\ q.email \in InputEmails

(* A refusal, and a write of doc (None: deletion).  replan tells that the  *)
(* write also sets remindersPending.                                       *)
Refuse(status) ==
    [status |-> status, write |-> FALSE, doc |-> None, replan |-> FALSE]
Write(status, doc, replan) ==
    [status |-> status, write |-> TRUE, doc |-> doc, replan |-> replan]

Accepted == {200, 201, 204}
Refusals == {400, 404, 409, 412, 413}

Merge(old, new) == IF new = Keep THEN old ELSE new

(* A write goes on only when the conflict check lets it. *)
IfNoConflict(d, self, cal, result) ==
    {IF v = 200 THEN result ELSE Refuse(v) : v \in Verdicts(d, self, cal)}

(* The checks every change of an existing event starts with: ownership is  *)
(* part of the lookup, then the revision of If-Match is compared.          *)
Found(q, cal) == cal[q.id] # None /\ cal[q.id].owner = q.owner

(* Mutated: the revision of If-Match is not compared. *)
WhenFound(q, cal, results) ==
    IF ~Found(q, cal) THEN {Refuse(404)} ELSE results

WhenCurrent(q, cal, results) ==
    IF ~Found(q, cal) THEN {Refuse(404)}
    ELSE IF cal[q.id].rev # q.rev THEN {Refuse(412)}
    ELSE results

-----------------------------------------------------------------------------
(* Create *)

NewDocument(q) ==
    [owner |-> q.owner,
     rev |-> 1,
     allow |-> q.allow,
     schedule |-> q.schedule,
     recurrence |-> ResolveRecurrence(q.schedule, q.recurrence),
     email |-> IF q.email # Keep THEN ResolveEmail(q.email)
               ELSE IF q.appointment THEN DefaultMinutes ELSE {},
     exceptions |-> NoExceptions]

(* Refused before the owner's lock is taken. *)
BadCreate(q) == q.op = "create" /\ ~Expandable(NewDocument(q))

CreateResults(q, self, cal) ==
    IF BadCreate(q) THEN {Refuse(400)}
    ELSE IfNoConflict(NewDocument(q), self, cal, Write(201, NewDocument(q), TRUE))

-----------------------------------------------------------------------------
(* Update and delete a whole event *)

(* Mutated: defaults are not resolved again on an update. *)
UpdatedDocumentUnresolved(q, d) ==
    [owner |-> d.owner,
     rev |-> d.rev + 1,
     allow |-> Merge(d.allow, q.allow),
     schedule |-> Merge(d.schedule, q.schedule),
     recurrence |-> Merge(d.recurrence, q.recurrence),
     email |-> Merge(d.email, q.email),
     exceptions |-> IF q.clear THEN NoExceptions ELSE d.exceptions]

UpdatedDocument(q, d) ==
    LET schedule == Merge(d.schedule, q.schedule) IN
    [owner |-> d.owner,
     rev |-> d.rev + 1,
     allow |-> Merge(d.allow, q.allow),
     schedule |-> schedule,
     recurrence |-> ResolveRecurrence(schedule, Merge(d.recurrence, q.recurrence)),
     email |-> ResolveEmail(Merge(d.email, q.email)),
     exceptions |-> IF q.clear THEN NoExceptions ELSE d.exceptions]

(* Exceptions belong to the old schedule and rule: they must be given up.  *)
Orphans(q, d) ==
    /\ q.schedule # Keep \/ q.recurrence # Keep
    /\ DOMAIN d.exceptions # {}
    /\ ~q.clear

(* Mutated: the merged event is not validated. *)
UpdateResultsUnchecked(q, cal) ==
    LET d == cal[q.id]
        next == UpdatedDocument(q, d)
    IN  WhenCurrent(q, cal, IfNoConflict(next, q.id, cal, Write(200, next, TRUE)))

UpdateResults(q, cal) ==
    LET d == cal[q.id]
        next == UpdatedDocument(q, d)
    IN  WhenCurrent(q, cal,
            IF Orphans(q, d) \/ ~Expandable(next) THEN {Refuse(400)}
            ELSE IfNoConflict(next, q.id, cal,
                              Write(200, next, ReminderScheduleChanged(d, next))))

DeleteResults(q, cal) == WhenCurrent(q, cal, {Write(204, None, FALSE)})

-----------------------------------------------------------------------------
(* Edit, cancel or restore one occurrence *)

Cancellation == [cancelled |-> TRUE, schedule |-> None, email |-> None]

(* An edit adds its fields to those of an earlier edit of the occurrence.  *)
EditedException(q, d) ==
    LET kept(field) == IF Overridden(d, q.key, field)
                       THEN d.exceptions[q.key][field] ELSE None
    IN  [cancelled |-> FALSE,
         schedule |-> Merge(kept("schedule"), q.schedule),
         email |-> Merge(kept("email"), q.email)]

ChangedExceptions(q, d) ==
    LET others == DOMAIN d.exceptions \ {q.key} IN
    IF q.op = "restore" THEN [key \in others |-> d.exceptions[key]]
    ELSE [key \in others \cup {q.key} |->
             IF key # q.key THEN d.exceptions[key]
             ELSE IF q.op = "edit" THEN EditedException(q, d)
             ELSE Cancellation]

ChangedDocument(q, d) ==
    [owner |-> d.owner,
     rev |-> d.rev + 1,
     allow |-> d.allow,
     schedule |-> d.schedule,
     recurrence |-> d.recurrence,
     email |-> d.email,
     exceptions |-> ChangedExceptions(q, d)]

(* Mutated: restoring is taken to be as harmless as cancelling. *)
OccurrenceResultsUnchecked(q, cal) ==
    LET d == cal[q.id]
        next == ChangedDocument(q, d)
    IN  WhenCurrent(q, cal,
            IF d.recurrence = None \/ q.key \notin BaseKeys(d) THEN {Refuse(404)}
            ELSE IF ~Expandable(next) THEN {Refuse(400)}
            ELSE {Write(200, next, ReminderScheduleChanged(d, next))})

(* Cancelling only takes intervals away, so it is not checked for conflicts. *)
OccurrenceResults(q, cal) ==
    LET d == cal[q.id]
        next == ChangedDocument(q, d)
        done == Write(200, next, ReminderScheduleChanged(d, next))
    IN  WhenCurrent(q, cal,
            IF d.recurrence = None \/ q.kind # d.schedule.kind THEN {Refuse(400)}
            ELSE IF q.key \notin BaseKeys(d) THEN {Refuse(404)}
            ELSE IF ~Expandable(next) THEN {Refuse(400)}
            ELSE IF q.op = "cancel" THEN {done}
            ELSE IfNoConflict(next, q.id, cal, done))

-----------------------------------------------------------------------------
(* The ID a request writes: a create mints the ID self. *)
Target(q, self) == IF q.op = "create" THEN self ELSE q.id

Results(q, self, cal) ==
    CASE q.op = "create" -> CreateResults(q, self, cal)
      [] q.op = "update" -> UpdateResults(q, cal)
      [] q.op = "delete" -> DeleteResults(q, cal)
      [] q.op \in {"edit", "cancel", "restore"} -> OccurrenceResults(q, cal)

=============================================================================
