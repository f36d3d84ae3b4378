------------------------------ MODULE Reminders ------------------------------
(***************************************************************************)
(* Reminders from an event's edit to the mail server: a planner that looks *)
(* ahead and saves one job per reminder, the job queue, and workers that   *)
(* recheck the event before they send.  They share the database and a      *)
(* clock.  Agenda, the queue's library, is external: it hands a due job to *)
(* a worker under a lock that expires, and reruns a failed job.            *)
(*                                                                         *)
(* An event is a set of reminders, what expandEvent and its preferences    *)
(* make of it: reminders are compared by their keys only, and Calendar     *)
(* models where they come from.  A key keeps the occurrence, its start and *)
(* the lead time.                                                          *)
(***************************************************************************)
EXTENDS Integers, FiniteSets, Sequences

CONSTANTS
    Events,        \* event IDs, in their order
    Schedules,     \* the sets of reminders that events may have
    Planners,      \* concurrent runs of the planner
    Workers,       \* delivery slots
    None,          \* an absent record
    Deleted,       \* a deleted event: its ID is never minted again
    Window,        \* PLAN_WINDOW_MS
    Grace,         \* LATE_GRACE_MS
    Retention,     \* RETENTION_MS
    Refresh,       \* the hour between two plannings of an unchanged event
    PlanRetry,     \* the minute before a failed planning is repeated
    BatchSize,     \* events read by one pass
    MaxRetries,    \* retries of a failed delivery
    MaxTime,       \* a bound on the clock
    MaxRevision,   \* a bound on the writes of one event
    MaxFaults      \* a bound on crashes and other failures

(* A reminder that no prior planning covers must still be caught late, and *)
(* a job must outlive the time in which it could be planned again.         *)
ASSUME RemindersAssumption ==
    /\ Events \subseteq Nat
    /\ \A s \in Schedules : \A j \in s :
           j.event \in Events /\ j.start \in Nat /\ j.lead \in 0 .. j.start
    /\ {Window, Grace, Retention, MaxRetries, MaxTime, MaxFaults} \subseteq Nat
    /\ {Refresh, PlanRetry, BatchSize, MaxRevision} \subseteq Nat \ {0}
    /\ Refresh <= Window
    /\ Grace < Retention
    /\ IsFiniteSet(Workers)

VARIABLES
    now,        \* the clock
    events,     \* the events collection: revision, reminders and creation time
    pending,    \* remindersPending
    nextPlan,   \* remindersNextPlanAt
    plannedAt,  \* when the event was last planned in full, None if it failed since
    plan,       \* per planner: the pass it is in
    jobs,       \* reminder_jobs: a job or None per key
    worker,     \* per worker: the delivery it is in
    accepted,   \* per key: messages the mail server has taken
    mishaps,    \* per key: deliveries whose outcome could not be known
    faults      \* failures so far

eventVars == <<events, pending, nextPlan, plannedAt>>
mailVars == <<accepted, mishaps>>
vars == <<now, eventVars, plan, jobs, worker, mailVars, faults>>

Keys == UNION Schedules

SchedulesOf(e) == {s \in Schedules : \A j \in s : j.event = e}

Exists(e) == events[e] \notin {None, Deleted}

DueAt(j) == j.start - j.lead

ExpiresAt(j) == DueAt(j) + Retention

(* What the variables hold. *)
Documents == [rev : 1 .. MaxRevision, reminders : Schedules, created : 0 .. MaxTime]
Times == 0 .. MaxTime
Passes == [time : Times,
           read : Seq([event : Events, doc : Documents]) \ {<<>>},
           todo : SUBSET Keys]
Jobs == [state : {"waiting", "running", "over"},
         outcome : {None, "sent", "skipped"}, fails : Nat]
Deliveries == [job : Keys, doc : Documents \cup {None, Deleted},
               step : {"read", "check", "send", "skip", "record", "finish"}]

(* Neither marker is a value of its own kind, a record or an outcome. *)
ASSUME MarkersAreNoData ==
    /\ None # Deleted
    /\ None \notin Documents \cup Jobs \cup Deliveries \cup {"sent", "skipped"}

Fault == faults < MaxFaults /\ faults' = faults + 1

Init ==
    /\ now = 0
    /\ events = [e \in Events |-> None]
    /\ pending = [e \in Events |-> FALSE]
    /\ nextPlan = [e \in Events |-> None]
    /\ plannedAt = [e \in Events |-> None]
    /\ plan = [p \in Planners |-> None]
    /\ jobs = [j \in Keys |-> None]
    /\ worker = [w \in Workers |-> None]
    /\ accepted = [j \in Keys |-> 0]
    /\ mishaps = [j \in Keys |-> 0]
    /\ faults = 0

Tick ==
    /\ now < MaxTime /\ now' = now + 1
    /\ UNCHANGED <<eventVars, plan, jobs, worker, mailVars, faults>>

-----------------------------------------------------------------------------
(* Writes by the API *)

CreateEvent(e, s) ==
    /\ events[e] = None
    /\ events' = [events EXCEPT ![e] = [rev |-> 1, reminders |-> s, created |-> now]]
    /\ pending' = [pending EXCEPT ![e] = TRUE]
    /\ UNCHANGED <<now, nextPlan, plannedAt, plan, jobs, worker, mailVars, faults>>

(* A write that changes the reminders marks the event; one that does not   *)
(* may mark it too, for the projection compared is finer than the set.     *)
EditEvent(e, s, changed) ==
    /\ Exists(e)
    /\ events[e].rev < MaxRevision
    /\ s # events[e].reminders => changed
    /\ events' = [events EXCEPT ![e] =
           [rev |-> @.rev + 1, reminders |-> s, created |-> @.created]]
    /\ pending' = [pending EXCEPT ![e] = @ \/ changed]
    /\ UNCHANGED <<now, nextPlan, plannedAt, plan, jobs, worker, mailVars, faults>>

DeleteEvent(e) ==
    /\ Exists(e)
    /\ events' = [events EXCEPT ![e] = Deleted]
    /\ pending' = [pending EXCEPT ![e] = FALSE]
    /\ nextPlan' = [nextPlan EXCEPT ![e] = None]
    /\ plannedAt' = [plannedAt EXCEPT ![e] = None]
    /\ UNCHANGED <<now, plan, jobs, worker, mailVars, faults>>

-----------------------------------------------------------------------------
(* The planner *)

(* planReminders: look ahead and catch up, but not before the creation.    *)
PlanReminders(doc, time) ==
    {j \in doc.reminders :
        /\ DueAt(j) >= doc.created
        /\ DueAt(j) >= time - Grace
        /\ DueAt(j) <= time + Window
        /\ j.lead # 0 => j.start > time}

DueForPlanning(e) ==
    Exists(e) /\ (pending[e] \/ nextPlan[e] = None \/ nextPlan[e] <= now)

(* A missing timestamp sorts first.                                        *)
PlannedBefore(e, f) ==
    LET key(x) == IF nextPlan[x] = None THEN -1 ELSE nextPlan[x]
    IN  key(e) < key(f) \/ (key(e) = key(f) /\ e < f)

(* What the query returns: the first of the due events, in order.          *)
IsBatch(batch) ==
    /\ \A i \in DOMAIN batch :
          /\ DueForPlanning(batch[i])
          /\ \A k \in 1 .. i - 1 : PlannedBefore(batch[k], batch[i])
    /\ \A e \in Events : DueForPlanning(e) =>
          \/ \E i \in DOMAIN batch : batch[i] = e
          \/ Len(batch) = BatchSize /\ PlannedBefore(batch[BatchSize], e)

Batches == {batch \in UNION {[1 .. n -> Events] : n \in 1 .. BatchSize} : IsBatch(batch)}

(* A pass keeps the documents of its first read and the time it began.     *)
BeginPass(p) ==
    /\ plan[p] = None
    /\ \E batch \in Batches :
          plan' = [plan EXCEPT ![p] =
              [time |-> now,
               read |-> [i \in DOMAIN batch |->
                            [event |-> batch[i], doc |-> events[batch[i]]]],
               todo |-> PlanReminders(events[batch[1]], now)]]
    /\ UNCHANGED <<now, eventVars, jobs, worker, mailVars, faults>>

NewJob == [state |-> "waiting", outcome |-> None, fails |-> 0]

(* Mutated: a job that exists is saved anew. *)
OverwriteJob(j) == jobs' = [jobs EXCEPT ![j] = NewJob]

(* unique with insertOnly: the key's job is left as it is.                 *)
InsertJob(j) ==
    jobs' = [jobs EXCEPT ![j] = IF @ = None THEN NewJob ELSE @]

SaveJob(p, j) ==
    /\ plan[p] # None
    /\ j \in plan[p].todo
    /\ InsertJob(j)
    /\ plan' = [plan EXCEPT ![p].todo = @ \ {j}]
    /\ UNCHANGED <<now, eventVars, worker, mailVars, faults>>

(* Mutated: a failed planning waits for the hourly refresh. *)
NextPlanHourly(time, failed) == time + Refresh

NextPlan(time, failed) == time + (IF failed THEN PlanRetry ELSE Refresh)

(* Mutated: the acknowledgement names the event alone. *)
AcknowledgeAny(pass, failed) ==
    LET e == Head(pass.read).event IN
    IF Exists(e)
    THEN /\ pending' = [pending EXCEPT ![e] = FALSE]
         /\ nextPlan' = [nextPlan EXCEPT ![e] = NextPlan(pass.time, failed)]
         /\ plannedAt' = [plannedAt EXCEPT ![e] = IF failed THEN None ELSE pass.time]
    ELSE UNCHANGED <<pending, nextPlan, plannedAt>>

(* Only of the revision that was read: an edit since keeps its marker.     *)
Acknowledge(pass, failed) ==
    LET e == Head(pass.read).event IN
    IF Exists(e) /\ events[e].rev = Head(pass.read).doc.rev
    THEN /\ pending' = [pending EXCEPT ![e] = FALSE]
         /\ nextPlan' = [nextPlan EXCEPT ![e] = NextPlan(pass.time, failed)]
         /\ plannedAt' = [plannedAt EXCEPT ![e] = IF failed THEN None ELSE pass.time]
    ELSE UNCHANGED <<pending, nextPlan, plannedAt>>

(* Mutated: the end of the batch is noticed one document late. *)
AdvanceLate(p) == plan' = [plan EXCEPT ![p].read = Tail(@), ![p].todo = {}]

(* The next document of the pass, read when it began.                      *)
Advance(p) ==
    LET rest == Tail(plan[p].read) IN
    plan' = [plan EXCEPT ![p] =
        IF rest = <<>> THEN None
        ELSE [time |-> @.time, read |-> rest,
              todo |-> PlanReminders(Head(rest).doc, @.time)]]

FinishEvent(p) ==
    /\ plan[p] # None
    /\ plan[p].todo = {}
    /\ Acknowledge(plan[p], FALSE)
    /\ Advance(p)
    /\ UNCHANGED <<now, events, jobs, worker, mailVars, faults>>

(* A job could not be saved: the rest of the event waits for the retry.    *)
PlanningFails(p) ==
    /\ plan[p] # None
    /\ plan[p].todo # {}
    /\ Fault
    /\ Acknowledge(plan[p], TRUE)
    /\ Advance(p)
    /\ UNCHANGED <<now, events, jobs, worker, mailVars>>

(* The process dies or the acknowledgement fails: the pass ends.           *)
PassLost(p) ==
    /\ plan[p] # None
    /\ Fault
    /\ plan' = [plan EXCEPT ![p] = None]
    /\ UNCHANGED <<now, eventVars, jobs, worker, mailVars>>

-----------------------------------------------------------------------------
(* Delivery.  Agenda hands out an unlocked job from its due time on; the   *)
(* worker keeps the job's data as it was handed out.                       *)

HandOut(w, j) ==
    /\ jobs' = [jobs EXCEPT ![j].state = "running"]
    /\ worker' = [worker EXCEPT ![w] =
           [job |-> j, doc |-> None,
            step |-> IF jobs[j].outcome = "sent" THEN "finish" ELSE "read"]]

Take(w, j) ==
    /\ worker[w] = None
    /\ jobs[j] # None /\ jobs[j].state = "waiting" /\ now >= DueAt(j)
    /\ HandOut(w, j)
    /\ UNCHANGED <<now, eventVars, plan, mailVars, faults>>

Holders(j) == {w \in Workers : worker[w] # None /\ worker[w].job = j}

(* A lock past its lifetime: of a worker that died, or of one so slow that *)
(* two will deliver the job.                                               *)
TakeOver(w, j) ==
    /\ worker[w] = None
    /\ jobs[j] # None /\ jobs[j].state = "running"
    /\ IF Holders(j) = {} THEN UNCHANGED <<mishaps, faults>>
       ELSE Fault /\ mishaps' = [mishaps EXCEPT ![j] = @ + 1]
    /\ HandOut(w, j)
    /\ UNCHANGED <<now, eventVars, plan, accepted>>

At(w, step) == worker[w] # None /\ worker[w].step = step

ReadEvent(w) ==
    /\ At(w, "read")
    /\ worker' = [worker EXCEPT ![w] =
           [job |-> @.job, doc |-> events[@.job.event], step |-> "check"]]
    /\ UNCHANGED <<now, eventVars, plan, jobs, mailVars, faults>>

(* Mutated: whether the event still has the reminder is not asked again.   *)
DeliverableOnce(j, doc) ==
    /\ doc \notin {None, Deleted}
    /\ now >= DueAt(j) /\ now <= DueAt(j) + Grace
    /\ j.lead # 0 => now < j.start

Deliverable(j, doc) ==
    /\ doc \notin {None, Deleted}
    /\ now >= DueAt(j) /\ now <= DueAt(j) + Grace
    /\ j.lead # 0 => now < j.start
    /\ j \in doc.reminders

(* The clock is read when the event has arrived.                           *)
Check(w) ==
    /\ At(w, "check")
    /\ worker' = [worker EXCEPT ![w].step =
           IF Deliverable(worker[w].job, worker[w].doc) THEN "send" ELSE "skip"]
    /\ UNCHANGED <<now, eventVars, plan, jobs, mailVars, faults>>

(* The user's address is valid and the mail server takes the message.      *)
Accepted(w) ==
    accepted' = [accepted EXCEPT ![worker[w].job] = @ + 1]

Send(w) ==
    /\ At(w, "send")
    /\ Accepted(w)
    /\ worker' = [worker EXCEPT ![w].step = "record"]
    /\ UNCHANGED <<now, eventVars, plan, jobs, mishaps, faults>>

(* job.save() writes the outcome to the job's data.                        *)
SaveOutcome(w, outcome) ==
    /\ jobs' = [jobs EXCEPT ![worker[w].job].outcome = outcome]
    /\ worker' = [worker EXCEPT ![w].step = "finish"]
    /\ UNCHANGED <<now, eventVars, plan, mailVars, faults>>

Skip(w) == At(w, "skip") /\ SaveOutcome(w, "skipped")

Record(w) == At(w, "record") /\ SaveOutcome(w, "sent")

(* Agenda unlocks a job that returned, for good.                           *)
Finish(w) ==
    /\ At(w, "finish")
    /\ jobs' = [jobs EXCEPT ![worker[w].job].state = "over"]
    /\ worker' = [worker EXCEPT ![w] = None]
    /\ UNCHANGED <<now, eventVars, plan, mailVars, faults>>

(* Mutated: every error is retried, without a limit. *)
FailsForEver(w, retryable) ==
    LET j == worker[w].job IN
    /\ jobs' = [jobs EXCEPT ![j].fails = 0, ![j].state = "waiting"]
    /\ worker' = [worker EXCEPT ![w] = None]

(* backoff: a retryable error puts the job back, up to the last attempt.   *)
Fails(w, retryable) ==
    LET j == worker[w].job IN
    /\ jobs' = [jobs EXCEPT ![j] =
           [state |-> IF retryable /\ @.fails < MaxRetries THEN "waiting" ELSE "over",
            outcome |-> @.outcome,
            fails |-> @.fails + 1]]
    /\ worker' = [worker EXCEPT ![w] = None]

(* The database fails, the mail server refuses for now or for good, or the *)
(* user has no valid address: nothing was sent.                            *)
DeliveryFails(w, retryable) ==
    /\ worker[w] # None
    /\ worker[w].step \in IF retryable THEN {"read", "skip", "send"} ELSE {"send"}
    /\ Fails(w, retryable)
    /\ UNCHANGED <<now, eventVars, plan, mailVars, faults>>

(* The message was taken but the mail server's answer was lost.            *)
Unheard(w) ==
    /\ At(w, "send")
    /\ Fault
    /\ Accepted(w)
    /\ mishaps' = [mishaps EXCEPT ![worker[w].job] = @ + 1]
    /\ Fails(w, TRUE)
    /\ UNCHANGED <<now, eventVars, plan>>

(* The outcome of a message that was taken could not be saved.             *)
RecordFails(w) ==
    /\ At(w, "record")
    /\ Fault
    /\ mishaps' = [mishaps EXCEPT ![worker[w].job] = @ + 1]
    /\ Fails(w, TRUE)
    /\ UNCHANGED <<now, eventVars, plan, accepted>>

(* The process dies; the job stays locked.                                 *)
WorkerLost(w) ==
    /\ worker[w] # None
    /\ Fault
    /\ mishaps' = IF At(w, "record")
                  THEN [mishaps EXCEPT ![worker[w].job] = @ + 1] ELSE mishaps
    /\ worker' = [worker EXCEPT ![w] = None]
    /\ UNCHANGED <<now, eventVars, plan, jobs, accepted>>

(* The TTL index, days after any delivery of the job has ended.            *)
Expire(j) ==
    /\ jobs[j] # None
    /\ now >= ExpiresAt(j)
    /\ Holders(j) = {}
    /\ jobs' = [jobs EXCEPT ![j] = None]
    /\ UNCHANGED <<now, eventVars, plan, worker, mailVars, faults>>

-----------------------------------------------------------------------------
Api ==
    \E e \in Events :
        \/ \E s \in SchedulesOf(e) :
              CreateEvent(e, s) \/ \E changed \in BOOLEAN : EditEvent(e, s, changed)
        \/ DeleteEvent(e)

PlannerStep(p) ==
    BeginPass(p) \/ (\E j \in Keys : SaveJob(p, j)) \/ FinishEvent(p)

WorkerStep(w) ==
    ReadEvent(w) \/ Check(w) \/ Send(w) \/ Skip(w) \/ Record(w) \/ Finish(w)

Failures ==
    \/ \E p \in Planners : PlanningFails(p) \/ PassLost(p)
    \/ \E w \in Workers :
          \/ \E retryable \in BOOLEAN : DeliveryFails(w, retryable)
          \/ Unheard(w) \/ RecordFails(w) \/ WorkerLost(w)

Next ==
    \/ Tick \/ Api \/ Failures
    \/ \E p \in Planners : PlannerStep(p)
    \/ \E w \in Workers : WorkerStep(w) \/ \E j \in Keys : Take(w, j) \/ TakeOver(w, j)
    \/ \E j \in Keys : Expire(j)

Spec == Init /\ [][Next]_vars

(* The planner runs every five seconds, processes are restarted, and the   *)
(* queue serves every job that is due.  The clock, clients, failures and   *)
(* the TTL monitor owe nothing.                                            *)
Fairness ==
    /\ \A p \in Planners : WF_vars(PlannerStep(p))
    /\ \A w \in Workers : WF_vars(WorkerStep(w))
    /\ \A j \in Keys :
          /\ WF_vars(\E w \in Workers : Take(w, j))
          /\ WF_vars(\E w \in Workers : TakeOver(w, j))

FairSpec == Spec /\ Fairness

-----------------------------------------------------------------------------
(* Properties *)

(* Every variable keeps its shape. *)
TypeOK ==
    /\ now \in Times
    /\ events \in [Events -> Documents \cup {None, Deleted}]
    /\ pending \in [Events -> BOOLEAN]
    /\ nextPlan \in [Events -> Nat \cup {None}]
    /\ plannedAt \in [Events -> Times \cup {None}]
    /\ plan \in [Planners -> Passes \cup {None}]
    /\ jobs \in [Keys -> Jobs \cup {None}]
    /\ worker \in [Workers -> Deliveries \cup {None}]
    /\ accepted \in [Keys -> Nat]
    /\ mishaps \in [Keys -> Nat]
    /\ faults \in 0 .. MaxFaults

(* Between two plannings of an unmarked event, each of its reminders that  *)
(* falls due until the next one, or that the last could still catch up,    *)
(* has its job: edits that race the planner, overlapping passes and the    *)
(* window's edge leave no gap (planReminders, reconcile).                  *)
PlanningLeavesNoGap ==
    \A e \in Events : Exists(e) /\ ~pending[e] /\ plannedAt[e] # None =>
        \A j \in events[e].reminders :
            /\ DueAt(j) >= events[e].created
            /\ DueAt(j) >= plannedAt[e] - Grace
            /\ DueAt(j) <= nextPlan[e]
            /\ j.lead # 0 => j.start > plannedAt[e]
            => jobs[j] # None \/ now >= ExpiresAt(j)

(* A reminder is mailed twice only where a delivery's outcome could not be *)
(* known: replanning, retries, takeovers and the job's expiry add nothing  *)
(* (unique keys, insertOnly, the saved outcome, RETENTION_MS).             *)
DuplicatesNeedAMishap ==
    \A j \in Keys : accepted[j] <= 1 + mishaps[j]

HasReminder(j) == Exists(j.event) /\ j \in events[j.event].reminders

(* A worker that decided to send holds a reminder of the event as it is,   *)
(* unless the event was written after it was read; and it does not skip    *)
(* one that is still to be sent (deliver).                                 *)
ChecksHold ==
    \A w \in Workers : worker[w] # None /\ worker[w].doc # None
                       /\ worker[w].doc = events[worker[w].job.event] =>
        LET j == worker[w].job
            late == now > DueAt(j) + Grace \/ (j.lead # 0 /\ now >= j.start)
        IN  /\ worker[w].step = "send" => HasReminder(j) /\ now >= DueAt(j)
            /\ worker[w].step = "skip" => ~HasReminder(j) \/ late

(* A reminder that its event loses before it falls due, by an edit, a      *)
(* cancelled occurrence or a deletion, and does not get back, is never     *)
(* mailed, though its job stays in the queue (deliver).                    *)
WithdrawnInTime ==
    \A j \in Keys :
        [](now < DueAt(j) /\ []~HasReminder(j) => [](accepted[j] = 0))

(* Since its last edit, or since a planning of it failed, no planning of   *)
(* the event has gone through.                                             *)
Unplanned(e) == Exists(e) /\ (pending[e] \/ plannedAt[e] = None)

(* A failed planning is repeated PlanRetry later (reconcile).              *)
AwaitsRetry(e) ==
    /\ Unplanned(e) /\ ~pending[e] /\ nextPlan[e] # None
    /\ now < nextPlan[e] /\ nextPlan[e] <= now + PlanRetry

(* Every event that is not deleted is planned in full after each edit,     *)
(* however the planner fails meanwhile and though a pass reads only        *)
(* BatchSize events (reconcile).  A failure clears the mark of the edit and *)
(* yet owes the retry: only a clock that stands still before the retry's   *)
(* time leaves the event unplanned, and one still marked never waits.      *)
EditsArePlanned ==
    \A e \in Events : []<>~Unplanned(e) \/ <>[]AwaitsRetry(e)

(* A job that is due comes to an end, sent, skipped or given up: retries   *)
(* are bounded and a dead worker's lock expires.                           *)
DueJobsSettle ==
    \A j \in Keys :
        jobs[j] # None /\ now >= DueAt(j) ~> jobs[j] = None \/ jobs[j].state = "over"

(* "advance reminders are never sent after the event starts" (README.md)   *)
AdvanceBeforeStart ==
    [][\A j \in Keys : j.lead # 0 /\ accepted'[j] # accepted[j] => now < j.start]_vars

(* "Completed or skipped jobs are not replayed." (README.md)               *)
SkippedIsFinal ==
    [][\A j \in Keys : jobs[j] # None /\ jobs[j].outcome = "skipped" =>
          accepted'[j] = accepted[j]]_vars

=============================================================================
