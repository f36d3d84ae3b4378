-------------------------- MODULE RemindersProofs --------------------------
(***************************************************************************)
(* What the planner and the workers guarantee for every set of events,     *)
(* reminders, planners and workers, and any number of failures.            *)
(*                                                                         *)
(* The argument.  For the workers, ChancesCounted: what was accepted and   *)
(* what may still be sent without a further mishap is at most one more     *)
(* than the mishaps so far.  A takeover of a living worker adds a chance   *)
(* and a mishap; a job that expired is past the time in which a worker     *)
(* decides to send it.  For the planner, PassesCover: what a pass took off *)
(* its list has a job, whatever other passes do, and PassesBehind: an      *)
(* acknowledgement that matches the revision is of the document planned.   *)
(* Withheld keeps a withdrawn reminder from being sent, and NoneDied says  *)
(* how jobs pass from holder to holder while nothing fails.                *)
(***************************************************************************)
EXTENDS Reminders, FiniteSetTheorems, SequenceTheorems, TLAPS

(* A worker holds only jobs that exist, from their due time on.            *)
HeldJobsExist ==
    \A w \in Workers : worker[w] # None => jobs[worker[w].job] # None

Started(j) == now >= DueAt(j)

RunningJobsAreDue ==
    /\ \A j \in Keys : jobs[j] # None /\ jobs[j].state = "running" => Started(j)
    /\ \A w \in Workers : worker[w] # None => Started(worker[w].job)

Spent(j) == now > DueAt(j) + Grace

Late(j) == Spent(j) \/ (j.lead # 0 /\ now >= j.start)

(* What a worker decided was right for the document it had read.           *)
DecisionsHold ==
    \A w \in Workers : worker[w] # None =>
        LET j == worker[w].job
            doc == worker[w].doc
        IN  /\ worker[w].step = "send" => doc \notin {None, Deleted} /\ j \in doc.reminders
            /\ worker[w].step = "skip" =>
                  doc \in {None, Deleted} \/ j \notin doc.reminders \/ Late(j)

(* Deliveries of j that may still send it, and whether the queue may yet   *)
(* begin another that can, without a mishap.                               *)
MaySend(j) ==
    {w \in Workers :
        /\ worker[w] # None /\ worker[w].job = j
        /\ \/ worker[w].step = "send"
           \/ worker[w].step \in {"read", "check", "skip"} /\ ~Spent(j)}

Active(j) == {w \in Holders(j) : worker[w].step # "finish"}

Reopened(j) ==
    /\ jobs[j].outcome # "sent"
    /\ \/ jobs[j].state = "waiting"
       \/ jobs[j].state = "running" /\ Active(j) = {}

Undecided(j) == ~Spent(j) /\ (jobs[j] = None \/ Reopened(j))

Chances(j) == Cardinality(MaySend(j)) + (IF Undecided(j) THEN 1 ELSE 0)

ChancesCounted == \A j \in Keys : accepted[j] + Chances(j) <= 1 + mishaps[j]

Behind(x) ==
    /\ events[x.event] # None
    /\ Exists(x.event) =>
          /\ x.doc.rev <= events[x.event].rev
          /\ x.doc.rev = events[x.event].rev => x.doc = events[x.event]

(* The documents of a pass are at most behind the collection.              *)
PassesBehind ==
    \A p \in Planners : plan[p] # None =>
        \A i \in DOMAIN plan[p].read : Behind(plan[p].read[i])

Covered(j) == jobs[j] # None \/ now >= ExpiresAt(j)

(* What a pass has done of its current document stays done.                *)
PassesCover ==
    \A p \in Planners : plan[p] # None =>
        \A j \in PlanReminders(Head(plan[p].read).doc, plan[p].time) :
            j \in plan[p].todo \/ Covered(j)

IInv ==
    /\ TypeOK
    /\ HeldJobsExist
    /\ RunningJobsAreDue
    /\ DecisionsHold
    /\ ChancesCounted
    /\ PassesBehind
    /\ PassesCover
    /\ PlanningLeavesNoGap

-----------------------------------------------------------------------------
(* Types *)

LEMMA KeysTyped ==
    ASSUME NEW j \in Keys
    PROVE  /\ j.event \in Events
           /\ j.start \in Nat /\ j.lead \in Nat
           /\ DueAt(j) \in Nat
<1>1. PICK s \in Schedules : j \in s
  BY DEF Keys
<1>2. j.event \in Events /\ j.start \in Nat /\ j.lead \in 0 .. j.start
  BY <1>1, RemindersAssumption
<1> QED
  BY <1>2 DEF DueAt

LEMMA ConstantsTyped ==
    /\ Window \in Nat /\ Grace \in Nat /\ Retention \in Nat /\ MaxRetries \in Nat
    /\ MaxTime \in Nat /\ MaxFaults \in Nat /\ MaxRevision \in Nat \ {0}
    /\ Refresh \in Nat \ {0} /\ PlanRetry \in Nat \ {0} /\ BatchSize \in Nat \ {0}
    /\ Refresh <= Window /\ Grace < Retention /\ IsFiniteSet(Workers)
BY RemindersAssumption

LEMMA PlannedTyped ==
    ASSUME NEW doc \in Documents, NEW time
    PROVE  PlanReminders(doc, time) \subseteq Keys
BY DEF PlanReminders, Documents, Keys

TypeInv == TypeOK /\ HeldJobsExist

LEMMA TickTyped ==
    ASSUME TypeInv, Tick
    PROVE  TypeInv'
BY ConstantsTyped
   DEF TypeInv, TypeOK, HeldJobsExist, Tick, Times, eventVars, mailVars

LEMMA ApiTyped ==
    ASSUME TypeInv, Api
    PROVE  TypeInv'
<1> USE DEF TypeInv, TypeOK, eventVars, mailVars
<1>1. PICK e \in Events :
          \/ \E s \in SchedulesOf(e) :
                CreateEvent(e, s) \/ \E changed \in BOOLEAN : EditEvent(e, s, changed)
          \/ DeleteEvent(e)
  BY DEF Api
<1>2. UNCHANGED <<now, plan, jobs, worker, mailVars, faults>>
  BY <1>1 DEF CreateEvent, EditEvent, DeleteEvent
<1>3. CASE DeleteEvent(e)
  BY <1>2, <1>3 DEF DeleteEvent, HeldJobsExist
<1>4. CASE \E s \in SchedulesOf(e) : CreateEvent(e, s)
  <2>1. PICK s \in SchedulesOf(e) : CreateEvent(e, s)
    BY <1>4
  <2>2. s \in Schedules
    BY DEF SchedulesOf
  <2>3. [rev |-> 1, reminders |-> s, created |-> now] \in Documents
    BY <2>2, ConstantsTyped DEF Documents, Times
  <2>4. events' \in [Events -> Documents \cup {None, Deleted}]
    BY <2>1, <2>3 DEF CreateEvent
  <2>5. pending' \in [Events -> BOOLEAN] /\ UNCHANGED <<nextPlan, plannedAt>>
    BY <2>1 DEF CreateEvent
  <2> QED
    BY <1>2, <2>4, <2>5 DEF HeldJobsExist
<1>5. CASE \E s \in SchedulesOf(e) : \E changed \in BOOLEAN : EditEvent(e, s, changed)
  <2>1. PICK s \in SchedulesOf(e) : \E changed \in BOOLEAN : EditEvent(e, s, changed)
    BY <1>5
  <2>2. s \in Schedules
    BY DEF SchedulesOf
  <2>3. events[e] \in Documents /\ events[e].rev < MaxRevision
    BY <2>1 DEF EditEvent, Exists
  <2>4. [rev |-> events[e].rev + 1, reminders |-> s, created |-> events[e].created]
            \in Documents
    BY <2>2, <2>3, ConstantsTyped DEF Documents
  <2>5. events' \in [Events -> Documents \cup {None, Deleted}]
    BY <2>1, <2>4 DEF EditEvent
  <2>6. pending' \in [Events -> BOOLEAN] /\ UNCHANGED <<nextPlan, plannedAt>>
    BY <2>1 DEF EditEvent
  <2> QED
    BY <1>2, <2>5, <2>6 DEF HeldJobsExist
<1> QED
  BY <1>1, <1>3, <1>4, <1>5

(* The next document of a pass, if any. *)
LEMMA AdvanceTyped ==
    ASSUME TypeOK, NEW p \in Planners, plan[p] # None, Advance(p)
    PROVE  /\ plan' \in [Planners -> Passes \cup {None}]
           /\ \A q \in Planners \ {p} : plan'[q] = plan[q]
           /\ plan'[p] # None =>
                 /\ plan'[p].time = plan[p].time
                 /\ plan'[p].todo = PlanReminders(Head(plan'[p].read).doc, plan[p].time)
                 /\ \A i \in DOMAIN plan'[p].read :
                       i + 1 \in DOMAIN plan[p].read /\ plan'[p].read[i] = plan[p].read[i + 1]
<1> DEFINE rest == Tail(plan[p].read)
<1>1. /\ plan[p] \in Passes
      /\ plan[p].read \in Seq([event : Events, doc : Documents]) \ {<<>>}
      /\ plan[p].time \in Times
  BY DEF TypeOK, Passes
<1>2. /\ rest \in Seq([event : Events, doc : Documents])
      /\ Len(rest) = Len(plan[p].read) - 1
      /\ \A i \in 1 .. Len(rest) : rest[i] = plan[p].read[i + 1]
  BY <1>1, HeadTailProperties
<1> HIDE DEF rest
<1>3. CASE rest = <<>>
  BY <1>3 DEF Advance, TypeOK, rest
<1>4. CASE rest # <<>>
  <2> DEFINE pass == [time |-> plan[p].time, read |-> rest,
                      todo |-> PlanReminders(Head(rest).doc, plan[p].time)]
  <2>1. Head(rest) \in [event : Events, doc : Documents]
    BY <1>2, <1>4, HeadTailProperties
  <2>2. PlanReminders(Head(rest).doc, plan[p].time) \in SUBSET Keys
    BY <2>1, PlannedTyped
  <2>4. pass \in Passes
    BY <1>1, <1>2, <1>4, <2>2 DEF Passes
  <2>5. plan' = [plan EXCEPT ![p] = pass]
    BY <1>4 DEF Advance, rest
  <2>6. plan'[p] = pass /\ \A q \in Planners \ {p} : plan'[q] = plan[q]
    BY <2>5 DEF TypeOK
  <2>7. \A i \in DOMAIN rest :
            i + 1 \in DOMAIN plan[p].read /\ rest[i] = plan[p].read[i + 1]
    BY <1>1, <1>2
  <2> QED
    BY <2>4, <2>5, <2>6, <2>7 DEF TypeOK
<1> QED
  BY <1>3, <1>4

LEMMA AcknowledgeTyped ==
    ASSUME TypeOK, NEW p \in Planners, plan[p] # None, NEW failed \in BOOLEAN,
           Acknowledge(plan[p], failed)
    PROVE  /\ pending' \in [Events -> BOOLEAN]
           /\ nextPlan' \in [Events -> Nat \cup {None}]
           /\ plannedAt' \in [Events -> Times \cup {None}]
<1>1. plan[p].time \in Times /\ NextPlan(plan[p].time, failed) \in Nat
  BY ConstantsTyped DEF TypeOK, Passes, Times, NextPlan
<1> QED
  BY <1>1 DEF Acknowledge, TypeOK

LEMMA BeginTyped ==
    ASSUME TypeOK, NEW p \in Planners, BeginPass(p)
    PROVE  /\ plan' \in [Planners -> Passes \cup {None}]
           /\ \A q \in Planners \ {p} : plan'[q] = plan[q]
           /\ plan'[p] # None =>
                 /\ plan'[p].todo = PlanReminders(Head(plan'[p].read).doc, plan'[p].time)
                 /\ \A i \in DOMAIN plan'[p].read :
                       LET x == plan'[p].read[i]
                       IN  x.event \in Events /\ Exists(x.event) /\ x.doc = events[x.event]
<1>1. PICK batch \in Batches :
          plan' = [plan EXCEPT ![p] =
              [time |-> now,
               read |-> [i \in DOMAIN batch |->
                            [event |-> batch[i], doc |-> events[batch[i]]]],
               todo |-> PlanReminders(events[batch[1]], now)]]
  BY DEF BeginPass
<1>2. PICK n \in 1 .. BatchSize : batch \in [1 .. n -> Events]
  BY DEF Batches
<1>3. \A i \in 1 .. n : Exists(batch[i]) /\ events[batch[i]] \in Documents
  BY <1>2 DEF Batches, IsBatch, DueForPlanning, TypeOK, Exists
<1> DEFINE read == [i \in 1 .. n |-> [event |-> batch[i], doc |-> events[batch[i]]]]
<1>4. n \in Nat /\ 1 \in 1 .. n
  BY <1>2, ConstantsTyped
<1>5. /\ read \in Seq([event : Events, doc : Documents]) \ {<<>>}
      /\ Head(read) = read[1]
  <2>1. read \in [1 .. n -> [event : Events, doc : Documents]]
    BY <1>2, <1>3
  <2>2. read \in Seq([event : Events, doc : Documents])
    BY <1>4, <2>1
  <2>3. read # <<>> /\ Head(read) = read[1]
    BY <1>4
  <2> QED
    BY <2>2, <2>3
<1>6. PlanReminders(events[batch[1]], now) \in SUBSET Keys
  BY <1>3, <1>4, PlannedTyped
<1>7. plan' = [plan EXCEPT ![p] = [time |-> now, read |-> read,
                                  todo |-> PlanReminders(events[batch[1]], now)]]
  BY <1>1, <1>2
<1>8. Head(read).doc = events[batch[1]]
  BY <1>4, <1>5
<1>9. \A i \in DOMAIN read :
          /\ read[i].event \in Events /\ Exists(read[i].event)
          /\ read[i].doc = events[read[i].event]
  BY <1>2, <1>3
<1> HIDE DEF read
<1>10. [time |-> now, read |-> read, todo |-> PlanReminders(events[batch[1]], now)] \in Passes
  BY <1>5, <1>6 DEF Passes, TypeOK
<1> QED
  BY <1>7, <1>8, <1>9, <1>10 DEF TypeOK

LEMMA PlannerTyped ==
    ASSUME TypeInv, NEW p \in Planners,
           BeginPass(p) \/ FinishEvent(p) \/ PlanningFails(p) \/ PassLost(p)
    PROVE  TypeInv'
<1> USE DEF TypeInv, eventVars, mailVars
<1>1. CASE BeginPass(p)
  BY <1>1, BeginTyped DEF BeginPass, TypeOK, HeldJobsExist
<1>2. CASE FinishEvent(p)
  BY <1>2, AdvanceTyped, AcknowledgeTyped DEF FinishEvent, TypeOK, HeldJobsExist
<1>3. CASE PlanningFails(p)
  <2>1. faults' \in 0 .. MaxFaults
    BY <1>3, ConstantsTyped DEF PlanningFails, Fault, TypeOK
  <2> QED
    BY <1>3, <2>1, AdvanceTyped, AcknowledgeTyped DEF PlanningFails, TypeOK, HeldJobsExist
<1>4. CASE PassLost(p)
  <2>1. faults' \in 0 .. MaxFaults
    BY <1>4, ConstantsTyped DEF PassLost, Fault, TypeOK
  <2> QED
    BY <1>4, <2>1 DEF PassLost, TypeOK, HeldJobsExist
<1> QED
  BY <1>1, <1>2, <1>3, <1>4

LEMMA SaveTyped ==
    ASSUME TypeInv, NEW p \in Planners, NEW j \in Keys, SaveJob(p, j)
    PROVE  /\ TypeInv'
           /\ \A k \in Keys : jobs'[k] = IF k = j /\ jobs[j] = None THEN NewJob ELSE jobs[k]
           /\ plan'[p].time = plan[p].time /\ plan'[p].read = plan[p].read
           /\ plan'[p].todo = plan[p].todo \ {j}
           /\ \A q \in Planners \ {p} : plan'[q] = plan[q]
<1> USE DEF TypeInv, eventVars, mailVars
<1>1. NewJob \in Jobs /\ NewJob # None
  BY MarkersAreNoData DEF NewJob, Jobs
<1>2. /\ jobs' \in [Keys -> Jobs \cup {None}]
      /\ \A k \in Keys : jobs'[k] = IF k = j /\ jobs[j] = None THEN NewJob ELSE jobs[k]
  BY <1>1 DEF SaveJob, InsertJob, TypeOK
<1>3. plan[p] \in Passes
  BY DEF SaveJob, TypeOK
<1>4. /\ [plan[p] EXCEPT !.todo = @ \ {j}] \in Passes
      /\ plan'[p] = [plan[p] EXCEPT !.todo = @ \ {j}]
      /\ plan' \in [Planners -> Passes \cup {None}]
      /\ \A q \in Planners \ {p} : plan'[q] = plan[q]
  BY <1>3 DEF SaveJob, TypeOK, Passes
<1>5. TypeOK'
  BY <1>2, <1>4 DEF SaveJob, TypeOK
<1>6. HeldJobsExist'
  BY <1>1, <1>2 DEF SaveJob, HeldJobsExist, TypeOK, Deliveries
<1> QED
  BY <1>2, <1>3, <1>4, <1>5, <1>6 DEF Passes

(* Moves of a worker, and changes of a job, one field at a time.           *)
LEMMA MoveEffect ==
    ASSUME TypeOK, NEW w \in Workers, worker[w] # None,
           NEW step \in {"read", "check", "send", "skip", "record", "finish"},
           worker' = [worker EXCEPT ![w].step = step]
    PROVE  /\ worker' \in [Workers -> Deliveries \cup {None}]
           /\ worker'[w] # None
           /\ worker'[w].job = worker[w].job /\ worker'[w].doc = worker[w].doc
           /\ worker'[w].step = step
           /\ \A v \in Workers \ {w} : worker'[v] = worker[v]
<1>1. worker[w] \in Deliveries
  BY DEF TypeOK
<1>2. [worker[w] EXCEPT !.step = step] \in Deliveries
  BY <1>1 DEF Deliveries
<1> QED
  BY <1>1, <1>2, MarkersAreNoData DEF TypeOK, Deliveries

LEMMA ReadEffect ==
    ASSUME TypeOK, NEW w \in Workers, ReadEvent(w)
    PROVE  /\ worker' \in [Workers -> Deliveries \cup {None}]
           /\ worker'[w] # None
           /\ worker'[w].job = worker[w].job /\ worker'[w].step = "check"
           /\ \A v \in Workers \ {w} : worker'[v] = worker[v]
<1>1. worker[w] \in Deliveries /\ worker[w].job \in Keys /\ worker[w].job.event \in Events
  BY KeysTyped DEF TypeOK, ReadEvent, At, Deliveries
<1>2. [job |-> worker[w].job, doc |-> events[worker[w].job.event], step |-> "check"]
          \in Deliveries
  BY <1>1 DEF TypeOK, Deliveries
<1> QED
  BY <1>2, MarkersAreNoData DEF TypeOK, ReadEvent

LEMMA LeaveEffect ==
    ASSUME TypeOK, NEW w \in Workers, worker' = [worker EXCEPT ![w] = None]
    PROVE  /\ worker' \in [Workers -> Deliveries \cup {None}]
           /\ worker'[w] = None
           /\ \A v \in Workers \ {w} : worker'[v] = worker[v]
BY DEF TypeOK

LEMMA StateEffect ==
    ASSUME TypeOK, NEW j \in Keys, jobs[j] # None,
           NEW state \in {"waiting", "running", "over"},
           jobs' = [jobs EXCEPT ![j].state = state]
    PROVE  /\ jobs' \in [Keys -> Jobs \cup {None}]
           /\ jobs'[j] # None
           /\ jobs'[j].state = state /\ jobs'[j].outcome = jobs[j].outcome
           /\ \A k \in Keys \ {j} : jobs'[k] = jobs[k]
<1>1. jobs[j] \in Jobs
  BY DEF TypeOK
<1>2. [jobs[j] EXCEPT !.state = state] \in Jobs
  BY <1>1 DEF Jobs
<1> QED
  BY <1>1, <1>2, MarkersAreNoData DEF TypeOK, Jobs

LEMMA OutcomeEffect ==
    ASSUME TypeOK, NEW j \in Keys, jobs[j] # None, NEW outcome \in {"sent", "skipped"},
           jobs' = [jobs EXCEPT ![j].outcome = outcome]
    PROVE  /\ jobs' \in [Keys -> Jobs \cup {None}]
           /\ jobs'[j] # None
           /\ jobs'[j].state = jobs[j].state /\ jobs'[j].outcome = outcome
           /\ \A k \in Keys \ {j} : jobs'[k] = jobs[k]
<1>1. jobs[j] \in Jobs
  BY DEF TypeOK
<1>2. [jobs[j] EXCEPT !.outcome = outcome] \in Jobs
  BY <1>1 DEF Jobs
<1> QED
  BY <1>1, <1>2, MarkersAreNoData DEF TypeOK, Jobs

LEMMA FailsEffect ==
    ASSUME TypeInv, NEW w \in Workers, worker[w] # None, NEW retryable \in BOOLEAN,
           Fails(w, retryable)
    PROVE  LET j == worker[w].job
           IN  /\ jobs' \in [Keys -> Jobs \cup {None}]
               /\ jobs'[j] # None
               /\ jobs'[j].state \in {"waiting", "over"}
               /\ jobs'[j].outcome = jobs[j].outcome
               /\ \A k \in Keys \ {j} : jobs'[k] = jobs[k]
               /\ worker' \in [Workers -> Deliveries \cup {None}]
               /\ worker'[w] = None
               /\ \A v \in Workers \ {w} : worker'[v] = worker[v]
<1> DEFINE j == worker[w].job
<1>1. j \in Keys /\ jobs[j] # None
  BY DEF TypeInv, TypeOK, HeldJobsExist, Deliveries
<1>2. jobs[j] \in Jobs
  BY <1>1 DEF TypeInv, TypeOK
<1>3. PICK s \in {"waiting", "over"} :
          jobs' = [jobs EXCEPT ![j] = [state |-> s, outcome |-> jobs[j].outcome,
                                       fails |-> jobs[j].fails + 1]]
  BY DEF Fails
<1>4. [state |-> s, outcome |-> jobs[j].outcome, fails |-> jobs[j].fails + 1] \in Jobs
  BY <1>2 DEF Jobs
<1>5. /\ worker' \in [Workers -> Deliveries \cup {None}]
      /\ worker'[w] = None
      /\ \A v \in Workers \ {w} : worker'[v] = worker[v]
  BY DEF Fails, TypeInv, TypeOK
<1>6. /\ jobs' \in [Keys -> Jobs \cup {None}]
      /\ jobs'[j] = [state |-> s, outcome |-> jobs[j].outcome, fails |-> jobs[j].fails + 1]
      /\ \A k \in Keys \ {j} : jobs'[k] = jobs[k]
  BY <1>1, <1>3, <1>4 DEF TypeInv, TypeOK
<1> QED
  BY <1>4, <1>5, <1>6, MarkersAreNoData

LEMMA HandOutEffect ==
    ASSUME TypeOK, NEW w \in Workers, NEW j \in Keys, jobs[j] # None, HandOut(w, j)
    PROVE  /\ jobs' \in [Keys -> Jobs \cup {None}]
           /\ jobs'[j] # None
           /\ jobs'[j].state = "running" /\ jobs'[j].outcome = jobs[j].outcome
           /\ \A k \in Keys \ {j} : jobs'[k] = jobs[k]
           /\ worker' \in [Workers -> Deliveries \cup {None}]
           /\ worker'[w] # None /\ worker'[w].job = j
           /\ worker'[w].step = IF jobs[j].outcome = "sent" THEN "finish" ELSE "read"
           /\ \A v \in Workers \ {w} : worker'[v] = worker[v]
<1> DEFINE delivery ==
        [job |-> j, doc |-> None,
         step |-> IF jobs[j].outcome = "sent" THEN "finish" ELSE "read"]
<1>1. delivery \in Deliveries
  BY DEF Deliveries
<1>2. worker' = [worker EXCEPT ![w] = delivery]
  BY DEF HandOut
<1>3. /\ worker' \in [Workers -> Deliveries \cup {None}]
      /\ worker'[w] = delivery
      /\ \A v \in Workers \ {w} : worker'[v] = worker[v]
  BY <1>1, <1>2 DEF TypeOK
<1>4. delivery # None
  BY <1>1, MarkersAreNoData
<1> QED
  BY <1>3, <1>4, StateEffect DEF HandOut

(* A key's counter goes up by one. *)
LEMMA CountEffect ==
    ASSUME NEW f \in [Keys -> Nat], NEW j \in Keys
    PROVE  /\ [f EXCEPT ![j] = @ + 1] \in [Keys -> Nat]
           /\ \A k \in Keys : [f EXCEPT ![j] = @ + 1][k] = IF k = j THEN f[j] + 1 ELSE f[k]
OBVIOUS

-----------------------------------------------------------------------------
(* Deliveries *)

DeliveryInv == RunningJobsAreDue /\ DecisionsHold /\ ChancesCounted

(* What worker w decided, with the document it had read.                   *)
Decided(w) ==
    LET j == worker[w].job
        doc == worker[w].doc
    IN  /\ worker[w].step = "send" => doc \notin {None, Deleted} /\ j \in doc.reminders
        /\ worker[w].step = "skip" => doc \in {None, Deleted} \/ j \notin doc.reminders \/ Late(j)

(* A step of worker w on job j, and of nobody else. *)
WorksOn(w, j) ==
    /\ UNCHANGED <<now, eventVars, plan>>
    /\ worker' \in [Workers -> Deliveries \cup {None}]
    /\ \A v \in Workers \ {w} : worker'[v] = worker[v]
    /\ worker[w] # None => worker[w].job = j
    /\ worker'[w] # None => worker'[w].job = j
    /\ jobs' \in [Keys -> Jobs \cup {None}]
    /\ jobs[j] # None /\ jobs'[j] # None
    /\ \A k \in Keys \ {j} : jobs'[k] = jobs[k]
    /\ accepted' \in [Keys -> Nat] /\ mishaps' \in [Keys -> Nat]
    /\ \A k \in Keys \ {j} : accepted'[k] = accepted[k] /\ mishaps'[k] = mishaps[k]
    /\ faults' \in 0 .. MaxFaults

LEMMA WorkTyped ==
    ASSUME TypeInv, NEW w \in Workers, NEW j \in Keys, WorksOn(w, j)
    PROVE  TypeInv'
<1>1. TypeOK'
  BY DEF WorksOn, TypeInv, TypeOK, eventVars
<1>2. HeldJobsExist'
  BY DEF WorksOn, TypeInv, TypeOK, HeldJobsExist, Deliveries
<1> QED
  BY <1>1, <1>2 DEF TypeInv

LEMMA Sizes ==
    ASSUME NEW S \in SUBSET Workers, NEW T \in SUBSET Workers, NEW w \in Workers
    PROVE  /\ Cardinality(S) \in Nat /\ Cardinality(T) \in Nat
           /\ T \subseteq S => Cardinality(T) <= Cardinality(S)
           /\ w \in S /\ T \subseteq S \ {w} => Cardinality(T) <= Cardinality(S) - 1
           /\ T \subseteq S \cup {w} => Cardinality(T) <= Cardinality(S) + 1
<1>1. IsFiniteSet(S) /\ IsFiniteSet(T)
  BY ConstantsTyped, FS_Subset
<1>2. Cardinality(S) \in Nat /\ Cardinality(T) \in Nat
  BY <1>1, FS_CardinalityType
<1>3. T \subseteq S => Cardinality(T) <= Cardinality(S)
  BY <1>1, FS_Subset
<1>4. w \in S /\ T \subseteq S \ {w} => Cardinality(T) <= Cardinality(S) - 1
  <2>1. /\ IsFiniteSet(S \ {w})
        /\ Cardinality(S \ {w}) = IF w \in S THEN Cardinality(S) - 1 ELSE Cardinality(S)
    BY <1>1, FS_RemoveElement
  <2>2. T \subseteq S \ {w} => Cardinality(T) <= Cardinality(S \ {w})
    BY <2>1, FS_Subset
  <2> QED
    BY <2>1, <2>2
<1>5. T \subseteq S \cup {w} => Cardinality(T) <= Cardinality(S) + 1
  <2>1. /\ IsFiniteSet(S \cup {w})
        /\ Cardinality(S \cup {w}) = IF w \in S THEN Cardinality(S) ELSE Cardinality(S) + 1
    BY <1>1, FS_AddElement
  <2>2. T \subseteq S \cup {w} => Cardinality(T) <= Cardinality(S \cup {w})
    BY <2>1, FS_Subset
  <2> QED
    BY <1>2, <2>1, <2>2
<1> QED
  BY <1>2, <1>3, <1>4, <1>5

(* How a step may change the chances of a reminder. *)
LEMMA ChancesStep ==
    ASSUME TypeOK, ChancesCounted, NEW j \in Keys, NEW w \in Workers,
           accepted'[j] \in Nat, mishaps'[j] \in Nat,
           \/ (* none is added *)
              /\ MaySend(j)' \subseteq MaySend(j)
              /\ Undecided(j)' => Undecided(j)
              /\ accepted'[j] = accepted[j] /\ mishaps'[j] = mishaps[j]
           \/ (* a delivery gives up *)
              /\ w \in MaySend(j) /\ MaySend(j)' \subseteq MaySend(j) \ {w}
              /\ accepted'[j] = accepted[j] /\ mishaps'[j] = mishaps[j]
           \/ (* the queue's chance becomes a delivery's *)
              /\ MaySend(j)' \subseteq MaySend(j) \cup {w}
              /\ Undecided(j) /\ ~Undecided(j)'
              /\ accepted'[j] = accepted[j] /\ mishaps'[j] = mishaps[j]
           \/ (* a delivery's chance is used *)
              /\ w \in MaySend(j) /\ MaySend(j)' \subseteq MaySend(j) \ {w}
              /\ Undecided(j)' => Undecided(j)
              /\ accepted'[j] = accepted[j] + 1 /\ mishaps'[j] = mishaps[j]
           \/ (* it is used, and nobody knows *)
              /\ w \in MaySend(j) /\ MaySend(j)' \subseteq MaySend(j) \ {w}
              /\ accepted'[j] = accepted[j] + 1 /\ mishaps'[j] = mishaps[j] + 1
           \/ (* a mishap gives the queue another chance *)
              /\ MaySend(j)' \subseteq MaySend(j)
              /\ accepted'[j] = accepted[j] /\ mishaps'[j] = mishaps[j] + 1
           \/ (* or a delivery *)
              /\ MaySend(j)' \subseteq MaySend(j) \cup {w}
              /\ ~Undecided(j)'
              /\ accepted'[j] = accepted[j] /\ mishaps'[j] = mishaps[j] + 1
    PROVE  accepted'[j] + Chances(j)' <= 1 + mishaps'[j]
<1>1. MaySend(j) \in SUBSET Workers /\ MaySend(j)' \in SUBSET Workers
  BY DEF MaySend
<1>2. PICK S \in SUBSET Workers : S = MaySend(j)
  BY <1>1
<1>3. PICK T \in SUBSET Workers : T = MaySend(j)'
  BY <1>1
<1>4. /\ accepted[j] \in Nat /\ mishaps[j] \in Nat
      /\ accepted[j] + Chances(j) <= 1 + mishaps[j]
  BY DEF TypeOK, ChancesCounted
<1>5. /\ Chances(j) = Cardinality(S) + (IF Undecided(j) THEN 1 ELSE 0)
      /\ Chances(j)' = Cardinality(T) + (IF Undecided(j)' THEN 1 ELSE 0)
  BY <1>2, <1>3 DEF Chances
<1>6. /\ Cardinality(S) \in Nat /\ Cardinality(T) \in Nat
      /\ T \subseteq S => Cardinality(T) <= Cardinality(S)
      /\ w \in S /\ T \subseteq S \ {w} => Cardinality(T) <= Cardinality(S) - 1
      /\ T \subseteq S \cup {w} => Cardinality(T) <= Cardinality(S) + 1
  BY Sizes
<1> QED
  BY <1>2, <1>3, <1>4, <1>5, <1>6

(* Keys that a step does not touch keep their chances. *)
LEMMA OthersKeepChances ==
    ASSUME TypeInv, ChancesCounted, NEW w \in Workers, NEW j \in Keys, WorksOn(w, j),
           NEW k \in Keys \ {j}
    PROVE  accepted'[k] + Chances(k)' <= 1 + mishaps'[k]
<1>1. now' = now /\ jobs'[k] = jobs[k] /\ accepted'[k] = accepted[k] /\ mishaps'[k] = mishaps[k]
  BY DEF WorksOn
<1>2. \A v \in Workers : (worker'[v] # None /\ worker'[v].job = k)
                             <=> (worker[v] # None /\ worker[v].job = k)
  BY DEF WorksOn
<1>3. \A v \in Workers : worker[v] # None /\ worker[v].job = k => worker'[v] = worker[v]
  BY DEF WorksOn
<1>4. MaySend(k)' = MaySend(k)
  BY <1>1, <1>2, <1>3 DEF MaySend, Spent
<1>5. Active(k)' = Active(k)
  BY <1>2, <1>3 DEF Active, Holders
<1>6. Undecided(k)' <=> Undecided(k)
  BY <1>1, <1>5 DEF Undecided, Reopened, Spent
<1> QED
  BY <1>1, <1>4, <1>6, ChancesStep DEF TypeInv, TypeOK

LEMMA WorkDelivers ==
    ASSUME TypeInv, DeliveryInv, NEW w \in Workers, NEW j \in Keys, WorksOn(w, j),
           Started(j),
           worker'[w] # None => Decided(w)',
           accepted'[j] + Chances(j)' <= 1 + mishaps'[j]
    PROVE  DeliveryInv'
<1>1. now' = now
  BY DEF WorksOn
<1>2. RunningJobsAreDue'
  BY <1>1 DEF WorksOn, DeliveryInv, RunningJobsAreDue, Started
<1>3. DecisionsHold'
  <2> SUFFICES ASSUME NEW v \in Workers, worker'[v] # None
               PROVE  Decided(v)'
    BY DEF DecisionsHold, Decided
  <2>1. CASE v = w
    BY <2>1
  <2>2. CASE v # w
    <3>1. worker'[v] = worker[v] /\ Decided(v)
      BY <2>2 DEF WorksOn, DeliveryInv, DecisionsHold, Decided
    <3> QED
      BY <1>1, <3>1 DEF Decided, Late, Spent
  <2> QED
    BY <2>1, <2>2
<1>4. ChancesCounted'
  BY OthersKeepChances DEF DeliveryInv, ChancesCounted
<1> QED
  BY <1>2, <1>3, <1>4 DEF DeliveryInv

(* The chances of the job that a worker's step is about. *)
LEMMA OwnChances ==
    ASSUME TypeInv, NEW w \in Workers, NEW j \in Keys, WorksOn(w, j)
    PROVE  /\ MaySend(j)' \ {w} = MaySend(j) \ {w}
           /\ Active(j)' \ {w} = Active(j) \ {w}
           /\ Spent(j)' <=> Spent(j)
           /\ w \in MaySend(j) <=>
                 /\ worker[w] # None
                 /\ \/ worker[w].step = "send"
                    \/ worker[w].step \in {"read", "check", "skip"} /\ ~Spent(j)
           /\ w \in MaySend(j)' <=>
                 /\ worker'[w] # None
                 /\ \/ worker'[w].step = "send"
                    \/ worker'[w].step \in {"read", "check", "skip"} /\ ~Spent(j)
           /\ w \in Active(j) <=> worker[w] # None /\ worker[w].step # "finish"
           /\ w \in Active(j)' <=> worker'[w] # None /\ worker'[w].step # "finish"
<1>1. \A v \in Workers \ {w} : worker'[v] = worker[v]
  BY DEF WorksOn
<1>2. /\ worker[w] # None => worker[w].job = j
      /\ worker'[w] # None => worker'[w].job = j
  BY DEF WorksOn
<1>3. Spent(j)' <=> Spent(j)
  BY DEF WorksOn, Spent
<1>4. \A v \in Workers \ {w} : v \in MaySend(j)' <=> v \in MaySend(j)
  BY <1>1, <1>3 DEF MaySend
<1>5. \A v \in Workers \ {w} : v \in Active(j)' <=> v \in Active(j)
  BY <1>1 DEF Active, Holders
<1>6. /\ MaySend(j) \subseteq Workers /\ MaySend(j)' \subseteq Workers
      /\ Active(j) \subseteq Workers /\ Active(j)' \subseteq Workers
  BY DEF MaySend, Active, Holders
<1>7. /\ w \in MaySend(j) <=>
            /\ worker[w] # None
            /\ \/ worker[w].step = "send"
               \/ worker[w].step \in {"read", "check", "skip"} /\ ~Spent(j)
      /\ w \in MaySend(j)' <=>
            /\ worker'[w] # None
            /\ \/ worker'[w].step = "send"
               \/ worker'[w].step \in {"read", "check", "skip"} /\ ~Spent(j)
  BY <1>2, <1>3 DEF MaySend
<1>8. /\ w \in Active(j) <=> worker[w] # None /\ worker[w].step # "finish"
      /\ w \in Active(j)' <=> worker'[w] # None /\ worker'[w].step # "finish"
  BY <1>2 DEF Active, Holders
<1> QED
  BY <1>3, <1>4, <1>5, <1>6, <1>7, <1>8

(* What a worker's step has to show. *)
Delivers(w, j) ==
    /\ WorksOn(w, j)
    /\ worker'[w] # None => Decided(w)'
    /\ accepted'[j] + Chances(j)' <= 1 + mishaps'[j]

(* The planner sees no step of a worker, for no job goes away. *)
KeepsPlans ==
    /\ UNCHANGED <<now, eventVars, plan>>
    /\ \A k \in Keys : jobs[k] # None => jobs'[k] # None

LEMMA DeliversEnough ==
    ASSUME TypeInv, DeliveryInv, NEW w \in Workers, NEW j \in Keys, Started(j),
           Delivers(w, j)
    PROVE  TypeInv' /\ DeliveryInv' /\ KeepsPlans
BY WorkTyped, WorkDelivers DEF Delivers, WorksOn, KeepsPlans

(* The job of a busy worker. *)
LEMMA HeldJob ==
    ASSUME TypeInv, DeliveryInv, NEW w \in Workers, worker[w] # None
    PROVE  /\ worker[w] \in Deliveries /\ worker[w].job \in Keys
           /\ jobs[worker[w].job] \in Jobs /\ jobs[worker[w].job] # None
           /\ Started(worker[w].job)
           /\ Decided(w)
BY DEF TypeInv, TypeOK, HeldJobsExist, Deliveries, DeliveryInv, RunningJobsAreDue,
       DecisionsHold, Decided

LEMMA FaultTyped ==
    ASSUME TypeOK, Fault
    PROVE  faults' \in 0 .. MaxFaults
BY ConstantsTyped DEF TypeOK, Fault

LEMMA ReadDelivers ==
    ASSUME TypeInv, DeliveryInv, NEW w \in Workers, ReadEvent(w)
    PROVE  TypeInv' /\ DeliveryInv' /\ KeepsPlans
<1> PICK j \in Keys : j = worker[w].job
  BY HeldJob DEF ReadEvent, At
<1>1. worker[w] # None /\ worker[w].step = "read"
  BY DEF ReadEvent, At
<1>2. WorksOn(w, j)
  BY <1>1, HeldJob, ReadEffect
     DEF WorksOn, ReadEvent, TypeInv, TypeOK, mailVars
<1>3. worker'[w] # None /\ worker'[w].step = "check"
  BY ReadEffect DEF TypeInv
<1>4. /\ MaySend(j)' \subseteq MaySend(j)
      /\ Active(j) = {} <=> Active(j)' = {}
  BY <1>1, <1>2, <1>3, OwnChances
<1>5. Undecided(j)' => Undecided(j)
  BY <1>2, <1>4, OwnChances DEF Undecided, Reopened, ReadEvent
<1>6. accepted'[j] + Chances(j)' <= 1 + mishaps'[j]
  BY <1>2, <1>4, <1>5, ChancesStep DEF WorksOn, ReadEvent, mailVars, TypeInv, DeliveryInv
<1>7. Decided(w)'
  BY <1>3 DEF Decided
<1> QED
  BY <1>1, <1>2, <1>6, <1>7, HeldJob, DeliversEnough DEF Delivers

LEMMA CheckDelivers ==
    ASSUME TypeInv, DeliveryInv, NEW w \in Workers, Check(w)
    PROVE  TypeInv' /\ DeliveryInv' /\ KeepsPlans
<1> PICK j \in Keys : j = worker[w].job
  BY HeldJob DEF Check, At
<1>1. worker[w] # None /\ worker[w].step = "check"
  BY DEF Check, At
<1>2. PICK step \in {"send", "skip"} :
         /\ step = IF Deliverable(j, worker[w].doc) THEN "send" ELSE "skip"
         /\ worker' = [worker EXCEPT ![w].step = step]
  BY DEF Check
<1>3. /\ worker' \in [Workers -> Deliveries \cup {None}]
      /\ worker'[w] # None
      /\ worker'[w].job = j /\ worker'[w].doc = worker[w].doc
      /\ worker'[w].step = step
      /\ \A v \in Workers \ {w} : worker'[v] = worker[v]
  BY <1>1, <1>2, MoveEffect DEF TypeInv
<1>4. WorksOn(w, j)
  BY <1>1, <1>3, HeldJob DEF WorksOn, Check, TypeInv, TypeOK, mailVars
<1>5. now \in Nat /\ Grace \in Nat /\ DueAt(j) \in Nat /\ j.start \in Nat /\ j.lead \in Nat
  BY KeysTyped, ConstantsTyped DEF TypeInv, TypeOK, Times
<1>6. step = "send" => ~Spent(j)
  BY <1>2, <1>5 DEF Deliverable, Spent
<1>7. /\ MaySend(j)' \subseteq MaySend(j)
      /\ Active(j) = {} <=> Active(j)' = {}
  BY <1>1, <1>3, <1>4, <1>6, OwnChances
<1>8. Undecided(j)' => Undecided(j)
  BY <1>4, <1>7, OwnChances DEF Undecided, Reopened, Check
<1>9. accepted'[j] + Chances(j)' <= 1 + mishaps'[j]
  BY <1>4, <1>7, <1>8, ChancesStep DEF WorksOn, Check, mailVars, TypeInv, DeliveryInv
<1>10. Decided(w)'
  <2>1. Started(j)
    BY <1>1, HeldJob
  <2>2. now' = now
    BY <1>4 DEF WorksOn
  <2>3. step = "skip" => worker[w].doc \in {None, Deleted} \/ j \notin worker[w].doc.reminders \/ Late(j)
    BY <1>2, <1>5, <2>1 DEF Deliverable, Late, Spent, Started
  <2>4. step = "send" => worker[w].doc \notin {None, Deleted} /\ j \in worker[w].doc.reminders
    BY <1>2 DEF Deliverable
  <2> QED
    BY <1>3, <2>2, <2>3, <2>4 DEF Decided, Late, Spent
<1> QED
  BY <1>1, <1>4, <1>9, <1>10, HeldJob, DeliversEnough DEF Delivers

LEMMA SendDelivers ==
    ASSUME TypeInv, DeliveryInv, NEW w \in Workers, Send(w)
    PROVE  TypeInv' /\ DeliveryInv' /\ KeepsPlans
<1> PICK j \in Keys : j = worker[w].job
  BY HeldJob DEF Send, At
<1>1. worker[w] # None /\ worker[w].step = "send"
  BY DEF Send, At
<1>2. /\ worker' \in [Workers -> Deliveries \cup {None}]
      /\ worker'[w] # None /\ worker'[w].job = j
      /\ worker'[w].step = "record"
      /\ \A v \in Workers \ {w} : worker'[v] = worker[v]
  BY <1>1, MoveEffect DEF TypeInv, Send
<1>3. /\ accepted' \in [Keys -> Nat]
      /\ \A k \in Keys : accepted'[k] = IF k = j THEN accepted[j] + 1 ELSE accepted[k]
  BY CountEffect DEF Send, Accepted, TypeInv, TypeOK
<1>4. WorksOn(w, j)
  BY <1>1, <1>2, <1>3, HeldJob DEF WorksOn, Send, TypeInv, TypeOK
<1>5. /\ w \in MaySend(j) /\ MaySend(j)' \subseteq MaySend(j) \ {w}
      /\ Active(j) = {} <=> Active(j)' = {}
  BY <1>1, <1>2, <1>4, OwnChances
<1>6. Undecided(j)' => Undecided(j)
  BY <1>4, <1>5, OwnChances DEF Undecided, Reopened, Send
<1>7. accepted'[j] + Chances(j)' <= 1 + mishaps'[j]
  <2>1. /\ accepted'[j] = accepted[j] + 1 /\ mishaps'[j] = mishaps[j]
        /\ accepted'[j] \in Nat /\ mishaps'[j] \in Nat
    BY <1>3, <1>4 DEF WorksOn, Send
  <2> QED
    BY <1>5, <1>6, <2>1, ChancesStep DEF TypeInv, DeliveryInv
<1>8. Decided(w)'
  BY <1>2 DEF Decided
<1> QED
  BY <1>1, <1>4, <1>7, <1>8, HeldJob, DeliversEnough DEF Delivers

(* A delivery that ends without sending gives up its chance, if it had one. *)
LEMMA GivesUp ==
    ASSUME TypeInv, DeliveryInv, NEW w \in Workers, NEW j \in Keys, WorksOn(w, j),
           worker[w] # None, worker[w].step \in {"read", "check", "skip", "send"},
           w \notin MaySend(j)',
           accepted'[j] = accepted[j], mishaps'[j] = mishaps[j]
    PROVE  accepted'[j] + Chances(j)' <= 1 + mishaps'[j]
<1>1. MaySend(j)' \subseteq MaySend(j) \ {w}
  BY OwnChances
<1>2. accepted'[j] \in Nat /\ mishaps'[j] \in Nat
  BY DEF WorksOn
<1>3. CASE w \in MaySend(j)
  BY <1>1, <1>2, <1>3, ChancesStep DEF TypeInv, DeliveryInv
<1>4. CASE w \notin MaySend(j)
  <2>1. Spent(j) /\ ~Undecided(j)'
    BY <1>4, OwnChances DEF Undecided
  <2> QED
    BY <1>1, <1>2, <1>4, <2>1, ChancesStep DEF TypeInv, DeliveryInv
<1> QED
  BY <1>3, <1>4

LEMMA SkipDelivers ==
    ASSUME TypeInv, DeliveryInv, NEW w \in Workers, Skip(w)
    PROVE  TypeInv' /\ DeliveryInv' /\ KeepsPlans
<1> PICK j \in Keys : j = worker[w].job
  BY HeldJob DEF Skip, At
<1>1. worker[w] # None /\ worker[w].step = "skip"
  BY DEF Skip, At
<1>2. /\ worker' \in [Workers -> Deliveries \cup {None}]
      /\ worker'[w] # None /\ worker'[w].job = j
      /\ worker'[w].step = "finish"
      /\ \A v \in Workers \ {w} : worker'[v] = worker[v]
  BY <1>1, MoveEffect DEF TypeInv, Skip, SaveOutcome
<1>3. jobs[j] # None
  BY <1>1, HeldJob
<1>4. /\ jobs' \in [Keys -> Jobs \cup {None}]
      /\ jobs'[j] # None
      /\ jobs'[j].state = jobs[j].state
      /\ \A k \in Keys \ {j} : jobs'[k] = jobs[k]
  BY <1>3, OutcomeEffect DEF Skip, SaveOutcome, TypeInv
<1>5. WorksOn(w, j)
  BY <1>1, <1>2, <1>3, <1>4 DEF WorksOn, Skip, SaveOutcome, TypeInv, TypeOK, mailVars
<1>6. w \notin MaySend(j)'
  BY <1>2, <1>5, OwnChances
<1>7. accepted'[j] + Chances(j)' <= 1 + mishaps'[j]
  BY <1>1, <1>5, <1>6, GivesUp DEF Skip, SaveOutcome, mailVars
<1>8. Decided(w)'
  BY <1>2 DEF Decided
<1> QED
  BY <1>1, <1>5, <1>7, <1>8, HeldJob, DeliversEnough DEF Delivers

LEMMA RecordDelivers ==
    ASSUME TypeInv, DeliveryInv, NEW w \in Workers, Record(w)
    PROVE  TypeInv' /\ DeliveryInv' /\ KeepsPlans
<1> PICK j \in Keys : j = worker[w].job
  BY HeldJob DEF Record, At
<1>1. worker[w] # None /\ worker[w].step = "record"
  BY DEF Record, At
<1>2. /\ worker' \in [Workers -> Deliveries \cup {None}]
      /\ worker'[w] # None /\ worker'[w].job = j
      /\ worker'[w].step = "finish"
      /\ \A v \in Workers \ {w} : worker'[v] = worker[v]
  BY <1>1, MoveEffect DEF TypeInv, Record, SaveOutcome
<1>3. jobs[j] # None
  BY <1>1, HeldJob
<1>4. /\ jobs' \in [Keys -> Jobs \cup {None}]
      /\ jobs'[j] # None
      /\ jobs'[j].state = jobs[j].state /\ jobs'[j].outcome = "sent"
      /\ \A k \in Keys \ {j} : jobs'[k] = jobs[k]
  BY <1>3, OutcomeEffect DEF Record, SaveOutcome, TypeInv
<1>5. WorksOn(w, j)
  BY <1>1, <1>2, <1>3, <1>4 DEF WorksOn, Record, SaveOutcome, TypeInv, TypeOK, mailVars
<1>6. MaySend(j)' \subseteq MaySend(j)
  BY <1>1, <1>2, <1>5, OwnChances
<1>7. ~Undecided(j)'
  BY <1>4 DEF Undecided, Reopened
<1>8. accepted'[j] + Chances(j)' <= 1 + mishaps'[j]
  BY <1>5, <1>6, <1>7, ChancesStep
     DEF WorksOn, Record, SaveOutcome, mailVars, TypeInv, DeliveryInv
<1>9. Decided(w)'
  BY <1>2 DEF Decided
<1> QED
  BY <1>1, <1>5, <1>8, <1>9, HeldJob, DeliversEnough DEF Delivers

LEMMA FinishDelivers ==
    ASSUME TypeInv, DeliveryInv, NEW w \in Workers, Finish(w)
    PROVE  TypeInv' /\ DeliveryInv' /\ KeepsPlans
<1> PICK j \in Keys : j = worker[w].job
  BY HeldJob DEF Finish, At
<1>1. worker[w] # None /\ worker[w].step = "finish"
  BY DEF Finish, At
<1>2. /\ worker' \in [Workers -> Deliveries \cup {None}]
      /\ worker'[w] = None
      /\ \A v \in Workers \ {w} : worker'[v] = worker[v]
  BY LeaveEffect DEF TypeInv, Finish
<1>3. jobs[j] # None
  BY <1>1, HeldJob
<1>4. /\ jobs' \in [Keys -> Jobs \cup {None}]
      /\ jobs'[j] # None
      /\ jobs'[j].state = "over"
      /\ \A k \in Keys \ {j} : jobs'[k] = jobs[k]
  BY <1>3, StateEffect DEF Finish, TypeInv
<1>5. WorksOn(w, j)
  BY <1>1, <1>2, <1>3, <1>4 DEF WorksOn, Finish, TypeInv, TypeOK, mailVars
<1>6. MaySend(j)' \subseteq MaySend(j)
  BY <1>1, <1>2, <1>5, OwnChances
<1>7. ~Undecided(j)'
  BY <1>4 DEF Undecided, Reopened
<1>8. accepted'[j] + Chances(j)' <= 1 + mishaps'[j]
  BY <1>5, <1>6, <1>7, ChancesStep DEF WorksOn, Finish, mailVars, TypeInv, DeliveryInv
<1> QED
  BY <1>1, <1>2, <1>5, <1>8, HeldJob, DeliversEnough DEF Delivers

LEMMA DeliveryFailsDelivers ==
    ASSUME TypeInv, DeliveryInv, NEW w \in Workers, NEW retryable \in BOOLEAN,
           DeliveryFails(w, retryable)
    PROVE  TypeInv' /\ DeliveryInv' /\ KeepsPlans
<1> PICK j \in Keys : j = worker[w].job
  BY HeldJob DEF DeliveryFails
<1>1. worker[w] # None /\ worker[w].step \in {"read", "skip", "send"}
  BY DEF DeliveryFails
<1>2. /\ jobs' \in [Keys -> Jobs \cup {None}]
      /\ jobs'[j] # None
      /\ \A k \in Keys \ {j} : jobs'[k] = jobs[k]
      /\ worker' \in [Workers -> Deliveries \cup {None}]
      /\ worker'[w] = None
      /\ \A v \in Workers \ {w} : worker'[v] = worker[v]
  BY <1>1, FailsEffect DEF DeliveryFails
<1>3. WorksOn(w, j)
  BY <1>1, <1>2, HeldJob DEF WorksOn, DeliveryFails, TypeInv, TypeOK, mailVars
<1>4. w \notin MaySend(j)'
  BY <1>2, <1>3, OwnChances
<1>5. accepted'[j] + Chances(j)' <= 1 + mishaps'[j]
  BY <1>1, <1>3, <1>4, GivesUp DEF DeliveryFails, mailVars
<1> QED
  BY <1>1, <1>2, <1>3, <1>5, HeldJob, DeliversEnough DEF Delivers

LEMMA UnheardDelivers ==
    ASSUME TypeInv, DeliveryInv, NEW w \in Workers, Unheard(w)
    PROVE  TypeInv' /\ DeliveryInv' /\ KeepsPlans
<1> PICK j \in Keys : j = worker[w].job
  BY HeldJob DEF Unheard, At
<1>1. worker[w] # None /\ worker[w].step = "send"
  BY DEF Unheard, At
<1>2. /\ jobs' \in [Keys -> Jobs \cup {None}]
      /\ jobs'[j] # None
      /\ \A k \in Keys \ {j} : jobs'[k] = jobs[k]
      /\ worker' \in [Workers -> Deliveries \cup {None}]
      /\ worker'[w] = None
      /\ \A v \in Workers \ {w} : worker'[v] = worker[v]
  BY <1>1, FailsEffect DEF Unheard
<1>3. /\ accepted' \in [Keys -> Nat] /\ mishaps' \in [Keys -> Nat]
      /\ \A k \in Keys : accepted'[k] = IF k = j THEN accepted[j] + 1 ELSE accepted[k]
      /\ \A k \in Keys : mishaps'[k] = IF k = j THEN mishaps[j] + 1 ELSE mishaps[k]
  BY CountEffect DEF Unheard, Accepted, TypeInv, TypeOK
<1>4. WorksOn(w, j)
  BY <1>1, <1>2, <1>3, HeldJob, FaultTyped DEF WorksOn, Unheard, TypeInv
<1>5. w \in MaySend(j) /\ MaySend(j)' \subseteq MaySend(j) \ {w}
  BY <1>1, <1>2, <1>4, OwnChances
<1>6. accepted'[j] + Chances(j)' <= 1 + mishaps'[j]
  <2>1. /\ accepted'[j] = accepted[j] + 1 /\ mishaps'[j] = mishaps[j] + 1
        /\ accepted'[j] \in Nat /\ mishaps'[j] \in Nat
    BY <1>3
  <2> QED
    BY <1>5, <2>1, ChancesStep DEF TypeInv, DeliveryInv
<1> QED
  BY <1>1, <1>2, <1>4, <1>6, HeldJob, DeliversEnough DEF Delivers

LEMMA RecordFailsDelivers ==
    ASSUME TypeInv, DeliveryInv, NEW w \in Workers, RecordFails(w)
    PROVE  TypeInv' /\ DeliveryInv' /\ KeepsPlans
<1> PICK j \in Keys : j = worker[w].job
  BY HeldJob DEF RecordFails, At
<1>1. worker[w] # None /\ worker[w].step = "record"
  BY DEF RecordFails, At
<1>2. /\ jobs' \in [Keys -> Jobs \cup {None}]
      /\ jobs'[j] # None
      /\ \A k \in Keys \ {j} : jobs'[k] = jobs[k]
      /\ worker' \in [Workers -> Deliveries \cup {None}]
      /\ worker'[w] = None
      /\ \A v \in Workers \ {w} : worker'[v] = worker[v]
  BY <1>1, FailsEffect DEF RecordFails
<1>3. /\ mishaps' \in [Keys -> Nat]
      /\ \A k \in Keys : mishaps'[k] = IF k = j THEN mishaps[j] + 1 ELSE mishaps[k]
  BY CountEffect DEF RecordFails, TypeInv, TypeOK
<1>4. WorksOn(w, j)
  BY <1>1, <1>2, <1>3, HeldJob, FaultTyped DEF WorksOn, RecordFails, TypeInv, TypeOK
<1>5. MaySend(j)' \subseteq MaySend(j)
  BY <1>2, <1>4, OwnChances
<1>6. accepted'[j] + Chances(j)' <= 1 + mishaps'[j]
  <2>1. /\ accepted'[j] = accepted[j] /\ mishaps'[j] = mishaps[j] + 1
        /\ accepted'[j] \in Nat /\ mishaps'[j] \in Nat
    BY <1>3, <1>4 DEF WorksOn, RecordFails
  <2> QED
    BY <1>5, <2>1, ChancesStep DEF TypeInv, DeliveryInv
<1> QED
  BY <1>1, <1>2, <1>4, <1>6, HeldJob, DeliversEnough DEF Delivers

LEMMA WorkerLostDelivers ==
    ASSUME TypeInv, DeliveryInv, NEW w \in Workers, WorkerLost(w)
    PROVE  TypeInv' /\ DeliveryInv' /\ KeepsPlans
<1> PICK j \in Keys : j = worker[w].job
  BY HeldJob DEF WorkerLost
<1>1. worker[w] # None /\ jobs[j] # None
  BY HeldJob DEF WorkerLost
<1>2. /\ worker' \in [Workers -> Deliveries \cup {None}]
      /\ worker'[w] = None
      /\ \A v \in Workers \ {w} : worker'[v] = worker[v]
  BY LeaveEffect DEF TypeInv, WorkerLost
<1>3. /\ mishaps' \in [Keys -> Nat]
      /\ \A k \in Keys : mishaps'[k] =
            IF k = j /\ worker[w].step = "record" THEN mishaps[j] + 1 ELSE mishaps[k]
  BY CountEffect DEF WorkerLost, At, TypeInv, TypeOK
<1>4. WorksOn(w, j)
  BY <1>1, <1>2, <1>3, FaultTyped DEF WorksOn, WorkerLost, TypeInv, TypeOK
<1>5. MaySend(j)' \subseteq MaySend(j) /\ w \notin MaySend(j)'
  BY <1>2, <1>4, OwnChances
<1>6. accepted'[j] = accepted[j] /\ accepted'[j] \in Nat /\ mishaps'[j] \in Nat
  BY <1>4 DEF WorksOn, WorkerLost
<1>7. accepted'[j] + Chances(j)' <= 1 + mishaps'[j]
  <2>1. CASE worker[w].step = "record"
    BY <1>3, <1>5, <1>6, <2>1, ChancesStep DEF TypeInv, DeliveryInv
  <2>2. CASE worker[w].step = "finish"
    <3>1. Active(j) = {} <=> Active(j)' = {}
      BY <1>2, <1>4, <2>2, OwnChances
    <3>2. Undecided(j)' => Undecided(j)
      BY <1>4, <3>1, OwnChances DEF Undecided, Reopened, WorkerLost
    <3> QED
      BY <1>3, <1>5, <1>6, <2>2, <3>2, ChancesStep DEF TypeInv, DeliveryInv
  <2>3. CASE worker[w].step \in {"read", "check", "skip", "send"}
    <3>1. mishaps'[j] = mishaps[j]
      BY <1>3, <2>3
    <3> QED
      BY <1>1, <1>4, <1>5, <1>6, <2>3, <3>1, GivesUp
  <2>4. worker[w].step \in {"read", "check", "send", "skip", "record", "finish"}
    BY <1>1, HeldJob DEF Deliveries
  <2> QED
    BY <2>1, <2>2, <2>3, <2>4
<1> QED
  BY <1>1, <1>2, <1>4, <1>7, HeldJob, DeliversEnough DEF Delivers

(* A delivery begins: with the queue's chance, or with none. *)
LEMMA TakeChances ==
    ASSUME TypeInv, DeliveryInv, NEW w \in Workers, NEW j \in Keys, WorksOn(w, j),
           worker[w] = None, HandOut(w, j),
           accepted'[j] = accepted[j], mishaps'[j] = mishaps[j],
           ~Spent(j) /\ jobs[j].outcome # "sent" => Undecided(j)
    PROVE  accepted'[j] + Chances(j)' <= 1 + mishaps'[j]
<1>1. jobs[j] # None
  BY DEF WorksOn
<1>2. /\ jobs'[j] # None
      /\ jobs'[j].state = "running" /\ jobs'[j].outcome = jobs[j].outcome
      /\ worker'[w] # None
      /\ worker'[w].step = IF jobs[j].outcome = "sent" THEN "finish" ELSE "read"
  BY <1>1, HandOutEffect DEF TypeInv
<1>3. ~Undecided(j)'
  BY <1>2, OwnChances DEF Undecided, Reopened
<1>4. accepted'[j] \in Nat /\ mishaps'[j] \in Nat
  BY DEF WorksOn
<1>5. MaySend(j)' \subseteq MaySend(j) \cup {w}
  BY OwnChances
<1>6. CASE ~Spent(j) /\ jobs[j].outcome # "sent"
  BY <1>3, <1>4, <1>5, <1>6, ChancesStep DEF TypeInv, DeliveryInv
<1>7. CASE Spent(j) \/ jobs[j].outcome = "sent"
  <2>1. w \notin MaySend(j)'
    BY <1>2, <1>7, OwnChances
  <2>2. MaySend(j)' \subseteq MaySend(j)
    BY <1>5, <2>1
  <2> QED
    BY <1>3, <1>4, <2>2, ChancesStep DEF TypeInv, DeliveryInv
<1> QED
  BY <1>6, <1>7

LEMMA TakeDelivers ==
    ASSUME TypeInv, DeliveryInv, NEW w \in Workers, NEW j \in Keys, Take(w, j)
    PROVE  TypeInv' /\ DeliveryInv' /\ KeepsPlans
<1>1. worker[w] = None /\ jobs[j] # None /\ HandOut(w, j) /\ Started(j)
  BY DEF Take, Started
<1>2. WorksOn(w, j)
  BY <1>1, HandOutEffect DEF WorksOn, Take, TypeInv, TypeOK, mailVars
<1>3. ~Spent(j) /\ jobs[j].outcome # "sent" => Undecided(j)
  BY DEF Take, Undecided, Reopened
<1>4. accepted'[j] + Chances(j)' <= 1 + mishaps'[j]
  BY <1>1, <1>2, <1>3, TakeChances DEF Take, mailVars
<1>5. Decided(w)'
  BY <1>1, HandOutEffect DEF TypeInv, Decided
<1> QED
  BY <1>1, <1>2, <1>4, <1>5, DeliversEnough DEF Delivers

LEMMA TakeOverDelivers ==
    ASSUME TypeInv, DeliveryInv, NEW w \in Workers, NEW j \in Keys, TakeOver(w, j)
    PROVE  TypeInv' /\ DeliveryInv' /\ KeepsPlans
<1>1. worker[w] = None /\ jobs[j] # None /\ HandOut(w, j) /\ jobs[j].state = "running"
  BY DEF TakeOver
<1>2. Started(j)
  BY <1>1 DEF DeliveryInv, RunningJobsAreDue
<1>3. Decided(w)'
  BY <1>1, HandOutEffect DEF TypeInv, Decided
<1>4. CASE Holders(j) = {}
  <2>1. mishaps' = mishaps /\ faults' = faults /\ accepted' = accepted
    BY <1>4 DEF TakeOver
  <2>2. WorksOn(w, j)
    BY <1>1, <2>1, HandOutEffect DEF WorksOn, TakeOver, TypeInv, TypeOK
  <2>3. ~Spent(j) /\ jobs[j].outcome # "sent" => Undecided(j)
    BY <1>1, <1>4 DEF Undecided, Reopened, Active
  <2>4. accepted'[j] + Chances(j)' <= 1 + mishaps'[j]
    BY <1>1, <2>1, <2>2, <2>3, TakeChances
  <2> QED
    BY <1>2, <1>3, <2>2, <2>4, DeliversEnough DEF Delivers
<1>5. CASE Holders(j) # {}
  <2>1. Fault /\ mishaps' = [mishaps EXCEPT ![j] = @ + 1] /\ accepted' = accepted
    BY <1>5 DEF TakeOver
  <2>2. /\ mishaps' \in [Keys -> Nat]
        /\ \A k \in Keys : mishaps'[k] = IF k = j THEN mishaps[j] + 1 ELSE mishaps[k]
    BY <2>1, CountEffect DEF TypeInv, TypeOK
  <2>3. WorksOn(w, j)
    BY <1>1, <2>1, <2>2, HandOutEffect, FaultTyped DEF WorksOn, TakeOver, TypeInv, TypeOK
  <2>4. ~Undecided(j)'
    BY <1>1, <2>3, OwnChances, HandOutEffect DEF Undecided, Reopened, TypeInv
  <2>5. MaySend(j)' \subseteq MaySend(j) \cup {w}
    BY <2>3, OwnChances
  <2>6. accepted'[j] + Chances(j)' <= 1 + mishaps'[j]
    <3>1. /\ accepted'[j] = accepted[j] /\ mishaps'[j] = mishaps[j] + 1
          /\ accepted'[j] \in Nat /\ mishaps'[j] \in Nat
      BY <2>1, <2>2, <2>3 DEF WorksOn
    <3> QED
      BY <2>4, <2>5, <3>1, ChancesStep DEF TypeInv, DeliveryInv
  <2> QED
    BY <1>2, <1>3, <2>3, <2>6, DeliversEnough DEF Delivers
<1> QED
  BY <1>4, <1>5

(* Steps of anyone else: time passes, jobs are added, spent jobs expire.   *)
LEMMA OthersDeliver ==
    ASSUME TypeInv, DeliveryInv, UNCHANGED <<worker, mailVars>>,
           now' \in Nat, now <= now',
           \A j \in Keys : jobs'[j] # None =>
               jobs'[j] = jobs[j] \/ (jobs[j] = None /\ jobs'[j] = NewJob),
           \A j \in Keys : jobs'[j] = None => jobs[j] = None \/ Spent(j)
    PROVE  DeliveryInv'
<1>1. \A j \in Keys : (Started(j) => Started(j)') /\ (Spent(j) => Spent(j)')
  BY KeysTyped, ConstantsTyped DEF Started, Spent, TypeInv, TypeOK, Times
<1>2. RunningJobsAreDue'
  BY <1>1 DEF RunningJobsAreDue, DeliveryInv, NewJob, TypeInv, TypeOK, Deliveries
<1>3. DecisionsHold'
  <2> SUFFICES ASSUME NEW w \in Workers, worker[w] # None
               PROVE  Decided(w)'
    BY DEF DecisionsHold, Decided
  <2>1. worker[w].job \in Keys /\ Decided(w)
    BY HeldJob
  <2>2. Late(worker[w].job) => Late(worker[w].job)'
    BY <1>1, <2>1, KeysTyped DEF Late, TypeInv, TypeOK, Times
  <2> QED
    BY <2>1, <2>2 DEF Decided
<1>4. ChancesCounted'
  <2> SUFFICES ASSUME NEW j \in Keys
               PROVE  accepted'[j] + Chances(j)' <= 1 + mishaps'[j]
    BY DEF ChancesCounted
  <2>1. MaySend(j)' \subseteq MaySend(j)
    BY <1>1 DEF MaySend
  <2>2. Undecided(j)' => Undecided(j)
    BY <1>1 DEF Undecided, Reopened, Active, Holders
  <2>3. /\ accepted'[j] = accepted[j] /\ mishaps'[j] = mishaps[j]
        /\ accepted'[j] \in Nat /\ mishaps'[j] \in Nat
    BY DEF mailVars, TypeInv, TypeOK
  <2>4. accepted[j] + Chances(j)' <= accepted[j] + Chances(j)
    <3>1. PICK S \in SUBSET Workers, T \in SUBSET Workers : S = MaySend(j) /\ T = MaySend(j)'
      BY DEF MaySend
    <3>2. IsFiniteSet(S) /\ Cardinality(T) \in Nat /\ Cardinality(S) \in Nat
          /\ Cardinality(T) <= Cardinality(S)
      BY <2>1, <3>1, ConstantsTyped, FS_Subset, FS_CardinalityType
    <3> QED
      BY <2>2, <2>3, <3>1, <3>2 DEF Chances
  <2>5. accepted[j] + Chances(j) <= 1 + mishaps[j]
    BY DEF DeliveryInv, ChancesCounted
  <2>6. Chances(j) \in Nat /\ Chances(j)' \in Nat
    <3>1. MaySend(j) \in SUBSET Workers /\ MaySend(j)' \in SUBSET Workers
      BY DEF MaySend
    <3>2. Cardinality(MaySend(j)) \in Nat /\ Cardinality(MaySend(j)') \in Nat
      BY <3>1, ConstantsTyped, FS_Subset, FS_CardinalityType
    <3> QED
      BY <3>2 DEF Chances
  <2> QED
    BY <2>3, <2>4, <2>5, <2>6
<1> QED
  BY <1>2, <1>3, <1>4 DEF DeliveryInv

LEMMA ExpireTyped ==
    ASSUME TypeInv, NEW j \in Keys, Expire(j)
    PROVE  /\ TypeInv'
           /\ \A k \in Keys : jobs'[k] = IF k = j THEN None ELSE jobs[k]
           /\ Spent(j)
<1>1. \A k \in Keys : jobs'[k] = IF k = j THEN None ELSE jobs[k]
  BY DEF Expire, TypeInv, TypeOK
<1>2. TypeOK'
  BY DEF Expire, TypeInv, TypeOK, eventVars, mailVars
<1>3. HeldJobsExist'
  BY <1>1 DEF Expire, TypeInv, TypeOK, HeldJobsExist, Holders, Deliveries
<1>4. Spent(j)
  BY KeysTyped, ConstantsTyped DEF Expire, ExpiresAt, Spent, TypeInv, TypeOK, Times
<1> QED
  BY <1>1, <1>2, <1>3, <1>4 DEF TypeInv

-----------------------------------------------------------------------------
(* The planner *)

PlanInv == PassesBehind /\ PassesCover /\ PlanningLeavesNoGap

LEMMA PassTyped ==
    ASSUME TypeOK, NEW p \in Planners, plan[p] # None
    PROVE  /\ plan[p].time \in Nat
           /\ \A i \in DOMAIN plan[p].read :
                 plan[p].read[i].event \in Events /\ plan[p].read[i].doc \in Documents
           /\ 1 \in DOMAIN plan[p].read
           /\ Head(plan[p].read) = plan[p].read[1]
           /\ PlanReminders(Head(plan[p].read).doc, plan[p].time) \subseteq Keys
<1>1. /\ plan[p].read \in Seq([event : Events, doc : Documents]) \ {<<>>}
      /\ plan[p].time \in Times
  BY DEF TypeOK, Passes
<1>2. plan[p].time \in Nat
  BY <1>1, ConstantsTyped DEF Times
<1>3. PICK read \in Seq([event : Events, doc : Documents]) :
          read = plan[p].read /\ read # <<>>
  BY <1>1
<1>4. \A i \in DOMAIN read :
          read[i].event \in Events /\ read[i].doc \in Documents
  <2> DEFINE Entries == [event : Events, doc : Documents]
  <2>1. read \in Seq(Entries)
    BY <1>3
  <2> HIDE DEF Entries
  <2>2. \A i \in DOMAIN read : read[i] \in Entries
    BY <2>1, ElementOfSeq
  <2> QED
    BY <2>2 DEF Entries
<1>5. 1 \in DOMAIN read /\ Head(read) = read[1]
  BY <1>3, EmptySeq
<1>6. Head(read).doc \in Documents
  BY <1>4, <1>5
<1> QED
  BY <1>2, <1>3, <1>4, <1>5, <1>6, PlannedTyped

(* Steps that leave events and passes alone: a job goes only when it is    *)
(* too old to be planned again.                                            *)
LEMMA OthersKeepPlans ==
    ASSUME TypeInv, PlanInv, UNCHANGED <<eventVars, plan>>,
           \A j \in Keys : Covered(j) => Covered(j)'
    PROVE  PlanInv'
<1>1. PassesBehind'
  BY DEF PlanInv, PassesBehind, Behind, Exists, eventVars
<1>2. PassesCover'
  <2> SUFFICES ASSUME NEW p \in Planners, plan[p] # None,
                      NEW j \in PlanReminders(Head(plan[p].read).doc, plan[p].time)
               PROVE  j \in plan[p].todo \/ Covered(j)'
    BY DEF PassesCover, PlanReminders
  <2>1. j \in Keys
    BY PassTyped DEF TypeInv
  <2> QED
    BY <2>1 DEF PlanInv, PassesCover
<1>3. PlanningLeavesNoGap'
  <2> SUFFICES ASSUME NEW e \in Events, Exists(e), ~pending[e], plannedAt[e] # None,
                      NEW j \in events[e].reminders,
                      DueAt(j) >= events[e].created, DueAt(j) >= plannedAt[e] - Grace,
                      DueAt(j) <= nextPlan[e], j.lead # 0 => j.start > plannedAt[e]
               PROVE  Covered(j)'
    BY DEF PlanningLeavesNoGap, Covered, Exists, eventVars, DueAt, ExpiresAt
  <2>1. j \in Keys
    BY DEF TypeInv, TypeOK, Exists, Documents, Keys
  <2> QED
    BY <2>1 DEF PlanInv, PlanningLeavesNoGap, Covered
<1> QED
  BY <1>1, <1>2, <1>3 DEF PlanInv

LEMMA ApiKeepsPlans ==
    ASSUME TypeInv, PlanInv, Api
    PROVE  PlanInv'
<1>1. UNCHANGED <<now, plan, jobs, nextPlan, plannedAt>> \/ \E e \in Events : DeleteEvent(e)
  BY DEF Api, CreateEvent, EditEvent
<1>2. UNCHANGED <<now, plan, jobs>>
  BY <1>1 DEF DeleteEvent
<1>3. PassesCover'
  BY <1>2 DEF PlanInv, PassesCover, Covered
<1>4. CASE \E e \in Events, s \in Schedules : CreateEvent(e, s)
  <2> PICK e \in Events, s \in Schedules : CreateEvent(e, s)
    BY <1>4
  <2>1. /\ events[e] = None /\ pending'[e] = TRUE
        /\ \A f \in Events \ {e} : events'[f] = events[f] /\ pending'[f] = pending[f]
        /\ nextPlan' = nextPlan /\ plannedAt' = plannedAt
    BY DEF CreateEvent, TypeInv, TypeOK
  <2>2. PassesBehind'
    <3> SUFFICES ASSUME NEW p \in Planners, plan[p] # None, NEW i \in DOMAIN plan[p].read
                 PROVE  Behind(plan[p].read[i])'
      BY <1>2 DEF PassesBehind
    <3>1. Behind(plan[p].read[i]) /\ plan[p].read[i].event \in Events
      BY PassTyped DEF PlanInv, PassesBehind, TypeInv
    <3> QED
      BY <1>2, <2>1, <3>1 DEF Behind, Exists
  <2>3. PlanningLeavesNoGap'
    BY <1>2, <2>1 DEF PlanInv, PlanningLeavesNoGap, Exists
  <2> QED
    BY <1>3, <2>2, <2>3 DEF PlanInv
<1>5. CASE \E e \in Events, s \in Schedules, changed \in BOOLEAN : EditEvent(e, s, changed)
  <2> PICK e \in Events, s \in Schedules, changed \in BOOLEAN : EditEvent(e, s, changed)
    BY <1>5
  <2>1. events[e] \in Documents /\ Exists(e)
    BY DEF EditEvent, Exists, TypeInv, TypeOK
  <2>2. /\ events'[e] = [rev |-> events[e].rev + 1, reminders |-> s,
                         created |-> events[e].created]
        /\ \A f \in Events \ {e} : events'[f] = events[f] /\ pending'[f] = pending[f]
        /\ nextPlan' = nextPlan /\ plannedAt' = plannedAt
    BY DEF EditEvent, TypeInv, TypeOK
  <2>3. ~pending'[e] => ~pending[e] /\ s = events[e].reminders
    BY DEF EditEvent, TypeInv, TypeOK
  <2>4. events'[e] \in Documents
    BY <2>1, <2>2, ConstantsTyped DEF Documents, EditEvent
  <2>5. PassesBehind'
    <3> SUFFICES ASSUME NEW p \in Planners, plan[p] # None, NEW i \in DOMAIN plan[p].read
                 PROVE  Behind(plan[p].read[i])'
      BY <1>2 DEF PassesBehind
    <3>1. /\ Behind(plan[p].read[i]) /\ plan[p].read[i].event \in Events
          /\ plan[p].read[i].doc \in Documents
      BY PassTyped DEF PlanInv, PassesBehind, TypeInv
    <3>2. events'[e] # None
      BY <2>4, MarkersAreNoData
    <3>3. CASE plan[p].read[i].event = e
      <4>1. /\ plan[p].read[i].doc.rev <= events[e].rev
            /\ plan[p].read[i].doc.rev \in Nat /\ events[e].rev \in Nat
        BY <2>1, <3>1, <3>3, ConstantsTyped DEF Behind, Documents
      <4>2. /\ plan[p].read[i].doc.rev <= events'[e].rev
            /\ plan[p].read[i].doc.rev # events'[e].rev
        BY <2>2, <4>1
      <4> QED
        BY <1>2, <3>2, <3>3, <4>2 DEF Behind
    <3>4. CASE plan[p].read[i].event # e
      <4>1. events'[plan[p].read[i].event] = events[plan[p].read[i].event]
        BY <2>2, <3>1, <3>4
      <4> QED
        BY <1>2, <3>1, <4>1 DEF Behind, Exists
    <3> QED
      BY <3>3, <3>4
  <2>6. PlanningLeavesNoGap'
    <3>1. \A f \in Events : Exists(f)' => Exists(f)
      BY <2>1, <2>2 DEF Exists
    <3>2. \A f \in Events : ~pending'[f] =>
              /\ ~pending[f]
              /\ events'[f].reminders = events[f].reminders
              /\ events'[f].created = events[f].created
      BY <2>2, <2>3
    <3> QED
      BY <1>2, <2>2, <3>1, <3>2 DEF PlanInv, PlanningLeavesNoGap
  <2> QED
    BY <1>3, <2>5, <2>6 DEF PlanInv
<1>6. CASE \E e \in Events : DeleteEvent(e)
  <2> PICK e \in Events : DeleteEvent(e)
    BY <1>6
  <2>1. /\ events'[e] = Deleted
        /\ \A f \in Events \ {e} : /\ events'[f] = events[f] /\ pending'[f] = pending[f]
                                   /\ nextPlan'[f] = nextPlan[f]
                                   /\ plannedAt'[f] = plannedAt[f]
    BY DEF DeleteEvent, TypeInv, TypeOK
  <2>2. PassesBehind'
    <3> SUFFICES ASSUME NEW p \in Planners, plan[p] # None, NEW i \in DOMAIN plan[p].read
                 PROVE  Behind(plan[p].read[i])'
      BY <1>2 DEF PassesBehind
    <3>1. Behind(plan[p].read[i]) /\ plan[p].read[i].event \in Events
      BY PassTyped DEF PlanInv, PassesBehind, TypeInv
    <3> QED
      BY <1>2, <2>1, <3>1, MarkersAreNoData DEF Behind, Exists
  <2>3. PlanningLeavesNoGap'
    BY <1>2, <2>1 DEF PlanInv, PlanningLeavesNoGap, Exists
  <2> QED
    BY <1>3, <2>2, <2>3 DEF PlanInv
<1> QED
  BY <1>4, <1>5, <1>6 DEF Api, SchedulesOf

LEMMA BeginKeepsPlans ==
    ASSUME TypeInv, PlanInv, NEW p \in Planners, BeginPass(p)
    PROVE  PlanInv'
<1>1. UNCHANGED <<now, eventVars, jobs>>
  BY DEF BeginPass
<1>2. PassesBehind'
  <2> SUFFICES ASSUME NEW q \in Planners, plan'[q] # None, NEW i \in DOMAIN plan'[q].read
               PROVE  Behind(plan'[q].read[i])
    BY <1>1 DEF PassesBehind, Behind, Exists, eventVars
  <2>1. CASE q = p
    <3>1. Exists(plan'[p].read[i].event) /\
          plan'[p].read[i].doc = events[plan'[p].read[i].event]
      BY <2>1, BeginTyped DEF TypeInv
    <3>2. plan'[p].read[i].doc \in Documents
      BY <2>1, <3>1, BeginTyped DEF TypeInv, TypeOK, Exists
    <3> QED
      BY <2>1, <3>1, <3>2, ConstantsTyped DEF Behind, Exists, Documents
  <2>2. CASE q # p
    BY <2>2, BeginTyped DEF PassesBehind, PlanInv, TypeInv
  <2> QED
    BY <2>1, <2>2
<1>3. PassesCover'
  BY <1>1, BeginTyped DEF PassesCover, Covered, PlanInv, TypeInv
<1>4. PlanningLeavesNoGap'
  BY <1>1 DEF PlanningLeavesNoGap, PlanInv, Exists, eventVars
<1> QED
  BY <1>2, <1>3, <1>4 DEF PlanInv

LEMMA SaveKeepsPlans ==
    ASSUME TypeInv, PlanInv, NEW p \in Planners, NEW j \in Keys, SaveJob(p, j)
    PROVE  PlanInv'
<1>1. UNCHANGED <<now, eventVars>> /\ \A q \in Planners \ {p} : plan'[q] = plan[q]
  BY DEF SaveJob, TypeInv, TypeOK
<1>2. /\ plan'[p].time = plan[p].time /\ plan'[p].read = plan[p].read
      /\ plan'[p].todo = plan[p].todo \ {j}
      /\ plan[p] # None
  BY SaveTyped DEF SaveJob
<1>3. NewJob # None
  BY MarkersAreNoData DEF NewJob, Jobs
<1>4. (\A k \in Keys : Covered(k) => Covered(k)') /\ Covered(j)'
  BY <1>1, <1>3, SaveTyped DEF Covered, ExpiresAt, DueAt
<1>5. PassesBehind'
  BY <1>1, <1>2 DEF PassesBehind, Behind, Exists, PlanInv, eventVars
<1>6. PassesCover'
  <2> SUFFICES ASSUME NEW q \in Planners, plan[q] # None,
                      NEW k \in PlanReminders(Head(plan[q].read).doc, plan[q].time)
               PROVE  k \in plan'[q].todo \/ Covered(k)'
    BY <1>1, <1>2 DEF PassesCover, PlanReminders
  <2>1. k \in Keys /\ (k \in plan[q].todo \/ Covered(k))
    BY PassTyped DEF TypeInv, PlanInv, PassesCover
  <2> QED
    BY <1>1, <1>2, <1>4, <2>1
<1>7. PlanningLeavesNoGap'
  <2> SUFFICES ASSUME NEW e \in Events, Exists(e), ~pending[e], plannedAt[e] # None,
                      NEW k \in events[e].reminders,
                      DueAt(k) >= events[e].created, DueAt(k) >= plannedAt[e] - Grace,
                      DueAt(k) <= nextPlan[e], k.lead # 0 => k.start > plannedAt[e]
               PROVE  Covered(k)'
    BY <1>1 DEF PlanningLeavesNoGap, Covered, Exists, eventVars
  <2>1. k \in Keys
    BY DEF TypeInv, TypeOK, Exists, Documents, Keys
  <2> QED
    BY <1>4, <2>1 DEF PlanInv, PlanningLeavesNoGap, Covered
<1> QED
  BY <1>5, <1>6, <1>7 DEF PlanInv

(* The next document of a pass, or its end. *)
LEMMA AdvanceKeepsPasses ==
    ASSUME TypeOK, PassesBehind, PassesCover, UNCHANGED <<now, events, jobs>>,
           NEW p \in Planners, plan[p] # None, Advance(p)
    PROVE  PassesBehind' /\ PassesCover'
<1>1. PassesBehind'
  <2> SUFFICES ASSUME NEW q \in Planners, plan'[q] # None, NEW i \in DOMAIN plan'[q].read
               PROVE  Behind(plan'[q].read[i])
    BY DEF PassesBehind, Behind, Exists
  <2>1. CASE q = p
    BY <2>1, AdvanceTyped DEF PassesBehind
  <2>2. CASE q # p
    BY <2>2, AdvanceTyped DEF PassesBehind
  <2> QED
    BY <2>1, <2>2
<1>2. PassesCover'
  BY AdvanceTyped DEF PassesCover, Covered
<1> QED
  BY <1>1, <1>2

LEMMA FinishKeepsPlans ==
    ASSUME TypeInv, PlanInv, NEW p \in Planners, FinishEvent(p)
    PROVE  PlanInv'
<1>1. plan[p] # None /\ plan[p].todo = {} /\ UNCHANGED <<now, events, jobs>>
  BY DEF FinishEvent
<1>2. PassesBehind' /\ PassesCover'
  BY <1>1, AdvanceKeepsPasses DEF FinishEvent, TypeInv, PlanInv
<1>3. PlanningLeavesNoGap'
  <2> DEFINE e == Head(plan[p].read).event
             doc == Head(plan[p].read).doc
             time == plan[p].time
  <2>1. e \in Events /\ time \in Nat /\ Behind(Head(plan[p].read))
    BY <1>1, PassTyped DEF TypeInv, PlanInv, PassesBehind
  <2>2. CASE Exists(e) /\ events[e].rev = doc.rev
    <3>1. doc = events[e]
      BY <2>1, <2>2 DEF Behind
    <3>2. /\ plannedAt'[e] = time /\ nextPlan'[e] = time + Refresh
          /\ \A f \in Events \ {e} : /\ pending'[f] = pending[f]
                                     /\ nextPlan'[f] = nextPlan[f]
                                     /\ plannedAt'[f] = plannedAt[f]
      BY <2>1, <2>2 DEF FinishEvent, Acknowledge, NextPlan, TypeInv, TypeOK
    <3>3. \A j \in PlanReminders(events[e], time) : Covered(j)
      BY <1>1, <3>1 DEF PlanInv, PassesCover
    <3>4. \A j \in events[e].reminders :
              /\ DueAt(j) >= events[e].created
              /\ DueAt(j) >= time - Grace
              /\ DueAt(j) <= time + Refresh
              /\ j.lead # 0 => j.start > time
              => Covered(j)
      <4> SUFFICES ASSUME NEW j \in events[e].reminders,
                          DueAt(j) >= events[e].created, DueAt(j) >= time - Grace,
                          DueAt(j) <= time + Refresh, j.lead # 0 => j.start > time
                   PROVE  Covered(j)
        OBVIOUS
      <4>1. j \in Keys
        BY <2>1, <2>2 DEF TypeInv, TypeOK, Exists, Documents, Keys
      <4>2. DueAt(j) <= time + Window
        BY <2>1, <4>1, KeysTyped, ConstantsTyped
      <4> QED
        BY <3>3, <4>2 DEF PlanReminders
    <3> HIDE DEF e, doc, time
    <3>5. \A f \in Events : events'[f] = events[f] /\ (Exists(f)' <=> Exists(f))
      BY <1>1 DEF Exists
    <3> SUFFICES ASSUME NEW f \in Events, Exists(f), ~pending'[f], plannedAt'[f] # None,
                        NEW j \in events[f].reminders,
                        DueAt(j) >= events[f].created, DueAt(j) >= plannedAt'[f] - Grace,
                        DueAt(j) <= nextPlan'[f], j.lead # 0 => j.start > plannedAt'[f]
                 PROVE  Covered(j)
      BY <1>1, <3>5 DEF PlanningLeavesNoGap, Covered
    <3>6. CASE f = e
      BY <3>2, <3>4, <3>6
    <3>7. CASE f # e
      BY <3>2, <3>7 DEF PlanInv, PlanningLeavesNoGap, Covered
    <3> QED
      BY <3>6, <3>7
  <2>3. CASE ~(Exists(e) /\ events[e].rev = doc.rev)
    <3>1. UNCHANGED <<pending, nextPlan, plannedAt>>
      BY <2>3 DEF FinishEvent, Acknowledge
    <3> QED
      BY <1>1, <3>1 DEF PlanInv, PlanningLeavesNoGap, Exists
  <2> QED
    BY <2>2, <2>3
<1> QED
  BY <1>2, <1>3 DEF PlanInv

LEMMA FailureKeepsPlans ==
    ASSUME TypeInv, PlanInv, NEW p \in Planners, PlanningFails(p)
    PROVE  PlanInv'
<1>1. plan[p] # None /\ UNCHANGED <<now, events, jobs>>
  BY DEF PlanningFails
<1>2. PassesBehind' /\ PassesCover'
  BY <1>1, AdvanceKeepsPasses DEF PlanningFails, TypeInv, PlanInv
<1>3. \A f \in Events : plannedAt'[f] # None =>
          /\ pending'[f] = pending[f] /\ nextPlan'[f] = nextPlan[f]
          /\ plannedAt'[f] = plannedAt[f]
  <2>1. Head(plan[p].read).event \in Events
    BY <1>1, PassTyped DEF TypeInv
  <2> QED
    BY <2>1 DEF PlanningFails, Acknowledge, TypeInv, TypeOK
<1>4. PlanningLeavesNoGap'
  BY <1>1, <1>3 DEF PlanInv, PlanningLeavesNoGap, Exists
<1> QED
  BY <1>2, <1>4 DEF PlanInv

LEMMA LossKeepsPlans ==
    ASSUME TypeInv, PlanInv, NEW p \in Planners, PassLost(p)
    PROVE  PlanInv'
<1>1. UNCHANGED <<now, eventVars, jobs>>
  BY DEF PassLost
<1>2. plan'[p] = None /\ \A q \in Planners \ {p} : plan'[q] = plan[q]
  BY DEF PassLost, TypeInv, TypeOK
<1>3. PassesBehind'
  BY <1>1, <1>2 DEF PlanInv, PassesBehind, Behind, Exists, eventVars
<1>4. PassesCover'
  BY <1>1, <1>2 DEF PlanInv, PassesCover, Covered
<1>5. PlanningLeavesNoGap'
  BY <1>1 DEF PlanInv, PlanningLeavesNoGap, Exists, eventVars
<1> QED
  BY <1>3, <1>4, <1>5 DEF PlanInv

-----------------------------------------------------------------------------
(* The invariant *)

LEMMA Parts == IInv <=> TypeInv /\ DeliveryInv /\ PlanInv
BY DEF IInv, TypeInv, DeliveryInv, PlanInv

LEMMA InitIInv == Init => IInv
<1> SUFFICES ASSUME Init PROVE IInv
  OBVIOUS
<1>1. TypeOK
  BY ConstantsTyped DEF Init, TypeOK, Times
<1>2. HeldJobsExist /\ RunningJobsAreDue /\ DecisionsHold
  BY DEF Init, HeldJobsExist, RunningJobsAreDue, DecisionsHold
<1>3. ChancesCounted
  <2> SUFFICES ASSUME NEW j \in Keys PROVE accepted[j] + Chances(j) <= 1 + mishaps[j]
    BY DEF ChancesCounted
  <2>1. MaySend(j) = {}
    BY DEF Init, MaySend
  <2> QED
    BY <2>1, FS_EmptySet DEF Chances, Init
<1>4. PassesBehind /\ PassesCover /\ PlanningLeavesNoGap
  BY DEF Init, PassesBehind, PassesCover, PlanningLeavesNoGap, Exists
<1> QED
  BY <1>1, <1>2, <1>3, <1>4 DEF IInv

(* Steps of a worker, as the planner and its own invariant see them.       *)
LEMMA WorkersStep ==
    ASSUME TypeInv, DeliveryInv, PlanInv,
           \E w \in Workers :
              \/ WorkerStep(w)
              \/ \E j \in Keys : Take(w, j) \/ TakeOver(w, j)
              \/ \E retryable \in BOOLEAN : DeliveryFails(w, retryable)
              \/ Unheard(w) \/ RecordFails(w) \/ WorkerLost(w)
    PROVE  TypeInv' /\ DeliveryInv' /\ PlanInv'
<1> PICK w \in Workers :
              \/ WorkerStep(w)
              \/ \E j \in Keys : Take(w, j) \/ TakeOver(w, j)
              \/ \E retryable \in BOOLEAN : DeliveryFails(w, retryable)
              \/ Unheard(w) \/ RecordFails(w) \/ WorkerLost(w)
  OBVIOUS
<1>1. TypeInv' /\ DeliveryInv' /\ KeepsPlans
  <2>1. CASE WorkerStep(w)
    BY <2>1, ReadDelivers, CheckDelivers, SendDelivers, SkipDelivers, RecordDelivers,
       FinishDelivers DEF WorkerStep
  <2>2. CASE \E j \in Keys : Take(w, j) \/ TakeOver(w, j)
    BY <2>2, TakeDelivers, TakeOverDelivers
  <2>3. CASE \E retryable \in BOOLEAN : DeliveryFails(w, retryable)
    BY <2>3, DeliveryFailsDelivers
  <2>4. CASE Unheard(w) \/ RecordFails(w) \/ WorkerLost(w)
    BY <2>4, UnheardDelivers, RecordFailsDelivers, WorkerLostDelivers
  <2> QED
    BY <2>1, <2>2, <2>3, <2>4
<1>2. \A j \in Keys : Covered(j) => Covered(j)'
  BY <1>1 DEF KeepsPlans, Covered, ExpiresAt, DueAt
<1> QED
  BY <1>1, <1>2, OthersKeepPlans DEF KeepsPlans

LEMMA TickStep ==
    ASSUME TypeInv, DeliveryInv, PlanInv, Tick
    PROVE  TypeInv' /\ DeliveryInv' /\ PlanInv'
<1>1. now \in Nat /\ now' = now + 1
  BY ConstantsTyped DEF Tick, TypeInv, TypeOK, Times
<1>2. \A j \in Keys : Covered(j) => Covered(j)'
  BY <1>1, KeysTyped, ConstantsTyped DEF Tick, Covered, ExpiresAt, DueAt
<1>3. DeliveryInv'
  BY <1>1, OthersDeliver DEF Tick
<1>4. PlanInv'
  BY <1>2, OthersKeepPlans DEF Tick
<1> QED
  BY <1>3, <1>4, TickTyped

LEMMA ExpireStep ==
    ASSUME TypeInv, DeliveryInv, PlanInv, NEW j \in Keys, Expire(j)
    PROVE  TypeInv' /\ DeliveryInv' /\ PlanInv'
<1>1. now \in Nat /\ now' = now /\ now >= ExpiresAt(j)
  BY ConstantsTyped DEF Expire, TypeInv, TypeOK, Times
<1>2. \A k \in Keys : Covered(k) => Covered(k)'
  BY <1>1, ExpireTyped DEF Covered, ExpiresAt, DueAt
<1>3. DeliveryInv'
  <2>1. \A k \in Keys : /\ jobs'[k] # None => jobs'[k] = jobs[k]
                        /\ jobs'[k] = None => jobs[k] = None \/ Spent(k)
    BY ExpireTyped
  <2>2. now <= now'
    BY <1>1
  <2> QED
    BY <1>1, <2>1, <2>2, OthersDeliver DEF Expire
<1>4. PlanInv'
  BY <1>2, OthersKeepPlans DEF Expire
<1> QED
  BY <1>3, <1>4, ExpireTyped

(* Steps of the planner and of clients touch no delivery. *)
LEMMA PlannersStep ==
    ASSUME TypeInv, DeliveryInv, PlanInv,
           \/ Api
           \/ \E p \in Planners : PlannerStep(p) \/ PlanningFails(p) \/ PassLost(p)
    PROVE  TypeInv' /\ DeliveryInv' /\ PlanInv'
<1>1. now \in Nat
  BY ConstantsTyped DEF TypeInv, TypeOK, Times
<1>2. CASE Api
  <2>1. UNCHANGED <<now, jobs, worker, mailVars>>
    BY <1>2 DEF Api, CreateEvent, EditEvent, DeleteEvent
  <2>2. DeliveryInv'
    BY <1>1, <2>1, OthersDeliver
  <2> QED
    BY <1>2, <2>2, ApiTyped, ApiKeepsPlans
<1>3. CASE \E p \in Planners : BeginPass(p) \/ FinishEvent(p) \/ PlanningFails(p) \/ PassLost(p)
  <2> PICK p \in Planners : BeginPass(p) \/ FinishEvent(p) \/ PlanningFails(p) \/ PassLost(p)
    BY <1>3
  <2>1. UNCHANGED <<now, jobs, worker, mailVars>>
    BY DEF BeginPass, FinishEvent, PlanningFails, PassLost
  <2>2. DeliveryInv'
    BY <1>1, <2>1, OthersDeliver
  <2>3. PlanInv'
    BY BeginKeepsPlans, FinishKeepsPlans, FailureKeepsPlans, LossKeepsPlans
  <2> QED
    BY <2>2, <2>3, PlannerTyped
<1>4. CASE \E p \in Planners, j \in Keys : SaveJob(p, j)
  <2> PICK p \in Planners, j \in Keys : SaveJob(p, j)
    BY <1>4
  <2>1. UNCHANGED <<now, worker, mailVars>>
    BY DEF SaveJob
  <2>2. NewJob # None
    BY MarkersAreNoData DEF NewJob, Jobs
  <2>3. \A k \in Keys : \/ jobs'[k] = jobs[k]
                        \/ jobs[k] = None /\ jobs'[k] = NewJob
    BY SaveTyped
  <2>4. DeliveryInv'
    BY <1>1, <2>1, <2>2, <2>3, OthersDeliver
  <2> QED
    BY <2>4, SaveTyped, SaveKeepsPlans
<1> QED
  BY <1>2, <1>3, <1>4 DEF PlannerStep

LEMMA StepIInv == IInv /\ [Next]_vars => IInv'
<1> SUFFICES ASSUME IInv, [Next]_vars PROVE IInv'
  OBVIOUS
<1>1. TypeInv /\ DeliveryInv /\ PlanInv
  BY Parts
<1>2. CASE UNCHANGED vars
  <2>1. now \in Nat
    BY <1>1, ConstantsTyped DEF TypeInv, TypeOK, Times
  <2>2. TypeInv'
    BY <1>1, <1>2 DEF vars, eventVars, mailVars, TypeInv, TypeOK, HeldJobsExist
  <2>3. DeliveryInv'
    BY <1>1, <1>2, <2>1, OthersDeliver DEF vars
  <2>4. PlanInv'
    BY <1>1, <1>2, OthersKeepPlans DEF vars, Covered, ExpiresAt, DueAt
  <2> QED
    BY <2>2, <2>3, <2>4 DEF IInv, TypeInv, DeliveryInv, PlanInv
<1>3. CASE Next
  <2>1. TypeInv' /\ DeliveryInv' /\ PlanInv'
    BY <1>1, <1>3, TickStep, ExpireStep, PlannersStep, WorkersStep DEF Next, Failures
  <2> QED
    BY <2>1 DEF IInv, TypeInv, DeliveryInv, PlanInv
<1> QED
  BY <1>2, <1>3

-----------------------------------------------------------------------------
(* The invariant above holds, of deliveries and of planning. *)
THEOREM Invariance == Spec => []IInv
BY InitIInv, StepIInv, PTL DEF Spec

(* Every variable keeps its shape: no code path loses a field of an event, *)
(* a pass, a job or a delivery (scheduler.ts).                             *)
THEOREM TypeCorrect == Spec => []TypeOK
<1>1. IInv => TypeOK
  BY DEF IInv
<1> QED
  BY <1>1, Invariance, PTL

(* No reminder is mailed more often than once and once per delivery whose  *)
(* outcome could not be known, whatever the number of planners, workers,   *)
(* edits, retries and crashes (schedule, deliver).                         *)
THEOREM OneMailPerMishap == Spec => []DuplicatesNeedAMishap
<1>1. IInv => DuplicatesNeedAMishap
  <2> SUFFICES ASSUME IInv, NEW j \in Keys PROVE accepted[j] <= 1 + mishaps[j]
    BY DEF DuplicatesNeedAMishap
  <2>1. accepted[j] \in Nat /\ mishaps[j] \in Nat /\ accepted[j] + Chances(j) <= 1 + mishaps[j]
    BY DEF IInv, TypeOK, ChancesCounted
  <2>2. MaySend(j) \in SUBSET Workers
    BY DEF MaySend
  <2>3. Cardinality(MaySend(j)) \in Nat
    BY <2>2, ConstantsTyped, FS_Subset, FS_CardinalityType
  <2>4. Chances(j) \in Nat
    BY <2>3 DEF Chances
  <2> QED
    BY <2>1, <2>4
<1> QED
  BY <1>1, Invariance, PTL

(* A decision to send or to skip is right for the event as it was read,    *)
(* until the event is written again (deliver).                             *)
THEOREM DecisionsAreCurrent == Spec => []ChecksHold
<1>1. IInv => ChecksHold
  <2> SUFFICES ASSUME IInv, NEW w \in Workers, worker[w] # None,
                      worker[w].doc = events[worker[w].job.event]
               PROVE  LET j == worker[w].job
                          late == now > DueAt(j) + Grace \/ (j.lead # 0 /\ now >= j.start)
                      IN  /\ worker[w].doc # None =>
                                /\ worker[w].step = "send" => HasReminder(j) /\ now >= DueAt(j)
                                /\ worker[w].step = "skip" => ~HasReminder(j) \/ late
    BY DEF ChecksHold
  <2> QED
    BY DEF IInv, DecisionsHold, RunningJobsAreDue, Started, Late, Spent, Exists, HasReminder
<1> QED
  BY <1>1, Invariance, PTL

(* A planned event has a job for each reminder due before it is planned    *)
(* again: acknowledgements of another revision, overlapping passes, jobs   *)
(* that could not be saved and the TTL index leave none out (reconcile).   *)
THEOREM NoGapInPlanning == Spec => []PlanningLeavesNoGap
<1>1. IInv => PlanningLeavesNoGap
  BY DEF IInv
<1> QED
  BY <1>1, Invariance, PTL

-----------------------------------------------------------------------------
(* Reminders that are withdrawn *)

(* Nothing is mailed before its time, whoever holds the job.               *)
NothingEarly == \A j \in Keys : ~Started(j) => accepted[j] = 0

(* No delivery of j has sent it, nor read a document that allows it to.    *)
Withheld(j) ==
    /\ accepted[j] = 0
    /\ \A w \in Workers : worker[w] # None /\ worker[w].job = j =>
          /\ worker[w].step \notin {"send", "record"}
          /\ worker[w].step = "check" =>
                worker[w].doc \in {None, Deleted} \/ j \notin worker[w].doc.reminders

(* What the mail server takes, it takes of a worker that is sending.       *)
LEMMA OnlySendingMails ==
    ASSUME IInv, [Next]_vars, NEW j \in Keys, accepted'[j] # accepted[j]
    PROVE  /\ now' = now
           /\ \E w \in Workers : At(w, "send") /\ worker[w].job = j
<1>1. PICK w \in Workers : Send(w) \/ Unheard(w)
  BY DEF Next, vars, eventVars, mailVars, Tick, Api, CreateEvent, EditEvent, DeleteEvent,
         Failures, PlanningFails, PassLost, DeliveryFails, RecordFails, WorkerLost,
         PlannerStep, BeginPass, SaveJob, FinishEvent, WorkerStep, ReadEvent, Check,
         Skip, Record, SaveOutcome, Finish, Take, TakeOver, Expire
<1>2. At(w, "send") /\ now' = now /\ Accepted(w)
  BY <1>1 DEF Send, Unheard
<1>3. worker[w].job \in Keys
  BY <1>2 DEF IInv, TypeOK, At, Deliveries
<1>4. worker[w].job = j
  BY <1>2, <1>3 DEF Accepted, IInv, TypeOK
<1> QED
  BY <1>2, <1>4

LEMMA EarlyStep == IInv /\ [Next]_vars /\ NothingEarly => NothingEarly'
<1> SUFFICES ASSUME IInv, [Next]_vars, NothingEarly, NEW j \in Keys, ~Started(j)'
             PROVE  accepted'[j] = 0
  BY DEF NothingEarly
<1>1. now \in Nat /\ now' \in Nat /\ DueAt(j) \in Nat
  BY StepIInv, KeysTyped, ConstantsTyped DEF IInv, TypeOK, Times
<1>2. now' = now \/ Tick
  BY DEF Next, vars, Api, CreateEvent, EditEvent, DeleteEvent, Failures, PlanningFails,
         PassLost, DeliveryFails, Unheard, RecordFails, WorkerLost, PlannerStep,
         BeginPass, SaveJob, FinishEvent, WorkerStep, ReadEvent, Check, Send, Skip,
         Record, SaveOutcome, Finish, Take, TakeOver, Expire
<1>3. ~Started(j)
  BY <1>1, <1>2 DEF Started, DueAt, Tick
<1>4. accepted'[j] = accepted[j]
  BY <1>3, OnlySendingMails DEF IInv, RunningJobsAreDue, At
<1> QED
  BY <1>3, <1>4 DEF NothingEarly

(* How a worker comes to hold a job, and to move on with it.               *)
LEMMA WorkersMove ==
    ASSUME IInv, [Next]_vars, NEW w \in Workers, worker'[w] # None,
           worker'[w] # worker[w]
    PROVE  \/ worker'[w].step \in {"read", "finish"}
           \/ ReadEvent(w) \/ Check(w) \/ Send(w)
<1>1. CASE \E v \in Workers : \E j \in Keys : Take(v, j) \/ TakeOver(v, j)
  <2>1. PICK v \in Workers, j \in Keys : Take(v, j) \/ TakeOver(v, j)
    BY <1>1
  <2>2. v = w
    BY <2>1 DEF Take, TakeOver, HandOut, IInv, TypeOK
  <2> QED
    BY <2>1, <2>2, HandOutEffect DEF Take, TakeOver, IInv
<1>2. CASE \E v \in Workers : ReadEvent(v) \/ Check(v) \/ Send(v)
  BY <1>2 DEF ReadEvent, Check, Send, IInv, TypeOK
<1>3. CASE \E v \in Workers : Skip(v) \/ Record(v)
  <2>1. PICK v \in Workers : Skip(v) \/ Record(v)
    BY <1>3
  <2>2. worker[v] # None /\ worker' = [worker EXCEPT ![v].step = "finish"]
    BY <2>1 DEF Skip, Record, SaveOutcome, At
  <2> QED
    BY <2>2, MoveEffect DEF IInv
<1>4. CASE \E v \in Workers : worker' = [worker EXCEPT ![v] = None]
  BY <1>4 DEF IInv, TypeOK
<1> QED
  BY <1>1, <1>2, <1>3, <1>4
     DEF Next, vars, eventVars, mailVars, Tick, Api, CreateEvent, EditEvent,
         DeleteEvent, Failures, PlanningFails, PassLost, DeliveryFails, Unheard,
         RecordFails, WorkerLost, Fails, PlannerStep, BeginPass, SaveJob, FinishEvent,
         WorkerStep, Finish, Expire

LEMMA WithheldStays ==
    ASSUME IInv, [Next]_vars, NEW j \in Keys, ~HasReminder(j), Withheld(j)
    PROVE  Withheld(j)'
<1>1. accepted'[j] = 0
  BY OnlySendingMails DEF Withheld, At
<1>2. ASSUME NEW w \in Workers, worker'[w] # None, worker'[w].job = j
      PROVE  /\ worker'[w].step \notin {"send", "record"}
             /\ worker'[w].step = "check" =>
                   \/ worker'[w].doc \in {None, Deleted}
                   \/ j \notin worker'[w].doc.reminders
  <2>1. CASE worker'[w] = worker[w]
    BY <1>2, <2>1 DEF Withheld
  <2>2. CASE worker'[w].step \in {"read", "finish"}
    BY <2>2
  <2>3. CASE ReadEvent(w)
    <3>1. worker[w] # None /\ worker[w].job.event \in Events
      BY <2>3, KeysTyped DEF ReadEvent, At, IInv, TypeOK, Deliveries
    <3>2. worker'[w] = [job |-> worker[w].job, doc |-> events[worker[w].job.event],
                        step |-> "check"]
      BY <2>3 DEF ReadEvent, IInv, TypeOK
    <3>3. worker'[w].doc = events[j.event] /\ worker'[w].step = "check"
      BY <1>2, <3>2
    <3> QED
      BY <3>3 DEF HasReminder, Exists
  <2>4. CASE Check(w)
    <3>1. worker[w] # None /\ worker[w].step = "check"
      BY <2>4 DEF Check, At
    <3>2. PICK step \in {"send", "skip"} :
              /\ step = IF Deliverable(worker[w].job, worker[w].doc) THEN "send" ELSE "skip"
              /\ worker' = [worker EXCEPT ![w].step = step]
      BY <2>4 DEF Check
    <3>3. worker[w].job = j /\ worker'[w].step = step
      BY <1>2, <3>1, <3>2, MoveEffect DEF IInv
    <3>4. step = "skip"
      BY <3>1, <3>2, <3>3 DEF Withheld, Deliverable
    <3> QED
      BY <3>3, <3>4
  <2>5. CASE Send(w)
    <3>1. worker[w] # None /\ worker[w].step = "send"
          /\ worker' = [worker EXCEPT ![w].step = "record"]
      BY <2>5 DEF Send, At
    <3>2. worker[w].job = j
      BY <1>2, <3>1, MoveEffect DEF IInv
    <3> QED
      BY <3>1, <3>2 DEF Withheld
  <2> QED
    BY <1>2, <2>1, <2>2, <2>3, <2>4, <2>5, WorkersMove
<1> QED
  BY <1>1, <1>2 DEF Withheld

(* A reminder that its event has lost before it fell due is not mailed     *)
(* unless it gets it back: neither the job that stays in the queue nor a   *)
(* pass that still plans the old document sends it (deliver).              *)
THEOREM WithdrawnIsNotMailed == Spec => WithdrawnInTime
<1>1. SUFFICES ASSUME NEW j \in Keys
               PROVE  Spec => [](now < DueAt(j) /\ []~HasReminder(j)
                                    => [](accepted[j] = 0))
  BY <1>1 DEF WithdrawnInTime
<1>2. Init => NothingEarly
  BY DEF Init, NothingEarly
<1>3. Spec => [](IInv /\ NothingEarly)
  BY <1>2, EarlyStep, Invariance, PTL DEF Spec
<1>4. IInv /\ NothingEarly /\ now < DueAt(j) => Withheld(j)
  <2> SUFFICES ASSUME IInv, NothingEarly, now < DueAt(j) PROVE Withheld(j)
    OBVIOUS
  <2>1. ~Started(j)
    BY KeysTyped, ConstantsTyped DEF Started, IInv, TypeOK, Times
  <2> QED
    BY <2>1 DEF NothingEarly, Withheld, IInv, RunningJobsAreDue
<1>5. IInv /\ [Next]_vars /\ ~HasReminder(j) /\ Withheld(j) => Withheld(j)'
  BY WithheldStays
<1>6. Withheld(j) => accepted[j] = 0
  BY DEF Withheld
<1> QED
  BY <1>3, <1>4, <1>5, <1>6, PTL DEF Spec

-----------------------------------------------------------------------------
(* Skipped jobs, as long as nothing has failed *)

(* A job has one holder while it runs and none before and after; once it   *)
(* is skipped it is only finished.                                         *)
InOrder(j) ==
    /\ \A w \in Holders(j) : jobs[j].state = "running" /\ Holders(j) = {w}
    /\ jobs[j] # None =>
          /\ jobs[j].state = "running" => Holders(j) # {}
          /\ jobs[j].outcome = "skipped" =>
                jobs[j].state # "waiting" /\ \A w \in Holders(j) : At(w, "finish")

NoneDied == faults = 0 => \A j \in Keys : InOrder(j)

(* A job that a step leaves alone, with its holders, stays in order.       *)
LEMMA OthersInOrder ==
    ASSUME NEW j \in Keys, InOrder(j), jobs'[j] = jobs[j], Holders(j)' = Holders(j),
           \A w \in Holders(j) : worker'[w] = worker[w]
    PROVE  InOrder(j)'
BY DEF InOrder, At

(* A step of the holder of a job: it goes on with it or lets it go.        *)
LEMMA HoldersStep ==
    ASSUME IInv, NEW w \in Workers, worker[w] # None, NEW j \in Keys,
           InOrder(worker[w].job), InOrder(j),
           worker'[w] # None => worker'[w].job = worker[w].job,
           \A v \in Workers \ {w} : worker'[v] = worker[v],
           \A k \in Keys \ {worker[w].job} : jobs'[k] = jobs[k],
           jobs'[worker[w].job] # None,
           worker'[w] # None => jobs'[worker[w].job].state = "running",
           worker'[w] = None => jobs'[worker[w].job].state # "running",
           jobs'[worker[w].job].outcome = "skipped" =>
               \/ worker'[w] # None /\ worker'[w].step = "finish"
               \/ worker'[w] = None /\ jobs'[worker[w].job].state # "waiting"
    PROVE  InOrder(j)'
<1>1. CASE j # worker[w].job
  <2>1. Holders(j)' = Holders(j) /\ w \notin Holders(j)
    BY <1>1 DEF Holders
  <2>2. \A v \in Holders(j) : worker'[v] = worker[v]
    BY <2>1 DEF Holders
  <2> QED
    BY <1>1, <2>1, <2>2, OthersInOrder
<1>2. CASE j = worker[w].job
  <2>1. Holders(j) = {w}
    BY <1>2 DEF InOrder, Holders
  <2>2. \A v \in Workers \ {w} : v \notin Holders(j)'
    BY <2>1 DEF Holders
  <2>3. Holders(j)' = IF worker'[w] # None THEN {w} ELSE {}
    BY <1>2, <2>2 DEF Holders
  <2> QED
    BY <1>2, <2>3 DEF InOrder, At
<1> QED
  BY <1>1, <1>2

(* Failures are counted by Fault alone. *)
LEMMA FaultsStep ==
    ASSUME [Next]_vars
    PROVE  faults' = faults \/ Fault
BY DEF Next, vars, eventVars, mailVars, Tick, Api, CreateEvent, EditEvent, DeleteEvent,
       Failures, PlanningFails, PassLost, DeliveryFails, Unheard, RecordFails,
       WorkerLost, PlannerStep, BeginPass, SaveJob, FinishEvent, WorkerStep, ReadEvent,
       Check, Send, Skip, Record, SaveOutcome, Finish, Take, TakeOver, Expire

LEMMA NoneDiedStep == IInv /\ [Next]_vars /\ NoneDied => NoneDied'
<1> SUFFICES ASSUME IInv, [Next]_vars, NoneDied, faults' = 0, NEW j \in Keys
             PROVE  InOrder(j)'
  BY DEF NoneDied
<1>1. ~Fault
  BY DEF Fault, IInv, TypeOK
<1>2. faults = 0 /\ \A k \in Keys : InOrder(k)
  <2>1. faults' = faults
    BY <1>1, FaultsStep
  <2> QED
    BY <2>1 DEF NoneDied
<1>3. CASE UNCHANGED <<jobs, worker>>
  BY <1>2, <1>3, OthersInOrder DEF Holders
<1>4. CASE \E p \in Planners, k \in Keys : SaveJob(p, k)
  <2>1. PICK p \in Planners, k \in Keys : SaveJob(p, k)
    BY <1>4
  <2>2. worker' = worker /\ Holders(j)' = Holders(j)
    BY <2>1 DEF SaveJob, Holders
  <2>3. jobs'[j] = jobs[j] \/ (jobs[j] = None /\ jobs'[j] = NewJob)
    BY <2>1 DEF SaveJob, InsertJob, IInv, TypeOK
  <2>4. CASE jobs'[j] = jobs[j]
    BY <1>2, <2>2, <2>4, OthersInOrder
  <2>5. CASE jobs[j] = None /\ jobs'[j] = NewJob
    <3>1. Holders(j)' = {}
      BY <2>2, <2>5 DEF Holders, IInv, HeldJobsExist
    <3>2. NewJob.state = "waiting" /\ NewJob.outcome # "skipped"
      BY MarkersAreNoData DEF NewJob, Jobs
    <3> QED
      BY <2>5, <3>1, <3>2 DEF InOrder
  <2> QED
    BY <2>3, <2>4, <2>5
<1>5. CASE \E k \in Keys : Expire(k)
  <2>1. PICK k \in Keys : Expire(k)
    BY <1>5
  <2>2. worker' = worker /\ Holders(j)' = Holders(j)
    BY <2>1 DEF Expire, Holders
  <2>3. CASE j = k
    BY <2>1, <2>2, <2>3 DEF Expire, InOrder, IInv, TypeOK
  <2>4. CASE j # k
    BY <1>2, <2>1, <2>2, <2>4, OthersInOrder DEF Expire, IInv, TypeOK
  <2> QED
    BY <2>3, <2>4
<1>6. CASE \E w \in Workers, k \in Keys : Take(w, k) \/ TakeOver(w, k)
  <2>1. PICK w \in Workers, k \in Keys : Take(w, k) \/ TakeOver(w, k)
    BY <1>6
  <2>2. Take(w, k)
    BY <1>1, <1>2, <2>1 DEF TakeOver, InOrder
  <2>3. /\ worker[w] = None /\ jobs[k] # None /\ jobs[k].state = "waiting"
        /\ HandOut(w, k)
    BY <2>2 DEF Take
  <2>4. /\ jobs'[k].state = "running" /\ jobs'[k].outcome = jobs[k].outcome
        /\ \A l \in Keys \ {k} : jobs'[l] = jobs[l]
        /\ worker'[w] # None /\ worker'[w].job = k
        /\ \A v \in Workers \ {w} : worker'[v] = worker[v]
    BY <2>3, HandOutEffect DEF IInv
  <2>5. CASE j = k
    <3>1. Holders(j) = {} /\ jobs[j].outcome # "skipped"
      BY <1>2, <2>3, <2>5 DEF InOrder
    <3>2. Holders(j)' = {w}
      BY <2>4, <2>5, <3>1 DEF Holders
    <3> QED
      BY <2>4, <2>5, <3>1, <3>2 DEF InOrder
  <2>6. CASE j # k
    <3>1. Holders(j)' = Holders(j) /\ \A v \in Holders(j) : worker'[v] = worker[v]
      BY <2>3, <2>4, <2>6 DEF Holders
    <3> QED
      BY <1>2, <2>4, <2>6, <3>1, OthersInOrder
  <2> QED
    BY <2>5, <2>6
<1>7. CASE \E w \in Workers : WorkerStep(w)
  <2>1. PICK w \in Workers : WorkerStep(w)
    BY <1>7
  <2> DEFINE k == worker[w].job
  <2>2. worker[w] # None
    BY <2>1 DEF WorkerStep, ReadEvent, Check, Send, Skip, Record, Finish, At
  <2>3. k \in Keys /\ jobs[k] # None /\ InOrder(k) /\ jobs[k].state = "running"
    BY <1>2, <2>2 DEF IInv, TypeOK, Deliveries, HeldJobsExist, InOrder, Holders
  <2>4. CASE ReadEvent(w) \/ Check(w) \/ Send(w)
    <3>1. jobs' = jobs /\ worker[w].step # "finish"
      BY <2>4 DEF ReadEvent, Check, Send, At
    <3>2. /\ worker'[w] # None /\ worker'[w].job = k
          /\ \A v \in Workers \ {w} : worker'[v] = worker[v]
      BY <2>2, <2>4, ReadEffect, MoveEffect DEF Check, Send, IInv
    <3>3. jobs[k].outcome # "skipped"
      BY <2>2, <2>3, <3>1 DEF InOrder, Holders, At
    <3> QED
      BY <1>2, <2>2, <2>3, <3>1, <3>2, <3>3, HoldersStep
  <2>5. CASE Skip(w) \/ Record(w)
    <3>1. PICK outcome \in {"sent", "skipped"} : SaveOutcome(w, outcome)
      BY <2>5 DEF Skip, Record
    <3>2. /\ jobs'[k] # None /\ jobs'[k].state = "running"
          /\ \A l \in Keys \ {k} : jobs'[l] = jobs[l]
      BY <2>3, <3>1, OutcomeEffect DEF SaveOutcome, IInv
    <3>3. /\ worker'[w] # None /\ worker'[w].job = k /\ worker'[w].step = "finish"
          /\ \A v \in Workers \ {w} : worker'[v] = worker[v]
      BY <2>2, <3>1, MoveEffect DEF SaveOutcome, IInv
    <3> QED
      BY <1>2, <2>2, <2>3, <3>2, <3>3, HoldersStep
  <2>6. CASE Finish(w)
    <3>1. /\ jobs'[k] # None /\ jobs'[k].state = "over"
          /\ \A l \in Keys \ {k} : jobs'[l] = jobs[l]
      BY <2>3, <2>6, StateEffect DEF Finish, IInv
    <3>2. worker'[w] = None /\ \A v \in Workers \ {w} : worker'[v] = worker[v]
      BY <2>6, LeaveEffect DEF Finish, IInv
    <3> QED
      BY <1>2, <2>2, <2>3, <3>1, <3>2, HoldersStep
  <2> QED
    BY <2>1, <2>4, <2>5, <2>6 DEF WorkerStep
<1>8. CASE \E w \in Workers, retryable \in BOOLEAN : DeliveryFails(w, retryable)
  <2>1. PICK w \in Workers, retryable \in BOOLEAN : DeliveryFails(w, retryable)
    BY <1>8
  <2> DEFINE k == worker[w].job
  <2>2. worker[w] # None /\ worker[w].step # "finish" /\ Fails(w, retryable)
    BY <2>1 DEF DeliveryFails
  <2>3. k \in Keys /\ InOrder(k)
    BY <1>2, <2>2 DEF IInv, TypeOK, Deliveries
  <2>4. /\ jobs'[k] # None /\ jobs'[k].state \in {"waiting", "over"}
        /\ jobs'[k].outcome = jobs[k].outcome
        /\ \A l \in Keys \ {k} : jobs'[l] = jobs[l]
        /\ worker'[w] = None /\ \A v \in Workers \ {w} : worker'[v] = worker[v]
    BY <2>2, FailsEffect DEF IInv, TypeInv
  <2>5. jobs[k].outcome # "skipped"
    BY <2>2, <2>3 DEF InOrder, Holders, At, IInv, HeldJobsExist
  <2> QED
    BY <1>2, <2>2, <2>3, <2>4, <2>5, HoldersStep
<1> QED
  BY <1>1, <1>3, <1>4, <1>5, <1>6, <1>7, <1>8
     DEF Next, vars, eventVars, mailVars, Tick, Api, CreateEvent, EditEvent, DeleteEvent,
         Failures, PlanningFails, PassLost, Unheard, RecordFails, WorkerLost,
         PlannerStep, BeginPass, FinishEvent

(* "Completed or skipped jobs are not replayed" holds until something      *)
(* fails: with any number of workers, edits, retries after an error and    *)
(* plannings a skipped reminder is not sent any more.  What the run replay *)
(* shows takes a crash (deliver).                                          *)
THEOREM SkipsAreFinalUntilAFailure ==
    Spec => [][faults = 0 =>
                  \A j \in Keys : jobs[j] # None /\ jobs[j].outcome = "skipped" =>
                      accepted'[j] = accepted[j]]_vars
<1>1. Init => NoneDied
  BY DEF Init, NoneDied, InOrder, Holders
<1>2. Spec => [](IInv /\ NoneDied)
  BY <1>1, NoneDiedStep, Invariance, PTL DEF Spec
<1>3. ASSUME IInv, NoneDied, [Next]_vars, faults = 0, NEW j \in Keys,
             jobs[j] # None, jobs[j].outcome = "skipped", accepted'[j] # accepted[j]
      PROVE  FALSE
  <2>1. PICK w \in Workers : At(w, "send") /\ worker[w].job = j
    BY <1>3, OnlySendingMails
  <2> QED
    BY <1>3, <2>1 DEF NoneDied, InOrder, Holders, At
<1>4. IInv /\ NoneDied /\ [Next]_vars
          => [faults = 0 =>
                \A j \in Keys : jobs[j] # None /\ jobs[j].outcome = "skipped" =>
                    accepted'[j] = accepted[j]]_vars
  BY <1>3
<1> QED
  BY <1>2, <1>4, PTL DEF Spec

=============================================================================
