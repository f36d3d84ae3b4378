------------------------------ MODULE Calendar ------------------------------
(***************************************************************************)
(* The rules of the timetable: what an event means, when two events clash, *)
(* when its reminders change, and how one request is answered from the     *)
(* calendar it reads.  Nothing here is concurrent; the modules that hold   *)
(* state apply these operators.                                            *)
(*                                                                         *)
(* Time is counted in slots, DayLength of them to a Hong Kong day, slot 0  *)
(* being a Hong Kong midnight; an all-day schedule spans whole days.  An   *)
(* event's text and colour, which no rule depends on, are left out, so a   *)
(* patch of text alone is one that keeps every field.                      *)
(***************************************************************************)
EXTENDS Integers, FiniteSets, FiniteSetsExt

CONSTANTS
    Owners,          \* account IDs
    Ids,             \* every event ID, those minted later included
    None,            \* an absent document, rule or override
    Keep,            \* a field that a patch omits
    Defaulted,       \* {enabled: true} without minutesBefore
    Minutes,         \* reminder lead times, in slots
    DefaultMinutes,  \* DEFAULT_REMINDER_MINUTES
    DayLength,       \* slots in a day
    MaxSeriesDays,   \* days in twelve calendar months
    MaxOccurrences,  \* MAX_OCCURRENCES_PER_SERIES
    MaxScanned,      \* MAX_SCANNED_EVENTS
    MaxExpanded      \* MAX_EXPANDED_OCCURRENCES

ASSUME CalendarAssumption ==
    /\ DayLength \in Nat \ {0}
    /\ MaxSeriesDays \in Nat
    /\ MaxOccurrences \in Nat
    /\ MaxScanned \in Nat
    /\ MaxExpanded \in Nat
    /\ Minutes \subseteq Nat
    /\ DefaultMinutes \subseteq Minutes
    /\ Keep # None
    /\ \A lead \in SUBSET Minutes : lead \notin {None, Keep, Defaulted}

-----------------------------------------------------------------------------
(* Documents *)

Kinds == {"timed", "all-day"}

(* An all-day schedule names dates: it is a span of whole days.            *)
WholeDays(s) == s.kind = "all-day" => s.start % DayLength = 0 /\ s.end % DayLength = 0

Schedules == {s \in [kind : Kinds, start : Int, end : Int] : WholeDays(s)}

Rules == [frequency : {"daily", "weekly"}, endsOn : Int]
Exceptions == [cancelled : BOOLEAN,
               schedule : Schedules \cup {None},
               email : {None, Defaulted} \cup SUBSET Minutes]

(* No recorded exception: also what clearExceptions leaves. *)
NoExceptions == [key \in {} |-> None]

(* A stored event.  Its exceptions are a function from original starts.  A *)
(* disabled reminder preference is the empty set of lead times.            *)
IsDocument(d) ==
    /\ d.owner \in Owners
    /\ d.rev \in Nat \ {0}
    /\ d.allow \in BOOLEAN
    /\ d.schedule \in Schedules
    /\ d.recurrence \in Rules \cup {None}
    /\ d.email \in SUBSET Minutes
    /\ DOMAIN d.exceptions \subseteq Int
    /\ \A key \in DOMAIN d.exceptions : d.exceptions[key] \in Exceptions

-----------------------------------------------------------------------------
(* Recurrence *)

Day(slot) == slot \div DayLength

LatestEnd(s) == Day(s.start) + MaxSeriesDays

(* The end of a series is fixed when it is written, never extended later.  *)
ResolveRecurrence(s, r) ==
    IF r = None \/ r.endsOn # None THEN r ELSE [r EXCEPT !.endsOn = LatestEnd(s)]

RecurrenceFits(s, r) ==
    r # None => Day(s.start) <= r.endsOn /\ r.endsOn <= LatestEnd(s)

Period(r) == IF r # None /\ r.frequency = "weekly" THEN 7 * DayLength ELSE DayLength

LastIndex(s, r) ==
    IF r = None THEN 0
    ELSE ((r.endsOn - Day(s.start)) * DayLength) \div Period(r)

(* The original starts of a series; one for an event that does not recur.  *)
BaseKeys(d) ==
    {d.schedule.start + i * Period(d.recurrence) :
        i \in 0 .. LastIndex(d.schedule, d.recurrence)}

ScheduleAt(d, key) ==
    [kind |-> d.schedule.kind,
     start |-> key,
     end |-> key + (d.schedule.end - d.schedule.start)]

-----------------------------------------------------------------------------
(* Expansion: base occurrences with the exceptions applied *)

Overridden(d, key, field) ==
    key \in DOMAIN d.exceptions /\ d.exceptions[key][field] # None

LiveKeys(d) ==
    {key \in BaseKeys(d) :
        key \in DOMAIN d.exceptions => ~d.exceptions[key].cancelled}

OccurrenceSchedule(d, key) ==
    IF Overridden(d, key, "schedule") THEN d.exceptions[key].schedule
                                      ELSE ScheduleAt(d, key)

ResolveEmail(e) == IF e = Defaulted THEN DefaultMinutes ELSE e

OccurrenceEmail(d, key) ==
    IF Overridden(d, key, "email") THEN ResolveEmail(d.exceptions[key].email)
                                   ELSE d.email

ValidSchedule(s) == s.end > s.start

(* expandEvent returns instead of throwing. *)
Expandable(d) ==
    /\ ValidSchedule(d.schedule)
    /\ RecurrenceFits(d.schedule, d.recurrence)
    /\ LastIndex(d.schedule, d.recurrence) + 1 <= MaxOccurrences
    /\ DOMAIN d.exceptions \subseteq BaseKeys(d)
    /\ d.recurrence = None => DOMAIN d.exceptions = {}
    /\ \A key \in LiveKeys(d) :
          /\ ValidSchedule(OccurrenceSchedule(d, key))
          /\ OccurrenceSchedule(d, key).kind = d.schedule.kind

-----------------------------------------------------------------------------
(* Conflicts *)

Overlap(s, t) == s.start < t.end /\ t.start < s.end

Clash(d, e) ==
    \E k \in LiveKeys(d), l \in LiveKeys(e) :
        Overlap(OccurrenceSchedule(d, k), OccurrenceSchedule(e, l))

SelfClash(d) ==
    \E k, l \in LiveKeys(d) :
        k # l /\ Overlap(OccurrenceSchedule(d, k), OccurrenceSchedule(d, l))

(* The query's prefilter: every series of the owner, and the single events *)
(* that meet the span from the first start of d to its last end.           *)
Scanned(d, self, cal) ==
    {i \in Ids \ {self} :
        /\ cal[i] # None
        /\ cal[i].owner = d.owner
        /\ \/ cal[i].recurrence # None
           \/ \E k, l \in LiveKeys(d) :
                 /\ OccurrenceSchedule(d, k).start < cal[i].schedule.end
                 /\ cal[i].schedule.start < OccurrenceSchedule(d, l).end}

OverCapacity(d, self, cal) ==
    LET ids == Scanned(d, self, cal) IN
    \/ Cardinality(ids) > MaxScanned
    \/ /\ ids # {}
       /\ Cardinality(LiveKeys(d))
             + Cardinality(UNION {{i} \X BaseKeys(cal[i]) : i \in ids}) > MaxExpanded

(* How assertNoEventConflict may end: 200 lets the write go on.  When d    *)
(* both clashes and is over a limit, the order in which the cursor yields  *)
(* the events decides which error comes first.                             *)
Verdicts(d, self, cal) ==
    LET clashes == \E i \in Scanned(d, self, cal) : Clash(d, cal[i])
        over == OverCapacity(d, self, cal)
    IN  IF d.allow \/ LiveKeys(d) = {} THEN {200}
        ELSE IF SelfClash(d) THEN {409}
        ELSE {v \in {200, 409, 413} :
                 /\ v = 200 => ~clashes /\ ~over
                 /\ v = 409 => clashes
                 /\ v = 413 => over}

-----------------------------------------------------------------------------
(* Reminders *)

(* The reminders an event calls for: occurrence, effective start, lead time. *)
Reminders(d) ==
    UNION {{<<key, OccurrenceSchedule(d, key).start, m>> : m \in OccurrenceEmail(d, key)} :
              key \in LiveKeys(d)}

(* Mutated: an override of the reminder preference alone goes unnoticed.   *)
TimedExceptionsIgnoringEmail(d) ==
    {key \in DOMAIN d.exceptions :
        d.exceptions[key].cancelled \/ d.exceptions[key].schedule # None}

(* Exceptions of text alone are dropped before the comparison. *)
TimedExceptions(d) ==
    {key \in DOMAIN d.exceptions :
        \/ d.exceptions[key].cancelled
        \/ d.exceptions[key].schedule # None
        \/ d.exceptions[key].email # None}

ReminderScheduleChanged(before, after) ==
    \/ before.schedule # after.schedule
    \/ before.recurrence # after.recurrence
    \/ before.email # after.email
    \/ TimedExceptions(before) # TimedExceptions(after)
    \/ \E key \in TimedExceptions(before) : before.exceptions[key] # after.exceptions[key]

-----------------------------------------------------------------------------
(* What a calendar left by earlier requests satisfies *)

IsCalendar(cal) ==
    /\ cal = [i \in Ids |-> cal[i]]
    /\ \A i \in Ids : cal[i] # None => IsDocument(cal[i])

AllExpand(cal) == \A i \in Ids : cal[i] # None => Expandable(cal[i])

Restricted(cal, i) == cal[i] # None /\ ~cal[i].allow

NoClashes(cal) ==
    \A i \in Ids : Restricted(cal, i) =>
        /\ ~SelfClash(cal[i])
        /\ \A j \in Ids \ {i} :
              Restricted(cal, j) /\ cal[j].owner = cal[i].owner => ~Clash(cal[i], cal[j])

=============================================================================
