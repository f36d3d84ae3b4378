---------------------------- MODULE ConflictScan -----------------------------
(***************************************************************************)
(* How assertNoEventConflict finds a clash: the candidate's occurrences    *)
(* are sorted and swept for clashes among themselves; a query selects the  *)
(* owner's events around them, all-day events by whole days; and each      *)
(* event found is merged with the candidate, both in the order of their    *)
(* starts.  Calendar!Verdicts states the result without the search.        *)
(*                                                                         *)
(* The search runs in one transaction under the owner's lock, so the       *)
(* calendar stands still.                                                  *)
(***************************************************************************)
EXTENDS Calendar

CONSTANTS
    Calendars,   \* calendars to search
    Candidates   \* events about to be stored

(* What validateEvent and expandEvent have established of every event.     *)
Sound(d) == IsDocument(d) /\ Expandable(d)

ASSUME ScanAssumption ==
    /\ None \notin Int
    /\ IsFiniteSet(Ids)
    /\ \A d \in Candidates : Sound(d)
    /\ \A calendar \in Calendars : IsCalendar(calendar) /\ AllExpand(calendar)

VARIABLES
    candidate, self, cal,   \* the arguments: self is excludeId or None
    proposed,               \* the candidate's occurrences by start
    item, furthest,         \* the sweep: next one and latest end so far
    unread,                 \* matching events the cursor has yet to yield
    scanned, budget,        \* events and occurrences counted
    existing,               \* the yielded event's occurrences by start
    a, b,                   \* the merge's places in proposed and existing
    pc, verdict

input == <<candidate, self, cal>>
sweep == <<proposed, item, furthest>>
merge == <<existing, a, b>>
vars == <<input, sweep, unread, scanned, budget, merge, pc, verdict>>

Init ==
    /\ cal \in Calendars /\ candidate \in Candidates /\ self \in Ids \cup {None}
    /\ proposed = <<>> /\ item = 1 /\ furthest = None
    /\ unread = {} /\ scanned = 0 /\ budget = 0
    /\ existing = <<>> /\ a = 1 /\ b = 1
    /\ pc = "begin" /\ verdict = None

-----------------------------------------------------------------------------
(* Mutated: in the order of the original starts, moved or not. *)
SortedByOriginalStart(d) ==
    {list \in [1 .. Cardinality(LiveKeys(d)) -> {OccurrenceSchedule(d, key) : key \in LiveKeys(d)}] :
        \E keys \in [DOMAIN list -> LiveKeys(d)] :
            /\ \A i \in DOMAIN list : list[i] = OccurrenceSchedule(d, keys[i])
            /\ \A i, j \in DOMAIN list : i < j => keys[i] < keys[j]}

(* The occurrences of an event in the order of their starts, ties in any.  *)
Sorted(d) ==
    {list \in [1 .. Cardinality(LiveKeys(d)) -> {OccurrenceSchedule(d, key) : key \in LiveKeys(d)}] :
        /\ \E keys \in [DOMAIN list -> LiveKeys(d)] :
              /\ \A i \in DOMAIN list : list[i] = OccurrenceSchedule(d, keys[i])
              /\ \A i, j \in DOMAIN list : keys[i] = keys[j] => i = j
              /\ \A key \in LiveKeys(d) : \E i \in DOMAIN list : keys[i] = key
        /\ \A i, j \in DOMAIN list : i < j => list[i].start <= list[j].start}

Return(v) == pc' = "done" /\ verdict' = v

Begin ==
    /\ pc = "begin"
    /\ IF candidate.allow \/ LiveKeys(candidate) = {}
       THEN Return(200) /\ UNCHANGED proposed
       ELSE /\ proposed' \in Sorted(candidate)
            /\ pc' = "sweep" /\ UNCHANGED verdict
    /\ UNCHANGED <<input, item, furthest, unread, scanned, budget, merge>>

FurthestEnd(s) == IF furthest # None /\ furthest > s.end THEN furthest ELSE s.end

SweepItem ==
    /\ pc = "sweep" /\ item \in DOMAIN proposed
    /\ IF furthest # None /\ proposed[item].start < furthest
       THEN Return(409) /\ UNCHANGED <<item, furthest>>
       ELSE /\ furthest' = FurthestEnd(proposed[item])
            /\ item' = item + 1
            /\ UNCHANGED <<pc, verdict>>
    /\ UNCHANGED <<input, proposed, unread, scanned, budget, merge>>

(* Mutated: the last day is cut off at its midnight. *)
LastDayFloor(end) == Day(end)

(* The end rounded up to whole days. *)
LastDay(end) == Day(end + DayLength - 1)

(* The query: a series always, a timed event if it meets the candidate's   *)
(* span, an all-day event if it meets the days of that span.               *)
Selected(i, start, end) ==
    LET s == cal[i].schedule IN
    /\ cal[i] # None
    /\ cal[i].owner = candidate.owner
    /\ i # self
    /\ \/ cal[i].recurrence # None
       \/ s.kind = "timed" /\ s.start < end /\ s.end > start
       \/ s.kind = "all-day" /\ Day(s.start) < LastDay(end) /\ Day(s.end) > Day(start)

Find ==
    /\ pc = "sweep" /\ item \notin DOMAIN proposed
    /\ unread' = {i \in Ids : Selected(i, proposed[1].start, furthest)}
    /\ budget' = MaxExpanded - Cardinality(LiveKeys(candidate))
    /\ pc' = "fetch"
    /\ UNCHANGED <<input, sweep, scanned, merge, verdict>>

(* Mutated: one event more than the limit is let through. *)
OneMoreScanned == scanned > MaxScanned

TooManyScanned == scanned + 1 > MaxScanned

(* The cursor yields an event: one too many, one occurrence too many, or   *)
(* the next to merge.                                                      *)
Fetch(i) ==
    /\ pc = "fetch" /\ i \in unread
    /\ unread' = unread \ {i}
    /\ scanned' = scanned + 1
    /\ budget' = budget - Cardinality(BaseKeys(cal[i]))
    /\ IF TooManyScanned \/ budget' < 0
       THEN Return(413) /\ UNCHANGED merge
       ELSE /\ existing' \in Sorted(cal[i])
            /\ a' = 1 /\ b' = 1
            /\ pc' = "merge" /\ UNCHANGED verdict
    /\ UNCHANGED <<input, sweep>>

NoMore ==
    /\ pc = "fetch" /\ unread = {}
    /\ Return(200)
    /\ UNCHANGED <<input, sweep, unread, scanned, budget, merge>>

(* Mutated: an existing occurrence that starts earlier is never passed.    *)
AdvanceLeftOnly ==
    IF proposed[a].end <= existing[b].start THEN a' = a + 1 /\ b' = b ELSE UNCHANGED <<a, b>>

(* Mutated: a candidate that ends just as the other starts is kept.        *)
AdvanceStrictly ==
    IF proposed[a].end < existing[b].start THEN a' = a + 1 /\ b' = b
                                           ELSE b' = b + 1 /\ a' = a

Advance ==
    IF proposed[a].end <= existing[b].start THEN a' = a + 1 /\ b' = b
                                            ELSE b' = b + 1 /\ a' = a

Compare ==
    /\ pc = "merge" /\ a \in DOMAIN proposed /\ b \in DOMAIN existing
    /\ IF Overlap(proposed[a], existing[b])
       THEN Return(409) /\ UNCHANGED <<a, b>>
       ELSE Advance /\ UNCHANGED <<pc, verdict>>
    /\ UNCHANGED <<input, sweep, unread, scanned, budget, existing>>

Merged ==
    /\ pc = "merge" /\ ~(a \in DOMAIN proposed /\ b \in DOMAIN existing)
    /\ pc' = "fetch"
    /\ UNCHANGED <<input, sweep, unread, scanned, budget, merge, verdict>>

-----------------------------------------------------------------------------
Next ==
    \/ Begin \/ SweepItem \/ Find \/ NoMore \/ Compare \/ Merged
    \/ \E i \in Ids : Fetch(i)

Spec == Init /\ [][Next]_vars

FairSpec == Spec /\ WF_vars(Next)

-----------------------------------------------------------------------------
(* Properties *)

(* Every variable keeps its shape, and no event past the limit is merged.  *)
ScanTypeOK ==
    /\ cal \in Calendars /\ candidate \in Candidates /\ self \in Ids \cup {None}
    /\ proposed \in Sorted(candidate) \cup {<<>>}
    /\ item \in Nat \ {0}
    /\ furthest \in Int \cup {None}
    /\ unread \subseteq Ids
    /\ scanned \in Nat /\ budget \in Int
    /\ pc = "merge" => scanned <= MaxScanned
    /\ a \in Nat \ {0} /\ b \in Nat \ {0}
    /\ pc \in {"begin", "sweep", "fetch", "merge", "done"}
    /\ verdict \in {None, 200, 409, 413}
    /\ pc = "done" <=> verdict # None

ClashesWith(i) ==
    i # self /\ cal[i] # None /\ cal[i].owner = candidate.owner /\ Clash(candidate, cal[i])

(* A write is let through only if no two occurrences clash, of the candidate *)
(* or of it and any other event of its owner, whether the query selects    *)
(* that event or not; it is refused as a conflict only if some do          *)
(* (assertNoEventConflict).                                                *)
ClashesFound ==
    /\ verdict = 200 =>
          \/ candidate.allow
          \/ ~SelfClash(candidate) /\ \A i \in Ids : ~ClashesWith(i)
    /\ verdict = 409 =>
          ~candidate.allow /\ (SelfClash(candidate) \/ \E i \in Ids : ClashesWith(i))

(* The search ends as the calendar's rules say it may, limits included: the  *)
(* verdict that the event operations go by.                                *)
VerdictAllowed == pc = "done" => verdict \in Verdicts(candidate, self, cal)

(* The search comes to a verdict.                                          *)
ScanEnds == <>(pc = "done")

=============================================================================
