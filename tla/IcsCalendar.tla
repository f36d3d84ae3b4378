----------------------------- MODULE IcsCalendar -----------------------------
(***************************************************************************)
(* The iCalendar form of an event: a VEVENT for the event or its series,   *)
(* and one more for every occurrence with changed details.  A VEVENT has   *)
(* the precision of a second, a stored time that of a slot.  Text, colour, *)
(* stamps and everything the export leaves out on purpose do not appear.   *)
(***************************************************************************)
EXTENDS Calendar

CONSTANT SecondLength   \* slots in a second

ASSUME IcsAssumption ==
    /\ SecondLength \in Nat \ {0}
    /\ DayLength % SecondLength = 0
    /\ None \notin Int \cup [frequency : {"daily", "weekly"}, count : Nat]

(* The second that begins at or before a slot, or at or after it. *)
SecondBefore(slot) == (slot \div SecondLength) * SecondLength
SecondAfter(slot) == -SecondBefore(-slot)

Entry(id, s, rrule, exdate, recurrenceId) ==
    [uid |-> id,
     dtstart |-> SecondBefore(s.start),
     dtend |-> SecondAfter(s.end),
     rrule |-> rrule,
     exdate |-> exdate,
     recurrenceId |-> recurrenceId]

CancelledKeys(d) == {key \in DOMAIN d.exceptions : d.exceptions[key].cancelled}

(* A series repeats COUNT times from its first start, exceptions included. *)
RepeatRule(d) == [frequency |-> d.recurrence.frequency, count |-> Cardinality(BaseKeys(d))]

SeriesEntry(id, d) ==
    IF d.recurrence = None
    THEN Entry(id, d.schedule, None, {}, None)
    ELSE Entry(id, d.schedule, RepeatRule(d), {SecondBefore(key) : key \in CancelledKeys(d)}, None)

(* Mutated: a changed occurrence names the time it was moved to. *)
DetachedEntryAtNewTime(id, d, key) ==
    Entry(id, OccurrenceSchedule(d, key), None, {}, SecondBefore(OccurrenceSchedule(d, key).start))

DetachedEntry(id, d, key) ==
    Entry(id, OccurrenceSchedule(d, key), None, {}, SecondBefore(key))

Components(id, d) ==
    {SeriesEntry(id, d)}
        \cup {DetachedEntry(id, d, key) : key \in (DOMAIN d.exceptions) \ CancelledKeys(d)}

-----------------------------------------------------------------------------
(* What a calendar application shows (RFC 5545, 3.8.4.4, 3.8.5): the       *)
(* instances of a recurrence rule less the EXDATEs, an instance that some  *)
(* VEVENT names by RECURRENCE-ID being replaced by that VEVENT.            *)

Instances(v) ==
    IF v.rrule = None THEN {v.dtstart}
    ELSE {v.dtstart + n * Period(v.rrule) : n \in 0 .. v.rrule.count - 1} \ v.exdate

Shown(calendar, id) ==
    LET entries == {v \in calendar : v.uid = id}
        detached == {v \in entries : v.recurrenceId # None}
        replaced == {v.recurrenceId : v \in detached}
    IN  {[start |-> v.dtstart, end |-> v.dtend] : v \in detached}
        \cup UNION {{[start |-> at, end |-> at + (v.dtend - v.dtstart)] :
                         at \in Instances(v) \ replaced} : v \in entries \ detached}

(* The occurrences an event really has, widened to whole seconds.          *)
Occurring(d) ==
    {[start |-> SecondBefore(OccurrenceSchedule(d, key).start),
      end |-> SecondAfter(OccurrenceSchedule(d, key).end)] : key \in LiveKeys(d)}

=============================================================================
