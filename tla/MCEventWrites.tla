--------------------------- MODULE MCEventWrites ---------------------------
(***************************************************************************)
(* Small calendars and request sets for EventWrites.  A day has two slots. *)
(***************************************************************************)
EXTENDS EventWrites, TLC

CONSTANTS alice, bob, e1, e2

(* Lead times that no list names stand for a preference without a list.    *)
Unspecified == {-1}

Timed(s, t) == [kind |-> "timed", start |-> s, end |-> t]
AllDay(s, t) == [kind |-> "all-day", start |-> s * DayLength, end |-> t * DayLength]

Create(owner, allow, schedule, recurrence) ==
    [op |-> "create", owner |-> owner, allow |-> allow, schedule |-> schedule,
     recurrence |-> recurrence, email |-> Keep, appointment |-> TRUE]

NoPatch(owner, id, rev) ==
    [op |-> "update", owner |-> owner, id |-> id, rev |-> rev, allow |-> Keep,
     schedule |-> Keep, recurrence |-> Keep, email |-> Keep, clear |-> FALSE]

Delete(owner, id, rev) == [op |-> "delete", owner |-> owner, id |-> id, rev |-> rev]

Occurrence(op, id, rev, key) ==
    [op |-> op, owner |-> alice, id |-> id, rev |-> rev, key |-> key, kind |-> "timed",
     schedule |-> Keep, email |-> Keep]

Event(owner, allow, schedule, recurrence, email, exceptions) ==
    [owner |-> owner, rev |-> 1, allow |-> allow, schedule |-> schedule,
     recurrence |-> recurrence, email |-> email, exceptions |-> exceptions]

Stored(x, y) == [i \in Ids |-> IF i = e1 THEN x ELSE IF i = e2 THEN y ELSE None]

(* Requests are interchangeable: every input set is closed under renaming them. *)
RequestSymmetry == Permutations(Requests)

-----------------------------------------------------------------------------
(* Single events: two of alice's, the second allowed to overlap.           *)

SingleCalendars ==
    {Stored(Event(alice, FALSE, Timed(0, 1), None, {1}, NoExceptions),
            Event(alice, TRUE, Timed(3, 4), None, {}, NoExceptions))}

SingleInputs ==
    {Create(alice, FALSE, Timed(1, 3), None),
     Create(bob, FALSE, Timed(1, 3), None),
     Create(alice, FALSE, AllDay(1, 1), None),
     [NoPatch(alice, e1, 1) EXCEPT !.schedule = Timed(2, 3)],
     [NoPatch(alice, e2, 1) EXCEPT !.schedule = Timed(0, 2), !.allow = FALSE],
     [NoPatch(alice, e2, 1) EXCEPT !.schedule = AllDay(1, 2), !.email = Defaulted],
     [NoPatch(alice, e2, 2) EXCEPT !.allow = FALSE],
     NoPatch(bob, e1, 1),
     Delete(alice, e1, 1)}

-----------------------------------------------------------------------------
(* Series: a daily one with a cancelled, an edited and a plain occurrence, *)
(* and a single event beside the cancelled one.                            *)

Daily(last) == [frequency |-> "daily", endsOn |-> last]
Weekly(last) == [frequency |-> "weekly", endsOn |-> last]

Edited(schedule, email) == [cancelled |-> FALSE, schedule |-> schedule, email |-> email]

SeriesExceptions ==
    [key \in {2, 4} |-> IF key = 2 THEN Cancellation ELSE Edited(Timed(5, 6), None)]

SeriesCalendars ==
    {Stored(Event(alice, FALSE, Timed(0, 1), Daily(2), {1}, SeriesExceptions),
            Event(alice, FALSE, Timed(1, 2), None, {1}, NoExceptions))}

SeriesInputs ==
    {[Occurrence("edit", e1, 1, 4) EXCEPT !.schedule = Timed(2, 3)],
     [Occurrence("edit", e1, 1, 0) EXCEPT !.email = {}],
     [Occurrence("edit", e1, 2, 0) EXCEPT !.schedule = AllDay(0, 1)],
     Occurrence("edit", e1, 1, 0),
     [Occurrence("edit", e1, 2, 4) EXCEPT !.email = Defaulted],
     Occurrence("cancel", e1, 1, 0),
     Occurrence("cancel", e1, 2, 4),
     Occurrence("restore", e1, 1, 2),
     Occurrence("restore", e1, 2, 4),
     Occurrence("restore", e1, 1, 7),
     Occurrence("cancel", e2, 1, 1),
     [NoPatch(alice, e1, 1) EXCEPT !.recurrence = Weekly(7)],
     [NoPatch(alice, e1, 1) EXCEPT !.recurrence = Weekly(None), !.clear = TRUE],
     [NoPatch(alice, e1, 2) EXCEPT !.schedule = Timed(3, 4), !.clear = TRUE],
     [NoPatch(alice, e1, 2) EXCEPT !.recurrence = None, !.clear = TRUE],
     [NoPatch(alice, e2, 1) EXCEPT !.schedule = Timed(2, 3)],
     [NoPatch(alice, e2, 1) EXCEPT !.recurrence = Daily(1), !.schedule = Timed(1, 4)],
     Create(alice, FALSE, Timed(3, 4), Weekly(None)),
     Delete(alice, e2, 1)}
    \cup {[NoPatch(alice, r, 1) EXCEPT !.allow = TRUE] : r \in Requests}

-----------------------------------------------------------------------------
(* Three writes of one owner that compete for the same hours.              *)

RivalInputs ==
    {Create(alice, FALSE, Timed(1, 3), None),
     [NoPatch(alice, e1, 1) EXCEPT !.schedule = Timed(2, 3)],
     Delete(alice, e1, 1)}

=============================================================================
