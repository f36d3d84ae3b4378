--------------------------- MODULE MCCalendarReads ---------------------------
(***************************************************************************)
(* Three IDs, two owners, three writes.  A day has four slots, a second    *)
(* two, so that times fall inside a second.  The series has a cancelled,   *)
(* a moved and a merely renamed occurrence, one of them moved out of the   *)
(* shorter range and one into it.  The talks are more series than a page   *)
(* reads, in some ranges with nothing to show for it.                      *)
(***************************************************************************)
EXTENDS CalendarReads, TLC

CONSTANTS alice, bob

At(start, end) == [kind |-> "timed", start |-> start, end |-> end]
WholeDay(day) == [kind |-> "all-day", start |-> DayLength * day, end |-> DayLength * (day + 1)]

Single(owner, s) ==
    [owner |-> owner, rev |-> 1, allow |-> TRUE, schedule |-> s, recurrence |-> None,
     email |-> {}, exceptions |-> NoExceptions]

Daily(s, lastDay, exceptions) ==
    [Single(alice, s) EXCEPT !.recurrence = [frequency |-> "daily", endsOn |-> lastDay],
                             !.exceptions = exceptions]

Cancelled == [cancelled |-> TRUE, schedule |-> None, email |-> None]
Moved(s) == [cancelled |-> FALSE, schedule |-> s, email |-> None]

lecture == Single(alice, At(1, 3))
trip == Single(alice, WholeDay(2))
others == Single(bob, At(1, 3))
classes == Daily(At(1, 3), 2, (5 :> Cancelled) @@ (9 :> Moved(At(3, 6))))
shifts == Daily(At(3, 4), 2, (3 :> Moved(At(13, 14))) @@ (7 :> Moved(None)))
days == Daily(WholeDay(0), 1, 4 :> Cancelled)
talk == Daily(At(1, 2), 0, NoExceptions)

TestDocuments == {lecture, trip, others, classes, days}

TestCalendars ==
    {(1 :> classes) @@ (2 :> lecture) @@ (3 :> shifts),
     (1 :> lecture) @@ (2 :> classes) @@ (3 :> None),
     (1 :> trip) @@ (2 :> others) @@ (3 :> lecture),
     (1 :> shifts) @@ (2 :> None) @@ (3 :> days),
     (1 :> talk) @@ (2 :> talk) @@ (3 :> talk)}

List(from, to, limit, cursor) ==
    [kind |-> "list", from |-> from, to |-> to, limit |-> limit, after |-> cursor]
Export(from, to) ==
    [kind |-> "export", from |-> from, to |-> to, limit |-> 1, after |-> None]

TestQueries ==
    {List(0, 2, 1, None), List(0, 4, 2, None), List(0, 4, 1, [id |-> 1, key |-> 3]),
     List(None, None, 1, None), List(None, None, 1, [id |-> 1, key |-> None]),
     List(None, None, 1, [id |-> 1, key |-> 1]), List(0, 5, 1, None), List(0, None, 1, None),
     List(2, 4, 1, None),
     Export(None, None), Export(0, 2)}

=============================================================================
