--------------------------- MODULE MCConflictScan ----------------------------
(***************************************************************************)
(* Three stored events and a candidate, of events of every shape: inside a *)
(* day, across midnight and all day, single and repeating, with            *)
(* occurrences moved out of order, over one another and onto the same      *)
(* times.  The stored ones may clash among themselves, as events that      *)
(* allow conflicts do.  A day has three slots.                             *)
(***************************************************************************)
EXTENDS ConflictScan, TLC

CONSTANTS alice, bob

At(start, end) == [kind |-> "timed", start |-> start, end |-> end]
WholeDay(first, next) ==
    [kind |-> "all-day", start |-> DayLength * first, end |-> DayLength * next]

Single(s, allowed) ==
    [owner |-> alice, rev |-> 1, allow |-> allowed, schedule |-> s, recurrence |-> None,
     email |-> {}, exceptions |-> NoExceptions]

Daily(s, lastDay, exceptions) ==
    [Single(s, FALSE) EXCEPT !.recurrence = [frequency |-> "daily", endsOn |-> lastDay],
                             !.exceptions = exceptions]

Cancelled == [cancelled |-> TRUE, schedule |-> None, email |-> None]
Moved(s) == [cancelled |-> FALSE, schedule |-> s, email |-> None]

TestCandidates ==
    {Single(At(0, 1), FALSE), Single(At(2, 5), FALSE), Single(At(2, 4), TRUE),
     Single(At(0, 9), FALSE),
     Single(WholeDay(1, 2), FALSE), Single(WholeDay(0, 2), FALSE),
     Daily(At(1, 2), 2, NoExceptions),
     Daily(At(1, 2), 2, 1 :> Moved(At(6, 9))),
     Daily(At(1, 2), 2, 4 :> Moved(At(0, 3))),
     Daily(At(1, 2), 2, (1 :> Moved(At(5, 6))) @@ (4 :> Cancelled)),
     Daily(At(1, 2), 2, (1 :> Moved(At(2, 3))) @@ (4 :> Moved(At(2, 3)))),
     Daily(At(1, 2), 1, (1 :> Cancelled) @@ (4 :> Cancelled)),
     Daily(WholeDay(0, 1), 2, 3 :> Moved(WholeDay(4, 5))),
     Daily(At(0, 4), 1, NoExceptions)}

TestDocuments ==
    TestCandidates \cup {None, [Single(At(0, 7), FALSE) EXCEPT !.owner = bob]}

SomeDocuments ==
    {None, Single(At(4, 6), FALSE), Single(WholeDay(1, 2), FALSE), Daily(At(1, 2), 1, NoExceptions)}

TestCalendars ==
    {(1 :> d) @@ (2 :> e) @@ (3 :> f) :
        d \in TestDocuments, e \in SomeDocuments, f \in {None, Single(At(8, 9), FALSE)}}

=============================================================================
