---------------------------- MODULE CalendarReads ----------------------------
(***************************************************************************)
(* Reading a calendar that is being written: a client lists its events     *)
(* page by page, passing each nextCursor on, or downloads them as an       *)
(* iCalendar file.  A read takes no lock and no snapshot: the database     *)
(* cursor hands over one document after the other in the order of their    *)
(* IDs, each as it is at that moment, and any write may be committed       *)
(* between two of them or between two pages.                               *)
(*                                                                         *)
(* An item of a listing is an event or one occurrence of a series, named   *)
(* by the event's ID and the original start; None is the start of an       *)
(* event that does not recur.                                              *)
(***************************************************************************)
EXTENDS IcsCalendar

CONSTANTS
    Reader,         \* whose bearer token the requests carry
    Documents,      \* the documents that writes may leave
    Calendars,      \* the calendars at the start
    Queries,        \* kind, from, to, limit and after of a first request
    RangeMaxDays,   \* CALENDAR_RANGE_MAX_DAYS
    ExportLimit,    \* ICS_EXPORT_LIMIT
    MaxComponents,  \* 5000 VEVENTs
    MaxWrites       \* a bound on the writes meanwhile

(* Where a cursor may point: at an event or at an occurrence. *)
Places == [id : Nat, key : Int \cup {None}]

ASSUME ReadsAssumption ==
    /\ Ids \subseteq Nat /\ IsFiniteSet(Ids)
    /\ None \notin Int \cup Places
    /\ ExportLimit \in Nat /\ MaxWrites \in Nat
    /\ \A q \in Queries : q.limit \in Nat \ {0} /\ q.after \in Places \cup {None}
    /\ \A q \in Queries : q.kind = "export" => q.after = None
    /\ \A d \in Documents : IsDocument(d) /\ Expandable(d)
    /\ \A cal \in Calendars :
          /\ DOMAIN cal = Ids
          /\ \A i \in Ids : cal[i] # None => IsDocument(cal[i]) /\ Expandable(cal[i])

VARIABLES
    events,    \* the collection, by ID
    touched,   \* the events written since the reading began
    writes,    \* how many writes that were
    query,     \* the query, the same for every page
    after,     \* the cursor the next request sends
    position,  \* how far the database cursor has come
    scanned,   \* documents it has handed over
    spent,     \* occurrences they expanded to
    selected,  \* items for the page being built
    listed,    \* items of the pages received
    taken,     \* documents to be exported, as they were read
    calendar,  \* the VEVENTs of a finished export
    pc

request == <<position, scanned, spent, selected, taken>>
answer == <<after, listed, calendar>>
vars == <<events, touched, writes, query, request, answer, pc>>

Finished == {"done", "400", "413", "500"}

Init ==
    /\ events \in Calendars
    /\ touched = {} /\ writes = 0
    /\ query \in Queries
    /\ after = query.after
    /\ position = -1 /\ scanned = 0 /\ spent = 0
    /\ selected = {} /\ listed = {} /\ calendar = {}
    /\ taken = [i \in Ids |-> None]
    /\ pc = "ask"

-----------------------------------------------------------------------------
(* Items and cursors *)

Item(i, d, key) == [id |-> i, key |-> IF d.recurrence = None THEN None ELSE key]

Precedes(x, y) ==
    \/ x.id < y.id
    \/ x.id = y.id /\ x.key # None /\ y.key # None /\ x.key < y.key

FirstItems(n, items) ==
    {x \in items : Cardinality({y \in items : Precedes(y, x)}) < n}

LastItem(items) == CHOOSE x \in items : \A y \in items \ {x} : Precedes(y, x)

(* Mutated: the cursor names the item that did not fit. *)
NextCursorPastPage(items) == LastItem(FirstItems(query.limit + 1, items))

NextCursor(items) == LastItem(FirstItems(query.limit, items))

(* Mutated: the event of an occurrence cursor is listed anew. *)
SkippedBefore(item) ==
    /\ after # None /\ after.key # None
    /\ item.id = after.id
    /\ item.key # None /\ item.key < after.key

(* Items of the cursor's event up to the cursor; "" sorts before any start. *)
Skipped(item) ==
    /\ after # None /\ after.key # None
    /\ item.id = after.id
    /\ item.key = None \/ item.key <= after.key

(* Mutated: _id >= id whatever the cursor. *)
CursorPositionInclusive == IF after = None THEN -1 ELSE after.id - 1

(* _id >= id with an original start, _id > id without. *)
CursorPosition ==
    IF after = None THEN -1
    ELSE IF after.key = None THEN after.id ELSE after.id - 1

-----------------------------------------------------------------------------
(* Queries *)

Ranged == query.from # None

InvalidQuery ==
    \/ (query.from = None) # (query.to = None)
    \/ Ranged /\ query.to - query.from \notin 1 .. RangeMaxDays
    \/ ~Ranged /\ after # None /\ after.key # None

(* overlapsRange, and the same test in the query for single events.        *)
InRange(s) == s.start < query.to * DayLength /\ s.end > query.from * DayLength

Matches(d) ==
    /\ d.owner = Reader
    /\ \/ query.kind = "export" /\ ~Ranged
       \/ Ranged /\ (d.recurrence # None \/ InRange(d.schedule))
       \/ ~Ranged /\ d.recurrence = None

Chosen(d) == {key \in LiveKeys(d) : Ranged => InRange(OccurrenceSchedule(d, key))}

ScanLimit == IF query.kind = "export" THEN ExportLimit ELSE MaxScanned

(* A plain listing reads one document more than a page and needs no limit. *)
ScanLimited == query.kind = "export" \/ Ranged

MatchingAfter(place) ==
    {i \in Ids : i > place /\ events[i] # None /\ Matches(events[i])}

Ahead == MatchingAfter(position)

-----------------------------------------------------------------------------
(* Requests *)

Ask ==
    /\ pc = "ask"
    /\ pc' = IF InvalidQuery THEN "400" ELSE "read"
    /\ position' = CursorPosition
    /\ scanned' = 0 /\ spent' = 0
    /\ selected' = {}
    /\ taken' = [i \in Ids |-> None]
    /\ UNCHANGED <<events, touched, writes, query, answer>>

Expansion(d) == IF Ranged THEN Cardinality(BaseKeys(d)) ELSE 0

(* The next document of the cursor, within the limits of the request.      *)
Fetch(i) ==
    /\ pc = "read" /\ Ahead # {} /\ i = Min(Ahead)
    /\ position' = i
    /\ scanned' = scanned + 1
    /\ spent' = spent + Expansion(events[i])
    /\ ScanLimited => scanned' <= ScanLimit
    /\ spent' <= MaxExpanded

Overrun ==
    /\ pc = "read" /\ Ahead # {}
    /\ \/ ScanLimited /\ scanned + 1 > ScanLimit
       \/ spent + Expansion(events[Min(Ahead)]) > MaxExpanded
    /\ pc' = "413"
    /\ UNCHANGED <<events, touched, writes, query, request, answer>>

ItemsOf(i) == {x \in {Item(i, events[i], key) : key \in Chosen(events[i])} : ~Skipped(x)}

(* Mutated: a page may hold one item too many. *)
PageFits(items) == Cardinality(items) <= query.limit + 1

(* Mutated: the page is cut only when the cursor has run out. *)
ReadsOn(items) == TRUE

Fits(items) == Cardinality(items) <= query.limit

ListDocument(i) ==
    LET items == selected \cup ItemsOf(i) IN
    /\ query.kind = "list"
    /\ Fetch(i)
    /\ IF Fits(items)
       THEN /\ selected' = items
            /\ UNCHANGED <<after, listed, pc>>
       ELSE /\ listed' = listed \cup FirstItems(query.limit, items)
            /\ after' = NextCursor(items)
            /\ selected' = {}
            /\ pc' = "ask"
    /\ UNCHANGED <<events, touched, writes, query, taken, calendar>>

LastPage ==
    /\ query.kind = "list"
    /\ pc = "read" /\ Ahead = {}
    /\ listed' = listed \cup selected
    /\ selected' = {} /\ after' = None /\ pc' = "done"
    /\ UNCHANGED <<events, touched, writes, query, position, scanned, spent, taken, calendar>>

ExportDocument(i) ==
    /\ query.kind = "export"
    /\ Fetch(i)
    /\ taken' = IF Chosen(events[i]) = {} /\ Ranged THEN taken
                ELSE [taken EXCEPT ![i] = events[i]]
    /\ UNCHANGED <<events, touched, writes, query, selected, answer, pc>>

Entries(documents) ==
    UNION {IF documents[i] = None THEN {} ELSE Components(i, documents[i]) : i \in Ids}

(* The occurrences of these documents, before exceptions. *)
Expanded(documents, ids) == UNION {{i} \X BaseKeys(documents[i]) : i \in ids}

Repetitions(documents) ==
    Cardinality(Expanded(documents,
        {i \in Ids : documents[i] # None /\ documents[i].recurrence # None}))

TooLarge(documents) ==
    \/ Cardinality(Entries(documents)) > MaxComponents
    \/ Repetitions(documents) > MaxExpanded

(* serializeCalendar: the whole selection or an error, never a part.       *)
Serialize ==
    /\ query.kind = "export"
    /\ pc = "read" /\ Ahead = {}
    /\ IF TooLarge(taken)
       THEN pc' = "413" /\ UNCHANGED calendar
       ELSE pc' = "done" /\ calendar' = Entries(taken)
    /\ UNCHANGED <<events, touched, writes, query, request, after, listed>>

(* The database fails, or the cursor's five seconds are over.              *)
ReadFails ==
    /\ pc = "read"
    /\ pc' = "500"
    /\ UNCHANGED <<events, touched, writes, query, request, answer>>

(* Any write operation is committed: a create under an ID never used, an   *)
(* edit of any kind, or a delete.                                          *)
Write(i, d) ==
    /\ pc \notin Finished /\ writes < MaxWrites
    /\ d # events[i]
    /\ events[i] = None => i \notin touched
    /\ events[i] # None /\ d # None => d.owner = events[i].owner
    /\ events' = [events EXCEPT ![i] = d]
    /\ touched' = touched \cup {i} /\ writes' = writes + 1
    /\ UNCHANGED <<query, request, answer, pc>>

-----------------------------------------------------------------------------
Progress ==
    \/ Ask \/ Overrun \/ LastPage \/ Serialize \/ ReadFails
    \/ \E i \in Ids : ListDocument(i) \/ ExportDocument(i)

Next == Progress \/ \E i \in Ids, d \in Documents \cup {None} : Write(i, d)

Spec == Init /\ [][Next]_vars

FairSpec == Spec /\ WF_vars(Progress)

-----------------------------------------------------------------------------
(* Properties *)

(* Every variable keeps its shape and every limit of a request holds.      *)
ReadsTypeOK ==
    /\ DOMAIN events = Ids
    /\ touched \subseteq Ids /\ writes \in 0 .. MaxWrites
    /\ query \in Queries
    /\ after # None => after.id \in Nat
    /\ position \in Int
    /\ scanned \in Nat /\ spent \in 0 .. MaxExpanded
    /\ ScanLimited => scanned <= ScanLimit
    /\ Cardinality(selected) <= query.limit
    /\ pc \in {"ask", "read"} \cup Finished

(* Whatever is written between two documents or two pages, what a page adds *)
(* and what is selected for it comes after all items received before, and a *)
(* page that promises another is full: nothing is listed twice, not on the *)
(* last page either, and no page is in vain.                               *)
PagesAdvance ==
    [][/\ \A x \in listed, y \in listed' \ listed : Precedes(x, y)
       /\ pc = "read" => \A x \in listed, y \in selected : Precedes(x, y)
       /\ pc = "read" /\ pc' = "ask" =>
              Cardinality(listed' \ listed) = query.limit]_vars

(* The part of an unchanged calendar that a listing is to return: the items  *)
(* past the first cursor.                                                  *)
Due(i) ==
    LET d == events[i] IN
    IF d = None \/ ~Matches(d) THEN {}
    ELSE {x \in {Item(i, d, key) : key \in Chosen(d)} :
             query.after # None => Precedes(query.after, x)}

(* A listing that ends has every item of every event not written meanwhile,  *)
(* and no others of that event, other owners' events included              *)
(* (listCalendarOccurrences, listEvents).                                  *)
UnwrittenListed ==
    pc = "done" /\ query.kind = "list" =>
        \A i \in Ids \ touched : {x \in listed : x.id = i} = Due(i)

(* A calendar application that reads an export shows, for every event of the *)
(* selection that was not written meanwhile, exactly its occurrences, no   *)
(* shorter than they are, and nothing of other events: never a truncated   *)
(* calendar (exportCalendar, serializeCalendar).                           *)
ExportShowsCalendar ==
    pc = "done" /\ query.kind = "export" =>
        \A i \in Ids \ touched :
            Shown(calendar, i) =
                IF events[i] = None \/ ~Matches(events[i]) \/ Chosen(events[i]) = {}
                THEN {} ELSE Occurring(events[i])

(* The documents an export of the calendar as it is would have to hold.    *)
Selection ==
    [i \in Ids |->
        IF events[i] # None /\ Matches(events[i]) /\ (Ranged => Chosen(events[i]) # {})
        THEN events[i] ELSE None]

Before(i) == {j \in MatchingAfter(CursorPosition) : j < i}

(* Reading up to this document takes more than one request may.            *)
Overspent(i) ==
    LET upTo == Before(i) \cup {i} IN
    \/ ScanLimited /\ Cardinality(upTo) > ScanLimit
    \/ Ranged /\ Cardinality(Expanded(events, upTo)) > MaxExpanded

(* The documents before it bring no more than a page.                      *)
Needed(i) ==
    query.kind = "list" =>
        Cardinality(UNION {ItemsOf(j) : j \in Before(i)}) <= query.limit

(* In a calendar that nobody writes, a request for a page is refused only  *)
(* for what that page needs to be read: at a document that is past a limit, *)
(* when the documents between the cursor and it do not overfill the page.  *)
(* Neither earlier pages nor what lies behind the page counts.  (More than *)
(* MaxScanned series with at most a page of occurrences in the range are   *)
(* refused, and no cursor leads past them.)  An export is refused for the  *)
(* documents it selects or for its VEVENTs (listCalendarOccurrences,       *)
(* exportCalendar).                                                        *)
RefusedWhenTooLarge ==
    pc = "413" /\ touched = {} =>
        \/ \E i \in MatchingAfter(CursorPosition) : Needed(i) /\ Overspent(i)
        \/ query.kind = "export" /\ TooLarge(Selection)

(* Every listing comes to its last page and every export to its end, though  *)
(* others go on writing.                                                   *)
ReadingEnds == <>(pc \in Finished)

=============================================================================
