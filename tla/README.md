# Timetable backend: specifications and proofs

TLA+ modules for the timetable backend, the TLC configurations that check them
on small instances, and TLAPS proofs of what they guarantee for every instance.
Every definition is translated from the code under `src/`; comments in the
modules name the function they stand for, and `PROJECT.json` gives the lines.
What is not under `src/` (MongoDB, its driver, Agenda, the mail server) is
modelled from how the code uses it and marked external there.

## The system

| Part | State it keeps | Operations |
| --- | --- | --- |
| Calendar rules (`events/domain`, `events/recurrence`) | none | defaults, validation, expansion with exceptions, reminder projection |
| Conflict check (`services/conflicts.ts`) | none | sweep of the candidate, query, limits, merge with each event found |
| Event writes (`services/events.ts`, `mutations.ts`, `exceptions.ts`) | `events` | create, update, delete; edit, cancel, restore one occurrence |
| Owner lock (`services/write-lock.ts`) | `event_write_owners`, one transaction per write | upsert the owner's record, increment it in the transaction, run the operation, commit |
| Reminder planner (`reminders/scheduler.ts`, `planning.ts`) | `remindersPending`, `remindersNextPlanAt`, `reminder_jobs` | read due events, save jobs, acknowledge on the revision |
| Reminder delivery (`scheduler.ts`, `mail.ts`) | job outcomes | recheck, send, record, retry |
| Rate limits (`rate-limit-store.ts`, `rate-limits.ts`) | `rate_limits` | atomic fixed-window counters for an address and a user |
| Authentication (`plugins/auth.ts`) | the token table | from the header to a user, 400 or 401, between the two counters |
| Calendar pages (`services/calendar.ts`, `events.ts`) | a cursor held by the client | one page of events or occurrences |
| ICS export (`services/calendar.ts`, `http/ics.ts`) | none | select, limit, serialize |
| Startup (`plugins/init-mongo.ts`, `auth/user-store.ts`) | indexes, `users` | check for transactions, create indexes, seed profiles, listen |
| Responses, options, health | constant tables | field mapping, a ping |

API replicas share only MongoDB.  Writes of one owner meet in the owner's
coordination record; the planner and the delivery workers touch the same
`events` documents without that record, guarded by the revision alone.  The
planner and the workers meet in `reminder_jobs`, where a reminder has one
unique key.  Request limits are consulted before any of this and share nothing
with it.

### What is hard, and what correctness means

* **Owner lock and conflict check.** The check reads documents other than the
  one written, so the revision in the update's filter does not protect it; a
  transaction's snapshot is older than its lock; the driver reruns callbacks
  and retries commits.  Correct means: no double booking, each accepted write
  computed from the calendar it is committed to, one winner per revision, and
  every request ends.
* **Event writes.** Exceptions outlive the schedule they were made for; hours
  of a cancelled occurrence are taken before it is restored.  Correct means:
  every stored document expands, and every result is a sound document.
* **Reminder planner.** Edits race its acknowledgement; a batch is stale while
  it is worked off; planning fails half way.  Correct means: an acknowledged
  event has all the jobs it needs until it is planned again, and every edit is
  planned in full in the end, though a failure takes the edit's mark away.
* **Reminder delivery.** Workers die, outlive their locks, or cannot know what
  became of a message.  Correct means: no second mail without such a cause, no
  decision that ignores the event as read, and every due job ends.
* **Rate limits.** The first requests of a key race to create its counter, and
  TTL deletion removes it.  Correct means: no more than the limit in a window,
  at most twice the limit in any stretch of its length, no refusal below it.
* **Authentication.** Three hooks, two counters.  Correct means: nobody passes
  uncounted or as nobody, and no user pays for a request that is not his.
* **Calendar pages and export.** The calendar changes between two pages, and
  between two documents of one page.  Correct means: what is not written
  meanwhile is listed exactly once, every page makes progress, a page is refused
  only for what it needs itself to be read, and a calendar application shows an
  exported event's occurrences, no more and no fewer.  Paging does not get past
  everything: more than `MAX_SCANNED_EVENTS` series with at most a page of
  occurrences in the range are refused with 413 and without a cursor.
* **Startup.** Replicas of several releases start, fail and are restarted on one
  database while others serve.  Correct means: none listens before it is
  prepared, none undoes what another or an operator has saved, and every owner
  of events has a profile for the worker to find.
* **Conflict search.** Occurrences move past one another, all-day events are
  looked up by whole days, the calendar's own events may overlap.  Correct
  means: the search decides by the definition of a clash.

## The modules

`Calendar` holds the rules as operators; `EventService` what each request may
be answered from the calendar it reads (`Results`: the statuses and documents
of every handler, checks in the code's order); `EventWrites` runs requests in
transactions; `AtomicCalendar` is the promise, each request in one step.
`AtomicLimits` is the promise of `RateLimits` in the same way.
`ConflictScan` is the search behind the conflict check, against the rule in
`Calendar` that `EventService` goes by.  `IcsCalendar` says what an event is
serialized to and what a calendar application makes of it, and `CalendarReads`
pages and exports a calendar that is being written.  `Reminders` and
`RateLimits` stand on their own, and so does `Startup`, whose replicas then serve
what the others model.  `MC...` modules choose inputs and instances;
`...Theorems`, `...Proofs` and `EventWritesRefinement` hold what is proved.

### Calendar and EventService

Time is an integer line of slots; `DayLength` slots make a Hong Kong day, and
an all-day schedule is a span of whole days.  A document keeps owner, revision,
`allowConflicts`, schedule, recurrence, reminder lead times and its exceptions
(a function from original starts); text and colour decide nothing and are left
out.  `Keep` is a field that a patch omits, `Defaulted` a preference
`{enabled: true}` without lead times.  `Verdicts` is a set, because the code's
cursor order decides whether a conflict or the capacity limit is met first.

### EventWrites

`pc` follows `withEventWriteLock`: `ensure` (upsert of the coordination
record), `begin`, `lock` (the increment), `operate` (the callback), `commit`.
`snapshot`, `staged`, `writes` and `stale` are MongoDB's side of the open
transaction: the calendar it reads, what it will commit, the records it has
written, and the records that others committed after its snapshot.
`WriteConflict` is MongoDB's first-writer-wins rule; `Restart` is
`withTransaction`'s rerun.  `CommitUnheard`, `Transient`, `GiveUp`, `Crash` and
`Reap` are the failures.  `PlanRead` and `PlanAck` are the planner's read and
its update on the revision, which, being outside a transaction, waits for an
open one that wrote the event and makes later writers conflict.
`marker` is `remindersPending`, with the planner's retry told apart; `planned`
remembers what was planned last, for the properties.

### Reminders

An event is its revision, creation time and the set of its reminders; a
reminder is its key (event, start, lead time; the original start follows from
those in the instances).  `BeginPass` is `reconcile`'s query with its sort and
limit (`IsBatch` says what it returns); `SaveJob`, `FinishEvent`, `PlanningFails` and `PassLost` are the loop
over the batch, whose documents stay as first read.  `Take`, `TakeOver` and
`Finish` are Agenda's, and a worker's steps `read`, `check`, `send`, `skip`,
`record` are the awaits of `deliver`, in order, the clock being read between
`read` and `check`.  `plannedAt`, `accepted` and `mishaps` are for the
properties: when an event was last planned in full, the messages the mail
server took, and the deliveries whose outcome could not be known (an answer
lost, an outcome not saved, a worker lost before saving it, a lock that expired
under a living worker).  Agenda's concurrency limits and backoff delays are left
out: a job may be taken as soon as it is due and a failed one at once.

### ConflictScan

The variables are those of `assertNoEventConflict`: the candidate's occurrences
in the order of their present starts, the furthest end swept so far, what the
cursor has yet to yield, the events and occurrences counted, and the places `a`
and `b` of the merge.  Ties of the sort, the cursor's order and the moment at
which a limit is met are free.  The search runs in the write's transaction and
under the owner's record, so its calendar stands still; `EventWrites` models
that part.  The sweep's latest end is a maximum, as in the code.

### CalendarReads and IcsCalendar

A read takes neither lock nor snapshot.  `ListDocument` and `ExportDocument` are
one step of the database cursor, which yields the matching documents in `_id`
order, each as it is at that moment; `Write` commits any change between two
steps: a create under an ID never used before, anywhere in the order, an edit of
any kind, a delete.  A cursor names an event and, for an occurrence, its
original start.  The code compares those as strings, which order as the slots do
among timed starts and among all-day ones; only when the cursor's own event
changes from one kind to the other between two pages may they order otherwise
than the model's slots, which concerns the items of that rewritten event and no
statement about events left alone.  `Ask`, `Overrun`, `LastPage` and `ReadFails` are the request's
other ends; the client passes on each `nextCursor`.  A second has
`SecondLength` slots: `IcsCalendar` rounds starts down and ends up as `http/ics.ts`
does, and `Shown` reads the VEVENTs back by RFC 5545.

### RateLimits

A request consumes its address's counter, is authenticated on a protected
route, and consumes its user's counter for reads or for writes; `charged` is the
counter it is at.  An update that finds a counter is one step (MongoDB applies
the pipeline atomically); one that finds none takes two, `FindNone` and
`Insert`, and loses the race with `DuplicateKey`, after which it is repeated
once.  `answered = FALSE` is an update that was applied but not heard of.  The
digest comparison of tokens is a table of headers.  `log` records every
consumption, with its request, instant, window and verdict, for the properties.
`AtomicLimits` has a window and a count per counter and one step per counter on a
request's way (`Way`, `LastAnswer`); a stored counter past its end, or deleted,
is a closed window there, and `LetIn` cuts the count off at the limit, since the
code goes on counting what it refuses.

### Startup

`pc` follows `onReady`: `hello`, one stage per index or group of indexes,
`validate`, `seed`, `ready`.  The upsert of a profile is two steps, `FindProfile`
and `InsertProfile`, the loser of a race being repeated by the server
(`DuplicateKey`) or, should the error reach the loop, stopped like any other
failure (`Fail`).  A replica's token table is that of its release; a profile is
one value, well formed or not.  `edited` remembers corrections for the property
about them.  `CreateEvent` stands for every request that leaves an event of its
user.

## What is checked

| Run | Instance | Shows |
| --- | --- | --- |
| `single` | three requests of two owners out of nine inputs, one failure, scan limit 1 | no double booking, current snapshots under the lock, one winner per revision, revisions advance by one, refinement of `AtomicCalendar` |
| `series` | two requests out of 21 inputs on a series with a cancelled and an edited occurrence, two planner acknowledgements | the same refinement and double booking with exceptions, restored hours and orphans; stored documents expand; no reminder change is lost |
| `liveness` | three rivals of one owner, one failure (a crash included) | every request ends; no deleted event comes back |
| `planning` | one event with three schedules and three revisions, two overlapping planners, one failure | no gap between two plannings |
| `progress` | two events, passes of one event, a worker, one failure, an edit that makes a reminder stale | every edit is planned in full, failures and retries included, unless the clock stops before a retry's time; every due job ends; a reminder withdrawn before it is due is not mailed |
| `delivery` | an event that moves, one planner, two workers, one retry, two failures, job expiry | no duplicate without a mishap; decisions rest on the event as read |
| `limits` | three requests of one address with a known, an unknown, a malformed and no token, limits 2 and 1, four instants, windows of two | quota, burst bound, earned refusals; no request passes uncounted or charged to another; refinement of `AtomicLimits` |
| `scan` | fourteen candidates of every shape against calendars of three events | clashes found exactly, verdicts as the rule allows, the search ends |
| `reads` | five calendars of three IDs, eleven queries (plain, ranged, resumed, invalid, exports), three writes meanwhile | listed exactly once, pages advance, refusals only for what the page needs, exports shown as they are, every reading ends |
| `start_up` | three replicas of three releases, one of them with a malformed profile, two failures, one correction | listening only when prepared, corrections and owners' profiles last, replicas come up |
| `start`, `replay` | one worker | the two divergences below |

**Why the bounds are enough to be interesting.**  Two writers make every lock
race; the third in `single` lets one commit while two others hold old
snapshots.  The scan limit of one makes both capacity outcomes happen.  In
`series` a key of the series, a moved occurrence and the neighbour event compete
for the same slots, and the second revision of every document is named by some
input.  In `planning` the window, the refresh and the retry all end within the
clock's range; in `delivery` reminders fall due at two instants, one goes stale
and expires, the refresh plans its event again, and two failures allow a crash
after a takeover; in `progress` two events compete for each pass, and a worker
may die, be restarted and fail; in `limits` a window ends and the next one fills up, and the
address's limit is met before and after authentication.  In `scan` occurrences
are moved out of order, onto one another and onto the same times, an event
crosses midnight, and both limits are met.  In `reads` pages of one item end
inside a series, an event becomes a series between two pages and ceases to be
one, some calendar exceeds each limit of a request, and one has more series than
a page reads.  In `start_up` two
releases race for the same profile and differ in it, and one knows a user more.
`MaxFaults`, `MaxPasses`, `MaxTime`, `MaxRevision`, `MaxWrites` and `MaxEdits`
bound counters only.

**Symmetry.**  Requests, workers and planners are interchangeable: nothing
compares them, and every input set is closed under renaming requests (a created
event's ID is its request).  Runs with liveness properties use no symmetry.

**Deadlock** is not checked: all requests answered, or the clock at its bound,
is an ordinary end.

**Fairness.**  `EventWrites`: `WF(Steps(r))` for each request.  Replicas keep
running what they have started, the driver reruns after a conflict, and the
server reaps orphaned transactions; clients, failures and the planner owe
nothing.  Losers of a conflict are blocked only while a rival is open, so weak
fairness is enough.  `Reminders`: `WF` of each planner (a pass every five
seconds, restarted by the queue) and each worker's next step, and of taking or
taking over each due job (the queue polls and locks expire); the clock, clients,
failures and the TTL monitor owe nothing.  A clock that may stop keeps a failed
planning from its retry, so `EditsArePlanned` allows that one end: an event that
waits for ever for a retry at most `PlanRetry` ahead of the stopped clock.  `ConflictScan`: `WF(Next)`, the code
runs on.  `CalendarReads`: `WF(Progress)`, the server answers and the client
asks for the next page; writers owe nothing, and `MaxWrites` makes them stop,
since one who adds events ahead of the cursor for ever would extend a listing
for ever.  `Startup`: `WF` of each replica's steps and restarts (`restart:
unless-stopped`) and of `rs.initiate`, which the database's health check
repeats; failures are bounded.

### Divergences found

* `start` (`AdvanceBeforeStart`): the README (line 226) says advance reminders
  are never sent after the event starts.  `deliver` takes its timestamp before
  it looks the user up and talks to the mail server, and nothing bounds those
  awaits by the start.
* `replay` (`SkippedIsFinal`): the README (line 234) says that completed or
  skipped jobs are not replayed.  `deliver` returns early for `"sent"` only; a
  worker that dies between saving `"skipped"` and Agenda's unlocking leaves a
  job that the next worker decides anew, and sends if the reminder is back.

## What is proved

Every safety property, action property and refinement of the passing runs, for
every value of the constants, under named assumptions that TLC evaluates on the
instances:

* `CalendarAssumption` (sizes are natural numbers and the markers are no data),
  `RequestsAreIds`, `InputsAssumption` (inputs pass the request schemas),
  `StoredAssumption` (an earlier calendar is well typed, expands and has no
  double booking, and the IDs to be minted are free) and `BoundsAssumption` for
  the write operations;
* `ScanAssumption` (events have passed validation, and the calendar is finite)
  for the search;
* `ReadsAssumption` (queries have passed the request schema, an export has no
  cursor, documents are typed and expand, IDs are finitely many) and `IcsAssumption` (a day is a whole
  number of seconds, and `None` is no data) for reading;
* `StartupAssumption` (tables name known users and profiles, `None` and
  `Anonymous` are neither) for startup;
* `RateLimitsAssumption` for the counters; `RemindersAssumption` (the refresh
  lies within the window, and jobs outlive the grace) and `MarkersAreNoData`
  (`None` and `Deleted` are neither data nor each other) for the reminders.

| Module | Theorems |
| --- | --- |
| `CalendarTheorems` | `ConflictCheckIsSufficient`, `UnchangedScheduleKeepsReminders`, `ResultsAreSound` |
| `EventWritesProofs` | `TypeCorrect`, `NoDoubleBookings`, `StoredAlwaysExpands`, `LockedSnapshotsAreCurrent` |
| `EventWritesRefinement` | `WritesAreAtomic` (the refinement), `OneWinner`, `PlansAreCurrent`, `RevisionsAdvance`, `DeletionsAreFinal`; `ReadersMeetOrdinaryWrites`, `SearchersMeetSoundCalendars`, `PlannerMeetsPlannedWrites` (the composition) |
| `ConflictScanProofs` | `ScanTypeCorrect`, `SearchFindsClashes`, `VerdictsAreAllowed`: the search implements the definition the writes go by |
| `CalendarReadsProofs` | `ReadsTypeCorrect`, `PagesNeverGoBack`, `ListingsAreComplete`, `ExportsAreWhole`, `RefusalsAreForSize` |
| `StartupProofs` | `StartsTypeCorrect`, `ListenersArePrepared`, `CorrectionsSurvive`, `EveryOwnerHasProfile` |
| `RateLimitsProofs` | `TypeCorrect`, `WindowsKeepQuota`, `BurstsAreBounded`, `EveryRefusalEarned`, `EveryPassCounted`, `LimitsImplementIdeal` (the refinement) |
| `RemindersProofs` | `TypeCorrect`, `OneMailPerMishap`, `NoGapInPlanning`, `DecisionsAreCurrent`, `WithdrawnIsNotMailed`, `SkipsAreFinalUntilAFailure` |

### The arguments

**Writes.**  `NoDoubleBooking` is not inductive: a commit adds a document
checked against a snapshot that was taken before the lock.  `IInv` adds what
connects the two.  `SnapshotFresh`: unless another commit of the same owner was
recorded against a transaction, its snapshot agrees with the collection on that
owner's events.  `LockFresh`: a transaction past its lock has no such record,
or the increment would have met a write conflict.  `LockHeld`, `LockExclusive`:
it wrote the owner's record, and no two open transactions wrote the same one,
so no rival of that owner commits before it ends.  `OwnerEnsured` makes the
increment match a record at all.  `StagedFromSnapshot` ties what will be
committed to the snapshot it was computed from, and `ResultsAreSound` with
`SnapshotSound` says that it is harmless there.  `NotYetMinted` keeps created
IDs fresh.  `StepIInv` has one lemma per action.

**The refinement.**  `ResultsAreOwn`: a request's results depend on its owner's
events alone.  Those of the snapshot are the collection's once the record is
locked, so a commit is the step that answers the request in `AtomicCalendar`,
an answer without a write is one as well, and everything else is a stutter.
`HInv` adds the history: `PlanBehind` (a document the planner holds is at most
behind the collection, and equal at an equal revision) gives `PlannedIsCurrent`,
and `WinnersPassed` (a revision that somebody won is over) gives
`OneWinnerPerRevision`.

**The composition.** The other modules take the writers for granted, and
theorems of `EventWritesRefinement` say that they may. `OrdinaryWrite`: a change
of the collection is of one event, never another owner's, and leaves a document
that expands, as `CalendarReads` assumes of `Write`. `PlannedWrite`: an edit
that changes the reminders marks its event, each raises the revision by one, and
an acknowledgement takes the mark off the very document that was planned, as
`Reminders` assumes. `SearchedSoundly`: the calendar a request is checked
against, and what it proposes once that has passed validation, are what
`ConflictScan` assumes. `DeletionsAreFinal` is the rest for readers and planner:
an ID that is in use belongs to a create that has ended (`UsedStays`), and every
other request commits a document only where its target still exists
(`CommitEffect`).

**The search.**  The invariant says what each phase has excluded: `Swept`, no
clash among the occurrences swept, whose latest end is known; `Fetched`, none
with the events the cursor has yielded; `MergedSoFar`, none of the occurrences
that the merge has passed on either side.  `RoundingKeepsOverlap` is the whole-day
rounding: an all-day event that meets the span also meets its days.
`Counted` says what the two counters have counted of the calendar, so either
runs over only if the whole is over its limit.

**Reading.**  The items of a page are ordered by `Precedes`, and `RankIsPosition`
numbers them; so `FullPage`: a page that promises another holds exactly `limit`
items, all up to its cursor.  `Divided` says that the cursor lies after what is
listed and before what is selected, `Accounted` that of an event left alone the
items up to the cursor are listed, and those beyond it selected once it is read.
For exports, `Taken` keeps what was read of an event left alone, and
`ShownIsOccurring` is the heart: whole seconds tell the starts of a series apart
(`SecondsTellKeys`) and its repetitions keep the first one's rounding
(`SeriesInSeconds`), so rule, `EXDATE` and `RECURRENCE-ID` meet at the same
instants.  For refusals, `Spent`: while nobody writes, what a request has counted
is what it has read of the documents ahead of its cursor, each once, and the
occurrences of those (as a set of pairs, `Expanded`), and all their items are
selected for the page, which holds no more than `limit`.  The document at which
it is refused is then the one `RefusedWhenTooLarge` asks for.

**Startup.**  `Behind` is what each stage has behind it, `Seeded` that whoever
is not to be seeded any more has a profile.  Both only grow true as others write,
since nothing removes an index or a profile (`OthersUndisturbed`).

**The counters.**  `Tally`: a live counter stands at the requests let through in
its window, capped.  `Apart`: the windows of one counter do not overlap, since a
new one starts when the last has ended, so a stretch meets two at most.
`Earned` keeps, for each refusal, the requests that filled its window.  `Fresh`
says that a request is counted once per counter, and `OnItsWay` that who has
reached the user's counter passed the address's.  The same invariant makes each
answered update a step of `AtomicLimits`; `FindNone`, the lost race, its repetition
and the TTL deletion of a counter that has ended change nothing there.

**Delivery.**  `ChancesCounted`: what was accepted of a reminder, the deliveries
that may still send it and the chance that the queue begins another are at most
one more than the mishaps.  A takeover of a living worker adds a chance and a
mishap; a job that failed, or whose holder died, gives its chance back; a saved
`"sent"` ends it; a job that expired is past the time in which a worker decides
to send, which is where `Grace < Retention` is needed.  `DecisionsHold` says what
a worker's decision means for the document it read.  A withdrawn reminder:
nothing is sent before it is due (`NothingEarly`), so no worker has yet decided
to send one withdrawn by then, and none will on a document without it
(`Withheld`).  `SkipsAreFinalUntilAFailure` is the other side of the divergence
in `replay`: as long as nothing has failed, a job's holder takes it from one
state to the next without being replaced (`NoneDied`, `InOrder`), and a skipped
job is not sent.

**Planning.**  `PassesCover`: each reminder of a pass's current document is
still to be saved or has a job, whatever other passes do and until it is too old
to matter.  `PassesBehind`: an acknowledgement that matches the revision is of
the document that was planned.  With `Refresh <= Window` this leaves no gap.

### Only model-checked

All liveness (`EveryRequestEnds`, `EditsArePlanned`, `DueJobsSettle`, `ScanEnds`,
`ReadingEnds`, `ReplicasComeUp`), which is beyond the prover.  In the other
direction, the run `limits` has `AUTH_SKIP` off; the theorems cover both settings.

## What is not modelled, and the plan

* Years, leap days, the ceiling of year 9999 and other calendar dates (the
  timetable is fixed to Hong Kong time): time is an integer line.
* Text fields and their limits, HTTP parsing, headers and response schemas.
* Of the export: text, `SEQUENCE`, stamps and the limit of 16 MiB.
* Of authentication: token digests and the documented responses.
* Of delivery: Agenda's concurrency limits and backoff delays, and the worker's
  shutdown; a shutdown that unlocks a job still being delivered is a `TakeOver`.
* Of startup: options, URIs, the in-memory server, plugin registration and health
  checks, which are configuration read once or calls without state; duplicates
  that would keep a unique index from being built, which the program has no way
  to create.  With `AUTH_SKIP` the anonymous user has no profile, and reminders
  of its events fail for good; `OwnersHaveProfiles` is about authentication.

`PROJECT.json` lists each part with the reason. What is left of the plan is
`Startup` composed with `Reminders`, so that a worker's profile lookup can fail
for a user whose replica has yet to start.
