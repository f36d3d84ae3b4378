--------------------------- MODULE AtomicCalendar ---------------------------
(***************************************************************************)
(* What the write side of the API promises: every accepted request changes *)
(* the calendar in one step, computed from the calendar as it is at that   *)
(* step, and a refusal is one the current calendar justifies.  A client    *)
(* may lose the answer of a request, applied or not.  The reminder planner *)
(* likewise plans an event from its current document in one step.          *)
(***************************************************************************)
EXTENDS EventService

CONSTANTS
    Requests,         \* one for each write a client sends
    Inputs,           \* the requests clients may send
    StoredCalendars   \* the calendars an earlier run may have left

VARIABLES
    events,    \* the events collection
    marker,    \* per event: remindersPending and the planner's retry
    planned,   \* per event: the reminders its last planning scheduled
    request,   \* per request: the operation sent
    status,    \* per request: where it is, as its client sees it
    outcome    \* per request: the HTTP status it earned, 0 before

vars == <<events, marker, planned, request, status, outcome>>

Init ==
    /\ events \in StoredCalendars
    /\ marker = [i \in Ids |-> "pending"]
    /\ planned = [i \in Ids |-> {}]
    /\ request = [r \in Requests |-> None]
    /\ status = [r \in Requests |-> "idle"]
    /\ outcome = [r \in Requests |-> 0]

Submit(r, q) ==
    /\ status[r] = "idle"
    /\ request' = [request EXCEPT ![r] = q]
    /\ status' = [status EXCEPT ![r] = "waiting"]
    /\ UNCHANGED <<events, marker, planned, outcome>>

Apply(r) ==
    LET id == Target(request[r], r) IN
    /\ status[r] = "waiting"
    /\ \E result \in Results(request[r], r, events) :
          /\ outcome' = [outcome EXCEPT ![r] = result.status]
          /\ IF result.write
             THEN /\ events' = [events EXCEPT ![id] = result.doc]
                  /\ marker' = [marker EXCEPT ![id] =
                         IF result.replan \/ result.doc = None THEN "pending" ELSE @]
                  /\ planned' = [planned EXCEPT ![id] =
                         IF result.doc = None THEN {} ELSE @]
             ELSE UNCHANGED <<events, marker, planned>>
    /\ \E s \in {"answered", "lost"} : status' = [status EXCEPT ![r] = s]
    /\ UNCHANGED request

Drop(r) ==
    /\ status[r] = "waiting"
    /\ status' = [status EXCEPT ![r] = "lost"]
    /\ UNCHANGED <<events, marker, planned, request, outcome>>

Plan(i) ==
    /\ events[i] # None
    /\ \/ /\ marker' = [marker EXCEPT ![i] = "planned"]
          /\ planned' = [planned EXCEPT ![i] = Reminders(events[i])]
       \/ /\ marker' = [marker EXCEPT ![i] = "retry"]
          /\ UNCHANGED planned
    /\ UNCHANGED <<events, request, status, outcome>>

Next ==
    \/ \E r \in Requests :
          (\E q \in Inputs : Submit(r, q)) \/ Apply(r) \/ Drop(r)
    \/ \E i \in Ids : Plan(i)

Spec == Init /\ [][Next]_vars

=============================================================================
