----------------------------- MODULE AtomicLimits -----------------------------
(***************************************************************************)
(* What rate limiting promises: a counter lets a fixed number of requests  *)
(* through from the first of them until its window ends, and each request  *)
(* is counted, refused or failed in one step per counter on its way.  How  *)
(* a counter comes into being, how it is cleaned up and how often a        *)
(* request tries is nothing a client could tell.                           *)
(***************************************************************************)
EXTENDS Integers, Sequences

CONSTANTS
    Requests,     \* HTTP requests
    Inputs,       \* what they may carry
    Counters,     \* one per address, and per user for reads and for writes
    Quota,        \* of each: the requests it lets through in a window
    TimeWindow,   \* the length of a window
    MaxTime,      \* a bound on the clock
    Route,        \* by input: the counters on a request's way
    Answer        \* by input: how it is answered at the end of its way

VARIABLES
    now,      \* the server's clock
    input,    \* what each request carries
    ends,     \* per counter: when its window ends, 0 if none is open
    used,     \* per counter: the requests let through in that window
    stage,    \* per request: the counters it has come to
    status    \* per request: "waiting", or its answer

vars == <<now, input, ends, used, stage, status>>

Init ==
    /\ now = 0
    /\ input \in [Requests -> Inputs]
    /\ ends = [k \in Counters |-> 0]
    /\ used = [k \in Counters |-> 0]
    /\ stage = [r \in Requests |-> 1]
    /\ status = [r \in Requests |-> "waiting"]

(* Windows end by time alone.                                              *)
Tick ==
    LET open(k) == ends[k] > now + 1 IN
    /\ now < MaxTime /\ now' = now + 1
    /\ ends' = [k \in Counters |-> IF open(k) THEN ends[k] ELSE 0]
    /\ used' = [k \in Counters |-> IF open(k) THEN used[k] ELSE 0]
    /\ UNCHANGED <<input, stage, status>>

At(r) == Route[input[r]][stage[r]]

(* The first request opens the window.                                     *)
Count(k) ==
    /\ used[k] < Quota[k]
    /\ used' = [used EXCEPT ![k] = @ + 1]
    /\ ends' = [ends EXCEPT ![k] = IF @ = 0 THEN now + TimeWindow ELSE @]

Respond(r, answer) == status' = [status EXCEPT ![r] = answer] /\ UNCHANGED stage

Pass(r) ==
    /\ status[r] = "waiting"
    /\ Count(At(r))
    /\ IF stage[r] < Len(Route[input[r]])
       THEN stage' = [stage EXCEPT ![r] = @ + 1] /\ UNCHANGED status
       ELSE Respond(r, Answer[input[r]])
    /\ UNCHANGED <<now, input>>

(* Only an exhausted counter refuses.                                      *)
Refuse(r) ==
    /\ status[r] = "waiting"
    /\ used[At(r)] = Quota[At(r)]
    /\ Respond(r, "429")
    /\ UNCHANGED <<now, input, ends, used>>

(* The database fails: the request may have been counted, but not passed.  *)
Fail(r) ==
    /\ status[r] = "waiting"
    /\ Count(At(r)) \/ UNCHANGED <<ends, used>>
    /\ Respond(r, "503")
    /\ UNCHANGED <<now, input>>

Next == Tick \/ \E r \in Requests : Pass(r) \/ Refuse(r) \/ Fail(r)

Spec == Init /\ [][Next]_vars

=============================================================================
