----------------------------- MODULE RateLimits -----------------------------
(***************************************************************************)
(* The way of a request to its handler: it consumes the counter of its     *)
(* address, is authenticated, and consumes its user's counter for reads or *)
(* for writes.  Counters are fixed windows that all replicas share in      *)
(* MongoDB; each consumption is one update that the server applies         *)
(* atomically, but the first one of a key is an upsert that two requests   *)
(* may race.  A TTL index deletes expired counters at its leisure.         *)
(***************************************************************************)
EXTENDS Integers, FiniteSets

CONSTANTS
    Requests,      \* HTTP requests
    Inputs,        \* what they may carry: address, header, protected, write
    Bearers,       \* headers "Bearer <token>" of the token table
    BearerOf,      \* the user of each of them
    Malformed,     \* headers of another form or scheme
    AuthSkip,      \* AUTH_SKIP
    Anonymous,     \* the user of all requests then
    Max,           \* requests per window, by scope
    TimeWindow,    \* rateLimitWindowMs
    None,          \* an absent counter, header or user
    MaxTime        \* a bound on the clock

Addresses == {i.address : i \in Inputs}
Users == {BearerOf[h] : h \in Bearers} \cup {Anonymous}

Counters ==
    [scope : {"ip"}, key : Addresses]
        \cup [scope : {"user-read", "user-write"}, key : Users]

ASSUME RateLimitsAssumption ==
    /\ Max \in [{"ip", "user-read", "user-write"} -> Nat \ {0}]
    /\ TimeWindow \in Nat \ {0}
    /\ MaxTime \in Nat
    /\ AuthSkip \in BOOLEAN
    /\ \A i \in Inputs : {i.protected, i.write} \subseteq BOOLEAN
    /\ None \notin Users \cup Counters \cup Bearers
    /\ None \notin [current : Nat, expiresAt : Nat]
    /\ Malformed \cap Bearers = {}

VARIABLES
    now,        \* $$NOW of the server
    counter,    \* rate_limits: current and expiresAt, or None
    input,      \* what each request carries
    charged,    \* per request: the counter it is at
    pc,         \* per request: where it is, in the end the answer's status
    log         \* per counter: the consumptions so far, each with its
                \* request, time, the end of its window and its verdict

vars == <<now, counter, input, charged, pc, log>>

Waiting == {"consume", "insert", "again", "insert again"}
Statuses == {"served", "400", "401", "429", "503"}

IpCounter(i) == [scope |-> "ip", key |-> i.address]

Init ==
    /\ now = 0
    /\ counter = [k \in Counters |-> None]
    /\ input \in [Requests -> Inputs]
    /\ charged = [r \in Requests |-> IpCounter(input[r])]
    /\ pc = [r \in Requests |-> "consume"]
    /\ log = [k \in Counters |-> {}]

Tick ==
    /\ now < MaxTime /\ now' = now + 1
    /\ UNCHANGED <<counter, input, charged, pc, log>>

-----------------------------------------------------------------------------
(* Authentication *)

(* The user that a request of a protected route is authenticated as.       *)
UserOf(i) ==
    IF AuthSkip THEN Anonymous
    ELSE IF i.header \in Bearers THEN BearerOf[i.header]
    ELSE None

(* Without a user: a header of the wrong form is a bad request, none or an *)
(* unknown token unauthorized.                                             *)
Rejection(i) == IF i.header \in Malformed THEN "400" ELSE "401"

UserCounter(i) ==
    [scope |-> IF i.write THEN "user-write" ELSE "user-read", key |-> UserOf(i)]

-----------------------------------------------------------------------------
(* Counters *)

Limit(k) == Max[k.scope]

Live(k) == counter[k] # None /\ counter[k].expiresAt > now

(* Mutated: a window that has ended goes on counting. *)
ConsumedForEver(k) ==
    IF counter[k] # None
    THEN [counter[k] EXCEPT !.current = IF @ > Limit(k) THEN @ ELSE @ + 1]
    ELSE [current |-> 1, expiresAt |-> now + TimeWindow]

(* Mutated: a window counts on past its limit. *)
ConsumedUncapped(k) ==
    IF Live(k) THEN [counter[k] EXCEPT !.current = @ + 1]
    ELSE [current |-> 1, expiresAt |-> now + TimeWindow]

(* The counter after one more request: a live one counts up to one past    *)
(* its limit, any other starts a window.                                   *)
Consumed(k) ==
    IF Live(k)
    THEN [counter[k] EXCEPT !.current = IF @ > Limit(k) THEN @ ELSE @ + 1]
    ELSE [current |-> 1, expiresAt |-> now + TimeWindow]

Allowed(k) == Consumed(k).current <= Limit(k)

Respond(r, status) == pc' = [pc EXCEPT ![r] = status] /\ UNCHANGED charged

(* Past the address: on to authentication and to the user's counter.       *)
Proceed(r) ==
    LET i == input[r] IN
    IF charged[r].scope # "ip" \/ ~i.protected THEN Respond(r, "served")
    ELSE IF UserOf(i) = None THEN Respond(r, Rejection(i))
    ELSE /\ charged' = [charged EXCEPT ![r] = UserCounter(i)]
         /\ pc' = [pc EXCEPT ![r] = "consume"]

(* Mutated: a counter that does not answer lets everybody through.         *)
PassesFailingOpen(k, answered) == answered => Allowed(k)

Passes(k, answered) == answered /\ Allowed(k)

(* The update reaches the server, whose answer decides for the request, or *)
(* is lost: then the request is refused, though counted.                   *)
Consume(r, answered) ==
    LET k == charged[r] IN
    /\ counter' = [counter EXCEPT ![k] = Consumed(k)]
    /\ log' = [log EXCEPT ![k] = @ \cup
           {[request |-> r, at |-> now, window |-> Consumed(k).expiresAt, allowed |-> Allowed(k)]}]
    /\ IF Passes(k, answered)
       THEN Proceed(r)
       ELSE Respond(r, IF answered THEN "429" ELSE "503")
    /\ UNCHANGED <<now, input>>

UpdateExisting(r, answered) ==
    /\ pc[r] \in {"consume", "again"}
    /\ counter[charged[r]] # None
    /\ Consume(r, answered)

(* The upsert finds no counter and is about to insert one.                 *)
FindNone(r) ==
    /\ pc[r] \in {"consume", "again"}
    /\ counter[charged[r]] = None
    /\ pc' = [pc EXCEPT ![r] = IF @ = "consume" THEN "insert" ELSE "insert again"]
    /\ UNCHANGED <<now, counter, input, charged, log>>

Insert(r, answered) ==
    /\ pc[r] \in {"insert", "insert again"}
    /\ counter[charged[r]] = None
    /\ Consume(r, answered)

(* Mutated: whoever loses the race to insert passes uncounted. *)
DuplicateKeyPasses(r) ==
    /\ pc[r] \in {"insert", "insert again"}
    /\ counter[charged[r]] # None
    /\ log' = [log EXCEPT ![charged[r]] = @ \cup
           {[request |-> r, at |-> now, window |-> now + TimeWindow, allowed |-> TRUE]}]
    /\ Respond(r, "served")
    /\ UNCHANGED <<now, counter, input>>

(* Mutated: whoever loses the race twice is told to slow down. *)
DuplicateKeyRefuses(r) ==
    /\ pc[r] \in {"insert", "insert again"}
    /\ counter[charged[r]] # None
    /\ Respond(r, IF pc[r] = "insert" THEN "again" ELSE "429")
    /\ UNCHANGED <<now, counter, input, log>>

(* Another request inserted it first: the update is repeated once.         *)
DuplicateKey(r) ==
    /\ pc[r] \in {"insert", "insert again"}
    /\ counter[charged[r]] # None
    /\ Respond(r, IF pc[r] = "insert" THEN "again" ELSE "503")
    /\ UNCHANGED <<now, counter, input, log>>

(* An error or the five-second limit before the update.                    *)
Unreachable(r) ==
    /\ pc[r] \in Waiting
    /\ Respond(r, "503")
    /\ UNCHANGED <<now, counter, input, log>>

(* Mutated: the index deletes whatever it finds. *)
CleanAny(k) ==
    /\ counter[k] # None
    /\ counter' = [counter EXCEPT ![k] = None]
    /\ UNCHANGED <<now, input, charged, pc, log>>

(* The TTL index: never a live counter.                                    *)
Clean(k) ==
    /\ counter[k] # None /\ ~Live(k)
    /\ counter' = [counter EXCEPT ![k] = None]
    /\ UNCHANGED <<now, input, charged, pc, log>>

-----------------------------------------------------------------------------
Next ==
    \/ Tick
    \/ \E r \in Requests :
          \/ \E answered \in BOOLEAN : UpdateExisting(r, answered) \/ Insert(r, answered)
          \/ FindNone(r) \/ DuplicateKey(r) \/ Unreachable(r)
    \/ \E k \in Counters : Clean(k)

Spec == Init /\ [][Next]_vars

-----------------------------------------------------------------------------
(* Properties *)

(* Every variable keeps its shape, and counters stop one past their limit. *)
TypeOK ==
    /\ now \in 0 .. MaxTime
    /\ counter \in [Counters -> {None} \cup [current : Nat, expiresAt : Nat]]
    /\ \A k \in Counters : counter[k] # None => counter[k].current \in 1 .. Limit(k) + 1
    /\ input \in [Requests -> Inputs]
    /\ charged \in [Requests -> Counters]
    /\ pc \in [Requests -> Waiting \cup Statuses]
    /\ log \in [Counters -> SUBSET [request : Requests, at : 0 .. MaxTime,
                                    window : Nat, allowed : BOOLEAN]]

Grants(k, from, to) == {x \in log[k] : x.allowed /\ x.at \in from .. to}

(* A counter lets through at most Limit requests in its window: races to   *)
(* create it, lost answers and the TTL index included (consume).           *)
WindowQuota ==
    \A k \in Counters : Live(k) =>
        Cardinality(Grants(k, counter[k].expiresAt - TimeWindow, now)) <= Limit(k)

(* Over any stretch of one window's length at most twice the limit passes: *)
(* a new window starts only when the one before has ended.                 *)
BurstBound ==
    \A k \in Counters, t \in 0 .. MaxTime :
        Cardinality(Grants(k, t, t + TimeWindow - 1)) <= 2 * Limit(k)

(* Nobody is refused below the limit: Limit requests were let through less *)
(* than a window before each refusal.                                      *)
RefusalsAreEarned ==
    \A k \in Counters : \A x \in log[k] : ~x.allowed =>
        Cardinality(Grants(k, x.at - TimeWindow + 1, x.at)) >= Limit(k)

LetThrough(k, r) == \E x \in log[k] : x.request = r /\ x.allowed

(* No request reaches its handler past a counter that did not let it       *)
(* through, or without a user where one is required; and no user is        *)
(* charged for a request that is not his, or that its address' counter     *)
(* refused: failures reject, and the order of the hooks holds              *)
(* (enforce, authenticateRequest).                                         *)
PassesAreCounted ==
    /\ \A r \in Requests : pc[r] = "served" =>
          /\ LetThrough(IpCounter(input[r]), r)
          /\ input[r].protected =>
                UserOf(input[r]) # None /\ LetThrough(UserCounter(input[r]), r)
    /\ \A k \in Counters : \A x \in log[k] : k.scope # "ip" =>
          /\ input[x.request].protected /\ k = UserCounter(input[x.request])
          /\ LetThrough(IpCounter(input[x.request]), x.request)

(* The counters a request comes to, and its answer if all let it through.  *)
Way(i) ==
    IF i.protected /\ UserOf(i) # None THEN <<IpCounter(i), UserCounter(i)>>
    ELSE <<IpCounter(i)>>

LastAnswer(i) == IF i.protected /\ UserOf(i) = None THEN Rejection(i) ELSE "served"

LetIn(k) ==
    IF ~Live(k) THEN 0
    ELSE IF counter[k].current > Limit(k) THEN Limit(k) ELSE counter[k].current

Ideal == INSTANCE AtomicLimits WITH
    Quota <- [k \in Counters |-> Limit(k)],
    Route <- [i \in Inputs |-> Way(i)],
    Answer <- [i \in Inputs |-> LastAnswer(i)],
    ends <- [k \in Counters |-> IF Live(k) THEN counter[k].expiresAt ELSE 0],
    used <- [k \in Counters |-> LetIn(k)],
    stage <- [r \in Requests |-> IF charged[r].scope = "ip" THEN 1 ELSE 2],
    status <- [r \in Requests |-> IF pc[r] \in Waiting THEN "waiting" ELSE pc[r]]

(* Each request is counted and answered as if by ideal counters, in one    *)
(* step per counter: the race to create one, its repetition, deletions by  *)
(* the TTL index and counting past the limit cannot be told from outside,  *)
(* and only an exhausted counter answers 429 (consume, enforce).           *)
LimitsAreIdeal == Ideal!Spec

=============================================================================
