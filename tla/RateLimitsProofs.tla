-------------------------- MODULE RateLimitsProofs ---------------------------
(***************************************************************************)
(* What RateLimits promises, for any number of requests, addresses, users  *)
(* and tokens, any limits and any length of the window.                    *)
(*                                                                         *)
(* The argument: a request consumes a counter at most once (Fresh), the    *)
(* windows of a counter do not overlap (Apart, Current), a live counter    *)
(* holds the number of requests it let through up to its limit (Tally),    *)
(* and a refusal comes when that number is reached (Earned).  The same     *)
(* invariant gives the refinement of AtomicLimits: the windows and counts  *)
(* of the ideal counters can be read off the log and the stored counters,  *)
(* an update that is answered is a step there, and the race to create a    *)
(* counter, its repetition and its deletion by age are stutters.           *)
(***************************************************************************)
EXTENDS RateLimits, Sequences, FiniteSetTheorems, TLAPS

Granted(k, w) == {x \in log[k] : x.window = w /\ x.allowed}

(* A consumption lies in its window.                                       *)
Placed ==
    \A k \in Counters : \A x \in log[k] :
        x.at <= now /\ x.window - TimeWindow <= x.at /\ x.at < x.window

(* The windows of a counter are apart by their length.                     *)
Apart ==
    \A k \in Counters : \A x, y \in log[k] :
        \/ x.window = y.window
        \/ x.window + TimeWindow <= y.window
        \/ y.window + TimeWindow <= x.window

(* Without a live counter all windows are over; a live one has the last.   *)
Current ==
    \A k \in Counters :
        /\ ~Live(k) => \A x \in log[k] : x.window <= now
        /\ Live(k) =>
              /\ counter[k].expiresAt <= now + TimeWindow
              /\ \A x \in log[k] : \/ x.window = counter[k].expiresAt
                                   \/ x.window <= counter[k].expiresAt - TimeWindow

Tally ==
    \A k \in Counters :
        /\ \A w \in Nat : /\ IsFiniteSet(Granted(k, w))
                          /\ Cardinality(Granted(k, w)) <= Limit(k)
        /\ Live(k) =>
              Cardinality(Granted(k, counter[k].expiresAt)) =
                  IF counter[k].current <= Limit(k) THEN counter[k].current ELSE Limit(k)

Earned ==
    \A k \in Counters : \A x \in log[k] : ~x.allowed =>
        /\ Cardinality(Granted(k, x.window)) = Limit(k)
        /\ \A y \in Granted(k, x.window) : y.at <= x.at

(* A request that waits has been counted by its address at most, and only  *)
(* if it waits for its user's counter.                                     *)
Fresh ==
    \A k \in Counters : \A x \in log[k] :
        pc[x.request] \in Waiting => k.scope = "ip" /\ charged[x.request].scope # "ip"

(* A request is at its address' counter, or at its user's counter and has  *)
(* been let through by the other.                                          *)
OnItsWay ==
    \A r \in Requests : pc[r] \in Waiting =>
        \/ charged[r] = IpCounter(input[r])
        \/ /\ charged[r] = UserCounter(input[r])
           /\ input[r].protected /\ UserOf(input[r]) # None
           /\ LetThrough(IpCounter(input[r]), r)

Inv ==
    /\ TypeOK /\ Placed /\ Apart /\ Current /\ Tally /\ Earned /\ Fresh
    /\ OnItsWay /\ PassesAreCounted

-----------------------------------------------------------------------------
(* Operators *)

LEMMA CounterTypes ==
    ASSUME NEW i \in Inputs
    PROVE  /\ IpCounter(i) \in Counters /\ IpCounter(i).scope = "ip"
           /\ UserOf(i) # None =>
                UserCounter(i) \in Counters /\ UserCounter(i).scope # "ip"
BY RateLimitsAssumption DEF Counters, Addresses, Users, IpCounter, UserCounter, UserOf

LEMMA LimitType ==
    ASSUME NEW k \in Counters
    PROVE  Limit(k) \in Nat /\ Limit(k) >= 1
BY RateLimitsAssumption DEF Counters, Limit

(* A new window starts at one, a live one counts up to past its limit.     *)
LEMMA ConsumedValue ==
    ASSUME TypeOK, NEW k \in Counters
    PROVE  /\ Consumed(k) \in [current : Nat, expiresAt : Nat]
           /\ Consumed(k).current \in 1 .. Limit(k) + 1
           /\ Consumed(k) # None
           /\ Live(k) => /\ counter[k] \in [current : Nat, expiresAt : Nat]
                         /\ Consumed(k).expiresAt = counter[k].expiresAt
                         /\ Consumed(k).current =
                              IF counter[k].current > Limit(k) THEN counter[k].current
                              ELSE counter[k].current + 1
           /\ ~Live(k) => /\ Consumed(k).expiresAt = now + TimeWindow
                          /\ Consumed(k).current = 1
<1>1. Limit(k) \in Nat /\ Limit(k) >= 1 /\ TimeWindow \in Nat /\ now \in Nat
  BY LimitType, RateLimitsAssumption DEF TypeOK
<1>2. None \notin [current : Nat, expiresAt : Nat]
  BY RateLimitsAssumption
<1>3. CASE Live(k)
  <2>1. /\ counter[k] \in [current : Nat, expiresAt : Nat]
        /\ counter[k].current \in 1 .. Limit(k) + 1
    BY <1>3 DEF TypeOK, Live
  <2> QED
    BY <1>1, <1>2, <1>3, <2>1 DEF Consumed
<1>4. CASE ~Live(k)
  BY <1>1, <1>2, <1>4 DEF Consumed
<1> QED
  BY <1>3, <1>4

-----------------------------------------------------------------------------
(* The four kinds of steps *)

(* A waiting request consumes the counter it is at.                        *)
Counting(r, answered) == pc[r] \in Waiting /\ Consume(r, answered)

(* It waits on or is refused for a failure.                                *)
Marking(r) ==
    /\ pc[r] \in Waiting
    /\ \E s \in Waiting \cup {"503"} : pc' = [pc EXCEPT ![r] = s]
    /\ UNCHANGED <<now, counter, input, charged, log>>

LEMMA KindsOfSteps ==
    ASSUME Next
    PROVE  \/ Tick
           \/ \E r \in Requests, answered \in BOOLEAN : Counting(r, answered)
           \/ \E r \in Requests : Marking(r)
           \/ \E k \in Counters : Clean(k)
<1>1. ASSUME NEW r \in Requests, NEW answered \in BOOLEAN,
             UpdateExisting(r, answered) \/ Insert(r, answered)
      PROVE  Counting(r, answered)
  BY <1>1 DEF UpdateExisting, Insert, Counting, Waiting
<1>2. ASSUME NEW r \in Requests, FindNone(r) \/ DuplicateKey(r) \/ Unreachable(r)
      PROVE  Marking(r)
  BY <1>2 DEF FindNone, DuplicateKey, Unreachable, Respond, Marking, Waiting
<1> QED
  BY <1>1, <1>2 DEF Next

-----------------------------------------------------------------------------
(* The inductive invariant *)

LEMMA InvInit ==
    Init => Inv
<1> SUFFICES ASSUME Init
             PROVE  Inv
  OBVIOUS
<1> USE DEF Init
<1>1. TypeOK
  <2>1. charged \in [Requests -> Counters]
    BY CounterTypes
  <2> QED
    BY <2>1, RateLimitsAssumption DEF TypeOK, Waiting
<1>2. \A k \in Counters : log[k] = {} /\ ~Live(k)
  BY DEF Live
<1>3. Placed /\ Apart /\ Current /\ Earned /\ Fresh
  BY <1>2 DEF Placed, Apart, Current, Earned, Fresh
<1>4. Tally
  <2>1. \A k \in Counters, w \in Nat : Granted(k, w) = {}
    BY <1>2 DEF Granted
  <2> QED
    BY <1>2, <2>1, LimitType, FS_EmptySet DEF Tally
<1>5. OnItsWay /\ PassesAreCounted
  BY <1>2 DEF OnItsWay, PassesAreCounted
<1> QED
  BY <1>1, <1>3, <1>4, <1>5 DEF Inv

LEMMA InvTick ==
    ASSUME Inv, Tick
    PROVE  Inv'
<1> USE DEF Inv, Tick
<1>1. TypeOK'
  BY RateLimitsAssumption DEF TypeOK, Limit
<1>2. now \in Nat /\ TimeWindow \in Nat /\ now' = now + 1
  BY RateLimitsAssumption DEF TypeOK
<1>3. \A k \in Counters : Live(k)' => Live(k)
  <2> SUFFICES ASSUME NEW k \in Counters, counter[k] # None
               PROVE  counter[k].expiresAt \in Nat
    BY <1>2 DEF Live
  <2> QED
    BY DEF TypeOK
<1>4. \A k \in Counters : \A x \in log[k] : x.at \in Nat /\ x.window \in Nat
  BY DEF TypeOK
<1>5. Placed'
  BY <1>2, <1>4 DEF Placed
<1>6. Apart' /\ Earned' /\ Fresh' /\ OnItsWay' /\ PassesAreCounted'
  BY DEF Apart, Earned, Granted, Fresh, OnItsWay, PassesAreCounted, LetThrough, Limit
<1>7. Current'
  <2> SUFFICES ASSUME NEW k \in Counters
               PROVE  /\ ~Live(k)' => \A x \in log[k] : x.window <= now'
                      /\ Live(k)' =>
                            /\ counter[k].expiresAt <= now' + TimeWindow
                            /\ \A x \in log[k] : \/ x.window = counter[k].expiresAt
                                                 \/ x.window <= counter[k].expiresAt - TimeWindow
    BY DEF Current
  <2>1. CASE ~Live(k)
    BY <2>1, <1>2, <1>3, <1>4 DEF Current
  <2>2. CASE Live(k)
    <3>1. counter[k].expiresAt \in Nat
      BY <2>2 DEF TypeOK, Live
    <3> QED
      BY <2>2, <3>1, <1>2, <1>4 DEF Current, Live
  <2> QED
    BY <2>1, <2>2
<1>8. Tally'
  BY <1>3 DEF Tally, Granted, Limit
<1> QED
  BY <1>1, <1>5, <1>6, <1>7, <1>8

LEMMA InvMarking ==
    ASSUME Inv, NEW r \in Requests, Marking(r)
    PROVE  Inv'
<1> USE DEF Inv
<1>1. PICK s \in Waiting \cup {"503"} : pc' = [pc EXCEPT ![r] = s]
  BY DEF Marking
<1>2. pc[r] \in Waiting /\ UNCHANGED <<now, counter, input, charged, log>>
  BY DEF Marking
<1>3. TypeOK'
  BY <1>1, <1>2 DEF TypeOK, Statuses, Limit
<1>4. \A q \in Requests : pc'[q] \in Waiting => pc[q] \in Waiting
  BY <1>1, <1>2 DEF TypeOK
<1>5. \A q \in Requests : pc'[q] = "served" => pc[q] = "served"
  BY <1>1, <1>2 DEF TypeOK, Waiting
<1>6. Placed' /\ Apart' /\ Current' /\ Tally' /\ Earned'
  BY <1>2 DEF Placed, Apart, Current, Live, Tally, Granted, Earned, Limit
<1>7. Fresh'
  BY <1>2, <1>4 DEF Fresh, TypeOK
<1>8. OnItsWay' /\ PassesAreCounted'
  BY <1>2, <1>4, <1>5 DEF OnItsWay, PassesAreCounted, LetThrough
<1> QED
  BY <1>3, <1>6, <1>7, <1>8

LEMMA InvClean ==
    ASSUME Inv, NEW k \in Counters, Clean(k)
    PROVE  Inv'
<1> USE DEF Inv
<1>1. TypeOK'
  BY DEF TypeOK, Limit, Clean
<1>2. \A j \in Counters : Live(j)' <=> Live(j)
  BY DEF TypeOK, Live, Clean
<1>3. \A j \in Counters : Live(j) => counter'[j] = counter[j]
  BY DEF TypeOK, Clean
<1>4. UNCHANGED <<now, input, charged, pc, log>>
  BY DEF Clean
<1>5. Placed' /\ Apart' /\ Earned' /\ Fresh'
  BY <1>4 DEF Placed, Apart, Earned, Granted, Fresh, Limit
<1>6. OnItsWay' /\ PassesAreCounted'
  BY <1>4 DEF OnItsWay, PassesAreCounted, LetThrough
<1>7. Current'
  BY <1>2, <1>3, <1>4 DEF Current
<1>8. Tally'
  BY <1>2, <1>3, <1>4 DEF Tally, Granted, Limit
<1> QED
  BY <1>1, <1>5, <1>6, <1>7, <1>8

-----------------------------------------------------------------------------
(* Counting a request *)

(* It is answered, or goes on to its user's counter.                       *)
LEMMA Outcomes ==
    ASSUME TypeOK, NEW r \in Requests, NEW answered \in BOOLEAN, Consume(r, answered)
    PROVE  \/ /\ \E s \in Statuses :
                    /\ pc' = [pc EXCEPT ![r] = s]
                    /\ s = "served" => /\ Allowed(charged[r])
                                       /\ charged[r].scope # "ip" \/ ~input[r].protected
              /\ charged' = charged
           \/ /\ pc' = [pc EXCEPT ![r] = "consume"]
              /\ charged' = [charged EXCEPT ![r] = UserCounter(input[r])]
              /\ charged[r].scope = "ip" /\ Allowed(charged[r])
              /\ input[r].protected /\ UserOf(input[r]) # None
<1>1. CASE ~Passes(charged[r], answered)
  <2>1. /\ pc' = [pc EXCEPT ![r] = IF answered THEN "429" ELSE "503"]
        /\ charged' = charged
    BY <1>1 DEF Consume, Respond
  <2> QED
    BY <2>1 DEF Statuses
<1>2. CASE Passes(charged[r], answered)
  <2>1. Proceed(r) /\ Allowed(charged[r])
    BY <1>2 DEF Consume, Passes
  <2>2. CASE charged[r].scope # "ip" \/ ~input[r].protected
    BY <2>1, <2>2 DEF Proceed, Respond, Statuses
  <2>3. CASE ~(charged[r].scope # "ip" \/ ~input[r].protected)
    BY <2>1, <2>3 DEF Proceed, Respond, Statuses, Rejection
  <2> QED
    BY <2>2, <2>3
<1> QED
  BY <1>1, <1>2

LEMMA InvCounting ==
    ASSUME Inv, NEW r \in Requests, NEW answered \in BOOLEAN, Counting(r, answered)
    PROVE  Inv'
<1> USE DEF Inv
<1>k. PICK k \in Counters : k = charged[r]
  BY DEF TypeOK
<1>w. PICK w \in Nat : w = Consumed(k).expiresAt
  BY ConsumedValue
<1>e. PICK e : e = [request |-> r, at |-> now, window |-> w, allowed |-> Allowed(k)]
  OBVIOUS
<1>1. /\ input[r] \in Inputs
      /\ pc[r] \in Waiting
      /\ now \in Nat /\ now \in 0 .. MaxTime
      /\ TimeWindow \in Nat /\ TimeWindow >= 1
      /\ Limit(k) \in Nat /\ Limit(k) >= 1
  BY LimitType, RateLimitsAssumption DEF TypeOK, Counting
<1>2. /\ counter' = [counter EXCEPT ![k] = Consumed(k)]
      /\ log' = [log EXCEPT ![k] = @ \cup {e}]
      /\ UNCHANGED <<now, input>>
  BY <1>k, <1>w, <1>e DEF Counting, Consume
<1>3. /\ log'[k] = log[k] \cup {e}
      /\ \A j \in Counters \ {k} : log'[j] = log[j] /\ counter'[j] = counter[j]
      /\ counter'[k] = Consumed(k)
      /\ \A j \in Counters : log[j] \subseteq log'[j]
  BY <1>1, <1>2 DEF TypeOK
<1>4. \A x \in log[k] : x.request # r
  BY <1>1, <1>k DEF Fresh
<1>5. /\ Consumed(k) \in [current : Nat, expiresAt : Nat]
      /\ Consumed(k).current \in 1 .. Limit(k) + 1
      /\ Consumed(k) # None
      /\ w = Consumed(k).expiresAt
      /\ Live(k) => /\ counter[k] \in [current : Nat, expiresAt : Nat]
                    /\ counter[k].current \in 1 .. Limit(k) + 1
                    /\ w = counter[k].expiresAt /\ now < w /\ w <= now + TimeWindow
                    /\ Consumed(k).current =
                          IF counter[k].current > Limit(k) THEN counter[k].current
                          ELSE counter[k].current + 1
      /\ ~Live(k) => w = now + TimeWindow /\ Consumed(k).current = 1
  BY <1>1, <1>w, ConsumedValue DEF TypeOK, Live, Current
<1>6. \A j \in Counters : \A x \in log[j] :
          x.at \in Nat /\ x.window \in Nat /\ x.request \in Requests /\ x.allowed \in BOOLEAN
  BY DEF TypeOK
<1>7. Live(k)' /\ \A j \in Counters \ {k} : Live(j)' <=> Live(j)
  BY <1>1, <1>2, <1>3, <1>5 DEF Live
<1>8. TypeOK'
  <2>1. counter' \in [Counters -> {None} \cup [current : Nat, expiresAt : Nat]]
    BY <1>2, <1>5 DEF TypeOK
  <2>2. \A j \in Counters : counter'[j] # None => counter'[j].current \in 1 .. Limit(j) + 1
    BY <1>3, <1>5 DEF TypeOK
  <2>3. log' \in [Counters -> SUBSET [request : Requests, at : 0 .. MaxTime,
                                      window : Nat, allowed : BOOLEAN]]
    <3>1. Allowed(k) \in BOOLEAN
      BY DEF Allowed
    <3> QED
      BY <1>1, <1>2, <1>e, <3>1 DEF TypeOK
  <2>4. charged' \in [Requests -> Counters] /\ pc' \in [Requests -> Waiting \cup Statuses]
    BY <1>1, Outcomes, CounterTypes DEF Counting, TypeOK, Waiting
  <2> QED
    BY <1>2, <2>1, <2>2, <2>3, <2>4 DEF TypeOK, Limit
<1>9. Placed'
  BY <1>1, <1>2, <1>3, <1>5, <1>e DEF Placed
<1>10. \A x \in log[k] : (x.window = w /\ Live(k)) \/ x.window + TimeWindow <= w
  BY <1>1, <1>5, <1>6 DEF Current
<1>11. Apart'
  BY <1>1, <1>3, <1>6, <1>10, <1>e DEF Apart
<1>12. Current'
  <2>1. \A x \in log'[k] : x.window = w \/ x.window <= w - TimeWindow
    BY <1>1, <1>3, <1>6, <1>10, <1>e
  <2> QED
    BY <1>1, <1>2, <1>3, <1>5, <1>7, <2>1 DEF Current
<1>13. /\ \A j \in Counters \ {k}, v \in Nat : Granted(j, v)' = Granted(j, v)
       /\ \A v \in Nat \ {w} : Granted(k, v)' = Granted(k, v)
       /\ Granted(k, w)' = IF Allowed(k) THEN Granted(k, w) \cup {e} ELSE Granted(k, w)
  <2>1. \A j \in Counters \ {k}, v \in Nat : Granted(j, v)' = Granted(j, v)
    BY <1>3 DEF Granted
  <2>2. e.window = w /\ e.allowed = Allowed(k)
    BY <1>e
  <2>3. \A v \in Nat \ {w} : Granted(k, v)' = Granted(k, v)
    BY <1>3, <2>2 DEF Granted
  <2>4. Granted(k, w)' = IF Allowed(k) THEN Granted(k, w) \cup {e} ELSE Granted(k, w)
    BY <1>3, <2>2 DEF Granted
  <2> QED
    BY <2>1, <2>3, <2>4
<1>14. /\ IsFiniteSet(Granted(k, w)')
       /\ Cardinality(Granted(k, w)') =
              IF Consumed(k).current <= Limit(k) THEN Consumed(k).current ELSE Limit(k)
       /\ Allowed(k) => Cardinality(Granted(k, w)) < Limit(k)
  <2>1. IsFiniteSet(Granted(k, w)) /\ Cardinality(Granted(k, w)) \in Nat
    BY FS_CardinalityType DEF Tally
  <2>2. Cardinality(Granted(k, w)) =
            IF ~Live(k) THEN 0
            ELSE IF counter[k].current <= Limit(k) THEN counter[k].current ELSE Limit(k)
    <3>1. CASE ~Live(k)
      <4>1. \A x \in log[k] : x.window # w
        BY <3>1, <1>1, <1>6, <1>10
      <4> QED
        BY <3>1, <4>1, FS_EmptySet DEF Granted
    <3>2. CASE Live(k)
      BY <3>2, <1>5 DEF Tally
    <3> QED
      BY <3>1, <3>2
  <2>3. CASE Allowed(k)
    <3>1. e \notin Granted(k, w)
      BY <1>4, <1>e DEF Granted
    <3>2. /\ IsFiniteSet(Granted(k, w) \cup {e})
          /\ Cardinality(Granted(k, w) \cup {e}) = Cardinality(Granted(k, w)) + 1
      BY <2>1, <3>1, FS_AddElement
    <3>3. Consumed(k).current <= Limit(k)
      BY <2>3 DEF Allowed
    <3> QED
      BY <1>1, <1>5, <1>13, <2>1, <2>2, <2>3, <3>2, <3>3
  <2>4. CASE ~Allowed(k)
    <3>1. ~(Consumed(k).current <= Limit(k))
      BY <2>4 DEF Allowed
    <3> QED
      BY <1>1, <1>5, <1>13, <2>1, <2>2, <2>4, <3>1
  <2> QED
    BY <2>3, <2>4
<1>15. Tally'
  <2>1. \A j \in Counters : Limit(j)' = Limit(j)
    BY DEF Limit
  <2>2. Cardinality(Granted(k, w)') <= Limit(k)
    BY <1>1, <1>5, <1>14
  <2>3. \A v \in Nat : IsFiniteSet(Granted(k, v)') /\ Cardinality(Granted(k, v)') <= Limit(k)
    BY <1>13, <1>14, <2>2 DEF Tally
  <2>4. \A j \in Counters \ {k}, v \in Nat :
            IsFiniteSet(Granted(j, v)') /\ Cardinality(Granted(j, v)') <= Limit(j)
    BY <1>13 DEF Tally
  <2>5. \A j \in Counters \ {k} : Live(j) =>
            counter[j].expiresAt \in Nat
            /\ Cardinality(Granted(j, counter[j].expiresAt)) =
                  IF counter[j].current <= Limit(j) THEN counter[j].current ELSE Limit(j)
    BY DEF Tally, TypeOK, Live
  <2>6. Live(k)' =>
            Cardinality(Granted(k, counter[k].expiresAt)') =
                IF counter'[k].current <= Limit(k) THEN counter'[k].current ELSE Limit(k)
    BY <1>3, <1>5, <1>14
  <2>7. \A j \in Counters \ {k} : Live(j)' =>
            Cardinality(Granted(j, counter[j].expiresAt)') =
                IF counter'[j].current <= Limit(j) THEN counter'[j].current ELSE Limit(j)
    BY <1>3, <1>7, <1>13, <2>5
  <2> QED
    BY <2>1, <2>3, <2>4, <2>6, <2>7 DEF Tally
<1>16. Earned'
  <2> SUFFICES ASSUME NEW j \in Counters, NEW x \in log'[j], ~x.allowed
               PROVE  /\ Cardinality(Granted(j, x.window)') = Limit(j)
                      /\ \A y \in Granted(j, x.window)' : y.at <= x.at
    BY DEF Earned, Limit
  <2>1. CASE j # k
    BY <2>1, <1>3, <1>6, <1>13 DEF Earned
  <2>2. CASE j = k /\ x \in log[k] /\ x.window # w
    BY <2>2, <1>6, <1>13 DEF Earned
  <2>3. CASE j = k /\ x \in log[k] /\ x.window = w
    <3>1. Cardinality(Granted(k, w)) = Limit(k) /\ \A y \in Granted(k, w) : y.at <= x.at
      BY <2>3 DEF Earned
    <3>2. Granted(k, w)' = Granted(k, w)
      BY <1>1, <1>13, <1>14, <3>1
    <3> QED
      BY <2>3, <3>1, <3>2
  <2>4. CASE j = k /\ x = e
    <3>1. ~(Consumed(k).current <= Limit(k)) /\ x.window = w /\ x.at = now
      BY <2>4, <1>e DEF Allowed
    <3>2. \A y \in Granted(k, w)' : y.at <= now
      BY <1>2, <1>9 DEF Placed, Granted
    <3> QED
      BY <2>4, <3>1, <3>2, <1>14
  <2> QED
    BY <1>3, <2>1, <2>2, <2>3, <2>4
<1>17. \A j \in Counters, q \in Requests : LetThrough(j, q) => LetThrough(j, q)'
  BY <1>3 DEF LetThrough
<1>18. Allowed(k) => LetThrough(k, r)'
  BY <1>3, <1>e DEF LetThrough
<1>19. \A j \in Counters : \A x \in log'[j] : x \in log[j] \/ (j = k /\ x = e)
  BY <1>3
<1>20. k = IpCounter(input[r])
           \/ /\ k = UserCounter(input[r]) /\ k.scope # "ip"
              /\ input[r].protected /\ UserOf(input[r]) # None
              /\ LetThrough(IpCounter(input[r]), r)
  BY <1>k, <1>1, CounterTypes DEF OnItsWay
<1>21. IpCounter(input[r]).scope = "ip" /\ IpCounter(input[r]) \in Counters
  BY <1>1, CounterTypes
<1>22. /\ e.request = r
       /\ \A q \in Requests : input'[q] = input[q]
       /\ \A q \in Requests : input[q] \in Inputs /\ IpCounter(input[q]) \in Counters
       /\ \A q \in Requests : UserOf(input[q]) # None => UserCounter(input[q]) \in Counters
  BY <1>e, <1>2, CounterTypes DEF TypeOK
<1>23. \A j \in Counters : \A x \in log'[j] : j.scope # "ip" =>
           /\ input[x.request].protected /\ j = UserCounter(input[x.request])
           /\ LetThrough(IpCounter(input[x.request]), x.request)'
  <2> SUFFICES ASSUME NEW j \in Counters, NEW x \in log'[j], j.scope # "ip"
               PROVE  /\ input[x.request].protected /\ j = UserCounter(input[x.request])
                      /\ LetThrough(IpCounter(input[x.request]), x.request)'
    OBVIOUS
  <2>1. CASE x \in log[j]
    BY <2>1, <1>6, <1>17, <1>22 DEF PassesAreCounted
  <2>2. CASE j = k /\ x = e
    BY <2>2, <1>17, <1>20, <1>21, <1>22
  <2> QED
    BY <1>19, <2>1, <2>2
<1>24. \A q \in Requests : pc[q] = "served" =>
           /\ LetThrough(IpCounter(input[q]), q)'
           /\ input[q].protected =>
                 UserOf(input[q]) # None /\ LetThrough(UserCounter(input[q]), q)'
  BY <1>17, <1>22 DEF PassesAreCounted
<1>25. \A q \in Requests : /\ IpCounter(input[q])' = IpCounter(input[q])
                          /\ UserCounter(input[q])' = UserCounter(input[q])
                          /\ UserOf(input[q])' = UserOf(input[q])
  BY <1>2 DEF IpCounter, UserCounter, UserOf
<1>26. ASSUME \A q \in Requests \ {r} : pc'[q] = pc[q],
              pc'[r] = "served" => Allowed(k) /\ (k.scope # "ip" \/ ~input[r].protected)
       PROVE  PassesAreCounted'
  <2>1. \A q \in Requests : pc'[q] = "served" =>
            /\ LetThrough(IpCounter(input[q]), q)'
            /\ input[q].protected =>
                  UserOf(input[q]) # None /\ LetThrough(UserCounter(input[q]), q)'
    <3>1. pc'[r] = "served" =>
              /\ LetThrough(IpCounter(input[r]), r)'
              /\ input[r].protected =>
                    UserOf(input[r]) # None /\ LetThrough(UserCounter(input[r]), r)'
      BY <1>26, <1>17, <1>18, <1>20, <1>21, <1>22, <1>25
    <3> QED
      BY <1>26, <1>24, <3>1
  <2>2. \A q \in Requests : pc'[q] = "served" =>
              /\ LetThrough(IpCounter(input[q]), q)'
              /\ input'[q].protected =>
                    UserOf(input[q])' # None /\ LetThrough(UserCounter(input[q]), q)'
    BY <2>1, <1>25, <1>22
  <2>3. \A j \in Counters : \A x \in log'[j] : j.scope # "ip" =>
           /\ input'[x.request].protected /\ j = UserCounter(input[x.request])'
           /\ LetThrough(IpCounter(input[x.request]), x.request)'
    BY <1>23, <1>2 DEF UserCounter, UserOf
  <2> QED
    BY <2>2, <2>3 DEF PassesAreCounted
<1>27. ASSUME \A q \in Requests : pc'[q] \in Waiting =>
               \/ charged'[q] = IpCounter(input[q])
               \/ /\ charged'[q] = UserCounter(input[q])
                  /\ input[q].protected /\ UserOf(input[q]) # None
                  /\ LetThrough(IpCounter(input[q]), q)'
       PROVE  OnItsWay'
  <2>1. \A q \in Requests : pc'[q] \in Waiting =>
            \/ charged'[q] = IpCounter(input[q])'
            \/ /\ charged'[q] = UserCounter(input[q])'
               /\ input'[q].protected /\ UserOf(input[q])' # None
               /\ LetThrough(IpCounter(input[q]), q)'
    BY <1>27, <1>22, <1>25
  <2> QED
    BY <2>1 DEF OnItsWay
<1>28. Fresh' /\ OnItsWay' /\ PassesAreCounted'
  <2>1. CASE /\ \E s \in Statuses :
                   /\ pc' = [pc EXCEPT ![r] = s]
                   /\ s = "served" => /\ Allowed(k)
                                      /\ k.scope # "ip" \/ ~input[r].protected
             /\ charged' = charged
    <3>1. /\ pc'[r] \notin Waiting
          /\ \A q \in Requests \ {r} : pc'[q] = pc[q]
          /\ pc'[r] = "served" => Allowed(k) /\ (k.scope # "ip" \/ ~input[r].protected)
      BY <2>1 DEF TypeOK, Waiting, Statuses
    <3>2. Fresh'
      BY <2>1, <3>1, <1>6, <1>19, <1>22 DEF Fresh
    <3>3. OnItsWay'
      <4>1. \A q \in Requests : pc'[q] \in Waiting =>
                  \/ charged'[q] = IpCounter(input[q])
                  \/ /\ charged'[q] = UserCounter(input[q])
                     /\ input[q].protected /\ UserOf(input[q]) # None
                     /\ LetThrough(IpCounter(input[q]), q)'
        BY <2>1, <3>1, <1>17, <1>22 DEF OnItsWay
      <4> QED
        BY <4>1, <1>27
    <3>4. PassesAreCounted'
      BY <3>1, <1>26
    <3> QED
      BY <3>2, <3>3, <3>4
  <2>2. CASE /\ pc' = [pc EXCEPT ![r] = "consume"]
             /\ charged' = [charged EXCEPT ![r] = UserCounter(input[r])]
             /\ k.scope = "ip" /\ Allowed(k)
             /\ input[r].protected /\ UserOf(input[r]) # None
    <3>1. /\ \A q \in Requests \ {r} : pc'[q] = pc[q] /\ charged'[q] = charged[q]
          /\ pc'[r] = "consume" /\ charged'[r] = UserCounter(input[r])
          /\ charged'[r].scope # "ip"
      BY <2>2, <1>1, CounterTypes DEF TypeOK
    <3>2. Fresh'
      BY <2>2, <3>1, <1>k, <1>1, <1>6, <1>19, <1>22 DEF Fresh
    <3>3. OnItsWay'
      <4> SUFFICES ASSUME NEW q \in Requests, pc'[q] \in Waiting
                   PROVE  \/ charged'[q] = IpCounter(input[q])
                          \/ /\ charged'[q] = UserCounter(input[q])
                             /\ input[q].protected /\ UserOf(input[q]) # None
                             /\ LetThrough(IpCounter(input[q]), q)'
        BY <1>27
      <4>1. CASE q # r
        BY <4>1, <3>1, <1>17, <1>22 DEF OnItsWay
      <4>2. CASE q = r
        BY <4>2, <2>2, <3>1, <1>18, <1>20, <1>22, <1>25
      <4> QED
        BY <4>1, <4>2
    <3>4. PassesAreCounted'
      BY <3>1, <1>26
    <3> QED
      BY <3>2, <3>3, <3>4
  <2> QED
    BY <2>1, <2>2, <1>k, Outcomes DEF Counting
<1> QED
  BY <1>8, <1>9, <1>11, <1>12, <1>15, <1>16, <1>28

LEMMA InvNext ==
    Inv /\ [Next]_vars => Inv'
<1> SUFFICES ASSUME Inv, [Next]_vars
             PROVE  Inv'
  OBVIOUS
<1>1. CASE Tick
  BY <1>1, InvTick
<1>2. CASE \E r \in Requests, answered \in BOOLEAN : Counting(r, answered)
  BY <1>2, InvCounting
<1>3. CASE \E r \in Requests : Marking(r)
  BY <1>3, InvMarking
<1>4. CASE \E k \in Counters : Clean(k)
  BY <1>4, InvClean
<1>5. CASE UNCHANGED vars
  <2>1. UNCHANGED <<now, counter, input, charged, pc, log>>
    BY <1>5 DEF vars
  <2>2. TypeOK' /\ Placed' /\ Apart' /\ Current'
    BY <2>1 DEF Inv, TypeOK, Limit, Placed, Apart, Current, Live
  <2>3. Tally' /\ Earned' /\ Fresh'
    BY <2>1 DEF Inv, Tally, Granted, Live, Limit, Earned, Fresh
  <2>4. OnItsWay' /\ PassesAreCounted'
    BY <2>1 DEF Inv, OnItsWay, PassesAreCounted, LetThrough
  <2> QED
    BY <2>2, <2>3, <2>4 DEF Inv
<1> QED
  BY <1>1, <1>2, <1>3, <1>4, <1>5, KindsOfSteps

(* The argument holds of every state.                                      *)
THEOREM InvHolds ==
    Spec => []Inv
<1>1. Init => Inv
  BY InvInit
<1>2. Inv /\ [Next]_vars => Inv'
  BY InvNext
<1> QED
  BY <1>1, <1>2, PTL DEF Spec

-----------------------------------------------------------------------------
(* The properties *)

(* The requests counted in a stretch of time no longer than a window.      *)
LEMMA GrantsInWindow ==
    ASSUME Inv, NEW k \in Counters, NEW from \in Int, NEW to \in Int, NEW w \in Nat,
           \A x \in Grants(k, from, to) : x.window = w
    PROVE  /\ Grants(k, from, to) \subseteq Granted(k, w)
           /\ IsFiniteSet(Grants(k, from, to))
           /\ Cardinality(Grants(k, from, to)) <= Limit(k)
<1>1. Grants(k, from, to) \subseteq Granted(k, w)
  BY DEF Grants, Granted
<1>2. IsFiniteSet(Granted(k, w)) /\ Cardinality(Granted(k, w)) <= Limit(k)
  BY DEF Inv, Tally
<1>3. /\ IsFiniteSet(Grants(k, from, to))
      /\ Cardinality(Grants(k, from, to)) <= Cardinality(Granted(k, w))
  BY <1>1, <1>2, FS_Subset
<1>4. Cardinality(Grants(k, from, to)) \in Nat /\ Cardinality(Granted(k, w)) \in Nat
  BY <1>2, <1>3, FS_CardinalityType
<1> QED
  BY <1>1, <1>2, <1>3, <1>4, LimitType

LEMMA QuotaFromInv ==
    Inv => WindowQuota
<1> SUFFICES ASSUME Inv, NEW k \in Counters, Live(k)
             PROVE  Cardinality(Grants(k, counter[k].expiresAt - TimeWindow, now)) <= Limit(k)
  BY DEF WindowQuota
<1>1. counter[k].expiresAt \in Nat /\ now \in Nat /\ TimeWindow \in Nat
  BY RateLimitsAssumption DEF Inv, TypeOK, Live
<1>2. \A x \in log[k] : x.at \in Nat /\ x.window \in Nat
  BY DEF Inv, TypeOK
<1>3. \A x \in Grants(k, counter[k].expiresAt - TimeWindow, now) : x.window = counter[k].expiresAt
  BY <1>1, <1>2 DEF Inv, Placed, Current, Grants
<1> QED
  BY <1>1, <1>3, GrantsInWindow

(* A stretch as long as a window meets two windows at most.                *)
LEMMA GrantsInStretch ==
    ASSUME Inv, NEW k \in Counters, NEW t \in Int
    PROVE  /\ IsFiniteSet(Grants(k, t, t + TimeWindow - 1))
           /\ Cardinality(Grants(k, t, t + TimeWindow - 1)) <= 2 * Limit(k)
<1> DEFINE S == Grants(k, t, t + TimeWindow - 1)
<1>1. TimeWindow \in Nat /\ TimeWindow >= 1 /\ Limit(k) \in Nat
  BY LimitType, RateLimitsAssumption
<1>2. \A x \in S : x \in log[k] /\ x.at \in Nat /\ x.window \in Nat /\ t <= x.at
                   /\ x.at <= t + TimeWindow - 1 /\ x.allowed
  BY <1>1 DEF Inv, TypeOK, Grants
<1>3. \A x \in S : t < x.window /\ x.window <= t + 2 * TimeWindow - 1
  BY <1>1, <1>2 DEF Inv, Placed
<1>4. CASE \E w \in Nat : \A x \in S : x.window = w
  <2>1. IsFiniteSet(S) /\ Cardinality(S) <= Limit(k)
    BY <1>1, <1>4, GrantsInWindow
  <2> QED
    BY <1>1, <2>1, FS_CardinalityType
<1>5. CASE ~ \E w \in Nat : \A x \in S : x.window = w
  <2>1. PICK x \in S : TRUE
    BY <1>5
  <2>2. PICK y \in S : y.window # x.window
    BY <1>2, <1>5
  <2>3. \A z \in S : z.window = x.window \/ z.window = y.window
    <3> SUFFICES ASSUME NEW z \in S, z.window # x.window, z.window # y.window
                 PROVE  FALSE
      OBVIOUS
    <3>1. /\ x.window + TimeWindow <= y.window \/ y.window + TimeWindow <= x.window
          /\ x.window + TimeWindow <= z.window \/ z.window + TimeWindow <= x.window
          /\ z.window + TimeWindow <= y.window \/ y.window + TimeWindow <= z.window
      BY <1>2, <2>2 DEF Inv, Apart
    <3> QED
      BY <1>1, <1>2, <1>3, <3>1
  <2>4. S \subseteq Granted(k, x.window) \cup Granted(k, y.window)
    BY <1>2, <2>3 DEF Granted
  <2>5. /\ IsFiniteSet(Granted(k, x.window)) /\ Cardinality(Granted(k, x.window)) <= Limit(k)
        /\ IsFiniteSet(Granted(k, y.window)) /\ Cardinality(Granted(k, y.window)) <= Limit(k)
    BY <1>2 DEF Inv, Tally
  <2>6. Granted(k, x.window) \cap Granted(k, y.window) = {}
    BY <2>2 DEF Granted
  <2>7. /\ IsFiniteSet(Granted(k, x.window) \cup Granted(k, y.window))
        /\ Cardinality(Granted(k, x.window) \cup Granted(k, y.window)) =
               Cardinality(Granted(k, x.window)) + Cardinality(Granted(k, y.window))
               - Cardinality(Granted(k, x.window) \cap Granted(k, y.window))
    BY <2>5, FS_Union
  <2>8. /\ Cardinality(Granted(k, x.window)) \in Nat /\ Cardinality(Granted(k, y.window)) \in Nat
        /\ Cardinality(Granted(k, x.window) \cap Granted(k, y.window)) = 0
    BY <2>5, <2>6, FS_CardinalityType, FS_EmptySet
  <2>9. IsFiniteSet(S) /\ Cardinality(S) <= Cardinality(Granted(k, x.window) \cup Granted(k, y.window))
    BY <2>4, <2>7, FS_Subset
  <2> QED
    BY <1>1, <2>5, <2>7, <2>8, <2>9, FS_CardinalityType
<1> QED
  BY <1>4, <1>5

LEMMA BurstFromInv ==
    Inv => BurstBound
BY GrantsInStretch DEF BurstBound

LEMMA EarnedFromInv ==
    Inv => RefusalsAreEarned
<1> SUFFICES ASSUME Inv, NEW k \in Counters, NEW x \in log[k], ~x.allowed
             PROVE  Cardinality(Grants(k, x.at - TimeWindow + 1, x.at)) >= Limit(k)
  BY DEF RefusalsAreEarned
<1>1. x.at \in Nat /\ x.window \in Nat /\ TimeWindow \in Nat /\ now \in Nat
  BY RateLimitsAssumption DEF Inv, TypeOK
<1>2. Cardinality(Granted(k, x.window)) = Limit(k)
  BY DEF Inv, Earned
<1>3. Granted(k, x.window) \subseteq Grants(k, x.at - TimeWindow + 1, x.at)
  <2> SUFFICES ASSUME NEW y \in Granted(k, x.window)
               PROVE  y \in Grants(k, x.at - TimeWindow + 1, x.at)
    OBVIOUS
  <2>1. y \in log[k] /\ y.window = x.window /\ y.allowed
    BY DEF Granted
  <2>2. y.at \in Nat
    BY <2>1 DEF Inv, TypeOK
  <2>3. y.at <= x.at
    BY DEF Inv, Earned
  <2>4. x.at < x.window /\ y.window - TimeWindow <= y.at
    BY <2>1 DEF Inv, Placed
  <2> QED
    BY <1>1, <2>1, <2>2, <2>3, <2>4 DEF Grants
<1>4. IsFiniteSet(Grants(k, x.at - TimeWindow + 1, x.at))
  <2>1. x.at - TimeWindow + 1 \in Int /\ (x.at - TimeWindow + 1) + TimeWindow - 1 = x.at
    BY <1>1
  <2>2. IsFiniteSet(Grants(k, x.at - TimeWindow + 1, (x.at - TimeWindow + 1) + TimeWindow - 1))
    BY <2>1, GrantsInStretch
  <2> QED
    BY <2>1, <2>2
<1>5. Cardinality(Granted(k, x.window)) <= Cardinality(Grants(k, x.at - TimeWindow + 1, x.at))
  BY <1>3, <1>4, FS_Subset
<1> QED
  BY <1>2, <1>5, <1>4, <1>3, FS_Subset, FS_CardinalityType, LimitType

(* Every variable keeps its type, and a counter stops one past its limit.  *)
THEOREM TypeCorrect ==
    Spec => []TypeOK
BY InvHolds, PTL DEF Inv

(* consume lets through at most the limit in a window.                     *)
THEOREM WindowsKeepQuota ==
    Spec => []WindowQuota
BY InvHolds, QuotaFromInv, PTL

(* No stretch as long as a window lets more than twice the limit through.  *)
THEOREM BurstsAreBounded ==
    Spec => []BurstBound
BY InvHolds, BurstFromInv, PTL

(* Every refusal follows Limit requests let through within a window.       *)
THEOREM EveryRefusalEarned ==
    Spec => []RefusalsAreEarned
BY InvHolds, EarnedFromInv, PTL

(* Nobody gets in uncounted, nobody pays for another.                      *)
THEOREM EveryPassCounted ==
    Spec => []PassesAreCounted
<1>1. Inv => PassesAreCounted
  BY DEF Inv
<1> QED
  BY <1>1, InvHolds, PTL

-----------------------------------------------------------------------------
(* The ideal counters *)

Ends == [k \in Counters |-> IF Live(k) THEN counter[k].expiresAt ELSE 0]
Used == [k \in Counters |-> LetIn(k)]
Stage == [r \in Requests |-> IF charged[r].scope = "ip" THEN 1 ELSE 2]
Status == [r \in Requests |-> IF pc[r] \in Waiting THEN "waiting" ELSE pc[r]]

(* A counter is live until its window ends, and then counts from one.      *)
LEMMA CounterReading ==
    ASSUME Inv, NEW k \in Counters
    PROVE  /\ Live(k) => /\ Ends[k] = counter[k].expiresAt
                         /\ Ends[k] \in Nat /\ Ends[k] > now /\ Ends[k] # 0
                         /\ counter[k].current \in 1 .. Limit(k) + 1
                         /\ Used[k] = IF counter[k].current > Limit(k) THEN Limit(k)
                                      ELSE counter[k].current
           /\ ~Live(k) => Ends[k] = 0 /\ Used[k] = 0
<1>1. now \in Nat
  BY DEF Inv, TypeOK
<1>2. CASE Live(k)
  <2>1. /\ counter[k] \in [current : Nat, expiresAt : Nat] /\ counter[k].expiresAt > now
        /\ counter[k].current \in 1 .. Limit(k) + 1
    BY <1>2 DEF Inv, TypeOK, Live
  <2>2. counter[k].expiresAt \in Nat /\ counter[k].expiresAt # 0
    BY <1>1, <2>1
  <2> QED
    BY <1>2, <2>1, <2>2 DEF Ends, Used, LetIn
<1>3. CASE ~Live(k)
  BY <1>3 DEF Ends, Used, LetIn
<1> QED
  BY <1>2, <1>3

(* One consumption is one count of the ideal counter, or none if it is full. *)
LEMMA ConsumingCounts ==
    ASSUME Inv, NEW r \in Requests, NEW answered \in BOOLEAN, Counting(r, answered),
           NEW k, k = charged[r]
    PROVE  /\ k \in Counters /\ now' = now /\ input' = input
           /\ Allowed(k) =>
                 /\ Used[k] < Limit(k)
                 /\ Used' = [Used EXCEPT ![k] = @ + 1]
                 /\ Ends' = [Ends EXCEPT ![k] = IF @ = 0 THEN now + TimeWindow ELSE @]
           /\ ~Allowed(k) => Used[k] = Limit(k) /\ Used' = Used /\ Ends' = Ends
<1>1. k \in Counters /\ now \in Nat /\ TimeWindow \in Nat \ {0}
  BY RateLimitsAssumption DEF Inv, TypeOK
<1>2. /\ counter' = [counter EXCEPT ![k] = Consumed(k)]
      /\ now' = now /\ input' = input
  BY DEF Counting, Consume
<1>3. counter'[k] = Consumed(k) /\ \A j \in Counters \ {k} : counter'[j] = counter[j]
  BY <1>1, <1>2 DEF Inv, TypeOK
<1>4. Limit(k) \in Nat /\ Limit(k) >= 1
  BY <1>1, LimitType
<1>5. /\ Consumed(k).expiresAt \in Nat /\ Consumed(k).expiresAt > now
      /\ Consumed(k).current \in Nat /\ Consumed(k) # None
      /\ Consumed(k).expiresAt = IF Live(k) THEN Ends[k] ELSE now + TimeWindow
      /\ Consumed(k).current =
            IF ~Live(k) THEN 1
            ELSE IF counter[k].current > Limit(k) THEN counter[k].current
            ELSE counter[k].current + 1
  BY <1>1, ConsumedValue, CounterReading DEF Inv
<1>6. Live(k)' /\ \A j \in Counters \ {k} : Live(j)' <=> Live(j)
  BY <1>2, <1>3, <1>5 DEF Live
<1>7. /\ Ends'[k] = Consumed(k).expiresAt
      /\ Used'[k] = IF Consumed(k).current > Limit(k) THEN Limit(k) ELSE Consumed(k).current
      /\ \A j \in Counters \ {k} : Ends'[j] = Ends[j] /\ Used'[j] = Used[j]
  BY <1>1, <1>3, <1>6 DEF Ends, Used, LetIn, Limit
<1>8. /\ DOMAIN Ends = Counters /\ DOMAIN Used = Counters
      /\ Ends' = [j \in Counters |-> Ends'[j]] /\ Used' = [j \in Counters |-> Used'[j]]
      /\ Ends = [j \in Counters |-> Ends[j]] /\ Used = [j \in Counters |-> Used[j]]
  BY DEF Ends, Used
<1>9. CASE Allowed(k)
  <2>1. Consumed(k).current <= Limit(k)
    BY <1>9 DEF Allowed
  <2>2. Used[k] < Limit(k) /\ Used'[k] = Used[k] + 1
    BY <1>1, <1>4, <1>5, <1>7, <2>1, CounterReading
  <2>3. Ends'[k] = IF Ends[k] = 0 THEN now + TimeWindow ELSE Ends[k]
    BY <1>1, <1>5, <1>7, CounterReading
  <2>4. Used' = [Used EXCEPT ![k] = @ + 1]
    BY <1>7, <1>8, <2>2
  <2>5. Ends' = [Ends EXCEPT ![k] = IF @ = 0 THEN now + TimeWindow ELSE @]
    BY <1>7, <1>8, <2>3
  <2> QED
    BY <1>1, <1>2, <1>9, <2>2, <2>4, <2>5
<1>10. CASE ~Allowed(k)
  <2>1. Consumed(k).current > Limit(k)
    BY <1>4, <1>5, <1>10 DEF Allowed
  <2>2. /\ Live(k) /\ counter[k].current \in 1 .. Limit(k) + 1
        /\ Used[k] = Limit(k) /\ Used'[k] = Limit(k)
    BY <1>1, <1>4, <1>5, <1>7, <2>1, CounterReading
  <2>3. Ends'[k] = Ends[k]
    BY <1>5, <1>7, <2>2
  <2>4. Used' = Used /\ Ends' = Ends
    BY <1>7, <1>8, <2>2, <2>3
  <2> QED
    BY <1>1, <1>2, <1>10, <2>2, <2>4
<1> QED
  BY <1>9, <1>10

(* Where a waiting request is on its way. *)
LEMMA PlaceOnWay ==
    ASSUME Inv, NEW r \in Requests, pc[r] \in Waiting
    PROVE  /\ Way(input[r])[Stage[r]] = charged[r] /\ Status[r] = "waiting"
           /\ charged[r].scope # "ip" => /\ Stage[r] = 2 /\ Len(Way(input[r])) = 2
                                         /\ LastAnswer(input[r]) = "served"
           /\ charged[r].scope = "ip" =>
                 /\ Stage[r] = 1
                 /\ ~input[r].protected =>
                       Len(Way(input[r])) = 1 /\ LastAnswer(input[r]) = "served"
                 /\ input[r].protected /\ UserOf(input[r]) = None =>
                       /\ Len(Way(input[r])) = 1
                       /\ LastAnswer(input[r]) = Rejection(input[r])
                 /\ input[r].protected /\ UserOf(input[r]) # None =>
                       Len(Way(input[r])) = 2
<1>1. /\ \/ charged[r] = IpCounter(input[r])
         \/ /\ charged[r] = UserCounter(input[r])
            /\ input[r].protected /\ UserOf(input[r]) # None
      /\ input[r] \in Inputs
  BY DEF Inv, OnItsWay, TypeOK
<1>2. /\ IpCounter(input[r]).scope = "ip"
      /\ UserOf(input[r]) # None => UserCounter(input[r]).scope # "ip"
  BY <1>1, CounterTypes
<1>3. Status[r] = "waiting"
  BY DEF Status
<1>4. CASE charged[r] = IpCounter(input[r])
  BY <1>2, <1>3, <1>4 DEF Stage, Way, LastAnswer
<1>5. CASE /\ charged[r] = UserCounter(input[r])
           /\ input[r].protected /\ UserOf(input[r]) # None
  BY <1>2, <1>3, <1>5 DEF Stage, Way, LastAnswer
<1> QED
  BY <1>1, <1>4, <1>5

(* What a changed pc or charge is to the ideal request. *)
LEMMA AnswerOf ==
    ASSUME Inv, NEW r \in Requests, NEW s, pc' = [pc EXCEPT ![r] = s]
    PROVE  Status' = [Status EXCEPT ![r] = IF s \in Waiting THEN "waiting" ELSE s]
<1>1. DOMAIN pc = Requests
  BY DEF Inv, TypeOK
<1> QED
  BY <1>1 DEF Status

LEMMA InitIsIdeal ==
    ASSUME Init
    PROVE  Ideal!Init
<1>1. \A k \in Counters : ~Live(k)
  BY DEF Init, Live
<1>2. \A k \in Counters : LetIn(k) = 0
  BY <1>1 DEF LetIn
<1>3. \A r \in Requests : charged[r].scope = "ip" /\ pc[r] \in Waiting
  BY DEF Init, IpCounter, Waiting
<1> QED
  BY <1>1, <1>2, <1>3 DEF Init, Ideal!Init

LEMMA TickIsIdeal ==
    ASSUME Inv, Tick
    PROVE  Ideal!Tick
<1>1. /\ now < MaxTime /\ now' = now + 1 /\ now \in Nat
      /\ UNCHANGED <<counter, input, charged, pc>>
  BY DEF Tick, Inv, TypeOK
<1>2. ASSUME NEW k \in Counters
      PROVE  /\ Live(k)' <=> Ends[k] > now + 1
             /\ Ends'[k] = IF Ends[k] > now + 1 THEN Ends[k] ELSE 0
             /\ Used'[k] = IF Ends[k] > now + 1 THEN Used[k] ELSE 0
  <2>1. Live(k)' <=> counter[k] # None /\ counter[k].expiresAt > now + 1
    BY <1>1 DEF Live
  <2>2. CASE Live(k)
    <3>1. /\ Ends[k] = counter[k].expiresAt /\ counter[k] # None
          /\ Live(k)' <=> Ends[k] > now + 1
      BY <2>1, <2>2, CounterReading DEF Live
    <3>2. LetIn(k)' = IF Live(k)' THEN LetIn(k) ELSE 0
      BY <1>1, <2>2 DEF LetIn, Limit
    <3> QED
      BY <1>1, <3>1, <3>2 DEF Ends, Used
  <2>3. CASE ~Live(k)
    <3>1. ~Live(k)'
      <4>1. counter[k] # None => counter[k].expiresAt \in Nat
        BY DEF Inv, TypeOK
      <4> QED
        BY <1>1, <2>1, <2>3, <4>1 DEF Live
    <3>2. Ends[k] = 0 /\ Used[k] = 0
      BY <2>3, CounterReading
    <3>3. Ends'[k] = 0 /\ Used'[k] = 0
      BY <3>1 DEF Ends, Used, LetIn
    <3> QED
      BY <1>1, <3>1, <3>2, <3>3
  <2> QED
    BY <2>2, <2>3
<1>3. /\ Ends' = [k \in Counters |-> IF Ends[k] > now + 1 THEN Ends[k] ELSE 0]
      /\ Used' = [k \in Counters |-> IF Ends[k] > now + 1 THEN Used[k] ELSE 0]
  <2>1. /\ Ends' = [k \in Counters |-> Ends'[k]]
        /\ Used' = [k \in Counters |-> Used'[k]]
    BY DEF Ends, Used
  <2> QED
    BY <1>2, <2>1
<1>4. Stage' = Stage /\ Status' = Status
  BY <1>1 DEF Stage, Status
<1> QED
  BY <1>1, <1>3, <1>4 DEF Ideal!Tick, Ends, Used, Stage, Status

-----------------------------------------------------------------------------
LEMMA CountingIsIdeal ==
    ASSUME Inv, NEW r \in Requests, NEW answered \in BOOLEAN, Counting(r, answered)
    PROVE  Ideal!Pass(r) \/ Ideal!Refuse(r) \/ Ideal!Fail(r)
<1>k. PICK k : k = charged[r]
  OBVIOUS
<1>p. pc[r] \in Waiting
  BY DEF Counting
<1>1. /\ k \in Counters /\ now' = now /\ input' = input /\ input[r] \in Inputs
      /\ Allowed(k) =>
            /\ Used[k] < Limit(k)
            /\ Used' = [Used EXCEPT ![k] = @ + 1]
            /\ Ends' = [Ends EXCEPT ![k] = IF @ = 0 THEN now + TimeWindow ELSE @]
      /\ ~Allowed(k) => Used[k] = Limit(k) /\ Used' = Used /\ Ends' = Ends
  BY <1>k, ConsumingCounts DEF Inv, TypeOK
<1>2. /\ Status[r] = "waiting" /\ Way(input[r])[Stage[r]] = k
  BY <1>k, PlaceOnWay DEF Counting
<1>3. Ideal!At(r) = k
  BY <1>1, <1>2 DEF Ideal!At, Stage
<1>4. Allowed(k) => Ideal!Count(Ideal!At(r))
  BY <1>1, <1>3 DEF Ideal!Count, Ends, Used
<1>5. CASE ~answered
  <2>1. pc' = [pc EXCEPT ![r] = "503"] /\ charged' = charged
    BY <1>k, <1>5 DEF Counting, Consume, Passes, Respond
  <2>2. Status' = [Status EXCEPT ![r] = "503"] /\ Stage' = Stage
    BY <2>1, AnswerOf DEF Waiting, Stage
  <2>3. Ideal!Respond(r, "503")
    BY <2>2 DEF Ideal!Respond, Status, Stage
  <2>4. Ideal!Count(Ideal!At(r)) \/ UNCHANGED <<Ends, Used>>
    BY <1>1, <1>4
  <2> QED
    BY <1>1, <1>2, <1>3, <2>3, <2>4 DEF Ideal!Fail, Ends, Used, Status
<1>6. CASE answered /\ ~Allowed(k)
  <2>1. pc' = [pc EXCEPT ![r] = "429"] /\ charged' = charged
    BY <1>k, <1>6 DEF Counting, Consume, Passes, Respond
  <2>2. Status' = [Status EXCEPT ![r] = "429"] /\ Stage' = Stage
    BY <2>1, AnswerOf DEF Waiting, Stage
  <2>3. Ideal!Respond(r, "429")
    BY <2>2 DEF Ideal!Respond, Status, Stage
  <2> QED
    BY <1>1, <1>2, <1>3, <1>6, <2>3 DEF Ideal!Refuse, Ends, Used, Status
<1>7. CASE answered /\ Allowed(k)
  <2>1. Proceed(r)
    BY <1>k, <1>7 DEF Counting, Consume, Passes
  <2> DEFINE way == Way(input[r])
  <2>2. CASE Stage[r] < Len(way)
    <3>1. charged[r].scope = "ip" /\ input[r].protected /\ UserOf(input[r]) # None /\ Stage[r] = 1
      <4> DEFINE n == Len(way)
                 m == Stage[r]
      <4>1. /\ charged[r].scope # "ip" => m = 2 /\ n = 2
            /\ charged[r].scope = "ip" => m = 1
            /\ charged[r].scope = "ip" /\ (~input[r].protected \/ UserOf(input[r]) = None)
                  => n = 1
        BY <1>p, PlaceOnWay
      <4>2. m < n
        BY <2>2
      <4> HIDE DEF n, m
      <4>3. ~(m = 2 /\ n = 2) /\ ~(m = 1 /\ n = 1)
        BY <4>2
      <4> QED
        BY <4>1, <4>3 DEF m
    <3>2. /\ charged' = [charged EXCEPT ![r] = UserCounter(input[r])]
          /\ pc' = [pc EXCEPT ![r] = "consume"]
      BY <2>1, <3>1 DEF Proceed
    <3>3. Status' = Status
      <4>1. Status' = [Status EXCEPT ![r] = "waiting"]
        BY <3>2, AnswerOf DEF Waiting
      <4> QED
        BY <1>2, <4>1 DEF Status
    <3>4. Stage' = [Stage EXCEPT ![r] = @ + 1]
      <4>1. UserCounter(input[r]).scope # "ip" /\ DOMAIN charged = Requests
        BY <1>1, <3>1, CounterTypes DEF Inv, TypeOK
      <4> QED
        <5>1. /\ charged'[r].scope # "ip"
              /\ \A q \in Requests \ {r} : charged'[q] = charged[q]
          BY <3>2, <4>1
        <5>2. DOMAIN Stage = Requests /\ Stage'[r] = Stage[r] + 1
          BY <3>1, <5>1 DEF Stage
        <5>3. \A q \in Requests \ {r} : Stage'[q] = Stage[q]
          BY <5>1 DEF Stage
        <5>4. Stage' = [q \in Requests |-> Stage'[q]] /\ Stage = [q \in Requests |-> Stage[q]]
          BY DEF Stage
        <5> QED
          BY <5>2, <5>3, <5>4
    <3> QED
      BY <1>1, <1>2, <1>3, <1>4, <1>7, <2>2, <3>3, <3>4 DEF Ideal!Pass, Status, Stage
  <2>3. CASE ~(Stage[r] < Len(way))
    <3>1. /\ pc' = [pc EXCEPT ![r] = LastAnswer(input[r])]
          /\ charged' = charged /\ LastAnswer(input[r]) \in {"served", "400", "401"}
      <4>1. /\ \/ charged[r].scope # "ip"
               \/ ~input[r].protected
               \/ UserOf(input[r]) = None
            /\ charged[r].scope # "ip" \/ ~input[r].protected =>
                   LastAnswer(input[r]) = "served"
        BY <2>3, PlaceOnWay DEF Counting
      <4>2. CASE charged[r].scope # "ip" \/ ~input[r].protected
        BY <2>1, <4>1, <4>2 DEF Proceed, Respond
      <4>3. CASE charged[r].scope = "ip" /\ input[r].protected /\ UserOf(input[r]) = None
        BY <2>1, <4>3 DEF Proceed, Respond, LastAnswer, Rejection
      <4> QED
        BY <4>1, <4>2, <4>3
    <3>2. Status' = [Status EXCEPT ![r] = LastAnswer(input[r])] /\ Stage' = Stage
      BY <3>1, AnswerOf DEF Waiting, Stage
    <3>3. [i \in Inputs |-> LastAnswer(i)][input[r]] = LastAnswer(input[r])
          /\ [i \in Inputs |-> Way(i)][input[r]] = way
      BY <1>1
    <3>4. Ideal!Respond(r, [i \in Inputs |-> LastAnswer(i)][input[r]])
      BY <3>2, <3>3 DEF Ideal!Respond, Status, Stage
    <3> QED
      BY <1>1, <1>2, <1>4, <1>7, <2>3, <3>3, <3>4 DEF Ideal!Pass, Status, Stage
  <2> QED
    BY <2>2, <2>3
<1> QED
  BY <1>5, <1>6, <1>7

(* Waiting on is no step of the ideal request, failing is one. *)
LEMMA MarkingIsIdeal ==
    ASSUME Inv, NEW r \in Requests, Marking(r)
    PROVE  Ideal!Fail(r) \/ UNCHANGED Ideal!vars
<1>1. /\ UNCHANGED <<now, counter, input, charged>> /\ pc[r] \in Waiting
      /\ \E s \in Waiting \cup {"503"} : pc' = [pc EXCEPT ![r] = s]
  BY DEF Marking
<1>2. Ends' = Ends /\ Used' = Used /\ Stage' = Stage
  <2>1. \A k \in Counters : (Live(k)' <=> Live(k)) /\ LetIn(k)' = LetIn(k)
    BY <1>1 DEF Live, LetIn, Limit
  <2> QED
    BY <1>1, <2>1 DEF Ends, Used, Stage
<1>3. Status[r] = "waiting" /\ DOMAIN Status = Requests
  BY <1>1 DEF Status
<1>4. PICK s \in Waiting \cup {"503"} : pc' = [pc EXCEPT ![r] = s]
  BY <1>1
<1>5. Status' = [Status EXCEPT ![r] = IF s \in Waiting THEN "waiting" ELSE s]
  BY <1>4, AnswerOf
<1>6. CASE s \in Waiting
  <2>1. Status' = Status
    BY <1>3, <1>5, <1>6 DEF Status
  <2> QED
    BY <1>1, <1>2, <2>1 DEF Ideal!vars, Ends, Used, Stage, Status
<1>7. CASE s \notin Waiting
  <2>1. Status' = [Status EXCEPT ![r] = "503"]
    BY <1>4, <1>5, <1>7
  <2>2. Ideal!Respond(r, "503")
    BY <1>2, <2>1 DEF Ideal!Respond, Stage, Status
  <2> QED
    BY <1>1, <1>2, <1>3, <2>2 DEF Ideal!Fail, Ends, Used, Status
<1> QED
  BY <1>6, <1>7

(* The TTL index removes only what no longer counts. *)
LEMMA CleaningIsSilent ==
    ASSUME Inv, NEW k \in Counters, Clean(k)
    PROVE  UNCHANGED Ideal!vars
<1>1. /\ ~Live(k) /\ counter' = [counter EXCEPT ![k] = None]
      /\ UNCHANGED <<now, input, charged, pc>>
  BY DEF Clean
<1>2. counter'[k] = None /\ \A j \in Counters \ {k} : counter'[j] = counter[j]
  BY <1>1 DEF Inv, TypeOK
<1>3. \A j \in Counters : /\ Live(j)' <=> Live(j)
                          /\ LetIn(j)' = LetIn(j)
                          /\ Live(j) => counter'[j] = counter[j]
  BY <1>1, <1>2 DEF Live, LetIn, Limit
<1> QED
  BY <1>1, <1>3 DEF Ideal!vars

LEMMA StepIsIdeal ==
    ASSUME Inv, [Next]_vars
    PROVE  Ideal!Next \/ UNCHANGED Ideal!vars
<1>1. CASE Tick
  BY <1>1, TickIsIdeal DEF Ideal!Next
<1>2. CASE \E r \in Requests, answered \in BOOLEAN : Counting(r, answered)
  BY <1>2, CountingIsIdeal DEF Ideal!Next
<1>3. CASE \E r \in Requests : Marking(r)
  BY <1>3, MarkingIsIdeal DEF Ideal!Next
<1>4. CASE \E k \in Counters : Clean(k)
  BY <1>4, CleaningIsSilent
<1>5. CASE UNCHANGED vars
  <2>1. \A k \in Counters : (Live(k)' <=> Live(k)) /\ LetIn(k)' = LetIn(k)
    BY <1>5 DEF vars, Live, LetIn, Limit
  <2> QED
    BY <1>5, <2>1 DEF vars, Ideal!vars
<1> QED
  BY <1>1, <1>2, <1>3, <1>4, <1>5, KindsOfSteps

(* The counters in the database, with the race to create them, repetition, *)
(* lost answers and deletions by the TTL index, implement ideal counters,  *)
(* each request being counted and answered in one step: rate limiting adds *)
(* no refusal and loses no count that those would not (consume, enforce).  *)
THEOREM LimitsImplementIdeal ==
    Spec => LimitsAreIdeal
<1>1. Init => Ideal!Init
  BY InitIsIdeal
<1>2. Inv /\ [Next]_vars => [Ideal!Next]_(Ideal!vars)
  BY StepIsIdeal
<1> QED
  BY <1>1, <1>2, InvHolds, PTL DEF Spec, LimitsAreIdeal, Ideal!Spec

=============================================================================
