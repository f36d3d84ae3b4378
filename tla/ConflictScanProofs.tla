------------------------- MODULE ConflictScanProofs --------------------------
(***************************************************************************)
(* The conflict search finds every clash and reports no other, for every   *)
(* calendar and every length of a day.  The invariant says what each phase *)
(* of the search has already excluded: the sweep, clashes among the swept  *)
(* occurrences; the cursor, clashes with the events it has yielded; the    *)
(* merge, clashes of the occurrences it has passed.                        *)
(***************************************************************************)
EXTENDS ConflictScan, CalendarTheorems, FiniteSetTheorems

-----------------------------------------------------------------------------
(* Whole days *)

LEMMA Division ==
    ASSUME NEW x \in Int
    PROVE  /\ Day(x) \in Int
           /\ DayLength * Day(x) <= x
           /\ x < DayLength * Day(x) + DayLength
<1> DEFINE D == DayLength
<1>1. D \in Nat \ {0}
  BY CalendarAssumption
<1> HIDE DEF D
<1>2. x \div D \in Int /\ D * (x \div D) <= x /\ x < D * (x \div D) + D
  BY <1>1, Z3
<1> QED
  BY <1>2 DEF Day, D

LEMMA DaysApart ==
    ASSUME NEW x \in Int, NEW y \in Int, x < y
    PROVE  DayLength * x + DayLength <= DayLength * y
<1> DEFINE D == DayLength
<1>1. D \in Nat \ {0}
  BY CalendarAssumption
<1> HIDE DEF D
<1>2. D * x + D <= D * y
  BY <1>1, Z3
<1> QED
  BY <1>2 DEF D

LEMMA WholeDay ==
    ASSUME NEW x \in Int, x % DayLength = 0
    PROVE  x = DayLength * Day(x)
<1> DEFINE D == DayLength
<1>1. D \in Nat \ {0}
  BY CalendarAssumption
<1>2. x % D = 0
  OBVIOUS
<1> HIDE DEF D
<1>3. x = D * (x \div D)
  BY <1>1, <1>2, Z3
<1> QED
  BY <1>3 DEF Day, D

LEMMA WholeDaysLater ==
    ASSUME NEW x \in Int, x % DayLength = 0, NEW n \in Int, NEW p \in {DayLength, 7 * DayLength}
    PROVE  (x + n * p) % DayLength = 0
<1> DEFINE D == DayLength
           m == IF p = D THEN n ELSE 7 * n
           k == Day(x) + m
<1>1. D \in Nat \ {0} /\ Day(x) \in Int /\ m \in Int /\ x = D * Day(x)
  BY CalendarAssumption, Division, WholeDay
<1>2. n * p = D * m
  <2> HIDE DEF D
  <2>1. n * D = D * n /\ n * (7 * D) = D * (7 * n)
    BY <1>1, Z3
  <2> QED
    BY <2>1 DEF D
<1>3. D * Day(x) + D * m = D * k
  <2> HIDE DEF D, m
  <2> QED
    BY <1>1, Z3
<1>4. (D * k) % D = 0
  <2> HIDE DEF D, k
  <2>1. k \in Int
    BY <1>1 DEF k
  <2> QED
    BY <1>1, <2>1, Z3
<1> QED
  BY <1>1, <1>2, <1>3, <1>4

(* A schedule of whole days that meets a span also meets the days of the   *)
(* span, its start rounded down and its end rounded up.                    *)
LEMMA RoundingKeepsOverlap ==
    ASSUME NEW s \in Schedules, s.start % DayLength = 0, s.end % DayLength = 0,
           NEW start \in Int, NEW end \in Int, s.start < end, start < s.end
    PROVE  Day(s.start) < LastDay(end) /\ Day(s.end) > Day(start)
<1>1. s.start \in Int /\ s.end \in Int
  BY DEF Schedules
<1> DEFINE d1 == DayLength * Day(s.start)
           d2 == DayLength * Day(s.end)
           last == end + DayLength - 1
<1>2. DayLength \in Nat \ {0}
  BY CalendarAssumption
<1>3. s.start = d1 /\ s.end = d2
  BY <1>1, WholeDay
<1>4. last \in Int
  BY <1>2
<1>5. Day(s.start) < Day(last)
  <2>1. SUFFICES ASSUME ~(Day(s.start) < Day(last))
                 PROVE  FALSE
    OBVIOUS
  <2>2. /\ Day(last) \in Int /\ Day(s.start) \in Int
        /\ last < DayLength * Day(last) + DayLength
    BY <1>1, <1>4, Division
  <2>3. DayLength * Day(last) <= d1
    <3>1. CASE Day(last) = Day(s.start)
      BY <3>1, <1>1, <1>3
    <3>2. CASE Day(last) < Day(s.start)
      <4>1. DayLength * Day(last) + DayLength <= d1
        BY <2>2, <3>2, DaysApart
      <4>2. DayLength * Day(last) \in Int /\ d1 \in Int
        BY <1>1, <1>2, <1>3, <2>2
      <4> HIDE DEF d1
      <4> QED
        BY <4>1, <4>2, <1>2
    <3> QED
      BY <2>1, <2>2, <3>1, <3>2
  <2>4. DayLength * Day(last) \in Int
    BY <1>2, <2>2
  <2> QED
    BY <1>1, <1>2, <1>3, <2>2, <2>3, <2>4
<1>6. Day(s.end) > Day(start)
  <2>1. SUFFICES ASSUME ~(Day(s.end) > Day(start))
                 PROVE  FALSE
    OBVIOUS
  <2>2. /\ Day(start) \in Int /\ Day(s.end) \in Int
        /\ DayLength * Day(start) <= start
    BY <1>1, Division
  <2>3. d2 <= DayLength * Day(start)
    <3>1. CASE Day(s.end) = Day(start)
      BY <3>1, <1>1, <1>3
    <3>2. CASE Day(s.end) < Day(start)
      <4>1. d2 + DayLength <= DayLength * Day(start)
        BY <2>2, <3>2, DaysApart
      <4>2. DayLength * Day(start) \in Int /\ d2 \in Int
        BY <1>1, <1>2, <1>3, <2>2
      <4> HIDE DEF d2
      <4> QED
        BY <4>1, <4>2, <1>2
    <3> QED
      BY <2>1, <2>2, <3>1, <3>2
  <2>4. DayLength * Day(start) \in Int
    BY <1>2, <2>2
  <2> QED
    BY <1>1, <1>3, <2>2, <2>3, <2>4
<1> QED
  BY <1>5, <1>6 DEF LastDay

-----------------------------------------------------------------------------
(* Occurrences and their sorted lists *)

(* Repeated by whole days, whole days stay whole: what is derived of a     *)
(* sound event is a schedule again, moved occurrences included.            *)
LEMMA OccurrencesAreSchedules ==
    ASSUME NEW d, Sound(d), NEW key \in LiveKeys(d)
    PROVE  OccurrenceSchedule(d, key) \in Schedules
<1> DEFINE s == d.schedule
           p == Period(d.recurrence)
           D == DayLength
<1>1. D \in Nat \ {0} /\ p \in {D, 7 * D}
  BY CalendarAssumption DEF Period
<1>2. s \in Schedules /\ s.kind \in Kinds /\ s.start \in Int /\ s.end \in Int
  BY DEF Sound, IsDocument, Schedules
<1>3. PICK n \in Int : key = s.start + n * p
  <2>1. PICK n \in 0 .. LastIndex(s, d.recurrence) : key = s.start + n * p
    BY DEF LiveKeys, BaseKeys
  <2> QED
    BY <2>1
<1>4. CASE Overridden(d, key, "schedule")
  BY <1>4 DEF OccurrenceSchedule, Overridden, Sound, IsDocument, Exceptions
<1>5. CASE ~Overridden(d, key, "schedule")
  <2> DEFINE t == [kind |-> s.kind, start |-> key, end |-> key + (s.end - s.start)]
  <2>1. OccurrenceSchedule(d, key) = t
    BY <1>5 DEF OccurrenceSchedule, ScheduleAt
  <2>2. key \in Int /\ key + (s.end - s.start) = s.end + n * p
    <3> HIDE DEF s, D, p
    <3>1. n * p \in Int
      BY <1>1, Z3
    <3> QED
      BY <1>2, <1>3, <3>1
  <2>3. ASSUME s.kind = "all-day"
        PROVE  key % D = 0 /\ (s.end + n * p) % D = 0
    <3>1. s.start % D = 0 /\ s.end % D = 0
      BY <1>2, <2>3 DEF Schedules, WholeDays
    <3> QED
      BY <1>1, <1>2, <1>3, <3>1, WholeDaysLater
  <2> HIDE DEF s, D, p
  <2>4. t \in [kind : Kinds, start : Int, end : Int]
    BY <1>2, <2>2
  <2>5. WholeDays(t)
    BY <2>2, <2>3 DEF WholeDays, D
  <2> QED
    BY <2>1, <2>4, <2>5 DEF Schedules
<1> QED
  BY <1>4, <1>5

LEMMA FinitelyManyOccurrences ==
    ASSUME NEW d, Sound(d)
    PROVE  /\ IsFiniteSet(BaseKeys(d))
           /\ Cardinality(BaseKeys(d)) \in Nat
           /\ Cardinality(LiveKeys(d)) \in Nat
<1> DEFINE s == d.schedule
           r == d.recurrence
           n == LastIndex(s, r)
           start == [i \in 0 .. n |-> s.start + i * Period(r)]
<1>1. s.start \in Int /\ r \in Rules \cup {None}
  BY DEF Sound, IsDocument, Schedules
<1>2. n \in Int
  <2>1. CASE r = None
    BY <2>1 DEF LastIndex
  <2>2. CASE r # None
    <3>1. r.endsOn \in Int
      BY <1>1, <2>2 DEF Rules
    <3>2. DayLength \in Nat \ {0} /\ Period(r) \in Nat \ {0}
      BY CalendarAssumption DEF Period
    <3>3. (r.endsOn - Day(s.start)) * DayLength \in Int
      BY <1>1, <3>1, <3>2, Division
    <3>4. ((r.endsOn - Day(s.start)) * DayLength) \div Period(r) \in Int
      <4> DEFINE x == (r.endsOn - Day(s.start)) * DayLength
                 p == Period(r)
      <4>1. x \in Int /\ p \in Nat \ {0}
        BY <3>2, <3>3
      <4> HIDE DEF x, p
      <4>2. x \div p \in Int
        BY <4>1, Z3
      <4> QED
        BY <4>2 DEF x, p
    <3> QED
      BY <2>2, <3>4 DEF LastIndex
  <2> QED
    BY <2>1, <2>2
<1> HIDE DEF n
<1>3. IsFiniteSet(0 .. n)
  BY <1>2, FS_Interval
<1>4. BaseKeys(d) = {s.start + i * Period(r) : i \in 0 .. n}
  BY DEF BaseKeys, n
<1>5. start \in Surjection(0 .. n, BaseKeys(d))
  BY <1>4 DEF Surjection
<1>6. IsFiniteSet(BaseKeys(d))
  BY <1>3, <1>5, FS_Surjection
<1>7. IsFiniteSet(LiveKeys(d))
  BY <1>6, FS_Subset DEF LiveKeys
<1> QED
  BY <1>6, <1>7, FS_CardinalityType

(* A sorted list holds valid schedules in the order of their starts.       *)
LEMMA SortedList ==
    ASSUME NEW d, Sound(d), NEW list \in Sorted(d)
    PROVE  /\ DOMAIN list = 1 .. Cardinality(LiveKeys(d))
           /\ \A i \in DOMAIN list :
                 /\ list[i].start \in Int /\ list[i].end \in Int
                 /\ list[i].start < list[i].end
           /\ \A i, j \in DOMAIN list : i < j => list[i].start <= list[j].start
<1>1. DOMAIN list = 1 .. Cardinality(LiveKeys(d))
  BY DEF Sorted
<1>2. ASSUME NEW i \in DOMAIN list
      PROVE  /\ list[i].start \in Int /\ list[i].end \in Int
             /\ list[i].start < list[i].end
  <2>1. PICK key \in LiveKeys(d) : list[i] = OccurrenceSchedule(d, key)
    BY DEF Sorted
  <2> QED
    BY <2>1, OccurrencesAreSchedules DEF Sound, Expandable, ValidSchedule, Schedules
<1>3. \A i, j \in DOMAIN list : i < j => list[i].start <= list[j].start
  BY DEF Sorted
<1> QED
  BY <1>1, <1>2, <1>3

(* The occurrences of an event are those of its list, one for one.         *)
LEMMA ListedOccurrences ==
    ASSUME NEW d, Sound(d), NEW list \in Sorted(d)
    PROVE  \E keys \in [DOMAIN list -> LiveKeys(d)] :
              /\ \A i \in DOMAIN list : list[i] = OccurrenceSchedule(d, keys[i])
              /\ \A i, j \in DOMAIN list : keys[i] = keys[j] => i = j
              /\ \A key \in LiveKeys(d) : \E i \in DOMAIN list : keys[i] = key
BY DEF Sorted

LEMMA ListedClash ==
    ASSUME NEW d, Sound(d), NEW list \in Sorted(d),
           NEW e, Sound(e), NEW other \in Sorted(e)
    PROVE  Clash(d, e) <=> \E i \in DOMAIN list, j \in DOMAIN other : Overlap(list[i], other[j])
<1>1. PICK keys \in [DOMAIN list -> LiveKeys(d)] :
          /\ \A i \in DOMAIN list : list[i] = OccurrenceSchedule(d, keys[i])
          /\ \A key \in LiveKeys(d) : \E i \in DOMAIN list : keys[i] = key
  BY ListedOccurrences
<1>2. PICK others \in [DOMAIN other -> LiveKeys(e)] :
          /\ \A j \in DOMAIN other : other[j] = OccurrenceSchedule(e, others[j])
          /\ \A key \in LiveKeys(e) : \E j \in DOMAIN other : others[j] = key
  BY ListedOccurrences
<1>3. ASSUME Clash(d, e)
      PROVE  \E i \in DOMAIN list, j \in DOMAIN other : Overlap(list[i], other[j])
  <2>1. PICK k \in LiveKeys(d), l \in LiveKeys(e) :
            Overlap(OccurrenceSchedule(d, k), OccurrenceSchedule(e, l))
    BY <1>3 DEF Clash
  <2>2. PICK i \in DOMAIN list, j \in DOMAIN other : keys[i] = k /\ others[j] = l
    BY <1>1, <1>2
  <2> QED
    BY <1>1, <1>2, <2>1, <2>2
<1>4. ASSUME NEW i \in DOMAIN list, NEW j \in DOMAIN other, Overlap(list[i], other[j])
      PROVE  Clash(d, e)
  BY <1>1, <1>2, <1>4 DEF Clash
<1> QED
  BY <1>3, <1>4

LEMMA ListedSelfClash ==
    ASSUME NEW d, Sound(d), NEW list \in Sorted(d)
    PROVE  SelfClash(d) <=> \E i, j \in DOMAIN list : i < j /\ Overlap(list[i], list[j])
<1>1. PICK keys \in [DOMAIN list -> LiveKeys(d)] :
          /\ \A i \in DOMAIN list : list[i] = OccurrenceSchedule(d, keys[i])
          /\ \A i, j \in DOMAIN list : keys[i] = keys[j] => i = j
          /\ \A key \in LiveKeys(d) : \E i \in DOMAIN list : keys[i] = key
  BY ListedOccurrences
<1>2. DOMAIN list = 1 .. Cardinality(LiveKeys(d))
  BY SortedList
<1>3. ASSUME SelfClash(d)
      PROVE  \E i, j \in DOMAIN list : i < j /\ Overlap(list[i], list[j])
  <2>1. PICK k, l \in LiveKeys(d) :
            k # l /\ Overlap(OccurrenceSchedule(d, k), OccurrenceSchedule(d, l))
    BY <1>3 DEF SelfClash
  <2>2. PICK i \in DOMAIN list, j \in DOMAIN list : keys[i] = k /\ keys[j] = l
    BY <1>1
  <2>3. Overlap(list[i], list[j]) /\ Overlap(list[j], list[i])
    BY <1>1, <2>1, <2>2 DEF Overlap
  <2>4. i < j \/ j < i
    BY <1>2, <2>1, <2>2
  <2> QED
    BY <2>3, <2>4
<1>4. ASSUME NEW i \in DOMAIN list, NEW j \in DOMAIN list, i < j, Overlap(list[i], list[j])
      PROVE  SelfClash(d)
  <2>1. keys[i] # keys[j]
    BY <1>1, <1>2, <1>4
  <2> QED
    BY <1>1, <1>4, <2>1 DEF SelfClash
<1> QED
  BY <1>3, <1>4

-----------------------------------------------------------------------------
(* The query *)

(* An event that clashes with the candidate is selected, given that the    *)
(* span covers every occurrence of the candidate.                          *)
LEMMA ClashesAreSelected ==
    ASSUME Sound(candidate), NEW i \in Ids, ClashesWith(i), Sound(cal[i]),
           NEW start \in Int, NEW end \in Int,
           \A key \in LiveKeys(candidate) :
               /\ start <= OccurrenceSchedule(candidate, key).start
               /\ OccurrenceSchedule(candidate, key).end <= end
    PROVE  Selected(i, start, end)
<1>1. PICK k \in LiveKeys(candidate), l \in LiveKeys(cal[i]) :
          Overlap(OccurrenceSchedule(candidate, k), OccurrenceSchedule(cal[i], l))
  BY DEF ClashesWith, Clash
<1>2. CASE cal[i].recurrence # None
  BY <1>2 DEF ClashesWith, Selected
<1>3. CASE cal[i].recurrence = None
  <2> DEFINE s == cal[i].schedule
             o == OccurrenceSchedule(candidate, k)
  <2>1. OccurrenceSchedule(cal[i], l) = s
    BY <1>3, SingleOccurrence DEF Sound
  <2>2. s \in Schedules /\ o \in Schedules
    BY OccurrencesAreSchedules DEF Sound, IsDocument
  <2>3. s.start \in Int /\ s.end \in Int /\ o.start \in Int /\ o.end \in Int
    BY <2>2 DEF Schedules
  <2>4. s.start < end /\ start < s.end
    <3>1. o.start < s.end /\ s.start < o.end
      BY <1>1, <2>1 DEF Overlap
    <3>2. start <= o.start /\ o.end <= end
      OBVIOUS
    <3> HIDE DEF s, o
    <3> QED
      BY <2>3, <3>1, <3>2
  <2>5. CASE s.kind = "timed"
    BY <2>3, <2>4, <2>5 DEF ClashesWith, Selected
  <2>6. CASE s.kind = "all-day"
    <3>1. s.start % DayLength = 0 /\ s.end % DayLength = 0
      BY <2>2, <2>6 DEF Schedules, WholeDays
    <3>2. Day(s.start) < LastDay(end) /\ Day(s.end) > Day(start)
      BY <2>2, <2>4, <3>1, RoundingKeepsOverlap
    <3> QED
      BY <2>6, <3>2 DEF ClashesWith, Selected
  <2> QED
    BY <2>2, <2>5, <2>6 DEF Schedules, Kinds
<1> QED
  BY <1>2, <1>3

-----------------------------------------------------------------------------
(* What the phases of the search have excluded *)

(* The sweep: no two of the occurrences before item clash, and furthest is *)
(* the latest of their ends.                                               *)
Swept ==
    /\ pc = "begin" => item = 1 /\ furthest = None
    /\ pc \in {"sweep", "fetch", "merge"} =>
           /\ ~candidate.allow
           /\ proposed \in Sorted(candidate) /\ 1 \in DOMAIN proposed
           /\ item > 1 => furthest \in Int
           /\ \A i \in DOMAIN proposed : i < item => proposed[i].end <= furthest
           /\ furthest # None => \E i \in DOMAIN proposed : i < item /\ proposed[i].end = furthest
           /\ \A i, j \in DOMAIN proposed :
                  i < j /\ j < item => ~Overlap(proposed[i], proposed[j])

(* Events of the owner other than the one excluded. *)
Others == {i \in Ids : i # self /\ cal[i] # None /\ cal[i].owner = candidate.owner}

(* The cursor: only events it has yet to yield can clash, but for one that *)
(* is being merged.                                                        *)
Fetched ==
    /\ unread \subseteq Others
    /\ pc \in {"fetch", "merge"} => item \notin DOMAIN proposed
    /\ pc = "fetch" => \A i \in Ids : ClashesWith(i) => i \in unread

(* The merge: no occurrence already passed on either side meets any of the *)
(* other.                                                                  *)
Passed(list, place, other) ==
    \A i \in DOMAIN list, j \in DOMAIN other : i < place => ~Overlap(list[i], other[j])

MergedSoFar ==
    pc = "merge" =>
        \E i \in Others :
            /\ existing \in Sorted(cal[i])
            /\ \A j \in Ids : ClashesWith(j) => j = i \/ j \in unread
            /\ Passed(proposed, a, existing)
            /\ Passed(existing, b, proposed)

Inv == ScanTypeOK /\ Swept /\ Fetched /\ MergedSoFar /\ ClashesFound

LEMMA InputsAreSound ==
    ASSUME ScanTypeOK
    PROVE  /\ Sound(candidate)
           /\ \A i \in Ids : cal[i] # None => Sound(cal[i])
BY ScanAssumption DEF ScanTypeOK, Sound, IsCalendar, AllExpand

LEMMA InvInit ==
    Init => Inv
<1> SUFFICES ASSUME Init
             PROVE  Inv
  OBVIOUS
<1> USE DEF Init
<1>1. ScanTypeOK
  BY ScanAssumption DEF ScanTypeOK
<1>2. Swept /\ Fetched /\ MergedSoFar
  BY DEF Swept, Fetched, MergedSoFar
<1>3. ClashesFound
  BY ScanAssumption DEF ClashesFound
<1> QED
  BY <1>1, <1>2, <1>3 DEF Inv

(* A verdict once given stands: the steps after it do not exist, and those *)
(* before it keep the verdict out of ClashesFound.                         *)
LEMMA NoVerdictYet ==
    ASSUME ScanTypeOK, UNCHANGED verdict, pc # "done"
    PROVE  ClashesFound'
<1>1. verdict = None /\ verdict' = None
  BY DEF ScanTypeOK
<1> QED
  BY <1>1, ScanAssumption DEF ClashesFound

LEMMA InvBegin ==
    ASSUME Inv, Begin
    PROVE  Inv'
<1> USE DEF Inv
<1>1. Sound(candidate) /\ candidate' = candidate /\ cal' = cal /\ self' = self
  BY InputsAreSound DEF Begin, input
<1>2. CASE candidate.allow \/ LiveKeys(candidate) = {}
  <2>1. pc' = "done" /\ verdict' = 200 /\ proposed' = proposed
    BY <1>2 DEF Begin, Return
  <2>2. ScanTypeOK'
    BY <1>1, <2>1, ScanAssumption DEF ScanTypeOK, Begin, merge
  <2>3. (Swept /\ Fetched /\ MergedSoFar)'
    BY <1>1, <2>1 DEF Swept, Fetched, MergedSoFar, Others, Begin
  <2>4. ClashesFound'
    BY <1>1, <1>2, <2>1 DEF ClashesFound, ClashesWith, SelfClash, Clash
  <2> QED
    BY <2>2, <2>3, <2>4
<1>3. CASE ~(candidate.allow \/ LiveKeys(candidate) = {})
  <2>1. pc' = "sweep" /\ verdict' = verdict /\ proposed' \in Sorted(candidate)
        /\ UNCHANGED <<item, furthest>>
    BY <1>3 DEF Begin
  <2>2. ScanTypeOK'
    BY <1>1, <2>1 DEF ScanTypeOK, Begin, merge
  <2>3. 1 \in DOMAIN proposed'
    <3>1. DOMAIN proposed' = 1 .. Cardinality(LiveKeys(candidate))
      BY <1>1, <2>1, SortedList
    <3>2. PICK key \in LiveKeys(candidate) : TRUE
      BY <1>3
    <3>3. \E i \in DOMAIN proposed' : TRUE
      BY <1>1, <2>1, <3>2, ListedOccurrences
    <3>4. Cardinality(LiveKeys(candidate)) \in Nat
      BY <1>1, FinitelyManyOccurrences
    <3> QED
      BY <3>1, <3>3, <3>4
  <2>4. DOMAIN proposed' = 1 .. Cardinality(LiveKeys(candidate))
    BY <1>1, <2>1, SortedList
  <2>5. item = 1 /\ furthest = None /\ item' = 1 /\ furthest' = None
    BY <2>1 DEF Swept, Begin
  <2>6. Swept'
    BY <1>1, <1>3, <2>1, <2>3, <2>4, <2>5 DEF Swept
  <2>7. (Fetched /\ MergedSoFar)'
    BY <1>1, <2>1 DEF Fetched, MergedSoFar, Others, Begin
  <2>8. ClashesFound'
    BY <2>1, NoVerdictYet DEF Begin
  <2> QED
    BY <2>2, <2>6, <2>7, <2>8
<1> QED
  BY <1>2, <1>3

LEMMA InvSweepItem ==
    ASSUME Inv, SweepItem
    PROVE  Inv'
<1> USE DEF Inv
<1>1. /\ Sound(candidate) /\ candidate' = candidate /\ cal' = cal /\ self' = self
      /\ proposed' = proposed /\ UNCHANGED <<unread, scanned, budget, existing, a, b>>
      /\ pc = "sweep" /\ item \in DOMAIN proposed /\ proposed \in Sorted(candidate)
  BY InputsAreSound DEF SweepItem, input, merge, Swept
<1> DEFINE s == proposed[item]
<1>2. /\ DOMAIN proposed = 1 .. Cardinality(LiveKeys(candidate))
      /\ \A i \in DOMAIN proposed :
            /\ proposed[i].start \in Int /\ proposed[i].end \in Int
            /\ proposed[i].start < proposed[i].end
      /\ \A i, j \in DOMAIN proposed : i < j => proposed[i].start <= proposed[j].start
  BY <1>1, SortedList
<1>3. CASE furthest # None /\ s.start < furthest
  <2>1. pc' = "done" /\ verdict' = 409 /\ UNCHANGED <<item, furthest>>
    BY <1>3 DEF SweepItem, Return
  <2>2. ScanTypeOK'
    BY <1>1, <2>1, ScanAssumption DEF ScanTypeOK
  <2>3. (Swept /\ Fetched /\ MergedSoFar)'
    BY <1>1, <2>1 DEF Swept, Fetched, MergedSoFar, Others
  <2>4. PICK i \in DOMAIN proposed : i < item /\ proposed[i].end = furthest
    BY <1>1, <1>3 DEF Swept
  <2>5. Overlap(proposed[i], s)
    BY <1>1, <1>2, <1>3, <2>4 DEF Overlap
  <2>6. SelfClash(candidate)
    BY <1>1, <2>4, <2>5, ListedSelfClash
  <2>7. ClashesFound'
    BY <1>1, <2>1, <2>6 DEF ClashesFound, Swept
  <2> QED
    BY <2>2, <2>3, <2>7
<1>4. CASE ~(furthest # None /\ s.start < furthest)
  <2>1. /\ pc' = "sweep" /\ verdict' = verdict
        /\ item' = item + 1 /\ furthest' = FurthestEnd(s)
    BY <1>1, <1>4 DEF SweepItem
  <2>2. item \in Nat \ {0} /\ s.end \in Int /\ s.start \in Int /\ s.start < s.end
    BY <1>1, <1>2 DEF ScanTypeOK
  <2>3. furthest' = s.end
    <3>1. CASE furthest = None
      BY <2>1, <3>1 DEF FurthestEnd
    <3>2. CASE furthest # None
      <4>1. furthest \in Int /\ ~(s.start < furthest)
        BY <1>4, <3>2 DEF ScanTypeOK
      <4> QED
        BY <2>1, <2>2, <4>1 DEF FurthestEnd
    <3> QED
      BY <3>1, <3>2
  <2>4. ScanTypeOK'
    BY <1>1, <2>1, <2>2, <2>3 DEF ScanTypeOK
  <2>5. ASSUME NEW i \in DOMAIN proposed, i < item
        PROVE  proposed[i].end <= s.start
    <3>1. furthest \in Int /\ proposed[i].end <= furthest
      BY <1>1, <1>2, <2>2, <2>5 DEF Swept
    <3>2. furthest <= s.start
      BY <1>4, <2>2, <3>1, ScanAssumption
    <3> QED
      BY <1>2, <2>2, <3>1, <3>2
  <2>6. \A i \in DOMAIN proposed : i < item' => i < item \/ i = item
    BY <1>2, <2>1, <2>2
  <2>7. \A i \in DOMAIN proposed : i < item' => proposed[i].end <= furthest'
    BY <1>2, <2>2, <2>3, <2>5, <2>6
  <2>8. \A i, j \in DOMAIN proposed :
            i < j /\ j < item' => ~Overlap(proposed[i], proposed[j])
    <3>1. SUFFICES ASSUME NEW i \in DOMAIN proposed, NEW j \in DOMAIN proposed,
                          i < j, j < item'
                   PROVE  ~Overlap(proposed[i], proposed[j])
      OBVIOUS
    <3>2. CASE j < item
      BY <1>1, <3>1, <3>2 DEF Swept
    <3>3. CASE j = item
      <4>1. proposed[i].end <= proposed[j].start
        BY <2>5, <3>1, <3>3
      <4> QED
        BY <1>2, <4>1 DEF Overlap
    <3> QED
      BY <2>6, <3>1, <3>2, <3>3
  <2>9. item < item'
    BY <2>1, <2>2
  <2>10. Swept'
    BY <1>1, <2>1, <2>2, <2>3, <2>7, <2>8, <2>9 DEF Swept
  <2>11. (Fetched /\ MergedSoFar)'
    BY <1>1, <2>1 DEF Fetched, MergedSoFar, Others
  <2>12. ClashesFound'
    BY <1>1, <2>1, NoVerdictYet
  <2> QED
    BY <2>4, <2>10, <2>11, <2>12
<1> QED
  BY <1>3, <1>4

LEMMA InvFind ==
    ASSUME Inv, Find
    PROVE  Inv'
<1> USE DEF Inv
<1> DEFINE start == proposed[1].start
<1>1. /\ Sound(candidate) /\ candidate' = candidate /\ cal' = cal /\ self' = self
      /\ UNCHANGED <<proposed, item, furthest, scanned, existing, a, b, verdict>>
      /\ pc = "sweep" /\ pc' = "fetch" /\ item \notin DOMAIN proposed
      /\ proposed \in Sorted(candidate) /\ 1 \in DOMAIN proposed
      /\ unread' = {i \in Ids : Selected(i, start, furthest)}
  BY InputsAreSound DEF Find, input, sweep, merge, Swept
<1>2. /\ DOMAIN proposed = 1 .. Cardinality(LiveKeys(candidate))
      /\ \A i \in DOMAIN proposed : proposed[i].start \in Int /\ proposed[i].end \in Int
      /\ \A i, j \in DOMAIN proposed : i < j => proposed[i].start <= proposed[j].start
  BY <1>1, SortedList
<1>3. item \in Nat \ {0} /\ Cardinality(LiveKeys(candidate)) \in Nat
  BY <1>1, FinitelyManyOccurrences DEF ScanTypeOK
<1>4. item > 1 /\ \A i \in DOMAIN proposed : i < item
  BY <1>1, <1>2, <1>3
<1>5. furthest \in Int /\ start \in Int
  BY <1>1, <1>2, <1>4 DEF Swept
<1>6. ASSUME NEW key \in LiveKeys(candidate)
      PROVE  /\ start <= OccurrenceSchedule(candidate, key).start
             /\ OccurrenceSchedule(candidate, key).end <= furthest
  <2>1. PICK i \in DOMAIN proposed : proposed[i] = OccurrenceSchedule(candidate, key)
    BY <1>1, ListedOccurrences
  <2>2. start <= proposed[i].start
    BY <1>1, <1>2
  <2>3. proposed[i].end <= furthest
    BY <1>1, <1>4 DEF Swept
  <2> QED
    BY <2>1, <2>2, <2>3
<1>7. \A i \in Ids : ClashesWith(i) => Selected(i, start, furthest)
  <2>1. SUFFICES ASSUME NEW i \in Ids, ClashesWith(i)
                 PROVE  Selected(i, start, furthest)
    OBVIOUS
  <2>2. Sound(cal[i])
    BY <2>1, InputsAreSound DEF ClashesWith
  <2> HIDE DEF start
  <2> QED
    BY <1>1, <1>5, <1>6, <2>1, <2>2, ClashesAreSelected
<1>8. ScanTypeOK'
  <2>1. budget' \in Int
    BY <1>3, CalendarAssumption DEF Find
  <2> QED
    BY <1>1, <2>1 DEF ScanTypeOK
<1>9. Swept'
  BY <1>1 DEF Swept
<1>10. Fetched'
  <2>1. unread' \subseteq Others
    BY <1>1 DEF Selected, Others
  <2>2. \A i \in Ids : ClashesWith(i)' => i \in unread'
    BY <1>1, <1>7 DEF ClashesWith
  <2> QED
    BY <1>1, <2>1, <2>2 DEF Fetched, Others
<1>11. MergedSoFar' /\ ClashesFound'
  BY <1>1, NoVerdictYet DEF MergedSoFar
<1> QED
  BY <1>8, <1>9, <1>10, <1>11

LEMMA InvFetch ==
    ASSUME Inv, NEW i \in Ids, Fetch(i)
    PROVE  Inv'
<1> USE DEF Inv
<1>1. /\ candidate' = candidate /\ cal' = cal /\ self' = self
      /\ UNCHANGED <<proposed, item, furthest>>
      /\ pc = "fetch" /\ i \in unread /\ unread' = unread \ {i}
      /\ scanned' = scanned + 1
      /\ budget' = budget - Cardinality(BaseKeys(cal[i]))
  BY DEF Fetch, input, sweep
<1>2. i \in Others /\ Sound(cal[i])
  BY <1>1, InputsAreSound DEF Fetched, Others
<1>3. scanned' \in Nat /\ budget' \in Int
  BY <1>1, <1>2, FinitelyManyOccurrences DEF ScanTypeOK
<1>4. Swept'
  <2>1. pc' \in {"done", "merge"}
    BY <1>1 DEF Fetch, Return
  <2> QED
    BY <1>1, <2>1 DEF Swept
<1>5. CASE TooManyScanned \/ budget' < 0
  <2>1. pc' = "done" /\ verdict' = 413 /\ UNCHANGED merge
    BY <1>1, <1>5 DEF Fetch, Return
  <2>2. ScanTypeOK'
    BY <1>1, <1>3, <2>1, ScanAssumption DEF ScanTypeOK, merge
  <2>3. (Fetched /\ MergedSoFar /\ ClashesFound)'
    BY <1>1, <2>1 DEF Fetched, MergedSoFar, ClashesFound, Others
  <2> QED
    BY <1>4, <2>2, <2>3
<1>6. CASE ~(TooManyScanned \/ budget' < 0)
  <2>1. /\ pc' = "merge" /\ verdict' = verdict
        /\ existing' \in Sorted(cal[i]) /\ a' = 1 /\ b' = 1
    BY <1>1, <1>6 DEF Fetch
  <2>2. scanned' <= MaxScanned
    BY <1>1, <1>3, <1>6, CalendarAssumption DEF TooManyScanned
  <2>3. ScanTypeOK'
    BY <1>1, <1>3, <2>1, <2>2 DEF ScanTypeOK
  <2>4. Fetched'
    BY <1>1, <2>1 DEF Fetched, Others
  <2>5. Passed(proposed', a', existing') /\ Passed(existing', b', proposed')
    <3>1. proposed' \in Sorted(candidate) /\ Sound(candidate)
      BY <1>1, InputsAreSound DEF Swept
    <3>2. /\ DOMAIN proposed' = 1 .. Cardinality(LiveKeys(candidate))
          /\ DOMAIN existing' = 1 .. Cardinality(LiveKeys(cal[i]))
      BY <1>2, <2>1, <3>1, SortedList
    <3> QED
      BY <2>1, <3>2 DEF Passed
  <2>6. \A j \in Ids : ClashesWith(j)' => j = i \/ j \in unread'
    BY <1>1 DEF Fetched, ClashesWith
  <2>7. MergedSoFar'
    BY <1>1, <1>2, <2>1, <2>5, <2>6 DEF MergedSoFar, Others
  <2>8. ClashesFound'
    BY <1>1, <2>1, NoVerdictYet
  <2> QED
    BY <1>4, <2>3, <2>4, <2>7, <2>8
<1> QED
  BY <1>5, <1>6

LEMMA InvNoMore ==
    ASSUME Inv, NoMore
    PROVE  Inv'
<1> USE DEF Inv
<1>1. /\ candidate' = candidate /\ cal' = cal /\ self' = self
      /\ UNCHANGED <<proposed, item, furthest, unread, scanned, budget, existing, a, b>>
      /\ pc = "fetch" /\ unread = {} /\ pc' = "done" /\ verdict' = 200
  BY DEF NoMore, input, sweep, merge, Return
<1>2. ScanTypeOK'
  BY <1>1, ScanAssumption DEF ScanTypeOK
<1>3. (Swept /\ Fetched /\ MergedSoFar)'
  BY <1>1 DEF Swept, Fetched, MergedSoFar, Others
<1>4. \A i \in Ids : ~ClashesWith(i)
  BY <1>1 DEF Fetched
<1>5. ~SelfClash(candidate)
  <2>1. /\ Sound(candidate) /\ proposed \in Sorted(candidate)
        /\ item \notin DOMAIN proposed /\ item \in Nat \ {0}
    BY <1>1, InputsAreSound DEF Swept, Fetched, ScanTypeOK
  <2>2. /\ DOMAIN proposed = 1 .. Cardinality(LiveKeys(candidate))
        /\ Cardinality(LiveKeys(candidate)) \in Nat
    BY <2>1, SortedList, FinitelyManyOccurrences
  <2>3. \A i \in DOMAIN proposed : i < item
    BY <2>1, <2>2
  <2> QED
    BY <1>1, <2>1, <2>3, ListedSelfClash DEF Swept
<1>6. ClashesFound'
  BY <1>1, <1>4, <1>5 DEF ClashesFound, ClashesWith
<1> QED
  BY <1>2, <1>3, <1>6

LEMMA InvCompare ==
    ASSUME Inv, Compare
    PROVE  Inv'
<1> USE DEF Inv
<1>1. /\ candidate' = candidate /\ cal' = cal /\ self' = self
      /\ UNCHANGED <<proposed, item, furthest, unread, scanned, budget, existing>>
      /\ pc = "merge" /\ a \in DOMAIN proposed /\ b \in DOMAIN existing
  BY DEF Compare, input, sweep
<1>2. Sound(candidate) /\ proposed \in Sorted(candidate)
  BY <1>1, InputsAreSound DEF Swept
<1>3. PICK i \in Others :
          /\ existing \in Sorted(cal[i])
          /\ \A j \in Ids : ClashesWith(j) => j = i \/ j \in unread
          /\ Passed(proposed, a, existing)
          /\ Passed(existing, b, proposed)
  BY <1>1 DEF MergedSoFar
<1>4. Sound(cal[i]) /\ i \in Ids
  BY InputsAreSound DEF Others
<1>5. CASE Overlap(proposed[a], existing[b])
  <2>1. pc' = "done" /\ verdict' = 409 /\ UNCHANGED <<a, b>>
    BY <1>1, <1>5 DEF Compare, Return
  <2>2. ScanTypeOK'
    BY <1>1, <2>1, ScanAssumption DEF ScanTypeOK
  <2>3. (Swept /\ Fetched /\ MergedSoFar)'
    BY <1>1, <2>1 DEF Swept, Fetched, MergedSoFar, Others
  <2>4. Clash(candidate, cal[i])
    BY <1>1, <1>2, <1>3, <1>4, <1>5, ListedClash
  <2>5. ClashesWith(i) /\ ~candidate.allow
    BY <1>1, <2>4 DEF ClashesWith, Others, Swept
  <2>6. ClashesFound'
    BY <1>1, <1>4, <2>1, <2>5 DEF ClashesFound, ClashesWith
  <2> QED
    BY <2>2, <2>3, <2>6
<1>6. CASE ~Overlap(proposed[a], existing[b])
  <2> DEFINE left == proposed[a]
             right == existing[b]
  <2>1. pc' = "merge" /\ verdict' = verdict /\ Advance
    BY <1>1, <1>6 DEF Compare
  <2>2. /\ DOMAIN proposed = 1 .. Cardinality(LiveKeys(candidate))
        /\ \A k \in DOMAIN proposed : proposed[k].start \in Int /\ proposed[k].end \in Int
        /\ \A k, l \in DOMAIN proposed : k < l => proposed[k].start <= proposed[l].start
    BY <1>2, SortedList
  <2>3. /\ DOMAIN existing = 1 .. Cardinality(LiveKeys(cal[i]))
        /\ \A k \in DOMAIN existing : existing[k].start \in Int /\ existing[k].end \in Int
        /\ \A k, l \in DOMAIN existing : k < l => existing[k].start <= existing[l].start
    BY <1>3, <1>4, SortedList
  <2>4. a \in Nat \ {0} /\ b \in Nat \ {0}
    BY DEF ScanTypeOK
  <2>5. /\ a' \in Nat \ {0} /\ b' \in Nat \ {0}
        /\ Passed(proposed, a', existing) /\ Passed(existing, b', proposed)
    <3>1. CASE left.end <= right.start
      <4>1. a' = a + 1 /\ b' = b
        BY <2>1, <3>1 DEF Advance
      <4>2. ASSUME NEW l \in DOMAIN existing
            PROVE  ~Overlap(left, existing[l])
        <5>1. CASE l < b
          BY <1>1, <1>3, <5>1 DEF Passed, Overlap
        <5>2. CASE b <= l
          <6>1. right.start <= existing[l].start
            BY <1>1, <2>3, <2>4, <5>2
          <6> QED
            BY <1>1, <2>2, <2>3, <3>1, <6>1 DEF Overlap
        <5> QED
          BY <2>3, <2>4, <5>1, <5>2
      <4>3. Passed(proposed, a', existing)
        BY <1>3, <2>2, <2>4, <4>1, <4>2 DEF Passed
      <4> QED
        BY <1>3, <2>4, <4>1, <4>3
    <3>2. CASE ~(left.end <= right.start)
      <4>1. b' = b + 1 /\ a' = a
        BY <2>1, <3>2 DEF Advance
      <4>2. right.end <= left.start
        BY <1>1, <1>6, <2>2, <2>3, <3>2 DEF Overlap
      <4>3. ASSUME NEW k \in DOMAIN proposed
            PROVE  ~Overlap(right, proposed[k])
        <5>1. CASE k < a
          BY <1>1, <1>3, <5>1 DEF Passed, Overlap
        <5>2. CASE a <= k
          <6>1. left.start <= proposed[k].start
            BY <1>1, <2>2, <2>4, <5>2
          <6> QED
            BY <1>1, <2>2, <2>3, <4>2, <6>1 DEF Overlap
        <5> QED
          BY <2>2, <2>4, <5>1, <5>2
      <4>4. Passed(existing, b', proposed)
        BY <1>3, <2>3, <2>4, <4>1, <4>3 DEF Passed
      <4> QED
        BY <1>3, <2>4, <4>1, <4>4
    <3> QED
      BY <3>1, <3>2
  <2>6. ScanTypeOK'
    BY <1>1, <2>1, <2>5 DEF ScanTypeOK
  <2>7. (Swept /\ Fetched)'
    BY <1>1, <2>1 DEF Swept, Fetched, Others
  <2>8. \A j \in Ids : ClashesWith(j)' => j = i \/ j \in unread'
    BY <1>1, <1>3 DEF ClashesWith
  <2>9. MergedSoFar'
    BY <1>1, <1>3, <2>5, <2>8 DEF MergedSoFar, Others
  <2>10. ClashesFound'
    BY <1>1, <2>1, NoVerdictYet
  <2> QED
    BY <2>6, <2>7, <2>9, <2>10
<1> QED
  BY <1>5, <1>6

LEMMA InvMerged ==
    ASSUME Inv, Merged
    PROVE  Inv'
<1> USE DEF Inv
<1>1. /\ candidate' = candidate /\ cal' = cal /\ self' = self
      /\ UNCHANGED <<proposed, item, furthest, unread, scanned, budget, existing, a, b, verdict>>
      /\ pc = "merge" /\ pc' = "fetch"
      /\ ~(a \in DOMAIN proposed /\ b \in DOMAIN existing)
  BY DEF Merged, input, sweep, merge
<1>2. Sound(candidate) /\ proposed \in Sorted(candidate)
  BY <1>1, InputsAreSound DEF Swept
<1>3. PICK i \in Others :
          /\ existing \in Sorted(cal[i])
          /\ \A j \in Ids : ClashesWith(j) => j = i \/ j \in unread
          /\ Passed(proposed, a, existing)
          /\ Passed(existing, b, proposed)
  BY <1>1 DEF MergedSoFar
<1>4. Sound(cal[i])
  BY InputsAreSound DEF Others
<1>5. ~Clash(candidate, cal[i])
  <2>1. /\ DOMAIN proposed = 1 .. Cardinality(LiveKeys(candidate))
        /\ DOMAIN existing = 1 .. Cardinality(LiveKeys(cal[i]))
        /\ Cardinality(LiveKeys(candidate)) \in Nat
        /\ Cardinality(LiveKeys(cal[i])) \in Nat
    BY <1>2, <1>3, <1>4, SortedList, FinitelyManyOccurrences
  <2>2. a \in Nat \ {0} /\ b \in Nat \ {0}
    BY DEF ScanTypeOK
  <2>3. \A k \in DOMAIN proposed, l \in DOMAIN existing : ~Overlap(proposed[k], existing[l])
    <3>1. CASE a \notin DOMAIN proposed
      <4>1. \A k \in DOMAIN proposed : k < a
        BY <2>1, <2>2, <3>1
      <4> QED
        BY <1>3, <4>1 DEF Passed
    <3>2. CASE b \notin DOMAIN existing
      <4>1. \A l \in DOMAIN existing : l < b
        BY <2>1, <2>2, <3>2
      <4> QED
        BY <1>3, <4>1 DEF Passed, Overlap
    <3> QED
      BY <1>1, <3>1, <3>2
  <2> QED
    BY <1>2, <1>3, <1>4, <2>3, ListedClash
<1>6. ScanTypeOK'
  BY <1>1 DEF ScanTypeOK
<1>7. (Swept /\ MergedSoFar)'
  BY <1>1 DEF Swept, MergedSoFar
<1>8. Fetched'
  BY <1>1, <1>3, <1>5 DEF Fetched, ClashesWith, Others
<1>9. ClashesFound'
  BY <1>1, NoVerdictYet
<1> QED
  BY <1>6, <1>7, <1>8, <1>9

LEMMA InvNext ==
    ASSUME Inv, [Next]_vars
    PROVE  Inv'
<1>1. CASE Begin
  BY <1>1, InvBegin
<1>2. CASE SweepItem
  BY <1>2, InvSweepItem
<1>3. CASE Find
  BY <1>3, InvFind
<1>4. CASE \E i \in Ids : Fetch(i)
  BY <1>4, InvFetch
<1>5. CASE NoMore
  BY <1>5, InvNoMore
<1>6. CASE Compare
  BY <1>6, InvCompare
<1>7. CASE Merged
  BY <1>7, InvMerged
<1>8. CASE UNCHANGED vars
  BY <1>8 DEF vars, input, sweep, merge, Inv, ScanTypeOK, Swept, Fetched, MergedSoFar,
              Passed, Others, ClashesWith, ClashesFound
<1> QED
  BY <1>1, <1>2, <1>3, <1>4, <1>5, <1>6, <1>7, <1>8 DEF Next

-----------------------------------------------------------------------------
(* The search keeps the shape of its variables and merges no event past    *)
(* the limit.                                                              *)
THEOREM ScanTypeCorrect ==
    Spec => []ScanTypeOK
<1>1. Spec => []Inv
  BY InvInit, InvNext, PTL DEF Spec
<1>2. Inv => ScanTypeOK
  BY DEF Inv
<1> QED
  BY <1>1, <1>2, PTL

(* assertNoEventConflict lets a write through only if nothing clashes and  *)
(* calls it a conflict only if something does: sorting, sweep, rounded     *)
(* query and merge together decide exactly whether occurrences overlap.    *)
THEOREM SearchFindsClashes ==
    Spec => []ClashesFound
<1>1. Spec => []Inv
  BY InvInit, InvNext, PTL DEF Spec
<1>2. Inv => ClashesFound
  BY DEF Inv
<1> QED
  BY <1>1, <1>2, PTL

-----------------------------------------------------------------------------
(* The search ends as the calendar's rules say it may, limits included:    *)
(* EventService goes by Calendar!Verdicts, and assertNoEventConflict by    *)
(* this search.  Whatever the order in which the cursor yields the events, *)
(* its two counters say how much of the calendar has been read, so that    *)
(* either runs over only if the whole is over a limit.                     *)


InQuery == Scanned(candidate, self, cal)

(* The occurrences of these events, before exceptions. *)
Expanded(ids) == UNION {{i} \X BaseKeys(cal[i]) : i \in ids}

-----------------------------------------------------------------------------
(* The query selects the events that Scanned describes *)

(* The first start and the last end of the candidate's occurrences.        *)
Spans(start, end) ==
    /\ start \in Int /\ end \in Int
    /\ \A key \in LiveKeys(candidate) :
           /\ start <= OccurrenceSchedule(candidate, key).start
           /\ OccurrenceSchedule(candidate, key).end <= end
    /\ \E key \in LiveKeys(candidate) : OccurrenceSchedule(candidate, key).start = start
    /\ \E key \in LiveKeys(candidate) : OccurrenceSchedule(candidate, key).end = end

(* Whole days that meet the days of a span meet the span itself.           *)
LEMMA RoundingAddsNoOverlap ==
    ASSUME NEW s \in Schedules, s.start % DayLength = 0, s.end % DayLength = 0,
           NEW start \in Int, NEW end \in Int,
           Day(s.start) < LastDay(end), Day(s.end) > Day(start)
    PROVE  s.start < end /\ start < s.end
<1> DEFINE last == end + DayLength - 1
           s1 == s.start
           s2 == s.end
<1>1. s1 \in Int /\ s2 \in Int /\ DayLength \in Nat \ {0} /\ last \in Int
  BY CalendarAssumption DEF Schedules
<1>2. s1 = DayLength * Day(s1) /\ s2 = DayLength * Day(s2)
  BY <1>1, WholeDay
<1>3. /\ Day(s1) \in Int /\ Day(s2) \in Int /\ Day(start) \in Int /\ Day(last) \in Int
      /\ DayLength * Day(last) <= last
      /\ start < DayLength * Day(start) + DayLength
  BY <1>1, Division
<1>4. /\ DayLength * Day(s1) + DayLength <= DayLength * Day(last)
      /\ DayLength * Day(start) + DayLength <= DayLength * Day(s2)
  BY <1>3, DaysApart DEF LastDay
<1>5. DayLength * Day(last) \in Int /\ DayLength * Day(start) \in Int
  BY <1>1, <1>3
<1>6. s1 + DayLength <= DayLength * Day(last) /\ DayLength * Day(start) + DayLength <= s2
  BY <1>2, <1>4
<1> DEFINE x == DayLength * Day(last)
           y == DayLength * Day(start)
<1>7. /\ x \in Int /\ y \in Int /\ x <= end + DayLength - 1 /\ start < y + DayLength
      /\ s1 + DayLength <= x /\ y + DayLength <= s2
  BY <1>3, <1>5, <1>6
<1> HIDE DEF x, y, s1, s2
<1>8. s1 < end /\ start < s2
  BY <1>1, <1>7
<1> QED
  BY <1>8 DEF s1, s2

LEMMA SelectedIsScanned ==
    ASSUME Sound(candidate), NEW i \in Ids, cal[i] # None => Sound(cal[i]),
           NEW start, NEW end, Spans(start, end)
    PROVE  Selected(i, start, end) <=> i \in InQuery
<1> DEFINE s == cal[i].schedule
           meets == \E k, l \in LiveKeys(candidate) :
                       /\ OccurrenceSchedule(candidate, k).start < s.end
                       /\ s.start < OccurrenceSchedule(candidate, l).end
<1>1. CASE cal[i] = None
  BY <1>1 DEF Selected, InQuery, Scanned
<1>2. CASE cal[i] # None
  <2>1. s \in Schedules /\ s.start \in Int /\ s.end \in Int
    BY <1>2 DEF Sound, IsDocument, Schedules
  <2>2. \A key \in LiveKeys(candidate) :
            /\ OccurrenceSchedule(candidate, key).start \in Int
            /\ OccurrenceSchedule(candidate, key).end \in Int
    BY OccurrencesAreSchedules DEF Schedules
  <2>3. meets <=> s.start < end /\ start < s.end
    <3>1. ASSUME meets
          PROVE  s.start < end /\ start < s.end
      <4>1. PICK k \in LiveKeys(candidate), l \in LiveKeys(candidate) :
                /\ OccurrenceSchedule(candidate, k).start < s.end
                /\ s.start < OccurrenceSchedule(candidate, l).end
        BY <3>1
      <4>2. start <= OccurrenceSchedule(candidate, k).start
            /\ OccurrenceSchedule(candidate, l).end <= end
        BY DEF Spans
      <4>3. start \in Int /\ end \in Int
        BY DEF Spans
      <4> HIDE DEF s
      <4> QED
        BY <2>1, <2>2, <4>1, <4>2, <4>3
    <3>2. ASSUME s.start < end, start < s.end
          PROVE  meets
      <4>1. PICK k \in LiveKeys(candidate) : OccurrenceSchedule(candidate, k).start = start
        BY DEF Spans
      <4>2. PICK l \in LiveKeys(candidate) : OccurrenceSchedule(candidate, l).end = end
        BY DEF Spans
      <4> QED
        BY <3>2, <4>1, <4>2
    <3> QED
      BY <3>1, <3>2
  <2>4. i \in InQuery <=>
            /\ i # self /\ cal[i].owner = candidate.owner
            /\ cal[i].recurrence # None \/ meets
    BY <1>2 DEF InQuery, Scanned
  <2>5. start \in Int /\ end \in Int
    BY DEF Spans
  <2> HIDE DEF meets
  <2>6. CASE s.kind = "timed"
    <3>1. s.kind # "all-day"
      BY <2>6
    <3> QED
      BY <1>2, <2>1, <2>3, <2>4, <2>5, <2>6, <3>1 DEF Selected
  <2>7. CASE s.kind = "all-day"
    <3>1. s.start % DayLength = 0 /\ s.end % DayLength = 0
      BY <2>1, <2>7 DEF Schedules, WholeDays
    <3>2. s.start < end /\ start < s.end
            <=> Day(s.start) < LastDay(end) /\ Day(s.end) > Day(start)
      BY <2>1, <2>5, <3>1, RoundingKeepsOverlap, RoundingAddsNoOverlap
    <3>3. s.kind # "timed"
      BY <2>7
    <3> QED
      BY <1>2, <2>3, <2>4, <2>7, <3>2, <3>3 DEF Selected
  <2> QED
    BY <2>1, <2>6, <2>7 DEF Schedules, Kinds
<1> QED
  BY <1>1, <1>2

-----------------------------------------------------------------------------
(* What the counters count *)

LEMMA ExpandedIsFinite ==
    ASSUME ScanTypeOK, NEW ids \in SUBSET Ids, \A i \in ids : cal[i] # None
    PROVE  IsFiniteSet(Expanded(ids)) /\ Cardinality(Expanded(ids)) \in Nat
<1> DEFINE f == [i \in ids |-> {i} \X BaseKeys(cal[i])]
           pairs == {{i} \X BaseKeys(cal[i]) : i \in ids}
<1>1. IsFiniteSet(ids)
  BY ScanAssumption, FS_Subset
<1>2. f \in Surjection(ids, pairs)
  BY DEF Surjection
<1>3. IsFiniteSet(pairs)
  <2> HIDE DEF f, pairs
  <2> QED
    BY <1>1, <1>2, FS_Surjection
<1>4. \A T \in pairs : IsFiniteSet(T)
  <2>1. SUFFICES ASSUME NEW i \in ids
                 PROVE  IsFiniteSet({i} \X BaseKeys(cal[i]))
    OBVIOUS
  <2>2. IsFiniteSet(BaseKeys(cal[i])) /\ IsFiniteSet({i})
    BY InputsAreSound, FinitelyManyOccurrences, FS_Singleton
  <2> QED
    BY <2>2, FS_Product
<1>5. IsFiniteSet(UNION pairs)
  <2> HIDE DEF pairs
  <2> QED
    BY <1>3, <1>4, FS_UNION
<1> QED
  BY <1>5, FS_CardinalityType DEF Expanded

LEMMA ExpandedGrows ==
    ASSUME ScanTypeOK, NEW ids \in SUBSET Ids, \A j \in ids : cal[j] # None,
           NEW i \in Ids, cal[i] # None, i \notin ids
    PROVE  Cardinality(Expanded(ids \cup {i}))
               = Cardinality(Expanded(ids)) + Cardinality(BaseKeys(cal[i]))
<1> DEFINE old == Expanded(ids)
           new == {i} \X BaseKeys(cal[i])
<1>1. IsFiniteSet(old) /\ Cardinality(old) \in Nat
  BY ExpandedIsFinite
<1>2. /\ IsFiniteSet(BaseKeys(cal[i])) /\ Cardinality(BaseKeys(cal[i])) \in Nat
      /\ IsFiniteSet({i}) /\ Cardinality({i}) = 1
  BY InputsAreSound, FinitelyManyOccurrences, FS_Singleton
<1>3. IsFiniteSet(new) /\ Cardinality(new) = Cardinality(BaseKeys(cal[i]))
  <2>1. Cardinality(new) = Cardinality({i}) * Cardinality(BaseKeys(cal[i]))
    BY <1>2, FS_Product
  <2>2. Cardinality(new) = Cardinality(BaseKeys(cal[i]))
    BY <1>2, <2>1
  <2> QED
    BY <1>2, <2>2, FS_Product
<1>4. Expanded(ids \cup {i}) = old \cup new
  BY DEF Expanded
<1>5. old \cap new = {}
  BY DEF Expanded
<1> HIDE DEF old, new
<1>6. Cardinality(old \cup new) = Cardinality(old) + Cardinality(new) - Cardinality({})
  BY <1>1, <1>3, <1>5, FS_Union
<1>7. Cardinality({}) = 0
  BY FS_EmptySet
<1>8. Cardinality(old \cup new) = Cardinality(old) + Cardinality(new)
  BY <1>1, <1>2, <1>3, <1>6, <1>7
<1> QED
  BY <1>3, <1>4, <1>8 DEF old

LEMMA ExpandedOfMore ==
    ASSUME ScanTypeOK, NEW ids \in SUBSET Ids, \A i \in ids : cal[i] # None,
           NEW some \in SUBSET ids
    PROVE  Cardinality(Expanded(some)) <= Cardinality(Expanded(ids))
<1>1. Expanded(some) \in SUBSET Expanded(ids)
  BY DEF Expanded
<1> QED
  BY <1>1, ExpandedIsFinite, FS_Subset

-----------------------------------------------------------------------------
(* What the search has counted *)

(* The events the cursor has yielded, and what is left of the budget after *)
(* the candidate's occurrences and theirs.                                 *)
Yielded == InQuery \ unread

Counted ==
    /\ pc \in {"begin", "sweep"} => scanned = 0
    /\ pc \in {"fetch", "merge"} =>
           /\ unread \subseteq InQuery
           /\ scanned = Cardinality(Yielded) /\ scanned <= MaxScanned
           /\ budget = MaxExpanded - Cardinality(LiveKeys(candidate))
                          - Cardinality(Expanded(Yielded))
           /\ Yielded # {} => budget >= 0

CountedInv == Inv /\ Counted /\ VerdictAllowed

LEMMA FoundEvents ==
    ASSUME ScanTypeOK
    PROVE  /\ InQuery \in SUBSET Ids /\ \A i \in InQuery : cal[i] # None
           /\ IsFiniteSet(InQuery) /\ Cardinality(InQuery) \in Nat
<1>1. InQuery \in SUBSET Ids /\ \A i \in InQuery : cal[i] # None
  BY DEF InQuery, Scanned
<1>2. IsFiniteSet(InQuery)
  BY <1>1, ScanAssumption, FS_Subset
<1> QED
  BY <1>1, <1>2, FS_CardinalityType

(* The sweep went through every occurrence and met no clash.               *)
LEMMA SweptAll ==
    ASSUME Inv, pc \in {"sweep", "fetch", "merge"}, item \notin DOMAIN proposed
    PROVE  /\ ~candidate.allow /\ LiveKeys(candidate) # {} /\ ~SelfClash(candidate)
           /\ Spans(proposed[1].start, furthest)
<1> USE DEF Inv
<1>1. /\ Sound(candidate) /\ proposed \in Sorted(candidate) /\ 1 \in DOMAIN proposed
      /\ item \in Nat \ {0} /\ ~candidate.allow
  BY InputsAreSound DEF Swept, ScanTypeOK
<1>2. /\ DOMAIN proposed = 1 .. Cardinality(LiveKeys(candidate))
      /\ Cardinality(LiveKeys(candidate)) \in Nat
      /\ \A i \in DOMAIN proposed : proposed[i].start \in Int /\ proposed[i].end \in Int
      /\ \A i, j \in DOMAIN proposed : i < j => proposed[i].start <= proposed[j].start
  BY <1>1, SortedList, FinitelyManyOccurrences
<1>3. item > 1 /\ \A i \in DOMAIN proposed : i < item
  BY <1>1, <1>2
<1>4. ~SelfClash(candidate)
  BY <1>1, <1>3, ListedSelfClash DEF Swept
<1>5. PICK keys \in [DOMAIN proposed -> LiveKeys(candidate)] :
          /\ \A i \in DOMAIN proposed : proposed[i] = OccurrenceSchedule(candidate, keys[i])
          /\ \A key \in LiveKeys(candidate) : \E i \in DOMAIN proposed : keys[i] = key
  BY <1>1, ListedOccurrences
<1>6. PICK last \in DOMAIN proposed : proposed[last].end = furthest
  BY <1>1, <1>3, ScanAssumption DEF Swept
<1>7. \A i \in DOMAIN proposed :
          proposed[1].start <= proposed[i].start /\ proposed[i].end <= furthest
  BY <1>1, <1>2, <1>3 DEF Swept
<1>8. Spans(proposed[1].start, furthest)
  <2>1. proposed[1].start \in Int /\ furthest \in Int
    BY <1>1, <1>2, <1>6
  <2>2. keys[1] \in LiveKeys(candidate) /\ keys[last] \in LiveKeys(candidate)
    BY <1>1, <1>5, <1>6
  <2>3. /\ OccurrenceSchedule(candidate, keys[1]).start = proposed[1].start
        /\ OccurrenceSchedule(candidate, keys[last]).end = furthest
    BY <1>1, <1>5, <1>6
  <2>4. \A key \in LiveKeys(candidate) :
            /\ proposed[1].start <= OccurrenceSchedule(candidate, key).start
            /\ OccurrenceSchedule(candidate, key).end <= furthest
    BY <1>5, <1>7
  <2> QED
    BY <2>1, <2>2, <2>3, <2>4 DEF Spans
<1> QED
  BY <1>1, <1>4, <1>5, <1>8

(* What Verdicts makes of a candidate that the sweep let through.          *)
LEMMA VerdictsAfterSweep ==
    ASSUME ~candidate.allow, LiveKeys(candidate) # {}, ~SelfClash(candidate)
    PROVE  Verdicts(candidate, self, cal) =
               {v \in {200, 409, 413} :
                   /\ v = 200 =>
                          /\ \A i \in InQuery : ~Clash(candidate, cal[i])
                          /\ ~OverCapacity(candidate, self, cal)
                   /\ v = 409 => \E i \in InQuery : Clash(candidate, cal[i])
                   /\ v = 413 => OverCapacity(candidate, self, cal)}
BY DEF Verdicts, InQuery

(* A calendar counted to its end within both limits is not over them.      *)
LEMMA WithinCapacity ==
    ASSUME Cardinality(InQuery) \in Nat, Cardinality(InQuery) <= MaxScanned,
           Cardinality(LiveKeys(candidate)) \in Nat, Cardinality(Expanded(InQuery)) \in Nat,
           InQuery # {} => MaxExpanded - Cardinality(LiveKeys(candidate))
                               - Cardinality(Expanded(InQuery)) >= 0
    PROVE  ~OverCapacity(candidate, self, cal)
<1>1. ~(Cardinality(InQuery) > MaxScanned)
  BY CalendarAssumption
<1>2. ~(InQuery # {} /\ Cardinality(LiveKeys(candidate)) + Cardinality(Expanded(InQuery))
                            > MaxExpanded)
  BY CalendarAssumption
<1> QED
  BY <1>1, <1>2 DEF OverCapacity, InQuery, Expanded

LEMMA CountedBegin ==
    ASSUME CountedInv, Begin
    PROVE  (Counted /\ VerdictAllowed)'
<1> USE DEF CountedInv, Inv
<1>1. /\ candidate' = candidate /\ cal' = cal /\ self' = self /\ scanned' = scanned
      /\ pc = "begin" /\ scanned = 0
  BY DEF Begin, input, Counted
<1>2. CASE candidate.allow \/ LiveKeys(candidate) = {}
  <2>1. pc' = "done" /\ verdict' = 200
    BY <1>2 DEF Begin, Return
  <2> QED
    BY <1>1, <1>2, <2>1 DEF Counted, VerdictAllowed, Verdicts
<1>3. CASE ~(candidate.allow \/ LiveKeys(candidate) = {})
  <2>1. pc' = "sweep"
    BY <1>3 DEF Begin
  <2> QED
    BY <1>1, <2>1 DEF Counted, VerdictAllowed
<1> QED
  BY <1>2, <1>3

LEMMA CountedSweepItem ==
    ASSUME CountedInv, SweepItem
    PROVE  (Counted /\ VerdictAllowed)'
<1> USE DEF CountedInv, Inv
<1> DEFINE s == proposed[item]
<1>1. /\ Sound(candidate) /\ candidate' = candidate /\ cal' = cal /\ self' = self
      /\ scanned' = scanned /\ pc = "sweep" /\ scanned = 0 /\ ~candidate.allow
      /\ item \in DOMAIN proposed /\ proposed \in Sorted(candidate)
  BY InputsAreSound DEF SweepItem, input, Counted, Swept
<1>2. CASE furthest # None /\ s.start < furthest
  <2>1. pc' = "done" /\ verdict' = 409
    BY <1>2 DEF SweepItem, Return
  <2>2. \A i \in DOMAIN proposed :
            /\ proposed[i].start \in Int /\ proposed[i].end \in Int
            /\ proposed[i].start < proposed[i].end
    BY <1>1, SortedList
  <2>3. \A i, j \in DOMAIN proposed : i < j => proposed[i].start <= proposed[j].start
    BY <1>1, SortedList
  <2>4. PICK i \in DOMAIN proposed : i < item /\ proposed[i].end = furthest
    BY <1>1, <1>2 DEF Swept
  <2>5. Overlap(proposed[i], s)
    BY <1>1, <1>2, <2>2, <2>3, <2>4 DEF Overlap
  <2>6. SelfClash(candidate)
    BY <1>1, <2>4, <2>5, ListedSelfClash
  <2>7. 409 \in Verdicts(candidate, self, cal)
    BY <1>1, <2>6 DEF Verdicts, SelfClash
  <2> QED
    BY <1>1, <2>1, <2>7 DEF Counted, VerdictAllowed
<1>3. CASE ~(furthest # None /\ s.start < furthest)
  <2>1. pc' = "sweep"
    BY <1>1, <1>3 DEF SweepItem
  <2> QED
    BY <1>1, <2>1 DEF Counted, VerdictAllowed
<1> QED
  BY <1>2, <1>3

LEMMA CountedFind ==
    ASSUME CountedInv, Find
    PROVE  (Counted /\ VerdictAllowed)'
<1> USE DEF CountedInv, Inv
<1>1. /\ candidate' = candidate /\ cal' = cal /\ self' = self /\ scanned' = scanned
      /\ pc = "sweep" /\ pc' = "fetch" /\ item \notin DOMAIN proposed /\ scanned = 0
      /\ unread' = {i \in Ids : Selected(i, proposed[1].start, furthest)}
      /\ budget' = MaxExpanded - Cardinality(LiveKeys(candidate))
  BY DEF Find, input, Counted
<1>2. Spans(proposed[1].start, furthest)
  BY <1>1, SweptAll
<1>3. \A i \in Ids : Selected(i, proposed[1].start, furthest) <=> i \in InQuery
  BY <1>2, InputsAreSound, SelectedIsScanned
<1>4. InQuery' = InQuery /\ unread' = InQuery /\ InQuery \in SUBSET Ids
  BY <1>1, <1>3, FoundEvents DEF InQuery
<1>5. Yielded' = {} /\ Expanded({})' = {}
  BY <1>4 DEF Yielded, Expanded
<1>6. Expanded(Yielded)' = {}
  BY <1>5 DEF Expanded
<1>7. Cardinality({}) = 0
  BY FS_EmptySet
<1>8. budget' = MaxExpanded - Cardinality(LiveKeys(candidate))' - 0
  BY <1>1, FinitelyManyOccurrences, InputsAreSound, CalendarAssumption
<1>9. Counted'
  BY <1>1, <1>4, <1>5, <1>6, <1>7, <1>8, CalendarAssumption DEF Counted
<1> QED
  BY <1>1, <1>9 DEF VerdictAllowed

LEMMA CountedFetch ==
    ASSUME CountedInv, NEW i \in Ids, Fetch(i)
    PROVE  (Counted /\ VerdictAllowed)'
<1> USE DEF CountedInv, Inv
<1> DEFINE live == Cardinality(LiveKeys(candidate))
           next == Yielded \cup {i}
<1>1. /\ candidate' = candidate /\ cal' = cal /\ self' = self
      /\ pc = "fetch" /\ i \in unread /\ unread' = unread \ {i}
      /\ scanned' = scanned + 1
      /\ budget' = budget - Cardinality(BaseKeys(cal[i]))
  BY DEF Fetch, input
<1>2. /\ unread \subseteq InQuery
      /\ scanned = Cardinality(Yielded)
      /\ budget = MaxExpanded - live - Cardinality(Expanded(Yielded))
  BY <1>1 DEF Counted
<1>3. /\ InQuery \in SUBSET Ids /\ IsFiniteSet(InQuery) /\ Cardinality(InQuery) \in Nat
      /\ \A j \in InQuery : cal[j] # None
  BY FoundEvents
<1>4. /\ InQuery' = InQuery /\ Yielded' = next /\ next \in SUBSET InQuery
      /\ Yielded \in SUBSET InQuery /\ i \notin Yielded /\ i \in InQuery
      /\ unread' \subseteq InQuery'
  BY <1>1, <1>2 DEF InQuery, Yielded
<1>5. live \in Nat /\ Cardinality(BaseKeys(cal[i])) \in Nat
  BY <1>3, <1>4, InputsAreSound, FinitelyManyOccurrences
<1>6. Cardinality(Expanded(Yielded)) \in Nat /\ Cardinality(Expanded(next)) \in Nat
  BY <1>3, <1>4, ExpandedIsFinite
<1>7. scanned' = Cardinality(next)
  <2>1. IsFiniteSet(Yielded)
    BY <1>3, <1>4, FS_Subset
  <2> QED
    BY <1>1, <1>2, <1>4, <2>1, FS_AddElement
<1>8. budget' = MaxExpanded - live - Cardinality(Expanded(next))
  <2>1. Cardinality(Expanded(next))
            = Cardinality(Expanded(Yielded)) + Cardinality(BaseKeys(cal[i]))
    BY <1>3, <1>4, ExpandedGrows
  <2> HIDE DEF live, next
  <2> QED
    BY <1>1, <1>2, <1>5, <1>6, <2>1, CalendarAssumption
<1>9. Expanded(Yielded)' = Expanded(next)
  BY <1>1, <1>4 DEF Expanded
<1>10. CASE TooManyScanned \/ budget' < 0
  <2>1. pc' = "done" /\ verdict' = 413
    BY <1>1, <1>10 DEF Fetch, Return
  <2>2. OverCapacity(candidate, self, cal)
    <3>1. CASE TooManyScanned
      <4>1. Cardinality(next) <= Cardinality(InQuery)
        BY <1>3, <1>4, FS_Subset
      <4>2. Cardinality(InQuery) > MaxScanned
        <5>1. scanned' > MaxScanned /\ scanned' \in Nat
          BY <1>1, <3>1 DEF TooManyScanned, ScanTypeOK
        <5> HIDE DEF next
        <5> QED
          BY <1>3, <1>7, <4>1, <5>1, CalendarAssumption
      <4> QED
        BY <4>2 DEF OverCapacity, InQuery
    <3>2. CASE budget' < 0
      <4>1. /\ Cardinality(Expanded(next)) <= Cardinality(Expanded(InQuery))
            /\ Cardinality(Expanded(InQuery)) \in Nat
        BY <1>3, <1>4, ExpandedOfMore, ExpandedIsFinite
      <4>2. live + Cardinality(Expanded(InQuery)) > MaxExpanded
        <5> HIDE DEF live, next
        <5> QED
          BY <1>5, <1>6, <1>8, <3>2, <4>1, CalendarAssumption
      <4> QED
        BY <1>4, <4>2 DEF OverCapacity, InQuery, Expanded
    <3> QED
      BY <1>10, <3>1, <3>2
  <2>3. ~candidate.allow /\ LiveKeys(candidate) # {} /\ ~SelfClash(candidate)
    BY <1>1, SweptAll DEF Fetched
  <2>4. 413 \in Verdicts(candidate, self, cal)
    BY <2>2, <2>3, VerdictsAfterSweep
  <2> QED
    BY <1>1, <2>1, <2>4 DEF Counted, VerdictAllowed
<1>11. CASE ~(TooManyScanned \/ budget' < 0)
  <2>1. pc' = "merge"
    BY <1>1, <1>11 DEF Fetch
  <2>2. scanned' <= MaxScanned /\ budget' >= 0
    BY <1>1, <1>2, <1>5, <1>11, CalendarAssumption DEF TooManyScanned, ScanTypeOK
  <2>3. live' = live
    BY <1>1
  <2> HIDE DEF next, live
  <2>4. Counted'
    BY <1>4, <1>7, <1>8, <1>9, <2>1, <2>2, <2>3 DEF Counted, live
  <2> QED
    BY <2>1, <2>4 DEF VerdictAllowed
<1> QED
  BY <1>10, <1>11

LEMMA CountedNoMore ==
    ASSUME CountedInv, NoMore
    PROVE  (Counted /\ VerdictAllowed)'
<1> USE DEF CountedInv, Inv
<1>1. /\ candidate' = candidate /\ cal' = cal /\ self' = self
      /\ pc = "fetch" /\ unread = {} /\ pc' = "done" /\ verdict' = 200
  BY DEF NoMore, input, Return
<1>2. ~candidate.allow /\ LiveKeys(candidate) # {} /\ ~SelfClash(candidate)
  BY <1>1, SweptAll DEF Fetched
<1>3. \A i \in InQuery : ~Clash(candidate, cal[i])
  BY <1>1 DEF Fetched, ClashesWith, InQuery, Scanned
<1>4. ~OverCapacity(candidate, self, cal)
  <2>1. Yielded = InQuery
    BY <1>1 DEF Yielded
  <2>2. /\ Cardinality(InQuery) <= MaxScanned
        /\ InQuery # {} => MaxExpanded - Cardinality(LiveKeys(candidate))
                               - Cardinality(Expanded(InQuery)) >= 0
    BY <1>1, <2>1 DEF Counted
  <2>3. /\ Cardinality(InQuery) \in Nat /\ Cardinality(Expanded(InQuery)) \in Nat
        /\ Cardinality(LiveKeys(candidate)) \in Nat
    BY FoundEvents, ExpandedIsFinite, InputsAreSound, FinitelyManyOccurrences
  <2> QED
    BY <2>2, <2>3, WithinCapacity
<1>5. 200 \in Verdicts(candidate, self, cal)
  BY <1>2, <1>3, <1>4, VerdictsAfterSweep
<1> QED
  BY <1>1, <1>5 DEF Counted, VerdictAllowed

LEMMA CountedCompare ==
    ASSUME CountedInv, Compare
    PROVE  (Counted /\ VerdictAllowed)'
<1> USE DEF CountedInv, Inv
<1>1. /\ candidate' = candidate /\ cal' = cal /\ self' = self
      /\ UNCHANGED <<unread, scanned, budget>>
      /\ pc = "merge" /\ a \in DOMAIN proposed /\ b \in DOMAIN existing
  BY DEF Compare, input
<1>2. CASE Overlap(proposed[a], existing[b])
  <2>1. pc' = "done" /\ verdict' = 409
    BY <1>1, <1>2 DEF Compare, Return
  <2>2. ~candidate.allow /\ LiveKeys(candidate) # {} /\ ~SelfClash(candidate)
        /\ Spans(proposed[1].start, furthest)
    BY <1>1, SweptAll DEF Fetched
  <2>3. PICK i \in Others : existing \in Sorted(cal[i])
    BY <1>1 DEF MergedSoFar
  <2>4. /\ i \in Ids /\ Sound(cal[i])
        /\ Sound(candidate) /\ proposed \in Sorted(candidate)
    BY <1>1, <2>3, InputsAreSound DEF Others, Swept
  <2>5. Clash(candidate, cal[i])
    BY <1>1, <1>2, <2>3, <2>4, ListedClash
  <2>6. i \in InQuery
    <3>1. ClashesWith(i)
      BY <2>3, <2>5 DEF ClashesWith, Others
    <3>2. Selected(i, proposed[1].start, furthest)
      BY <2>2, <2>4, <3>1, ClashesAreSelected DEF Spans
    <3> QED
      BY <2>2, <2>4, <3>2, SelectedIsScanned
  <2>7. 409 \in Verdicts(candidate, self, cal)
    BY <2>2, <2>5, <2>6, VerdictsAfterSweep
  <2> QED
    BY <1>1, <2>1, <2>7 DEF Counted, VerdictAllowed
<1>3. CASE ~Overlap(proposed[a], existing[b])
  <2>1. pc' = "merge"
    BY <1>1, <1>3 DEF Compare
  <2> QED
    BY <1>1, <2>1 DEF Counted, VerdictAllowed, Yielded, InQuery, Expanded
<1> QED
  BY <1>2, <1>3

LEMMA CountedInvNext ==
    ASSUME CountedInv, [Next]_vars
    PROVE  CountedInv'
<1>1. Inv'
  BY InvNext DEF CountedInv
<1>2. CASE Begin
  BY <1>1, <1>2, CountedBegin DEF CountedInv
<1>3. CASE SweepItem
  BY <1>1, <1>3, CountedSweepItem DEF CountedInv
<1>4. CASE Find
  BY <1>1, <1>4, CountedFind DEF CountedInv
<1>5. CASE \E i \in Ids : Fetch(i)
  BY <1>1, <1>5, CountedFetch DEF CountedInv
<1>6. CASE NoMore
  BY <1>1, <1>6, CountedNoMore DEF CountedInv
<1>7. CASE Compare
  BY <1>1, <1>7, CountedCompare DEF CountedInv
<1>8. CASE Merged
  BY <1>1, <1>8 DEF CountedInv, Merged, input, sweep, merge, Counted, VerdictAllowed,
                    Yielded, InQuery, Expanded
<1>9. CASE UNCHANGED vars
  BY <1>1, <1>9 DEF CountedInv, vars, input, Counted, VerdictAllowed,
                    Yielded, InQuery, Expanded
<1> QED
  BY <1>2, <1>3, <1>4, <1>5, <1>6, <1>7, <1>8, <1>9 DEF Next

-----------------------------------------------------------------------------
(* The search of assertNoEventConflict ends as Calendar!Verdicts says, for *)
(* every calendar, every order of the cursor and every pair of limits: it  *)
(* finds every clash, and gives up only on a calendar that is over one of  *)
(* the limits.  EventWrites is checked and proved with that definition.    *)
THEOREM VerdictsAreAllowed ==
    Spec => []VerdictAllowed
<1>1. Init => CountedInv
  <2>1. ASSUME Init
        PROVE  Counted /\ VerdictAllowed
    BY <2>1 DEF Init, Counted, VerdictAllowed
  <2> QED
    BY <2>1, InvInit DEF CountedInv
<1>2. CountedInv /\ [Next]_vars => CountedInv'
  BY CountedInvNext
<1>3. CountedInv => VerdictAllowed
  BY DEF CountedInv
<1> QED
  BY <1>1, <1>2, <1>3, PTL DEF Spec

=============================================================================
