------------------------ MODULE CalendarReadsProofs --------------------------
(***************************************************************************)
(* Reading page by page beside other people's writes, for every calendar,  *)
(* page size and number of writes: no page repeats an item or is in vain,  *)
(* and a listing that ends has every item of every event left alone.  The  *)
(* cursor divides the items by their order, so the proofs begin with it.   *)
(* An export shows each event left alone as it is, and while nobody writes *)
(* a request is refused only for the size of what lies ahead of its cursor *)
(* (Spent: its budgets went into the documents it has read of that).       *)
(***************************************************************************)
EXTENDS CalendarReads, FiniteSetTheorems, TLAPS

-----------------------------------------------------------------------------
(* Order *)

LEMMA SmallestOf ==
    ASSUME NEW S \in SUBSET Nat, S # {}
    PROVE  Min(S) \in S /\ \A y \in S : Min(S) <= y
<1>1. IsWellFoundedOn(OpToRel(<, Nat), Nat)
  BY NatLessThanWellFounded
<1>2. PICK x \in S : \A y \in S : ~(<<y, x>> \in OpToRel(<, Nat))
  BY <1>1, WFMin
<1>3. OpToRel(<, Nat) = {ss \in Nat \X Nat : ss[1] < ss[2]}
  BY DEF OpToRel
<1>4. ASSUME NEW y \in S
      PROVE  x <= y
  <2>1. <<y, x>> \in Nat \X Nat /\ <<y, x>>[1] = y /\ <<y, x>>[2] = x
    OBVIOUS
  <2>2. ~(y < x)
    BY <1>2, <1>3, <2>1
  <2> QED
    BY <2>2
<1> QED
  BY <1>4 DEF Min

LEMMA PrecedesIsOrder ==
    ASSUME NEW x \in Places, NEW y \in Places, NEW z \in Places
    PROVE  /\ ~Precedes(x, x)
           /\ Precedes(x, y) => ~Precedes(y, x)
           /\ Precedes(x, y) /\ Precedes(y, z) => Precedes(x, z)
<1>1. /\ x.id \in Nat /\ y.id \in Nat /\ z.id \in Nat
      /\ x.key # None => x.key \in Int
      /\ y.key # None => y.key \in Int
      /\ z.key # None => z.key \in Int
  BY DEF Places
<1> QED
  BY <1>1 DEF Precedes

(* Items of one page: each comes before or after each other.               *)
Ordered(S) ==
    /\ S \subseteq Places /\ IsFiniteSet(S)
    /\ \A x, y \in S : x = y \/ Precedes(x, y) \/ Precedes(y, x)

Rank(S) == [x \in S |-> Cardinality({y \in S : Precedes(y, x)})]

LEMMA RankIsPosition ==
    ASSUME NEW S, Ordered(S)
    PROVE  /\ Cardinality(S) \in Nat
           /\ Rank(S) \in Bijection(S, 0 .. Cardinality(S) - 1)
           /\ \A x, y \in S : Precedes(x, y) <=> Rank(S)[x] < Rank(S)[y]
<1> DEFINE n == Cardinality(S)
           before(x) == {y \in S : Precedes(y, x)}
           r == Rank(S)
<1>1. IsFiniteSet(S) /\ S \subseteq Places /\ n \in Nat
  BY FS_CardinalityType DEF Ordered
<1>2. ASSUME NEW x \in S
      PROVE  IsFiniteSet(before(x)) /\ Cardinality(before(x)) \in 0 .. n - 1
  <2>1. before(x) \in SUBSET S
    OBVIOUS
  <2>2. IsFiniteSet(before(x)) /\ Cardinality(before(x)) <= n /\ Cardinality(before(x)) \in Nat
    BY <1>1, <2>1, FS_Subset, FS_CardinalityType
  <2>3. x \notin before(x)
    BY <1>1, PrecedesIsOrder
  <2>4. before(x) # S
    BY <2>3
  <2>5. Cardinality(before(x)) # n
    BY <1>1, <2>1, <2>4, FS_Subset
  <2> HIDE DEF n, before
  <2> QED
    BY <1>1, <2>2, <2>5
<1>3. \A x \in S : r[x] = Cardinality(before(x))
  BY DEF Rank
<1>4. r \in [S -> 0 .. n - 1]
  BY <1>2 DEF Rank
<1>5. ASSUME NEW x \in S, NEW y \in S, Precedes(x, y)
      PROVE  r[x] < r[y]
  <2>1. before(x) \in SUBSET before(y)
    BY <1>1, <1>5, PrecedesIsOrder
  <2>2. x \in before(y) /\ x \notin before(x)
    BY <1>1, <1>5, PrecedesIsOrder
  <2>3. /\ Cardinality(before(x)) <= Cardinality(before(y))
        /\ Cardinality(before(x)) # Cardinality(before(y))
    BY <1>2, <2>1, <2>2, FS_Subset
  <2>4. Cardinality(before(x)) \in Nat /\ Cardinality(before(y)) \in Nat
    BY <1>2, FS_CardinalityType
  <2>5. Cardinality(before(x)) < Cardinality(before(y))
    <3> HIDE DEF before
    <3> QED
      BY <2>3, <2>4
  <2> QED
    BY <1>3, <2>5
<1> HIDE DEF r
<1>6. \A x \in S : r[x] \in Int
  BY <1>1, <1>4
<1>7. \A x, y \in S : Precedes(x, y) <=> r[x] < r[y]
  BY <1>5, <1>6 DEF Ordered
<1>8. r \in Injection(S, 0 .. n - 1)
  <2>1. \A x, y \in S : r[x] = r[y] => x = y
    BY <1>6, <1>7 DEF Ordered
  <2>2. DOMAIN r = S
    BY <1>4
  <2> QED
    BY <1>4, <2>1, <2>2 DEF Injection, IsInjective
<1>9. IsFiniteSet(0 .. n - 1) /\ Cardinality(0 .. n - 1) = n
  <2> HIDE DEF n
  <2>1. n - 1 \in Int /\ 0 \in Int
    BY <1>1
  <2>2. IsFiniteSet(0 .. n - 1)
        /\ Cardinality(0 .. n - 1) = IF 0 > n - 1 THEN 0 ELSE (n - 1) - 0 + 1
    BY <2>1, FS_Interval
  <2> QED
    BY <1>1, <2>2
<1>10. r \in Surjection(S, 0 .. n - 1)
  BY <1>8, <1>9, FS_Injection
<1> QED
  BY <1>1, <1>7, <1>8, <1>10 DEF Bijection, r

(* A full page: as many items as asked for, all those up to the cursor.    *)
LEMMA FullPage ==
    ASSUME NEW S, Ordered(S), NEW n \in Nat \ {0}, n <= Cardinality(S)
    PROVE  LET page == FirstItems(n, S)
               last == LastItem(page)
           IN  /\ page \subseteq S /\ Cardinality(page) = n
               /\ last \in page
               /\ \A x \in page : x = last \/ Precedes(x, last)
               /\ \A x \in S : x \in page <=> ~Precedes(last, x)
<1> DEFINE page == FirstItems(n, S)
           r == Rank(S)
           m == Cardinality(S)
<1>1. /\ m \in Nat /\ r \in Bijection(S, 0 .. m - 1)
      /\ \A x, y \in S : Precedes(x, y) <=> r[x] < r[y]
  BY RankIsPosition
<1>2. page = {x \in S : r[x] < n}
  BY DEF FirstItems, Rank
<1> HIDE DEF page, r, m
<1>3. /\ r \in [S -> 0 .. m - 1]
      /\ \A x, y \in S : r[x] = r[y] => x = y
      /\ \A k \in 0 .. m - 1 : \E x \in S : r[x] = k
  BY <1>1 DEF Bijection, Injection, IsInjective, Surjection
<1>4. \A x \in S : r[x] \in Nat
  BY <1>1, <1>3
<1>5. n <= m
  BY DEF m
<1>6. Cardinality(page) = n
  <2> DEFINE f == [x \in page |-> r[x]]
  <2>1. f \in [page -> 0 .. n - 1]
    BY <1>2, <1>4
  <2>2. f \in Injection(page, 0 .. n - 1)
    BY <1>2, <1>3, <2>1 DEF Injection, IsInjective
  <2>3. \A k \in 0 .. n - 1 : \E x \in page : f[x] = k
    <3>1. SUFFICES ASSUME NEW k \in 0 .. n - 1
                   PROVE  \E x \in page : f[x] = k
      OBVIOUS
    <3>2. k \in 0 .. m - 1 /\ k < n
      BY <1>1, <1>5
    <3> QED
      BY <1>2, <1>3, <3>2
  <2>4. f \in Surjection(page, 0 .. n - 1)
    BY <2>1, <2>3 DEF Surjection
  <2>5. IsFiniteSet(0 .. n - 1) /\ Cardinality(0 .. n - 1) = n
    <3>1. n - 1 \in Int /\ 0 \in Int
      OBVIOUS
    <3>2. IsFiniteSet(0 .. n - 1)
          /\ Cardinality(0 .. n - 1) = IF 0 > n - 1 THEN 0 ELSE (n - 1) - 0 + 1
      BY <3>1, FS_Interval
    <3> QED
      BY <3>2
  <2> HIDE DEF f
  <2> QED
    BY <2>2, <2>4, <2>5, FS_Injection
<1>7. PICK x \in S : r[x] = n - 1
  BY <1>1, <1>3, <1>5
<1>8. x \in page
  BY <1>2, <1>7
<1>9. ASSUME NEW y \in page
      PROVE  y = x \/ Precedes(y, x)
  <2>1. y \in S /\ r[y] < n /\ r[y] \in Nat
    BY <1>2, <1>4
  <2>2. r[y] = n - 1 \/ r[y] < n - 1
    BY <2>1
  <2> QED
    BY <1>1, <1>3, <1>7, <2>1, <2>2
<1>10. /\ LastItem(page) \in page
       /\ \A y \in page : y = LastItem(page) \/ Precedes(y, LastItem(page))
  BY <1>8, <1>9 DEF LastItem
<1>11. ASSUME NEW y \in S
       PROVE  y \in page <=> ~Precedes(x, y)
  <2>1. r[y] \in Nat /\ (Precedes(x, y) <=> n - 1 < r[y])
    BY <1>1, <1>4, <1>7
  <2> QED
    BY <1>2, <2>1
<1>12. LastItem(page) = x
  <2>1. LastItem(page) = x \/ Precedes(x, LastItem(page))
    BY <1>8, <1>10
  <2>2. LastItem(page) \in S
    BY <1>2, <1>10
  <2> QED
    BY <1>10, <1>11, <2>1, <2>2
<1>13. page \subseteq S
  BY <1>2
<1> QED
  BY <1>6, <1>8, <1>9, <1>11, <1>12, <1>13 DEF page

-----------------------------------------------------------------------------
(* What the invariant says *)

Sane ==
    /\ ReadsTypeOK
    /\ \A i \in Ids : events[i] # None => IsDocument(events[i])
    /\ after \in Places \cup {None}
    /\ pc = "read" => position >= CursorPosition

(* The cursor lies after what was listed and before what is selected.      *)
Beyond(x) == after # None => Precedes(after, x)

Divided ==
    /\ Ordered(selected)
    /\ pc = "read" => \A x \in selected : x.id <= position /\ Beyond(x)
    /\ listed \subseteq Places
    /\ pc \in {"ask", "read"} =>
           /\ after = None => listed = {} /\ query.after = None
           /\ after # None => \A x \in listed : x = after \/ Precedes(x, after)
           /\ query.after # None => after = query.after \/ Precedes(query.after, after)

(* Of an event left alone, the items up to the cursor are listed, and those *)
(* beyond it are selected once the event has been read.                    *)
Accounted ==
    query.kind = "list" =>
        \A i \in Ids \ touched :
            /\ pc \in {"ask", "read"} =>
                   {x \in listed : x.id = i} = {x \in Due(i) : ~Beyond(x)}
            /\ pc = "read" =>
                   {x \in selected : x.id = i} =
                       IF i <= position THEN {x \in Due(i) : Beyond(x)} ELSE {}
            /\ pc = "done" => {x \in listed : x.id = i} = Due(i)

ReadsInv == Sane /\ Divided /\ Accounted

-----------------------------------------------------------------------------
(* Items of an event *)

LEMMA FinitelyManyKeys ==
    ASSUME NEW d, IsDocument(d)
    PROVE  /\ BaseKeys(d) \subseteq Int /\ IsFiniteSet(BaseKeys(d))
           /\ Cardinality(BaseKeys(d)) \in Nat
<1> DEFINE s == d.schedule
           r == d.recurrence
           n == LastIndex(s, r)
           start == [i \in 0 .. n |-> s.start + i * Period(r)]
<1>1. s.start \in Int /\ r \in Rules \cup {None}
  BY DEF IsDocument, Schedules
<1>2. DayLength \in Nat \ {0} /\ Period(r) \in Nat \ {0}
  BY CalendarAssumption DEF Period
<1>3. \A x \in Int, y \in Nat \ {0} : x \div y \in Int
  BY Z3
<1>4. n \in Int
  <2>1. CASE r = None
    BY <2>1 DEF LastIndex
  <2>2. CASE r # None
    <3>1. r.endsOn \in Int
      BY <1>1, <2>2 DEF Rules
    <3>2. Day(s.start) \in Int
      BY <1>1, <1>2, <1>3 DEF Day
    <3>3. (r.endsOn - Day(s.start)) * DayLength \in Int
      BY <1>2, <3>1, <3>2
    <3>4. ((r.endsOn - Day(s.start)) * DayLength) \div Period(r) \in Int
      BY <1>2, <1>3, <3>3
    <3> QED
      BY <2>2, <3>4 DEF LastIndex
  <2> QED
    BY <2>1, <2>2
<1> HIDE DEF n
<1>5. IsFiniteSet(0 .. n)
  BY <1>4, FS_Interval
<1>6. BaseKeys(d) = {s.start + i * Period(r) : i \in 0 .. n}
  BY DEF BaseKeys, n
<1>7. start \in Surjection(0 .. n, BaseKeys(d))
  BY <1>6 DEF Surjection
<1>8. IsFiniteSet(BaseKeys(d))
  BY <1>5, <1>7, FS_Surjection
<1>9. \A i \in 0 .. n : s.start + i * Period(r) \in Int
  BY <1>1, <1>2, <1>4
<1> QED
  BY <1>6, <1>8, <1>9, FS_CardinalityType

(* The items of a document: finitely many, of one event, in order.         *)
LEMMA ItemsAreOrdered ==
    ASSUME NEW i \in Ids, NEW d, IsDocument(d)
    PROVE  LET all == {Item(i, d, key) : key \in Chosen(d)} IN
           Ordered(all) /\ \A x \in all : x.id = i
<1> DEFINE all == {Item(i, d, key) : key \in Chosen(d)}
           f == [key \in Chosen(d) |-> Item(i, d, key)]
<1>1. Chosen(d) \subseteq BaseKeys(d)
  BY DEF Chosen, LiveKeys
<1>2. Chosen(d) \subseteq Int /\ IsFiniteSet(Chosen(d))
  BY <1>1, FinitelyManyKeys, FS_Subset
<1>3. IsFiniteSet(all)
  <2>1. f \in Surjection(Chosen(d), all)
    BY DEF Surjection
  <2> HIDE DEF f, all
  <2> QED
    BY <1>2, <2>1, FS_Surjection
<1>4. all \subseteq Places /\ \A x \in all : x.id = i
  BY <1>2, ReadsAssumption DEF Item, Places
<1>5. \A x, y \in all : x = y \/ Precedes(x, y) \/ Precedes(y, x)
  <2>1. SUFFICES ASSUME NEW k \in Chosen(d), NEW l \in Chosen(d)
                 PROVE  LET x == Item(i, d, k)
                            y == Item(i, d, l)
                        IN  x = y \/ Precedes(x, y) \/ Precedes(y, x)
    OBVIOUS
  <2>2. k \in Int /\ l \in Int /\ i \in Nat /\ k # None /\ l # None
    BY <1>2, ReadsAssumption
  <2>3. CASE d.recurrence = None
    BY <2>3 DEF Item
  <2>4. CASE d.recurrence # None
    <3>1. /\ Item(i, d, k).id = i /\ Item(i, d, k).key = k
          /\ Item(i, d, l).id = i /\ Item(i, d, l).key = l
      BY <2>4 DEF Item
    <3>2. k = l \/ k < l \/ l < k
      BY <2>2
    <3> QED
      BY <2>2, <3>1, <3>2 DEF Precedes
  <2> QED
    BY <2>3, <2>4
<1> QED
  BY <1>3, <1>4, <1>5 DEF Ordered

(* From where the database cursor has come, skipping the items up to the   *)
(* cursor of the request leaves those beyond it.                           *)
LEMMA SkippingIsExact ==
    ASSUME Sane, NEW i \in Ids, i > position, pc = "read",
           NEW x \in Places, x.id = i
    PROVE  ~Skipped(x) <=> Beyond(x)
<1>1. position \in Int /\ i \in Nat /\ position >= CursorPosition
  BY ReadsAssumption DEF Sane, ReadsTypeOK
<1>2. CASE after = None
  BY <1>2 DEF Skipped, Beyond
<1>3. CASE after # None
  <2>1. after \in Places
    BY <1>3 DEF Sane
  <2>2. /\ after.id \in Nat /\ after.key \in Int \cup {None}
        /\ x.key \in Int \cup {None}
    BY <2>1 DEF Places
  <2>3. CASE after.key = None
    <3>1. after.id < i
      BY <1>1, <1>3, <2>2, <2>3 DEF CursorPosition
    <3> QED
      BY <1>3, <2>3, <3>1 DEF Skipped, Beyond, Precedes
  <2>4. CASE after.key # None
    <3>1. after.id <= i
      BY <1>1, <1>3, <2>2, <2>4 DEF CursorPosition
    <3> QED
      BY <1>1, <1>3, <2>2, <2>4, <3>1 DEF Skipped, Beyond, Precedes
  <2> QED
    BY <2>3, <2>4
<1> QED
  BY <1>2, <1>3

LEMMA NextDocument ==
    ASSUME Sane, pc = "read", NEW i, i = Min(Ahead), Ahead # {}
    PROVE  /\ i \in Ids /\ i \in Nat /\ i > position /\ events[i] # None
           /\ IsDocument(events[i]) /\ Matches(events[i])
           /\ \A j \in Ids : j > position /\ j < i =>
                                 events[j] = None \/ ~Matches(events[j])
<1>1. Ahead \in SUBSET Nat
  BY ReadsAssumption DEF Ahead, MatchingAfter
<1>2. i \in Ahead /\ \A j \in Ahead : i <= j
  BY <1>1, SmallestOf
<1>3. i \in Ids /\ i > position /\ events[i] # None /\ Matches(events[i])
  BY <1>2 DEF Ahead, MatchingAfter
<1>4. ASSUME NEW j \in Ids, j > position, j < i
      PROVE  events[j] = None \/ ~Matches(events[j])
  <2>1. j \notin Ahead
    BY <1>1, <1>2, <1>3, <1>4, ReadsAssumption
  <2> QED
    BY <1>4, <2>1 DEF Ahead, MatchingAfter
<1> QED
  BY <1>3, <1>4, ReadsAssumption DEF Sane

LEMMA NewItems ==
    ASSUME Sane, pc = "read", NEW i \in Ids, i > position, IsDocument(events[i]),
           events[i] # None
    PROVE  /\ Ordered(ItemsOf(i))
           /\ \A x \in ItemsOf(i) : x.id = i /\ Beyond(x)
           /\ ItemsOf(i) = {x \in {Item(i, events[i], key) : key \in Chosen(events[i])} : Beyond(x)}
<1> DEFINE all == {Item(i, events[i], key) : key \in Chosen(events[i])}
<1>1. Ordered(all) /\ \A x \in all : x.id = i
  BY ItemsAreOrdered
<1> HIDE DEF all
<1>2. ItemsOf(i) = {x \in all : ~Skipped(x)}
  BY DEF ItemsOf, all
<1>3. \A x \in all : ~Skipped(x) <=> Beyond(x)
  BY <1>1, SkippingIsExact DEF Ordered
<1>4. ItemsOf(i) = {x \in all : Beyond(x)}
  BY <1>2, <1>3
<1>5. Ordered(ItemsOf(i))
  <2>1. ItemsOf(i) \in SUBSET all
    BY <1>4
  <2>2. IsFiniteSet(ItemsOf(i))
    BY <1>1, <2>1, FS_Subset DEF Ordered
  <2> QED
    BY <1>1, <2>1, <2>2 DEF Ordered
<1> QED
  BY <1>1, <1>4, <1>5 DEF all

(* What the next document adds to the page being built.                    *)
LEMMA NextPage ==
    ASSUME ReadsInv, NEW i \in Ids, ListDocument(i)
    PROVE  LET items == selected \cup ItemsOf(i) IN
           /\ Ordered(items) /\ \A x \in items : x.id <= i /\ Beyond(x)
           /\ \A x \in listed, y \in items : Precedes(x, y)
           /\ ~Fits(items) => query.limit <= Cardinality(items)
<1> DEFINE items == selected \cup ItemsOf(i)
<1> USE DEF ReadsInv
<1>1. pc = "read" /\ i = Min(Ahead) /\ Ahead # {}
  BY DEF ListDocument, Fetch
<1>2. /\ i \in Nat /\ i > position /\ position \in Int
      /\ events[i] # None /\ IsDocument(events[i])
  BY <1>1, NextDocument DEF Sane, ReadsTypeOK
<1>3. Ordered(ItemsOf(i)) /\ \A x \in ItemsOf(i) : x.id = i /\ Beyond(x)
  BY <1>1, <1>2, NewItems
<1>4. Ordered(selected) /\ \A x \in selected : x.id <= position /\ Beyond(x)
  BY <1>1 DEF Divided
<1>5. \A x \in selected, y \in ItemsOf(i) : Precedes(x, y)
  <2>1. SUFFICES ASSUME NEW x \in selected, NEW y \in ItemsOf(i)
                 PROVE  x.id < y.id
    BY DEF Precedes
  <2>2. x.id \in Nat /\ x.id <= position /\ y.id = i
    BY <1>3, <1>4 DEF Ordered, Places
  <2> QED
    BY <1>2, <2>2
<1>6. Ordered(items)
  <2>1. IsFiniteSet(items)
    BY <1>3, <1>4, FS_Union DEF Ordered
  <2> QED
    BY <1>3, <1>4, <1>5, <2>1 DEF Ordered
<1>7. \A x \in items : x.id <= i /\ Beyond(x)
  <2>1. \A x \in selected : x.id \in Nat
    BY <1>4 DEF Ordered, Places
  <2> QED
    BY <1>2, <1>3, <1>4, <2>1
<1>8. \A x \in listed, y \in items : Precedes(x, y)
  <2>1. SUFFICES ASSUME NEW x \in listed, NEW y \in items
                 PROVE  Precedes(x, y)
    OBVIOUS
  <2>2. after # None /\ (x = after \/ Precedes(x, after))
    BY <1>1 DEF Divided
  <2>3. Precedes(after, y)
    BY <1>7, <2>2 DEF Beyond
  <2>4. x \in Places /\ y \in Places /\ after \in Places
    BY <1>6, <2>2 DEF Divided, Ordered, Sane
  <2> QED
    BY <2>2, <2>3, <2>4, PrecedesIsOrder
<1>9. ASSUME ~Fits(items)
      PROVE  query.limit <= Cardinality(items)
  <2>1. Cardinality(items) \in Nat /\ query.limit \in Nat
    BY <1>6, FS_CardinalityType, ReadsAssumption DEF Ordered, Sane, ReadsTypeOK
  <2> HIDE DEF items
  <2> QED
    BY <1>9, <2>1 DEF Fits
<1> QED
  BY <1>6, <1>7, <1>8, <1>9

-----------------------------------------------------------------------------
(* The invariant holds *)

LEMMA EmptyPage ==
    Ordered({}) /\ Cardinality({}) = 0
BY FS_EmptySet DEF Ordered

LEMMA ReadsInit ==
    ASSUME Init
    PROVE  ReadsInv
<1> USE DEF Init
<1>1. query.limit \in Nat \ {0} /\ query.after \in Places \cup {None}
  BY ReadsAssumption
<1>2. ReadsTypeOK
  <2>1. after # None => after.id \in Nat
    BY <1>1 DEF Places
  <2>2. ScanLimited => scanned <= ScanLimit
    BY ReadsAssumption, CalendarAssumption DEF ScanLimit
  <2>3. spent \in 0 .. MaxExpanded /\ writes \in 0 .. MaxWrites
    BY ReadsAssumption, CalendarAssumption
  <2> QED
    BY <1>1, <2>1, <2>2, <2>3, EmptyPage, ReadsAssumption DEF ReadsTypeOK
<1>3. Sane
  BY <1>1, <1>2, ReadsAssumption DEF Sane
<1>4. Divided
  BY <1>1, EmptyPage DEF Divided
<1>5. ASSUME NEW i \in Ids
      PROVE  {x \in listed : x.id = i} = {x \in Due(i) : ~Beyond(x)}
  BY DEF Due, Beyond
<1>6. Accounted
  BY <1>5 DEF Accounted
<1> QED
  BY <1>3, <1>4, <1>6 DEF ReadsInv

LEMMA ReadsAsk ==
    ASSUME ReadsInv, Ask
    PROVE  ReadsInv'
<1> USE DEF ReadsInv
<1>1. /\ pc = "ask" /\ pc' \in {"400", "read"} /\ position' = CursorPosition
      /\ scanned' = 0 /\ spent' = 0 /\ selected' = {}
      /\ UNCHANGED <<events, touched, writes, query, after, listed>>
  BY DEF Ask, answer
<1>2. after \in Places \cup {None} /\ position' \in Int
  <2>1. after # None => after.id \in Nat
    BY DEF Sane, Places
  <2> QED
    BY <1>1, <2>1 DEF Sane, CursorPosition
<1>3. ReadsTypeOK'
  <2>1. query.limit \in Nat
    BY ReadsAssumption DEF Sane, ReadsTypeOK
  <2>2. ScanLimit' \in Nat /\ MaxExpanded \in Nat
    BY ReadsAssumption, CalendarAssumption DEF ScanLimit
  <2> QED
    BY <1>1, <1>2, <2>1, <2>2, EmptyPage DEF Sane, ReadsTypeOK, Finished
<1>4. Sane'
  <2>1. CursorPosition' = CursorPosition
    BY <1>1 DEF CursorPosition
  <2> QED
    BY <1>1, <1>2, <1>3, <2>1 DEF Sane
<1>5. Divided'
  BY <1>1, EmptyPage DEF Divided
<1>6. Accounted'
  <2>1. SUFFICES ASSUME query.kind = "list", NEW i \in Ids \ touched
                 PROVE  /\ {x \in listed : x.id = i} = {x \in Due(i) : ~Beyond(x)}
                        /\ {} = IF i <= CursorPosition THEN {x \in Due(i) : Beyond(x)} ELSE {}
    BY <1>1 DEF Accounted, Due, Matches, Ranged, InRange, Chosen, Beyond
  <2>2. ASSUME i <= CursorPosition, NEW x \in Due(i)
        PROVE  ~Beyond(x)
    <3>1. IsDocument(events[i]) /\ events[i] # None
      BY <2>2 DEF Due, Sane
    <3>2. x \in Places /\ x.id = i
      BY <2>2, <3>1, ItemsAreOrdered DEF Due, Ordered
    <3>3. i \in Nat
      BY ReadsAssumption
    <3>4. CASE after = None
      BY <2>2, <3>3, <3>4 DEF CursorPosition
    <3>5. CASE after # None
      <4>1. after.id \in Nat /\ after.key \in Int \cup {None}
        BY <1>2, <3>5 DEF Places
      <4> QED
        BY <2>2, <3>2, <3>3, <3>5, <4>1 DEF CursorPosition, Beyond, Precedes
    <3> QED
      BY <3>4, <3>5
  <2> QED
    BY <1>1, <2>1, <2>2 DEF Accounted
<1> QED
  BY <1>4, <1>5, <1>6

(* A full page goes out, or the items of one more event join it.           *)
LEMMA ReadsListDocument ==
    ASSUME ReadsInv, NEW i \in Ids, ListDocument(i)
    PROVE  ReadsInv'
<1> DEFINE items == selected \cup ItemsOf(i)
           page == FirstItems(query.limit, items)
           last == LastItem(page)
<1> USE DEF ReadsInv
<1>1. /\ pc = "read" /\ i = Min(Ahead) /\ Ahead # {} /\ query.kind = "list"
      /\ position' = i /\ scanned' = scanned + 1 /\ spent' = spent + Expansion(events[i])
      /\ (ScanLimited => scanned' <= ScanLimit) /\ spent' <= MaxExpanded
      /\ UNCHANGED <<events, touched, writes, query>>
  BY DEF ListDocument, Fetch
<1>2. /\ i \in Nat /\ i > position /\ position \in Int
      /\ events[i] # None /\ IsDocument(events[i]) /\ Matches(events[i])
      /\ \A j \in Ids : j > position /\ j < i => events[j] = None \/ ~Matches(events[j])
  BY <1>1, NextDocument DEF Sane, ReadsTypeOK
<1>3. /\ Ordered(items) /\ \A x \in items : x.id <= i /\ Beyond(x)
      /\ \A x \in listed, y \in items : Precedes(x, y)
      /\ ~Fits(items) => query.limit <= Cardinality(items)
  BY NextPage
<1>4. /\ scanned' \in Nat /\ spent' \in 0 .. MaxExpanded
      /\ (ScanLimited => scanned <= ScanLimit)'
  <2>1. Expansion(events[i]) \in Nat
    BY <1>2, FinitelyManyKeys DEF Expansion
  <2>2. scanned \in Nat /\ spent \in 0 .. MaxExpanded /\ MaxExpanded \in Nat
    BY CalendarAssumption DEF Sane, ReadsTypeOK
  <2>3. ScanLimited' = ScanLimited /\ ScanLimit' = ScanLimit
    BY <1>1 DEF ScanLimited, ScanLimit, Ranged
  <2> QED
    BY <1>1, <2>1, <2>2, <2>3
<1>5. ASSUME NEW j \in Ids
      PROVE  Due(j)' = Due(j)
  BY <1>1 DEF Due, Matches, Ranged, InRange, Chosen
<1>6. ASSUME NEW j \in Ids, NEW x \in Due(j)
      PROVE  x \in Places /\ x.id = j
  <2>1. IsDocument(events[j]) /\ events[j] # None
    BY <1>6 DEF Due, Sane
  <2> QED
    BY <1>6, <2>1, ItemsAreOrdered DEF Due, Ordered
<1>7. query.after # None => query.after \in Places
  BY ReadsAssumption DEF Sane, ReadsTypeOK
<1>8. ASSUME NEW j \in Ids \ touched
      PROVE  {x \in items : x.id = j} = IF j <= i THEN {x \in Due(j) : Beyond(x)} ELSE {}
  <2>1. j \in Nat
    BY ReadsAssumption
  <2>2. {x \in selected : x.id = j} = IF j <= position THEN {x \in Due(j) : Beyond(x)} ELSE {}
    BY <1>1 DEF Accounted
  <2>3. \A x \in ItemsOf(i) : x.id = i
    BY <1>1, <1>2, NewItems
  <2>4. CASE j < i
    <3>1. {x \in items : x.id = j} = {x \in selected : x.id = j}
      BY <1>2, <2>1, <2>3, <2>4
    <3>2. CASE j <= position
      BY <2>1, <2>2, <2>4, <1>2, <3>1, <3>2
    <3>3. CASE ~(j <= position)
      <4>1. Due(j) = {}
        BY <1>2, <2>1, <2>4, <3>3 DEF Due
      <4> QED
        BY <2>2, <3>1, <3>3, <4>1
    <3> QED
      BY <3>2, <3>3
  <2>5. CASE j = i
    <3>1. {x \in items : x.id = j} = ItemsOf(i)
      BY <1>2, <2>2, <2>3, <2>5
    <3>2. ItemsOf(i) = {x \in {Item(i, events[i], key) : key \in Chosen(events[i])} : Beyond(x)}
      BY <1>1, <1>2, NewItems
    <3>3. ASSUME NEW x \in {Item(i, events[i], key) : key \in Chosen(events[i])},
                 Beyond(x), query.after # None
          PROVE  Precedes(query.after, x)
      <4>1. after # None /\ Precedes(after, x) /\ after \in Places
        BY <1>1, <3>3 DEF Divided, Beyond, Sane
      <4>2. after = query.after \/ Precedes(query.after, after)
        BY <1>1, <3>3 DEF Divided
      <4>3. x \in Places
        BY <1>2, ItemsAreOrdered DEF Ordered
      <4> QED
        BY <1>7, <3>3, <4>1, <4>2, <4>3, PrecedesIsOrder
    <3>4. ItemsOf(i) = {x \in Due(i) : Beyond(x)}
      BY <1>2, <3>2, <3>3 DEF Due
    <3> QED
      BY <1>2, <2>5, <3>1, <3>4
  <2>6. CASE j > i
    BY <1>2, <1>3, <2>1, <2>6
  <2> QED
    BY <1>2, <2>1, <2>4, <2>5, <2>6
<1> HIDE DEF items
<1>9. CASE Fits(items)
  <2>1. selected' = items /\ UNCHANGED <<after, listed, pc>>
    BY <1>9 DEF ListDocument, items
  <2>2. Sane'
    <3>1. ReadsTypeOK'
      BY <1>1, <1>2, <1>4, <1>9, <2>1 DEF Sane, ReadsTypeOK, Fits
    <3>2. position' >= CursorPosition' /\ after' \in Places \cup {None}
      <4>1. after \in Places \cup {None} /\ position >= CursorPosition
        BY <1>1 DEF Sane
      <4>2. CursorPosition \in Int /\ CursorPosition' = CursorPosition
        BY <2>1, <4>1 DEF CursorPosition, Places
      <4> QED
        BY <1>1, <1>2, <2>1, <4>1, <4>2
    <3> QED
      BY <1>1, <2>1, <3>1, <3>2 DEF Sane
  <2>3. Divided'
    BY <1>1, <1>3, <2>1 DEF Divided, Beyond
  <2>4. Accounted'
    <3>1. SUFFICES ASSUME NEW j \in Ids \ touched
                   PROVE  /\ ({x \in listed : x.id = j} = {x \in Due(j) : ~Beyond(x)})'
                          /\ ({x \in selected : x.id = j} =
                                IF j <= position THEN {x \in Due(j) : Beyond(x)} ELSE {})'
      BY <1>1, <2>1 DEF Accounted
    <3>2. {x \in listed : x.id = j} = {x \in Due(j) : ~Beyond(x)}
      BY <1>1 DEF Accounted
    <3>3. \A x : Beyond(x)' = Beyond(x)
      BY <2>1 DEF Beyond
    <3> QED
      BY <1>1, <1>5, <1>8, <2>1, <3>2, <3>3
  <2> QED
    BY <2>2, <2>3, <2>4
<1>10. CASE ~Fits(items)
  <2>1. /\ listed' = listed \cup page /\ after' = last
        /\ selected' = {} /\ pc' = "ask"
    BY <1>10 DEF ListDocument, items, NextCursor
  <2>2. query.limit \in Nat \ {0}
    BY ReadsAssumption DEF Sane, ReadsTypeOK
  <2>3. /\ page \subseteq items /\ last \in page
        /\ \A x \in page : x = last \/ Precedes(x, last)
        /\ \A x \in items : x \in page <=> ~Precedes(last, x)
    BY <1>3, <1>10, <2>2, FullPage
  <2> HIDE DEF page, last
  <2>4. last \in items /\ last \in Places /\ last # None /\ items \subseteq Places
    <3>1. last \in items /\ last \in Places /\ items \subseteq Places
      BY <1>3, <2>3 DEF Ordered
    <3> QED
      BY <3>1, ReadsAssumption
  <2>5. last.id \in Nat /\ last.id <= i /\ Beyond(last)
    BY <1>3, <2>4 DEF Places
  <2>6. Sane'
    <3>1. ReadsTypeOK'
      BY <1>1, <1>2, <1>4, <2>1, <2>2, <2>5, EmptyPage DEF Sane, ReadsTypeOK
    <3> QED
      BY <1>1, <2>1, <2>4, <3>1 DEF Sane
  <2>7. Divided'
    <3>1. \A x \in listed' : x = last \/ Precedes(x, last)
      BY <1>3, <2>1, <2>3, <2>4
    <3>2. ASSUME query.after # None
          PROVE  Precedes(query.after, last)
      <4>1. after # None /\ (after = query.after \/ Precedes(query.after, after))
        BY <1>1, <3>2 DEF Divided
      <4>2. Precedes(after, last) /\ after \in Places
        BY <2>5, <4>1 DEF Beyond, Sane
      <4> QED
        BY <1>7, <2>4, <3>2, <4>1, <4>2, PrecedesIsOrder
    <3>3. listed' \subseteq Places
      BY <2>1, <2>3, <2>4 DEF Divided
    <3> QED
      BY <1>1, <2>1, <2>4, <3>1, <3>2, <3>3, EmptyPage DEF Divided
  <2>8. Accounted'
    <3>1. SUFFICES ASSUME NEW j \in Ids \ touched
                   PROVE  {x \in listed' : x.id = j} = {x \in Due(j) : ~Precedes(last, x)}
      BY <1>1, <1>5, <2>1, <2>4 DEF Accounted, Beyond
    <3>2. {x \in listed : x.id = j} = {x \in Due(j) : ~Beyond(x)}
      BY <1>1 DEF Accounted
    <3>3. ASSUME NEW x \in Due(j), ~Beyond(x)
          PROVE  ~Precedes(last, x)
      <4>1. after # None /\ after \in Places /\ ~Precedes(after, x) /\ Precedes(after, last)
        BY <2>5, <3>3 DEF Beyond, Sane
      <4>2. x \in Places
        BY <1>6, <3>3
      <4> QED
        BY <2>4, <4>1, <4>2, PrecedesIsOrder
    <3>4. {x \in page : x.id = j} = {x \in Due(j) : Beyond(x) /\ ~Precedes(last, x)}
      <4>1. CASE j <= i
        BY <1>8, <2>3, <4>1
      <4>2. CASE ~(j <= i)
        <5>1. {x \in page : x.id = j} = {}
          BY <1>8, <2>3, <4>2
        <5>2. \A x \in Due(j) : Precedes(last, x)
          <6>1. j \in Nat /\ last.id < j
            BY <1>2, <2>5, <4>2, ReadsAssumption
          <6> QED
            BY <1>6, <6>1 DEF Precedes
        <5> QED
          BY <5>1, <5>2
      <4> QED
        BY <4>1, <4>2
    <3> QED
      BY <2>1, <3>2, <3>3, <3>4
  <2> QED
    BY <2>6, <2>7, <2>8
<1> QED
  BY <1>9, <1>10

LEMMA ReadsLastPage ==
    ASSUME ReadsInv, LastPage
    PROVE  ReadsInv'
<1> USE DEF ReadsInv
<1>1. /\ pc = "read" /\ Ahead = {} /\ query.kind = "list"
      /\ listed' = listed \cup selected /\ selected' = {} /\ after' = None /\ pc' = "done"
      /\ UNCHANGED <<events, touched, writes, query, position, scanned, spent>>
  BY DEF LastPage
<1>2. Sane'
  <2>1. query.limit \in Nat
    BY ReadsAssumption DEF Sane, ReadsTypeOK
  <2>2. ReadsTypeOK'
    BY <1>1, <2>1, EmptyPage DEF Sane, ReadsTypeOK, Finished, ScanLimited, ScanLimit, Ranged
  <2> QED
    BY <1>1, <2>2 DEF Sane
<1>3. Divided'
  BY <1>1, EmptyPage DEF Divided, Ordered
<1>4. Accounted'
  <2>1. SUFFICES ASSUME NEW i \in Ids \ touched
                 PROVE  {x \in listed \cup selected : x.id = i} = Due(i)
    BY <1>1 DEF Accounted, Due, Matches, Ranged, InRange, Chosen
  <2>2. /\ {x \in listed : x.id = i} = {x \in Due(i) : ~Beyond(x)}
        /\ {x \in selected : x.id = i} =
               IF i <= position THEN {x \in Due(i) : Beyond(x)} ELSE {}
    BY <1>1 DEF Accounted
  <2>3. CASE i <= position
    BY <2>2, <2>3
  <2>4. CASE ~(i <= position)
    <3>1. i > position
      BY <2>4, ReadsAssumption DEF Sane, ReadsTypeOK
    <3>2. Due(i) = {}
      BY <1>1, <3>1 DEF Ahead, MatchingAfter, Due
    <3> QED
      BY <2>2, <2>4, <3>2
  <2> QED
    BY <2>3, <2>4
<1> QED
  BY <1>2, <1>3, <1>4

(* A write of somebody else touches the event it changes, and no other.    *)
LEMMA ReadsWrite ==
    ASSUME ReadsInv, NEW i \in Ids, NEW d \in Documents \cup {None}, Write(i, d)
    PROVE  ReadsInv'
<1> USE DEF ReadsInv
<1>1. /\ writes < MaxWrites /\ events' = [events EXCEPT ![i] = d]
      /\ touched' = touched \cup {i} /\ writes' = writes + 1
      /\ UNCHANGED <<query, position, scanned, spent, selected, after, listed, pc>>
  BY DEF Write, request, answer
<1>2. /\ DOMAIN events' = Ids /\ events'[i] = d
      /\ \A j \in Ids \ {i} : events'[j] = events[j]
  BY <1>1 DEF Sane, ReadsTypeOK
<1>3. Sane'
  <2>1. writes' \in 0 .. MaxWrites
    BY <1>1, ReadsAssumption DEF Sane, ReadsTypeOK
  <2>2. ReadsTypeOK'
    BY <1>1, <1>2, <2>1 DEF Sane, ReadsTypeOK, ScanLimited, ScanLimit, Ranged
  <2>3. \A j \in Ids : events'[j] # None => IsDocument(events'[j])
    BY <1>2, ReadsAssumption DEF Sane
  <2>4. CursorPosition' = CursorPosition
    BY <1>1 DEF CursorPosition
  <2> QED
    BY <1>1, <2>2, <2>3, <2>4 DEF Sane
<1>4. Divided'
  BY <1>1 DEF Divided, Beyond
<1>5. Accounted'
  <2>1. ASSUME NEW j \in Ids \ touched'
        PROVE  j \in Ids \ touched /\ Due(j)' = Due(j)
    <3>1. j \in Ids \ touched /\ events'[j] = events[j]
      BY <1>1, <1>2
    <3>2. /\ Matches(events[j])' = Matches(events[j])
          /\ Chosen(events[j])' = Chosen(events[j])
      BY <1>1, <3>1 DEF Matches, Ranged, InRange, Chosen
    <3> QED
      BY <1>1, <3>1, <3>2 DEF Due
  <2>2. \A x : Beyond(x)' = Beyond(x)
    BY <1>1 DEF Beyond
  <2> QED
    BY <1>1, <2>1, <2>2 DEF Accounted
<1> QED
  BY <1>3, <1>4, <1>5

(* The steps that neither list nor write. *)
LEMMA ReadsQuiet ==
    ASSUME ReadsInv,
           UNCHANGED <<events, touched, writes, query, after, listed, selected>>,
           \/ pc' \in {"413", "500"} /\ UNCHANGED <<position, scanned, spent>>
           \/ query.kind = "export" /\ pc = "read" /\ pc' \in {"read", "done"}
              /\ position' \in Int /\ position' >= position
              /\ scanned' \in Nat /\ spent' \in 0 .. MaxExpanded
              /\ (ScanLimited => scanned' <= ScanLimit)
           \/ UNCHANGED <<pc, position, scanned, spent>>
    PROVE  ReadsInv'
<1> USE DEF ReadsInv
<1>1. ReadsTypeOK'
  BY DEF Sane, ReadsTypeOK, Finished, ScanLimited, ScanLimit, Ranged
<1>2. pc' = "read" => position' >= CursorPosition'
  <2>1. CursorPosition \in Int /\ position \in Int
    BY DEF Sane, ReadsTypeOK, CursorPosition, Places
  <2>2. CursorPosition' = CursorPosition
    BY DEF CursorPosition
  <2>3. pc = "read" => position >= CursorPosition
    BY DEF Sane
  <2> QED
    BY <2>1, <2>2, <2>3
<1>3. Sane'
  BY <1>1, <1>2 DEF Sane
<1>4. Divided'
  <2>1. pc' = "read" => pc = "read" /\ \A x \in selected : x.id <= position'
    <3>1. \A x \in selected : x.id \in Nat
      BY DEF Divided, Ordered, Places
    <3>2. position \in Int
      BY DEF Sane, ReadsTypeOK
    <3> QED
      BY <3>1, <3>2 DEF Divided
  <2> QED
    BY <2>1 DEF Divided, Beyond
<1>5. Accounted'
  <2>1. \A j \in Ids : Due(j)' = Due(j)
    BY DEF Due, Matches, Ranged, InRange, Chosen
  <2>2. \A x : Beyond(x)' = Beyond(x)
    BY DEF Beyond
  <2> QED
    BY <2>1, <2>2 DEF Accounted
<1> QED
  BY <1>3, <1>4, <1>5

LEMMA ReadsExportDocument ==
    ASSUME ReadsInv, NEW i \in Ids, ExportDocument(i)
    PROVE  ReadsInv'
<1>1. /\ pc = "read" /\ i = Min(Ahead) /\ Ahead # {} /\ query.kind = "export"
      /\ position' = i /\ scanned' = scanned + 1 /\ spent' = spent + Expansion(events[i])
      /\ (ScanLimited => scanned' <= ScanLimit) /\ spent' <= MaxExpanded
      /\ UNCHANGED <<events, touched, writes, query, after, listed, selected, pc>>
  BY DEF ExportDocument, Fetch, answer
<1>2. i \in Nat /\ i > position /\ position \in Int /\ IsDocument(events[i])
  BY <1>1, NextDocument DEF ReadsInv, Sane, ReadsTypeOK
<1>3. Expansion(events[i]) \in Nat
  BY <1>2, FinitelyManyKeys DEF Expansion
<1>4. scanned' \in Nat /\ spent' \in 0 .. MaxExpanded
  BY <1>1, <1>3, CalendarAssumption DEF ReadsInv, Sane, ReadsTypeOK
<1> QED
  BY <1>1, <1>2, <1>4, ReadsQuiet

LEMMA ReadsNext ==
    ASSUME ReadsInv, [Next]_vars
    PROVE  ReadsInv'
<1>1. CASE Ask
  BY <1>1, ReadsAsk
<1>2. CASE Overrun \/ ReadFails
  BY <1>2, ReadsQuiet DEF Overrun, ReadFails, request, answer
<1>3. CASE LastPage
  BY <1>3, ReadsLastPage
<1>4. CASE Serialize
  <2>1. /\ query.kind = "export" /\ pc = "read" /\ pc' \in {"413", "done"}
        /\ UNCHANGED <<events, touched, writes, query, after, listed, selected,
                       position, scanned, spent>>
    BY <1>4 DEF Serialize, request
  <2>2. /\ position \in Int /\ scanned \in Nat /\ spent \in 0 .. MaxExpanded
        /\ ScanLimited => scanned <= ScanLimit
    BY DEF ReadsInv, Sane, ReadsTypeOK
  <2> QED
    BY <2>1, <2>2, ReadsQuiet
<1>5. ASSUME NEW i \in Ids, ListDocument(i)
      PROVE  ReadsInv'
  BY <1>5, ReadsListDocument
<1>6. ASSUME NEW i \in Ids, ExportDocument(i)
      PROVE  ReadsInv'
  BY <1>6, ReadsExportDocument
<1>7. ASSUME NEW i \in Ids, NEW d \in Documents \cup {None}, Write(i, d)
      PROVE  ReadsInv'
  BY <1>7, ReadsWrite
<1>8. CASE UNCHANGED vars
  BY <1>8, ReadsQuiet DEF vars, request, answer
<1> QED
  BY <1>1, <1>2, <1>3, <1>4, <1>5, <1>6, <1>7, <1>8 DEF Next, Progress

LEMMA ReadsInvariant ==
    Spec => []ReadsInv
<1>1. Init => ReadsInv
  BY ReadsInit
<1>2. ReadsInv /\ [Next]_vars => ReadsInv'
  BY ReadsNext
<1> QED
  BY <1>1, <1>2, PTL DEF Spec

-----------------------------------------------------------------------------
(* The listings of a calendar that others write *)

(* Every variable of a reading keeps its shape, and no request reads or    *)
(* expands past its limits.                                                *)
THEOREM ReadsTypeCorrect ==
    Spec => []ReadsTypeOK
<1>1. ReadsInv => ReadsTypeOK
  BY DEF ReadsInv, Sane
<1> QED
  BY <1>1, ReadsInvariant, PTL

(* The page and the items it brings. *)
Advances ==
    /\ \A x \in listed, y \in listed' \ listed : Precedes(x, y)
    /\ pc = "read" => \A x \in listed, y \in selected : Precedes(x, y)
    /\ pc = "read" /\ pc' = "ask" => Cardinality(listed' \ listed) = query.limit

(* What is selected lies beyond the cursor, what was received does not. *)
LEMMA SelectedIsNew ==
    ASSUME ReadsInv, pc = "read", NEW x \in listed, NEW y \in selected
    PROVE  Precedes(x, y)
<1>1. /\ after # None /\ after \in Places /\ x \in Places /\ y \in Places
      /\ x = after \/ Precedes(x, after)
  BY DEF ReadsInv, Divided, Ordered, Sane
<1>2. Precedes(after, y)
  BY <1>1 DEF ReadsInv, Divided, Beyond
<1> QED
  BY <1>1, <1>2, PrecedesIsOrder

LEMMA StepAdvances ==
    ASSUME ReadsInv, [Next]_vars
    PROVE  Advances
<1> USE DEF ReadsInv
<1>0. pc = "read" => \A x \in listed, y \in selected : Precedes(x, y)
  BY SelectedIsNew
<1>1. CASE \E i \in Ids : ListDocument(i)
  <2>1. PICK i \in Ids : ListDocument(i)
    BY <1>1
  <2> DEFINE items == selected \cup ItemsOf(i)
             page == FirstItems(query.limit, items)
  <2>2. /\ Ordered(items) /\ \A x \in listed, y \in items : Precedes(x, y)
        /\ ~Fits(items) => query.limit <= Cardinality(items)
    BY <2>1, NextPage
  <2>3. CASE Fits(items)
    <3>1. listed' = listed /\ pc' = pc
      BY <2>1, <2>3 DEF ListDocument
    <3> QED
      BY <1>0, <3>1 DEF Advances
  <2>4. CASE ~Fits(items)
    <3>1. listed' = listed \cup page
      BY <2>1, <2>4 DEF ListDocument
    <3>2. query.limit \in Nat \ {0}
      BY ReadsAssumption DEF Sane, ReadsTypeOK
    <3>3. page \subseteq items /\ Cardinality(page) = query.limit
      BY <2>2, <2>4, <3>2, FullPage
    <3>4. \A y \in page : y \notin listed
      BY <2>2, <3>3, PrecedesIsOrder DEF Ordered
    <3> HIDE DEF page
    <3>5. listed' \ listed = page
      BY <3>1, <3>4
    <3> QED
      BY <1>0, <2>2, <3>3, <3>5 DEF Advances
  <2> QED
    BY <2>3, <2>4
<1>2. CASE LastPage
  <2>1. pc = "read" /\ pc' = "done" /\ listed' = listed \cup selected
    BY <1>2 DEF LastPage
  <2> QED
    BY <1>0, <2>1 DEF Advances
<1>3. CASE listed' = listed /\ ~(pc = "read" /\ pc' = "ask")
  BY <1>0, <1>3 DEF Advances
<1> QED
  BY <1>1, <1>2, <1>3
     DEF Next, Progress, Ask, Overrun, Serialize, ReadFails, ExportDocument, Fetch, Write,
         vars, answer, request

(* Whatever is written between two documents or two pages: no page repeats *)
(* or goes back before an item of an earlier page, the last page included, *)
(* and a page that names a next cursor is full (nextCursor of              *)
(* listCalendarOccurrences, listEvents).                                   *)
THEOREM PagesNeverGoBack ==
    Spec => PagesAdvance
<1>1. ReadsInv /\ [Next]_vars => [Advances]_vars
  BY StepAdvances
<1> QED
  BY <1>1, ReadsInvariant, PTL DEF Spec, PagesAdvance, Advances

(* A listing that ends has returned, of every event nobody wrote meanwhile, *)
(* all its items and no others: what is written elsewhere moves no cursor  *)
(* past them.                                                              *)
THEOREM ListingsAreComplete ==
    Spec => []UnwrittenListed
<1>1. ReadsInv => UnwrittenListed
  BY DEF ReadsInv, Accounted, UnwrittenListed
<1> QED
  BY <1>1, ReadsInvariant, PTL

-----------------------------------------------------------------------------
(* Seconds *)

LEMMA Seconds ==
    ASSUME NEW x \in Int
    PROVE  /\ SecondBefore(x) \in Int /\ SecondAfter(x) \in Int
           /\ \A k \in Int : /\ SecondBefore(x + k * SecondLength) = SecondBefore(x) + k * SecondLength
                             /\ SecondAfter(x + k * SecondLength) = SecondAfter(x) + k * SecondLength
<1> DEFINE L == SecondLength
<1>1. L \in Nat \ {0}
  BY IcsAssumption
<1> HIDE DEF L
<1>2. ASSUME NEW y \in Int
      PROVE  y \div L \in Int /\ (y \div L) * L \in Int
  <2>1. y \div L \in Int
    BY <1>1, Z3
  <2> QED
    BY <1>1, <2>1
<1>3. ASSUME NEW y \in Int, NEW k \in Int
      PROVE  (y + k * L) \div L = (y \div L) + k
  <2> DEFINE q == y \div L
             z == y + k * L
             p == z \div L
  <2>1. q \in Int /\ L * q <= y /\ y < L * q + L
    BY <1>1, Z3
  <2>2. z \in Int
    BY <1>1
  <2> HIDE DEF z
  <2>3. p \in Int /\ L * p <= z /\ z < L * p + L
    BY <1>1, <2>2, Z3
  <2> HIDE DEF p, q
  <2>4. L * (q + k) = L * q + k * L /\ L * q \in Int /\ k * L \in Int /\ L * p \in Int
    BY <1>1, <2>1, <2>3, Z3
  <2>5. L * (q + k) <= z /\ z < L * (q + k) + L
    BY <1>1, <2>1, <2>4 DEF z
  <2>6. ~(p < q + k)
    <3>1. p < q + k => L * p + L <= L * (q + k)
      <4>1. \A a, b \in Int : a < b => L * a + L <= L * b
        BY <1>1, Z3
      <4> QED
        BY <2>1, <2>3, <4>1
    <3> QED
      BY <1>1, <2>1, <2>2, <2>3, <2>4, <2>5, <3>1
  <2>7. ~(q + k < p)
    <3>1. q + k < p => L * (q + k) + L <= L * p
      <4>1. \A a, b \in Int : a < b => L * a + L <= L * b
        BY <1>1, Z3
      <4> QED
        BY <2>1, <2>3, <4>1
    <3> QED
      BY <1>1, <2>1, <2>2, <2>3, <2>4, <2>5, <3>1
  <2>8. p = q + k
    BY <2>1, <2>3, <2>6, <2>7
  <2> QED
    BY <2>8 DEF p, q, z
<1>4. ASSUME NEW y \in Int, NEW k \in Int
      PROVE  ((y + k * L) \div L) * L = (y \div L) * L + k * L
  <2>1. \A q \in Int : (q + k) * L = q * L + k * L
    BY <1>1, Z3
  <2> QED
    BY <1>2, <1>3, <2>1
<1>5. SecondBefore(x) \in Int /\ SecondBefore(-x) \in Int /\ SecondAfter(x) \in Int
  BY <1>2 DEF SecondBefore, SecondAfter, L
<1>6. ASSUME NEW k \in Int
      PROVE  /\ SecondBefore(x + k * L) = SecondBefore(x) + k * L
             /\ SecondAfter(x + k * L) = SecondAfter(x) + k * L
  <2>1. SecondBefore(x + k * L) = SecondBefore(x) + k * L
    BY <1>4 DEF SecondBefore, L
  <2>2. k * L \in Int /\ -k \in Int
    BY <1>1
  <2>3. -(x + k * L) = -x + (-k) * L
    BY <1>1, Z3
  <2>4. SecondBefore(-x + (-k) * L) = SecondBefore(-x) + (-k) * L
    BY <1>4, <2>2 DEF SecondBefore, L
  <2>5. (-k) * L = -(k * L)
    BY <1>1, Z3
  <2>6. SecondAfter(x + k * L) = -(SecondBefore(-x) - k * L)
    BY <1>5, <2>2, <2>3, <2>4, <2>5 DEF SecondAfter
  <2>7. SecondAfter(x) = -SecondBefore(-x)
    BY DEF SecondAfter
  <2> QED
    BY <1>5, <2>1, <2>2, <2>6, <2>7
<1> QED
  BY <1>5, <1>6 DEF L

(* The starts of a series lie whole seconds apart.                         *)
LEMMA SeriesInSeconds ==
    ASSUME NEW d, IsDocument(d), NEW key \in BaseKeys(d), NEW x \in Int
    PROVE  LET moved == key - d.schedule.start IN
           /\ moved \in Int
           /\ SecondBefore(x + moved) = SecondBefore(x) + moved
           /\ SecondAfter(x + moved) = SecondAfter(x) + moved
<1> DEFINE s == d.schedule
           n == LastIndex(s, d.recurrence)
           p == Period(d.recurrence)
<1>1. s.start \in Int
  BY DEF IsDocument, Schedules
<1>2. PICK i \in 0 .. n : key = s.start + i * p
  BY DEF BaseKeys
<1>3. \E m \in Int : p = m * SecondLength
  <2> DEFINE D == DayLength
             L == SecondLength
  <2>1. D \in Nat \ {0} /\ L \in Nat \ {0} /\ D % L = 0
    BY CalendarAssumption, IcsAssumption
  <2> HIDE DEF D, L
  <2>2. D \div L \in Int /\ D = (D \div L) * L
    BY <2>1, Z3
  <2>3. 7 * D = (7 * (D \div L)) * L /\ 7 * (D \div L) \in Int
    BY <2>1, <2>2, Z3
  <2>4. p = D \/ p = 7 * D
    BY DEF Period, D
  <2> QED
    BY <2>2, <2>3, <2>4 DEF L
<1>4. PICK m \in Int : p = m * SecondLength
  BY <1>3
<1>5. i \in Int
  OBVIOUS
<1>6. p \in Int /\ SecondLength \in Nat \ {0}
  BY <1>4, IcsAssumption
<1> HIDE DEF p, n, s
<1>7. key - s.start = i * p
  <2>1. i * p \in Int
    BY <1>5, <1>6
  <2> QED
    BY <1>1, <1>2, <2>1
<1>8. i * p = (i * m) * SecondLength /\ i * m \in Int /\ i * p \in Int
  <2> DEFINE L == SecondLength
  <2>1. L \in Int /\ p = m * L
    BY <1>4, <1>6
  <2> HIDE DEF L
  <2>2. i * p = (i * m) * L /\ i * m \in Int /\ i * p \in Int
    BY <1>5, <2>1, Z3
  <2> QED
    BY <2>2 DEF L
<1> QED
  BY <1>7, <1>8, Seconds DEF s

LEMMA SecondsTellKeys ==
    ASSUME NEW d, IsDocument(d), NEW k \in BaseKeys(d), NEW l \in BaseKeys(d),
           SecondBefore(k) = SecondBefore(l)
    PROVE  k = l
<1> DEFINE s == d.schedule.start
<1>1. s \in Int /\ k \in Int /\ l \in Int
  BY FinitelyManyKeys DEF IsDocument, Schedules
<1>2. k = s + (k - s) /\ l = s + (l - s)
  BY <1>1
<1>3. SecondBefore(k) = SecondBefore(s) + (k - s) /\ SecondBefore(l) = SecondBefore(s) + (l - s)
  BY <1>1, <1>2, SeriesInSeconds
<1>4. SecondBefore(s) \in Int
  BY <1>1, Seconds
<1>5. SecondBefore(s) + (k - s) = SecondBefore(s) + (l - s)
  BY <1>3
<1> DEFINE x == SecondBefore(s)
<1> HIDE DEF s, x
<1>6. x \in Int /\ x + (k - s) = x + (l - s)
  BY <1>4, <1>5 DEF x
<1> QED
  BY <1>1, <1>6

-----------------------------------------------------------------------------
(* What an exported event shows *)

LEMMA CountedKeys ==
    ASSUME NEW d, IsDocument(d), Expandable(d), d.recurrence # None
    PROVE  LET n == LastIndex(d.schedule, d.recurrence) IN
           n \in Nat /\ Cardinality(BaseKeys(d)) = n + 1
<1> DEFINE s == d.schedule.start
           r == d.recurrence
           p == Period(r)
           n == LastIndex(d.schedule, r)
           f == [i \in 0 .. n |-> s + i * p]
<1>1. s \in Int /\ r \in Rules /\ r.endsOn \in Int
  BY DEF IsDocument, Schedules, Rules
<1>2. DayLength \in Nat \ {0} /\ p \in Nat \ {0}
  BY CalendarAssumption DEF Period
<1>3. n \in Nat
  <2> DEFINE days == r.endsOn - Day(s)
             slots == days * DayLength
  <2>1. Day(s) \in Int
    <3> DEFINE D == DayLength
    <3>1. D \in Nat \ {0}
      BY <1>2
    <3> HIDE DEF D
    <3>2. s \div D \in Int
      BY <1>1, <3>1, Z3
    <3> QED
      BY <3>2 DEF Day, D
  <2>2. Day(s) <= r.endsOn
    BY DEF Expandable, RecurrenceFits
  <2>3. days \in Nat
    BY <1>1, <2>1, <2>2
  <2>4. slots \in Nat
    BY <1>2, <2>3
  <2>5. n = slots \div p
    BY DEF LastIndex
  <2> HIDE DEF slots, p, n
  <2>6. slots \div p \in Nat
    BY <1>2, <2>4, Z3
  <2> QED
    BY <2>5, <2>6
<1> HIDE DEF n
<1>4. BaseKeys(d) = {s + i * p : i \in 0 .. n}
  BY DEF BaseKeys, n
<1>5. f \in Surjection(0 .. n, BaseKeys(d))
  BY <1>4 DEF Surjection
<1>6. ASSUME NEW i \in 0 .. n, NEW j \in 0 .. n, s + i * p = s + j * p
      PROVE  i = j
  <2> HIDE DEF s, p
  <2>1. i * p \in Int /\ j * p \in Int /\ i \in Int /\ j \in Int
    BY <1>2
  <2>2. i * p = j * p
    <3> DEFINE x == i * p
               y == j * p
    <3>1. x \in Int /\ y \in Int /\ s + x = s + y
      BY <1>6, <2>1
    <3> HIDE DEF x, y
    <3>2. x = y
      BY <1>1, <3>1
    <3> QED
      BY <3>2 DEF x, y
  <2> QED
    BY <1>2, <2>1, <2>2, Z3
<1>7. f \in Injection(0 .. n, BaseKeys(d))
  BY <1>5, <1>6 DEF Surjection, Injection, IsInjective
<1>8. IsFiniteSet(0 .. n) /\ Cardinality(0 .. n) = n + 1
  <2>1. /\ IsFiniteSet(0 .. n)
        /\ Cardinality(0 .. n) = IF 0 > n THEN 0 ELSE n - 0 + 1
    BY <1>3, FS_Interval
  <2> QED
    BY <1>3, <2>1
<1> HIDE DEF f
<1>9. Cardinality(BaseKeys(d)) = n + 1
  BY <1>5, <1>7, <1>8, FS_Surjection
<1> QED
  BY <1>3, <1>9 DEF n

Changed(d) == (DOMAIN d.exceptions) \ CancelledKeys(d)

LEMMA KeysOfExceptions ==
    ASSUME NEW d, IsDocument(d), Expandable(d)
    PROVE  /\ CancelledKeys(d) \subseteq BaseKeys(d)
           /\ LiveKeys(d) = BaseKeys(d) \ CancelledKeys(d)
           /\ Changed(d) \subseteq LiveKeys(d)
           /\ d.recurrence = None => Changed(d) = {} /\ CancelledKeys(d) = {}
BY DEF Expandable, LiveKeys, CancelledKeys, Changed

(* The instances of the series entry are the starts not cancelled.         *)
LEMMA InstancesAreLive ==
    ASSUME NEW d, IsDocument(d), Expandable(d), NEW id
    PROVE  Instances(SeriesEntry(id, d)) = {SecondBefore(key) : key \in LiveKeys(d)}
<1> DEFINE s == d.schedule
           v == SeriesEntry(id, d)
           r == d.recurrence
           n == LastIndex(s, r)
<1>1. s.start \in Int
  BY DEF IsDocument, Schedules
<1>2. LiveKeys(d) = BaseKeys(d) \ CancelledKeys(d) /\ CancelledKeys(d) \subseteq BaseKeys(d)
  BY KeysOfExceptions
<1>3. BaseKeys(d) = {s.start + i * Period(r) : i \in 0 .. n}
  BY DEF BaseKeys
<1>4. CASE r = None
  <2>1. v.rrule = None /\ v.dtstart = SecondBefore(s.start)
    BY <1>4 DEF SeriesEntry, Entry
  <2>2. LiveKeys(d) = BaseKeys(d)
    BY <1>2, <1>4, KeysOfExceptions
  <2>3. BaseKeys(d) = {s.start}
    <3>1. n = 0
      BY <1>4 DEF LastIndex
    <3>2. Period(r) \in Int
      BY CalendarAssumption DEF Period
    <3> HIDE DEF n
    <3>3. BaseKeys(d) = {s.start + i * Period(r) : i \in {0}}
      BY <1>3, <3>1
    <3>4. s.start + 0 * Period(r) = s.start
      BY <1>1, <3>2
    <3> QED
      BY <3>3, <3>4
  <2> HIDE DEF v, s
  <2>4. Instances(v) = {SecondBefore(s.start)}
    BY <2>1 DEF Instances
  <2> QED
    BY <2>2, <2>3, <2>4 DEF v
<1>5. CASE r # None
  <2>1. n \in Nat /\ Cardinality(BaseKeys(d)) = n + 1
    BY <1>5, CountedKeys
  <2>2. r \in Rules
    BY <1>5 DEF IsDocument
  <2>3. RepeatRule(d) \in [frequency : {"daily", "weekly"}, count : Nat]
    BY <2>1, <2>2 DEF RepeatRule, Rules
  <2>4. RepeatRule(d) # None /\ Period(RepeatRule(d)) = Period(r)
    <3>1. RepeatRule(d) # None
      BY <2>3, IcsAssumption
    <3>2. RepeatRule(d).frequency = r.frequency
      BY DEF RepeatRule
    <3> QED
      BY <1>5, <3>1, <3>2 DEF Period
  <2>5. RepeatRule(d).count = n + 1
    BY <2>1 DEF RepeatRule
  <2>6. /\ v.rrule = RepeatRule(d) /\ v.dtstart = SecondBefore(s.start)
        /\ v.exdate = {SecondBefore(key) : key \in CancelledKeys(d)}
    BY <1>5 DEF SeriesEntry, Entry
  <2> HIDE DEF v, n
  <2>7. Instances(v) = {SecondBefore(s.start) + i * Period(r) : i \in 0 .. (n + 1) - 1}
                           \ {SecondBefore(key) : key \in CancelledKeys(d)}
    BY <2>4, <2>5, <2>6 DEF Instances
  <2>8. (n + 1) - 1 = n
    BY <2>1
  <2>9. ASSUME NEW i \in 0 .. n
        PROVE  SecondBefore(s.start + i * Period(r)) = SecondBefore(s.start) + i * Period(r)
    <3> DEFINE key == s.start + i * Period(r)
    <3>1. key \in BaseKeys(d)
      BY <1>3 DEF n
    <3>2. Period(r) \in Int /\ i \in Int /\ i * Period(r) \in Int
      <4>1. Period(r) \in Int
        BY CalendarAssumption DEF Period
      <4> QED
        BY <2>1, <4>1
    <3>3. key - s.start = i * Period(r)
      BY <1>1, <3>2
    <3>4. SecondBefore(s.start + (key - s.start)) = SecondBefore(s.start) + (key - s.start)
      BY <1>1, <3>1, SeriesInSeconds
    <3> HIDE DEF key
    <3> QED
      BY <3>3, <3>4
  <2>10. {SecondBefore(s.start) + i * Period(r) : i \in 0 .. n}
             = {SecondBefore(key) : key \in BaseKeys(d)}
    BY <1>3, <2>9 DEF n
  <2>11. {SecondBefore(key) : key \in BaseKeys(d)} \ {SecondBefore(key) : key \in CancelledKeys(d)}
             = {SecondBefore(key) : key \in LiveKeys(d)}
    BY <1>2, SecondsTellKeys
  <2> QED
    BY <2>7, <2>8, <2>10, <2>11 DEF v
<1> QED
  BY <1>4, <1>5

LEMMA ShownIsOccurring ==
    ASSUME NEW d, IsDocument(d), Expandable(d), NEW id,
           NEW c, {v \in c : v.uid = id} = Components(id, d)
    PROVE  Shown(c, id) = Occurring(d)
<1> DEFINE s == d.schedule
           series == SeriesEntry(id, d)
           entries == {v \in c : v.uid = id}
           detached == {v \in entries : v.recurrenceId # None}
           replaced == {v.recurrenceId : v \in detached}
           time(key) == [start |-> SecondBefore(OccurrenceSchedule(d, key).start),
                         end |-> SecondAfter(OccurrenceSchedule(d, key).end)]
<1>1. s.start \in Int /\ s.end \in Int
  BY DEF IsDocument, Schedules
<1>2. /\ LiveKeys(d) = BaseKeys(d) \ CancelledKeys(d) /\ Changed(d) \subseteq LiveKeys(d)
      /\ BaseKeys(d) \subseteq Int
  BY KeysOfExceptions, FinitelyManyKeys
<1>3. /\ series.recurrenceId = None /\ series.dtstart = SecondBefore(s.start)
      /\ series.dtend = SecondAfter(s.end)
  BY DEF SeriesEntry, Entry
<1>4. ASSUME NEW key \in Changed(d)
      PROVE  LET v == DetachedEntry(id, d, key) IN
             /\ v.recurrenceId = SecondBefore(key) /\ v.recurrenceId # None
             /\ [start |-> v.dtstart, end |-> v.dtend] = time(key)
  <2>1. SecondBefore(key) \in Int
    BY <1>2, Seconds
  <2>2. SecondBefore(key) # None
    BY <2>1, IcsAssumption
  <2> QED
    BY <2>2 DEF DetachedEntry, Entry
<1>5. entries = {series} \cup {DetachedEntry(id, d, key) : key \in Changed(d)}
  BY DEF Components, Changed
<1> HIDE DEF entries, series
<1>6. detached = {DetachedEntry(id, d, key) : key \in Changed(d)}
  BY <1>3, <1>4, <1>5
<1>7. entries \ detached = {series}
  BY <1>3, <1>4, <1>5, <1>6
<1> HIDE DEF detached
<1>8. replaced = {SecondBefore(key) : key \in Changed(d)}
  <2> HIDE DEF time
  <2>1. \A key \in Changed(d) : DetachedEntry(id, d, key).recurrenceId = SecondBefore(key)
    BY <1>4
  <2>2. {v.recurrenceId : v \in detached} = {SecondBefore(key) : key \in Changed(d)}
    BY <1>6, <2>1
  <2> QED
    BY <2>2
<1>9. {[start |-> v.dtstart, end |-> v.dtend] : v \in detached} = {time(key) : key \in Changed(d)}
  <2> DEFINE shows(v) == [start |-> v.dtstart, end |-> v.dtend]
  <2>1. \A key \in Changed(d) : shows(DetachedEntry(id, d, key)) = time(key)
    BY <1>4
  <2> HIDE DEF shows, time
  <2>2. {shows(v) : v \in detached} = {time(key) : key \in Changed(d)}
    BY <1>6, <2>1
  <2> QED
    BY <2>2 DEF shows
<1>10. Instances(series) \ replaced = {SecondBefore(key) : key \in LiveKeys(d) \ Changed(d)}
  <2>1. Instances(series) = {SecondBefore(key) : key \in LiveKeys(d)}
    BY InstancesAreLive DEF series
  <2> HIDE DEF replaced
  <2> QED
    BY <1>2, <1>8, <2>1, SecondsTellKeys
<1>11. ASSUME NEW key \in LiveKeys(d) \ Changed(d)
       PROVE  [start |-> SecondBefore(key),
               end |-> SecondBefore(key) + (series.dtend - series.dtstart)] = time(key)
  <2>1. key \notin DOMAIN d.exceptions /\ key \in BaseKeys(d) /\ key \in Int
    BY <1>2 DEF Changed
  <2>2. OccurrenceSchedule(d, key) = ScheduleAt(d, key)
    BY <2>1 DEF OccurrenceSchedule, Overridden
  <2>3. /\ OccurrenceSchedule(d, key).start = key
        /\ OccurrenceSchedule(d, key).end = key + (s.end - s.start)
    BY <2>2 DEF ScheduleAt
  <2> DEFINE moved == key - s.start
  <2>4. /\ moved \in Int
        /\ SecondBefore(s.start + moved) = SecondBefore(s.start) + moved
        /\ SecondAfter(s.end + moved) = SecondAfter(s.end) + moved
    BY <1>1, <2>1, SeriesInSeconds
  <2>5. s.start + moved = key /\ s.end + moved = key + (s.end - s.start)
    BY <1>1, <2>1
  <2>6. SecondBefore(s.start) \in Int /\ SecondAfter(s.end) \in Int
    BY <1>1, Seconds
  <2> DEFINE x == SecondBefore(s.start)
             y == SecondAfter(s.end)
  <2> HIDE DEF moved, x, y
  <2>7. x \in Int /\ y \in Int /\ moved \in Int
    BY <2>4, <2>6 DEF x, y
  <2>8. SecondBefore(key) = x + moved
    BY <2>4, <2>5 DEF x
  <2>9. SecondAfter(key + (s.end - s.start)) = y + moved
    BY <2>4, <2>5 DEF y
  <2>10. (x + moved) + (y - x) = y + moved
    BY <2>7
  <2>11. series.dtend - series.dtstart = y - x
    BY <1>3 DEF x, y
  <2> QED
    BY <2>3, <2>8, <2>9, <2>10, <2>11
<1>12. {[start |-> at, end |-> at + (series.dtend - series.dtstart)] :
            at \in Instances(series) \ replaced}
          = {time(key) : key \in LiveKeys(d) \ Changed(d)}
  <2> HIDE DEF replaced, time
  <2> QED
    BY <1>10, <1>11
<1>13. Shown(c, id) = {time(key) : key \in Changed(d)}
                          \cup {time(key) : key \in LiveKeys(d) \ Changed(d)}
  <2>1. Shown(c, id) =
            {[start |-> v.dtstart, end |-> v.dtend] : v \in detached}
            \cup UNION {{[start |-> at, end |-> at + (v.dtend - v.dtstart)] :
                             at \in Instances(v) \ replaced} : v \in entries \ detached}
    BY DEF Shown, entries, detached
  <2> HIDE DEF replaced, time
  <2>2. UNION {{[start |-> at, end |-> at + (v.dtend - v.dtstart)] :
                    at \in Instances(v) \ replaced} : v \in entries \ detached}
          = {[start |-> at, end |-> at + (series.dtend - series.dtstart)] :
                 at \in Instances(series) \ replaced}
    BY <1>7
  <2> QED
    BY <1>9, <1>12, <2>1, <2>2
<1>14. Occurring(d) = {time(key) : key \in LiveKeys(d)}
  BY DEF Occurring
<1> HIDE DEF time
<1> QED
  BY <1>2, <1>13, <1>14

-----------------------------------------------------------------------------
(* Exports beside other people's writes *)

Wanted(i) ==
    events[i] # None /\ Matches(events[i]) /\ ~(Chosen(events[i]) = {} /\ Ranged)

(* Of the events left alone, those that are part of the selection are taken *)
(* as they are when the cursor passes them, and written out as taken.      *)
Taken ==
    /\ \A i \in Ids : events[i] # None => Expandable(events[i])
    /\ query.kind = "export" =>
           /\ after = None
           /\ DOMAIN taken = Ids
           /\ pc = "read" =>
                  \A i \in Ids \ touched :
                      taken[i] = IF i <= position /\ Wanted(i) THEN events[i] ELSE None
           /\ pc = "done" =>
                  \A i \in Ids \ touched :
                      {v \in calendar : v.uid = i} =
                          IF Wanted(i) THEN Components(i, events[i]) ELSE {}

LEMMA WantedStays ==
    ASSUME NEW i, events'[i] = events[i], query' = query
    PROVE  Wanted(i)' = Wanted(i)
BY DEF Wanted, Matches, Chosen, Ranged, InRange

LEMMA EntriesOf ==
    ASSUME NEW documents, NEW i \in Ids
    PROVE  {v \in Entries(documents) : v.uid = i} =
               IF documents[i] = None THEN {} ELSE Components(i, documents[i])
<1>1. ASSUME NEW j, NEW d, NEW v \in Components(j, d)
      PROVE  v.uid = j
  BY <1>1 DEF Components, SeriesEntry, DetachedEntry, Entry
<1>2. \A v : v \in Entries(documents) <=>
          \E j \in Ids : documents[j] # None /\ v \in Components(j, documents[j])
  BY DEF Entries
<1> QED
  BY <1>1, <1>2

LEMMA TakenInit ==
    ASSUME Init
    PROVE  Taken
<1>1. \A i \in Ids : events[i] # None => Expandable(events[i])
  BY ReadsAssumption DEF Init
<1>2. query.kind = "export" => after = None
  BY ReadsAssumption DEF Init
<1> QED
  BY <1>1, <1>2 DEF Init, Taken

LEMMA TakenNext ==
    ASSUME ReadsInv, Taken, [Next]_vars
    PROVE  Taken'
<1>1. CASE Ask
  <2>1. /\ UNCHANGED <<events, touched, query, after, calendar>>
        /\ pc' \in {"400", "read"} /\ position' = CursorPosition
        /\ taken' = [i \in Ids |-> None]
    BY <1>1 DEF Ask, answer
  <2>2. after = None => \A i \in Ids : ~(i <= position')
    BY <2>1, ReadsAssumption DEF CursorPosition
  <2> QED
    BY <2>1, <2>2 DEF Taken
<1>2. CASE Serialize
  <2>1. /\ pc = "read" /\ Ahead = {} /\ query.kind = "export"
        /\ UNCHANGED <<events, touched, query, after, taken>>
        /\ \/ pc' = "413"
           \/ pc' = "done" /\ calendar' = Entries(taken)
    BY <1>2 DEF Serialize, request
  <2>2. ASSUME NEW i \in Ids \ touched, pc' = "done"
        PROVE  {v \in calendar' : v.uid = i} =
                   IF Wanted(i) THEN Components(i, events[i]) ELSE {}
    <3>1. taken[i] = IF i <= position /\ Wanted(i) THEN events[i] ELSE None
      BY <2>1 DEF Taken
    <3>2. Wanted(i) => i <= position
      <4>1. i \in Nat /\ position \in Int
        BY ReadsAssumption DEF ReadsInv, Sane, ReadsTypeOK
      <4> QED
        BY <2>1, <4>1 DEF Ahead, MatchingAfter, Wanted
    <3>3. {v \in calendar' : v.uid = i} =
              IF taken[i] = None THEN {} ELSE Components(i, taken[i])
      BY <2>1, <2>2, EntriesOf
    <3> QED
      BY <3>1, <3>2, <3>3 DEF Wanted
  <2>3. \A i \in Ids : Wanted(i)' = Wanted(i)
    BY <2>1, WantedStays
  <2> QED
    BY <2>1, <2>2, <2>3 DEF Taken
<1>3. ASSUME NEW i \in Ids, ExportDocument(i)
      PROVE  Taken'
  <2>1. /\ pc = "read" /\ i = Min(Ahead) /\ Ahead # {} /\ query.kind = "export"
        /\ position' = i /\ UNCHANGED <<events, touched, query, after, calendar, pc>>
        /\ taken' = IF Chosen(events[i]) = {} /\ Ranged THEN taken
                    ELSE [taken EXCEPT ![i] = events[i]]
    BY <1>3 DEF ExportDocument, Fetch, answer
  <2>2. /\ i \in Nat /\ i > position /\ position \in Int
        /\ events[i] # None /\ Matches(events[i])
        /\ \A j \in Ids : j > position /\ j < i => events[j] = None \/ ~Matches(events[j])
    BY <2>1, NextDocument DEF ReadsInv, Sane, ReadsTypeOK
  <2>3. DOMAIN taken = Ids /\ DOMAIN taken' = Ids
    BY <2>1 DEF Taken
  <2>4. ASSUME NEW j \in Ids \ touched
        PROVE  taken'[j] = IF j <= i /\ Wanted(j) THEN events[j] ELSE None
    <3>1. taken[j] = IF j <= position /\ Wanted(j) THEN events[j] ELSE None
      BY <2>1 DEF Taken
    <3>2. j \in Nat
      BY ReadsAssumption
    <3>3. CASE j = i
      <4>1. taken[j] = None
        BY <2>2, <3>1, <3>3
      <4> QED
        BY <2>1, <2>2, <2>3, <3>2, <3>3, <4>1 DEF Wanted
    <3>4. CASE j # i
      <4>1. taken'[j] = taken[j]
        BY <2>1, <2>3, <3>4
      <4>2. j <= position => j <= i
        BY <2>2, <3>2
      <4>3. j <= i /\ ~(j <= position) => ~Wanted(j)
        BY <2>2, <3>2, <3>4 DEF Wanted
      <4> QED
        BY <3>1, <4>1, <4>2, <4>3
    <3> QED
      BY <3>3, <3>4
  <2>5. \A j \in Ids : Wanted(j)' = Wanted(j)
    BY <2>1, WantedStays
  <2> QED
    BY <2>1, <2>3, <2>4, <2>5 DEF Taken
<1>4. ASSUME NEW i \in Ids, NEW d \in Documents \cup {None}, Write(i, d)
      PROVE  Taken'
  <2>1. /\ events' = [events EXCEPT ![i] = d] /\ touched' = touched \cup {i}
        /\ UNCHANGED <<query, position, taken, after, calendar, pc>>
    BY <1>4 DEF Write, request, answer
  <2>2. /\ DOMAIN events' = Ids /\ events'[i] = d
        /\ \A j \in Ids \ {i} : events'[j] = events[j]
    BY <2>1 DEF ReadsInv, Sane, ReadsTypeOK
  <2>3. \A j \in Ids : events'[j] # None => Expandable(events'[j])
    BY <2>2, ReadsAssumption DEF Taken
  <2>4. \A j \in Ids \ touched' : /\ j \in Ids \ touched /\ events'[j] = events[j]
                                  /\ Wanted(j)' = Wanted(j)
    BY <2>1, <2>2, WantedStays
  <2> QED
    BY <2>1, <2>3, <2>4 DEF Taken
<1>5. ASSUME UNCHANGED <<events, touched, query>>,
             \/ query.kind = "list"
             \/ UNCHANGED <<position, taken, after, calendar>> /\ pc' \in {pc, "413", "500"}
      PROVE  Taken'
  <2>1. \A j \in Ids : Wanted(j)' = Wanted(j)
    BY <1>5, WantedStays
  <2>2. CASE query.kind = "list"
    BY <1>5, <2>2 DEF Taken
  <2>3. CASE UNCHANGED <<position, taken, after, calendar>> /\ pc' \in {pc, "413", "500"}
    BY <1>5, <2>1, <2>3 DEF Taken
  <2> QED
    BY <1>5, <2>2, <2>3
<1>6. CASE Overrun \/ ReadFails \/ LastPage \/ UNCHANGED vars
  BY <1>5, <1>6 DEF Overrun, ReadFails, LastPage, vars, request, answer
<1>7. ASSUME NEW i \in Ids, ListDocument(i)
      PROVE  Taken'
  BY <1>5, <1>7 DEF ListDocument
<1> QED
  BY <1>1, <1>2, <1>3, <1>4, <1>6, <1>7 DEF Next, Progress

(* An export is never a truncated calendar: of every event of the selection *)
(* that nobody wrote meanwhile, a calendar application shows exactly the   *)
(* occurrences, widened to whole seconds, and nothing of other events      *)
(* (exportCalendar, serializeCalendar).                                    *)
THEOREM ExportsAreWhole ==
    Spec => []ExportShowsCalendar
<1>1. Init => Taken
  BY TakenInit
<1>2. ReadsInv /\ Taken /\ [Next]_vars => Taken'
  BY TakenNext
<1>3. ReadsInv /\ Taken => ExportShowsCalendar
  <2>1. SUFFICES ASSUME ReadsInv, Taken, pc = "done", query.kind = "export",
                        NEW i \in Ids \ touched
                 PROVE  Shown(calendar, i) =
                            IF events[i] = None \/ ~Matches(events[i]) \/ Chosen(events[i]) = {}
                            THEN {} ELSE Occurring(events[i])
    BY DEF ExportShowsCalendar
  <2>2. {v \in calendar : v.uid = i} = IF Wanted(i) THEN Components(i, events[i]) ELSE {}
    BY <2>1 DEF Taken
  <2>3. CASE Wanted(i)
    <3>1. IsDocument(events[i]) /\ Expandable(events[i])
      BY <2>1, <2>3 DEF ReadsInv, Sane, Taken, Wanted
    <3>2. Shown(calendar, i) = Occurring(events[i])
      BY <2>2, <2>3, <3>1, ShownIsOccurring
    <3>3. Chosen(events[i]) = {} => Occurring(events[i]) = {}
      BY <2>3 DEF Wanted, Chosen, Occurring
    <3> QED
      BY <2>3, <3>2, <3>3 DEF Wanted
  <2>4. CASE ~Wanted(i)
    <3>1. Shown(calendar, i) = {}
      BY <2>2, <2>4 DEF Shown
    <3> QED
      BY <2>4, <3>1 DEF Wanted
  <2> QED
    BY <2>3, <2>4
<1> QED
  BY <1>1, <1>2, <1>3, ReadsInvariant, PTL DEF Spec

-----------------------------------------------------------------------------
(* What a request has spent *)

LEMMA ExpandedIsFinite ==
    ASSUME NEW ids \in SUBSET Ids, \A i \in ids : IsDocument(events[i])
    PROVE  /\ IsFiniteSet(Expanded(events, ids))
           /\ Cardinality(Expanded(events, ids)) \in Nat
<1> DEFINE f == [i \in ids |-> {i} \X BaseKeys(events[i])]
           pairs == {{i} \X BaseKeys(events[i]) : i \in ids}
<1>1. IsFiniteSet(ids)
  BY ReadsAssumption, FS_Subset
<1>2. f \in Surjection(ids, pairs)
  BY DEF Surjection
<1>3. IsFiniteSet(pairs)
  <2> HIDE DEF f, pairs
  <2> QED
    BY <1>1, <1>2, FS_Surjection
<1>4. \A T \in pairs : IsFiniteSet(T)
  <2>1. SUFFICES ASSUME NEW i \in ids
                 PROVE  IsFiniteSet({i} \X BaseKeys(events[i]))
    OBVIOUS
  <2>2. IsFiniteSet(BaseKeys(events[i])) /\ IsFiniteSet({i})
    BY FinitelyManyKeys, FS_Singleton
  <2> QED
    BY <2>2, FS_Product
<1>5. IsFiniteSet(UNION pairs)
  <2> HIDE DEF pairs
  <2> QED
    BY <1>3, <1>4, FS_UNION
<1> QED
  BY <1>5, FS_CardinalityType DEF Expanded

(* One more document adds its occurrences. *)
LEMMA ExpandedGrows ==
    ASSUME NEW ids \in SUBSET Ids, NEW i \in Ids \ ids,
           \A j \in ids \cup {i} : IsDocument(events[j])
    PROVE  Cardinality(Expanded(events, ids \cup {i}))
               = Cardinality(Expanded(events, ids)) + Cardinality(BaseKeys(events[i]))
<1> DEFINE old == Expanded(events, ids)
           new == {i} \X BaseKeys(events[i])
<1>1. IsFiniteSet(old) /\ Cardinality(old) \in Nat
  BY ExpandedIsFinite
<1>2. /\ IsFiniteSet(BaseKeys(events[i])) /\ Cardinality(BaseKeys(events[i])) \in Nat
      /\ IsFiniteSet({i}) /\ Cardinality({i}) = 1
  BY FinitelyManyKeys, FS_Singleton
<1>3. IsFiniteSet(new) /\ Cardinality(new) = Cardinality(BaseKeys(events[i]))
  <2>1. Cardinality(new) = Cardinality({i}) * Cardinality(BaseKeys(events[i]))
    BY <1>2, FS_Product
  <2>2. Cardinality(new) = Cardinality(BaseKeys(events[i]))
    BY <1>2, <2>1
  <2> QED
    BY <1>2, <2>2, FS_Product
<1>4. Expanded(events, ids \cup {i}) = old \cup new
  BY DEF Expanded
<1>5. old \cap new = {}
  BY DEF Expanded
<1> HIDE DEF old, new
<1>6. Cardinality(old \cup new) = Cardinality(old) + Cardinality(new) - Cardinality({})
  BY <1>1, <1>3, <1>5, FS_Union
<1>7. Cardinality({}) = 0
  BY FS_EmptySet
<1>8. Cardinality(old \cup new) = Cardinality(old) + Cardinality(new)
  BY <1>1, <1>2, <1>3, <1>6, <1>7
<1> QED
  BY <1>3, <1>4, <1>8 DEF old

(* Of what lies ahead of the request's cursor, the documents handed over.  *)
Read == {i \in MatchingAfter(CursorPosition) : i <= position}

(* While nobody writes, both budgets have been spent on those documents,   *)
(* their items are selected for the page, and a request was refused only if *)
(* what its page needs is past a limit.                                    *)
Spent ==
    /\ pc = "read" /\ touched = {} =>
           /\ scanned = Cardinality(Read)
           /\ spent = IF Ranged THEN Cardinality(Expanded(events, Read)) ELSE 0
           /\ query.kind = "list" => UNION {ItemsOf(j) : j \in Read} \subseteq selected
    /\ RefusedWhenTooLarge

(* The next document is one of those ahead that had not been read.         *)
LEMMA ReadGrows ==
    ASSUME Sane, pc = "read", touched = {}, Spent, NEW i, i = Min(Ahead), Ahead # {}
    PROVE  LET more == {j \in MatchingAfter(CursorPosition) : j <= i} IN
           /\ more = Read \cup {i}
           /\ Read = Before(i)
           /\ i \in MatchingAfter(CursorPosition)
           /\ Cardinality(more) = scanned + 1
           /\ Ranged => Cardinality(Expanded(events, more)) = spent + Expansion(events[i])
<1> DEFINE more == {j \in MatchingAfter(CursorPosition) : j <= i}
<1>1. /\ i \in Ids /\ i \in Nat /\ i > position /\ events[i] # None
      /\ IsDocument(events[i]) /\ Matches(events[i])
      /\ \A j \in Ids : j > position /\ j < i => events[j] = None \/ ~Matches(events[j])
  BY NextDocument
<1>2. /\ position \in Int /\ position >= CursorPosition /\ CursorPosition \in Int
      /\ Ids \subseteq Nat
  <2>1. after # None => after.id \in Nat
    BY DEF Sane, Places
  <2> QED
    BY <2>1, ReadsAssumption DEF Sane, ReadsTypeOK, CursorPosition
<1>3. i \in MatchingAfter(CursorPosition)
  BY <1>1, <1>2 DEF MatchingAfter
<1>4. more = Read \cup {i}
  <2>1. ASSUME NEW j \in Ids
        PROVE  j \in more <=> j \in Read \cup {i}
    <3>1. j \in Nat
      BY <1>2
    <3> QED
      BY <1>1, <1>2, <1>3, <3>1 DEF Read, MatchingAfter
  <2>2. more \subseteq Ids /\ Read \subseteq Ids
    BY DEF Read, MatchingAfter
  <2> QED
    BY <1>1, <2>1, <2>2
<1>9. Read = Before(i)
  <2>1. ASSUME NEW j \in MatchingAfter(CursorPosition)
        PROVE  j <= position <=> j < i
    <3>1. j \in Ids /\ j \in Nat /\ events[j] # None /\ Matches(events[j])
      BY <1>2 DEF MatchingAfter
    <3> QED
      BY <1>1, <1>2, <3>1
  <2> QED
    BY <2>1 DEF Read, Before
<1>5. /\ Read \in SUBSET Ids /\ i \notin Read
      /\ \A j \in Read \cup {i} : IsDocument(events[j])
  BY <1>1, <1>2 DEF Read, MatchingAfter, Sane
<1>6. IsFiniteSet(Read) /\ Cardinality(Read) \in Nat
  BY <1>5, ReadsAssumption, FS_Subset, FS_CardinalityType
<1>7. Cardinality(Read \cup {i}) = Cardinality(Read) + 1
  BY <1>5, <1>6, FS_AddElement
<1>8. Cardinality(Expanded(events, Read \cup {i}))
          = Cardinality(Expanded(events, Read)) + Cardinality(BaseKeys(events[i]))
  BY <1>1, <1>5, ExpandedGrows
<1> QED
  BY <1>3, <1>4, <1>9, <1>7, <1>8 DEF Spent, Expansion

(* Neither the clauses of a refusal nor what a document brings depend on   *)
(* more than the calendar, the query and the cursor.                       *)
LEMMA SameCalendar ==
    ASSUME UNCHANGED <<events, query, after>>
    PROVE  /\ Ranged' = Ranged /\ ScanLimited' = ScanLimited /\ ScanLimit' = ScanLimit
           /\ MatchingAfter(CursorPosition)' = MatchingAfter(CursorPosition)
           /\ \A i : ItemsOf(i)' = ItemsOf(i)
           /\ \A i : Needed(i)' = Needed(i) /\ Overspent(i)' = Overspent(i)
           /\ TooLarge(Selection)' = TooLarge(Selection)
<1>1. /\ Ranged' = Ranged /\ ScanLimited' = ScanLimited /\ ScanLimit' = ScanLimit
      /\ CursorPosition' = CursorPosition
  BY DEF Ranged, ScanLimited, ScanLimit, CursorPosition
<1>2. MatchingAfter(CursorPosition)' = MatchingAfter(CursorPosition)
  BY <1>1 DEF MatchingAfter, Matches, InRange, Ranged
<1>3. ASSUME NEW i
      PROVE  ItemsOf(i)' = ItemsOf(i)
  BY DEF ItemsOf, Item, Skipped, Chosen, InRange, Ranged
<1>4. ASSUME NEW i
      PROVE  Needed(i)' = Needed(i) /\ Overspent(i)' = Overspent(i)
  <2>1. Before(i)' = Before(i)
    BY <1>2 DEF Before
  <2>2. UNION {ItemsOf(j)' : j \in Before(i)'} = UNION {ItemsOf(j) : j \in Before(i)}
    BY <1>3, <2>1
  <2> QED
    BY <1>1, <2>1, <2>2 DEF Needed, Overspent, Expanded
<1>5. TooLarge(Selection)' = TooLarge(Selection)
  BY DEF TooLarge, Selection, Matches, InRange, Ranged, Chosen
<1> QED
  BY <1>1, <1>2, <1>3, <1>4, <1>5

LEMMA RefusalStays ==
    ASSUME RefusedWhenTooLarge, UNCHANGED <<events, query, after>>,
           pc' = "413" /\ touched' = {} => pc = "413" /\ touched = {}
    PROVE  RefusedWhenTooLarge'
BY SameCalendar DEF RefusedWhenTooLarge

LEMMA SpentRead ==
    ASSUME ReadsInv, Spent, NEW i, Fetch(i),
           UNCHANGED <<events, touched, query>>,
           pc' # "413",
           pc' = "read" => /\ after' = after
                           /\ query.kind = "list" => selected' = selected \cup ItemsOf(i)
    PROVE  Spent'
<1>1. /\ pc = "read" /\ i = Min(Ahead) /\ Ahead # {}
      /\ position' = i /\ scanned' = scanned + 1 /\ spent' = spent + Expansion(events[i])
  BY DEF Fetch
<1>2. RefusedWhenTooLarge'
  BY DEF RefusedWhenTooLarge
<1>3. ASSUME pc' = "read", touched' = {}
      PROVE  /\ scanned' = Cardinality(Read')
             /\ spent' = IF Ranged' THEN Cardinality(Expanded(events, Read)') ELSE 0
             /\ query'.kind = "list" =>
                    UNION {ItemsOf(j)' : j \in Read'} \subseteq selected'
  <2> DEFINE more == {j \in MatchingAfter(CursorPosition) : j <= i}
  <2>1. after' = after /\ touched = {}
    BY <1>3
  <2>2. Read' = more /\ Ranged' = Ranged /\ \A j : ItemsOf(j)' = ItemsOf(j)
    BY <1>1, <2>1, SameCalendar DEF Read
  <2>3. Expanded(events, Read)' = Expanded(events, more)
    BY <2>2 DEF Expanded
  <2>4. /\ Cardinality(more) = scanned + 1 /\ more = Read \cup {i}
        /\ Ranged => Cardinality(Expanded(events, more)) = spent + Expansion(events[i])
    BY <1>1, <2>1, ReadGrows DEF ReadsInv
  <2>5. ~Ranged => spent = 0 /\ Expansion(events[i]) = 0
    BY <1>1, <2>1 DEF Spent, Expansion
  <2> HIDE DEF more
  <2>6. ASSUME query.kind = "list"
        PROVE  UNION {ItemsOf(j) : j \in more} \subseteq selected'
    <3>1. UNION {ItemsOf(j) : j \in Read} \subseteq selected
      BY <1>1, <2>1, <2>6 DEF Spent
    <3>2. selected' = selected \cup ItemsOf(i)
      BY <1>3, <2>6
    <3> QED
      BY <2>4, <3>1, <3>2
  <2>7. UNION {ItemsOf(j)' : j \in Read'} = UNION {ItemsOf(j) : j \in more}
    BY <2>2
  <2> QED
    BY <1>1, <2>2, <2>3, <2>4, <2>5, <2>6, <2>7
<1> QED
  BY <1>2, <1>3 DEF Spent

LEMMA SpentOverrun ==
    ASSUME ReadsInv, Spent, Overrun
    PROVE  Spent'
<1>1. /\ pc = "read" /\ Ahead # {} /\ pc' = "413"
      /\ UNCHANGED <<events, touched, query, after>>
      /\ \/ ScanLimited /\ scanned + 1 > ScanLimit
         \/ spent + Expansion(events[Min(Ahead)]) > MaxExpanded
  BY DEF Overrun, answer
<1> DEFINE i == Min(Ahead)
           brought == UNION {ItemsOf(j) : j \in Before(i)}
<1>2. ASSUME touched = {}
      PROVE  i \in MatchingAfter(CursorPosition) /\ Needed(i) /\ Overspent(i)
  <2>1. /\ Before(i) = Read /\ i \in MatchingAfter(CursorPosition)
        /\ Cardinality(Read \cup {i}) = scanned + 1
        /\ Ranged => Cardinality(Expanded(events, Read \cup {i})) = spent + Expansion(events[i])
    BY <1>1, <1>2, ReadGrows DEF ReadsInv
  <2>2. ~Ranged => spent = 0 /\ Expansion(events[i]) = 0
    BY <1>1, <1>2 DEF Spent, Expansion
  <2>3. MaxExpanded \in Nat
    BY CalendarAssumption
  <2>4. ASSUME query.kind = "list"
        PROVE  Cardinality(brought) <= query.limit
    <3>1. brought \in SUBSET selected
      BY <1>1, <1>2, <2>1, <2>4 DEF Spent
    <3>2. /\ IsFiniteSet(selected) /\ Cardinality(selected) <= query.limit
          /\ query.limit \in Nat
      BY ReadsAssumption DEF ReadsInv, Sane, ReadsTypeOK, Divided, Ordered
    <3> HIDE DEF brought
    <3>3. /\ Cardinality(brought) <= Cardinality(selected)
          /\ Cardinality(brought) \in Nat /\ Cardinality(selected) \in Nat
      BY <3>1, <3>2, FS_Subset, FS_CardinalityType
    <3> QED
      BY <3>2, <3>3
  <2>5. Overspent(i)
    BY <1>1, <2>1, <2>2, <2>3 DEF Overspent
  <2>6. Needed(i)
    BY <2>4 DEF Needed
  <2> QED
    BY <2>1, <2>5, <2>6
<1>3. RefusedWhenTooLarge'
  <2>1. touched' = {} => \E j \in MatchingAfter(CursorPosition)' : Needed(j)' /\ Overspent(j)'
    BY <1>1, <1>2, SameCalendar
  <2> QED
    BY <2>1 DEF RefusedWhenTooLarge
<1> QED
  BY <1>1, <1>3 DEF Spent

(* What an export of an unwritten calendar took is what it had to take.    *)
LEMMA SpentSerialize ==
    ASSUME ReadsInv, Taken, Spent, Serialize
    PROVE  Spent'
<1>1. /\ pc = "read" /\ Ahead = {} /\ query.kind = "export"
      /\ UNCHANGED <<events, touched, query, after, taken>>
      /\ pc' = IF TooLarge(taken) THEN "413" ELSE "done"
  BY DEF Serialize, request
<1>2. ASSUME touched = {}
      PROVE  \A i \in Ids : taken[i] = Selection[i]
  <2>1. SUFFICES ASSUME NEW i \in Ids
                 PROVE  taken[i] = Selection[i]
    OBVIOUS
  <2>2. taken[i] = IF i <= position /\ Wanted(i) THEN events[i] ELSE None
    BY <1>1, <1>2 DEF Taken
  <2>3. Wanted(i) => i <= position
    <3>1. i \in Nat /\ position \in Int
      BY ReadsAssumption DEF ReadsInv, Sane, ReadsTypeOK
    <3> QED
      BY <1>1, <3>1 DEF Ahead, MatchingAfter, Wanted
  <2> QED
    BY <2>2, <2>3 DEF Selection, Wanted
<1>3. ASSUME touched = {}
      PROVE  TooLarge(taken) <=> TooLarge(Selection)
  BY <1>2, <1>3 DEF TooLarge, Entries, Repetitions, Expanded
<1>4. RefusedWhenTooLarge'
  <2>1. TooLarge(Selection)' = TooLarge(Selection)
    BY <1>1, SameCalendar
  <2> QED
    BY <1>1, <1>3, <2>1 DEF RefusedWhenTooLarge
<1> QED
  BY <1>1, <1>4 DEF Spent

LEMMA SpentNext ==
    ASSUME ReadsInv, Taken, Spent, [Next]_vars
    PROVE  Spent'
<1>1. CASE Ask
  <2>1. /\ UNCHANGED <<events, touched, query, after>> /\ pc' \in {"400", "read"}
        /\ position' = CursorPosition /\ scanned' = 0 /\ spent' = 0
    BY <1>1 DEF Ask, answer
  <2>2. CursorPosition \in Int /\ CursorPosition' = CursorPosition
    <3>1. after # None => after.id \in Nat
      BY DEF ReadsInv, Sane, Places
    <3> QED
      BY <2>1, <3>1 DEF CursorPosition
  <2>3. Read' = {}
    <3>1. \A j \in Ids : ~(j > CursorPosition /\ j <= CursorPosition)
      BY <2>2, ReadsAssumption
    <3> QED
      BY <2>1, <2>2, <3>1 DEF Read, MatchingAfter
  <2>4. Expanded(events, Read)' = {}
    BY <2>3 DEF Expanded
  <2>5. Cardinality({}) = 0
    BY FS_EmptySet
  <2>6. RefusedWhenTooLarge'
    BY <2>1 DEF RefusedWhenTooLarge
  <2> QED
    BY <2>1, <2>3, <2>4, <2>5, <2>6 DEF Spent
<1>2. CASE Overrun
  BY <1>2, SpentOverrun
<1>3. CASE Serialize
  BY <1>3, SpentSerialize
<1>4. ASSUME NEW i \in Ids, ListDocument(i) \/ ExportDocument(i)
      PROVE  Spent'
  <2>1. /\ Fetch(i) /\ UNCHANGED <<events, touched, query>>
        /\ pc' # "413"
        /\ pc' = "read" =>
               /\ after' = after
               /\ query.kind = "list" => selected' = selected \cup ItemsOf(i)
    BY <1>4 DEF ListDocument, ExportDocument, Fetch, answer
  <2> QED
    BY <2>1, SpentRead
<1>5. CASE LastPage \/ ReadFails
  BY <1>5 DEF LastPage, ReadFails, Spent, RefusedWhenTooLarge
<1>6. ASSUME NEW i \in Ids, NEW d \in Documents \cup {None}, Write(i, d)
      PROVE  Spent'
  <2>1. touched' # {}
    BY <1>6 DEF Write
  <2> QED
    BY <2>1 DEF Spent, RefusedWhenTooLarge
<1>7. CASE UNCHANGED vars
  <2>1. /\ UNCHANGED <<events, touched, query, after, selected, position, scanned, spent, pc>>
    BY <1>7 DEF vars, request, answer
  <2>2. /\ Read' = Read /\ Ranged' = Ranged
        /\ Expanded(events, Read)' = Expanded(events, Read)
        /\ \A j : ItemsOf(j)' = ItemsOf(j)
    BY <2>1, SameCalendar DEF Read, Expanded
  <2>3. RefusedWhenTooLarge'
    BY <2>1, RefusalStays DEF Spent
  <2> QED
    BY <2>1, <2>2, <2>3 DEF Spent
<1> QED
  BY <1>1, <1>2, <1>3, <1>4, <1>5, <1>6, <1>7 DEF Next, Progress

(* While nobody writes, a request for a page is refused as too large only at *)
(* a document past a limit that the page cannot be cut before, counted from *)
(* the request's own cursor, and an export only for its selection: each    *)
(* request has the whole budget, spends it on what it reads, and reads no  *)
(* further than its page needs (listCalendarOccurrences, exportCalendar,   *)
(* serializeCalendar).                                                     *)
THEOREM RefusalsAreForSize ==
    Spec => []RefusedWhenTooLarge
<1>1. Init => Spent
  BY DEF Init, Spent, RefusedWhenTooLarge
<1>2. ReadsInv /\ Taken /\ Spent /\ [Next]_vars => Spent'
  BY SpentNext
<1>3. Spent => RefusedWhenTooLarge
  BY DEF Spent
<1> QED
  BY <1>1, <1>2, <1>3, ReadsInvariant, TakenInit, TakenNext, PTL DEF Spec

=============================================================================
