------------------------- MODULE EventWritesProofs -------------------------
(***************************************************************************)
(* What EventWrites guarantees for every set of owners, events, requests   *)
(* and stored calendars, and any number of failures.                       *)
(*                                                                         *)
(* The argument.  A transaction takes its snapshot before its lock, so a   *)
(* snapshot may be old (SnapshotFresh says when it is not: no commit of    *)
(* the same owner was recorded against it).  Passing the lock rules such a *)
(* commit out (LockFresh), and holding it rules out another before the     *)
(* transaction ends (LockHeld, LockExclusive).  What was decided on the    *)
(* snapshot is therefore right for the calendar it is committed to.        *)
(***************************************************************************)
EXTENDS EventWrites, CalendarTheorems

(* Past the lock and not yet ended. *)
Locked == {"operate", "commit"}
Running == {"lock"} \cup Locked

RequestSent == \A r \in Requests : pc[r] # "idle" => request[r] \in Inputs

OwnerEnsured ==
    \A r \in Requests :
        pc[r] \in {"begin"} \cup Running => request[r].owner \in coordination

LockHeld ==
    \A r \in Requests : pc[r] \in Locked => OwnerRecord(request[r].owner) \in writes[r]

LockExclusive == \A r, s \in Requests : r # s => writes[r] \cap writes[s] = {}

LockFresh ==
    \A r \in Requests : pc[r] \in Locked => OwnerRecord(request[r].owner) \notin stale[r]

OwnedBy(d, o) == d # None /\ d.owner = o

(* cal and the collection hold the same events of owner o. *)
Agrees(cal, o) ==
    \A i \in Ids : cal[i] # events[i] => ~OwnedBy(cal[i], o) /\ ~OwnedBy(events[i], o)

SnapshotFresh ==
    \A r \in Requests :
        pc[r] \in Running /\ OwnerRecord(request[r].owner) \notin stale[r]
            => Agrees(snapshot[r], request[r].owner)

SnapshotSound == \A r \in Requests : AllExpand(snapshot[r]) /\ NoClashes(snapshot[r])

StagedFromSnapshot ==
    \A r \in Requests :
        pc[r] = "commit" => staged[r] \in Results(request[r], r, snapshot[r])

(* The ID a request may still mint is in no calendar. *)
Unborn(r) == pc[r] \in {"idle"} \cup InFlight

NotYetMinted ==
    \A r \in Requests :
        Unborn(r) => events[r] = None /\ \A s \in Requests : snapshot[s][r] = None

IInv ==
    /\ TypeOK
    /\ RequestSent
    /\ OwnerEnsured
    /\ LockHeld
    /\ LockExclusive
    /\ LockFresh
    /\ SnapshotFresh
    /\ SnapshotSound
    /\ StagedFromSnapshot
    /\ NotYetMinted
    /\ StoredExpands
    /\ NoDoubleBooking

-----------------------------------------------------------------------------
LEMMA EmptyCalendar == IsCalendar(NoCalendar) /\ AllExpand(NoCalendar) /\ NoClashes(NoCalendar)
BY DEF NoCalendar, IsCalendar, AllExpand, NoClashes, Restricted

LEMMA RecordsDiffer ==
    \A o, p : /\ OwnerRecord(o) # EventRecord(p)
              /\ OwnerRecord(o) = OwnerRecord(p) => o = p
BY DEF OwnerRecord, EventRecord

LEMMA TargetIsId ==
    ASSUME NEW q \in Inputs, NEW r \in Requests
    PROVE  Target(q, r) \in Ids
BY InputsAssumption, RequestsAreIds DEF Target, IsRequest

LEMMA InitIInv == Init => IInv
<1> SUFFICES ASSUME Init PROVE IInv
  OBVIOUS
<1> USE DEF Init
<1>1. TypeOK
  <2>1. IsCalendar(events)
    BY StoredAssumption
  <2>2. \A r \in Requests : IsCalendar(snapshot[r])
    BY EmptyCalendar
  <2> QED
    BY <2>1, <2>2, BoundsAssumption DEF TypeOK, InFlight, Open, Records
<1>2. SnapshotSound
  BY EmptyCalendar DEF SnapshotSound
<1>3. StoredExpands /\ NoDoubleBooking
  BY StoredAssumption DEF StoredExpands, NoDoubleBooking
<1>4. NotYetMinted
  BY StoredAssumption, RequestsAreIds DEF NotYetMinted, NoCalendar
<1> QED
  BY <1>1, <1>2, <1>3, <1>4
     DEF IInv, RequestSent, OwnerEnsured, LockHeld, LockExclusive, LockFresh,
         SnapshotFresh, StagedFromSnapshot, Running, Locked

(* Actions that leave the calendar, the snapshots and the locks alone.     *)
LEMMA SubmitIInv ==
    ASSUME IInv, NEW r \in Requests, NEW q \in Inputs, Submit(r, q)
    PROVE  IInv'
<1> USE DEF Submit, Goto, calendarVars, planVars, txnVars
<1>1. TypeOK'
  BY DEF IInv, TypeOK, InFlight
<1>2. /\ request'[r] = q /\ pc'[r] = "ensure"
      /\ \A s \in Requests \ {r} : request'[s] = request[s] /\ pc'[s] = pc[s]
  BY DEF IInv, TypeOK
<1>3. RequestSent' /\ OwnerEnsured' /\ LockHeld' /\ LockExclusive' /\ LockFresh'
  BY <1>2 DEF IInv, RequestSent, OwnerEnsured, LockHeld, LockExclusive, LockFresh,
              Running, Locked
<1>4. SnapshotFresh' /\ SnapshotSound'
  BY <1>2 DEF IInv, SnapshotFresh, SnapshotSound, Agrees, Running, Locked
<1>5. StagedFromSnapshot' /\ NotYetMinted'
  BY <1>2 DEF IInv, StagedFromSnapshot, NotYetMinted, Unborn, InFlight
<1>6. StoredExpands' /\ NoDoubleBooking'
  BY DEF IInv, StoredExpands, NoDoubleBooking
<1> QED
  BY <1>1, <1>3, <1>4, <1>5, <1>6 DEF IInv

LEMMA RefuseBadCreateIInv ==
    ASSUME IInv, NEW r \in Requests, RefuseBadCreate(r)
    PROVE  IInv'
<1> USE DEF RefuseBadCreate, Goto, calendarVars, planVars, txnVars
<1>1. TypeOK'
  BY DEF IInv, TypeOK, Refusals
<1>2. /\ pc'[r] = "answered"
      /\ \A s \in Requests \ {r} : pc'[s] = pc[s]
  BY DEF IInv, TypeOK
<1>3. RequestSent' /\ OwnerEnsured' /\ LockHeld' /\ LockExclusive' /\ LockFresh'
  BY <1>2 DEF IInv, RequestSent, OwnerEnsured, LockHeld, LockExclusive, LockFresh,
              Running, Locked
<1>4. SnapshotFresh' /\ SnapshotSound'
  BY <1>2 DEF IInv, SnapshotFresh, SnapshotSound, Agrees, Running, Locked
<1>5. StagedFromSnapshot' /\ NotYetMinted'
  BY <1>2 DEF IInv, StagedFromSnapshot, NotYetMinted, Unborn, InFlight, Open
<1>6. StoredExpands' /\ NoDoubleBooking'
  BY DEF IInv, StoredExpands, NoDoubleBooking
<1> QED
  BY <1>1, <1>3, <1>4, <1>5, <1>6 DEF IInv

LEMMA EnsureOwnerIInv ==
    ASSUME IInv, NEW r \in Requests, EnsureOwner(r)
    PROVE  IInv'
<1> USE DEF EnsureOwner, Goto, calendarVars, planVars, txnVars
<1>1. TypeOK'
  <2>1. request[r].owner \in Owners
    BY InputsAssumption DEF IInv, RequestSent, IsRequest
  <2> QED
    BY <2>1 DEF IInv, TypeOK, InFlight
<1>2. /\ pc'[r] = "begin"
      /\ \A s \in Requests \ {r} : pc'[s] = pc[s]
  BY DEF IInv, TypeOK
<1>3. RequestSent' /\ OwnerEnsured' /\ LockHeld' /\ LockExclusive' /\ LockFresh'
  BY <1>2 DEF IInv, RequestSent, OwnerEnsured, LockHeld, LockExclusive, LockFresh,
              Running, Locked
<1>4. SnapshotFresh' /\ SnapshotSound'
  BY <1>2 DEF IInv, SnapshotFresh, SnapshotSound, Agrees, Running, Locked
<1>5. StagedFromSnapshot' /\ NotYetMinted'
  BY <1>2 DEF IInv, StagedFromSnapshot, NotYetMinted, Unborn, InFlight
<1>6. StoredExpands' /\ NoDoubleBooking'
  BY DEF IInv, StoredExpands, NoDoubleBooking
<1> QED
  BY <1>1, <1>3, <1>4, <1>5, <1>6 DEF IInv

(* A new snapshot is the collection itself. *)
LEMMA BeginIInv ==
    ASSUME IInv, NEW r \in Requests, Begin(r)
    PROVE  IInv'
<1> USE DEF Begin, Goto, calendarVars, planVars
<1>1. TypeOK'
  BY DEF IInv, TypeOK, InFlight, Open
<1>2. /\ pc'[r] = "lock" /\ snapshot'[r] = events
      /\ \A s \in Requests \ {r} : pc'[s] = pc[s] /\ snapshot'[s] = snapshot[s]
  BY DEF IInv, TypeOK
<1>3. RequestSent' /\ OwnerEnsured' /\ LockHeld' /\ LockExclusive' /\ LockFresh'
  BY <1>2 DEF IInv, RequestSent, OwnerEnsured, LockHeld, LockExclusive, LockFresh,
              Running, Locked
<1>4. SnapshotFresh'
  BY <1>2 DEF IInv, SnapshotFresh, Agrees, Running, Locked
<1>5. SnapshotSound'
  BY <1>2 DEF IInv, SnapshotSound, StoredExpands, NoDoubleBooking
<1>6. StagedFromSnapshot' /\ NotYetMinted'
  BY <1>2 DEF IInv, StagedFromSnapshot, NotYetMinted, Unborn, InFlight, Open
<1>7. StoredExpands' /\ NoDoubleBooking'
  BY DEF IInv, StoredExpands, NoDoubleBooking
<1> QED
  BY <1>1, <1>3, <1>4, <1>5, <1>6, <1>7 DEF IInv

(* Taking the lock: no other open transaction wrote the owner's record and *)
(* no commit since the snapshot did.                                       *)
LEMMA LockOwnerIInv ==
    ASSUME IInv, NEW r \in Requests, LockOwner(r)
    PROVE  IInv'
<1> DEFINE record == OwnerRecord(request[r].owner)
<1> USE DEF LockOwner, Goto, calendarVars, planVars
<1>1. request[r].owner \in Owners /\ request[r].owner \in coordination
  BY InputsAssumption DEF IInv, RequestSent, OwnerEnsured, Running, IsRequest
<1>2. /\ record \notin stale[r]
      /\ \A s \in Requests \ {r} : record \notin writes[s]
  BY <1>1 DEF WriteConflict
<1>3. TypeOK'
  BY <1>1 DEF IInv, TypeOK, InFlight, Open, Records
<1>4. /\ pc'[r] = "operate" /\ writes'[r] = {record}
      /\ \A s \in Requests \ {r} : pc'[s] = pc[s] /\ writes'[s] = writes[s]
  BY <1>1 DEF IInv, TypeOK
<1>5. RequestSent' /\ OwnerEnsured'
  BY <1>4 DEF IInv, RequestSent, OwnerEnsured, Running, Locked
<1>6. LockHeld' /\ LockExclusive' /\ LockFresh'
  BY <1>2, <1>4 DEF IInv, LockHeld, LockExclusive, LockFresh, Locked
<1>7. SnapshotFresh' /\ SnapshotSound'
  BY <1>4 DEF IInv, SnapshotFresh, SnapshotSound, Agrees, Running, Locked
<1>8. StagedFromSnapshot' /\ NotYetMinted'
  BY <1>4 DEF IInv, StagedFromSnapshot, NotYetMinted, Unborn, InFlight, Open
<1>9. StoredExpands' /\ NoDoubleBooking'
  BY DEF IInv, StoredExpands, NoDoubleBooking
<1> QED
  BY <1>3, <1>5, <1>6, <1>7, <1>8, <1>9 DEF IInv

(* Staging a result: a write takes the record of its event besides.        *)
LEMMA StageIInv ==
    ASSUME IInv, NEW r \in Requests, StageNothing(r) \/ StageWrite(r)
    PROVE  IInv'
<1> DEFINE record == EventRecord(Target(request[r], r))
<1> USE DEF StageNothing, StageWrite, Goto, calendarVars, planVars
<1>1. record \in Records
  BY TargetIsId DEF IInv, RequestSent, Records
<1>2. PICK result \in Results(request[r], r, snapshot[r]) :
          staged' = [staged EXCEPT ![r] = result]
  OBVIOUS
<1>3. \/ writes' = writes
      \/ /\ writes' = [writes EXCEPT ![r] = @ \cup {record}]
         /\ \A s \in Requests \ {r} : record \notin writes[s]
  BY DEF WriteConflict
<1>4. TypeOK'
  BY <1>1, <1>2, <1>3 DEF IInv, TypeOK, InFlight, Open
<1>5. /\ pc[r] = "operate" /\ pc'[r] = "commit" /\ staged'[r] = result
      /\ \A s \in Requests \ {r} :
            pc'[s] = pc[s] /\ writes'[s] = writes[s] /\ staged'[s] = staged[s]
      /\ writes[r] \subseteq writes'[r] /\ writes'[r] \subseteq writes[r] \cup {record}
      /\ record \in writes'[r] /\ record \notin writes[r] =>
            \A s \in Requests \ {r} : record \notin writes[s]
  BY <1>2, <1>3 DEF IInv, TypeOK
<1>6. RequestSent' /\ OwnerEnsured'
  BY <1>5 DEF IInv, RequestSent, OwnerEnsured, Running, Locked
<1>7. LockHeld' /\ LockExclusive' /\ LockFresh'
  <2>1. LockHeld' /\ LockFresh'
    BY <1>5 DEF IInv, LockHeld, LockFresh, Locked
  <2>2. \A s \in Requests \ {r} : writes'[r] \cap writes[s] = {}
    BY <1>5 DEF IInv, LockExclusive
  <2>3. LockExclusive'
    BY <1>5, <2>2 DEF IInv, LockExclusive
  <2> QED
    BY <2>1, <2>3
<1>8. SnapshotFresh' /\ SnapshotSound'
  BY <1>5 DEF IInv, SnapshotFresh, SnapshotSound, Agrees, Running, Locked
<1>9. StagedFromSnapshot' /\ NotYetMinted'
  BY <1>5 DEF IInv, StagedFromSnapshot, NotYetMinted, Unborn, InFlight, Open
<1>10. StoredExpands' /\ NoDoubleBooking'
  BY DEF IInv, StoredExpands, NoDoubleBooking
<1> QED
  BY <1>4, <1>6, <1>7, <1>8, <1>9, <1>10 DEF IInv

(* Ending a transaction without effect, however it came about.             *)
LEMMA AbortIInv ==
    ASSUME IInv, TypeOK', NEW r \in Requests, pc[r] \in InFlight,
           NEW label \in {"begin", "answered", "lost"}, Goto(r, label),
           label = "begin" => request[r].owner \in coordination,
           Abort(r), UNCHANGED <<calendarVars, planVars, coordination, request>>
    PROVE  IInv'
<1> USE DEF Goto, Abort, EndTransaction, calendarVars, planVars
<1>1. /\ pc'[r] = label /\ snapshot'[r] = NoCalendar /\ writes'[r] = {}
      /\ \A s \in Requests \ {r} :
            /\ pc'[s] = pc[s] /\ writes'[s] = writes[s] /\ staged'[s] = staged[s]
            /\ stale'[s] = stale[s] /\ snapshot'[s] = snapshot[s]
  BY DEF IInv, TypeOK
<1>2. RequestSent' /\ OwnerEnsured'
  BY <1>1 DEF IInv, RequestSent, OwnerEnsured, Running, Locked, InFlight, Open
<1>3. LockHeld' /\ LockExclusive' /\ LockFresh'
  BY <1>1 DEF IInv, LockHeld, LockExclusive, LockFresh, Locked
<1>4. SnapshotFresh'
  BY <1>1 DEF IInv, SnapshotFresh, Agrees, Running, Locked
<1>5. SnapshotSound'
  BY <1>1, EmptyCalendar DEF IInv, SnapshotSound
<1>6. StagedFromSnapshot'
  BY <1>1 DEF IInv, StagedFromSnapshot
<1>7. NotYetMinted'
  <2>1. \A s \in Requests : Unborn(s)' => Unborn(s)
    BY <1>1 DEF Unborn
  <2>2. \A s \in Requests : NoCalendar[s] = None
    BY RequestsAreIds DEF NoCalendar
  <2> QED
    BY <1>1, <2>1, <2>2 DEF IInv, NotYetMinted
<1>8. StoredExpands' /\ NoDoubleBooking'
  BY DEF IInv, StoredExpands, NoDoubleBooking
<1> QED
  BY <1>2, <1>3, <1>4, <1>5, <1>6, <1>7, <1>8 DEF IInv

LEMMA AbortTyped ==
    ASSUME IInv, NEW r \in Requests, NEW label \in {"begin", "answered", "lost"},
           Goto(r, label), Abort(r),
           UNCHANGED <<calendarVars, planVars, coordination, request>>,
           outcome' \in [Requests -> {0} \cup Accepted \cup Refusals],
           faults' \in 0 .. MaxFaults
    PROVE  TypeOK'
<1> USE DEF Goto, Abort, EndTransaction, calendarVars, planVars
<1>1. \A s \in Requests : IsCalendar(snapshot'[s])
  BY EmptyCalendar DEF IInv, TypeOK
<1>2. /\ DOMAIN snapshot' = Requests /\ DOMAIN staged' = Requests
      /\ writes' \in [Requests -> SUBSET Records]
      /\ stale' \in [Requests -> SUBSET Records]
      /\ pc' \in [Requests -> {"idle", "answered", "lost"} \cup InFlight]
  BY DEF IInv, TypeOK, InFlight
<1> QED
  BY <1>1, <1>2 DEF IInv, TypeOK

LEMMA EndedIInv ==
    ASSUME IInv, NEW r \in Requests,
           Refused(r) \/ Restart(r) \/ Transient(r) \/ GiveUp(r) \/ Reap(r)
    PROVE  IInv'
<1> USE DEF Fault
<1>1. CASE Refused(r)
  <2>1. outcome' \in [Requests -> {0} \cup Accepted \cup Refusals]
    BY <1>1 DEF Refused, IInv, TypeOK
  <2> QED
    BY <1>1, <2>1, AbortTyped, AbortIInv DEF Refused, InFlight, Open, IInv, TypeOK
<1>2. CASE Restart(r)
  <2>1. pc[r] \in Locked \cup {"lock"} /\ request[r].owner \in coordination
    BY <1>2 DEF Restart, IInv, OwnerEnsured, Running, Locked
  <2> QED
    BY <1>2, <2>1, AbortTyped, AbortIInv DEF Restart, InFlight, Open, IInv, TypeOK, Locked
<1>3. CASE Transient(r)
  <2>1. request[r].owner \in coordination
    BY <1>3 DEF Transient, IInv, OwnerEnsured, Running, Locked, Open
  <2>2. faults' \in 0 .. MaxFaults
    BY <1>3, BoundsAssumption DEF Transient, IInv, TypeOK
  <2> QED
    BY <1>3, <2>1, <2>2, AbortTyped, AbortIInv DEF Transient, InFlight, IInv, TypeOK
<1>4. CASE GiveUp(r)
  <2>1. faults' \in 0 .. MaxFaults
    BY <1>4, BoundsAssumption DEF GiveUp, IInv, TypeOK
  <2> QED
    BY <1>4, <2>1, AbortTyped, AbortIInv DEF GiveUp, IInv, TypeOK
<1>5. CASE Reap(r)
  BY <1>5, AbortTyped, AbortIInv DEF Reap, InFlight, Open, IInv, TypeOK
<1> QED
  BY <1>1, <1>2, <1>3, <1>4, <1>5

LEMMA CrashIInv ==
    ASSUME IInv, NEW r \in Requests, Crash(r)
    PROVE  IInv'
<1> USE DEF Crash, Goto, Fault, calendarVars, planVars, txnVars
<1>1. TypeOK'
  BY BoundsAssumption DEF IInv, TypeOK, InFlight, Open
<1>2. /\ pc'[r] = "orphaned" /\ pc[r] \in InFlight
      /\ \A s \in Requests \ {r} : pc'[s] = pc[s]
  BY DEF IInv, TypeOK, InFlight
<1>3. RequestSent' /\ OwnerEnsured' /\ LockHeld' /\ LockExclusive' /\ LockFresh'
  BY <1>2 DEF IInv, RequestSent, OwnerEnsured, LockHeld, LockExclusive, LockFresh,
              Running, Locked, InFlight, Open
<1>4. SnapshotFresh' /\ SnapshotSound'
  BY <1>2 DEF IInv, SnapshotFresh, SnapshotSound, Agrees, Running, Locked
<1>5. StagedFromSnapshot' /\ NotYetMinted'
  BY <1>2 DEF IInv, StagedFromSnapshot, NotYetMinted, Unborn, InFlight
<1>6. StoredExpands' /\ NoDoubleBooking'
  BY DEF IInv, StoredExpands, NoDoubleBooking
<1> QED
  BY <1>1, <1>3, <1>4, <1>5, <1>6 DEF IInv
-----------------------------------------------------------------------------
(* Commits *)

LEMMA RefusedOrWritten ==
    ASSUME NEW result, NEW q, NEW self, NEW cal, SoundResult(result, q, self, cal)
    PROVE  \/ ~result.write /\ result.status \in Refusals
           \/ /\ result.write
              /\ Due(result.status, q, cal)
              /\ result.doc # None =>
                    /\ IsDocument(result.doc) /\ Expandable(result.doc)
                    /\ result.doc.owner = q.owner
                    /\ Harmless(result.doc, Target(q, self), cal)
<1>1. CASE \E status \in Refusals : result = Refuse(status)
  <2>1. PICK status \in Refusals : result = Refuse(status)
    BY <1>1
  <2>2. result.write = FALSE /\ result.status = status
    BY <2>1 DEF Refuse
  <2> QED
    BY <2>2
<1>2. CASE ~\E status \in Refusals : result = Refuse(status)
  BY <1>2 DEF SoundResult
<1> QED
  BY <1>1, <1>2

(* What a transaction is about to commit is right for the collection as it *)
(* is now, not only for the snapshot it was computed from.                 *)
LEMMA StagedIsCurrent ==
    ASSUME IInv, NEW r \in Requests, pc[r] = "commit"
    PROVE  LET q == request[r]
               i == Target(q, r)
               result == staged[r]
           IN  /\ q \in Inputs /\ IsRequest(q) /\ i \in Ids
               /\ result.status \in Accepted \cup Refusals
               /\ result.write =>
                     /\ SoundResult(result, q, r, snapshot[r])
                     /\ q.op = "create" => i = r /\ events[i] = None
                     /\ q.op # "create" =>
                           /\ i = q.id /\ events[i] # None
                           /\ events[i] = snapshot[r][i]
                           /\ events[i].owner = q.owner /\ events[i].rev = q.rev
                           /\ \A s \in Requests : Unborn(s) => s # i
                     /\ result.doc # None =>
                           /\ IsDocument(result.doc) /\ Expandable(result.doc)
                           /\ result.doc.owner = q.owner
                           /\ Harmless(result.doc, i, events)
<1> DEFINE q == request[r]
           i == Target(q, r)
           result == staged[r]
<1>1. q \in Inputs /\ IsRequest(q) /\ i \in Ids
  BY InputsAssumption, TargetIsId DEF IInv, RequestSent
<1>2. Agrees(snapshot[r], q.owner)
  BY DEF IInv, SnapshotFresh, LockFresh, Locked, Running
<1>3. SoundResult(result, q, r, snapshot[r])
  <2>1. result \in Results(q, r, snapshot[r])
    BY DEF IInv, StagedFromSnapshot
  <2>2. IsCalendar(snapshot[r]) /\ AllExpand(snapshot[r]) /\ NoClashes(snapshot[r])
    BY DEF IInv, TypeOK, SnapshotSound
  <2> QED
    BY <1>1, <2>1, <2>2, ResultsAreSound
<1>4. result.status \in Accepted \cup Refusals
  <2>1. Due(result.status, q, snapshot[r]) => result.status \in Accepted
    BY DEF Due, Accepted
  <2> QED
    BY <1>3, <2>1, RefusedOrWritten
<1>5. ASSUME result.write
      PROVE  /\ Due(result.status, q, snapshot[r])
             /\ result.doc # None =>
                   /\ IsDocument(result.doc) /\ Expandable(result.doc)
                   /\ result.doc.owner = q.owner
                   /\ Harmless(result.doc, i, snapshot[r])
  BY <1>3, <1>5, RefusedOrWritten
<1>6. ASSUME q.op = "create"
      PROVE  i = r /\ events[i] = None
  BY <1>6 DEF Target, IInv, NotYetMinted, Unborn, InFlight, Open
<1>7. ASSUME result.write, q.op # "create"
      PROVE  /\ i = q.id /\ events[i] # None
             /\ events[i] = snapshot[r][i]
             /\ events[i].owner = q.owner /\ events[i].rev = q.rev
             /\ \A s \in Requests : Unborn(s) => s # i
  <2>1. i = q.id /\ OwnedBy(snapshot[r][i], q.owner) /\ snapshot[r][i].rev = q.rev
    BY <1>5, <1>7 DEF Due, Found, OwnedBy, Target
  <2>2. events[i] = snapshot[r][i]
    BY <1>1, <1>2, <2>1 DEF Agrees
  <2> QED
    BY <2>1, <2>2 DEF OwnedBy, IInv, NotYetMinted
<1>8. ASSUME result.write, result.doc # None
      PROVE  Harmless(result.doc, i, events)
  <2>1. \A j \in Ids : Restricted(events, j) /\ events[j].owner = q.owner
                           => events[j] = snapshot[r][j]
    BY <1>2 DEF Agrees, OwnedBy, Restricted
  <2> QED
    BY <1>5, <1>8, <2>1 DEF Harmless, Restricted
<1> QED
  BY <1>1, <1>3, <1>4, <1>5, <1>6, <1>7, <1>8

(* Committing: the collection stays sound, and every transaction that may  *)
(* have seen it too early learns of the owner's record.                    *)
LEMMA CommitIInv ==
    ASSUME IInv, NEW r \in Requests, CommitTransaction(r),
           NEW label \in {"answered", "lost"}, Goto(r, label), faults' \in 0 .. MaxFaults
    PROVE  IInv'
<1> DEFINE q == request[r]
           i == Target(q, r)
           result == staged[r]
<1> USE DEF Goto, planVars
<1>1. /\ pc[r] = "commit"
      /\ q \in Inputs /\ IsRequest(q) /\ i \in Ids
      /\ result.status \in Accepted \cup Refusals
  BY StagedIsCurrent DEF CommitTransaction
<1>2. ASSUME result.write
      PROVE  /\ SoundResult(result, q, r, snapshot[r])
             /\ events[i] # None => events[i].owner = q.owner
             /\ \A s \in Requests \ {r} : Unborn(s) => s # i
             /\ result.doc # None =>
                   /\ IsDocument(result.doc) /\ Expandable(result.doc)
                   /\ result.doc.owner = q.owner
                   /\ Harmless(result.doc, i, events)
  BY <1>1, <1>2, StagedIsCurrent
<1>3. /\ pc'[r] = label /\ snapshot'[r] = NoCalendar /\ writes'[r] = {}
      /\ request' = request /\ coordination' = coordination /\ plan' = plan
      /\ passes' = passes
      /\ \A s \in Requests \ {r} :
            /\ pc'[s] = pc[s] /\ writes'[s] = writes[s] /\ staged'[s] = staged[s]
            /\ snapshot'[s] = snapshot[s]
            /\ stale'[s] = IF pc[s] \in Open THEN stale[s] \cup writes[r] ELSE stale[s]
  BY DEF IInv, TypeOK, CommitTransaction, EndTransaction
<1>4. /\ \A j \in Ids : events'[j] = IF result.write /\ j = i THEN result.doc ELSE events[j]
      /\ events' = [j \in Ids |-> events'[j]]
  BY <1>1 DEF IInv, TypeOK, IsCalendar, CommitTransaction, Store, calendarVars
<1> HIDE DEF q, i, result
<1>5. TypeOK'
  <2>1. IsCalendar(events')
    BY <1>2, <1>4 DEF IInv, TypeOK, IsCalendar
  <2>2. /\ marker' \in [Ids -> {"pending", "planned", "retry"}]
        /\ planned' = [j \in Ids |-> planned'[j]]
    BY DEF IInv, TypeOK, CommitTransaction, Store, calendarVars
  <2>3. \A s \in Requests : IsCalendar(snapshot'[s])
    BY <1>3, EmptyCalendar DEF IInv, TypeOK
  <2>4. /\ DOMAIN snapshot' = Requests /\ DOMAIN staged' = Requests
        /\ writes' \in [Requests -> SUBSET Records]
        /\ stale' \in [Requests -> SUBSET Records]
    BY DEF IInv, TypeOK, CommitTransaction, EndTransaction
  <2>5. outcome' \in [Requests -> {0} \cup Accepted \cup Refusals]
    BY <1>1 DEF IInv, TypeOK, CommitTransaction, result
  <2>6. pc' \in [Requests -> {"idle", "answered", "lost"} \cup InFlight]
    BY DEF IInv, TypeOK
  <2> QED
    BY <1>3, <2>1, <2>2, <2>3, <2>4, <2>5, <2>6 DEF IInv, TypeOK
<1>6. RequestSent' /\ OwnerEnsured' /\ LockHeld' /\ LockExclusive'
  BY <1>1, <1>3 DEF IInv, RequestSent, OwnerEnsured, LockHeld, LockExclusive, Running, Locked
<1>7. LockFresh'
  <2> SUFFICES ASSUME NEW s \in Requests, pc'[s] \in Locked
               PROVE  OwnerRecord(request[s].owner) \notin stale'[s]
    BY <1>3 DEF LockFresh
  <2>1. s # r /\ pc[s] \in Locked
    BY <1>3 DEF Locked
  <2>2. /\ OwnerRecord(request[s].owner) \notin stale[s]
        /\ OwnerRecord(request[s].owner) \in writes[s]
    BY <2>1 DEF IInv, LockFresh, LockHeld
  <2>3. OwnerRecord(request[s].owner) \notin writes[r]
    BY <2>1, <2>2 DEF IInv, LockExclusive
  <2> QED
    BY <1>3, <2>1, <2>2, <2>3
<1>8. SnapshotFresh'
  <2> SUFFICES ASSUME NEW s \in Requests, pc'[s] \in Running,
                      OwnerRecord(request[s].owner) \notin stale'[s],
                      NEW j \in Ids, snapshot'[s][j] # events'[j]
               PROVE  /\ ~OwnedBy(snapshot'[s][j], request[s].owner)
                      /\ ~OwnedBy(events'[j], request[s].owner)
    BY <1>3 DEF SnapshotFresh, Agrees
  <2>1. s # r /\ pc[s] \in Running /\ pc[s] \in Open
    BY <1>3 DEF Running, Locked, Open
  <2>2. Agrees(snapshot[s], request[s].owner) /\ request[s].owner # q.owner
    <3>1. OwnerRecord(q.owner) \in writes[r]
      BY <1>1 DEF IInv, LockHeld, Locked, q
    <3> QED
      BY <1>3, <2>1, <3>1 DEF IInv, SnapshotFresh
  <2>3. CASE result.write /\ j = i
    <3>1. events'[j] = result.doc
      BY <1>4, <2>3
    <3>2. ~OwnedBy(events'[j], request[s].owner)
      BY <1>2, <2>2, <2>3, <3>1 DEF OwnedBy
    <3>3. ~OwnedBy(events[j], request[s].owner)
      BY <1>2, <2>2, <2>3 DEF OwnedBy
    <3>4. ~OwnedBy(snapshot[s][j], request[s].owner)
      BY <2>2, <3>3 DEF Agrees
    <3> QED
      BY <1>3, <2>1, <3>2, <3>4
  <2>4. CASE ~(result.write /\ j = i)
    BY <1>3, <1>4, <2>1, <2>2, <2>4 DEF Agrees
  <2> QED
    BY <2>3, <2>4
<1>9. SnapshotSound' /\ StagedFromSnapshot'
  BY <1>3, EmptyCalendar DEF IInv, SnapshotSound, StagedFromSnapshot
<1>10. NotYetMinted'
  <2>1. \A s \in Requests : Unborn(s)' => s # r /\ Unborn(s)
    BY <1>3 DEF Unborn, InFlight, Open
  <2>2. \A s \in Requests : NoCalendar[s] = None
    BY RequestsAreIds DEF NoCalendar
  <2> SUFFICES ASSUME NEW s \in Requests, Unborn(s)'
               PROVE  events'[s] = None /\ \A t \in Requests : snapshot'[t][s] = None
    BY DEF NotYetMinted
  <2>3. s # r /\ events[s] = None /\ \A t \in Requests : snapshot[t][s] = None
    BY <2>1 DEF IInv, NotYetMinted
  <2>4. events'[s] = None
    BY <1>2, <1>4, <2>1, <2>3, RequestsAreIds
  <2> QED
    BY <1>3, <2>2, <2>3, <2>4
<1>11. StoredExpands'
  BY <1>2, <1>4 DEF IInv, StoredExpands, AllExpand
<1>12. NoDoubleBooking'
  <2> SUFFICES ASSUME NEW j \in Ids, Restricted(events', j)
               PROVE  /\ ~SelfClash(events'[j])
                      /\ \A k \in Ids \ {j} :
                            Restricted(events', k) /\ events'[k].owner = events'[j].owner
                                => ~Clash(events'[j], events'[k])
    BY DEF NoDoubleBooking, NoClashes
  <2>1. CASE ~result.write
    BY <1>4, <2>1 DEF IInv, NoDoubleBooking, NoClashes, Restricted
  <2>2. CASE result.write /\ j = i
    BY <1>2, <1>4, <2>2 DEF Harmless, Restricted
  <2>3. CASE result.write /\ j # i
    <3>1. events'[j] = events[j] /\ Restricted(events, j)
      BY <1>4, <2>3 DEF Restricted
    <3>2. ~SelfClash(events[j])
      BY <3>1 DEF IInv, NoDoubleBooking, NoClashes
    <3> SUFFICES ASSUME NEW k \in Ids \ {j}, Restricted(events', k),
                        events'[k].owner = events[j].owner
                 PROVE  ~Clash(events[j], events'[k])
      BY <3>1, <3>2
    <3>3. CASE k = i
      BY <1>2, <1>4, <2>3, <3>1, <3>3, ClashSymmetric DEF Harmless, Restricted
    <3>4. CASE k # i
      BY <1>4, <3>1, <3>4 DEF IInv, NoDoubleBooking, NoClashes, Restricted
    <3> QED
      BY <3>3, <3>4
  <2> QED
    BY <2>1, <2>2, <2>3
<1> QED
  BY <1>5, <1>6, <1>7, <1>8, <1>9, <1>10, <1>11, <1>12 DEF IInv
-----------------------------------------------------------------------------
(* The planner *)

LEMMA PlanReadIInv ==
    ASSUME IInv, NEW i \in Ids, PlanRead(i)
    PROVE  IInv'
<1> USE DEF PlanRead, calendarVars, txnVars
<1>1. plan'.id = i /\ plan'.doc = events[i]
  OBVIOUS
<1>2. TypeOK'
  BY <1>1 DEF IInv, TypeOK, IsCalendar
<1>3. RequestSent' /\ OwnerEnsured' /\ LockHeld' /\ LockExclusive' /\ LockFresh'
  BY DEF IInv, RequestSent, OwnerEnsured, LockHeld, LockExclusive, LockFresh
<1>4. SnapshotFresh' /\ SnapshotSound'
  BY DEF IInv, SnapshotFresh, SnapshotSound, Agrees
<1>5. StagedFromSnapshot' /\ NotYetMinted'
  BY DEF IInv, StagedFromSnapshot, NotYetMinted, Unborn
<1>6. StoredExpands' /\ NoDoubleBooking'
  BY DEF IInv, StoredExpands, NoDoubleBooking
<1> QED
  BY <1>2, <1>3, <1>4, <1>5, <1>6 DEF IInv

(* An acknowledgement writes an event's record, never an owner's: it makes *)
(* no lock stale.                                                          *)
LEMMA PlanAckIInv ==
    ASSUME IInv, NEW failed \in BOOLEAN, PlanAck(failed)
    PROVE  IInv'
<1> USE DEF PlanAck
<1>1. plan.id \in Ids
  BY DEF IInv, TypeOK
<1>2. \/ stale' = stale
      \/ stale' = [r \in Requests |->
             IF pc[r] \in Open THEN stale[r] \cup {EventRecord(plan.id)} ELSE stale[r]]
  OBVIOUS
<1>3. TypeOK'
  <2>1. stale' \in [Requests -> SUBSET Records]
    BY <1>1, <1>2 DEF IInv, TypeOK, Records
  <2>2. /\ marker' \in [Ids -> {"pending", "planned", "retry"}]
        /\ planned' = [i \in Ids |-> planned'[i]]
    BY DEF IInv, TypeOK
  <2>3. passes' \in 0 .. MaxPasses
    BY BoundsAssumption DEF IInv, TypeOK
  <2> QED
    BY <2>1, <2>2, <2>3 DEF IInv, TypeOK
<1>4. \A r \in Requests : \A o :
          OwnerRecord(o) \in stale'[r] <=> OwnerRecord(o) \in stale[r]
  BY <1>2, RecordsDiffer DEF IInv, TypeOK
<1>5. RequestSent' /\ OwnerEnsured' /\ LockHeld' /\ LockExclusive'
  BY DEF IInv, RequestSent, OwnerEnsured, LockHeld, LockExclusive
<1>6. LockFresh'
  BY <1>4 DEF IInv, LockFresh
<1>7. SnapshotFresh' /\ SnapshotSound'
  BY <1>4 DEF IInv, SnapshotFresh, SnapshotSound, Agrees
<1>8. StagedFromSnapshot' /\ NotYetMinted'
  BY DEF IInv, StagedFromSnapshot, NotYetMinted, Unborn
<1>9. StoredExpands' /\ NoDoubleBooking'
  BY DEF IInv, StoredExpands, NoDoubleBooking
<1> QED
  BY <1>3, <1>5, <1>6, <1>7, <1>8, <1>9 DEF IInv

-----------------------------------------------------------------------------
LEMMA StutterIInv ==
    ASSUME IInv, UNCHANGED vars
    PROVE  IInv'
<1> USE DEF vars, calendarVars, planVars, txnVars
<1>1. TypeOK'
  BY DEF IInv, TypeOK
<1>2. RequestSent' /\ OwnerEnsured' /\ LockHeld' /\ LockExclusive' /\ LockFresh'
  BY DEF IInv, RequestSent, OwnerEnsured, LockHeld, LockExclusive, LockFresh
<1>3. SnapshotFresh' /\ SnapshotSound' /\ StagedFromSnapshot' /\ NotYetMinted'
  BY DEF IInv, SnapshotFresh, SnapshotSound, Agrees, StagedFromSnapshot, NotYetMinted, Unborn
<1>4. StoredExpands' /\ NoDoubleBooking'
  BY DEF IInv, StoredExpands, NoDoubleBooking
<1> QED
  BY <1>1, <1>2, <1>3, <1>4 DEF IInv

LEMMA StepIInv ==
    ASSUME IInv, [Next]_vars
    PROVE  IInv'
<1>1. CASE \E r \in Requests, q \in Inputs : Submit(r, q)
  BY <1>1, SubmitIInv
<1>2. CASE \E r \in Requests : Steps(r)
  <2>1. PICK r \in Requests : Steps(r)
    BY <1>2
  <2>2. CASE RefuseBadCreate(r) \/ EnsureOwner(r) \/ Begin(r) \/ LockOwner(r)
    BY <2>2, RefuseBadCreateIInv, EnsureOwnerIInv, BeginIInv, LockOwnerIInv
  <2>3. CASE StageNothing(r) \/ StageWrite(r)
    BY <2>3, StageIInv
  <2>4. CASE Refused(r) \/ Restart(r) \/ Reap(r)
    BY <2>4, EndedIInv
  <2>5. CASE Commit(r)
    BY <2>5, CommitIInv DEF Commit, IInv, TypeOK
  <2> QED
    BY <2>1, <2>2, <2>3, <2>4, <2>5 DEF Steps
<1>3. CASE \E r \in Requests : Failures(r)
  <2>1. PICK r \in Requests : Failures(r)
    BY <1>3
  <2>2. CASE CommitUnheard(r)
    <3>1. faults' \in 0 .. MaxFaults
      BY <2>2, BoundsAssumption DEF CommitUnheard, Fault, IInv, TypeOK
    <3> QED
      BY <2>2, <3>1, CommitIInv DEF CommitUnheard
  <2>3. CASE Transient(r) \/ GiveUp(r)
    BY <2>3, EndedIInv
  <2>4. CASE Crash(r)
    BY <2>4, CrashIInv
  <2> QED
    BY <2>1, <2>2, <2>3, <2>4 DEF Failures
<1>4. CASE Planner
  BY <1>4, PlanReadIInv, PlanAckIInv DEF Planner
<1>5. CASE UNCHANGED vars
  BY <1>5, StutterIInv
<1> QED
  BY <1>1, <1>2, <1>3, <1>4, <1>5 DEF Next

(* The inductive invariant holds in every behaviour. *)
THEOREM Invariance == Spec => []IInv
<1>1. Init => IInv
  BY InitIInv
<1>2. IInv /\ [Next]_vars => IInv'
  BY StepIInv
<1> QED
  BY <1>1, <1>2, PTL DEF Spec

(* Stored documents, staged results and locks keep their shapes.           *)
THEOREM TypeCorrect == Spec => []TypeOK
<1>1. IInv => TypeOK
  BY DEF IInv
<1> QED
  BY <1>1, Invariance, PTL

(* withEventWriteLock and assertNoEventConflict together exclude double    *)
(* bookings, for any number of owners, events, requests and failures.      *)
THEOREM NoDoubleBookings == Spec => []NoDoubleBooking
<1>1. IInv => NoDoubleBooking
  BY DEF IInv
<1> QED
  BY <1>1, Invariance, PTL

(* No request leaves a document that expandEvent would throw on.           *)
THEOREM StoredAlwaysExpands == Spec => []StoredExpands
<1>1. IInv => StoredExpands
  BY DEF IInv
<1> QED
  BY <1>1, Invariance, PTL

(* Taking the snapshot before the lock is safe: a holder of the lock reads *)
(* its owner's events as they are.                                         *)
THEOREM LockedSnapshotsAreCurrent == Spec => []LockedSnapshotCurrent
<1>1. IInv => LockedSnapshotCurrent
  <2> SUFFICES ASSUME IInv, NEW r \in Requests, pc[r] \in {"operate", "commit"},
                      NEW i \in Ids, snapshot[r][i] # events[i]
               PROVE  /\ events[i] # None => events[i].owner # request[r].owner
                      /\ snapshot[r][i] # None => snapshot[r][i].owner # request[r].owner
    BY DEF LockedSnapshotCurrent
  <2>1. Agrees(snapshot[r], request[r].owner)
    BY DEF IInv, SnapshotFresh, LockFresh, Locked, Running
  <2> QED
    BY <2>1 DEF Agrees, OwnedBy
<1> QED
  BY <1>1, Invariance, PTL

=============================================================================
