---------------------------- MODULE StartupProofs ----------------------------
(***************************************************************************)
(* What a replica that listens may rely on, for any number of replicas,    *)
(* releases, users and failures.                                           *)
(***************************************************************************)
EXTENDS Startup, TLAPS

(* What each stage of a start has behind it. *)
Behind(r) ==
    /\ pc[r] \notin {"down", "hello"} => transactional
    /\ pc[r] \notin {"down", "hello", "event_write_owners"} => "event_write_owners" \in indexes
    /\ pc[r] \notin {"down", "hello", "event_write_owners", "uid"} => "uid" \in indexes
    /\ pc[r] \in {"validate", "seed", "ready"} => "listing" \in indexes

(* Who is not to be seeded any more has a profile; a start saves only what *)
(* it has found acceptable.                                                *)
Seeded(r) ==
    /\ pc[r] = "seed" => Acceptable(r)
    /\ pc[r] = "ready" => todo[r] = {}
    /\ pc[r] \in {"seed", "ready"} => \A u \in DOMAIN Release[r] \ todo[r] : profiles[u] # None

Shapes ==
    /\ DOMAIN todo = Replicas /\ DOMAIN seeding = Replicas
    /\ edited \in [Users -> Profiles \cup {None}]
    /\ ~AuthSkip => owners \subseteq Users

StartupInv ==
    /\ StartupTypeOK /\ Shapes
    /\ \A r \in Replicas : Behind(r) /\ Seeded(r)
    /\ CorrectionsLast /\ OwnersHaveProfiles

LEMMA StartupInit == Init => StartupInv
<1> SUFFICES ASSUME Init PROVE StartupInv
  OBVIOUS
<1> USE StartupAssumption DEF Init
<1>1. StartupTypeOK /\ Shapes
  BY DEF StartupTypeOK, Shapes, Starting
<1>2. \A r \in Replicas : Behind(r) /\ Seeded(r)
  BY DEF Behind, Seeded
<1> QED
  BY <1>1, <1>2 DEF StartupInv, CorrectionsLast, OwnersHaveProfiles

(* Profiles are added and corrected, never removed. *)
Kept == \A u \in Users : profiles[u] # None => profiles'[u] # None

(* A step of replica r may disturb what is said of r alone. *)
LEMMA OthersUndisturbed ==
    ASSUME NEW r \in Replicas, StartupInv, Kept,
           transactional => transactional', indexes \subseteq indexes',
           pc'[r] = pc[r], todo'[r] = todo[r]
    PROVE  Behind(r)' /\ Seeded(r)'
<1>1. Behind(r) /\ Seeded(r) /\ DOMAIN Release[r] \subseteq Users
  BY StartupAssumption DEF StartupInv
<1>2. Behind(r)'
  BY <1>1 DEF Behind
<1>3. Acceptable(r)' = Acceptable(r)
  BY DEF Acceptable
<1> QED
  BY <1>1, <1>2, <1>3 DEF Seeded, Kept

LEMMA FailInv ==
    ASSUME StartupInv, NEW r \in Replicas, GoesDown(r), UNCHANGED database
    PROVE  /\ StartupTypeOK' /\ (DOMAIN todo = Replicas /\ DOMAIN seeding = Replicas)'
           /\ \A q \in Replicas : Behind(q)' /\ Seeded(q)'
<1>1. StartupTypeOK /\ Shapes /\ DOMAIN pc = Replicas
  BY DEF StartupInv, StartupTypeOK
<1>2. /\ pc' = [pc EXCEPT ![r] = "down"] /\ todo' = [todo EXCEPT ![r] = {}]
      /\ seeding' = [seeding EXCEPT ![r] = None]
      /\ UNCHANGED <<transactional, indexes, profiles, owners>>
  BY DEF GoesDown, GoesTo, database
<1>3. StartupTypeOK' /\ (DOMAIN todo = Replicas /\ DOMAIN seeding = Replicas)'
  BY <1>1, <1>2 DEF StartupTypeOK, Shapes
<1>4. ASSUME NEW q \in Replicas PROVE Behind(q)' /\ Seeded(q)'
  <2>1. CASE q = r
    BY <1>1, <1>2, <2>1 DEF Behind, Seeded, Shapes
  <2>2. CASE q # r
    BY <1>1, <1>2, <2>2, OthersUndisturbed DEF Kept, Shapes
  <2> QED
    BY <2>1, <2>2
<1> QED
  BY <1>3, <1>4

(* A replica's own step, which leaves the database as it is.               *)
LEMMA OwnStep ==
    ASSUME StartupInv, NEW r \in Replicas, UNCHANGED <<database, history>>,
           \A q \in Replicas \ {r} : pc'[q] = pc[q] /\ todo'[q] = todo[q],
           StartupTypeOK', Shapes', Behind(r)', Seeded(r)'
    PROVE  StartupInv'
<1>1. \A q \in Replicas : Behind(q)' /\ Seeded(q)'
  BY OthersUndisturbed DEF Kept, database
<1>2. CorrectionsLast' /\ OwnersHaveProfiles'
  BY DEF StartupInv, CorrectionsLast, OwnersHaveProfiles, database, history
<1> QED
  BY <1>1, <1>2 DEF StartupInv

(* A step that only adds to the database, and moves no replica.            *)
LEMMA Written ==
    ASSUME StartupInv, Kept, transactional => transactional', indexes' = indexes,
           UNCHANGED <<pc, todo, seeding>>
    PROVE  \A q \in Replicas : Behind(q)' /\ Seeded(q)'
  BY OthersUndisturbed

LEMMA StartInv ==
    ASSUME StartupInv, NEW r \in Replicas, Start(r) \/ Hello(r)
    PROVE  StartupInv'
<1>1. StartupTypeOK /\ Shapes /\ DOMAIN pc = Replicas /\ Behind(r) /\ Seeded(r)
  BY DEF StartupInv, StartupTypeOK
<1>2. CASE UNCHANGED transactional /\ GoesDown(r) /\ UNCHANGED <<database, history>>
  <2>1. StartupTypeOK' /\ Shapes' /\ Behind(r)' /\ Seeded(r)'
    BY <1>1, <1>2, FailInv DEF Shapes, history, database
  <2>2. \A q \in Replicas \ {r} : pc'[q] = pc[q] /\ todo'[q] = todo[q]
    BY <1>1, <1>2 DEF GoesDown, GoesTo, Shapes
  <2> QED
    BY <1>2, <2>1, <2>2, OwnStep
<1>3. ASSUME NEW stage \in {"hello", "event_write_owners"}, GoesTo(r, stage),
             pc[r] \in {"down", "hello"}, stage # "hello" => transactional,
             UNCHANGED <<database, todo, seeding, history>>
      PROVE  StartupInv'
  <2>1. pc' = [pc EXCEPT ![r] = stage]
    BY <1>3 DEF GoesTo
  <2>2. StartupTypeOK' /\ Shapes'
    BY <1>1, <1>3, <2>1 DEF StartupTypeOK, Shapes, Starting, Indexes, database, history
  <2>3. Behind(r)' /\ Seeded(r)'
    BY <1>1, <1>3, <2>1 DEF Behind, Seeded, database
  <2> QED
    BY <1>1, <1>3, <2>1, <2>2, <2>3, OwnStep
<1> QED
  BY <1>2, <1>3 DEF Start, Hello, database

LEMMA CreateIndexInv ==
    ASSUME StartupInv, NEW r \in Replicas, CreateIndex(r)
    PROVE  StartupInv'
<1>1. StartupTypeOK /\ Shapes /\ DOMAIN pc = Replicas /\ Behind(r) /\ Seeded(r)
  BY DEF StartupInv, StartupTypeOK
<1>2. /\ pc' = [pc EXCEPT ![r] = NextStage[pc[r]]] /\ indexes' = indexes \cup {pc[r]}
      /\ UNCHANGED <<transactional, profiles, owners, todo, seeding, edited, edits, faults>>
  BY DEF CreateIndex, GoesTo, history
<1>3. \/ pc[r] = "event_write_owners" /\ NextStage[pc[r]] = "uid"
      \/ pc[r] = "uid" /\ NextStage[pc[r]] = "listing"
      \/ pc[r] = "listing" /\ NextStage[pc[r]] = "validate"
  BY DEF CreateIndex, NextStage, Indexes
<1>4. StartupTypeOK' /\ Shapes'
  BY <1>1, <1>2, <1>3 DEF StartupTypeOK, Shapes, Starting, Indexes
<1>5. ASSUME NEW q \in Replicas PROVE Behind(q)' /\ Seeded(q)'
  <2>1. CASE q = r
    BY <1>1, <1>2, <1>3, <2>1 DEF Behind, Seeded
  <2>2. CASE q # r
    BY <1>1, <1>2, <2>2, OthersUndisturbed DEF Kept
  <2> QED
    BY <2>1, <2>2
<1>6. CorrectionsLast' /\ OwnersHaveProfiles'
  BY <1>2 DEF StartupInv, CorrectionsLast, OwnersHaveProfiles
<1> QED
  BY <1>4, <1>5, <1>6 DEF StartupInv

LEMMA ValidateInv ==
    ASSUME StartupInv, NEW r \in Replicas, Validate(r)
    PROVE  StartupInv'
<1>1. StartupTypeOK /\ Shapes /\ DOMAIN pc = Replicas /\ Behind(r) /\ Seeded(r)
  BY DEF StartupInv, StartupTypeOK
<1>2. CASE Acceptable(r)
  <2>1. /\ pc' = [pc EXCEPT ![r] = "seed"] /\ todo' = [todo EXCEPT ![r] = DOMAIN Release[r]]
        /\ UNCHANGED <<database, seeding, history>> /\ pc[r] = "validate"
    BY <1>2 DEF Validate, GoesTo
  <2>2. StartupTypeOK' /\ Shapes'
    BY <1>1, <2>1 DEF StartupTypeOK, Shapes, Starting, Indexes, database, history
  <2>3. Behind(r)' /\ Seeded(r)'
    BY <1>1, <1>2, <2>1 DEF Behind, Seeded, Shapes, Acceptable, database
  <2> QED
    BY <1>1, <2>1, <2>2, <2>3, OwnStep DEF Shapes
<1>3. CASE ~Acceptable(r)
  <2>1. GoesDown(r) /\ UNCHANGED <<database, history>>
    BY <1>3 DEF Validate
  <2>2. StartupTypeOK' /\ Shapes' /\ Behind(r)' /\ Seeded(r)'
    BY <1>1, <2>1, FailInv DEF Shapes, history, database
  <2>3. \A q \in Replicas \ {r} : pc'[q] = pc[q] /\ todo'[q] = todo[q]
    BY <1>1, <2>1 DEF GoesDown, GoesTo, Shapes
  <2> QED
    BY <2>1, <2>2, <2>3, OwnStep
<1> QED
  BY <1>2, <1>3

LEMMA SeedInv ==
    ASSUME StartupInv, NEW r \in Replicas,
           (\E u \in Users : FindProfile(r, u)) \/ DuplicateKey(r) \/ Listen(r)
    PROVE  StartupInv'
<1>1. StartupTypeOK /\ Shapes /\ DOMAIN pc = Replicas /\ Behind(r) /\ Seeded(r)
  BY DEF StartupInv, StartupTypeOK
<1>2. pc[r] = "seed" /\ UNCHANGED <<database, history>>
  BY DEF FindProfile, DuplicateKey, Listen
<1>3. \/ \E u \in todo[r] : seeding' = [seeding EXCEPT ![r] = u] /\ UNCHANGED <<pc, todo>>
      \/ \E u \in Users : /\ profiles[u] # None /\ seeding[r] = None
                         /\ todo' = [todo EXCEPT ![r] = todo[r] \ {u}]
                         /\ UNCHANGED <<pc, seeding>>
      \/ seeding' = [seeding EXCEPT ![r] = None] /\ UNCHANGED <<pc, todo>>
      \/ todo[r] = {} /\ pc' = [pc EXCEPT ![r] = "ready"] /\ UNCHANGED <<todo, seeding>>
  BY DEF FindProfile, DuplicateKey, Listen, GoesTo
<1>4. StartupTypeOK'
  BY <1>1, <1>2, <1>3 DEF StartupTypeOK, Shapes, Starting, Indexes, database
<1>5. Shapes'
  BY <1>1, <1>2, <1>3 DEF Shapes, history, database
<1>6. Behind(r)' /\ Seeded(r)'
  BY <1>1, <1>2, <1>3 DEF Behind, Seeded, Shapes, Acceptable, database
<1>7. \A q \in Replicas \ {r} : pc'[q] = pc[q] /\ todo'[q] = todo[q]
  BY <1>1, <1>3 DEF Shapes
<1> QED
  BY <1>2, <1>4, <1>5, <1>6, <1>7, OwnStep

LEMMA InsertProfileInv ==
    ASSUME StartupInv, NEW r \in Replicas, InsertProfile(r)
    PROVE  StartupInv'
<1> DEFINE u == seeding[r]
<1>1. StartupTypeOK /\ Shapes /\ DOMAIN pc = Replicas /\ Behind(r) /\ Seeded(r)
  BY DEF StartupInv, StartupTypeOK
<1>2. /\ pc[r] = "seed" /\ u # None /\ profiles[u] = None
      /\ profiles' = [profiles EXCEPT ![u] = Release[r][u]]
      /\ todo' = [todo EXCEPT ![r] = todo[r] \ {u}] /\ seeding' = [seeding EXCEPT ![r] = None]
      /\ UNCHANGED <<transactional, indexes, owners, pc, edited, edits, faults>>
  BY DEF InsertProfile, history
<1>3. u \in DOMAIN Release[r] /\ u \in Users /\ Release[r][u] \in Profiles \ Malformed
  BY <1>1, <1>2, StartupAssumption DEF StartupTypeOK, Seeded, Acceptable
<1>4. StartupTypeOK'
  BY <1>1, <1>2, <1>3 DEF StartupTypeOK, Shapes
<1>5. Shapes'
  BY <1>1, <1>2 DEF Shapes
<1>6. Kept /\ profiles'[u] # None /\ \A v \in Users \ {u} : profiles'[v] = profiles[v]
  BY <1>1, <1>2, <1>3, StartupAssumption DEF Kept, StartupTypeOK
<1>7. ASSUME NEW q \in Replicas PROVE Behind(q)' /\ Seeded(q)'
  <2>1. CASE q = r
    BY <1>1, <1>2, <1>6, <2>1, StartupAssumption DEF Behind, Seeded, Acceptable, Kept, Shapes
  <2>2. CASE q # r
    BY <1>1, <1>2, <1>6, <2>2, OthersUndisturbed DEF Shapes
  <2> QED
    BY <2>1, <2>2
<1>8. CorrectionsLast'
  <2>1. edited[u] = None
    BY <1>1, <1>2, <1>3, StartupAssumption DEF StartupInv, CorrectionsLast, Shapes
  <2> QED
    BY <1>2, <1>6, <2>1 DEF StartupInv, CorrectionsLast
<1>9. OwnersHaveProfiles'
  <2>1. ~AuthSkip => owners \subseteq Users
    BY <1>1 DEF Shapes
  <2> QED
    BY <1>2, <1>6, <2>1 DEF StartupInv, OwnersHaveProfiles, Kept
<1> QED
  BY <1>4, <1>5, <1>7, <1>8, <1>9 DEF StartupInv

LEMMA RequestsInv ==
    ASSUME StartupInv, NEW r \in Replicas, NEW u \in Admitted(r), CreateEvent(r, u)
    PROVE  StartupInv'
<1>1. StartupTypeOK /\ Shapes /\ Behind(r) /\ Seeded(r)
  BY DEF StartupInv
<1>2. /\ pc[r] = "ready" /\ owners' = owners \cup {u}
      /\ UNCHANGED <<transactional, indexes, profiles, pc, todo, seeding, edited, edits, faults>>
  BY DEF CreateEvent, history
<1>3. IF AuthSkip THEN u = Anonymous ELSE u \in Users /\ profiles[u] # None
  BY <1>1, <1>2, StartupAssumption DEF Admitted, Seeded
<1>4. StartupTypeOK' /\ Shapes'
  BY <1>1, <1>2, <1>3 DEF StartupTypeOK, Shapes
<1>5. \A q \in Replicas : Behind(q)' /\ Seeded(q)'
  BY <1>2, Written DEF Kept
<1> QED
  BY <1>2, <1>3, <1>4, <1>5 DEF StartupInv, CorrectionsLast, OwnersHaveProfiles

LEMMA OperatorsInv ==
    ASSUME StartupInv, Initiate \/ \E u \in Users, p \in Profiles \ Malformed : Edit(u, p)
    PROVE  StartupInv'
<1>1. StartupTypeOK /\ Shapes
  BY DEF StartupInv
<1>2. CASE Initiate
  <2>1. /\ transactional' = TRUE
        /\ UNCHANGED <<indexes, profiles, owners, pc, todo, seeding, edited, edits, faults>>
    BY <1>2 DEF Initiate, history
  <2>2. StartupTypeOK' /\ Shapes'
    BY <1>1, <2>1 DEF StartupTypeOK, Shapes
  <2>3. \A q \in Replicas : Behind(q)' /\ Seeded(q)'
    BY <2>1, Written DEF Kept
  <2> QED
    BY <2>1, <2>2, <2>3 DEF StartupInv, CorrectionsLast, OwnersHaveProfiles
<1>3. ASSUME NEW u \in Users, NEW p \in Profiles \ Malformed, Edit(u, p)
      PROVE  StartupInv'
  <2>1. /\ profiles' = [profiles EXCEPT ![u] = p] /\ edited' = [edited EXCEPT ![u] = p]
        /\ p # None
        /\ UNCHANGED <<transactional, indexes, owners, pc, todo, seeding, faults>>
    BY <1>3, StartupAssumption DEF Edit
  <2>2. StartupTypeOK' /\ Shapes'
    BY <1>1, <2>1 DEF StartupTypeOK, Shapes
  <2>3. Kept
    BY <1>1, <2>1 DEF Kept, StartupTypeOK
  <2>4. \A q \in Replicas : Behind(q)' /\ Seeded(q)'
    BY <2>1, <2>3, Written
  <2>5. CorrectionsLast'
    BY <1>1, <2>1 DEF StartupInv, CorrectionsLast, StartupTypeOK, Shapes
  <2>6. OwnersHaveProfiles'
    BY <1>1, <2>1, <2>3 DEF StartupInv, OwnersHaveProfiles, Kept, Shapes
  <2> QED
    BY <2>2, <2>4, <2>5, <2>6 DEF StartupInv
<1> QED
  BY <1>2, <1>3

LEMMA StartupNext == StartupInv /\ [Next]_vars => StartupInv'
<1> SUFFICES ASSUME StartupInv, [Next]_vars PROVE StartupInv'
  OBVIOUS
<1>1. CASE UNCHANGED vars
  <2>1. StartupTypeOK' /\ Shapes'
    BY <1>1 DEF StartupInv, StartupTypeOK, Shapes, vars, database, history
  <2>2. \A q \in Replicas : Behind(q)' /\ Seeded(q)'
    BY <1>1, Written DEF Kept, vars, database
  <2> QED
    BY <1>1, <2>1, <2>2
    DEF StartupInv, CorrectionsLast, OwnersHaveProfiles, vars, database, history
<1>2. ASSUME NEW r \in Replicas, Start(r) \/ Steps(r) PROVE StartupInv'
  BY <1>2, StartInv, CreateIndexInv, ValidateInv, SeedInv, InsertProfileInv
  DEF Steps
<1>3. ASSUME NEW r \in Replicas, Fail(r) PROVE StartupInv'
  <2>1. GoesDown(r) /\ UNCHANGED <<database, edited>>
    BY <1>3 DEF Fail
  <2>2. StartupTypeOK' /\ Shapes' /\ \A q \in Replicas : Behind(q)' /\ Seeded(q)'
    BY <2>1, FailInv DEF Shapes, StartupInv, database
  <2> QED
    BY <2>1, <2>2 DEF StartupInv, CorrectionsLast, OwnersHaveProfiles, database
<1> QED
  BY <1>1, <1>2, <1>3, RequestsInv, OperatorsInv DEF Next

LEMMA StartupInvariant == Spec => []StartupInv
<1>1. Init => StartupInv
  BY StartupInit
<1>2. StartupInv /\ [Next]_vars => StartupInv'
  BY StartupNext
<1> QED
  BY <1>1, <1>2, PTL DEF Spec

(* StartupTypeOK of Startup, for every instance: nothing malformed is saved. *)
THEOREM StartsTypeCorrect == Spec => []StartupTypeOK
<1>1. StartupInv => StartupTypeOK
  BY DEF StartupInv
<1> QED
  BY <1>1, StartupInvariant, PTL

(* ListensWhenPrepared of Startup: a replica that listens has transactions,  *)
(* every index and the profiles of its users (onReady).                    *)
THEOREM ListenersArePrepared == Spec => []ListensWhenPrepared
<1>1. StartupInv => ListensWhenPrepared
  <2> SUFFICES ASSUME StartupInv, NEW r \in Replicas, pc[r] = "ready"
               PROVE  /\ transactional /\ indexes = Indexes
                      /\ \A u \in DOMAIN Release[r] : profiles[u] # None
    BY DEF ListensWhenPrepared
  <2>1. Behind(r) /\ Seeded(r) /\ indexes \subseteq Indexes
    BY DEF StartupInv, StartupTypeOK
  <2> QED
    BY <2>1 DEF Behind, Seeded, Indexes
<1> QED
  BY <1>1, StartupInvariant, PTL

(* CorrectionsLast of Startup: no start overwrites an address corrected in *)
(* the database (seedUserProfiles).                                        *)
THEOREM CorrectionsSurvive == Spec => []CorrectionsLast
<1>1. StartupInv => CorrectionsLast
  BY DEF StartupInv
<1> QED
  BY <1>1, StartupInvariant, PTL

(* OwnersHaveProfiles of Startup: whoever has events has a profile to be   *)
(* mailed at, whichever release took them (seedUserProfiles, deliver).     *)
THEOREM EveryOwnerHasProfile == Spec => []OwnersHaveProfiles
<1>1. StartupInv => OwnersHaveProfiles
  BY DEF StartupInv
<1> QED
  BY <1>1, StartupInvariant, PTL

=============================================================================
