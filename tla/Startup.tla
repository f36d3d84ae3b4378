------------------------------- MODULE Startup -------------------------------
(***************************************************************************)
(* Several replicas of the API coming up on one database, each with the    *)
(* token table of its own release.  Before it accepts a request a replica  *)
(* checks that the database has transactions, creates the indexes and      *)
(* seeds a profile for every user of its table.  It holds no lock          *)
(* meanwhile: others start, fail and serve, and addresses are corrected in *)
(* the database.  A profile is one value; what the delivery worker needs   *)
(* of it is that there is one.                                             *)
(***************************************************************************)
EXTENDS Naturals

CONSTANTS
    Replicas,   \* API processes
    Release,    \* the token table each is deployed with: profiles by user ID
    Users,      \* user IDs
    Profiles,   \* profiles, well formed or not
    Malformed,  \* those that UserDocumentSchema refuses
    AuthSkip,   \* AUTH_SKIP
    Anonymous,  \* the user of all requests then
    None,       \* no profile
    MaxFaults,  \* a bound on failures
    MaxEdits    \* a bound on corrected addresses

Indexes == {"event_write_owners", "uid", "listing"}

ASSUME StartupAssumption ==
    /\ \A r \in Replicas :
          /\ DOMAIN Release[r] \subseteq Users
          /\ \A u \in DOMAIN Release[r] : Release[r][u] \in Profiles
    /\ Malformed \subseteq Profiles /\ None \notin Profiles
    /\ Anonymous \notin Users /\ AuthSkip \in BOOLEAN
    /\ MaxFaults \in Nat /\ MaxEdits \in Nat

VARIABLES
    transactional,  \* the database is a replica set
    indexes,        \* the indexes that exist
    profiles,       \* the users collection
    owners,         \* the owners of the events collection
    pc,             \* of each replica
    todo,           \* the users it has yet to seed
    seeding,        \* the user whose upsert found nothing, if any
    edited,         \* the correction made last to each profile
    edits, faults

database == <<transactional, indexes, profiles, owners>>
history == <<edited, edits, faults>>
vars == <<database, pc, todo, seeding, history>>

Starting == {"hello", "validate", "seed"} \cup Indexes

Init ==
    /\ transactional \in BOOLEAN
    /\ indexes = {} /\ owners = {}
    /\ profiles = [u \in Users |-> None]
    /\ pc = [r \in Replicas |-> "down"]
    /\ todo = [r \in Replicas |-> {}]
    /\ seeding = [r \in Replicas |-> None]
    /\ edited = [u \in Users |-> None]
    /\ edits = 0 /\ faults = 0

-----------------------------------------------------------------------------
(* One replica *)

GoesTo(r, stage) == pc' = [pc EXCEPT ![r] = stage]

(* onReady threw or the process died; its server never listens again.      *)
GoesDown(r) ==
    /\ GoesTo(r, "down")
    /\ todo' = [todo EXCEPT ![r] = {}]
    /\ seeding' = [seeding EXCEPT ![r] = None]

Start(r) ==
    /\ pc[r] = "down"
    /\ GoesTo(r, "hello")
    /\ UNCHANGED <<database, todo, seeding, history>>

(* Mutated: a standalone server is accepted. *)
HelloUnchecked(r) ==
    /\ pc[r] = "hello"
    /\ GoesTo(r, "event_write_owners")
    /\ UNCHANGED <<database, todo, seeding, history>>

Hello(r) ==
    /\ pc[r] = "hello"
    /\ IF transactional
       THEN GoesTo(r, "event_write_owners") /\ UNCHANGED <<todo, seeding>>
       ELSE GoesDown(r)
    /\ UNCHANGED <<database, history>>

NextStage == [event_write_owners |-> "uid", uid |-> "listing", listing |-> "validate"]

(* createIndex leaves an index that exists as it is. *)
CreateIndex(r) ==
    /\ pc[r] \in Indexes
    /\ indexes' = indexes \cup {pc[r]}
    /\ GoesTo(r, NextStage[pc[r]])
    /\ UNCHANGED <<transactional, profiles, owners, todo, seeding, history>>

(* Mutated: one well formed profile is enough. *)
AcceptableInPart(r) == \E u \in DOMAIN Release[r] : Release[r][u] \notin Malformed

(* Mutated: a profile that another release has saved is refused. *)
AcceptableIfSame(r) ==
    \A u \in DOMAIN Release[r] :
        Release[r][u] \notin Malformed /\ profiles[u] \in {None, Release[r][u]}

Acceptable(r) == \A u \in DOMAIN Release[r] : Release[r][u] \notin Malformed

(* Nothing is saved of a table with a malformed profile. *)
Validate(r) ==
    /\ pc[r] = "validate"
    /\ IF Acceptable(r)
       THEN GoesTo(r, "seed") /\ todo' = [todo EXCEPT ![r] = DOMAIN Release[r]] /\ UNCHANGED seeding
       ELSE GoesDown(r)
    /\ UNCHANGED <<database, history>>

(* The upsert of one profile.  $setOnInsert changes no document that       *)
(* exists; of two upserts that found none, one inserts.                    *)
FindProfile(r, u) ==
    /\ pc[r] = "seed" /\ seeding[r] = None /\ u \in todo[r]
    /\ IF profiles[u] = None
       THEN seeding' = [seeding EXCEPT ![r] = u] /\ UNCHANGED todo
       ELSE todo' = [todo EXCEPT ![r] = @ \ {u}] /\ UNCHANGED seeding
    /\ UNCHANGED <<database, pc, history>>

(* Mutated: $set, which the repeated upsert applies to what it finds.      *)
InsertOrSet(r) ==
    /\ pc[r] = "seed" /\ seeding[r] # None
    /\ profiles' = [profiles EXCEPT ![seeding[r]] = Release[r][seeding[r]]]
    /\ todo' = [todo EXCEPT ![r] = @ \ {seeding[r]}]
    /\ seeding' = [seeding EXCEPT ![r] = None]
    /\ UNCHANGED <<transactional, indexes, owners, pc, history>>

InsertProfile(r) ==
    /\ pc[r] = "seed" /\ seeding[r] # None /\ profiles[seeding[r]] = None
    /\ profiles' = [profiles EXCEPT ![seeding[r]] = Release[r][seeding[r]]]
    /\ todo' = [todo EXCEPT ![r] = @ \ {seeding[r]}]
    /\ seeding' = [seeding EXCEPT ![r] = None]
    /\ UNCHANGED <<transactional, indexes, owners, pc, history>>

(* Mutated: the error of a lost race ends the loop over the profiles.      *)
DuplicateEndsSeeding(r) ==
    /\ pc[r] = "seed" /\ seeding[r] # None /\ profiles[seeding[r]] # None
    /\ seeding' = [seeding EXCEPT ![r] = None]
    /\ todo' = [todo EXCEPT ![r] = {}]
    /\ UNCHANGED <<database, pc, history>>

(* The loser of the race.  The server repeats an upsert by _id itself; an  *)
(* error that reaches the loop all the same ends the start, as Fail does.  *)
DuplicateKey(r) ==
    /\ pc[r] = "seed" /\ seeding[r] # None /\ profiles[seeding[r]] # None
    /\ seeding' = [seeding EXCEPT ![r] = None]
    /\ UNCHANGED <<database, pc, todo, history>>

Listen(r) ==
    /\ pc[r] = "seed" /\ todo[r] = {}
    /\ GoesTo(r, "ready")
    /\ UNCHANGED <<database, todo, seeding, history>>

Steps(r) ==
    \/ Hello(r) \/ CreateIndex(r) \/ Validate(r)
    \/ \E u \in Users : FindProfile(r, u)
    \/ InsertProfile(r) \/ DuplicateKey(r) \/ Listen(r)

(* A call fails or the process is stopped, at any moment.                  *)
Fail(r) ==
    /\ pc[r] # "down" /\ faults < MaxFaults
    /\ GoesDown(r)
    /\ faults' = faults + 1
    /\ UNCHANGED <<database, edited, edits>>

-----------------------------------------------------------------------------
(* Requests and operators *)

(* The users a replica lets through: those of its own table. *)
Admitted(r) == IF AuthSkip THEN {Anonymous} ELSE DOMAIN Release[r]

CreateEvent(r, u) ==
    /\ pc[r] = "ready" /\ u \in Admitted(r)
    /\ owners' = owners \cup {u}
    /\ UNCHANGED <<transactional, indexes, profiles, pc, todo, seeding, history>>

(* rs.initiate, by the database's health check.                            *)
Initiate ==
    /\ ~transactional
    /\ transactional' = TRUE
    /\ UNCHANGED <<indexes, profiles, owners, pc, todo, seeding, history>>

(* A saved profile is corrected in the database; no request does so.       *)
Edit(u, p) ==
    /\ profiles[u] # None /\ edits < MaxEdits
    /\ profiles' = [profiles EXCEPT ![u] = p]
    /\ edited' = [edited EXCEPT ![u] = p]
    /\ edits' = edits + 1
    /\ UNCHANGED <<transactional, indexes, owners, pc, todo, seeding, faults>>

-----------------------------------------------------------------------------
Next ==
    \/ Initiate
    \/ \E r \in Replicas : Start(r) \/ Steps(r) \/ Fail(r)
    \/ \E r \in Replicas : \E u \in Admitted(r) : CreateEvent(r, u)
    \/ \E u \in Users, p \in Profiles \ Malformed : Edit(u, p)

Spec == Init /\ [][Next]_vars

FairSpec ==
    /\ Spec
    /\ WF_vars(Initiate)
    /\ \A r \in Replicas : WF_vars(Start(r)) /\ WF_vars(Steps(r))

-----------------------------------------------------------------------------
(* Properties *)

(* Every variable keeps its shape, and only well formed profiles are saved.  *)
StartupTypeOK ==
    /\ transactional \in BOOLEAN /\ indexes \subseteq Indexes
    /\ profiles \in [Users -> (Profiles \ Malformed) \cup {None}]
    /\ owners \subseteq Users \cup {Anonymous}
    /\ pc \in [Replicas -> Starting \cup {"down", "ready"}]
    /\ \A r \in Replicas :
          /\ todo[r] \subseteq DOMAIN Release[r]
          /\ seeding[r] # None => pc[r] = "seed" /\ seeding[r] \in todo[r]

(* A replica that listens has all it relies on: transactions for the write *)
(* lock, every index, and a profile for each user of its own table, however  *)
(* its start was interleaved with others of other releases (onReady).      *)
ListensWhenPrepared ==
    \A r \in Replicas : pc[r] = "ready" =>
        /\ transactional /\ indexes = Indexes
        /\ \A u \in DOMAIN Release[r] : profiles[u] # None

(* An address corrected in the database outlives every start, of whatever  *)
(* release, a race to seed it included (seedUserProfiles: "restarts must   *)
(* not overwrite saved addresses").                                        *)
CorrectionsLast == \A u \in Users : edited[u] # None => profiles[u] = edited[u]

(* With authentication on, whoever has events has a profile, so no delivery  *)
(* is given up for want of one (deliver: no user, DeliveryError(false)),   *)
(* even when the replica that took the event is of another release than    *)
(* those that run now.                                                     *)
OwnersHaveProfiles == ~AuthSkip => \A u \in owners : profiles[u] # None

(* Failures, lost races, a database not yet initiated and profiles saved by  *)
(* another release delay a well configured replica; it comes up and stays. *)
ReplicasComeUp ==
    \A r \in Replicas :
        (\A u \in DOMAIN Release[r] : Release[r][u] \notin Malformed) => <>[](pc[r] = "ready")

=============================================================================
