SPECIFICATION FairSpec
CONSTANTS
    api1 = api1
    api2 = api2
    api3 = api3
    alice = alice
    bob = bob
    first = first
    second = second
    corrected = corrected
    bad = bad
    None = None
    Anonymous = Anonymous
    AuthSkip = FALSE
    Replicas = {api1, api2, api3}
    Release <- Releases
    Users = {alice, bob}
    Profiles = {first, second, corrected, bad}
    Malformed = {bad}
    MaxFaults = 2
    MaxEdits = 1
INVARIANTS
    StartupTypeOK
    ListensWhenPrepared
    CorrectionsLast
    OwnersHaveProfiles
PROPERTY
    ReplicasComeUp
CHECK_DEADLOCK FALSE
