SPECIFICATION Spec
CONSTANTS
    alice = alice
    bob = bob
    e1 = e1
    e2 = e2
    None = None
    Keep = Keep
    Defaulted <- Unspecified
    Owners = {alice, bob}
    Ids = {e1, e2, r1, r2, r3}
    Requests = {r1, r2, r3}
    Minutes = {1, 2}
    DefaultMinutes = {1, 2}
    DayLength = 2
    MaxSeriesDays = 8
    MaxOccurrences = 9
    MaxScanned = 1
    MaxExpanded = 20
    MaxFaults = 1
    MaxPasses = 0
    Inputs <- SingleInputs
    StoredCalendars <- SingleCalendars
INVARIANTS
    TypeOK
    NoDoubleBooking
    LockedSnapshotCurrent
    OneWinnerPerRevision
PROPERTY
    RevisionsStep
    AtomicSpec
SYMMETRY RequestSymmetry
CHECK_DEADLOCK FALSE
