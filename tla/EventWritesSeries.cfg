SPECIFICATION Spec
CONSTANTS
    alice = alice
    bob = bob
    e1 = e1
    e2 = e2
    None = None
    Keep = Keep
    Defaulted <- Unspecified
    Owners = {alice, bob}
    Ids = {e1, e2, r1, r2}
    Requests = {r1, r2}
    Minutes = {1, 2}
    DefaultMinutes = {1, 2}
    DayLength = 2
    MaxSeriesDays = 8
    MaxOccurrences = 9
    MaxScanned = 5
    MaxExpanded = 20
    MaxFaults = 0
    MaxPasses = 2
    Inputs <- SeriesInputs
    StoredCalendars <- SeriesCalendars
INVARIANTS
    NoDoubleBooking
    StoredExpands
    PlannedIsCurrent
PROPERTY
    AtomicSpec
SYMMETRY RequestSymmetry
CHECK_DEADLOCK FALSE
