SPECIFICATION FairSpec
CONSTANTS
    alice = alice
    bob = bob
    None = None
    Keep = Keep
    Defaulted = Defaulted
    Owners = {alice, bob}
    Ids = {1, 2, 3}
    Minutes = {1}
    DefaultMinutes = {1}
    DayLength = 3
    MaxSeriesDays = 4
    MaxOccurrences = 3
    MaxScanned = 2
    MaxExpanded = 7
    Candidates <- TestCandidates
    Calendars <- TestCalendars
INVARIANTS
    ScanTypeOK
    ClashesFound
    VerdictAllowed
PROPERTIES
    ScanEnds
CHECK_DEADLOCK FALSE
