SPECIFICATION FairSpec
CONSTANTS
    alice = alice
    bob = bob
    None = None
    Keep = Keep
    Defaulted = Defaulted
    Owners = {alice, bob}
    Reader = alice
    Ids = {1, 2, 3}
    Minutes = {1}
    DefaultMinutes = {1}
    DayLength = 4
    SecondLength = 2
    MaxSeriesDays = 4
    MaxOccurrences = 3
    MaxScanned = 2
    MaxExpanded = 5
    ExportLimit = 2
    MaxComponents = 4
    RangeMaxDays = 4
    MaxWrites = 3
    Documents <- TestDocuments
    Calendars <- TestCalendars
    Queries <- TestQueries
INVARIANTS
    ReadsTypeOK
    UnwrittenListed
    ExportShowsCalendar
    RefusedWhenTooLarge
PROPERTIES
    PagesAdvance
    ReadingEnds
CHECK_DEADLOCK FALSE
