SPECIFICATION Spec
CONSTANTS
    c1 = c1
    c2 = c2
    l1 = l1
    Calendars <- MCCalendars
    Lists <- MCLists
    AddressBook = book
    Ids = {i1, i2}
    Calls = {r1, r2}
    Contents <- MCContents
    Patches <- MCPatches
    Limit = 1
    None = None
    MaxUser = 2
    MaxFaults = 1
    MaxCalls = 2
SYMMETRY Symmetry
INVARIANTS
    ListIsFaithful
    AnswerFitsEffect
CHECK_DEADLOCK FALSE
