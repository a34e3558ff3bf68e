CONSTANTS
    Repeating <- MCRepeating
    Openings <- MCOpenings
    Looks = {1, 26}
    PageLength <- MCPageLength
    Pages = 4
    MaxPeriods = 20
SPECIFICATION Paging
INVARIANTS
    PagesAreExact
    FireableIsShown
    ClockIsKept
CHECK_DEADLOCK FALSE
