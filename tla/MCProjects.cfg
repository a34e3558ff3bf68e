SPECIFICATION MCSpec
CONSTANTS
    NoBot = NoBot
    Bots = {b}
    CalendarNames = {"Personal", "Projects", "Other"}
    Automations = {"none", "fetch"}
    A = A
    B = B
    C = C
    ProjectNames = {A, B, C}
    ProjectLeads = {0, 2}
    DefaultLeadDays = 1
    NewFacts <- MCNewFacts
    FactPatches <- MCFactPatches
    EventPatches <- MCEventPatches
    CalendarPatches <- MCCalendarPatches
    Days = {1, 3}
    MaxProjects = 3
    MaxFacts = 2
    MaxCalendars = 2
    MaxEvents = 2
    MaxWrites = 4
INVARIANTS IsForest NothingDangles ShadowsAreExact HealthAnswersForSubtree
    LoudProjectsNameFacts
PROPERTIES AutomationNeedsExecutable
CHECK_DEADLOCK FALSE
