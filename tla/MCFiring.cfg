SPECIFICATION FairSpec
CONSTANTS
    CalendarNames = {"Personal", "Projects", "Automations"}
    Automations = {"none", "a", "gone"}
    MaxCalendars = 5
    MaxEvents = 6
    Repo = {"a"}
    Scheduled = {"a"}
    UserEvents = {"a", "gone"}
    LastDay = 2
    MaxMishaps = 2
INVARIANTS BookedOnce
PROPERTIES EveryAutomationIsAsked
CHECK_DEADLOCK FALSE
