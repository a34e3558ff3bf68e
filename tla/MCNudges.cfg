SPECIFICATION MCSpec
CONSTANTS
    NoBot = NoBot
    b1 = b1
    t1 = t1
    t2 = t2
    Bots = {b1}
    Ticks = {t1, t2}
    Ping = t1
    Messages = {m1, m2}
    NoMessage = NoMessage
    DefaultLeadDays = 1
    InitProjects <- MCProjects
    OwnHealths = {"ok", "overdue"}
    FirstHealth = "ok"
    MaxFaults = 1
INVARIANTS RecordedWasTold NudgeHasTurn
PROPERTIES NewsArrives
CHECK_DEADLOCK FALSE
