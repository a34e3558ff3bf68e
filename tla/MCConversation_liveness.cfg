SPECIFICATION FairSpec
CONSTANTS
    Bots = {b1}
    FirstBots = {b1}
    ClientIds = {x}
    NoId = NoId
    Requests = {r1, r2, r3}
    Kinds = {"create", "send", "retry", "compact", "delete"}
    MaxCrashes = 1
INVARIANTS
    OneAwaitingPerBot
    SlotHasTurn
PROPERTIES
    SlotIsFreed
