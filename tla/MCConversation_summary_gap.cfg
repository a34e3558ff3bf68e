SPECIFICATION Spec
CONSTANTS
    Bots = {b1}
    FirstBots = {b1}
    ClientIds = {}
    NoId = NoId
    Requests = {r1, r2, r3}
    Kinds = {"send", "compact"}
    MaxCrashes = 0
SYMMETRY Interchangeable
INVARIANTS
    SummaryIsComplete
