SPECIFICATION Spec
CONSTANTS
    Bots = {b1, b2}
    FirstBots = {b1}
    ClientIds = {x}
    NoId = NoId
    Requests = {r1, r2, r3, r4}
    Kinds = {"create", "send", "retry", "compact"}
    MaxCrashes = 1
SYMMETRY Interchangeable
INVARIANTS
    TypeOK
    TurnHoldsSlot
PROPERTIES
    ImplementsSlots
