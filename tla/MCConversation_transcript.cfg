SPECIFICATION Spec
CONSTANTS
    Bots = {b1}
    FirstBots = {b1}
    ClientIds = {}
    NoId = NoId
    Requests = {r1, r2, r3, r4, r5}
    Kinds = {"send", "compact"}
    MaxCrashes = 1
SYMMETRY Interchangeable
INVARIANTS
    ReplyFollowsQuestion
    AnsweredOnce
    SegmentChain
    SummariesAccumulate
