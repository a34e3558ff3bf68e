SPECIFICATION MCSpec
CONSTANTS
    s1 = s1
    s2 = s2
    Services = {s1, s2}
    Slots = {"inbox", "api", "direct"}
    Files = {f, g}
    Inboxed = {f}
    Nobody = Nobody
    MaxId = 4
    MaxDeaths = 1
    MaxDeletes = 1
INVARIANTS  DirsAreExclusive WipHasMachine
PROPERTIES  InboxDrains
CHECK_DEADLOCK FALSE
