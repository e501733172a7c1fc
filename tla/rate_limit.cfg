SPECIFICATION LimiterSpec
CONSTANTS
    c1 = c1
    h1 = h1
    h2 = h2
    Clients = {c1}
    Handlers = {h1, h2}
    Burst = 1
    TicksInSecond = 1
    MaxSecond = 2
    MaxFailures = 1
INVARIANTS
    LimiterTypeOK
    WindowBounded
PROPERTY RefusedJustly
