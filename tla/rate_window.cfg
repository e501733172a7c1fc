SPECIFICATION LimiterSpec
CONSTANTS
    c1 = c1
    h1 = h1
    h2 = h2
    Clients = {c1}
    Handlers = {h1}
    Burst = 2
    TicksInSecond = 2
    MaxSecond = 1
    MaxFailures = 0
INVARIANT SlidingWindow
