SPECIFICATION Spec
CONSTANTS
    Requests = {r1, r2}
    None = None
    Emails = {ann}
    Passwords = {pw1}
    TooLong = {}
    First72 <- First72Def
    TicksPerSecond = 1
    Lifetime = 1
    MaxClock = 1
    Faults = {"db"}
INVARIANT ConflictMeansTaken
