SPECIFICATION Spec
CONSTANTS
    Requests = {r1, r2, r3}
    None = None
    Emails = {ann, bob}
    Passwords = {pw1, pw2, pw3}
    TooLong = {pw3}
    First72 <- First72Def
    TicksPerSecond = 2
    Lifetime = 1
    MaxClock = 3
    Faults = {"db", "crash"}
SYMMETRY Symmetry
INVARIANTS
    RegistrationTruthful
    LoginTruthful
    AdmittedInTime
