SPECIFICATION Spec
CONSTANTS
    m1 = m1
    m2 = m2
    m3 = m3
    confirmed = confirmed
    packing = packing
    None = None
    Messages = {m1, m3}
    Malformed = {m3}
    Keys = {confirmed, packing}
    KeyOf <- TwoKeys
    Consumers = {c1}
    MaxLosses = 1
    Faults = {"mongo", "broker"}
INVARIANT DeadLettersKept
