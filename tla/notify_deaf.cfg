SPECIFICATION Spec
CONSTANTS
    m1 = m1
    m2 = m2
    m3 = m3
    confirmed = confirmed
    packing = packing
    None = None
    Messages = {m1, m2}
    Malformed = {}
    Keys = {confirmed, packing}
    KeyOf <- TwoKeys
    Consumers = {c1}
    MaxLosses = 1
    Faults = {"broker"}
INVARIANT PublishedWhileUp
