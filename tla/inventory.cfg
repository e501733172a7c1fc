SPECIFICATION Spec
CONSTANTS
    m1 = m1
    m2 = m2
    m3 = m3
    apple = apple
    ghost = ghost
    None = None
    Messages = {m1, m2, m3}
    Malformed = {m3}
    Transient = {m2}
    Products = {apple}
    ProductOf <- AllApples
    ChangeOf <- Changes
    InitStock <- OneEach
    Consumers = {c1, c2}
    MaxLosses = 1
    Faults = {"connLost", "crash", "db", "broker"}
SYMMETRY ConsumerSymmetry
INVARIANTS
    StockAccounted
    SomeGaugeCurrent
PROPERTIES
    UpdatesAtLeastOnce
