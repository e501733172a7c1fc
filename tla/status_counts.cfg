SPECIFICATION Spec
CONSTANTS
    NoOrder = NoOrder
    Orders = {o1}
    Handlers = {h1, h2}
    ItemCount = 2
    MaxReleases = 3
SYMMETRY HandlerSymmetry
INVARIANTS
    ReleasesBounded
    CancelReleasesOnce
    LastEventCurrent
