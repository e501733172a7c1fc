SPECIFICATION Spec
CONSTANTS
    Products = {p1}
    Handlers = {h1, h2, h3}
    MaxQty = 2
    MaxStock = 2
    NoReading = NoReading
SYMMETRY HandlerSymmetry
INVARIANTS
    BoundedOversell
    SerialNeverOversold
    SerialGaugeCurrent
