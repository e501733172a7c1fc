SPECIFICATION Spec
CONSTANTS
    Products = {p1}
    Handlers = {h1, h2}
    MaxQty = 1
    MaxStock = 2
    NoReading = NoReading
INVARIANT NeverOversold
