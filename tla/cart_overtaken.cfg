SPECIFICATION CartSpec
CONSTANTS
    r1 = r1
    r2 = r2
    apple = apple
    bread = bread
    NoOrder = NoOrder
    Orders = {r1, r2}
    Products = {apple, bread}
    Items <- Baskets
    ItemCount = 2
    InitStock <- Shelves
    Handlers = {h1, h2}
    MaxReleases = 2
    MaxLosses = 1
    Messages <- Followed
SYMMETRY HandlerSymmetry
INVARIANTS
    LatestEventAlwaysCurrent
