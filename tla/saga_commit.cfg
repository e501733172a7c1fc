SPECIFICATION Spec
CONSTANTS
    s1 = s1
    s2 = s2
    s3 = s3
    apple = apple
    bread = bread
    ghost = ghost
    Sagas = {s1, s2}
    Products = {apple, bread, ghost}
    Catalog = {apple, bread}
    Items <- CrossedItems
    MaxItems = 2
    InitStock <- CrossedStock
    MaxConcurrentSagas = 2
    MaxSends = 2
    Faults = {"commitUnknown"}
INVARIANT OrdersHaveTheirStock
