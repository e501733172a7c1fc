SPECIFICATION FairSpec
CONSTANTS
    s1 = s1
    s2 = s2
    s3 = s3
    apple = apple
    bread = bread
    ghost = ghost
    Sagas = {s1, s2}
    Products = {apple, bread, ghost}
    Catalog = {apple, bread}
    Items <- WaitingItems
    MaxItems = 2
    InitStock <- CrossedStock
    MaxConcurrentSagas = 1
    MaxSends = 2
    Faults = {"unavailable", "lostReply", "cancel", "orderDB", "brokerDown", "crash"}
INVARIANTS
    SlotsAccounted
    AnswerMatchesOrder
    OrdersHaveTheirStock
PROPERTY EveryRequestAnswered
