SPECIFICATION FairSpec
CONSTANTS
    d1 = d1
    d2 = d2
    d3 = d3
    g1 = g1
    g2 = g2
    col = col
    deck1 = deck1
    deck2 = deck2
    card1 = card1
    card2 = card2
    Devices = {d1, d2, d3}
    NoDevice = NoDevice
    Procs = {g1, g2}
    Entities = {col, deck1}
    TypeOf <- MCTypeOf
    Col = col
    CollectionIds = {"c1", "c2"}
    NoCollectionId = "none"
    CollectionOf <- OneStranger
    InitRows <- EmptyTables
    MaxBatchSize = 2
    Limit = 2
    MaxChanges = 2
    MaxUsn = 2
    MaxSid = 2
    SlowHandlers = FALSE
    StaleHandshake = FALSE
    Faults = FALSE
INVARIANT OneCollection
PROPERTY EveryRequestAnswered
CHECK_DEADLOCK FALSE
