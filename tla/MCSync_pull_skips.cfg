SPECIFICATION Spec
CONSTANTS
    d1 = d1
    d2 = d2
    d3 = d3
    g1 = g1
    g2 = g2
    col = col
    deck1 = deck1
    deck2 = deck2
    card1 = card1
    card2 = card2
    Devices = {d1}
    NoDevice = NoDevice
    Procs = {g1}
    Entities = {col, deck1, deck2, card1, card2}
    TypeOf <- MCTypeOf
    Col = col
    CollectionIds = {"c1"}
    NoCollectionId = "none"
    CollectionOf <- SameCollection
    InitRows <- FullTables
    MaxBatchSize = 1
    Limit = 1
    MaxChanges = 1
    MaxUsn = 5
    MaxSid = 1
    SlowHandlers = FALSE
    StaleHandshake = FALSE
    Faults = FALSE
INVARIANT NothingMissedBelowCursor
CHECK_DEADLOCK FALSE
