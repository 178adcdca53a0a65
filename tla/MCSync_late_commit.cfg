SPECIFICATION Spec
CONSTANTS
    d1 = d1
    d2 = d2
    d3 = d3
    g1 = g1
    g2 = g2
    col = col
    deck1 = deck1
    deck2 = deck2
    card1 = card1
    card2 = card2
    Devices = {d1, d2}
    NoDevice = NoDevice
    Procs = {g1,g2}
    Entities = {col, deck1}
    TypeOf <- MCTypeOf
    Col = col
    CollectionIds = {"c1", "c2"}
    NoCollectionId = "none"
    CollectionOf <- SameCollection
    InitRows <- EmptyTables
    MaxBatchSize = 2
    Limit = 2
    MaxChanges = 2
    MaxUsn = 3
    MaxSid = 3
    SlowHandlers = TRUE
    StaleHandshake = FALSE
    Faults = TRUE
INVARIANT EqualCursorsMeanEqualData
SYMMETRY AllSymmetry
