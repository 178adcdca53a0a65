\* Two spellings of a client and a malformed id, two goroutines, one change, faults.
SPECIFICATION CacheFairSpec
CONSTANTS
    NoValue = NoValue
    Garbage = Garbage
    r1 = r1
    c1 = c1
    c1x = c1x
    bad = bad
    Rows = {r1}
    ClientIds = {c1, c1x, bad}
    RowOf <- TwoSpellings
    Uris = {u1, u2}
    Procs = {g1, g2}
    MaxChanges = 1
    Faults = TRUE
INVARIANTS
    CacheTypeOK
    AnswersFromOwnRow
    MissesAreCurrent
PROPERTY
    ForgottenOnceExpired
