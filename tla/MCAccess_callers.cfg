\* Two users, two spellings of a client, an id that repeats, two requests at a
\* time, failing stores.
SPECIFICATION AccessFairSpec
CONSTANTS
    id1 = id1
    id2 = id2
    g1 = g1
    g2 = g2
    v1 = v1
    None = None
    Logins = {"ann", "bob"}
    Passwords = {"p1", "p2"}
    Ids = {id1}
    Clients = {"app", "APP"}
    Uris = {"callback"}
    UriOf <- MCUriOf
    Verifiers = {v1}
    Challenges <- MCChallenges
    S256 <- MCS256
    Procs = {g1}
    MaxAttempts = 2
    MaxCodes = 2
    Faults = TRUE
    LostReplies = FALSE
    Calls = {c1, c2}
INVARIANTS
    AccessTypeOK
    ActsForGrant
    CallersSignedIn
PROPERTIES
    EndedGrantStaysOut
    KeysNeverReplaced
    KeyHandlersEnd
