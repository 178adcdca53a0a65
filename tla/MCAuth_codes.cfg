SPECIFICATION AuthSpec
CONSTANTS
    id1 = id1
    id2 = id2
    g1 = g1
    g2 = g2
    v1 = v1
    v2 = v2
    None = None
    Logins = {"ann"}
    Passwords = {"p1"}
    Ids = {id1, id2}
    Clients <- MCClients
    Uris = {"callback", "elsewhere"}
    UriOf <- MCUriOf
    Verifiers = {v1, v2}
    Challenges <- MCChallenges
    S256 <- MCS256
    Procs = {g1, g2}
    MaxAttempts = 2
    MaxCodes = 2
    Faults = TRUE
    LostReplies = TRUE
INVARIANTS
    OneTokenPerCode
    TokenAnswersGrant
SYMMETRY IdProcSymmetry
