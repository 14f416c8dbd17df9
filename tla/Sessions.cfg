SPECIFICATION FairSpec
CONSTANTS
    Requests = {r1, r2}
    Ids = {s1, s2}
    Empty = Empty
    NoCookie = NoCookie
    None = None
    Unsent = Unsent
    Expiration = 2
INVARIANTS
    OwnSession
    ClientKnows
PROPERTIES
    GoneForGood
    ForgottenExpires
