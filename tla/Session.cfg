CONSTANTS
    ann = ann
    bob = bob
    Clients = {ann, bob}
    Conns = {"a", "b1", "b2"}
    ClientOf <- Owners
    Ids = {0, 1, 2, 3, 4}
    Foreign = 0
    NoId = NoId
    None = None
    MaxRequests = 2

SPECIFICATION FairSpec
INVARIANTS TypeOK SessionsNotMixed OneConnectionKeepsAll AloneKeepsAll
PROPERTY CookieIsStored
CHECK_DEADLOCK FALSE
