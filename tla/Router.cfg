CONSTANTS
    Chars <- AllChars
    Slash = "/"
    Routers <- RouterNames
    Root = "root"
    NoRouter = NoRouter
    Null = Null
    Methods <- MethodNames
    Tables <- MountedTables
    Requests <- SomeRequests
    MaxRequests = 2
    LoadsFail = FALSE
    api = "api"
    inner = "inner"
    get = "GET"
    post = "POST"

SPECIFICATION FairSpec
INVARIANTS TypeOK OneResponse SeenBelowMounts NextRequestIsFramed CallbacksNest DispatchFollowsOrder
PROPERTIES RequestEnds ImplementsExchange
CHECK_DEADLOCK FALSE
