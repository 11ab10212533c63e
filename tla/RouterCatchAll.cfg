CONSTANTS
    Chars <- AllChars
    Slash = "/"
    Routers <- RouterNames
    Root = "root"
    NoRouter = NoRouter
    Null = Null
    Methods <- MethodNames
    Tables <- CatchAllTables
    Requests <- PlainRequest
    MaxRequests = 1
    LoadsFail = FALSE
    api = "api"
    inner = "inner"
    get = "GET"
    post = "POST"

SPECIFICATION Spec
INVARIANT ResourceRestored

CHECK_DEADLOCK FALSE
