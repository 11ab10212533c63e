CONSTANTS
    Null = Null
    Pipelines <- SomePipelines
    Requests <- SomeRequests
    Methods <- MethodNames
    Resources <- Places
    Dotted <- DottedPlaces
    Credentials <- Passwords
    MaxRequests = 3
    MaxTime = 3
    IntValues = 8
    SizeValues = 16

SPECIFICATION Spec
INVARIANTS TypeOK LimitsHold GuardsHold HeadersOfRequest
CHECK_DEADLOCK FALSE
