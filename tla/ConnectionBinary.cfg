CONSTANTS
    CR = "cr"
    LF = "lf"
    NUL = "nul"
    Chars <- AllChars
    RequestLines <- Lines
    ContentLengths <- Lengths
    Scripts <- BinaryScripts
    Responses <- StringResponses
    None = None
    Bulk = 3

SPECIFICATION Spec
INVARIANT PayloadAsSent
CHECK_DEADLOCK FALSE
