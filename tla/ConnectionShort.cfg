CONSTANTS
    CR = "cr"
    LF = "lf"
    NUL = "nul"
    Chars <- AllChars
    RequestLines <- Lines
    ContentLengths <- Lengths
    Scripts <- PlainScript
    Responses <- StringResponses
    None = None
    Bulk = 3

SPECIFICATION Spec
INVARIANT EntireStringWritten
CHECK_DEADLOCK FALSE
