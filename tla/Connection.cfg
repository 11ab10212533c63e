CONSTANTS
    CR = "cr"
    LF = "lf"
    NUL = "nul"
    Chars <- AllChars
    RequestLines <- Lines
    ContentLengths <- Lengths
    Scripts <- TextScripts
    Responses <- SomeResponses
    None = None
    Bulk = 3

SPECIFICATION FairSpec
INVARIANTS TypeOK LinesAsSent PayloadAsSent NextStartsAtRequest ResponseAsWritten
PROPERTY RequestIsAnswered
CHECK_DEADLOCK FALSE
