CONSTANTS
    Chars <- PathChars
    Slash = "/"
    Null = Null
    LowerCase <- Lower
    Digits <- DigitValues
    Alphabet <- SubjectAlphabet
    MaxPart <- SubjectMaxPart
    MaxText <- SubjectMaxText

SPECIFICATION Spec
INVARIANTS ParentMatchesBySegment MountingComposes LinksLeadToEntries HeaderAsWritten CookiesAsWritten AddressAsWritten RemovalKeepsOthers
CHECK_DEADLOCK FALSE
