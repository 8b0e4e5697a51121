CONSTANTS
    AddrStrings <- FamilyStrings
    MaxAddrLen = 5
SPECIFICATION Spec

INVARIANT JoinedList
CHECK_DEADLOCK FALSE
