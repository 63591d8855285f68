CONSTANTS
    NumberValues <- MCNumberValues
    StringValues <- MCStringValues
    Tx = tx
    Undefined = undefined
    None = none
SPECIFICATION Spec
INVARIANT TypeOK
INVARIANT ForwardsOnlySetValues
CHECK_DEADLOCK FALSE
