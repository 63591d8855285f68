CONSTANTS
    NumberValues <- MCNumberValues
    StringValues <- MCStringValues
    Tx = tx
    Undefined = undefined
    None = none
SPECIFICATION Spec
CHECK_DEADLOCK FALSE
INVARIANT ForwardsEverySetField
