SPECIFICATION Spec
CONSTANTS
    Beginnings <- MCBeginnings
    ItemArgs <- MCItemArgs
    MaxCalls = 2
INVARIANT TypeOK
 
PROPERTY OnePointPerEdit
 
PROPERTY GivenBack
PROPERTY OthersUntouched
PROPERTY SafeNameHits
CHECK_DEADLOCK FALSE
