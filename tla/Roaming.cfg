SPECIFICATION Spec
CONSTANTS
    Msg = {1, 2, 3}
    Mine = {3}
    History <- MCHistory
    PageSize = 1
    MaxConns = 2
INVARIANTS
    
    
    NumberSticks

    
CHECK_DEADLOCK FALSE
