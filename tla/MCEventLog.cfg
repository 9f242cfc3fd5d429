SPECIFICATION Spec
CONSTANTS
    Log <- SentSentDeleted
    MaxUpdate = 2
    PageSize = 1
    MaxCalls = 2
INVARIANTS
    TypeOK
    CursorsRunBehindRows
PROPERTIES
    RowsNeverRegress
CHECK_DEADLOCK FALSE
