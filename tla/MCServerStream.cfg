SPECIFICATION FairSpec
CONSTANTS
  MaxOpens = 3
INVARIANTS TypeOK NoOrphan
PROPERTIES CancelEndsConnections
\* Every call may have returned and the last connection ended.
CHECK_DEADLOCK FALSE
