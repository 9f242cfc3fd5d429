SPECIFICATION StreamsSpec
CONSTANTS
  a = a
  b = b
  NoOwner = NoOwner
  Owners = {a, b}
  MaxOpens = 2
  MaxDue = 1
  MaxCalls = 2
SYMMETRY OwnerSymmetry
CONSTRAINT FewCallbacks
INVARIANTS SessionsTypeOK StrayStreamHasACause
PROPERTIES DrivesAKeeper
\* Every session may be over.
CHECK_DEADLOCK FALSE
