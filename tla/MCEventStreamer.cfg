SPECIFICATION FairSpec
CONSTANTS
  a = a
  b = b
  NoOwner = NoOwner
  Owners = {a, b}
  MaxOpens = 2
  MaxDue = 1
INVARIANTS TypeOK NotWedged OneStream
PROPERTIES KeepsOneStream LateCallbackSparesReplacement StreamComesBack
\* A stopped streamer may rest.
CHECK_DEADLOCK FALSE
