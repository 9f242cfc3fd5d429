SPECIFICATION Spec
CONSTANTS
  a = a
  b = b
  NoOwner = NoOwner
  Owners = {a}
  MaxOpens = 2
  MaxDue = 1
PROPERTIES FreshLive
\* A stopped streamer may rest.
CHECK_DEADLOCK FALSE
