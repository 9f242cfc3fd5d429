SPECIFICATION FairSpec
CONSTANTS
  r1 = r1
  r2 = r2
  Receivers = {r1, r2}
  Nobody = Nobody
  Link = Link
  GivePolls = 2
  IntentPolls = 2
  MaxMail = 2
INVARIANTS TypeOK
PROPERTIES KeepsContract ScansEnd KeptUpIsGrabbed
\* The giver has ended and every receiver has the bill.
CHECK_DEADLOCK FALSE
