SPECIFICATION FairSpec
CONSTANTS
  usdf = usdf
  a = a
  Mints = {usdf, a}
  Usdf = usdf
  Late = Late
  MaxCalls = 2
  MaxOpens = 2
  MaxDue = 1
INVARIANTS TypeOK RequestsTheSubscription NotWedged SettledFollowsApp
PROPERTIES WantedMintsAreServed
\* A streamer that was stopped for a logout may rest.
CHECK_DEADLOCK FALSE
