SPECIFICATION Spec
CONSTANTS
  Currencies = {eur, cad}
  Fx = {low, high}
  NoFx = NoFx
  MaxProofs = 3
  MaxFailures = 1
  MaxLaunches = 1
SYMMETRY Symmetry
PROPERTIES FreshestProof
\* The batches are used up, and nothing else has to happen.
CHECK_DEADLOCK FALSE
