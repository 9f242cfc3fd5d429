SPECIFICATION SessionSpec
CONSTANTS
    b1 = b1
    b2 = b2
    x = x
    y = y
    c1 = c1
    Bills = {b1, b2}
    NoBill = NoBill
    Tipcard = Tipcard
    Amounts = {x, y}
    NoToast = NoToast
    Consumers = {c1}
    MaxToasts = 2
SYMMETRY SessionSymmetry
CONSTRAINT OneArrival
INVARIANTS
    ShowingIsTheScreen
    SpentToastsAreTrue
    ClearScreenHasAConsumer
CHECK_DEADLOCK FALSE
