SPECIFICATION FairSpec
CONSTANTS
    b1 = b1
    b2 = b2
    Bills = {b1}
    NoBill = NoBill
    Tipcard = Tipcard
PROPERTIES
    DismissedBillWindsDown
