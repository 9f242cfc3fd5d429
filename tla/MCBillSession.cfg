SPECIFICATION Spec
CONSTANTS
    b1 = b1
    b2 = b2
    Bills = {b1, b2}
    NoBill = NoBill
    Tipcard = Tipcard
SYMMETRY BillSymmetry
INVARIANTS
    TypeOK
    BillOnScreenIsLive
    ToastTellsTheTruth
    NeverSharedAndSettled
    QuestionIsOpen
