SPECIFICATION Spec
CONSTANTS
    Size = 256
    Primitive = 285
    Payloads <- ShownPayloads
    Currencies <- AllCurrencies
    Misreads <- SomeMisreads
    MaxCodes = 2
    NoCode = NoCode
INVARIANTS
    TypeOK
    ReadsWhatIsShown
CHECK_DEADLOCK FALSE
