CONSTANTS
    MinCashInOut = 1
    MaxCashInOut = 4
    MinPrice = 1
    MinMaxPrice = 2
    MaxPrice = 4
    MinQuantity = 1
    MaxQuantity = 3
    UnitCodes = {0, 2}
    TaxCodes = {1, 3}
    CashCode = 0
    ElectronicCode = 1
    NaN = NaN
    NoNumber = NoNumber
SPECIFICATION MCSpec
CHECK_DEADLOCK FALSE
INVARIANTS
    ImpexTypeOK
    ResponseTellsFirstError
    AcceptedExactlyWhenSound
    AcceptedReachesDriver
