CONSTANT Polls <- MCPolls
SPECIFICATION Spec
INVARIANTS
    TypeOK
    NoReceiptLeftOpen
    SuccessIsReal
    HonestFailure
    EndingAsAssumed
PROPERTY SessionEnds
