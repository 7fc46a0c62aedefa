CONSTANT
    ChanCapacity = 1
SPECIFICATION FairCopySpec
INVARIANTS
    HandedOver
PROPERTIES
    OnlyTaintsReplaced
    CopyReturns
