SPECIFICATION Spec
CONSTANTS
    DIType <- MCTypes
    Val <- MCVals
    Null = Null
    MaxTreeDepth = 5
    Garbage = {0, 7}
    Inputs <- MCInputs
INVARIANTS
    WholeTrees
    SizesAgree
    AddrFollowsTypes
    FormalTreesAgree
PROPERTY Termination
CHECK_DEADLOCK FALSE
