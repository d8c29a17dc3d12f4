SPECIFICATION Spec
CONSTANTS
    N = 4
    Block <- MCBlocks
    Root = 0
    Cfgs <- MCCfgs
INVARIANTS
    BranchDepsExact
    WalkMeetsEnd
CHECK_DEADLOCK FALSE
