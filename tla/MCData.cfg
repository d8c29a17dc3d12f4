SPECIFICATION DataSpec
CONSTANTS
    NInst = 7
    f = f
    g = g
    arg = arg
    Func = {f, g}
    Opaque = {arg}
    None = None
    Programs <- MCPrograms
INVARIANTS
    AliasUnderApproximates
    AliasFollowsRaw
CHECK_DEADLOCK FALSE
