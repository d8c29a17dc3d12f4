SPECIFICATION Spec
CONSTANTS
    Func = {1, 2, 3, 4}
    Type <- MCType
    StructPtr <- MCStructPtr
    Name <- MCName
    Source <- MCSource
    Pointer = Pointer
    Constant = Constant
    Programs <- MCPrograms
INVARIANTS
    CallsCovered
    EdgesJustified
    CalleesAgree
    PathRight
PROPERTY Termination
CHECK_DEADLOCK FALSE
