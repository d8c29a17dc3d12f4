SPECIFICATION Spec
CONSTANTS
    fun1 = fun1
    fun2 = fun2
    glob1 = glob1
    glob2 = glob2
    Func <- MCFunc
    Global <- MCGlobal
    Inst <- MCInst
    Annotations = annotations
    Name <- MCName
    Label = {"RED", "BLUE"}
    None = none
    Modules <- MCModules
INVARIANTS
    LabelsExact
    StaticsRecognised
    CrashExact
CHECK_DEADLOCK FALSE
