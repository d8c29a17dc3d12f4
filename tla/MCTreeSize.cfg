CONSTANTS
    fun1 = fun1
    fun2 = fun2
    glob = glob
    const = const
    indirect = indirect
    external = external
    Func <- MCFunc
    Inst <- MCInst
    Global = {glob}
    Opaque = {const}
    Indirect = indirect
    External = external
    Path = {"root", "object"}
    Root = "root"
    Parent <- MCParent
    Programs <- MCPrograms
    HeapGarbage = TRUE
SPECIFICATION Spec
INVARIANTS ArgumentsFlowIn
