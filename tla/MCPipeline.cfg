SPECIFICATION Spec
CONSTANTS
    entry = entry
    var = var
    field = field
    note = note
    root = root
    below = below
    Requests <- MCRequests
    TreeEdges <- MCTreeEdges
    DataEdges <- MCDataEdges
    ControlEdges <- MCControlEdges
    LinkEdges <- MCLinkEdges
    Addressed <- MCAddressed
    Annotated = {note}
INVARIANTS
    ExportComplete
    OnceEach
    OnlyCdgFirstFails
CHECK_DEADLOCK FALSE
