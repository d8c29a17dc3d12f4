SPECIFICATION Spec
CONSTANTS
    Node <- MCNodes
    Edge <- MCEdges
    None = None
    EdgeCount = 15
    Graphs <- MCGraphs
INVARIANTS
    NothingLost
    RangesExact
    EndsDecode
    ArraysAligned
    RowsIdentify
    AnnoEdges
    FilesAgree
CHECK_DEADLOCK FALSE
