SPECIFICATION Spec
CONSTANTS
    Node = {1, 2, 3, 4}
    EdgeType = {"call", "data"}
    Graphs <- MCGraphs
INVARIANT AnswerRight
PROPERTY Termination
CHECK_DEADLOCK FALSE
