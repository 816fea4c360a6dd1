\* Three operations of the user and a change of HEAD, in any order.
SPECIFICATION Spec
CONSTANTS
    Paths <- MCPaths
    Trees <- MCTrees
    Contents = {"c1", "c2"}
    MaxOps = 3
    MaxHeads = 1
    RecreatedMoves = FALSE
    RenamedMovesOn = FALSE
    Conflicts = FALSE
PROPERTY ImplementsNamespace
CHECK_DEADLOCK FALSE
