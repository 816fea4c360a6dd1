\* A file made anew under the name of a removed one is renamed.
SPECIFICATION Spec
CONSTANTS
    Paths <- MCPaths
    Trees <- MCTrees
    Contents = {"c1", "c2"}
    MaxOps = 3
    MaxHeads = 1
    RecreatedMoves = TRUE
    RenamedMovesOn = FALSE
    Conflicts = FALSE
PROPERTY OldNameIsFree
CHECK_DEADLOCK FALSE
