CONSTANTS
    InitialTrees <- MCTrees
    NodeNames <- MCNodeNames
    PropNames <- MCPropNames
    CellValues <- MCCellValues
    RegValues <- MCRegValues

SPECIFICATION Spec

INVARIANT FindNodeIsFirstInOrder
INVARIANT FindParentIsParent
INVARIANT WriterEditMatchesInPlace
