CONSTANTS
    NaN = NaN
    NoPart = NoPart
    Iters = {1, 2}
    Nums <- MCNums
    Nodes = {1, 2}
    Fns <- MCFns
SPECIFICATION Spec
INVARIANTS TypeOK XQuerySemantics NodesInFragments
