CONSTANTS
    NaN = NaN
    NoPart = NoPart
    Iters = {1, 2}
    Nums <- MCNums
    Nodes = {1, 2}
    Fns <- MCFnsNaN
SPECIFICATION Spec
INVARIANT XQuerySemantics
