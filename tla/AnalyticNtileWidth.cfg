\* ntile(1) and ntile(2) over a bte argument on a single partition of 256 or
\* 300 rows, against the tiles spec 4.3 fixes for an exact division.
CONSTANTS
    Nil = Nil
    Unwritten = Unwritten
    Pending = Pending
    Failed = Failed
    MaxCnt = 300
    FirstMarked = FALSE
    TileVals = {1, 2}
    Width = 8
    Inputs <- WideInputs
SPECIFICATION Spec
INVARIANT NtileExactTiles
