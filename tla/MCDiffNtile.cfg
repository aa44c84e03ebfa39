\* Two-column PARTITION BY lists of up to 4 rows over two values and nil,
\* then ntile with 1-3 tiles or nil, with and without the boundary column, its
\* counters 4 bits wide.
CONSTANTS
    Nil = Nil
    Unwritten = Unwritten
    Pending = Pending
    Failed = Failed
    None = None
    MaxCnt = 4
    FirstMarked = TRUE
    Vals = {1, 2}
    Calls = 2
    TileVals = {1, 2, 3}
    Width = 4
SPECIFICATION Spec
INVARIANTS
    TypeOK
    DiffMarksGroupStarts
    NtileRestartsPerPartition
    NtileExactTiles
