\* The contract's bucket sizes for ntile, over the same inputs.
CONSTANTS
    Nil = Nil
    Unwritten = Unwritten
    Pending = Pending
    Failed = Failed
    MaxCnt = 5
    FirstMarked = FALSE
    TileVals = {1, 2, 3}
    Width = 8
SPECIFICATION Spec
INVARIANT NtileBalanced
