\* integer avg over columns of up to 4 rows with sum in [-3, 3], frames up
\* to (2, 2).
CONSTANTS
    Nil = Nil
    Unwritten = Unwritten
    Pending = Pending
    Failed = Failed
    MaxCnt = 4
    FirstMarked = TRUE
    Vals <- MCVals
    Starts = {0, 1, 2}
    Ends = {0, 1, 2}
    AccMax = 3
SPECIFICATION Spec
INVARIANT TypeOK
PROPERTY ContractSafety
