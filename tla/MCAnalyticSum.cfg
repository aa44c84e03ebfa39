\* integer sum and prod over columns of up to 3 rows into an accumulator
\* of range [-3, 3], frames up to (1, 1).
CONSTANTS
    Nil = Nil
    Unwritten = Unwritten
    Pending = Pending
    Failed = Failed
    MaxCnt = 3
    FirstMarked = TRUE
    Vals <- MCVals
    Ops = {"sum", "prod", "fprod"}
    Starts = {0, 1}
    Ends = {0, 1}
    AccMax = 3
SPECIFICATION Spec
INVARIANT TypeOK
PROPERTY ContractSpec
