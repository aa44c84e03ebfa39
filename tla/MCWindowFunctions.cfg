\* count over columns of up to 4 rows with frames up to (2, 2); min and max
\* with frames up to (2, 1); first_value, last_value and nth_value with
\* nth == BUN_NONE, on the fixed-width path and on the generic path, whose
\* BUNappend may fail; lag and lead with offsets 0..2 and BUN_NONE, lead on
\* both paths and lag on the generic one.
CONSTANTS
    Nil = Nil
    Unwritten = Unwritten
    Pending = Pending
    Failed = Failed
    None = None
    AppendFails = TRUE
    MaxCnt = 4
    FirstMarked = TRUE
    Vals = {1, 2}
    Starts = {0, 1, 2}
    Ends = {0, 1, 2}
    MinMaxOps = {"min", "max"}
    MinMaxStarts = {0, 1, 2}
    MinMaxEnds = {0, 1}
    ValueOps = {"first", "last", "nth"}
    Paths = {"fixed", "generic"}
    NthVals = {}
    LagLeadOps = {"lag", "lead"}
    FixedOps = {"lead"}
    KVals = {0, 1, 2}
SPECIFICATION Spec
INVARIANTS
    TypeOK
    SpuriousNilsOnlyFromEmptyPartition
 
