\* nth_value on both paths, offsets 0..2, against spec 4.4.
CONSTANTS
    Nil = Nil
    Unwritten = Unwritten
    Pending = Pending
    Failed = Failed
    None = None
    AppendFails = FALSE
    MaxCnt = 4
    Vals = {1, 2}
    FirstMarked = FALSE
    ValueOps = {"nth"}
    Paths = {"fixed", "generic"}
    NthVals = {0, 1, 2}
SPECIFICATION Spec
INVARIANT NthValueAsSpecified
