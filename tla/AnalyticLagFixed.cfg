\* lag, type-specialised kernel, same inputs.
CONSTANTS
    Nil = Nil
    Unwritten = Unwritten
    Pending = Pending
    Failed = Failed
    None = None
    MaxCnt = 4
    Vals = {1, 2}
    FirstMarked = TRUE
    Ops = {"lag"}
    Paths = {"fixed"}
    FixedOps = {"lag"}
    KVals = {0, 1, 2}
    AppendFails = FALSE
SPECIFICATION Spec
PROPERTY ContractSpec
