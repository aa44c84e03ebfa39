\* Blocks of up to 3 instructions over one BAT variable, one slot past the
\* program, NULL or an owned instruction: the pass must return, and return
\* the program when it rewrites it.
CONSTANTS
    NV = 1
    Bats = {1}
    Keep = {}
    MaxStop = 3
    Slack = 1
    GarbageKinds = {"plain", "define"}
    StaleGc = FALSE
    Null = Null
    Unset = Unset
SPECIFICATION Spec
PROPERTY PassReturnsPlan
