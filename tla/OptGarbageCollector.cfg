\* Blocks of up to 5 instructions over 2 BAT variables, one of them kept,
\* one slot past the program, a left-over GARBAGECONTROL bit on at most one instruction.
CONSTANTS
    NV = 2
    Bats = {1, 2}
    Keep = {2}
    MaxStop = 5
    Slack = 1
    GarbageKinds = {"plain"}
    StaleGc = TRUE
    Null = Null
    Unset = Unset
SPECIFICATION Spec
INVARIANTS TypeOK PlanPreserved NilAfterLastUse CollectedAtLastUse NoFreedInPlan
