SPECIFICATION Spec
CONSTANTS
    Times <- MCTimes
    Cmds = {loss, wrong}
    BadCmds = {wrong}
    MaxChanges = 2
    MaxLate = 1
CHECK_DEADLOCK FALSE
INVARIANTS KeepsDelay
