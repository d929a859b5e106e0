SPECIFICATION Spec
CONSTANTS
    NGlobal = 2
    NKeys = 4
    Absent = "absent"
    ErrorText = "error text"
    NotSaved = "not saved"
    AnyValue = "xp"
    ScenarioValue = "scenario"
    Values <- MCValues
    Processes <- MCProcesses
    DataFiles <- MCDataFiles
    Classes <- EXPERIMENTS
    ParamFiles <- AllFiles
    Kernels <- AnyKernel
INVARIANTS
    TypeOK
    RestoredWhenDone
    RecordedBeforeChanged
    SysctlInv
    CleanedWhenDone
CHECK_DEADLOCK FALSE
