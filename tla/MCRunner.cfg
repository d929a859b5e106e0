SPECIFICATION FairRunnerSpec
CONSTANTS
    NGlobal = 2
    NKeys = 4
    Absent = "absent"
    ErrorText = "error text"
    NotSaved = "not saved"
    AnyValue = "xp"
    ScenarioValue = "scenario"
    Values <- MCValues
    Processes <- MCProcesses
    DataFiles <- MCDataFiles
    Detached <- MCDetached
    Jobs <- AllJobs
    Classes <- EXPERIMENTS
    ParamFiles <- RunnerFiles
    Kernels <- RunnerKernels
INVARIANTS
    ProgramInv
    RestoredAfterCompletion
    TmpFilesRemoved
    LaunchInv
PROPERTIES
    NetworkTornDown
    CleanRestores
CHECK_DEADLOCK FALSE
