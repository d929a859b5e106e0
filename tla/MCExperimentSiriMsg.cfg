SPECIFICATION Spec
CONSTANTS
    NGlobal = 2
    NKeys = 4
    Absent = "absent"
    ErrorText = "error text"
    NotSaved = "not saved"
    AnyValue = "xp"
    ScenarioValue = "scenario"
    Values <- MCValues
    Processes <- MCProcesses
    DataFiles <- MCDataFiles
    Classes <- OnlySiriMsg
    ParamFiles <- EverythingFile
    Kernels <- RunnerKernels
INVARIANT RestoresWhatWasPresent
CHECK_DEADLOCK FALSE
