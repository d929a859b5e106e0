SPECIFICATION Spec
CONSTANTS
    SortedKeys <- MCSortedKeys
    PathKeys <- MCPathKeys
    NetemKeys <- MCNetemKeys
    LinkOf <- MCLinkOf
    NoLink = NoLink
    ChangeNetem = "changeNetem"
    Yes = "yes"
    Values = {"yes", "10,20,4", "10,20,0", "1,loss", "2,loss"}
    LinkValues = {"10,20,4", "10,20,0"}
    ZeroValues = {"10,20,0"}
    ChangeValues = {"1,loss", "2,loss"}
    AtOf <- MCAtOf
    NoKey = NoKey
    Lines <- MCLines
    MaxLines = 4
CHECK_DEADLOCK FALSE
INVARIANTS LoadInv ChangesAreRecords SoundFilesLoad
