SPECIFICATION FairSpec
CONSTANTS
    LISTEN = 2
    MaxConnections = 4
CHECK_DEADLOCK FALSE
INVARIANTS JoinedOnce JoinIsShort ThreadsInv
PROPERTIES AlwaysAcceptsAgain FinishedAreJoined
