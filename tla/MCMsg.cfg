SPECIFICATION FairSpec
CONSTANTS
    MSG_SIZE = 4
    RECV_SIZE = 5
    SOCKET_SIZES = {3, 16}
    NB = 4
CHECK_DEADLOCK FALSE
INVARIANTS CompleteUnlessKilled BytesAccounted MsgInv
PROPERTIES ImplementsRequestReply BothEnd
