SPECIFICATION FairSpec
CONSTANTS
    QUERY_SIZE = 7
    HEADER_SIZE = 2
    ID_SIZE = 1
    MIN_PAYLOAD_SIZE = 2
    MAX_PAYLOAD_SIZE = 4
    BUFFER_SIZE = 2
    RECV_SIZE = 7
    MAX_ID = 3
    MaxRequests = 5
CHECK_DEADLOCK FALSE
INVARIANTS InSync AlwaysAPacket SiriInv
PROPERTIES ImplementsRequestReply ClientEnds
