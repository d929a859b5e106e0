SPECIFICATION Spec
CONSTANTS
    QUERY_SIZE = 5
    HEADER_SIZE = 2
    ID_SIZE = 1
    MIN_PAYLOAD_SIZE = 1
    MAX_PAYLOAD_SIZE = 2
    BUFFER_SIZE = 2
    RECV_SIZE = 6
    MAX_ID = 3
    MaxRequests = 5
CHECK_DEADLOCK FALSE
INVARIANTS CounterExact WindowBound OwnSendTime
