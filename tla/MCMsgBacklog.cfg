SPECIFICATION Spec
CONSTANTS
    MSG_SIZE = 3
    RECV_SIZE = 6
    SOCKET_SIZES = {9}
    NB = 3
CHECK_DEADLOCK FALSE
INVARIANT AllHandled
