-------------------------------- MODULE Siri --------------------------------
(***************************************************************************)
(* utils/SiriClient.java and one connection of utils/siri_server.py.  The  *)
(* client has two threads: the sender cuts each request of QUERY_SIZE      *)
(* bytes into packets and writes them, the receiver reads the responses.   *)
(* They share `counter', the bytes of the requests not answered yet, which *)
(* limits how far the sender may go.  The requests are one byte stream for *)
(* the server, which has to find them again in whatever pieces recv        *)
(* returns; the last byte of a request sent in several packets is a        *)
(* newline.                                                                *)
(*                                                                         *)
(* Bytes are counted, not kept: the stream is the number of bytes written, *)
(* and the set of the positions of the newlines in it.                     *)
(***************************************************************************)
EXTENDS Integers, FiniteSetsExt

CONSTANTS
    QUERY_SIZE,         \* bytes of a request
    HEADER_SIZE,        \* bytes of startString, up to its last "&"
    ID_SIZE,            \* bytes of the request's number, before its first "&"
    MIN_PAYLOAD_SIZE,
    MAX_PAYLOAD_SIZE,
    BUFFER_SIZE,        \* of the client: requests it may have outstanding
    RECV_SIZE,          \* BUFFER_SIZE of the server
    MAX_ID,             \* the client numbers its requests modulo MAX_ID
    MaxRequests         \* bound: the requests the client begins

ASSUME SizeAssumption ==
    /\ QUERY_SIZE \in Nat \ {0}
    /\ HEADER_SIZE \in 1..QUERY_SIZE
    /\ ID_SIZE \in Nat
    /\ MIN_PAYLOAD_SIZE \in Nat \ {0}
    /\ MAX_PAYLOAD_SIZE \in Nat
    /\ BUFFER_SIZE \in Nat
    /\ RECV_SIZE \in Nat \ {0}
    /\ MAX_ID \in Nat \ {0}
    /\ MaxRequests \in Nat

VARIABLES
    open,       \* the client's socket is open
    streams,    \* the receiver thread has set outputStream
    sender,     \* the sender thread: "sleep", "write", "count", or "dead"
    begun,      \* requests begun; messageId is begun % MAX_ID
    remain,     \* remainToBeSent
    packet,     \* bytesToSend
    sentTime,   \* for each id, the request whose time is in the array
    counter,
    unseen,     \* decrements of counter the sender may not have seen
    missed,     \* the sender skipped a turn
    written,    \* bytes in the stream
    lines,      \* the positions of its newlines
    server,     \* "recv", "sleep" before a response, or "closed"
    received,   \* bytes the server has read
    buffered,   \* length of buffer_data
    next,       \* length of next_buffer_data
    first,      \* first_data: the header is still to be parsed
    answered,   \* responses sent
    delivered   \* responses read by the receiver thread

clientVars == <<begun, remain, packet, sentTime, missed>>
serverVars == <<server, received, buffered, next, first, answered>>
vars == <<open, streams, sender, clientVars, counter, unseen, written, lines,
          serverVars, delivered>>

TypeOK ==
    /\ open \in BOOLEAN
    /\ streams \in BOOLEAN
    /\ sender \in {"sleep", "write", "count", "dead"}
    /\ begun \in Nat
    /\ remain \in Nat
    /\ packet \in Nat
    /\ sentTime \in [0..(MAX_ID - 1) -> Nat \cup {-1}]
    /\ counter \in Int
    /\ unseen \in Nat
    /\ missed \in BOOLEAN
    /\ written \in Nat
    /\ lines \subseteq Nat
    /\ server \in {"recv", "sleep", "closed"}
    /\ received \in Nat
    /\ buffered \in Nat
    /\ next \in Nat
    /\ first \in BOOLEAN
    /\ answered \in Nat
    /\ delivered \in Nat

(* The client has connected and started the sender thread.                 *)
Init ==
    /\ open = TRUE
    /\ streams = FALSE
    /\ sender = "sleep"
    /\ begun = 0
    /\ remain = 0
    /\ packet = 0
    /\ sentTime = [id \in 0..(MAX_ID - 1) |-> -1]
    /\ counter = 0
    /\ unseen = 0
    /\ missed = FALSE
    /\ written = 0
    /\ lines = {}
    /\ server = "recv"
    /\ received = 0
    /\ buffered = 0
    /\ next = 0
    /\ first = TRUE
    /\ answered = 0
    /\ delivered = 0

-----------------------------------------------------------------------------
(* The sender thread                                                       *)

(* Mutant: without the second case, too little may be left for the next    *)
(* packet.                                                                 *)
sizeOfNextPacketTwoCases(r) ==
    IF r < MIN_PAYLOAD_SIZE
    THEN {}
    ELSE IF r <= MAX_PAYLOAD_SIZE THEN {r} ELSE MIN_PAYLOAD_SIZE..MAX_PAYLOAD_SIZE

(* What sizeOfNextPacket can return.  It returns nothing, but throws, when *)
(* less than the minimum remains or when the range given to nextInt is     *)
(* empty; the thread then dies.                                            *)
sizeOfNextPacket(r) ==
    IF r < MIN_PAYLOAD_SIZE
    THEN {}
    ELSE IF r <= MAX_PAYLOAD_SIZE
    THEN {r}
    ELSE IF r - MAX_PAYLOAD_SIZE < MIN_PAYLOAD_SIZE
    THEN MIN_PAYLOAD_SIZE..(MAX_PAYLOAD_SIZE - MIN_PAYLOAD_SIZE)
    ELSE MIN_PAYLOAD_SIZE..MAX_PAYLOAD_SIZE

(* The header goes with the first packet, which is made larger for it.     *)
PacketSizes(r) ==
    IF r = QUERY_SIZE
    THEN {IF s < HEADER_SIZE THEN HEADER_SIZE ELSE s : s \in sizeOfNextPacket(r)}
    ELSE sizeOfNextPacket(r)

NextPacket(r) ==
    /\ remain' = r
    /\ IF PacketSizes(r) = {}
       THEN sender' = "dead" /\ packet' = 0
       ELSE sender' = "write" /\ packet' \in PacketSizes(r)

(* counter is read without the lock: the value may be older than the last  *)
(* decrements.                                                             *)
CounterReads == {counter + QUERY_SIZE * k : k \in 0..unseen}

(* A turn of the sender's loop after its sleep.  The time is over ...      *)
StopClient ==
    /\ open
    /\ sender = "sleep"
    /\ open' = FALSE
    /\ UNCHANGED <<streams, sender, clientVars, counter, unseen, written, lines,
                   serverVars, delivered>>

(* Mutants: room for one request more; the time is noted under the id of   *)
(* the next request.                                                       *)
BeginRequestWider ==
    /\ open
    /\ sender = "sleep"
    /\ begun < MaxRequests
    /\ \E c \in CounterReads : c <= QUERY_SIZE * (BUFFER_SIZE + 1)
    /\ sentTime' = [sentTime EXCEPT ![begun % MAX_ID] = begun]
    /\ begun' = begun + 1
    /\ NextPacket(QUERY_SIZE)
    /\ UNCHANGED <<open, streams, counter, unseen, missed, written, lines, serverVars,
                   delivered>>

BeginRequestLateTime ==
    /\ open
    /\ sender = "sleep"
    /\ begun < MaxRequests
    /\ \E c \in CounterReads : c <= QUERY_SIZE * BUFFER_SIZE
    /\ begun' = begun + 1
    /\ sentTime' = [sentTime EXCEPT ![begun' % MAX_ID] = begun]
    /\ NextPacket(QUERY_SIZE)
    /\ UNCHANGED <<open, streams, counter, unseen, missed, written, lines, serverVars,
                   delivered>>

(* ... or there is room in the window ...                                  *)
BeginRequest ==
    /\ open
    /\ sender = "sleep"
    /\ begun < MaxRequests
    /\ \E c \in CounterReads : c <= QUERY_SIZE * BUFFER_SIZE
    /\ sentTime' = [sentTime EXCEPT ![begun % MAX_ID] = begun]
    /\ begun' = begun + 1
    /\ NextPacket(QUERY_SIZE)
    /\ UNCHANGED <<open, streams, counter, unseen, missed, written, lines, serverVars,
                   delivered>>

(* ... or there is none.                                                   *)
MissTurn ==
    /\ open
    /\ sender = "sleep"
    /\ \E c \in CounterReads : c > QUERY_SIZE * BUFFER_SIZE
    /\ missed' = TRUE
    /\ UNCHANGED <<open, streams, sender, begun, remain, packet, sentTime, counter, unseen,
                   written, lines, serverVars, delivered>>

(* outputStream.write.  The newline is put at the end of the last packet   *)
(* by the loop that sends the packets after the first.                     *)
WritePacket ==
    /\ sender = "write"
    /\ streams
    /\ server # "closed"
    /\ written' = written + packet
    /\ lines' = IF packet = remain /\ remain # QUERY_SIZE
                THEN lines \cup {written + packet}
                ELSE lines
    /\ sender' = "count"
    /\ UNCHANGED <<open, streams, clientVars, counter, unseen, serverVars, delivered>>

(* The first write may come before the other thread has set outputStream:  *)
(* a NullPointerException ends the sender.                                 *)
WriteTooEarly ==
    /\ sender = "write"
    /\ ~streams
    /\ sender' = "dead"
    /\ UNCHANGED <<open, streams, clientVars, counter, unseen, written, lines, serverVars,
                   delivered>>

(* The server has closed the connection: the bytes are lost, and sooner or *)
(* later the write fails, which gives up the request unless it is at its   *)
(* first packet.                                                           *)
WriteInVain ==
    /\ sender = "write"
    /\ streams
    /\ server = "closed"
    /\ \/ sender' = "count" /\ UNCHANGED remain
       \/ remain # QUERY_SIZE /\ sender' = "sleep" /\ remain' = 0
    /\ UNCHANGED <<open, streams, begun, packet, sentTime, missed, counter, unseen, written,
                   lines, serverVars, delivered>>

(* Mutant: counter is updated without the lock.                            *)
CountPacketUnlocked ==
    /\ sender = "count"
    /\ \E c \in CounterReads : counter' = c + packet
    /\ unseen' = 0
    /\ IF packet < remain
       THEN NextPacket(remain - packet)
       ELSE sender' = "sleep" /\ remain' = 0 /\ UNCHANGED packet
    /\ UNCHANGED <<open, streams, begun, sentTime, missed, written, lines, serverVars,
                   delivered>>

(* remainToBeSent -= bytesToSend; counter += bytesToSend, under the lock.  *)
CountPacket ==
    /\ sender = "count"
    /\ counter' = counter + packet
    /\ unseen' = 0
    /\ IF packet < remain
       THEN NextPacket(remain - packet)
       ELSE sender' = "sleep" /\ remain' = 0 /\ UNCHANGED packet
    /\ UNCHANGED <<open, streams, begun, sentTime, missed, written, lines, serverVars,
                   delivered>>

-----------------------------------------------------------------------------
(* The receiver thread                                                     *)

OpenStreams ==
    /\ ~streams
    /\ streams' = TRUE
    /\ UNCHANGED <<open, sender, clientVars, counter, unseen, written, lines, serverVars,
                   delivered>>

(* readLine returns a response; its delay is added to delayTime.           *)
Deliver ==
    /\ open
    /\ streams
    /\ delivered < answered
    /\ delivered' = delivered + 1
    /\ counter' = counter - QUERY_SIZE
    /\ unseen' = unseen + 1
    /\ UNCHANGED <<open, streams, sender, clientVars, written, lines, serverVars>>

(* Once the server has closed the connection readLine may raise, and the   *)
(* receiver closes the socket on its way out.                              *)
ReceiverEnds ==
    /\ open
    /\ streams
    /\ server = "closed"
    /\ open' = FALSE
    /\ UNCHANGED <<streams, sender, clientVars, counter, unseen, written, lines,
                   serverVars, delivered>>

-----------------------------------------------------------------------------
(* The connection's thread in the server                                   *)

(* Mutant: what follows a newline is not put aside.                        *)
UsedAll(n) == n

(* The bytes recv returned that are used now: what follows a newline       *)
(* inside them is put aside, unless they end in a newline themselves.      *)
Used(n) ==
    LET inside == {p \in lines : received < p /\ p <= received + n}
    IN  IF inside # {} /\ received + n \notin lines THEN Min(inside) - received ELSE n

(* The first length bytes from the beginning of a request have the eight   *)
(* fields a header has: all of it, and not yet a field of the next header. *)
HasFields(length) == HEADER_SIZE <= length /\ length <= QUERY_SIZE + ID_SIZE

(* recv returns n bytes.  Nothing is parsed unless there are the fields of *)
(* one header; then the length of buffer_data is compared with the size    *)
(* the header announced.                                                   *)
Receive(n) ==
    LET length == buffered + Used(n)
    IN  /\ server = "recv"
        /\ n <= written - received
        /\ received' = received + n
        /\ buffered' = length
        /\ next' = next + n - Used(n)
        /\ IF first /\ ~HasFields(length)
           THEN UNCHANGED <<server, first>>
           ELSE /\ first' = FALSE
                /\ server' = IF length = QUERY_SIZE THEN "sleep"
                             ELSE IF length > QUERY_SIZE THEN "closed"
                             ELSE "recv"
        /\ UNCHANGED <<open, streams, sender, clientVars, counter, unseen, written, lines,
                       answered, delivered>>

ReceiveSome == \E n \in 1..RECV_SIZE : Receive(n)

(* Mutant: what was put aside is forgotten.                                *)
RespondForgets ==
    /\ server = "sleep"
    /\ answered' = answered + 1
    /\ first' = TRUE
    /\ buffered' = 0
    /\ next' = 0
    /\ server' = "recv"
    /\ UNCHANGED <<open, streams, sender, clientVars, counter, unseen, written, lines,
                   received, delivered>>

(* time.sleep, sendall, and what was put aside becomes the buffer.         *)
Respond ==
    /\ server = "sleep"
    /\ answered' = answered + 1
    /\ first' = TRUE
    /\ buffered' = next
    /\ next' = 0
    /\ server' = "recv"
    /\ UNCHANGED <<open, streams, sender, clientVars, counter, unseen, written, lines,
                   received, delivered>>

(* The client is gone: recv returns nothing, or recv or sendall raises.    *)
ServerEnds ==
    /\ ~open
    /\ server # "closed"
    /\ server' = "closed"
    /\ UNCHANGED <<open, streams, sender, clientVars, counter, unseen, written, lines,
                   received, buffered, next, first, answered, delivered>>

Next ==
    \/ StopClient \/ BeginRequest \/ MissTurn
    \/ WritePacket \/ WriteTooEarly \/ WriteInVain \/ CountPacket
    \/ OpenStreams \/ Deliver \/ ReceiverEnds
    \/ ReceiveSome \/ Respond \/ ServerEnds

Spec == Init /\ [][Next]_vars

(* The server's thread and the client's receiver are never kept from       *)
(* running, TCP delivers what was written, and the server's sleep ends.    *)
FairSpec ==
    /\ Spec
    /\ WF_vars(ReceiveSome) /\ WF_vars(Respond)
    /\ WF_vars(OpenStreams) /\ WF_vars(Deliver)

SenderStep == BeginRequest \/ WritePacket \/ WriteTooEarly \/ WriteInVain \/ CountPacket

(* ... nor is the client's sender; RUN_TIME is over at one of its turns.   *)
SenderFairness == WF_vars(SenderStep) /\ SF_vars(StopClient)

-----------------------------------------------------------------------------
(* What the two programs promise                                           *)

(* The parameters the defaults of SiriParameter satisfy and a parameter    *)
(* file may not: every packet size is possible, a request takes more than  *)
(* one packet, and one recv never spans more than a request.               *)
SoundParameters ==
    /\ HEADER_SIZE <= MIN_PAYLOAD_SIZE
    /\ 2 * MIN_PAYLOAD_SIZE <= MAX_PAYLOAD_SIZE
    /\ MAX_PAYLOAD_SIZE < QUERY_SIZE
    /\ RECV_SIZE <= QUERY_SIZE

(* However the requests are cut into packets and the packets into recvs,   *)
(* the server never takes the end of one request for a part of another: it *)
(* closes the connection only after the client did.                        *)
InSync == SoundParameters /\ open => server # "closed"

(* The assertion of sizeOfNextPacket never fails: a sender that has its    *)
(* streams can always cut the rest of a request into legal packets.        *)
AlwaysAPacket == SoundParameters /\ remain > 0 => PacketSizes(remain) # {}

(* A client stops when its time is over, whatever the server does, unless  *)
(* its sender has lost the race for the output stream at the first write:  *)
(* stopClient is called by the sender's thread alone, and later this has   *)
(* no exception to die of.                                                 *)
ClientEnds == SenderFairness => <>(~open \/ (sender = "dead" /\ written = 0))

(* Between two requests counter is the size of the requests that have no   *)
(* answer yet: no update of the two threads is lost, the receiver's        *)
(* decrement between a write and its own increment included.               *)
CounterExact ==
    sender = "sleep" /\ server # "closed" => counter = QUERY_SIZE * (begun - delivered)

(* The test of a stale counter lets at most BUFFER_SIZE + 1 requests be    *)
(* under way.                                                              *)
WindowBound == server # "closed" => begun - delivered <= BUFFER_SIZE + 1

(* The delay of a response is computed from the time of its own request:   *)
(* the entry of a request is not reused before its response is read.       *)
OwnSendTime ==
    BUFFER_SIZE < MAX_ID /\ server # "closed" =>
        \A m \in delivered..(begun - 1) : sentTime[m % MAX_ID] = m

(* The inductive invariant behind these properties.  First the sender: a   *)
(* packet is a part of what remains, and what it leaves can be sent.       *)
SenderInv ==
    /\ remain \in 0..QUERY_SIZE
    /\ sender = "sleep" => remain = 0
    /\ sender \in {"write", "count"} => packet \in 1..remain

RestInv ==
    SoundParameters =>
        /\ remain # 0 => remain >= MIN_PAYLOAD_SIZE
        /\ sender \in {"write", "count"} =>
            /\ packet < QUERY_SIZE
            /\ packet # remain => remain - packet >= MIN_PAYLOAD_SIZE

(* counter lacks exactly the bytes the sender has not counted yet.         *)
AccountInv ==
    server # "closed" =>
        /\ counter = QUERY_SIZE * (begun - delivered) - remain
        /\ begun - delivered <= BUFFER_SIZE + 1

(* The newlines are at the ends of the requests, and nowhere else.         *)
StreamInv ==
    SoundParameters /\ server # "closed" =>
        /\ written = QUERY_SIZE * begun - remain + (IF sender = "count" THEN packet ELSE 0)
        /\ lines = {p \in 1..written : \E k \in 1..begun : p = QUERY_SIZE * k}

(* The server has the beginning of one request in its buffer and nothing   *)
(* put aside, or one request and the beginning of the next.                *)
ServerInv ==
    SoundParameters /\ server # "closed" =>
        /\ received = QUERY_SIZE * answered + buffered + next
        /\ received <= written
        /\ server = "recv" => next = 0 /\ buffered < QUERY_SIZE
        /\ server = "sleep" => buffered = QUERY_SIZE /\ next < QUERY_SIZE

(* The client closes the connection between two requests.                 *)
CloseInv == SoundParameters /\ ~open => sender = "sleep"

SiriInv ==
    /\ SenderInv
    /\ RestInv
    /\ AccountInv
    /\ OwnSendTime
    /\ StreamInv
    /\ ServerInv
    /\ InSync
    /\ CloseInv

(* The requests written to their last byte.                                *)
Issued ==
    IF remain = 0 \/ (sender = "count" /\ packet >= remain) THEN begun ELSE begun - 1

RR == INSTANCE RequestReply WITH issued <- Issued, Window <- BUFFER_SIZE + 1

(* The two programs implement the abstract exchange of RequestReply: every *)
(* request is answered once, in order, within the window, and while the    *)
(* connection is open no request and no response is left lying.            *)
ImplementsRequestReply == RR!FairSpec
=============================================================================
