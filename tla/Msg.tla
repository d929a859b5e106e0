-------------------------------- MODULE Msg ---------------------------------
(***************************************************************************)
(* utils/msg_client.py and one connection of utils/msg_server.py.  The     *)
(* client sends requests of a fixed size and, unless it is in bulk mode,   *)
(* waits for the response to one before it sends the next.  Nothing marks  *)
(* the end of a request: both sides count bytes.                           *)
(*                                                                         *)
(* Each direction of the connection holds a bounded number of bytes; a     *)
(* sendall that finds no room waits for the other side to read.            *)
(***************************************************************************)
EXTENDS Naturals

CONSTANTS
    MSG_SIZE,       \* --bytes of both programs
    RECV_SIZE,      \* BUFFER_SIZE of both programs
    SOCKET_SIZES,   \* what one direction of the connection may hold, in bytes
    NB              \* --nb, the requests of the client

ASSUME MsgAssumption ==
    /\ MSG_SIZE \in Nat \ {0}
    /\ RECV_SIZE \in Nat \ {0}
    /\ SOCKET_SIZES \subseteq Nat \ {0}
    /\ NB \in Nat

VARIABLES
    bulk,       \* --bulk
    room,       \* bytes each direction of the connection can hold
    client,     \* "sleep", "send", "recv", "finally" or "closed"
    unsent,     \* bytes of its request that sendall has still to write
    sent,       \* requests sent completely
    got,        \* length of the client's buffer_data
    delays,     \* length of the client's delays
    issue,      \* "An issue occured..." was printed
    c2s,        \* bytes on their way to the server
    server,     \* "recv", "sleep", "send" or "closed"
    buffered,   \* length of the server's buffer_data
    unanswered, \* bytes of its response that sendall has still to write
    answered,   \* responses sent completely
    s2c,        \* bytes on their way to the client
    killed      \* the server's process was killed

inputs == <<bulk, room>>
clientVars == <<client, unsent, sent, got, delays, issue>>
serverVars == <<server, buffered, unanswered, answered, killed>>
vars == <<inputs, clientVars, serverVars, c2s, s2c>>

TypeOK ==
    /\ bulk \in BOOLEAN
    /\ room \in SOCKET_SIZES
    /\ client \in {"sleep", "send", "recv", "finally", "closed"}
    /\ unsent \in 0..MSG_SIZE
    /\ sent \in 0..NB
    /\ got \in 0..MSG_SIZE
    /\ delays \in 0..NB
    /\ issue \in BOOLEAN
    /\ c2s \in 0..room
    /\ server \in {"recv", "sleep", "send", "closed"}
    /\ buffered \in Nat
    /\ unanswered \in 0..MSG_SIZE
    /\ answered \in Nat
    /\ s2c \in 0..room
    /\ killed \in BOOLEAN

(* The loop over range(args.nb) goes on or is left for the finally clause. *)
Turn(n) == IF n < NB THEN "sleep" ELSE "finally"

(* The client has connected and the server has accepted it.                *)
Init ==
    /\ bulk \in BOOLEAN
    /\ room \in SOCKET_SIZES
    /\ client = Turn(0)
    /\ unsent = 0
    /\ sent = 0
    /\ got = 0
    /\ delays = 0
    /\ issue = FALSE
    /\ c2s = 0
    /\ server = "recv"
    /\ buffered = 0
    /\ unanswered = 0
    /\ answered = 0
    /\ s2c = 0
    /\ killed = FALSE

-----------------------------------------------------------------------------
(* The client                                                              *)

BeginRequest ==
    /\ client = "sleep"
    /\ client' = "send"
    /\ unsent' = MSG_SIZE
    /\ UNCHANGED <<inputs, sent, got, delays, issue, c2s, serverVars, s2c>>

(* Mutant: the loop continues in any case.                                 *)
SendBytesOn(n) ==
    /\ client = "send"
    /\ n <= unsent
    /\ IF server = "closed" THEN UNCHANGED c2s
                            ELSE c2s + n <= room /\ c2s' = c2s + n
    /\ unsent' = unsent - n
    /\ IF n < unsent THEN UNCHANGED <<client, sent>>
                     ELSE sent' = sent + 1 /\ client' = Turn(sent + 1)
    /\ UNCHANGED <<inputs, got, delays, issue, serverVars, s2c>>

(* sendall writes n bytes more.  With --bulk the loop continues, otherwise *)
(* the client starts to wait for its response.  What is sent to a dead     *)
(* server is lost.                                                         *)
SendBytes(n) ==
    /\ client = "send"
    /\ n <= unsent
    /\ IF server = "closed" THEN UNCHANGED c2s
                            ELSE c2s + n <= room /\ c2s' = c2s + n
    /\ unsent' = unsent - n
    /\ IF n < unsent
       THEN UNCHANGED <<client, sent, got>>
       ELSE /\ sent' = sent + 1
            /\ IF bulk THEN client' = Turn(sent + 1) /\ UNCHANGED got
                       ELSE client' = "recv" /\ got' = 0
    /\ UNCHANGED <<inputs, delays, issue, serverVars, s2c>>

SendSome == \E n \in 1..MSG_SIZE : SendBytes(n)

(* sendall raises, which leaves the loop.                                  *)
SendFails ==
    /\ client = "send"
    /\ server = "closed"
    /\ client' = "finally"
    /\ UNCHANGED <<inputs, unsent, sent, got, delays, issue, c2s, serverVars, s2c>>

(* Mutant: the loop is left after one recv.                                *)
RecvBytesOnce(n) ==
    /\ client = "recv"
    /\ n <= s2c
    /\ s2c' = s2c - n
    /\ got' = got + n
    /\ IF got + n = MSG_SIZE
       THEN delays' = delays + 1 /\ client' = Turn(sent) /\ UNCHANGED issue
       ELSE issue' = TRUE /\ client' = "finally" /\ UNCHANGED delays
    /\ UNCHANGED <<inputs, unsent, sent, c2s, serverVars>>

(* recv returns n bytes of the response.  The loop ends with the last of   *)
(* them; more than one response would be an issue.                         *)
RecvBytes(n) ==
    /\ client = "recv"
    /\ n <= s2c
    /\ s2c' = s2c - n
    /\ got' = got + n
    /\ IF got + n < MSG_SIZE
       THEN UNCHANGED <<client, delays, issue>>
       ELSE IF got + n = MSG_SIZE
       THEN delays' = delays + 1 /\ client' = Turn(sent) /\ UNCHANGED issue
       ELSE issue' = TRUE /\ client' = "finally" /\ UNCHANGED delays
    /\ UNCHANGED <<inputs, unsent, sent, c2s, serverVars>>

RecvSome == \E n \in 1..RECV_SIZE : RecvBytes(n)

(* Mutant: an empty recv is not noticed.                                   *)
RecvNothingIgnored ==
    /\ client = "recv"
    /\ server = "closed"
    /\ UNCHANGED <<inputs, clientVars, c2s, serverVars, s2c>>

(* The connection was closed at the other end: recv returns nothing, once  *)
(* everything on the way was read, or raises.                              *)
RecvNothing ==
    /\ client = "recv"
    /\ server = "closed"
    /\ client' = "finally"
    /\ \/ s2c = 0 /\ issue' = TRUE
       \/ UNCHANGED issue
    /\ UNCHANGED <<inputs, unsent, sent, got, delays, c2s, serverVars, s2c>>

(* The finally clause: the socket is closed, the delays are printed.       *)
CloseSocket ==
    /\ client = "finally"
    /\ client' = "closed"
    /\ UNCHANGED <<inputs, unsent, sent, got, delays, issue, c2s, serverVars, s2c>>


-----------------------------------------------------------------------------
(* The connection's thread in the server                                   *)

(* recv returns n bytes; if there is a request in the buffer the server    *)
(* sleeps before it answers.                                               *)
Receive(n) ==
    /\ server = "recv"
    /\ n <= c2s
    /\ c2s' = c2s - n
    /\ buffered' = buffered + n
    /\ server' = IF buffered + n >= MSG_SIZE THEN "sleep" ELSE "recv"
    /\ UNCHANGED <<inputs, clientVars, unanswered, answered, killed, s2c>>

ReceiveSome == \E n \in 1..RECV_SIZE : Receive(n)

(* The sleep is over.                                                      *)
Respond ==
    /\ server = "sleep"
    /\ server' = "send"
    /\ unanswered' = MSG_SIZE
    /\ UNCHANGED <<inputs, clientVars, c2s, buffered, answered, killed, s2c>>

(* Mutant: what follows the request in the buffer is dropped with it.      *)
AnswerBytesDrops(n) ==
    /\ server = "send"
    /\ n <= unanswered
    /\ s2c + n <= room
    /\ s2c' = s2c + n
    /\ unanswered' = unanswered - n
    /\ IF n < unanswered
       THEN UNCHANGED <<server, buffered, answered>>
       ELSE server' = "recv" /\ buffered' = 0 /\ answered' = answered + 1
    /\ UNCHANGED <<inputs, clientVars, c2s, killed>>

(* sendall writes n bytes more of the response; with the last one the      *)
(* request is cut off the buffer.                                          *)
AnswerBytes(n) ==
    /\ server = "send"
    /\ n <= unanswered
    /\ s2c + n <= room
    /\ s2c' = s2c + n
    /\ unanswered' = unanswered - n
    /\ IF n < unanswered
       THEN UNCHANGED <<server, buffered, answered>>
       ELSE /\ server' = "recv"
            /\ buffered' = buffered - MSG_SIZE
            /\ answered' = answered + 1
    /\ UNCHANGED <<inputs, clientVars, c2s, killed>>

AnswerSome == \E n \in 1..MSG_SIZE : AnswerBytes(n)

(* The client has closed: recv returns nothing when everything is read, or *)
(* the connection was reset because the client left a response unread.     *)
ServerEnds ==
    /\ client = "closed"
    /\ \/ server = "recv" /\ c2s = 0
       \/ server # "closed" /\ s2c > 0
    /\ server' = "closed"
    /\ UNCHANGED <<inputs, clientVars, c2s, buffered, unanswered, answered, killed, s2c>>

(* pkill -f msg_server.py: an experiment may stop the server while the     *)
(* client runs in the background.                                          *)
KillServer ==
    /\ server # "closed"
    /\ server' = "closed"
    /\ killed' = TRUE
    /\ UNCHANGED <<inputs, clientVars, c2s, buffered, unanswered, answered, s2c>>

ClientStep ==
    BeginRequest \/ SendSome \/ SendFails \/ RecvSome \/ RecvNothing \/ CloseSocket

ServerStep == ReceiveSome \/ Respond \/ AnswerSome \/ ServerEnds

Next == ClientStep \/ ServerStep \/ KillServer

Spec == Init /\ [][Next]_vars

(* Neither program stops by itself: sleeps end, sendall writes when there  *)
(* is room, recv returns when there is something.                          *)
FairSpec == Spec /\ WF_vars(ClientStep) /\ WF_vars(ServerStep)

-----------------------------------------------------------------------------
(* What the two programs promise                                           *)

(* A server that waits for more bytes has no complete request in its       *)
(* buffer: "Handle requests given by the client".                          *)
AllHandled == server = "recv" => buffered < MSG_SIZE

(* "An issue occured" means that the server is gone: however the responses *)
(* are cut, the client never reads a part of the next one with the one it  *)
(* waits for.                                                              *)
IssueMeansKilled == issue => killed

(* A client that waits for its responses has measured all of its requests  *)
(* when it ends, unless the server was killed under it.                    *)
CompleteUnlessKilled == ~bulk /\ client = "closed" /\ ~killed => delays = NB

(* Every byte the client has written is on its way, in the server's buffer *)
(* or part of a request that was answered; in bulk mode too.               *)
BytesAccounted ==
    server # "closed" =>
        MSG_SIZE * sent + (IF client = "send" THEN MSG_SIZE - unsent ELSE 0)
            = MSG_SIZE * answered + buffered + c2s

(* Both programs are in sendall, and neither reads what the other writes.  *)
Blocked == client = "send" /\ server = "send" /\ c2s = room /\ s2c = room

(* Both programs are done with the connection in the end, after the server *)
(* was killed too.  The exception is a bulk client, which never reads: if  *)
(* the responses to its requests do not fit in the connection, both may    *)
(* wait for each other for ever.                                           *)
BothEnd ==
    <>[](\/ client = "closed" /\ server = "closed"
         \/ bulk /\ NB * MSG_SIZE > room /\ Blocked)

(* In both modes: there is a request to send as long as the loop goes on,  *)
(* and a request in the buffer as long as the server answers one.          *)
LoopInv ==
    /\ client \in {"sleep", "send"} => sent < NB
    /\ client = "recv" => ~bulk
    /\ server \in {"sleep", "send"} => buffered >= MSG_SIZE

(* The inductive invariant of a client that waits: one request is under    *)
(* way at most, and its bytes are in one place only.                       *)
WaitingInv ==
    ~bulk /\ server # "closed" =>
        /\ client \in {"sleep", "finally", "closed"} =>
            /\ server = "recv" /\ c2s = 0 /\ buffered = 0 /\ s2c = 0
            /\ sent = delays /\ answered = sent
            /\ client # "sleep" => sent = NB
        /\ client = "send" =>
            /\ server = "recv" /\ unsent > 0 /\ c2s + buffered = MSG_SIZE - unsent /\ s2c = 0
            /\ sent = delays /\ answered = sent
        /\ client = "recv" =>
            /\ sent = delays + 1 /\ got < MSG_SIZE
            /\ \/ /\ server = "recv" /\ answered = delays
                  /\ c2s + buffered = MSG_SIZE /\ buffered < MSG_SIZE /\ s2c = 0 /\ got = 0
               \/ /\ server = "sleep" /\ answered = delays
                  /\ c2s = 0 /\ buffered = MSG_SIZE /\ s2c = 0 /\ got = 0
               \/ /\ server = "send" /\ answered = delays /\ unanswered > 0
                  /\ c2s = 0 /\ buffered = MSG_SIZE /\ s2c + got = MSG_SIZE - unanswered
               \/ /\ server = "recv" /\ answered = sent
                  /\ c2s = 0 /\ buffered = 0 /\ s2c + got = MSG_SIZE

(* ... and once the server is gone.                                        *)
GoneInv ==
    ~bulk /\ server = "closed" =>
        /\ killed \/ (client = "closed" /\ delays = NB)
        /\ client = "recv" => /\ got < MSG_SIZE
                              /\ sent = delays + 1
                              /\ answered \in {delays, sent}
                              /\ s2c + got <= MSG_SIZE
                              /\ answered = delays => s2c + got < MSG_SIZE
        /\ client \in {"sleep", "send"} => sent = delays /\ answered = sent /\ s2c = 0

MsgInv == TypeOK /\ LoopInv /\ WaitingInv /\ GoneInv /\ IssueMeansKilled

(* The exchange of a client that waits; a bulk client has none.            *)
Waiting(n) == IF bulk THEN 0 ELSE n

RR == INSTANCE RequestReply WITH
        issued <- Waiting(sent), answered <- Waiting(answered), delivered <- Waiting(delays),
        open <- client # "closed", Window <- 1

(* A client that waits for its responses and the server implement the      *)
(* abstract exchange of RequestReply with one request outstanding.         *)
ImplementsRequestReply == RR!FairSpec
=============================================================================
