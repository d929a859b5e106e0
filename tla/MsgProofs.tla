------------------------------ MODULE MsgProofs ------------------------------
(***************************************************************************)
(* A client that waits for its responses gets them one by one, whole and   *)
(* never mixed, and no byte is lost, for every size of messages, of recv   *)
(* and of the connection.                                                  *)
(***************************************************************************)
EXTENDS Msg, TLAPS

(* Where the loop goes on there is a request left.                         *)
LEMMA Turns ==
    ASSUME NEW n \in 0..NB
    PROVE  /\ Turn(n) \in {"sleep", "finally"}
           /\ Turn(n) = "sleep" => n < NB
           /\ Turn(n) = "finally" => n = NB
BY MsgAssumption DEF MsgAssumption, Turn

(* Nothing has been sent.                                                  *)
LEMMA InitInv == Init => MsgInv
<1> SUFFICES ASSUME Init PROVE MsgInv
  OBVIOUS
<1>1. /\ client \in {"sleep", "finally"}
      /\ client = "sleep" => 0 < NB
      /\ client = "finally" => NB = 0
  <2>1. 0 \in 0..NB /\ client = Turn(0)
    BY MsgAssumption DEF MsgAssumption, Init
  <2> QED
    BY <2>1, Turns
<1>2. TypeOK
  <2>1. room \in Nat /\ MSG_SIZE \in Nat /\ NB \in Nat
    BY MsgAssumption DEF MsgAssumption, Init
  <2>2. 0 \in 0..room /\ 0 \in 0..MSG_SIZE /\ 0 \in 0..NB /\ 0 \in Nat
    BY <2>1
  <2> QED
    BY <1>1, <2>2, Zenon DEF Init, TypeOK
<1> QED
  BY <1>1, <1>2, MsgAssumption
  DEF MsgAssumption, Init, MsgInv, LoopInv, WaitingInv, GoneInv, IssueMeansKilled

(* A request begins.                                                       *)
LEMMA BeginKeeps ==
    ASSUME MsgInv, BeginRequest
    PROVE  MsgInv'
BY MsgAssumption
DEF MsgAssumption, BeginRequest, MsgInv, TypeOK, LoopInv, WaitingInv, GoneInv, IssueMeansKilled,
    inputs, serverVars

(* The bytes of a request enter the connection one after the other.        *)
LEMMA SendKeeps ==
    ASSUME MsgInv, NEW n \in 1..MSG_SIZE, SendBytes(n)
    PROVE  MsgInv'
<1> USE MsgAssumption DEF MsgAssumption
<1>1. /\ unsent \in 0..MSG_SIZE /\ n <= unsent /\ sent \in 0..NB /\ sent < NB
      /\ c2s \in 0..room /\ room \in Nat
  BY DEF SendBytes, MsgInv, TypeOK, LoopInv
<1>2. sent + 1 \in 0..NB /\ unsent - n \in 0..MSG_SIZE
  BY <1>1
<1>3. c2s' \in 0..room
  BY <1>1 DEF SendBytes
<1>4. TypeOK'
  BY <1>1, <1>2, <1>3, Turns DEF SendBytes, MsgInv, TypeOK, inputs, serverVars
<1>5. LoopInv'
  BY <1>2, Turns DEF SendBytes, MsgInv, TypeOK, LoopInv, inputs, serverVars
<1>6. WaitingInv'
  BY <1>1 DEF SendBytes, MsgInv, TypeOK, WaitingInv, inputs, serverVars
<1>7. GoneInv'
  BY <1>1 DEF SendBytes, MsgInv, TypeOK, GoneInv, inputs, serverVars
<1>8. IssueMeansKilled'
  BY DEF SendBytes, MsgInv, IssueMeansKilled, serverVars
<1> QED
  BY <1>4, <1>5, <1>6, <1>7, <1>8 DEF MsgInv

(* The client reads its response: one at most is there.                    *)
LEMMA RecvKeeps ==
    ASSUME MsgInv, NEW n \in 1..RECV_SIZE, RecvBytes(n)
    PROVE  MsgInv'
<1> USE MsgAssumption DEF MsgAssumption
<1>1. /\ got \in 0..MSG_SIZE /\ s2c \in 0..room /\ room \in Nat /\ n <= s2c
      /\ sent \in 0..NB /\ ~bulk /\ client = "recv"
  BY DEF RecvBytes, MsgInv, TypeOK, LoopInv
<1>2. /\ s2c + got <= MSG_SIZE
      /\ sent = delays + 1
      /\ s2c + got = MSG_SIZE => answered = sent
      /\ server # "closed" /\ s2c + got = MSG_SIZE =>
            server = "recv" /\ c2s = 0 /\ buffered = 0
      /\ server = "closed" => killed
  BY <1>1 DEF MsgInv, TypeOK, WaitingInv, GoneInv
<1>3. got + n <= MSG_SIZE /\ s2c - n \in 0..room /\ got + n \in 0..MSG_SIZE
  BY <1>1, <1>2
<1>4. delays + 1 \in 0..NB
  BY <1>1, <1>2
<1>5. TypeOK'
  BY <1>1, <1>3, <1>4, Turns DEF RecvBytes, MsgInv, TypeOK, inputs, serverVars
<1>6. LoopInv'
  BY <1>1, Turns DEF RecvBytes, MsgInv, LoopInv, inputs, serverVars
<1>7. CASE got + n = MSG_SIZE
  <2>1. s2c + got = MSG_SIZE /\ s2c - n = 0
    BY <1>1, <1>2, <1>7
  <2>2. /\ s2c' = 0 /\ delays' = delays + 1 /\ client' = Turn(sent) /\ issue' = issue
        /\ UNCHANGED <<bulk, sent, c2s, server, buffered, answered, killed>>
    BY <1>7, <2>1 DEF RecvBytes, inputs, serverVars
  <2>3. WaitingInv'
    BY <1>1, <1>2, <2>1, <2>2, Turns DEF WaitingInv
  <2>4. GoneInv'
    BY <1>1, <1>2, <2>1, <2>2, Turns DEF GoneInv
  <2> QED
    BY <1>5, <1>6, <2>2, <2>3, <2>4 DEF MsgInv, IssueMeansKilled
<1>8. CASE got + n < MSG_SIZE
  <2>1. /\ s2c' = s2c - n /\ got' = got + n
        /\ UNCHANGED <<bulk, client, delays, issue, unsent, sent, c2s>>
        /\ UNCHANGED <<server, buffered, unanswered, answered, killed>>
    BY <1>8 DEF RecvBytes, inputs, serverVars
  <2>2. s2c' + got' = s2c + got
    BY <1>1, <2>1
  <2>3. WaitingInv'
    BY <1>1, <1>8, <2>1, <2>2 DEF MsgInv, TypeOK, WaitingInv
  <2>4. GoneInv'
    BY <1>1, <1>8, <2>1, <2>2 DEF MsgInv, TypeOK, GoneInv
  <2> QED
    BY <1>5, <1>6, <2>1, <2>3, <2>4 DEF MsgInv, IssueMeansKilled
<1> QED
  BY <1>1, <1>3, <1>7, <1>8

(* The client gives up, because the server is gone, or closes.             *)
LEMMA LeaveKeeps ==
    ASSUME MsgInv, SendFails \/ RecvNothing \/ CloseSocket
    PROVE  MsgInv'
<1>1. CASE SendFails
  BY <1>1
  DEF SendFails, MsgInv, TypeOK, LoopInv, WaitingInv, GoneInv, IssueMeansKilled, inputs, serverVars
<1>2. CASE RecvNothing
  BY <1>2
  DEF RecvNothing, MsgInv, TypeOK, LoopInv, WaitingInv, GoneInv, IssueMeansKilled, inputs,
      serverVars
<1>3. CASE CloseSocket
  BY <1>3
  DEF CloseSocket, MsgInv, TypeOK, LoopInv, WaitingInv, GoneInv, IssueMeansKilled, inputs,
      serverVars
<1> QED
  BY <1>1, <1>2, <1>3

(* The server reads: what a waiting client has sent is one request.        *)
LEMMA ReceiveKeeps ==
    ASSUME MsgInv, NEW n \in 1..RECV_SIZE, Receive(n)
    PROVE  MsgInv'
<1> USE MsgAssumption DEF MsgAssumption
<1>1. c2s \in 0..room /\ room \in Nat /\ n <= c2s /\ buffered \in Nat /\ server = "recv"
  BY DEF Receive, MsgInv, TypeOK
<1>2. c2s - n \in 0..room /\ buffered + n \in Nat
  BY <1>1
<1>3. TypeOK'
  BY <1>2 DEF Receive, MsgInv, TypeOK, inputs, clientVars
<1>4. LoopInv'
  BY <1>1 DEF Receive, MsgInv, LoopInv, inputs, clientVars
<1>5. c2s' + buffered' = c2s + buffered /\ c2s' \in Nat /\ c2s > 0
  BY <1>1 DEF Receive
<1>6. WaitingInv'
  BY <1>1, <1>5 DEF Receive, MsgInv, TypeOK, WaitingInv, inputs, clientVars
<1> QED
  BY <1>1, <1>3, <1>4, <1>6 DEF Receive, MsgInv, GoneInv, IssueMeansKilled, inputs, clientVars

(* The server begins its response.                                         *)
LEMMA RespondKeeps ==
    ASSUME MsgInv, Respond
    PROVE  MsgInv'
BY MsgAssumption
DEF MsgAssumption, Respond, MsgInv, TypeOK, LoopInv, WaitingInv, GoneInv, IssueMeansKilled,
    inputs, clientVars

(* The bytes of the response; with the last one the request is cut off.    *)
LEMMA AnswerKeeps ==
    ASSUME MsgInv, NEW n \in 1..MSG_SIZE, AnswerBytes(n)
    PROVE  MsgInv'
<1> USE MsgAssumption DEF MsgAssumption
<1>1. /\ unanswered \in 0..MSG_SIZE /\ n <= unanswered /\ s2c \in 0..room /\ room \in Nat
      /\ buffered \in Nat /\ buffered >= MSG_SIZE /\ answered \in Nat /\ server = "send"
  BY DEF AnswerBytes, MsgInv, TypeOK, LoopInv
<1>2. /\ unanswered - n \in 0..MSG_SIZE /\ buffered - MSG_SIZE \in Nat /\ answered + 1 \in Nat
      /\ s2c' \in 0..room
  BY <1>1 DEF AnswerBytes
<1>3. TypeOK'
  BY <1>2 DEF AnswerBytes, MsgInv, TypeOK, inputs, clientVars
<1>4. LoopInv'
  BY <1>1 DEF AnswerBytes, MsgInv, LoopInv, inputs, clientVars
<1>5. WaitingInv'
  BY <1>1 DEF AnswerBytes, MsgInv, TypeOK, WaitingInv, inputs, clientVars
<1> QED
  BY <1>1, <1>3, <1>4, <1>5 DEF AnswerBytes, MsgInv, GoneInv, IssueMeansKilled, inputs, clientVars

(* The server ends, by itself or not.                                      *)
LEMMA ServerEndKeeps ==
    ASSUME MsgInv, ServerEnds \/ KillServer
    PROVE  MsgInv'
<1> USE MsgAssumption DEF MsgAssumption
<1>1. CASE ServerEnds
  BY <1>1
  DEF ServerEnds, MsgInv, TypeOK, LoopInv, WaitingInv, GoneInv, IssueMeansKilled, inputs,
      clientVars
<1>2. CASE KillServer
  <2>1. TypeOK' /\ LoopInv' /\ WaitingInv' /\ IssueMeansKilled'
    BY <1>2
    DEF KillServer, MsgInv, TypeOK, LoopInv, WaitingInv, IssueMeansKilled, inputs, clientVars
  <2>2. GoneInv'
    BY <1>2 DEF KillServer, MsgInv, TypeOK, WaitingInv, GoneInv, inputs, clientVars
  <2> QED
    BY <2>1, <2>2 DEF MsgInv
<1> QED
  BY <1>1, <1>2

(* Every step keeps the invariant.                                         *)
LEMMA NextInv == MsgInv /\ [Next]_vars => MsgInv'
<1> SUFFICES ASSUME MsgInv, [Next]_vars PROVE MsgInv'
  OBVIOUS
<1>1. CASE UNCHANGED vars
  BY <1>1
  DEF MsgInv, TypeOK, LoopInv, WaitingInv, GoneInv, IssueMeansKilled, vars, inputs, clientVars,
      serverVars
<1> QED
  BY <1>1, BeginKeeps, SendKeeps, RecvKeeps, LeaveKeeps, ReceiveKeeps, RespondKeeps, AnswerKeeps,
     ServerEndKeeps
  DEF Next, ClientStep, ServerStep, SendSome, RecvSome, ReceiveSome, AnswerSome

(* At each point of the two programs a waiting client has one request      *)
(* under way at most, and its bytes are in one place only: still in        *)
(* sendall, on their way, in the server's buffer, or on their way back.    *)
THEOREM MsgInvariant == Spec => []MsgInv
<1>1. MsgInv /\ [Next]_vars => MsgInv'
  BY NextInv
<1> QED
  BY <1>1, InitInv, PTL DEF Spec

(* A client that waits for its responses has measured all of its requests  *)
(* when it closes, unless the server was killed.                           *)
THEOREM Complete == Spec => []CompleteUnlessKilled
<1>1. MsgInv => CompleteUnlessKilled
  BY DEF MsgInv, WaitingInv, GoneInv, CompleteUnlessKilled
<1> QED
  BY <1>1, MsgInvariant, PTL

(* The client never prints "An issue occured" while its server is alive:   *)
(* it never reads a part of the next response with the one it waits for.   *)
THEOREM IssuesExplained == Spec => []IssueMeansKilled
<1>1. MsgInv => IssueMeansKilled
  BY DEF MsgInv
<1> QED
  BY <1>1, MsgInvariant, PTL

-----------------------------------------------------------------------------
(* The bytes                                                               *)

(* One message more.                                                       *)
LEMMA OneMore ==
    ASSUME NEW k \in Nat
    PROVE  MSG_SIZE * k \in Nat /\ MSG_SIZE * (k + 1) = MSG_SIZE * k + MSG_SIZE
BY MsgAssumption DEF MsgAssumption

(* A step moves bytes and makes or loses none.                             *)
LEMMA BytesStep ==
    ASSUME MsgInv, BytesAccounted, [Next]_vars
    PROVE  BytesAccounted'
<1> USE MsgAssumption DEF MsgAssumption
<1> SUFFICES ASSUME server' # "closed"
             PROVE  BytesAccounted'
  BY DEF BytesAccounted
<1> DEFINE Written == IF client = "send" THEN MSG_SIZE - unsent ELSE 0
<1>1. /\ sent \in Nat /\ answered \in Nat /\ buffered \in Nat /\ c2s \in Nat
      /\ unsent \in 0..MSG_SIZE /\ unanswered \in 0..MSG_SIZE
  BY DEF MsgInv, TypeOK
<1>2. MSG_SIZE * sent \in Nat /\ MSG_SIZE * answered \in Nat
  BY <1>1, OneMore
<1>3. server # "closed"
  BY DEF Next, ClientStep, ServerStep, BeginRequest, SendSome, SendBytes, SendFails, RecvSome,
         RecvBytes, RecvNothing, CloseSocket, ReceiveSome, Receive, Respond, AnswerSome,
         AnswerBytes, ServerEnds, KillServer, vars, serverVars
<1>4. MSG_SIZE * sent + Written = MSG_SIZE * answered + buffered + c2s
  BY <1>3 DEF BytesAccounted
<1>5. CASE BeginRequest
  BY <1>1, <1>2, <1>4, <1>5 DEF BeginRequest, BytesAccounted, serverVars
<1>6. ASSUME NEW n \in 1..MSG_SIZE, SendBytes(n)
      PROVE  BytesAccounted'
  <2>1. /\ client = "send" /\ n <= unsent /\ c2s' = c2s + n /\ unsent' = unsent - n
        /\ UNCHANGED <<answered, buffered, server>>
    BY <1>3, <1>6 DEF SendBytes, serverVars
  <2>2. CASE n < unsent
    BY <1>1, <1>2, <1>4, <1>6, <2>1, <2>2 DEF SendBytes, BytesAccounted
  <2>3. CASE n = unsent
    <3>1. sent' = sent + 1 /\ client' # "send"
      BY <1>6, <2>3 DEF SendBytes, Turn
    <3>2. MSG_SIZE * sent' = MSG_SIZE * sent + MSG_SIZE
      BY <1>1, <3>1, OneMore
    <3> QED
      BY <1>1, <1>2, <1>4, <2>1, <2>3, <3>1, <3>2 DEF BytesAccounted
  <2> QED
    BY <1>1, <2>1, <2>2, <2>3
<1>7. CASE SendFails \/ RecvNothing \/ ServerEnds \/ KillServer
  BY <1>3, <1>7 DEF SendFails, RecvNothing, ServerEnds, KillServer
<1>8. CASE RecvSome \/ CloseSocket
  <2>1. client # "send" /\ client' # "send" /\ UNCHANGED <<sent, answered, buffered, c2s>>
    BY <1>8 DEF RecvSome, RecvBytes, CloseSocket, Turn, serverVars
  <2> QED
    BY <1>4, <2>1 DEF BytesAccounted
<1>9. CASE ReceiveSome
  <2>1. PICK n \in 1..RECV_SIZE : Receive(n)
    BY <1>9 DEF ReceiveSome
  <2> QED
    BY <1>1, <1>2, <1>4, <2>1 DEF Receive, BytesAccounted, clientVars
<1>10. CASE Respond
  BY <1>4, <1>10 DEF Respond, BytesAccounted, clientVars
<1>11. ASSUME NEW n \in 1..MSG_SIZE, AnswerBytes(n)
       PROVE  BytesAccounted'
  <2>1. UNCHANGED <<client, unsent, sent, c2s>>
    BY <1>11 DEF AnswerBytes, clientVars
  <2>2. CASE n < unanswered
    BY <1>4, <1>11, <2>1, <2>2 DEF AnswerBytes, BytesAccounted
  <2>3. CASE ~(n < unanswered)
    <3>1. answered' = answered + 1 /\ buffered' = buffered - MSG_SIZE
      BY <1>11, <2>3 DEF AnswerBytes
    <3>2. MSG_SIZE * answered' = MSG_SIZE * answered + MSG_SIZE
      BY <1>1, <3>1, OneMore
    <3> QED
      BY <1>1, <1>2, <1>4, <2>1, <3>1, <3>2 DEF BytesAccounted
  <2> QED
    BY <2>2, <2>3
<1>12. CASE UNCHANGED vars
  BY <1>4, <1>12 DEF BytesAccounted, vars, clientVars, serverVars
<1> QED
  BY <1>5, <1>6, <1>7, <1>8, <1>9, <1>10, <1>11, <1>12
  DEF Next, ClientStep, ServerStep, SendSome, AnswerSome

(* Every byte the client has written is on its way, in the server's buffer *)
(* or part of a request that was answered, for bulk clients too and        *)
(* however sendall and recv cut the messages.                              *)
THEOREM NoByteLost == Spec => []BytesAccounted
<1>1. Init => BytesAccounted
  BY MsgAssumption DEF MsgAssumption, Init, BytesAccounted, Turn
<1>2. MsgInv /\ BytesAccounted /\ [Next]_vars => BytesAccounted'
  BY BytesStep
<1> QED
  BY <1>1, <1>2, MsgInvariant, PTL DEF Spec

-----------------------------------------------------------------------------
(* The refinement                                                          *)

(* A complete request is an Issue, a complete response an Answer, one that *)
(* was read a Deliver; all other steps leave the abstract exchange alone.  *)
LEMMA StepRefines ==
    ASSUME MsgInv, [Next]_vars
    PROVE  [RR!Next]_RR!vars
<1> USE MsgAssumption DEF MsgAssumption, Waiting
<1> DEFINE Quiet == /\ UNCHANGED <<bulk, sent, answered, delays>>
                    /\ client' # "closed" <=> client # "closed"
<1>1. ASSUME Quiet PROVE UNCHANGED RR!vars
  BY <1>1 DEF RR!vars
<1>2. /\ sent \in Nat /\ answered \in Nat /\ delays \in Nat /\ bulk \in BOOLEAN
      /\ unanswered \in 0..MSG_SIZE
  BY DEF MsgInv, TypeOK
<1>3. CASE BeginRequest \/ SendFails \/ RecvNothing \/ ReceiveSome \/ Respond \/ ServerEnds
           \/ KillServer \/ UNCHANGED vars
  <2>1. Quiet
    BY <1>3
    DEF BeginRequest, SendFails, RecvNothing, ReceiveSome, Receive, Respond, ServerEnds, KillServer,
        vars, inputs, clientVars, serverVars
  <2> QED
    BY <1>1, <2>1
<1>4. ASSUME NEW n \in 1..MSG_SIZE, SendBytes(n)
      PROVE  [RR!Next]_RR!vars
  <2>1. client = "send" /\ client' # "closed" /\ UNCHANGED <<bulk, answered, delays>>
    BY <1>4 DEF SendBytes, Turn, inputs, serverVars
  <2>2. CASE sent' = sent
    BY <1>1, <2>1, <2>2
  <2>3. CASE sent' = sent + 1
    <3>1. CASE bulk
      BY <2>1, <3>1 DEF RR!vars
    <3>2. CASE ~bulk
      <4>1. sent = delays
        BY <2>1, <3>2 DEF MsgInv, WaitingInv, GoneInv
      <4>2. RR!Issue
        BY <1>2, <2>1, <2>3, <3>2, <4>1 DEF RR!Issue
      <4> QED
        BY <4>2 DEF RR!Next
    <3> QED
      BY <3>1, <3>2
  <2> QED
    BY <1>4, <2>2, <2>3 DEF SendBytes
<1>5. ASSUME NEW n \in 1..RECV_SIZE, RecvBytes(n)
      PROVE  [RR!Next]_RR!vars
  <2>1. /\ client = "recv" /\ client' # "closed" /\ ~bulk /\ n <= s2c
        /\ UNCHANGED <<bulk, sent, answered>>
    BY <1>5 DEF RecvBytes, Turn, inputs, serverVars, MsgInv, LoopInv
  <2>2. CASE delays' = delays
    BY <1>1, <2>1, <2>2
  <2>3. CASE delays' = delays + 1 /\ got + n = MSG_SIZE
    <3>1. delays < answered
      BY <1>2, <2>1, <2>3 DEF MsgInv, TypeOK, WaitingInv, GoneInv
    <3>2. RR!Deliver
      BY <2>1, <2>3, <3>1 DEF RR!Deliver
    <3> QED
      BY <3>2 DEF RR!Next
  <2> QED
    BY <1>5, <2>2, <2>3 DEF RecvBytes
<1>6. CASE CloseSocket
  <2>1. RR!Close
    BY <1>6 DEF CloseSocket, RR!Close, inputs, serverVars
  <2> QED
    BY <2>1 DEF RR!Next
<1>7. ASSUME NEW n \in 1..MSG_SIZE, AnswerBytes(n)
      PROVE  [RR!Next]_RR!vars
  <2>1. server = "send" /\ UNCHANGED <<bulk, client, sent, delays>>
    BY <1>7 DEF AnswerBytes, inputs, clientVars
  <2>2. CASE answered' = answered
    BY <1>1, <2>1, <2>2
  <2>3. CASE answered' = answered + 1
    <3>1. CASE bulk
      BY <2>1, <3>1 DEF RR!vars
    <3>2. CASE ~bulk
      <4>1. answered < sent
        BY <1>2, <2>1, <3>2 DEF MsgInv, TypeOK, WaitingInv
      <4>2. RR!Answer
        BY <2>1, <2>3, <3>2, <4>1 DEF RR!Answer
      <4> QED
        BY <4>2 DEF RR!Next
    <3> QED
      BY <3>1, <3>2
  <2> QED
    BY <1>7, <2>2, <2>3 DEF AnswerBytes
<1> QED
  BY <1>3, <1>4, <1>5, <1>6, <1>7 DEF Next, ClientStep, ServerStep, SendSome, RecvSome, AnswerSome

(* The client that waits and its server implement the abstract exchange    *)
(* with a window of one: each request is answered once, after it was sent, *)
(* and the next is sent when its response was read, wherever the server is *)
(* killed.                                                                 *)
THEOREM MsgRefines == Spec => RR!Spec
<1>1. Init => RR!Init
  BY DEF Init, RR!Init, Waiting, Turn
<1>2. MsgInv /\ [Next]_vars => [RR!Next]_RR!vars
  BY StepRefines
<1> QED
  BY <1>1, <1>2, MsgInvariant, PTL DEF Spec, RR!Spec
=============================================================================
