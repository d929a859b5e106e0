----------------------------- MODULE SiriProofs -----------------------------
(***************************************************************************)
(* The client and the server of Siri, for every choice of the sizes: the   *)
(* accounting of the client's two threads is exact until the server closes *)
(* the connection, and with sound parameters the server never does.        *)
(***************************************************************************)
EXTENDS Siri, WellFoundedInduction, TLAPS

-----------------------------------------------------------------------------
(* Multiples of the size of a request                                      *)

(* A larger number of requests has no fewer bytes ...                      *)
LEMMA Monotone ==
    ASSUME NEW a \in Int, NEW b \in Int, a <= b
    PROVE  QUERY_SIZE * a <= QUERY_SIZE * b
<1>1. PICK d \in Nat : b = a + d
  BY b - a \in Nat, b = a + (b - a)
<1>2. QUERY_SIZE * d >= 0
  BY SizeAssumption DEF SizeAssumption
<1>3. QUERY_SIZE * b = QUERY_SIZE * a + QUERY_SIZE * d
  BY <1>1, SizeAssumption DEF SizeAssumption
<1> QED
  BY <1>2, <1>3, SizeAssumption DEF SizeAssumption

(* ... and conversely.                                                     *)
LEMMA Cancel ==
    ASSUME NEW a \in Int, NEW b \in Int, QUERY_SIZE * a <= QUERY_SIZE * b
    PROVE  a <= b
<1>1. SUFFICES ASSUME b + 1 <= a PROVE FALSE
  OBVIOUS
<1>2. QUERY_SIZE * (b + 1) <= QUERY_SIZE * a
  BY <1>1, Monotone, b + 1 \in Int
<1>3. QUERY_SIZE * (b + 1) = QUERY_SIZE * b + QUERY_SIZE
  BY SizeAssumption DEF SizeAssumption
<1> QED
  BY <1>2, <1>3, SizeAssumption DEF SizeAssumption

(* No request ends inside another.                                         *)
LEMMA NoMultiple ==
    ASSUME NEW a \in Int, NEW k \in Int,
           QUERY_SIZE * a < QUERY_SIZE * k, QUERY_SIZE * k < QUERY_SIZE * a + QUERY_SIZE
    PROVE  FALSE
<1>1. QUERY_SIZE * (a + 1) = QUERY_SIZE * a + QUERY_SIZE
  BY SizeAssumption DEF SizeAssumption
<1>2. CASE k <= a
  BY <1>2, Monotone, SizeAssumption DEF SizeAssumption
<1>3. CASE a + 1 <= k
  BY <1>3, <1>1, Monotone, a + 1 \in Int, SizeAssumption DEF SizeAssumption
<1> QED
  BY <1>2, <1>3

(* Two requests less than MAX_ID apart have different numbers.             *)
LEMMA DifferentIds ==
    ASSUME NEW b \in Nat, NEW m \in Nat, m < b, b - m < MAX_ID
    PROVE  b % MAX_ID # m % MAX_ID
<1>1. MAX_ID \in Nat \ {0}
  BY SizeAssumption DEF SizeAssumption
<1>2. SUFFICES ASSUME b % MAX_ID = m % MAX_ID PROVE FALSE
  OBVIOUS
<1>3. \A n \in Nat : n \div MAX_ID \in Int /\ n = MAX_ID * (n \div MAX_ID) + (n % MAX_ID)
  BY <1>1, SMT
<1> DEFINE x == b \div MAX_ID
           y == m \div MAX_ID
<1>4. x \in Int /\ y \in Int /\ b = MAX_ID * x + (b % MAX_ID) /\ m = MAX_ID * y + (m % MAX_ID)
  BY <1>3
<1> HIDE DEF x, y
<1>5. b - m = MAX_ID * (x - y)
  BY <1>1, <1>2, <1>4
<1>6. CASE x - y <= 0
  BY <1>1, <1>4, <1>5, <1>6
<1>7. CASE x - y >= 1
  BY <1>1, <1>4, <1>5, <1>7
<1> QED
  BY <1>4, <1>6, <1>7
-----------------------------------------------------------------------------
(* The helpers of the two programs                                         *)

(* A packet is a part of what remains.                                     *)
LEMMA PacketRange ==
    ASSUME NEW r \in 1..QUERY_SIZE
    PROVE  PacketSizes(r) \subseteq 1..r
<1>1. sizeOfNextPacket(r) \subseteq 1..r
  BY SizeAssumption DEF SizeAssumption, sizeOfNextPacket
<1> QED
  BY <1>1, SizeAssumption DEF SizeAssumption, PacketSizes

(* With sound parameters there is a packet to send as long as the minimum  *)
(* remains; none is a whole request, and each leaves nothing or the        *)
(* minimum.                                                                *)
LEMMA PacketLeaves ==
    ASSUME SoundParameters, NEW r \in 1..QUERY_SIZE, r >= MIN_PAYLOAD_SIZE
    PROVE  /\ PacketSizes(r) # {}
           /\ \A s \in PacketSizes(r) :
                /\ s < QUERY_SIZE
                /\ s # r => r - s >= MIN_PAYLOAD_SIZE
<1>1. \A s \in sizeOfNextPacket(r) :
        /\ s >= MIN_PAYLOAD_SIZE
        /\ s \in Nat
        /\ s < QUERY_SIZE
        /\ s # r => r - s >= MIN_PAYLOAD_SIZE
  BY SizeAssumption DEF SizeAssumption, sizeOfNextPacket, SoundParameters
<1>2. sizeOfNextPacket(r) # {}
  <2>1. CASE r <= MAX_PAYLOAD_SIZE
    BY <2>1, SizeAssumption DEF SizeAssumption, sizeOfNextPacket
  <2>2. CASE r > MAX_PAYLOAD_SIZE
    <3>1. MIN_PAYLOAD_SIZE \in sizeOfNextPacket(r)
      BY <2>2, SizeAssumption DEF SizeAssumption, sizeOfNextPacket, SoundParameters
    <3> QED BY <3>1
  <2> QED BY <2>1, <2>2, SizeAssumption DEF SizeAssumption
<1>3. PacketSizes(r) = sizeOfNextPacket(r)
  <2>1. \A s \in sizeOfNextPacket(r) : (IF s < HEADER_SIZE THEN HEADER_SIZE ELSE s) = s
    BY <1>1, SizeAssumption DEF SizeAssumption, SoundParameters
  <2> QED BY <2>1 DEF PacketSizes
<1> QED BY <1>1, <1>2, <1>3

(* The smallest element of a set of natural numbers.                       *)
LEMMA MinIsLeast ==
    ASSUME NEW P, P \subseteq Nat, P # {}
    PROVE  Min(P) \in P /\ \A y \in P : Min(P) <= y
<1>1. PICK x \in P : \A y \in P : ~(<<y, x>> \in OpToRel(<, Nat))
  BY NatLessThanWellFounded, WFMin
<1>2. \A y \in P : ~(y < x)
  BY <1>1 DEF OpToRel
<1>3. \A y \in P : x <= y
  BY <1>2
<1> QED
  BY <1>3 DEF Min

(* The bytes used are among the bytes received.                            *)
LEMMA UsedRange ==
    ASSUME TypeOK, NEW n \in Nat
    PROVE  Used(n) \in 0..n
<1> DEFINE P == {p \in lines : received < p /\ p <= received + n}
<1>1. P \subseteq Nat
  BY DEF TypeOK
<1>2. CASE P # {}
  <2>1. Min(P) \in P
    BY <1>1, <1>2, MinIsLeast
  <2> QED BY <2>1, <1>1 DEF Used, TypeOK
<1>3. CASE P = {}
  BY <1>3 DEF Used
<1> QED BY <1>2, <1>3
-----------------------------------------------------------------------------
(* Types, and the sender                                                   *)

(* What NextPacket leaves in the sender's variables.                       *)
LEMMA NextPacketSender ==
    ASSUME NEW r \in 1..QUERY_SIZE, NextPacket(r)
    PROVE  /\ remain' = r
           /\ sender' \in {"write", "dead"}
           /\ packet' \in Nat
           /\ sender' = "write" => packet' \in PacketSizes(r) /\ packet' \in 1..r
BY PacketRange DEF NextPacket

(* Every step keeps the types and SenderInv.                               *)
LEMMA TypeStep ==
    ASSUME TypeOK, SenderInv, [Next]_vars
    PROVE  TypeOK' /\ SenderInv'
<1> USE SizeAssumption DEF TypeOK, SenderInv
<1>1. CASE StopClient
  BY <1>1 DEF StopClient, clientVars, serverVars
<1>2. CASE BeginRequest
  <2>1. QUERY_SIZE \in 1..QUERY_SIZE
    BY DEF SizeAssumption
  <2>2. begun % MAX_ID \in 0..(MAX_ID - 1)
    BY DEF SizeAssumption
  <2>3. sentTime' \in [0..(MAX_ID - 1) -> Nat \cup {-1}]
    BY <1>2, <2>2 DEF BeginRequest
  <2> QED
    BY <1>2, <2>1, <2>3, NextPacketSender DEF BeginRequest, serverVars
<1>3. CASE MissTurn
  BY <1>3 DEF MissTurn, serverVars
<1>4. CASE WritePacket
  BY <1>4 DEF WritePacket, clientVars, serverVars
<1>5. CASE WriteTooEarly
  BY <1>5 DEF WriteTooEarly, clientVars, serverVars
<1>6. CASE WriteInVain
  BY <1>6 DEF WriteInVain, serverVars, SizeAssumption
<1>7. CASE CountPacket
  <2>1. CASE packet < remain
    <3>1. remain - packet \in 1..QUERY_SIZE
      BY <1>7, <2>1 DEF CountPacket
    <3> QED
      BY <1>7, <2>1, <3>1, NextPacketSender DEF CountPacket, serverVars
  <2>2. CASE ~(packet < remain)
    BY <1>7, <2>2 DEF CountPacket, serverVars, SizeAssumption
  <2> QED BY <2>1, <2>2
<1>8. CASE OpenStreams
  BY <1>8 DEF OpenStreams, clientVars, serverVars
<1>9. CASE Deliver
  BY <1>9 DEF Deliver, clientVars, serverVars, SizeAssumption
<1>10. CASE ReceiverEnds
  BY <1>10 DEF ReceiverEnds, clientVars, serverVars
<1>11. CASE ReceiveSome
  <2>1. PICK n \in 1..RECV_SIZE : Receive(n)
    BY <1>11 DEF ReceiveSome
  <2>2. n \in Nat /\ RECV_SIZE \in Nat
    BY DEF SizeAssumption
  <2>3. Used(n) \in 0..n
    BY <2>2, UsedRange
  <2>4. buffered + Used(n) \in Nat /\ next + n - Used(n) \in Nat
    BY <2>2, <2>3
  <2>5. buffered' \in Nat /\ next' \in Nat /\ received' \in Nat
    BY <2>1, <2>2, <2>4 DEF Receive
  <2>6. first' \in BOOLEAN
    BY <2>1, Zenon DEF Receive
  <2>7. server' \in {"recv", "sleep", "closed"}
    BY <2>1 DEF Receive
  <2>8. UNCHANGED <<open, streams, sender, clientVars, counter, unseen, written, lines,
                    answered, delivered>>
    BY <2>1 DEF Receive
  <2> QED
    BY <2>5, <2>6, <2>7, <2>8 DEF clientVars
<1>12. CASE Respond
  BY <1>12 DEF Respond, clientVars
<1>13. CASE ServerEnds
  BY <1>13 DEF ServerEnds, clientVars
<1>14. CASE UNCHANGED vars
  BY <1>14 DEF vars, clientVars, serverVars
<1> QED
  BY <1>1, <1>2, <1>3, <1>4, <1>5, <1>6, <1>7, <1>8, <1>9, <1>10, <1>11, <1>12,
     <1>13, <1>14 DEF Next

(* What the sender leaves can always be sent.                              *)
LEMMA RestStep ==
    ASSUME TypeOK, SenderInv, RestInv, [Next]_vars
    PROVE  RestInv'
<1> SUFFICES ASSUME SoundParameters
             PROVE  /\ remain' # 0 => remain' >= MIN_PAYLOAD_SIZE
                    /\ sender' \in {"write", "count"} =>
                        /\ packet' < QUERY_SIZE
                        /\ packet' # remain' => remain' - packet' >= MIN_PAYLOAD_SIZE
  BY DEF RestInv, SoundParameters
<1> USE SizeAssumption DEF RestInv
<1>1. ASSUME NEW r \in 1..QUERY_SIZE, r >= MIN_PAYLOAD_SIZE, NextPacket(r)
      PROVE  /\ remain' = r
             /\ sender' \in {"write", "count"} =>
                 /\ packet' < QUERY_SIZE
                 /\ packet' # r => r - packet' >= MIN_PAYLOAD_SIZE
  BY <1>1, PacketLeaves, NextPacketSender
<1>2. CASE BeginRequest
  <2>1. QUERY_SIZE \in 1..QUERY_SIZE /\ QUERY_SIZE >= MIN_PAYLOAD_SIZE
    BY DEF SizeAssumption, SoundParameters
  <2> QED
    BY <1>1, <1>2, <2>1 DEF BeginRequest
<1>3. CASE CountPacket
  <2>1. CASE packet < remain
    <3>1. remain - packet \in 1..QUERY_SIZE /\ remain - packet >= MIN_PAYLOAD_SIZE
      BY <1>3, <2>1 DEF CountPacket, SenderInv, TypeOK
    <3> QED
      BY <1>1, <1>3, <2>1, <3>1 DEF CountPacket
  <2>2. CASE ~(packet < remain)
    BY <1>3, <2>2 DEF CountPacket
  <2> QED BY <2>1, <2>2
<1>4. CASE WritePacket \/ WriteTooEarly
  BY <1>4 DEF WritePacket, WriteTooEarly, clientVars
<1>5. CASE WriteInVain
  BY <1>5 DEF WriteInVain
<1>6. CASE StopClient \/ MissTurn \/ OpenStreams \/ Deliver \/ ReceiverEnds \/ ReceiveSome
             \/ Respond \/ ServerEnds \/ UNCHANGED vars
  BY <1>6 DEF StopClient, MissTurn, OpenStreams, Deliver, ReceiverEnds, ReceiveSome, Receive,
     Respond, ServerEnds, vars, clientVars
<1> QED
  BY <1>2, <1>3, <1>4, <1>5, <1>6 DEF Next
-----------------------------------------------------------------------------
(* The accounting of the client                                            *)

(* A closed connection stays closed.                                       *)
LEMMA ClosedStays ==
    ASSUME [Next]_vars, server = "closed"
    PROVE  server' = "closed"
BY DEF Next, vars, serverVars, StopClient, BeginRequest, MissTurn, WritePacket, WriteTooEarly,
   WriteInVain, CountPacket, OpenStreams, Deliver, ReceiverEnds, ReceiveSome, Receive, Respond,
   ServerEnds

(* The unlocked test of counter, however stale the value it reads, finds   *)
(* at most BUFFER_SIZE requests under way.                                 *)
LEMMA StaleTest ==
    ASSUME TypeOK, SenderInv, AccountInv, server # "closed", BeginRequest
    PROVE  begun - delivered <= BUFFER_SIZE
<1> USE SizeAssumption DEF SizeAssumption, TypeOK
<1>1. PICK k \in 0..unseen : counter + QUERY_SIZE * k <= QUERY_SIZE * BUFFER_SIZE
  BY DEF BeginRequest, CounterReads
<1>2. QUERY_SIZE * k >= 0
  OBVIOUS
<1>3. counter = QUERY_SIZE * (begun - delivered)
  <2>1. remain = 0
    BY DEF BeginRequest, SenderInv
  <2> QED
    BY <2>1 DEF AccountInv
<1>4. QUERY_SIZE * (begun - delivered) <= QUERY_SIZE * BUFFER_SIZE
  BY <1>1, <1>2, <1>3
<1>5. begun - delivered \in Int
  OBVIOUS
<1> QED
  BY <1>4, <1>5, Cancel

(* The counter stays exact and the window is kept.                         *)
LEMMA AccountStep ==
    ASSUME TypeOK, SenderInv, AccountInv, [Next]_vars
    PROVE  AccountInv'
<1> SUFFICES ASSUME server' # "closed"
             PROVE  /\ counter' = QUERY_SIZE * (begun' - delivered') - remain'
                    /\ begun' - delivered' <= BUFFER_SIZE + 1
  BY DEF AccountInv
<1>1. server # "closed"
  BY ClosedStays
<1>2. /\ counter = QUERY_SIZE * (begun - delivered) - remain
      /\ begun - delivered <= BUFFER_SIZE + 1
  BY <1>1 DEF AccountInv
<1> USE SizeAssumption DEF SizeAssumption, TypeOK
<1>3. CASE BeginRequest
  <2>1. remain = 0 /\ remain' = QUERY_SIZE /\ begun' = begun + 1 /\ delivered' = delivered
            /\ counter' = counter
    BY <1>3 DEF BeginRequest, SenderInv, NextPacket
  <2>2. QUERY_SIZE * (begun + 1 - delivered) = QUERY_SIZE * (begun - delivered) + QUERY_SIZE
    OBVIOUS
  <2>3. begun - delivered <= BUFFER_SIZE
    BY <1>1, <1>3, StaleTest
  <2> QED
    BY <1>2, <2>1, <2>2, <2>3
<1>4. CASE CountPacket
  <2>1. counter' = counter + packet /\ begun' = begun /\ delivered' = delivered
    BY <1>4 DEF CountPacket
  <2>2. remain' = remain - packet
    BY <1>4 DEF CountPacket, NextPacket, SenderInv
  <2>3. QUERY_SIZE * (begun - delivered) \in Int
    OBVIOUS
  <2> QED
    BY <1>2, <2>1, <2>2, <2>3
<1>5. CASE Deliver
  <2>1. counter' = counter - QUERY_SIZE /\ begun' = begun /\ delivered' = delivered + 1
            /\ remain' = remain
    BY <1>5 DEF Deliver, clientVars
  <2>2. QUERY_SIZE * (begun - (delivered + 1)) = QUERY_SIZE * (begun - delivered) - QUERY_SIZE
    OBVIOUS
  <2>3. QUERY_SIZE * (begun - delivered) \in Int
    OBVIOUS
  <2> QED
    BY <1>2, <2>1, <2>2, <2>3
<1>6. CASE WriteInVain
  BY <1>1, <1>6 DEF WriteInVain
<1>7. CASE StopClient \/ MissTurn \/ WritePacket \/ WriteTooEarly \/ OpenStreams
             \/ ReceiverEnds \/ ReceiveSome \/ Respond \/ ServerEnds \/ UNCHANGED vars
  <2>1. UNCHANGED <<counter, begun, delivered, remain>>
    BY <1>7 DEF StopClient, MissTurn, WritePacket, WriteTooEarly, OpenStreams, ReceiverEnds,
       ReceiveSome, Receive, Respond, ServerEnds, vars, clientVars
  <2> QED
    BY <1>2, <2>1
<1> QED
  BY <1>3, <1>4, <1>5, <1>6, <1>7 DEF Next

(* The time of a request is kept until its response has been read.         *)
LEMMA TimesStep ==
    ASSUME TypeOK, SenderInv, AccountInv, OwnSendTime, [Next]_vars
    PROVE  OwnSendTime'
<1> SUFFICES ASSUME BUFFER_SIZE < MAX_ID, server' # "closed",
                    NEW m \in delivered'..(begun' - 1)
             PROVE  sentTime'[m % MAX_ID] = m
  BY DEF OwnSendTime
<1>1. server # "closed"
  BY ClosedStays
<1> USE SizeAssumption DEF SizeAssumption, TypeOK
<1>2. \A j \in delivered..(begun - 1) : sentTime[j % MAX_ID] = j
  BY <1>1 DEF OwnSendTime
<1>3. CASE BeginRequest
  <2>1. /\ sentTime' = [sentTime EXCEPT ![begun % MAX_ID] = begun]
        /\ begun' = begun + 1
        /\ delivered' = delivered
    BY <1>3 DEF BeginRequest
  <2>2. begun % MAX_ID \in 0..(MAX_ID - 1) /\ m % MAX_ID \in 0..(MAX_ID - 1) /\ m \in Nat
    BY <2>1
  <2>3. CASE m = begun
    BY <2>1, <2>2, <2>3
  <2>4. CASE m # begun
    <3>1. m \in delivered..(begun - 1) /\ m < begun
      BY <2>1, <2>4
    <3>2. begun - m < MAX_ID
      BY <1>1, <1>3, <3>1, StaleTest
    <3>3. begun % MAX_ID # m % MAX_ID
      BY <2>2, <3>1, <3>2, DifferentIds
    <3>4. sentTime'[m % MAX_ID] = sentTime[m % MAX_ID]
      BY <2>1, <2>2, <3>3
    <3> QED
      BY <1>2, <3>1, <3>4
  <2> QED BY <2>3, <2>4
<1>4. CASE Deliver
  <2>1. sentTime' = sentTime /\ begun' = begun /\ delivered' = delivered + 1
    BY <1>4 DEF Deliver, clientVars
  <2>2. m \in delivered..(begun - 1)
    BY <2>1
  <2> QED
    BY <1>2, <2>1, <2>2
<1>5. CASE StopClient \/ MissTurn \/ WritePacket \/ WriteTooEarly \/ WriteInVain \/ CountPacket
             \/ OpenStreams \/ ReceiverEnds \/ ReceiveSome \/ Respond \/ ServerEnds
             \/ UNCHANGED vars
  <2>1. UNCHANGED <<sentTime, begun, delivered>>
    BY <1>5 DEF StopClient, MissTurn, WritePacket, WriteTooEarly, WriteInVain, CountPacket,
       OpenStreams, ReceiverEnds, ReceiveSome, Receive, Respond, ServerEnds, vars, clientVars
  <2> QED
    BY <1>2, <2>1
<1> QED
  BY <1>3, <1>4, <1>5 DEF Next
-----------------------------------------------------------------------------
(* The stream and the server                                               *)

(* The newlines stay at the ends of the requests.                          *)
LEMMA StreamStep ==
    ASSUME TypeOK, SenderInv, RestInv, StreamInv, [Next]_vars
    PROVE  StreamInv'
<1> DEFINE Ends(b, w) == {p \in 1..w : \E k \in 1..b : p = QUERY_SIZE * k}
<1> SUFFICES ASSUME SoundParameters, server' # "closed"
             PROVE  /\ written' = QUERY_SIZE * begun' - remain'
                                    + (IF sender' = "count" THEN packet' ELSE 0)
                    /\ lines' = Ends(begun', written')
  BY DEF StreamInv, SoundParameters
<1>1. server # "closed"
  BY ClosedStays
<1>2. /\ written = QUERY_SIZE * begun - remain + (IF sender = "count" THEN packet ELSE 0)
      /\ lines = Ends(begun, written)
  BY <1>1 DEF StreamInv
<1> USE SizeAssumption DEF SizeAssumption, TypeOK
<1>3. CASE BeginRequest
  <2>1. /\ sender = "sleep" /\ remain = 0
        /\ begun' = begun + 1 /\ remain' = QUERY_SIZE
        /\ sender' \in {"write", "dead"}
        /\ UNCHANGED <<written, lines>>
    BY <1>3 DEF BeginRequest, SenderInv, NextPacket
  <2>2. QUERY_SIZE * (begun + 1) = QUERY_SIZE * begun + QUERY_SIZE
    OBVIOUS
  <2>3. written = QUERY_SIZE * begun /\ written < QUERY_SIZE * (begun + 1)
    BY <1>2, <2>1, <2>2
  <2>4. Ends(begun + 1, written) = Ends(begun, written)
    <3>1. ASSUME NEW p \in Ends(begun + 1, written)
          PROVE  p \in Ends(begun, written)
      <4>1. PICK k \in 1..(begun + 1) : p = QUERY_SIZE * k
        BY <3>1
      <4>2. k # begun + 1
        BY <2>3, <3>1, <4>1
      <4> QED BY <3>1, <4>1, <4>2
    <3>2. ASSUME NEW p \in Ends(begun, written)
          PROVE  p \in Ends(begun + 1, written)
      <4>1. PICK k \in 1..begun : p = QUERY_SIZE * k
        BY <3>2
      <4>2. k \in 1..(begun + 1)
        OBVIOUS
      <4> QED BY <3>2, <4>1, <4>2
    <3> QED BY <3>1, <3>2
  <2>5. written' = QUERY_SIZE * begun' - remain' + (IF sender' = "count" THEN packet' ELSE 0)
    BY <2>1, <2>2, <2>3
  <2>6. lines' = Ends(begun', written')
    BY <1>2, <2>1, <2>4
  <2> QED
    BY <2>5, <2>6
<1>4. CASE WritePacket
  <2>1. /\ sender = "write" /\ sender' = "count"
        /\ written' = written + packet
        /\ UNCHANGED <<begun, remain, packet>>
        /\ packet \in 1..remain /\ remain \in 1..QUERY_SIZE /\ packet < QUERY_SIZE
    BY <1>4 DEF WritePacket, SenderInv, RestInv, clientVars
  <2>2. written = QUERY_SIZE * begun - remain
    BY <1>2, <2>1
  <2>3. begun >= 1
    <3>1. CASE begun = 0
      <4>1. QUERY_SIZE * begun = 0
        BY <3>1
      <4> QED BY <2>1, <2>2, <4>1
    <3> QED BY <3>1
  <2>4. QUERY_SIZE * (begun - 1) = QUERY_SIZE * begun - QUERY_SIZE
    OBVIOUS
  <2>5. ASSUME NEW k \in 1..begun, written < QUERY_SIZE * k, QUERY_SIZE * k <= written + packet
        PROVE  packet = remain /\ QUERY_SIZE * k = written + packet
    <3>1. QUERY_SIZE * (begun - 1) < QUERY_SIZE * k
      BY <2>1, <2>2, <2>4, <2>5
    <3>2. QUERY_SIZE * k >= QUERY_SIZE * (begun - 1) + QUERY_SIZE
      BY <3>1, NoMultiple, begun - 1 \in Int, k \in Int
    <3> QED BY <2>1, <2>2, <2>4, <2>5, <3>2
  <2>6. CASE packet = remain
    <3>1. lines' = lines \cup {written + packet}
      BY <1>4, <2>1, <2>6 DEF WritePacket
    <3>2. written + packet = QUERY_SIZE * begun /\ begun \in 1..begun
      BY <2>2, <2>3, <2>6
    <3>3. Ends(begun, written + packet) = Ends(begun, written) \cup {written + packet}
      <4>1. written + packet \in Ends(begun, written + packet)
        BY <2>1, <3>2
      <4>2. Ends(begun, written) \subseteq Ends(begun, written + packet)
        BY <2>1
      <4>3. ASSUME NEW p \in Ends(begun, written + packet), p # written + packet
            PROVE  p \in Ends(begun, written)
        <5>1. PICK k \in 1..begun : p = QUERY_SIZE * k
          BY <4>3
        <5>2. ASSUME written < p PROVE FALSE
          <6>1. QUERY_SIZE * k <= written + packet /\ written < QUERY_SIZE * k
            BY <4>3, <5>1, <5>2
          <6> QED BY <2>5, <4>3, <5>1, <6>1
        <5> QED BY <5>1, <5>2, <4>3
      <4> QED BY <4>1, <4>2, <4>3
    <3> QED BY <1>2, <2>1, <2>2, <3>1, <3>3
  <2>7. CASE packet # remain
    <3>1. lines' = lines
      BY <1>4, <2>7 DEF WritePacket
    <3>2. Ends(begun, written + packet) = Ends(begun, written)
      <4>1. Ends(begun, written) \subseteq Ends(begun, written + packet)
        BY <2>1
      <4>2. ASSUME NEW p \in Ends(begun, written + packet)
            PROVE  p \in Ends(begun, written)
        <5>1. PICK k \in 1..begun : p = QUERY_SIZE * k
          BY <4>2
        <5>2. ASSUME written < p PROVE FALSE
          <6>1. QUERY_SIZE * k <= written + packet /\ written < QUERY_SIZE * k
            BY <4>2, <5>1, <5>2
          <6> QED BY <2>5, <2>7, <6>1
        <5> QED BY <5>1, <5>2, <4>2
      <4> QED BY <4>1, <4>2
    <3> QED BY <1>2, <2>1, <2>2, <3>1, <3>2
  <2> QED BY <2>6, <2>7
<1>5. CASE CountPacket
  <2>1. /\ sender = "count" /\ sender' \in {"write", "dead", "sleep"}
        /\ remain' = remain - packet
        /\ UNCHANGED <<begun, written, lines>>
    BY <1>5 DEF CountPacket, NextPacket, SenderInv
  <2> QED BY <1>2, <2>1
<1>6. CASE WriteTooEarly
  BY <1>2, <1>6 DEF WriteTooEarly, clientVars
<1>7. CASE WriteInVain
  BY <1>1, <1>7 DEF WriteInVain
<1>8. CASE StopClient \/ MissTurn \/ OpenStreams \/ Deliver \/ ReceiverEnds \/ ReceiveSome
             \/ Respond \/ ServerEnds \/ UNCHANGED vars
  <2>1. UNCHANGED <<sender, begun, remain, packet, written, lines>>
    BY <1>8 DEF StopClient, MissTurn, OpenStreams, Deliver, ReceiverEnds, ReceiveSome, Receive,
       Respond, ServerEnds, vars, clientVars
  <2> QED BY <1>2, <2>1
<1> QED
  BY <1>3, <1>4, <1>5, <1>6, <1>7, <1>8 DEF Next

(* The heart of the matter: a recv of at most one request's length reaches *)
(* the end of at most one request.  What is used of it never makes         *)
(* buffer_data longer than a request.                                      *)
LEMMA UsedFits ==
    ASSUME TypeOK, SenderInv, StreamInv, ServerInv, SoundParameters, server = "recv",
           NEW n \in 1..RECV_SIZE, n <= written - received
    PROVE  \/ buffered + Used(n) < QUERY_SIZE /\ Used(n) = n
           \/ /\ buffered + Used(n) = QUERY_SIZE
              /\ n - Used(n) \in 0..(QUERY_SIZE - 1)
<1> USE SizeAssumption DEF SizeAssumption, TypeOK
<1> DEFINE end == QUERY_SIZE * answered + QUERY_SIZE
           P == {p \in lines : received < p /\ p <= received + n}
<1>1. /\ received = QUERY_SIZE * answered + buffered
      /\ buffered < QUERY_SIZE
      /\ QUERY_SIZE * answered \in Nat
  BY DEF ServerInv
<1>2. n \in Nat /\ n <= QUERY_SIZE
  BY DEF SoundParameters
<1>3. end = QUERY_SIZE * (answered + 1)
  OBVIOUS
<1>4. lines = {p \in 1..written : \E k \in 1..begun : p = QUERY_SIZE * k}
  BY DEF StreamInv
<1>5. written <= QUERY_SIZE * begun
  BY DEF StreamInv, SenderInv
<1>6. ASSUME NEW p \in P PROVE p = end
  <2>1. PICK k \in 1..begun : p = QUERY_SIZE * k
    BY <1>4
  <2>2. p \in Nat /\ QUERY_SIZE * answered < p /\ p < end + QUERY_SIZE
    BY <1>1, <1>2, <1>4
  <2>3. p >= end
    BY <2>1, <2>2, NoMultiple, answered \in Int, k \in Int
  <2>4. QUERY_SIZE * (answered + 1) >= p
    BY <1>3, <2>1, <2>2, NoMultiple, answered + 1 \in Int, k \in Int
  <2> QED BY <1>3, <2>2, <2>3, <2>4
<1>7. ASSUME end <= received + n PROVE end \in P
  <2>1. end <= written
    BY <1>1, <1>2, <1>7
  <2>2. answered + 1 <= begun
    BY <1>3, <1>5, <2>1, Cancel, answered + 1 \in Int, begun \in Int
  <2>3. end \in 1..written /\ answered + 1 \in 1..begun
    BY <1>1, <2>1, <2>2
  <2>4. end \in lines
    BY <1>3, <1>4, <2>3
  <2>5. received < end
    BY <1>1
  <2> HIDE DEF end
  <2> QED BY <1>7, <2>4, <2>5
<1> HIDE DEF P
<1>8. CASE received + n < end
  <2>1. P = {}
    <3>1. SUFFICES ASSUME NEW p \in P PROVE FALSE
      OBVIOUS
    <3>2. p \in Nat /\ p <= received + n
      BY DEF P
    <3>3. p = end
      BY <1>6
    <3> QED BY <1>1, <1>2, <1>8, <3>2, <3>3
  <2>2. Used(n) = n
    BY <2>1 DEF Used, P
  <2> QED BY <1>1, <1>2, <1>8, <2>2
<1>9. CASE received + n = end
  <2>1. received + n \in lines
    BY <1>1, <1>2, <1>7, <1>9 DEF P
  <2>2. Used(n) = n
    BY <2>1 DEF Used
  <2> QED BY <1>1, <1>2, <1>9, <2>2
<1>10. CASE received + n > end
  <2>1. P # {} /\ P \subseteq Nat
    <3>1. end <= received + n
      BY <1>1, <1>2, <1>10
    <3>2. end \in P
      BY <1>7, <3>1
    <3>3. P \subseteq Nat
      BY DEF P
    <3> HIDE DEF end
    <3> QED BY <3>2, <3>3
  <2>2. received + n \notin lines
    <3>1. SUFFICES ASSUME received + n \in lines PROVE FALSE
      OBVIOUS
    <3>2. received + n \in P
      BY <1>2, <3>1 DEF P
    <3> QED BY <1>1, <1>2, <1>6, <1>10, <3>2
  <2>3. Min(P) = end
    BY <1>6, <2>1, MinIsLeast
  <2>4. Used(n) = Min(P) - received
    BY <2>1, <2>2 DEF Used, P
  <2> QED BY <1>1, <1>2, <1>10, <2>3, <2>4
<1> QED
  BY <1>1, <1>2, <1>8, <1>9, <1>10

(* The server stays in step with the client, and does not close an open    *)
(* connection.                                                             *)
LEMMA ServerStep ==
    ASSUME TypeOK, SenderInv, StreamInv, ServerInv, InSync, [Next]_vars
    PROVE  ServerInv' /\ InSync'
<1> SUFFICES ASSUME SoundParameters
             PROVE  /\ open' => server' # "closed"
                    /\ server' # "closed" =>
                        /\ received' = QUERY_SIZE * answered' + buffered' + next'
                        /\ received' <= written'
                        /\ server' = "recv" => next' = 0 /\ buffered' < QUERY_SIZE
                        /\ server' = "sleep" => buffered' = QUERY_SIZE /\ next' < QUERY_SIZE
  BY DEF ServerInv, InSync, SoundParameters
<1> USE SizeAssumption DEF SizeAssumption, TypeOK
<1>1. server # "closed" =>
        /\ received = QUERY_SIZE * answered + buffered + next
        /\ received <= written
        /\ server = "recv" => next = 0 /\ buffered < QUERY_SIZE
        /\ server = "sleep" => buffered = QUERY_SIZE /\ next < QUERY_SIZE
  BY DEF ServerInv
<1>2. open => server # "closed"
  BY DEF InSync
<1>3. CASE ReceiveSome
  <2>1. PICK n \in 1..RECV_SIZE : Receive(n)
    BY <1>3 DEF ReceiveSome
  <2>2. /\ server = "recv" /\ n <= written - received
        /\ received' = received + n
        /\ buffered' = buffered + Used(n)
        /\ next' = next + n - Used(n)
        /\ UNCHANGED <<open, written, answered>>
    BY <2>1 DEF Receive
  <2>3. \/ buffered + Used(n) < QUERY_SIZE /\ Used(n) = n
        \/ buffered + Used(n) = QUERY_SIZE /\ n - Used(n) \in 0..(QUERY_SIZE - 1)
    BY <2>2, UsedFits
  <2>4. Used(n) \in 0..n /\ QUERY_SIZE * answered \in Nat
    BY UsedRange
  <2>5. CASE buffered + Used(n) < QUERY_SIZE /\ Used(n) = n
    <3>1. server' = "recv"
      BY <2>1, <2>4, <2>5 DEF Receive
    <3> QED BY <1>1, <2>2, <2>4, <2>5, <3>1
  <2>6. CASE buffered + Used(n) = QUERY_SIZE /\ n - Used(n) \in 0..(QUERY_SIZE - 1)
    <3>1. HasFields(buffered + Used(n))
      BY <2>6 DEF HasFields
    <3>2. server' = "sleep"
      BY <2>1, <2>6, <3>1 DEF Receive
    <3> QED BY <1>1, <2>2, <2>4, <2>6, <3>2
  <2> QED BY <2>3, <2>5, <2>6
<1>4. CASE Respond
  <2>1. /\ server = "sleep" /\ server' = "recv"
        /\ answered' = answered + 1 /\ buffered' = next /\ next' = 0
        /\ UNCHANGED <<received, written>>
    BY <1>4 DEF Respond
  <2>2. QUERY_SIZE * (answered + 1) = QUERY_SIZE * answered + QUERY_SIZE
    OBVIOUS
  <2> QED BY <1>1, <2>1, <2>2
<1>5. CASE ServerEnds
  BY <1>5 DEF ServerEnds
<1>6. CASE WritePacket
  BY <1>1, <1>2, <1>6 DEF WritePacket, serverVars
<1>7. CASE StopClient \/ ReceiverEnds
  BY <1>1, <1>7 DEF StopClient, ReceiverEnds, serverVars
<1>8. CASE BeginRequest \/ MissTurn \/ WriteTooEarly \/ WriteInVain \/ CountPacket \/ OpenStreams
             \/ Deliver \/ UNCHANGED vars
  <2>1. UNCHANGED <<open, written, serverVars>>
    BY <1>8 DEF BeginRequest, MissTurn, WriteTooEarly, WriteInVain, CountPacket, OpenStreams,
       Deliver, vars
  <2> QED BY <1>1, <1>2, <2>1 DEF serverVars
<1> QED
  BY <1>3, <1>4, <1>5, <1>6, <1>7, <1>8 DEF Next

(* ... and therefore the client is not interrupted in the middle of a      *)
(* request: only the sender itself closes the connection.                  *)
LEMMA CloseStep ==
    ASSUME InSync, CloseInv, [Next]_vars
    PROVE  CloseInv'
<1> SUFFICES ASSUME SoundParameters, ~open' PROVE sender' = "sleep"
  BY DEF CloseInv
<1>1. CASE StopClient
  BY <1>1 DEF StopClient
<1>2. CASE ReceiverEnds
  BY <1>2 DEF ReceiverEnds, InSync
<1>3. CASE ~(StopClient \/ ReceiverEnds)
  <2>1. ~open
    BY <1>3 DEF Next, vars, BeginRequest, MissTurn, WritePacket, WriteTooEarly, WriteInVain,
                CountPacket, OpenStreams, Deliver, ReceiveSome, Receive, Respond, ServerEnds
  <2>2. sender = "sleep"
    BY <2>1 DEF CloseInv
  <2> QED
    BY <1>3, <2>1, <2>2
    DEF Next, vars, BeginRequest, MissTurn, WritePacket, WriteTooEarly, WriteInVain,
        CountPacket, OpenStreams, Deliver, ReceiveSome, Receive, Respond, ServerEnds
<1> QED
  BY <1>1, <1>2, <1>3

-----------------------------------------------------------------------------
(* The theorems                                                            *)

(* The types, and the inductive invariant.                                 *)
THEOREM SiriInvariant == Spec => [](TypeOK /\ SiriInv)
<1>1. Init => TypeOK /\ SiriInv
  <2> SUFFICES ASSUME Init PROVE TypeOK /\ SiriInv
    OBVIOUS
  <2> USE SizeAssumption DEF SizeAssumption
  <2>1. TypeOK
    <3>1. open \in BOOLEAN /\ streams \in BOOLEAN /\ missed \in BOOLEAN /\ first \in BOOLEAN
      BY Zenon DEF Init
    <3>2. sentTime \in [0..(MAX_ID - 1) -> Nat \cup {-1}]
      BY DEF Init
    <3> QED BY <3>1, <3>2 DEF Init, TypeOK
  <2>2. SenderInv /\ RestInv /\ InSync /\ CloseInv
    BY DEF Init, SenderInv, RestInv, InSync, CloseInv
  <2>3. AccountInv
    BY DEF Init, AccountInv
  <2>4. OwnSendTime
    BY DEF Init, OwnSendTime
  <2>5. StreamInv
    BY DEF Init, StreamInv
  <2>6. ServerInv
    BY DEF Init, ServerInv
  <2> QED BY <2>1, <2>2, <2>3, <2>4, <2>5, <2>6 DEF SiriInv
<1>2. TypeOK /\ SiriInv /\ [Next]_vars => (TypeOK /\ SiriInv)'
  BY TypeStep, RestStep, AccountStep, TimesStep, StreamStep, ServerStep, CloseStep
  DEF SiriInv
<1> QED
  BY <1>1, <1>2, PTL DEF Spec

(* The types of Siri.                                                      *)
THEOREM SiriTypeCorrect == Spec => []TypeOK
BY SiriInvariant, PTL

(* With sound parameters the server never takes the end of one request for *)
(* a part of another, whatever the packets and the recvs.                  *)
THEOREM ServerInSync == Spec => []InSync
<1>1. SiriInv => InSync
  BY DEF SiriInv
<1> QED
  BY <1>1, SiriInvariant, PTL

(* With sound parameters the assertion of sizeOfNextPacket never fails.    *)
THEOREM PacketsExist == Spec => []AlwaysAPacket
<1>1. TypeOK /\ SiriInv => AlwaysAPacket
  <2> SUFFICES ASSUME TypeOK, SiriInv, SoundParameters, remain > 0
               PROVE  PacketSizes(remain) # {}
    BY DEF AlwaysAPacket
  <2>1. remain \in 1..QUERY_SIZE /\ remain >= MIN_PAYLOAD_SIZE
    BY SizeAssumption DEF SizeAssumption, TypeOK, SiriInv, SenderInv, RestInv
  <2> QED BY <2>1, PacketLeaves
<1> QED
  BY <1>1, SiriInvariant, PTL

(* Between two requests counter is the size of the requests without an     *)
(* answer, for every interleaving of the two threads.                      *)
THEOREM CounterIsExact == Spec => []CounterExact
<1>1. TypeOK /\ SiriInv => CounterExact
  BY SizeAssumption DEF SizeAssumption, TypeOK, SiriInv, SenderInv, AccountInv, CounterExact
<1> QED
  BY <1>1, SiriInvariant, PTL

(* The stale test of counter keeps the window.                             *)
THEOREM WindowIsKept == Spec => []WindowBound
<1>1. SiriInv => WindowBound
  BY DEF SiriInv, AccountInv, WindowBound
<1> QED
  BY <1>1, SiriInvariant, PTL

(* A delay is computed from the time of its own request as long as the     *)
(* window is no larger than the array of times.                            *)
THEOREM TimesAreOwn == Spec => []OwnSendTime
<1>1. SiriInv => OwnSendTime
  BY DEF SiriInv
<1> QED
  BY <1>1, SiriInvariant, PTL

-----------------------------------------------------------------------------
(* The refinement                                                          *)

(* A response answers a request that was written to its last byte.         *)
LEMMA RespondsToIssued ==
    ASSUME TypeOK, SiriInv, SoundParameters, server = "sleep"
    PROVE  answered < Issued
<1> USE SizeAssumption DEF SizeAssumption, TypeOK
<1>1. /\ QUERY_SIZE * answered + QUERY_SIZE <= written
      /\ written = QUERY_SIZE * begun - remain + (IF sender = "count" THEN packet ELSE 0)
      /\ remain \in 0..QUERY_SIZE
      /\ sender \in {"write", "count"} => packet \in 1..remain
  BY DEF SiriInv, ServerInv, StreamInv, SenderInv
<1>2. QUERY_SIZE * (answered + 1) = QUERY_SIZE * answered + QUERY_SIZE
  OBVIOUS
<1>3. QUERY_SIZE * begun \in Nat /\ QUERY_SIZE * (answered + 1) \in Nat
  OBVIOUS
<1>4. CASE Issued = begun
  <2>1. QUERY_SIZE * (answered + 1) <= QUERY_SIZE * begun
    BY <1>1, <1>2, <1>3
  <2>2. answered + 1 <= begun
    BY <2>1, Cancel
  <2> QED
    BY <1>4, <2>2
<1>5. CASE Issued # begun
  <2>1. Issued = begun - 1 /\ remain # 0 /\ ~(sender = "count" /\ packet >= remain)
    BY <1>5 DEF Issued
  <2>2. QUERY_SIZE * (answered + 1) < QUERY_SIZE * begun
    BY <1>1, <1>2, <1>3, <2>1
  <2>3. ~(begun <= answered + 1)
    BY <1>3, <2>2, Monotone, begun \in Int, answered + 1 \in Int
  <2> QED
    BY <2>1, <2>3
<1> QED
  BY <1>4, <1>5

(* Every step of the two programs is a step of the abstract exchange, or   *)
(* none.                                                                   *)
LEMMA StepRefines ==
    ASSUME TypeOK, SiriInv, SoundParameters, [Next]_vars
    PROVE  [RR!Next]_RR!vars
<1> USE SizeAssumption DEF SizeAssumption
<1>1. /\ begun \in Nat /\ answered \in Nat /\ delivered \in Nat
      /\ remain \in Nat /\ packet \in Nat
  BY DEF TypeOK
<1>2. ASSUME UNCHANGED <<open, answered, delivered>>, Issued' = Issued
      PROVE  UNCHANGED RR!vars
  BY <1>2 DEF RR!vars
<1>3. CASE StopClient
  <2>1. RR!Close
    BY <1>3 DEF StopClient, RR!Close, Issued, clientVars, serverVars
  <2> QED
    BY <2>1 DEF RR!Next
<1>4. CASE BeginRequest
  <2>1. remain = 0 /\ sender = "sleep"
    BY <1>4 DEF BeginRequest, SiriInv, SenderInv
  <2>2. remain' = QUERY_SIZE /\ sender' # "count" /\ begun' = begun + 1
    BY <1>4 DEF BeginRequest, NextPacket
  <2>3. Issued' = Issued
    BY <1>1, <2>1, <2>2 DEF Issued
  <2> QED
    BY <1>2, <1>4, <2>3 DEF BeginRequest, serverVars
<1>5. CASE WritePacket
  <2>1. /\ server # "closed" /\ sender = "write" /\ sender' = "count"
        /\ UNCHANGED <<open, begun, remain, packet, answered, delivered>>
    BY <1>5 DEF WritePacket, clientVars, serverVars
  <2>2. packet \in 1..remain /\ Issued = begun - 1
    BY <2>1 DEF SiriInv, SenderInv, Issued
  <2>3. CASE packet = remain
    <3>1. Issued' = begun
      BY <1>1, <2>1, <2>3 DEF Issued
    <3>2. open
      BY <2>1 DEF SiriInv, CloseInv
    <3>3. begun - delivered <= BUFFER_SIZE + 1
      BY <2>1 DEF SiriInv, AccountInv
    <3>4. RR!Issue
      BY <1>1, <2>1, <2>2, <3>1, <3>2, <3>3 DEF RR!Issue
    <3> QED
      BY <3>4 DEF RR!Next
  <2>4. CASE packet # remain
    <3>1. Issued' = Issued
      BY <1>1, <2>1, <2>2, <2>4 DEF Issued
    <3> QED
      BY <1>2, <2>1, <3>1
  <2> QED
    BY <2>3, <2>4
<1>6. CASE WriteTooEarly
  <2>1. /\ sender = "write" /\ sender' = "dead"
        /\ UNCHANGED <<open, begun, remain, answered, delivered>>
    BY <1>6 DEF WriteTooEarly, clientVars, serverVars
  <2>2. Issued' = Issued
    BY <2>1 DEF Issued
  <2> QED
    BY <1>2, <2>1, <2>2
<1>7. CASE WriteInVain
  BY <1>7 DEF WriteInVain, SiriInv, InSync, CloseInv
<1>8. CASE CountPacket
  <2>1. /\ sender = "count" /\ packet \in 1..remain
        /\ UNCHANGED <<open, begun, answered, delivered>>
    BY <1>8 DEF CountPacket, serverVars, SiriInv, SenderInv
  <2>2. CASE packet < remain
    <3>1. remain' = remain - packet /\ sender' # "count"
      BY <1>8, <2>2 DEF CountPacket, NextPacket
    <3>2. Issued' = Issued
      BY <1>1, <2>1, <2>2, <3>1 DEF Issued
    <3> QED
      BY <1>2, <2>1, <3>2
  <2>3. CASE ~(packet < remain)
    <3>1. remain' = 0
      BY <1>8, <2>3 DEF CountPacket
    <3>2. Issued' = Issued
      BY <1>1, <2>1, <2>3, <3>1 DEF Issued
    <3> QED
      BY <1>2, <2>1, <3>2
  <2> QED
    BY <2>2, <2>3
<1>9. CASE Deliver
  <2>1. RR!Deliver
    BY <1>9 DEF Deliver, RR!Deliver, Issued, clientVars, serverVars
  <2> QED
    BY <2>1 DEF RR!Next
<1>10. CASE ReceiverEnds
  BY <1>10 DEF ReceiverEnds, SiriInv, InSync
<1>11. CASE Respond
  <2>1. answered < Issued
    BY <1>11, RespondsToIssued DEF Respond
  <2>2. RR!Answer
    BY <1>11, <2>1 DEF Respond, RR!Answer, Issued, clientVars
  <2> QED
    BY <2>2 DEF RR!Next
<1>12. CASE MissTurn \/ OpenStreams \/ ReceiveSome \/ ServerEnds \/ UNCHANGED vars
  <2>1. UNCHANGED <<open, sender, begun, remain, packet, answered, delivered>>
    BY <1>12 DEF MissTurn, OpenStreams, ReceiveSome, Receive, ServerEnds, vars, clientVars,
                 serverVars
  <2> QED
    BY <1>2, <2>1 DEF Issued
<1> QED
  BY <1>3, <1>4, <1>5, <1>6, <1>7, <1>8, <1>9, <1>10, <1>11, <1>12 DEF Next

(* With sound parameters the two programs implement the exchange of        *)
(* RequestReply, but for its fairness: whatever the packets, the recvs and *)
(* the interleaving of the threads, requests are answered once and in      *)
(* order, only when complete, and at most BUFFER_SIZE + 1 are under way.   *)
THEOREM SiriRefines ==
    ASSUME SoundParameters
    PROVE  Spec => RR!Spec
<1>1. Init => RR!Init
  BY DEF Init, RR!Init, Issued
<1>2. TypeOK /\ SiriInv /\ [Next]_vars => [RR!Next]_RR!vars
  BY StepRefines
<1> QED
  BY <1>1, <1>2, SiriInvariant, PTL DEF Spec, RR!Spec
=============================================================================
