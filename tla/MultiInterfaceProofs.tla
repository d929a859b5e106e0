------------------------ MODULE MultiInterfaceProofs ------------------------
(***************************************************************************)
(* The topologies of MultiInterface, for every number of links and all     *)
(* subnets: what the loops computed from indices is what the network that  *)
(* they have built looks like.                                             *)
(***************************************************************************)
EXTENDS MultiInterface, TLAPS

-----------------------------------------------------------------------------
(* The loops                                                               *)

LEMMA Turns ==
    /\ Turn("c2r") = 1 /\ Turn("r2s") = 2 /\ Turn("clients") = 3 /\ Turn("servers") = 4
    /\ Turn("client_addresses") = 5 /\ Turn("router_addresses") = 6
    /\ Turn("server_addresses") = 7 /\ Turn("clients_addresses") = 8
    /\ Turn("servers_addresses") = 9 /\ Turn("client_routes") = 10
    /\ Turn("server_routes") = 11 /\ Turn("client_default") = 12
    /\ Turn("server_default") = 13 /\ Turn("clients_routes") = 14
    /\ Turn("servers_routes") = 15 /\ Turn("done") = 16
BY DEF Turn

(* The turns of the loops, for the numbers of links of one network.        *)
LEMMA Limits ==
    /\ Limit("c2r") = nc /\ Limit("client_addresses") = nc /\ Limit("router_addresses") = nc
    /\ Limit("client_routes") = nc
    /\ Limit("r2s") = ns /\ Limit("server_routes") = ns
    /\ Limit("server_addresses") = ServerConnections
    /\ Limit("clients") = IF multi THEN nc ELSE 0
    /\ Limit("servers") = IF multi THEN nc ELSE 0
    /\ Limit("clients_addresses") = IF multi THEN nc ELSE 0
    /\ Limit("clients_routes") = IF multi THEN nc ELSE 0
    /\ Limit("servers_addresses") = IF multi THEN nc + 1 ELSE 0
    /\ Limit("servers_routes") = IF multi THEN nc + 1 ELSE 0
    /\ Limit("client_default") = 0 /\ Limit("server_default") = 0 /\ Limit("done") = 0
BY DEF Limit

LEMMA LoopTypes ==
    ASSUME TypeOK, NEW loop \in Loops \cup {"done"}
    PROVE  Turn(loop) \in 1..16 /\ Limit(loop) \in 0..(MaxLinks + 1)
<1>1. Turn(loop) \in 1..16
  BY Turns DEF Loops
<1>2. nc \in 0..MaxLinks /\ ns \in 0..MaxLinks /\ ServerConnections \in 0..(MaxLinks + 1)
  BY MultiInterfaceAssumption DEF TypeOK, ServerConnections
<1>3. Limit(loop) \in 0..(MaxLinks + 1)
  BY <1>2, Limits, MultiInterfaceAssumption DEF Loops
<1> QED
  BY <1>1, <1>3

(* The names of the loops and their places in the order.                   *)
LEMMA TurnsDiffer ==
    ASSUME NEW a \in Loops \cup {"done"}, NEW b \in Loops \cup {"done"}, Turn(a) = Turn(b)
    PROVE  a = b
BY Turns DEF Loops

(* A turn of a loop is one more turn of this loop, and leaving a loop      *)
(* changes no count.                                                       *)
LEMMA DoneStep ==
    ASSUME TypeOK, ControlInv, UNCHANGED inputs,
           NEW loop \in Loops, NEW next \in Loops \cup {"done"}, Loop(loop, Limit(loop), next),
           Turn(loop) < Turn(next),
           \A m \in Loops : Turn(loop) < Turn(m) /\ Turn(m) < Turn(next) => Limit(m) = 0
    PROVE  /\ Done[loop] = i
           /\ i < Limit(loop) => /\ Done' = [Done EXCEPT ![loop] = i + 1]
                                 /\ pc' = loop /\ i' = i + 1
           /\ ~(i < Limit(loop)) => Done' = Done /\ pc' = next /\ i' = 0 /\ i = Limit(loop)
<1>1. pc = loop /\ i \in Nat /\ i <= Limit(loop) /\ Limit(loop) \in Nat
  BY LoopTypes DEF Loop, ControlInv, TypeOK
<1>2. \A m \in Loops : Limit(m)' = Limit(m)
  BY DEF Limit, ServerConnections, inputs
<1>3. \A m \in Loops : Turn(m)' = Turn(m)
  BY DEF Turn
<1>4. CASE i < Limit(loop)
  <2>1. pc' = loop /\ i' = i + 1
    BY <1>1, <1>4 DEF Loop
  <2>2. \A m \in Loops : Done'[m] = IF m = loop THEN i + 1 ELSE Done[m]
    BY <1>1, <1>2, <1>3, <2>1 DEF Done
  <2> QED
    BY <1>1, <1>4, <2>1, <2>2 DEF Done
<1>5. CASE ~(i < Limit(loop))
  <2>1. pc' = next /\ i' = 0 /\ i = Limit(loop)
    BY <1>1, <1>5 DEF Loop
  <2>2. ASSUME NEW m \in Loops PROVE Done'[m] = Done[m]
    <3>1. Turn(loop) \in Nat /\ Turn(next) \in Nat /\ Turn(m) \in Nat
      BY LoopTypes
    <3>2. CASE m = loop
      BY <1>1, <1>2, <1>3, <2>1, <3>1, <3>2 DEF Done
    <3>3. CASE m = next
      BY <1>1, <1>2, <1>3, <2>1, <3>1, <3>3 DEF Done
    <3>4. CASE m # loop /\ m # next
      <4>1. Turn(m) # Turn(loop) /\ Turn(m) # Turn(next)
        BY <3>4, TurnsDiffer
      <4>2. Turn(loop) < Turn(m) /\ Turn(m) < Turn(next) => Limit(m) = 0
        OBVIOUS
      <4> QED
        BY <1>1, <1>2, <1>3, <2>1, <3>1, <3>4, <4>1, <4>2 DEF Done
    <3> QED
      BY <3>2, <3>3, <3>4
  <2> QED
    BY <1>1, <1>5, <2>1, <2>2 DEF Done
<1> QED
  BY <1>4, <1>5

LEMMA DoneType ==
    ASSUME TypeOK, ControlInv
    PROVE  /\ Done \in [Loops -> Nat]
           /\ \A m \in Loops : Done[m] <= Limit(m) /\ Limit(m) \in Nat
<1>1. ASSUME NEW m \in Loops PROVE Done[m] \in Nat /\ Done[m] <= Limit(m) /\ Limit(m) \in Nat
  <2>1. Limit(m) \in Nat /\ i \in Nat /\ (pc = m => i <= Limit(m))
    BY LoopTypes DEF TypeOK, ControlInv
  <2> QED
    BY <2>1 DEF Done
<1> QED
  BY <1>1 DEF Done

(* What a step of a loop does to the control.                              *)
Moves(loop, next) ==
    /\ pc = loop /\ i \in Nat /\ Done[loop] = i
    /\ \/ /\ i < Limit(loop)
          /\ Done' = [Done EXCEPT ![loop] = i + 1]
          /\ pc' = loop /\ i' = i + 1
       \/ /\ i = Limit(loop)
          /\ Done' = Done
          /\ pc' = next /\ i' = 0

LEMMA LoopMoves ==
    ASSUME TypeOK, ControlInv, UNCHANGED inputs,
           NEW loop \in Loops, NEW next \in Loops \cup {"done"}, Loop(loop, Limit(loop), next),
           Turn(loop) < Turn(next),
           \A m \in Loops : Turn(loop) < Turn(m) /\ Turn(m) < Turn(next) => Limit(m) = 0
    PROVE  Moves(loop, next)
<1>1. pc = loop /\ i \in Nat
  BY DEF Loop, TypeOK
<1> QED
  BY <1>1, DoneStep DEF Moves

MultiLoops == {"clients", "servers", "clients_addresses", "servers_addresses",
               "clients_routes", "servers_routes"}

LEMMA ControlStep ==
    ASSUME TypeOK, ControlInv, UNCHANGED inputs, NEW loop \in Loops,
           NEW next \in Loops \cup {"done"}, Moves(loop, next),
           ~multi => next \notin MultiLoops, servers' = Done'["clients"] + 1
    PROVE  ControlInv'
<1>1. \A m \in Loops \cup {"done"} : Limit(m)' = Limit(m) /\ Limit(m) \in Nat
  <2>1. \A m \in Loops \cup {"done"} : Limit(m) \in Nat
    BY LoopTypes
  <2>2. \A m \in Loops \cup {"done"} : Limit(m)' = Limit(m)
    BY DEF Limit, ServerConnections, inputs
  <2> QED
    BY <2>1, <2>2
<1>2. pc' \in Loops \cup {"done"} /\ (~multi => pc' \notin MultiLoops)
  BY DEF Moves, ControlInv, MultiLoops
<1>3. i' <= Limit(pc')
  BY <1>1, <1>2 DEF Moves
<1>4. Limit(pc)' = Limit(pc')
  BY <1>2 DEF Limit, ServerConnections, inputs
<1> QED
  BY <1>2, <1>3, <1>4 DEF ControlInv, MultiLoops, inputs

-----------------------------------------------------------------------------
(* What a step leaves alone                                                *)

Same(loops) == \A m \in loops : Done'[m] = Done[m]

LEMMA OthersSame ==
    ASSUME TypeOK, ControlInv, NEW loop \in Loops, NEW next, Moves(loop, next)
    PROVE  Same(Loops \ {loop})
BY DoneType DEF Moves, Same

LEMMA PortsKept ==
    ASSUME PortsInv, UNCHANGED <<inputs, ports>>, Same({"c2r", "r2s", "clients", "servers"}),
           Turn(pc) > 2, Turn(pc') > 2
    PROVE  PortsInv'
<1>1. Turn(pc)' = Turn(pc')
  BY DEF Turn
<1>2. Connections' = Connections
  BY <1>1 DEF Connections, Same, inputs
<1>3. ServerConnections' = ServerConnections
  BY DEF ServerConnections, inputs
<1>4. Done'["c2r"] = Done["c2r"] /\ Done'["clients"] = Done["clients"]
      /\ Done'["servers"] = Done["servers"]
  BY DEF Same
<1> QED
  BY <1>2, <1>3, <1>4 DEF PortsInv, ClientPorts, ServerPorts, RouterPorts, RouterSegment, R2S, inputs

AddressLoops == {"client_addresses", "router_addresses", "server_addresses",
                 "clients_addresses", "servers_addresses"}

LEMMA GivenKept ==
    ASSUME UNCHANGED inputs, Same(AddressLoops)
    PROVE  \A p \in Interfaces : Given(p)' = Given(p) /\ Intended(p)' = Intended(p)
<1>1. \A p \in Interfaces : Given(p)' = Given(p)
  BY DEF Given, GivenAfter, Same, AddressLoops, inputs
<1>2. \A p \in Interfaces : Intended(p)' = Intended(p)
  BY DEF Intended, Address, RouterAddress, inputs
<1> QED
  BY <1>1, <1>2

LEMMA AddressKept ==
    ASSUME AddressInv, UNCHANGED <<inputs, addr>>, Same(AddressLoops)
    PROVE  AddressInv'
BY GivenKept DEF AddressInv, IndicesAgree, inputs

LEMMA ArpKept ==
    ASSUME TypeOK, ArpInv, UNCHANGED <<inputs, arp, ports>>, Same(AddressLoops)
    PROVE  ArpInv'
<1> SUFFICES ASSUME IndicesAgree PROVE ArpSound' /\ ArpComplete'
  BY DEF ArpInv, IndicesAgree, inputs
<1>1. ArpSound'
  <2>1. \A e \in arp : e.of \in Interfaces
    BY DEF TypeOK, ArpEntry
  <2>2. ASSUME NEW h, NEW q PROVE MayLearn(h, q)' = MayLearn(h, q)
    BY DEF MayLearn, inputs
  <2> QED
    BY <2>1, <2>2, GivenKept DEF ArpInv, ArpSound, Exists, Segment
<1>2. ArpComplete'
  <2>1. ASSUME NEW h, NEW p PROVE Entry(h, p)' = Entry(h, p)
    BY DEF Entry, Intended, Address, RouterAddress, inputs
  <2>2. nc' = nc /\ \A m \in AddressLoops : Done'[m] = Done[m]
    BY DEF Same, inputs
  <2> QED
    BY <2>1, <2>2, GivenKept DEF ArpInv, ArpComplete, AddressLoops
<1> QED
  BY <1>1, <1>2

RouteLoops == {"client_routes", "server_routes", "clients_routes", "servers_routes"}

LEMMA RoutesKept ==
    ASSUME RoutesInv, UNCHANGED <<inputs, rules, routes>>, Same(RouteLoops),
           Turn(pc') > 12 <=> Turn(pc) > 12, Turn(pc') > 13 <=> Turn(pc) > 13
    PROVE  RoutesInv'
<1>1. Turn(pc)' = Turn(pc')
  BY DEF Turn
<1> SUFFICES ASSUME IndicesAgree, dot PROVE (TablesInv /\ DefaultsInv /\ NoRouteBefore)'
  BY DEF RoutesInv, IndicesAgree, inputs
<1>2. TablesInv'
  BY DEF RoutesInv, TablesInv, TableThere, RuleThere, RouteThere, Address, RouterAddress, Same, RouteLoops, inputs
<1>3. DefaultsInv'
  BY <1>1 DEF RoutesInv, DefaultsInv, DefaultThere, RouteThere, Address, RouterAddress, Same, RouteLoops, inputs
<1>4. NoRouteBefore'
  BY <1>1 DEF RoutesInv, NoRouteBefore, TimelyAt, Same, RouteLoops
<1> QED
  BY <1>2, <1>3, <1>4

-----------------------------------------------------------------------------
(* The constructors                                                        *)

LEMMA HostFacts ==
    /\ Router \in Hosts /\ Client(0) \in Hosts /\ Server(0) \in Hosts
    /\ Client(0) # Router /\ Server(0) # Router /\ Client(0) # Server(0)
    /\ \A j \in 0..MaxLinks : Client(j) \in Hosts /\ Server(j) \in Hosts
    /\ \A j, k \in 0..MaxLinks : /\ Client(j) # Router /\ Server(j) # Router
                                 /\ Client(j) # Server(k)
                                 /\ Client(j) = Client(k) => j = k
                                 /\ Server(j) = Server(k) => j = k
BY MultiInterfaceAssumption DEF Hosts, Router, Client, Server

LEMMA AppendFacts ==
    ASSUME NEW S, NEW q \in Seq(S), NEW e \in S
    PROVE  /\ Append(q, e) \in Seq(S)
           /\ Len(q) \in Nat
           /\ Len(Append(q, e)) = Len(q) + 1
           /\ \A k \in 1..(Len(q) + 1) :
                Append(q, e)[k] = IF k = Len(q) + 1 THEN e ELSE q[k]
OBVIOUS

LEMMA ConnectFacts ==
    ASSUME TypeOK, NEW a \in Hosts, NEW b \in Hosts, a # b, NEW e \in Segments
    PROVE  /\ Connect(a, b, e) \in [Hosts -> Seq(Segments)]
           /\ Connect(a, b, e)[a] = Append(ports[a], e)
           /\ Connect(a, b, e)[b] = Append(ports[b], e)
           /\ \A h \in Hosts : h # a /\ h # b => Connect(a, b, e)[h] = ports[h]
<1>1. ports \in [Hosts -> Seq(Segments)]
  BY DEF TypeOK
<1>2. Append(ports[a], e) \in Seq(Segments) /\ Append(ports[b], e) \in Seq(Segments)
  BY <1>1
<1> QED
  BY <1>1, <1>2 DEF Connect

LEMMA C2RMoves ==
    ASSUME TypeOK, ControlInv, AddC2RLinks
    PROVE  Moves("c2r", "r2s") /\ UNCHANGED inputs
<1>1. Loop("c2r", Limit("c2r"), "r2s") /\ UNCHANGED inputs
  BY Limits DEF AddC2RLinks
<1>2. \A m \in Loops : ~(1 < Turn(m) /\ Turn(m) < 2)
  BY LoopTypes
<1>3. "c2r" \in Loops /\ "r2s" \in Loops
  BY DEF Loops
<1> QED
  BY <1>1, <1>2, <1>3, Turns, LoopMoves

LEMMA R2SMoves ==
    ASSUME TypeOK, ControlInv, AddR2SLinks
    PROVE  Moves("r2s", IF multi THEN "clients" ELSE "client_addresses") /\ UNCHANGED inputs
<1> DEFINE next == IF multi THEN "clients" ELSE "client_addresses"
<1>1. Loop("r2s", Limit("r2s"), next) /\ UNCHANGED inputs
  BY Limits DEF AddR2SLinks
<1>2. "r2s" \in Loops /\ next \in Loops /\ Turn("r2s") < Turn(next)
  BY Turns DEF Loops
<1>3. \A m \in Loops : Turn("r2s") < Turn(m) /\ Turn(m) < Turn(next) => Limit(m) = 0
  BY Turns, Limits DEF Loops
<1> QED
  BY <1>1, <1>2, <1>3, LoopMoves

LEMMA ClientsMoves ==
    ASSUME TypeOK, ControlInv, AddClients
    PROVE  Moves("clients", "servers") /\ UNCHANGED inputs /\ multi /\ Limit("clients") = nc
<1>1. multi
  BY DEF AddClients, Loop, ControlInv
<1>2. Loop("clients", Limit("clients"), "servers") /\ UNCHANGED inputs
  BY <1>1, Limits DEF AddClients
<1>3. \A m \in Loops : ~(3 < Turn(m) /\ Turn(m) < 4)
  BY LoopTypes
<1>4. "clients" \in Loops /\ "servers" \in Loops
  BY DEF Loops
<1> QED
  BY <1>1, <1>2, <1>3, <1>4, Turns, Limits, LoopMoves

LEMMA ServersMoves ==
    ASSUME TypeOK, ControlInv, ConnectServers
    PROVE  /\ Moves("servers", "client_addresses") /\ UNCHANGED inputs
           /\ multi /\ Limit("servers") = nc /\ servers - 1 = nc
<1>1. multi /\ pc = "servers"
  BY DEF ConnectServers, Loop, ControlInv
<1>2. Done["clients"] = nc
  BY <1>1, Turns, Limits DEF Done, Loops
<1>3. servers - 1 = nc
  BY <1>2 DEF ControlInv, TypeOK
<1>4. Loop("servers", Limit("servers"), "client_addresses") /\ UNCHANGED inputs
  BY <1>1, <1>3, Limits DEF ConnectServers
<1>5. \A m \in Loops : ~(4 < Turn(m) /\ Turn(m) < 5)
  BY LoopTypes
<1>6. "servers" \in Loops /\ "client_addresses" \in Loops
  BY DEF Loops
<1> QED
  BY <1>1, <1>3, <1>4, <1>5, <1>6, Turns, Limits, LoopMoves

(* Turn is no part of the state.                                           *)
LEMMA TurnPrimed == Turn(pc)' = Turn(pc')
BY DEF Turn

(* The turns made of a loop before, in and after it.                       *)
LEMMA DoneValues ==
    ASSUME NEW m \in Loops
    PROVE  /\ pc = m => Done[m] = i
           /\ pc # m /\ Turn(pc) > Turn(m) => Done[m] = Limit(m)
           /\ pc # m /\ ~(Turn(pc) > Turn(m)) => Done[m] = 0
BY DEF Done

LEMMA SegmentsKept ==
    ASSUME UNCHANGED inputs, NEW k
    PROVE  R2S(k)' = R2S(k) /\ RouterSegment(k)' = RouterSegment(k)
<1>1. nc' = nc /\ ns' = ns
  BY DEF inputs
<1> QED
  BY <1>1 DEF R2S, RouterSegment, ServerConnections

(* The router gets the port that is next.                                  *)
LEMMA RouterAppends ==
    ASSUME TypeOK, RouterPorts, UNCHANGED inputs, NEW e \in Segments,
           ports'[Router] = Append(ports[Router], e),
           e = RouterSegment(Len(ports[Router]) + 1),
           Done'["c2r"] + Connections' + Done'["servers"] = Len(ports[Router]) + 1
    PROVE  RouterPorts'
<1> DEFINE n == Len(ports[Router])
<1>1. ports[Router] \in Seq(Segments)
  BY HostFacts DEF TypeOK
<1>2. /\ n \in Nat /\ Len(ports'[Router]) = n + 1
      /\ \A k \in 1..(n + 1) : ports'[Router][k] = IF k = n + 1 THEN e ELSE ports[Router][k]
  BY <1>1, AppendFacts
<1>3. ASSUME NEW k \in 1..(n + 1) PROVE ports'[Router][k] = RouterSegment(k)
  <2>1. CASE k = n + 1
    BY <1>2, <2>1
  <2>2. CASE k # n + 1
    <3>1. k \in 1..n
      BY <1>2, <2>2
    <3> QED
      BY <1>2, <2>2, <3>1 DEF RouterPorts
  <2> QED
    BY <2>1, <2>2
<1>4. \A k \in 1..(n + 1) : ports'[Router][k] = RouterSegment(k)'
  BY <1>3, SegmentsKept
<1> QED
  BY <1>2, <1>4 DEF RouterPorts

LEMMA RouterSame ==
    ASSUME RouterPorts, UNCHANGED inputs, ports'[Router] = ports[Router],
           Done'["c2r"] + Connections' + Done'["servers"]
                = Done["c2r"] + Connections + Done["servers"]
    PROVE  RouterPorts'
<1>1. \A k : RouterSegment(k)' = RouterSegment(k)
  BY SegmentsKept
<1> QED
  BY <1>1 DEF RouterPorts

LEMMA ServersSame ==
    ASSUME ServerPorts, UNCHANGED inputs, Done'["servers"] = Done["servers"],
           Connections' = Connections, MaxLinks \in Nat,
           \A j \in 0..MaxLinks : ports'[Server(j)] = ports[Server(j)]
    PROVE  ServerPorts'
<1>1. \A k : R2S(k)' = R2S(k)
  BY SegmentsKept
<1>2. ports'[Server(0)] = ports[Server(0)]
  OBVIOUS
<1> QED
  BY <1>1, <1>2 DEF ServerPorts

LEMMA C2RPorts ==
    ASSUME TypeOK, ControlInv, PortsInv, AddC2RLinks
    PROVE  PortsInv' /\ ports' \in [Hosts -> Seq(Segments)]
<1>1. Moves("c2r", "r2s") /\ UNCHANGED inputs /\ Limit("c2r") = nc
  BY C2RMoves, Limits
<1>2. pc = "c2r" /\ i \in Nat /\ nc \in 0..MaxLinks /\ MaxLinks \in Nat /\ nc' = nc /\ ns' = ns
  BY <1>1, MultiInterfaceAssumption DEF Moves, TypeOK, inputs
<1>3. /\ Done["c2r"] = i
      /\ Done["r2s"] = 0 /\ Done["clients"] = 0 /\ Done["servers"] = 0
  BY <1>2, Turns, DoneValues DEF Loops
<1>4. Connections = 0
  BY <1>2, <1>3, Turns DEF Connections
<1>5. Done'["r2s"] = 0 /\ Done'["clients"] = 0 /\ Done'["servers"] = 0
  BY <1>1, <1>3, OthersSame DEF Same, Loops
<1>6. Connections' = 0
  BY <1>1, <1>5, TurnPrimed, Turns DEF Moves, Connections
<1>7. ports \in [Hosts -> Seq(Segments)]
  BY DEF TypeOK
<1>8. CASE i < nc
  <2>1. Done'["c2r"] = i + 1
    BY <1>1, <1>2, <1>8, DoneType DEF Moves, Loops
  <2> DEFINE e == <<"c2r", i>>
  <2>2. e \in Segments
    BY <1>2, <1>8 DEF Segments
  <2>3. ports' = Connect(Client(0), Router, e)
    BY <1>8 DEF AddC2RLinks
  <2> HIDE DEF e
  <2>4. /\ ports' \in [Hosts -> Seq(Segments)]
        /\ ports'[Client(0)] = Append(ports[Client(0)], e)
        /\ ports'[Router] = Append(ports[Router], e)
        /\ \A h \in Hosts : h # Client(0) /\ h # Router => ports'[h] = ports[h]
    <3>1. Client(0) \in Hosts /\ Router \in Hosts /\ Client(0) # Router
      BY HostFacts
    <3> QED
      BY <2>2, <2>3, <3>1, ConnectFacts
  <2>5. ClientPorts'
    <3>1. ports[Client(0)] \in Seq(Segments) /\ Len(ports[Client(0)]) = i
      BY <1>3, <1>7, HostFacts DEF PortsInv, ClientPorts
    <3>2. /\ Len(ports'[Client(0)]) = i + 1
          /\ \A k \in 1..(i + 1) :
                ports'[Client(0)][k] = IF k = i + 1 THEN e ELSE ports[Client(0)][k]
      BY <2>2, <2>4, <3>1, AppendFacts
    <3>3. \A k \in 1..(i + 1) : ports'[Client(0)][k] = <<"c2r", k - 1>>
      BY <1>2, <3>1, <3>2 DEF PortsInv, ClientPorts, e
    <3>4. \A j \in 1..MaxLinks : ports'[Client(j)] = ports[Client(j)]
      <4>1. \A j \in 1..MaxLinks : Client(j) \in Hosts /\ Client(j) # Client(0) /\ Client(j) # Router
        BY <1>2, HostFacts
      <4> QED
        BY <2>4, <4>1
    <3> QED
      BY <1>3, <1>5, <2>1, <3>2, <3>3, <3>4 DEF PortsInv, ClientPorts
  <2>6. ServerPorts'
    <3>1. \A j \in 0..MaxLinks : Server(j) \in Hosts /\ Server(j) # Client(0) /\ Server(j) # Router
      BY <1>2, HostFacts
    <3>2. \A j \in 0..MaxLinks : ports'[Server(j)] = ports[Server(j)]
      BY <2>4, <3>1
    <3> QED
      BY <1>1, <1>2, <1>3, <1>4, <1>5, <1>6, <3>2, ServersSame DEF PortsInv
  <2>7. RouterPorts'
    <3>1. Len(ports[Router]) = i
      BY <1>2, <1>3, <1>4 DEF PortsInv, RouterPorts
    <3>2. e = RouterSegment(i + 1)
      BY <1>2, <1>8 DEF RouterSegment, e
    <3> QED
      BY <1>1, <1>2, <1>5, <1>6, <2>1, <2>2, <2>4, <3>1, <3>2, RouterAppends DEF PortsInv
  <2> QED
    BY <2>4, <2>5, <2>6, <2>7 DEF PortsInv
<1>9. CASE ~(i < nc)
  <2>1. ports' = ports /\ Done' = Done /\ Connections' = Connections
    BY <1>1, <1>2, <1>4, <1>6, <1>9 DEF AddC2RLinks, Moves
  <2> QED
    BY <1>2, <1>7, <2>1
    DEF PortsInv, ClientPorts, ServerPorts, RouterPorts, RouterSegment, R2S, ServerConnections
<1> QED
  BY <1>8, <1>9

LEMMA R2SPorts ==
    ASSUME TypeOK, ControlInv, PortsInv, AddR2SLinks
    PROVE  PortsInv' /\ ports' \in [Hosts -> Seq(Segments)]
<1> DEFINE next == IF multi THEN "clients" ELSE "client_addresses"
<1>1. Moves("r2s", next) /\ UNCHANGED inputs /\ Limit("r2s") = ns
  BY R2SMoves, Limits
<1>2. /\ pc = "r2s" /\ i \in Nat /\ i <= ns
      /\ nc \in 0..MaxLinks /\ ns \in 0..MaxLinks /\ MaxLinks \in Nat
      /\ nc' = nc /\ ns' = ns
  BY <1>1, MultiInterfaceAssumption DEF Moves, TypeOK, inputs
<1>3. /\ Done["r2s"] = i
      /\ Done["c2r"] = nc /\ Done["clients"] = 0 /\ Done["servers"] = 0
  BY <1>2, Turns, Limits, DoneValues DEF Loops
<1>4. Connections = i
  BY <1>2, <1>3, Turns DEF Connections
<1>5. Done'["c2r"] = nc /\ Done'["clients"] = 0 /\ Done'["servers"] = 0
  BY <1>1, <1>3, OthersSame DEF Same, Loops
<1>6. ports \in [Hosts -> Seq(Segments)]
  BY DEF TypeOK
<1>7. ASSUME NEW e \in Segments, e = R2S(i), ports' = Connect(Router, Server(0), e),
             Connections' = i + 1, i < ServerConnections
      PROVE  PortsInv' /\ ports' \in [Hosts -> Seq(Segments)]
  <2>1. /\ ports' \in [Hosts -> Seq(Segments)]
        /\ ports'[Router] = Append(ports[Router], e)
        /\ ports'[Server(0)] = Append(ports[Server(0)], e)
        /\ \A h \in Hosts : h # Server(0) /\ h # Router => ports'[h] = ports[h]
    <3>1. Server(0) \in Hosts /\ Router \in Hosts /\ Server(0) # Router
      BY HostFacts
    <3> QED
      BY <1>7, <3>1, ConnectFacts
  <2>2. ClientPorts'
    <3>1. \A j \in 0..MaxLinks : Client(j) \in Hosts /\ Client(j) # Server(0) /\ Client(j) # Router
      BY <1>2, HostFacts
    <3>2. \A j \in 0..MaxLinks : ports'[Client(j)] = ports[Client(j)]
      BY <2>1, <3>1
    <3>3. ports'[Client(0)] = ports[Client(0)]
      BY <1>2, <3>2
    <3> QED
      BY <1>2, <1>3, <1>5, <3>2, <3>3 DEF PortsInv, ClientPorts
  <2>3. ServerPorts'
    <3>1. ports[Server(0)] \in Seq(Segments) /\ Len(ports[Server(0)]) = i
      BY <1>4, <1>6, HostFacts DEF PortsInv, ServerPorts
    <3>2. /\ Len(ports'[Server(0)]) = i + 1
          /\ \A k \in 1..(i + 1) :
                ports'[Server(0)][k] = IF k = i + 1 THEN e ELSE ports[Server(0)][k]
      BY <2>1, <3>1, AppendFacts
    <3>3. ASSUME NEW k \in 1..(i + 1) PROVE ports'[Server(0)][k] = R2S(k - 1)
      <4>1. CASE k = i + 1
        BY <1>2, <1>7, <3>2, <4>1, k - 1 = i
      <4>2. CASE k # i + 1
        BY <1>2, <3>1, <3>2, <4>2 DEF PortsInv, ServerPorts
      <4> QED
        BY <4>1, <4>2
    <3>4. \A k \in 1..(i + 1) : ports'[Server(0)][k] = R2S(k - 1)'
      BY <1>1, <3>3, SegmentsKept
    <3>5. \A j \in 1..MaxLinks : Server(j) \in Hosts /\ Server(j) # Server(0) /\ Server(j) # Router
      BY <1>2, HostFacts
    <3>6. \A j \in 1..MaxLinks : ports'[Server(j)] = ports[Server(j)]
      BY <2>1, <3>5
    <3> QED
      BY <1>3, <1>5, <1>7, <3>2, <3>4, <3>6 DEF PortsInv, ServerPorts
  <2>4. RouterPorts'
    <3>1. Len(ports[Router]) = nc + i
      BY <1>2, <1>3, <1>4 DEF PortsInv, RouterPorts
    <3>2. e = RouterSegment(nc + i + 1)
      BY <1>2, <1>7, nc + i + 1 - nc - 1 = i DEF RouterSegment, ServerConnections
    <3> QED
      BY <1>1, <1>2, <1>5, <1>7, <2>1, <3>1, <3>2, RouterAppends DEF PortsInv
  <2> QED
    BY <2>1, <2>2, <2>3, <2>4 DEF PortsInv
<1>8. CASE i < ns
  <2>1. Done'["r2s"] = i + 1 /\ pc' = "r2s"
    BY <1>1, <1>2, <1>8, DoneType DEF Moves, Loops
  <2>2. Connections' = i + 1
    BY <2>1, TurnPrimed, Turns DEF Connections
  <2>3. R2S(i) = <<"r2s", i>> /\ <<"r2s", i>> \in Segments /\ i < ServerConnections
    BY <1>2, <1>8 DEF Segments, R2S, ServerConnections
  <2> QED
    BY <1>7, <1>8, <2>2, <2>3 DEF AddR2SLinks
<1>9. CASE ~(i < ns) /\ ns = 0
  <2>1. i = 0 /\ Turn(pc') > 2
    BY <1>1, <1>2, <1>9, Turns DEF Moves
  <2>2. Connections' = i + 1
    BY <1>2, <1>9, <2>1, TurnPrimed DEF Connections
  <2>3. R2S(i) = <<"direct", 0>> /\ <<"direct", 0>> \in Segments /\ i < ServerConnections
    BY <1>2, <1>9, <2>1 DEF Segments, R2S, ServerConnections
  <2> QED
    BY <1>7, <1>9, <2>2, <2>3 DEF AddR2SLinks, AfterR2S
<1>10. CASE ~(i < ns) /\ ns # 0
  <2>1. ports' = ports /\ Done' = Done
    BY <1>1, <1>2, <1>10 DEF AddR2SLinks, AfterR2S, Moves
  <2>2. Connections' = Connections
    BY <1>2, <1>10, <2>1 DEF Connections
  <2>3. ClientPorts'
    BY <2>1 DEF PortsInv, ClientPorts
  <2> QED
    BY <1>1, <1>2, <1>6, <2>1, <2>2, <2>3, RouterSame, ServersSame DEF PortsInv
<1> QED
  BY <1>8, <1>9, <1>10

LEMMA ClientsPorts ==
    ASSUME TypeOK, ControlInv, PortsInv, AddClients
    PROVE  /\ PortsInv' /\ ports' \in [Hosts -> Seq(Segments)]
           /\ servers' = Done'["clients"] + 1
<1>1. Moves("clients", "servers") /\ UNCHANGED inputs /\ Limit("clients") = nc
  BY ClientsMoves
<1>2. pc = "clients" /\ i \in Nat /\ nc \in 0..MaxLinks /\ MaxLinks \in Nat /\ nc' = nc /\ ns' = ns
  BY <1>1, MultiInterfaceAssumption DEF Moves, TypeOK, inputs
<1>3. Done["clients"] = i /\ servers = i + 1
  BY <1>1 DEF Moves, ControlInv
<1>4. Done'["c2r"] = Done["c2r"] /\ Done'["servers"] = Done["servers"] /\ Done'["r2s"] = Done["r2s"]
  BY <1>1, OthersSame DEF Same, Loops
<1>5. Connections' = Connections
  BY <1>1, <1>2, <1>4, TurnPrimed, Turns DEF Moves, Connections
<1>6. ports \in [Hosts -> Seq(Segments)]
  BY DEF TypeOK
<1>7. CASE i < nc
  <2>1. Done'["clients"] = i + 1
    BY <1>1, <1>2, <1>7, DoneType DEF Moves, Loops
  <2> DEFINE e == <<"c2r", i>>
  <2>2. e \in Segments /\ Client(i + 1) \in Hosts
    BY <1>2, <1>7, HostFacts DEF Segments
  <2>3. ports' = [ports EXCEPT ![Client(i + 1)] = Append(ports[Client(i + 1)], e)]
    BY <1>7 DEF AddClients
  <2>4. ports[Client(i + 1)] = <<>>
    <3>1. i + 1 \in 1..MaxLinks /\ ~(i + 1 <= Done["clients"])
      BY <1>2, <1>3, <1>7
    <3>2. ports[Client(i + 1)] = IF i + 1 <= Done["clients"] THEN << <<"c2r", i + 1 - 1>> >> ELSE <<>>
      BY <3>1 DEF PortsInv, ClientPorts
    <3> QED
      BY <3>1, <3>2
  <2>5. Append(ports[Client(i + 1)], e) = <<e>>
    BY <2>4
  <2>6. /\ ports' \in [Hosts -> Seq(Segments)]
        /\ ports'[Client(i + 1)] = << <<"c2r", i>> >>
        /\ \A h \in Hosts : h # Client(i + 1) => ports'[h] = ports[h]
    BY <1>6, <2>2, <2>3, <2>5
  <2>7. ClientPorts'
    <3>1. Client(0) # Client(i + 1) /\ Client(0) \in Hosts
      BY <1>2, <1>7, HostFacts
    <3>2. ports'[Client(0)] = ports[Client(0)]
      BY <2>6, <3>1
    <3>3. ASSUME NEW j \in 1..MaxLinks
          PROVE  ports'[Client(j)] = IF j <= i + 1 THEN << <<"c2r", j - 1>> >> ELSE <<>>
      <4>1. CASE j = i + 1
        BY <1>2, <2>6, <4>1, j - 1 = i
      <4>2. CASE j # i + 1
        <5>1. Client(j) # Client(i + 1) /\ Client(j) \in Hosts
          BY <1>2, <1>7, <4>2, HostFacts
        <5>2. ports'[Client(j)] = ports[Client(j)]
          BY <2>6, <5>1
        <5> QED
          BY <1>2, <1>3, <4>2, <5>2 DEF PortsInv, ClientPorts
      <4> QED
        BY <4>1, <4>2
    <3> QED
      BY <1>4, <2>1, <3>2, <3>3 DEF PortsInv, ClientPorts
  <2>8. \A h \in Hosts : h = Router \/ (\E j \in 0..MaxLinks : h = Server(j)) => ports'[h] = ports[h]
    <3>1. Client(i + 1) # Router /\ \A j \in 0..MaxLinks : Client(i + 1) # Server(j)
      BY <1>2, <1>7, HostFacts
    <3> QED
      BY <2>6, <3>1
  <2>9. ports'[Router] = ports[Router] /\ \A j \in 0..MaxLinks : ports'[Server(j)] = ports[Server(j)]
    BY <2>8, HostFacts
  <2>10. servers' = servers + 1
    BY <1>7 DEF AddClients
  <2> QED
    BY <1>1, <1>2, <1>3, <1>4, <1>5, <2>1, <2>6, <2>7, <2>9, <2>10, RouterSame, ServersSame DEF PortsInv
<1>8. CASE ~(i < nc)
  <2>1. ports' = ports /\ Done' = Done /\ servers' = servers
    BY <1>1, <1>2, <1>8 DEF AddClients, Moves
  <2>2. ClientPorts'
    BY <2>1 DEF PortsInv, ClientPorts
  <2> QED
    BY <1>1, <1>2, <1>3, <1>5, <1>6, <2>1, <2>2, RouterSame, ServersSame DEF PortsInv
<1> QED
  BY <1>7, <1>8

LEMMA ServersPorts ==
    ASSUME TypeOK, ControlInv, PortsInv, ConnectServers
    PROVE  PortsInv' /\ ports' \in [Hosts -> Seq(Segments)]
<1>1. /\ Moves("servers", "client_addresses") /\ UNCHANGED inputs
      /\ Limit("servers") = nc /\ servers - 1 = nc
  BY ServersMoves
<1>2. /\ pc = "servers" /\ i \in Nat /\ nc \in 0..MaxLinks /\ ns \in 0..MaxLinks /\ MaxLinks \in Nat
      /\ nc' = nc /\ ns' = ns
  BY <1>1, MultiInterfaceAssumption DEF Moves, TypeOK, inputs
<1>3. Done["servers"] = i /\ Done["c2r"] = nc /\ Done["r2s"] = ns
  BY <1>2, Turns, Limits, DoneValues DEF Loops
<1>4. Connections = ServerConnections /\ ServerConnections \in Nat
  BY <1>2, <1>3, Turns DEF Connections, ServerConnections
<1>5. Done'["c2r"] = Done["c2r"] /\ Done'["clients"] = Done["clients"] /\ Done'["r2s"] = Done["r2s"]
  BY <1>1, OthersSame DEF Same, Loops
<1>6. Connections' = Connections
  BY <1>1, <1>2, <1>5, TurnPrimed, Turns DEF Moves, Connections
<1>7. ports \in [Hosts -> Seq(Segments)]
  BY DEF TypeOK
<1>8. CASE i < nc
  <2>1. Done'["servers"] = i + 1
    BY <1>1, <1>2, <1>8, DoneType DEF Moves, Loops
  <2> DEFINE e == <<"server", i>>
  <2>2. e \in Segments /\ Server(i + 1) \in Hosts /\ Server(i + 1) # Router /\ Router \in Hosts
    BY <1>2, <1>8, HostFacts DEF Segments
  <2>3. ports' = Connect(Router, Server(i + 1), e)
    BY <1>1, <1>8 DEF ConnectServers
  <2> HIDE DEF e
  <2>4. /\ ports' \in [Hosts -> Seq(Segments)]
        /\ ports'[Router] = Append(ports[Router], e)
        /\ ports'[Server(i + 1)] = Append(ports[Server(i + 1)], e)
        /\ \A h \in Hosts : h # Server(i + 1) /\ h # Router => ports'[h] = ports[h]
    BY <2>2, <2>3, ConnectFacts
  <2>5. ports[Server(i + 1)] = <<>>
    <3>1. i + 1 \in 1..MaxLinks /\ ~(i + 1 <= Done["servers"])
      BY <1>2, <1>3, <1>8
    <3>2. ports[Server(i + 1)] = IF i + 1 <= Done["servers"] THEN << <<"server", i + 1 - 1>> >> ELSE <<>>
      BY <3>1 DEF PortsInv, ServerPorts
    <3> QED
      BY <3>1, <3>2
  <2>6. ports'[Server(i + 1)] = << <<"server", i>> >>
    BY <2>4, <2>5 DEF e
  <2>7. ClientPorts'
    <3>1. \A j \in 0..MaxLinks : Client(j) \in Hosts /\ Client(j) # Server(i + 1) /\ Client(j) # Router
      BY <1>2, <1>8, HostFacts
    <3>2. \A j \in 0..MaxLinks : ports'[Client(j)] = ports[Client(j)]
      BY <2>4, <3>1
    <3>3. ports'[Client(0)] = ports[Client(0)]
      BY <1>2, <3>2
    <3> QED
      BY <1>2, <1>5, <3>2, <3>3 DEF PortsInv, ClientPorts
  <2>8. ServerPorts'
    <3>1. Server(0) # Server(i + 1) /\ Server(0) \in Hosts /\ Server(0) # Router
      BY <1>2, <1>8, HostFacts
    <3>2. ports'[Server(0)] = ports[Server(0)]
      BY <2>4, <3>1
    <3>3. ASSUME NEW j \in 1..MaxLinks
          PROVE  ports'[Server(j)] = IF j <= i + 1 THEN << <<"server", j - 1>> >> ELSE <<>>
      <4>1. CASE j = i + 1
        BY <1>2, <2>6, <4>1, j - 1 = i
      <4>2. CASE j # i + 1
        <5>1. Server(j) # Server(i + 1) /\ Server(j) \in Hosts /\ Server(j) # Router
          BY <1>2, <1>8, <4>2, HostFacts
        <5>2. ports'[Server(j)] = ports[Server(j)]
          BY <2>4, <5>1
        <5> QED
          BY <1>2, <1>3, <4>2, <5>2 DEF PortsInv, ServerPorts
      <4> QED
        BY <4>1, <4>2
    <3>4. \A k : R2S(k)' = R2S(k)
      BY <1>1, SegmentsKept
    <3> QED
      BY <1>6, <2>1, <3>2, <3>3, <3>4 DEF PortsInv, ServerPorts
  <2>9. RouterPorts'
    <3>1. Len(ports[Router]) = nc + ServerConnections + i
      BY <1>2, <1>3, <1>4 DEF PortsInv, RouterPorts
    <3>2. e = RouterSegment(nc + ServerConnections + i + 1)
      BY <1>2, <1>4, nc + ServerConnections + i + 1 - nc - ServerConnections - 1 = i
      DEF RouterSegment, e
    <3> QED
      BY <1>1, <1>2, <1>3, <1>4, <1>5, <1>6, <2>1, <2>2, <2>4, <3>1, <3>2, RouterAppends DEF PortsInv
  <2> QED
    BY <2>4, <2>7, <2>8, <2>9 DEF PortsInv
<1>9. CASE ~(i < nc)
  <2>1. ports' = ports /\ Done' = Done
    BY <1>1, <1>2, <1>9 DEF ConnectServers, Moves
  <2>2. ClientPorts'
    BY <2>1 DEF PortsInv, ClientPorts
  <2> QED
    BY <1>1, <1>2, <1>6, <1>7, <2>1, <2>2, RouterSame, ServersSame DEF PortsInv
<1> QED
  BY <1>8, <1>9

-----------------------------------------------------------------------------
(* The network that the constructors have built                            *)

LEMMA Built ==
    ASSUME TypeOK, ControlInv, PortsInv, Turn(pc) > 4
    PROVE  /\ nc \in Nat /\ nc <= MaxLinks /\ ns \in Nat /\ ns <= MaxLinks /\ MaxLinks \in Nat
           /\ ServerConnections \in Nat /\ ServerConnections >= 1
           /\ Len(ports[Client(0)]) = nc
           /\ \A k \in 1..nc : ports[Client(0)][k] = <<"c2r", k - 1>>
           /\ \A j \in 1..MaxLinks :
                ports[Client(j)] = IF multi /\ j <= nc THEN << <<"c2r", j - 1>> >> ELSE <<>>
           /\ Len(ports[Server(0)]) = ServerConnections
           /\ \A k \in 1..ServerConnections : ports[Server(0)][k] = R2S(k - 1)
           /\ \A j \in 1..MaxLinks :
                ports[Server(j)] = IF multi /\ j <= nc THEN << <<"server", j - 1>> >> ELSE <<>>
           /\ Len(ports[Router]) = nc + ServerConnections + (IF multi THEN nc ELSE 0)
           /\ \A k \in 1..Len(ports[Router]) : ports[Router][k] = RouterSegment(k)
           /\ servers = IF multi THEN nc + 1 ELSE 1
<1>1. /\ nc \in Nat /\ nc <= MaxLinks /\ ns \in Nat /\ ns <= MaxLinks /\ MaxLinks \in Nat
      /\ multi \in BOOLEAN
  BY MultiInterfaceAssumption DEF TypeOK
<1>2. pc # "c2r" /\ pc # "r2s" /\ pc # "clients" /\ pc # "servers" /\ Turn(pc) \in Nat
  BY Turns, LoopTypes DEF ControlInv
<1>3. /\ Done["c2r"] = nc /\ Done["r2s"] = ns
      /\ Done["clients"] = IF multi THEN nc ELSE 0
      /\ Done["servers"] = IF multi THEN nc ELSE 0
  BY <1>2, Turns, Limits, DoneValues DEF Loops
<1>4. Connections = ServerConnections /\ ServerConnections \in Nat /\ ServerConnections >= 1
  BY <1>1, <1>2, <1>3 DEF Connections, ServerConnections
<1>5. servers = IF multi THEN nc + 1 ELSE 1
  BY <1>1, <1>3 DEF ControlInv
<1>6. ASSUME NEW j \in 1..MaxLinks
      PROVE  /\ ports[Client(j)] = IF multi /\ j <= nc THEN << <<"c2r", j - 1>> >> ELSE <<>>
             /\ ports[Server(j)] = IF multi /\ j <= nc THEN << <<"server", j - 1>> >> ELSE <<>>
  <2>1. /\ ports[Client(j)] = IF j <= Done["clients"] THEN << <<"c2r", j - 1>> >> ELSE <<>>
        /\ ports[Server(j)] = IF j <= Done["servers"] THEN << <<"server", j - 1>> >> ELSE <<>>
    BY DEF PortsInv, ClientPorts, ServerPorts
  <2> QED
    BY <1>1, <1>3, <2>1
<1>7. /\ Len(ports[Client(0)]) = nc
      /\ \A k \in 1..nc : ports[Client(0)][k] = <<"c2r", k - 1>>
  BY <1>3 DEF PortsInv, ClientPorts
<1>8. /\ Len(ports[Server(0)]) = ServerConnections
      /\ \A k \in 1..ServerConnections : ports[Server(0)][k] = R2S(k - 1)
  BY <1>4 DEF PortsInv, ServerPorts
<1>9. /\ Len(ports[Router]) = nc + ServerConnections + (IF multi THEN nc ELSE 0)
      /\ \A k \in 1..Len(ports[Router]) : ports[Router][k] = RouterSegment(k)
  BY <1>3, <1>4 DEF PortsInv, RouterPorts
<1> QED
  BY <1>1, <1>4, <1>5, <1>6, <1>7, <1>8, <1>9

-----------------------------------------------------------------------------
(* Where an interface is: its subnet, the index of its segment there and   *)
(* the last number of its address                                          *)

Subnet(p) == IF p[1][1] = "Client" \/ (p[1] = Router /\ p[2] < nc) THEN LeftSubnet ELSE RightSubnet

Index(p) ==
    IF p[1] = Router THEN IF p[2] < nc THEN p[2] ELSE p[2] - nc
    ELSE IF p[1][2] = 0 THEN p[2]
    ELSE IF p[1][1] = "Client" THEN p[1][2] - 1 ELSE p[1][2]

Number(p) ==
    IF p[1] = Router THEN 2 ELSE IF p[1][1] = "Client" /\ p[1][2] # 0 THEN 10 ELSE 1

(* The interfaces that get an address in the end.                          *)
Planned(p) ==
    IF p[1] = Router THEN \/ p[2] - nc < ServerConnections
                          \/ multi /\ p[2] - nc <= nc
    ELSE IF p[1][2] # 0 THEN multi /\ p[2] = 0 /\ p[1][2] <= nc
    ELSE p[2] < IF p[1][1] = "Client" THEN nc ELSE ServerConnections

LEMMA InterfaceCases ==
    ASSUME NEW p \in Interfaces
    PROVE  \E k \in 0..(3 * MaxLinks) :
                \/ p = <<Router, k>> \/ p = <<Client(0), k>> \/ p = <<Server(0), k>>
                \/ \E j \in 1..MaxLinks : p = <<Client(j), k>> \/ p = <<Server(j), k>>
<1>1. PICK h \in Hosts, k \in 0..(3 * MaxLinks) : p = <<h, k>>
  BY DEF Interfaces
<1>2. h = Router \/ \E j \in 0..MaxLinks : h = Client(j) \/ h = Server(j)
  BY DEF Hosts, Router, Client, Server
<1>3. \A j \in 0..MaxLinks : j = 0 \/ j \in 1..MaxLinks
  BY MultiInterfaceAssumption
<1> QED
  BY <1>1, <1>2, <1>3

LEMMA RouterPlace ==
    ASSUME NEW k \in Nat, nc \in Nat
    PROVE  /\ Subnet(<<Router, k>>) = IF k < nc THEN LeftSubnet ELSE RightSubnet
           /\ Index(<<Router, k>>) = IF k < nc THEN k ELSE k - nc
           /\ Number(<<Router, k>>) = 2
           /\ Planned(<<Router, k>>) <=> k - nc < ServerConnections \/ (multi /\ k - nc <= nc)
           /\ Intended(<<Router, k>>) = Address(Subnet(<<Router, k>>), Index(<<Router, k>>), 2)
           /\ Given(<<Router, k>>) <=>
                IF k < nc THEN k < Done["router_addresses"]
                ELSE \/ k - nc < Done["server_addresses"]
                     \/ k - nc < Done["servers_addresses"]
<1>1. <<Router, k>>[1] = Router /\ <<Router, k>>[2] = k /\ Router[1] = "Router"
  BY DEF Router
<1>2. /\ Subnet(<<Router, k>>) = IF k < nc THEN LeftSubnet ELSE RightSubnet
      /\ Index(<<Router, k>>) = IF k < nc THEN k ELSE k - nc
      /\ Number(<<Router, k>>) = 2
  BY <1>1 DEF Subnet, Index, Number
<1>3. Planned(<<Router, k>>) <=> k - nc < ServerConnections \/ (multi /\ k - nc <= nc)
  BY <1>1 DEF Planned
<1>4. Intended(<<Router, k>>) = IF k < nc THEN Address(LeftSubnet, k, 2)
                                         ELSE Address(RightSubnet, k - nc, 2)
  BY <1>1 DEF Intended, RouterAddress
<1>5. Given(<<Router, k>>) <=> IF k < nc THEN k < Done["router_addresses"]
                               ELSE \/ k - nc < Done["server_addresses"]
                                    \/ k - nc < Done["servers_addresses"]
  BY <1>1 DEF Given, GivenAfter
<1> QED
  BY <1>2, <1>3, <1>4, <1>5

LEMMA ClientPlace ==
    ASSUME NEW k \in Nat
    PROVE  /\ Subnet(<<Client(0), k>>) = LeftSubnet
           /\ Index(<<Client(0), k>>) = k
           /\ Number(<<Client(0), k>>) = 1
           /\ Planned(<<Client(0), k>>) <=> k < nc
           /\ Intended(<<Client(0), k>>) = Address(LeftSubnet, k, 1)
           /\ Given(<<Client(0), k>>) <=> k < Done["client_addresses"]
<1>1. /\ <<Client(0), k>>[1] = Client(0) /\ <<Client(0), k>>[2] = k /\ Client(0) # Router
      /\ Client(0)[1] = "Client" /\ Client(0)[2] = 0
  BY DEF Router, Client
<1> QED
  BY <1>1 DEF Subnet, Index, Number, Planned, Intended, Given, GivenAfter

LEMMA ServerPlace ==
    ASSUME NEW k \in Nat
    PROVE  /\ Subnet(<<Server(0), k>>) = RightSubnet
           /\ Index(<<Server(0), k>>) = k
           /\ Number(<<Server(0), k>>) = 1
           /\ Planned(<<Server(0), k>>) <=> k < ServerConnections
           /\ Intended(<<Server(0), k>>) = Address(RightSubnet, k, 1)
           /\ Given(<<Server(0), k>>) <=> k < Done["server_addresses"]
<1>1. /\ <<Server(0), k>>[1] = Server(0) /\ <<Server(0), k>>[2] = k /\ Server(0) # Router
      /\ Server(0)[1] = "Server" /\ Server(0)[2] = 0
  BY DEF Router, Server
<1> QED
  BY <1>1 DEF Subnet, Index, Number, Planned, Intended, Given, GivenAfter

LEMMA ClientsPlace ==
    ASSUME NEW j \in Nat, j # 0, NEW k \in Nat
    PROVE  /\ Subnet(<<Client(j), k>>) = LeftSubnet
           /\ Index(<<Client(j), k>>) = j - 1
           /\ Number(<<Client(j), k>>) = 10
           /\ Planned(<<Client(j), k>>) <=> multi /\ k = 0 /\ j <= nc
           /\ Intended(<<Client(j), k>>) = Address(LeftSubnet, j - 1, 10)
           /\ Given(<<Client(j), k>>) <=> k = 0 /\ j - 1 < Done["clients_addresses"]
<1>1. /\ <<Client(j), k>>[1] = Client(j) /\ <<Client(j), k>>[2] = k /\ Client(j) # Router
      /\ Client(j)[1] = "Client" /\ Client(j)[2] = j
  BY DEF Router, Client
<1> QED
  BY <1>1 DEF Subnet, Index, Number, Planned, Intended, Given, GivenAfter

LEMMA ServersPlace ==
    ASSUME NEW j \in Nat, j # 0, NEW k \in Nat
    PROVE  /\ Subnet(<<Server(j), k>>) = RightSubnet
           /\ Index(<<Server(j), k>>) = j
           /\ Number(<<Server(j), k>>) = 1
           /\ Planned(<<Server(j), k>>) <=> multi /\ k = 0 /\ j <= nc
           /\ Intended(<<Server(j), k>>) = Address(RightSubnet, j, 1)
           /\ Given(<<Server(j), k>>) <=> k = 0 /\ j < Done["servers_addresses"]
<1>1. /\ <<Server(j), k>>[1] = Server(j) /\ <<Server(j), k>>[2] = k /\ Server(j) # Router
      /\ Server(j)[1] = "Server" /\ Server(j)[2] = j
  BY DEF Router, Server
<1> QED
  BY <1>1 DEF Subnet, Index, Number, Planned, Intended, Given, GivenAfter

(* The interface at a place.                                               *)
At(subnet, k, number) ==
    IF number = 2 THEN <<Router, IF subnet = LeftSubnet THEN k ELSE nc + k>>
    ELSE IF number = 10 THEN <<Client(k + 1), 0>>
    ELSE IF subnet = LeftSubnet THEN <<Client(0), k>>
    ELSE IF k < ServerConnections THEN <<Server(0), k>> ELSE <<Server(k), 0>>

(* Only one interface is at a place, and its index is one of a link.       *)
LEMMA PlaceOf ==
    ASSUME TypeOK, IndicesAgree, NEW p \in Interfaces, Planned(p)
    PROVE  /\ Subnet(p) \in {LeftSubnet, RightSubnet}
           /\ Index(p) \in 0..MaxLinks
           /\ Number(p) \in {1, 2, 10}
           /\ Intended(p) = Address(Subnet(p), Index(p), Number(p))
           /\ p = At(Subnet(p), Index(p), Number(p))
<1>1. /\ nc \in 0..MaxLinks /\ ns \in 0..MaxLinks /\ MaxLinks \in Nat
      /\ ServerConnections \in Nat /\ ServerConnections >= 1
      /\ ServerConnections <= MaxLinks \/ ServerConnections = 1
      /\ ns <= 1 => ServerConnections = 1
      /\ multi /\ nc > 0 => ns <= 1
      /\ LeftSubnet # RightSubnet
  BY MultiInterfaceAssumption DEF TypeOK, ServerConnections, IndicesAgree
<1>2. PICK k \in 0..(3 * MaxLinks) :
                \/ p = <<Router, k>> \/ p = <<Client(0), k>> \/ p = <<Server(0), k>>
                \/ \E j \in 1..MaxLinks : p = <<Client(j), k>> \/ p = <<Server(j), k>>
  BY InterfaceCases
<1>3. k \in Nat
  BY <1>1, <1>2
<1>4. CASE p = <<Router, k>>
  BY <1>1, <1>3, <1>4, RouterPlace DEF At
<1>5. CASE p = <<Client(0), k>>
  BY <1>1, <1>3, <1>5, ClientPlace DEF At
<1>6. CASE p = <<Server(0), k>>
  BY <1>1, <1>3, <1>6, ServerPlace DEF At
<1>7. ASSUME NEW j \in 1..MaxLinks, p = <<Client(j), k>>
      PROVE  /\ Subnet(p) = LeftSubnet /\ Index(p) = j - 1 /\ Number(p) = 10
             /\ Intended(p) = Address(LeftSubnet, j - 1, 10) /\ k = 0 /\ j <= nc
  BY <1>1, <1>3, <1>7, ClientsPlace
<1>8. ASSUME NEW j \in 1..MaxLinks, p = <<Server(j), k>>
      PROVE  /\ Subnet(p) = RightSubnet /\ Index(p) = j /\ Number(p) = 1
             /\ Intended(p) = Address(RightSubnet, j, 1) /\ multi /\ k = 0 /\ j <= nc
  BY <1>1, <1>3, <1>8, ServersPlace
<1>9. ASSUME NEW j \in 1..MaxLinks, p = <<Client(j), k>>
      PROVE  p = At(LeftSubnet, j - 1, 10) /\ j - 1 \in 0..MaxLinks
  BY <1>1, <1>7, <1>9, j - 1 + 1 = j DEF At
<1>10. ASSUME NEW j \in 1..MaxLinks, p = <<Server(j), k>>
       PROVE  p = At(RightSubnet, j, 1) /\ j \in 0..MaxLinks
  <2>1. multi /\ k = 0 /\ j <= nc /\ ~(j < ServerConnections)
    BY <1>1, <1>8, <1>10
  <2> QED
    BY <1>1, <1>10, <2>1 DEF At
<1>11. CASE \E j \in 1..MaxLinks : p = <<Client(j), k>>
  BY <1>7, <1>9, <1>11
<1>12. CASE \E j \in 1..MaxLinks : p = <<Server(j), k>>
  BY <1>8, <1>10, <1>12
<1> QED
  BY <1>2, <1>4, <1>5, <1>6, <1>11, <1>12

LEMMA DigitsDiffer ==
    ASSUME NEW a \in Nat, NEW b \in Nat, NEW k \in 0..7, NEW l \in 0..7, 10 * a + k = 10 * b + l
    PROVE  a = b /\ k = l
<1>1. ~(a < b) /\ ~(b < a)
  OBVIOUS
<1> QED
  BY <1>1

(* Addresses are in one subnet only if they are made from the same subnet  *)
(* and index.                                                              *)
LEMMA AddressesDiffer ==
    ASSUME IndicesAgree,
           NEW s \in {LeftSubnet, RightSubnet}, NEW t \in {LeftSubnet, RightSubnet},
           NEW k \in 0..MaxLinks, NEW l \in 0..MaxLinks, NEW g \in Nat, NEW h \in Nat
    PROVE  /\ SameSubnet(Address(s, k, g), Address(t, l, h)) <=> s = t /\ k = l
           /\ Address(s, k, g) = Address(t, l, h) => s = t /\ k = l /\ g = h
<1>1. /\ MaxLinks \in Nat /\ s \in Nat \X Nat /\ t \in Nat \X Nat
  BY MultiInterfaceAssumption
<1>2. s = <<s[1], s[2]>> /\ t = <<t[1], t[2]>> /\ s[1] \in Nat /\ s[2] \in Nat /\ t[1] \in Nat /\ t[2] \in Nat
  BY <1>1
<1>3. s[1] = t[1] /\ s[2] = t[2] => s = t
  BY <1>2
<1>4. CASE dot
  BY <1>1, <1>2, <1>3, <1>4 DEF Address, SameSubnet
<1>5. CASE ~dot
  <2>1. MaxLinks < 8
    BY <1>5 DEF IndicesAgree
  <2>2. k \in 0..7 /\ l \in 0..7
    BY <1>1, <2>1
  <2> DEFINE a == s[2]
             b == t[2]
  <2>3. a \in Nat /\ b \in Nat
    BY <1>2
  <2> HIDE DEF a, b
  <2>4. 10 * a + k = 10 * b + l => a = b /\ k = l
    BY <2>2, <2>3, DigitsDiffer
  <2> USE DEF a, b
  <2> QED
    BY <1>2, <1>3, <1>5, <2>4 DEF Address, SameSubnet
<1> QED
  BY <1>4, <1>5

LEMMA AddressTypes ==
    ASSUME NEW s \in {LeftSubnet, RightSubnet}, NEW k \in Nat, NEW h \in Nat
    PROVE  /\ Address(s, k, h) \in Addresses /\ IPAddress(s, k, h) \in Addresses
           /\ Address(s, k, h) # NoAddress
<1>1. s[1] \in Nat /\ s[2] \in Nat
  BY MultiInterfaceAssumption
<1>2. 10 * s[2] + k \in Nat
  BY <1>1
<1>3. Address(s, k, h) \in Addresses /\ IPAddress(s, k, h) \in Addresses
  BY <1>1, <1>2 DEF Address, IPAddress, Addresses
<1>4. Address(s, k, h) # NoAddress
  BY DEF Address, NoAddress
<1> QED
  BY <1>3, <1>4

(* No address is meant for two interfaces.                                 *)
LEMMA IntendedDiffer ==
    ASSUME TypeOK, IndicesAgree, NEW p \in Interfaces, NEW q \in Interfaces,
           Planned(p), Planned(q)
    PROVE  /\ Intended(p) = Intended(q) => p = q
           /\ SameSubnet(Intended(p), Intended(q)) <=> Subnet(p) = Subnet(q) /\ Index(p) = Index(q)
           /\ Intended(p) \in Addresses /\ Intended(p) # NoAddress
<1>1. Number(p) \in Nat /\ Number(q) \in Nat /\ Index(p) \in Nat
  BY PlaceOf, MultiInterfaceAssumption
<1>2. Intended(p) \in Addresses /\ Intended(p) # NoAddress
  BY <1>1, PlaceOf, AddressTypes
<1>3. /\ Intended(p) = Intended(q) =>
            Subnet(p) = Subnet(q) /\ Index(p) = Index(q) /\ Number(p) = Number(q)
      /\ SameSubnet(Intended(p), Intended(q)) <=> Subnet(p) = Subnet(q) /\ Index(p) = Index(q)
  <2>1. /\ Intended(p) = Address(Subnet(p), Index(p), Number(p))
        /\ Subnet(p) \in {LeftSubnet, RightSubnet} /\ Index(p) \in 0..MaxLinks
    BY PlaceOf
  <2>2. /\ Intended(q) = Address(Subnet(q), Index(q), Number(q))
        /\ Subnet(q) \in {LeftSubnet, RightSubnet} /\ Index(q) \in 0..MaxLinks
    BY PlaceOf
  <2> QED
    BY <1>1, <2>1, <2>2, AddressesDiffer
<1> QED
  BY <1>2, <1>3, PlaceOf

(* An interface that has its address was to have one.                      *)
LEMMA GivenPlanned ==
    ASSUME TypeOK, ControlInv, NEW p \in Interfaces, Given(p)
    PROVE  Planned(p)
<1>1. /\ nc \in 0..MaxLinks /\ MaxLinks \in Nat /\ multi \in BOOLEAN
      /\ ServerConnections \in Nat /\ ServerConnections >= 1
  BY MultiInterfaceAssumption DEF TypeOK, ServerConnections
<1>2. /\ Done["client_addresses"] \in Nat /\ Done["client_addresses"] <= nc
      /\ Done["router_addresses"] \in Nat /\ Done["router_addresses"] <= nc
      /\ Done["server_addresses"] \in Nat /\ Done["server_addresses"] <= ServerConnections
      /\ Done["clients_addresses"] \in Nat /\ Done["clients_addresses"] <= IF multi THEN nc ELSE 0
      /\ Done["servers_addresses"] \in Nat /\ Done["servers_addresses"] <= IF multi THEN nc + 1 ELSE 0
  BY DoneType, Limits DEF Loops
<1>3. PICK k \in 0..(3 * MaxLinks) :
                \/ p = <<Router, k>> \/ p = <<Client(0), k>> \/ p = <<Server(0), k>>
                \/ \E j \in 1..MaxLinks : p = <<Client(j), k>> \/ p = <<Server(j), k>>
  BY InterfaceCases
<1>4. k \in Nat
  BY <1>1, <1>3
<1>5. CASE p = <<Router, k>>
  BY <1>1, <1>2, <1>4, <1>5, RouterPlace
<1>6. CASE p = <<Client(0), k>>
  BY <1>1, <1>2, <1>4, <1>6, ClientPlace
<1>7. CASE p = <<Server(0), k>>
  BY <1>1, <1>2, <1>4, <1>7, ServerPlace
<1>8. ASSUME NEW j \in 1..MaxLinks, p = <<Client(j), k>> PROVE Planned(p)
  BY <1>1, <1>2, <1>4, <1>8, ClientsPlace
<1>9. ASSUME NEW j \in 1..MaxLinks, p = <<Server(j), k>> PROVE Planned(p)
  BY <1>1, <1>2, <1>4, <1>9, ServersPlace
<1> QED
  BY <1>3, <1>5, <1>6, <1>7, <1>8, <1>9

(* After the loops over interfaces all of them have their addresses.       *)
LEMMA AllGiven ==
    ASSUME TypeOK, ControlInv, Turn(pc) > 9, NEW p \in Interfaces, Planned(p)
    PROVE  Given(p)
<1>1. /\ nc \in 0..MaxLinks /\ MaxLinks \in Nat /\ multi \in BOOLEAN
      /\ ServerConnections \in Nat /\ ServerConnections >= 1
  BY MultiInterfaceAssumption DEF TypeOK, ServerConnections
<1>2. /\ pc # "client_addresses" /\ pc # "router_addresses" /\ pc # "server_addresses"
      /\ pc # "clients_addresses" /\ pc # "servers_addresses" /\ Turn(pc) \in Nat
  BY Turns, LoopTypes DEF ControlInv
<1>3. /\ Done["client_addresses"] = nc /\ Done["router_addresses"] = nc
      /\ Done["server_addresses"] = ServerConnections
      /\ Done["clients_addresses"] = IF multi THEN nc ELSE 0
      /\ Done["servers_addresses"] = IF multi THEN nc + 1 ELSE 0
  BY <1>2, Turns, Limits, DoneValues DEF Loops
<1>4. PICK k \in 0..(3 * MaxLinks) :
                \/ p = <<Router, k>> \/ p = <<Client(0), k>> \/ p = <<Server(0), k>>
                \/ \E j \in 1..MaxLinks : p = <<Client(j), k>> \/ p = <<Server(j), k>>
  BY InterfaceCases
<1>5. k \in Nat
  BY <1>1, <1>4
<1>6. CASE p = <<Router, k>>
  BY <1>1, <1>3, <1>5, <1>6, RouterPlace
<1>7. CASE p = <<Client(0), k>>
  BY <1>1, <1>3, <1>5, <1>7, ClientPlace
<1>8. CASE p = <<Server(0), k>>
  BY <1>1, <1>3, <1>5, <1>8, ServerPlace
<1>9. ASSUME NEW j \in 1..MaxLinks, p = <<Client(j), k>> PROVE Given(p)
  BY <1>1, <1>3, <1>5, <1>9, ClientsPlace
<1>10. ASSUME NEW j \in 1..MaxLinks, p = <<Server(j), k>> PROVE Given(p)
  BY <1>1, <1>3, <1>5, <1>10, ServersPlace
<1> QED
  BY <1>4, <1>6, <1>7, <1>8, <1>9, <1>10

(* The segment at a place.                                                 *)
SegmentAt(subnet, k) ==
    IF subnet = LeftSubnet THEN <<"c2r", k>>
    ELSE IF k < ServerConnections THEN R2S(k) ELSE <<"server", k - ServerConnections>>

LEMMA SegmentsDiffer ==
    ASSUME TypeOK, NEW s \in {LeftSubnet, RightSubnet}, NEW t \in {LeftSubnet, RightSubnet},
           NEW k \in Nat, NEW l \in Nat, SegmentAt(s, k) = SegmentAt(t, l)
    PROVE  s = t /\ k = l
<1>1. ns \in Nat /\ ServerConnections \in Nat /\ (ns = 0 => ServerConnections = 1)
  BY MultiInterfaceAssumption DEF TypeOK, ServerConnections
<1> QED
  BY <1>1 DEF SegmentAt, R2S

(* The interfaces that get an address are the ones that were connected,    *)
(* and their subnets and indices name the segments.                        *)
LEMMA SegmentOf ==
    ASSUME TypeOK, ControlInv, PortsInv, IndicesAgree, Turn(pc) > 4,
           NEW p \in Interfaces, Planned(p)
    PROVE  Exists(p) /\ Segment(p) = SegmentAt(Subnet(p), Index(p))
<1>1. /\ nc \in Nat /\ nc <= MaxLinks /\ ns \in Nat /\ ns <= MaxLinks /\ MaxLinks \in Nat
      /\ ServerConnections \in Nat /\ ServerConnections >= 1
      /\ ns <= 1 => ServerConnections = 1
      /\ multi /\ nc > 0 => ns <= 1
      /\ LeftSubnet # RightSubnet /\ multi \in BOOLEAN
  BY Built, MultiInterfaceAssumption DEF IndicesAgree, ServerConnections, TypeOK
<1>2. PICK k \in 0..(3 * MaxLinks) :
                \/ p = <<Router, k>> \/ p = <<Client(0), k>> \/ p = <<Server(0), k>>
                \/ \E j \in 1..MaxLinks : p = <<Client(j), k>> \/ p = <<Server(j), k>>
  BY InterfaceCases
<1>3. k \in Nat /\ k + 1 - 1 = k
  BY <1>1, <1>2
<1>4. CASE p = <<Router, k>>
  <2>1. /\ Planned(p) <=> k - nc < ServerConnections \/ (multi /\ k - nc <= nc)
        /\ Subnet(p) = IF k < nc THEN LeftSubnet ELSE RightSubnet
        /\ Index(p) = IF k < nc THEN k ELSE k - nc
    BY <1>1, <1>3, <1>4, RouterPlace
  <2>2. k + 1 \in 1..Len(ports[Router])
    <3>1. Len(ports[Router]) = nc + ServerConnections + (IF multi THEN nc ELSE 0)
      BY Built
    <3> QED
      BY <1>1, <1>3, <2>1, <3>1
  <2>3. Exists(p) /\ Segment(p) = ports[Router][k + 1]
    BY <1>3, <1>4, <2>2 DEF Exists, Segment
  <2>4. ports[Router][k + 1] = RouterSegment(k + 1)
    BY <2>2, Built
  <2>5. CASE k < nc
    BY <1>1, <1>3, <2>1, <2>3, <2>4, <2>5 DEF RouterSegment, SegmentAt
  <2>6. CASE ~(k < nc) /\ k - nc < ServerConnections
    <3>1. k + 1 - nc - 1 = k - nc /\ ~(k + 1 <= nc) /\ k + 1 <= nc + ServerConnections
      BY <1>1, <1>3, <2>6
    <3> QED
      BY <1>1, <2>1, <2>3, <2>4, <2>6, <3>1 DEF RouterSegment, SegmentAt
  <2>7. CASE ~(k < nc) /\ ~(k - nc < ServerConnections)
    <3>1. /\ k + 1 - nc - ServerConnections - 1 = k - nc - ServerConnections
          /\ ~(k + 1 <= nc) /\ ~(k + 1 <= nc + ServerConnections)
      BY <1>1, <1>3, <2>7
    <3> QED
      BY <1>1, <2>1, <2>3, <2>4, <2>7, <3>1 DEF RouterSegment, SegmentAt
  <2> QED
    BY <2>5, <2>6, <2>7
<1>5. CASE p = <<Client(0), k>>
  <2>1. k < nc /\ Subnet(p) = LeftSubnet /\ Index(p) = k
    BY <1>3, <1>5, ClientPlace
  <2>2. Len(ports[Client(0)]) = nc /\ k + 1 \in 1..nc
    BY <1>1, <1>3, <2>1, Built
  <2>3. ports[Client(0)][k + 1] = <<"c2r", k>>
    BY <1>3, <2>2, Built
  <2> QED
    BY <1>5, <2>1, <2>2, <2>3 DEF Exists, Segment, SegmentAt
<1>6. CASE p = <<Server(0), k>>
  <2>1. k < ServerConnections /\ Subnet(p) = RightSubnet /\ Index(p) = k
    BY <1>3, <1>6, ServerPlace
  <2>2. Len(ports[Server(0)]) = ServerConnections /\ k + 1 \in 1..ServerConnections
    BY <1>1, <1>3, <2>1, Built
  <2>3. ports[Server(0)][k + 1] = R2S(k)
    BY <1>3, <2>2, Built
  <2> QED
    BY <1>1, <1>6, <2>1, <2>2, <2>3 DEF Exists, Segment, SegmentAt
<1>7. ASSUME NEW j \in 1..MaxLinks, p = <<Client(j), k>>
      PROVE  Exists(p) /\ Segment(p) = SegmentAt(Subnet(p), Index(p))
  <2>1. multi /\ k = 0 /\ j <= nc /\ Subnet(p) = LeftSubnet /\ Index(p) = j - 1
    BY <1>1, <1>3, <1>7, ClientsPlace
  <2>2. ports[Client(j)] = << <<"c2r", j - 1>> >>
    BY <2>1, Built
  <2> QED
    BY <1>7, <2>1, <2>2 DEF Exists, Segment, SegmentAt
<1>8. ASSUME NEW j \in 1..MaxLinks, p = <<Server(j), k>>
      PROVE  Exists(p) /\ Segment(p) = SegmentAt(Subnet(p), Index(p))
  <2>1. multi /\ k = 0 /\ j <= nc /\ Subnet(p) = RightSubnet /\ Index(p) = j
    BY <1>1, <1>3, <1>8, ServersPlace
  <2>2. ports[Server(j)] = << <<"server", j - 1>> >>
    BY <2>1, Built
  <2>3. ServerConnections = 1 /\ ~(j < ServerConnections)
    BY <1>1, <2>1
  <2> QED
    BY <1>1, <1>8, <2>1, <2>2, <2>3 DEF Exists, Segment, SegmentAt
<1> QED
  BY <1>2, <1>4, <1>5, <1>6, <1>7, <1>8

LEMMA ExistsPlanned ==
    ASSUME TypeOK, ControlInv, PortsInv, IndicesAgree, Turn(pc) > 4,
           NEW p \in Interfaces, Exists(p)
    PROVE  Planned(p)
<1>1. /\ nc \in Nat /\ nc <= MaxLinks /\ ns \in Nat /\ ns <= MaxLinks /\ MaxLinks \in Nat
      /\ ServerConnections \in Nat /\ ServerConnections >= 1
      /\ ns <= 1 => ServerConnections = 1
      /\ multi /\ nc > 0 => ns <= 1
      /\ multi \in BOOLEAN
  BY Built, MultiInterfaceAssumption DEF IndicesAgree, ServerConnections, TypeOK
<1>2. PICK k \in 0..(3 * MaxLinks) :
                \/ p = <<Router, k>> \/ p = <<Client(0), k>> \/ p = <<Server(0), k>>
                \/ \E j \in 1..MaxLinks : p = <<Client(j), k>> \/ p = <<Server(j), k>>
  BY InterfaceCases
<1>3. k \in Nat
  BY <1>1, <1>2
<1>4. CASE p = <<Router, k>>
  <2>1. k < nc + ServerConnections + (IF multi THEN nc ELSE 0)
    BY <1>4, Built DEF Exists
  <2> QED
    BY <1>1, <1>3, <1>4, <2>1, RouterPlace
<1>5. CASE p = <<Client(0), k>>
  <2>1. k < nc
    BY <1>5, Built DEF Exists
  <2> QED
    BY <1>3, <1>5, <2>1, ClientPlace
<1>6. CASE p = <<Server(0), k>>
  <2>1. k < ServerConnections
    BY <1>6, Built DEF Exists
  <2> QED
    BY <1>3, <1>6, <2>1, ServerPlace
<1>7. ASSUME NEW j \in 1..MaxLinks, p = <<Client(j), k>> PROVE Planned(p)
  <2>1. /\ ports[Client(j)] = IF multi /\ j <= nc THEN << <<"c2r", j - 1>> >> ELSE <<>>
        /\ k < Len(ports[Client(j)])
    BY <1>7, Built DEF Exists
  <2>2. multi /\ j <= nc /\ k = 0
    BY <1>1, <1>3, <2>1
  <2> QED
    BY <1>1, <1>3, <1>7, <2>2, ClientsPlace
<1>8. ASSUME NEW j \in 1..MaxLinks, p = <<Server(j), k>> PROVE Planned(p)
  <2>1. /\ ports[Server(j)] = IF multi /\ j <= nc THEN << <<"server", j - 1>> >> ELSE <<>>
        /\ k < Len(ports[Server(j)])
    BY <1>8, Built DEF Exists
  <2>2. multi /\ j <= nc /\ k = 0
    BY <1>1, <1>3, <2>1
  <2> QED
    BY <1>1, <1>3, <1>8, <2>2, ServersPlace
<1> QED
  BY <1>2, <1>4, <1>5, <1>6, <1>7, <1>8

-----------------------------------------------------------------------------
(* What the invariant says of a configured network                         *)

LEMMA AddressOf ==
    ASSUME TypeOK, ControlInv, AddressInv, IndicesAgree, NEW p \in Interfaces
    PROVE  /\ p \in Configured <=> Given(p)
           /\ Given(p) => addr[p] = Intended(p)
<1>1. Given(p) => Intended(p) # NoAddress
  BY GivenPlanned, IntendedDiffer
<1>2. addr[p] = IF Given(p) THEN Intended(p) ELSE NoAddress
  BY DEF AddressInv
<1> QED
  BY <1>1, <1>2 DEF Configured

LEMMA DistinctAddresses ==
    ASSUME TypeOK, ControlInv, AddressInv
    PROVE  AddressesDistinct
<1> SUFFICES ASSUME IndicesAgree, NEW p \in Configured, NEW q \in Configured, addr[p] = addr[q]
             PROVE  p = q
  BY DEF AddressesDistinct
<1>1. p \in Interfaces /\ q \in Interfaces
  BY DEF Configured
<1>2. Given(p) /\ Given(q) /\ Intended(p) = Intended(q)
  BY <1>1, AddressOf
<1>3. Planned(p) /\ Planned(q)
  BY <1>1, <1>2, GivenPlanned
<1> QED
  BY <1>1, <1>2, <1>3, IntendedDiffer

LEMMA LastTurn ==
    ASSUME pc = "done"
    PROVE  Turn(pc) > 4 /\ Turn(pc) > 9 /\ Turn(pc) > 12 /\ Turn(pc) > 13
BY Turns

(* In the end, the interfaces with an address are the connected ones.      *)
LEMMA ConfiguredInTheEnd ==
    ASSUME TypeOK, ControlInv, PortsInv, AddressInv, IndicesAgree, pc = "done", NEW p \in Interfaces
    PROVE  /\ p \in Configured <=> Planned(p)
           /\ Exists(p) <=> Planned(p)
           /\ Planned(p) => addr[p] = Intended(p) /\ Segment(p) = SegmentAt(Subnet(p), Index(p))
<1>1. Given(p) <=> Planned(p)
  BY LastTurn, GivenPlanned, AllGiven
<1>2. Exists(p) <=> Planned(p)
  BY LastTurn, SegmentOf, ExistsPlanned
<1>3. Planned(p) => Segment(p) = SegmentAt(Subnet(p), Index(p))
  BY LastTurn, SegmentOf
<1> QED
  BY <1>1, <1>2, <1>3, AddressOf

LEMMA SegmentsHaveSubnets ==
    ASSUME TypeOK, ControlInv, PortsInv, AddressInv
    PROVE  SubnetsAreSegments
<1> SUFFICES ASSUME IndicesAgree, pc = "done"
             PROVE  /\ \A p \in Interfaces : Exists(p) => p \in Configured
                    /\ \A p, q \in Configured :
                        SameSubnet(addr[p], addr[q]) <=> Segment(p) = Segment(q)
  BY DEF SubnetsAreSegments
<1>1. \A p \in Interfaces : Exists(p) => p \in Configured
  BY ConfiguredInTheEnd
<1>2. ASSUME NEW p \in Configured, NEW q \in Configured
      PROVE  SameSubnet(addr[p], addr[q]) <=> Segment(p) = Segment(q)
  <2>1. p \in Interfaces /\ q \in Interfaces
    BY DEF Configured
  <2>2. /\ Planned(p) /\ addr[p] = Intended(p) /\ Segment(p) = SegmentAt(Subnet(p), Index(p))
        /\ Planned(q) /\ addr[q] = Intended(q) /\ Segment(q) = SegmentAt(Subnet(q), Index(q))
    BY <2>1, ConfiguredInTheEnd
  <2>3. SameSubnet(addr[p], addr[q]) <=> Subnet(p) = Subnet(q) /\ Index(p) = Index(q)
    BY <2>1, <2>2, IntendedDiffer
  <2>4. /\ Subnet(p) \in {LeftSubnet, RightSubnet} /\ Index(p) \in Nat
        /\ Subnet(q) \in {LeftSubnet, RightSubnet} /\ Index(q) \in Nat
    BY <2>1, <2>2, PlaceOf, MultiInterfaceAssumption
  <2>5. SegmentAt(Subnet(p), Index(p)) = SegmentAt(Subnet(q), Index(q)) =>
            Subnet(p) = Subnet(q) /\ Index(p) = Index(q)
    BY <2>4, SegmentsDiffer
  <2> QED
    BY <2>2, <2>3, <2>5
<1> QED
  BY <1>1, <1>2

(* The turns of all loops have been made.                                  *)
LEMMA AllDone ==
    ASSUME TypeOK, pc = "done"
    PROVE  /\ Done["router_addresses"] = nc /\ Done["server_addresses"] = ServerConnections
           /\ Done["clients_addresses"] = IF multi THEN nc ELSE 0
           /\ Done["servers_addresses"] = IF multi THEN nc + 1 ELSE 0
           /\ Done["client_routes"] = nc /\ Done["server_routes"] = ns
           /\ Done["clients_routes"] = IF multi THEN nc ELSE 0
           /\ Done["servers_routes"] = IF multi THEN nc + 1 ELSE 0
<1>1. /\ pc # "router_addresses" /\ pc # "server_addresses" /\ pc # "clients_addresses"
      /\ pc # "servers_addresses" /\ pc # "client_routes" /\ pc # "server_routes"
      /\ pc # "clients_routes" /\ pc # "servers_routes"
  OBVIOUS
<1>2. /\ Turn(pc) > Turn("router_addresses") /\ Turn(pc) > Turn("server_addresses")
      /\ Turn(pc) > Turn("clients_addresses") /\ Turn(pc) > Turn("servers_addresses")
      /\ Turn(pc) > Turn("client_routes") /\ Turn(pc) > Turn("server_routes")
      /\ Turn(pc) > Turn("clients_routes") /\ Turn(pc) > Turn("servers_routes")
  BY Turns
<1> QED
  BY <1>1, <1>2, Limits, DoneValues DEF Loops

(* The router's end of the segment of an interface.                        *)
RouterEnd(p) == At(Subnet(p), Index(p), 2)

LEMMA RouterEnds ==
    ASSUME TypeOK, IndicesAgree, NEW p \in Interfaces, Planned(p)
    PROVE  LET q == RouterEnd(p) IN
           /\ q \in Interfaces /\ q[1] = Router /\ Planned(q)
           /\ Subnet(q) = Subnet(p) /\ Index(q) = Index(p)
           /\ Intended(q) = RouterAddress(Subnet(p), Index(p))
<1>1. /\ nc \in 0..MaxLinks /\ ns \in 0..MaxLinks /\ MaxLinks \in Nat
      /\ ServerConnections \in Nat /\ ServerConnections >= 1
      /\ ServerConnections <= MaxLinks \/ ServerConnections = 1
      /\ LeftSubnet # RightSubnet
  BY MultiInterfaceAssumption DEF TypeOK, ServerConnections
<1>2. PICK k \in 0..(3 * MaxLinks) :
                \/ p = <<Router, k>> \/ p = <<Client(0), k>> \/ p = <<Server(0), k>>
                \/ \E j \in 1..MaxLinks : p = <<Client(j), k>> \/ p = <<Server(j), k>>
  BY InterfaceCases
<1>3. k \in Nat
  BY <1>1, <1>2
<1>4. /\ Subnet(p) \in {LeftSubnet, RightSubnet} /\ Index(p) \in 0..MaxLinks
      /\ Subnet(p) = LeftSubnet => Index(p) < nc
      /\ Subnet(p) = RightSubnet => Index(p) < ServerConnections \/ (multi /\ Index(p) <= nc)
  <2>1. CASE p = <<Router, k>>
    BY <1>1, <1>3, <2>1, RouterPlace, PlaceOf
  <2>2. CASE p = <<Client(0), k>>
    BY <1>1, <1>3, <2>2, ClientPlace, PlaceOf
  <2>3. CASE p = <<Server(0), k>>
    BY <1>1, <1>3, <2>3, ServerPlace, PlaceOf
  <2>4. ASSUME NEW j \in 1..MaxLinks, p = <<Client(j), k>>
        PROVE  Subnet(p) = LeftSubnet /\ Index(p) = j - 1 /\ j <= nc
    BY <1>1, <1>3, <2>4, ClientsPlace
  <2>5. ASSUME NEW j \in 1..MaxLinks, p = <<Server(j), k>>
        PROVE  Subnet(p) = RightSubnet /\ Index(p) = j /\ j <= nc /\ multi
    BY <1>1, <1>3, <2>5, ServersPlace
  <2>6. CASE \E j \in 1..MaxLinks : p = <<Client(j), k>>
    BY <1>1, <2>4, <2>6
  <2>7. CASE \E j \in 1..MaxLinks : p = <<Server(j), k>>
    BY <1>1, <2>5, <2>7
  <2> QED
    BY <1>2, <2>1, <2>2, <2>3, <2>6, <2>7
<1> DEFINE n == IF Subnet(p) = LeftSubnet THEN Index(p) ELSE nc + Index(p)
<1>5. n \in 0..(3 * MaxLinks) /\ n \in Nat
  BY <1>1, <1>4
<1>6. RouterEnd(p) = <<Router, n>> /\ <<Router, n>> \in Interfaces
  BY <1>5, HostFacts DEF RouterEnd, At, Interfaces
<1>7. /\ n < nc <=> Subnet(p) = LeftSubnet
      /\ Subnet(p) = RightSubnet => n - nc = Index(p)
  BY <1>1, <1>4
<1> HIDE DEF n
<1>8. /\ Subnet(<<Router, n>>) = Subnet(p) /\ Index(<<Router, n>>) = Index(p)
  <2>1. CASE Subnet(p) = LeftSubnet
    BY <1>1, <1>5, <1>7, <2>1, RouterPlace DEF n
  <2>2. CASE Subnet(p) = RightSubnet
    BY <1>1, <1>5, <1>7, <2>2, RouterPlace
  <2> QED
    BY <1>4, <2>1, <2>2
<1>9. Planned(<<Router, n>>)
  <2>1. CASE Subnet(p) = LeftSubnet
    <3>1. n - nc < ServerConnections
      BY <1>1, <1>5, <1>7, <2>1
    <3> QED
      BY <1>1, <1>5, <3>1, RouterPlace
  <2>2. CASE Subnet(p) = RightSubnet
    BY <1>1, <1>4, <1>5, <1>7, <2>2, RouterPlace
  <2> QED
    BY <1>4, <2>1, <2>2
<1>10. Intended(<<Router, n>>) = RouterAddress(Subnet(p), Index(p))
  BY <1>1, <1>5, <1>8, RouterPlace DEF RouterAddress
<1>11. <<Router, n>>[1] = Router
  OBVIOUS
<1> QED
  BY <1>6, <1>8, <1>9, <1>10, <1>11

LEMMA ArpInTheEnd ==
    ASSUME TypeOK, ControlInv, PortsInv, AddressInv, ArpInv
    PROVE  ArpIsRight
<1> SUFFICES ASSUME IndicesAgree, pc = "done"
             PROVE  /\ \A e \in arp :
                        /\ addr[e.of] = e.ip
                        /\ \E p \in Interfaces :
                            p[1] = e.host /\ Exists(p) /\ Segment(p) = Segment(e.of)
                    /\ \A p, q \in Configured :
                        p # q /\ Segment(p) = Segment(q) /\ (p[1] = Router \/ q[1] = Router) =>
                            ([host |-> p[1], ip |-> addr[q], of |-> q] \in arp <=> Learns(p, q))
  BY DEF ArpIsRight
<1>1. ArpSound /\ ArpComplete
  BY DEF ArpInv
<1>2. ASSUME NEW e \in arp
      PROVE  /\ addr[e.of] = e.ip
             /\ \E p \in Interfaces : p[1] = e.host /\ Exists(p) /\ Segment(p) = Segment(e.of)
  <2>1. e.of \in Interfaces
    BY DEF TypeOK, ArpEntry
  <2>2. Given(e.of) /\ e.ip = Intended(e.of)
    BY <1>1 DEF ArpSound
  <2>3. addr[e.of] = e.ip
    BY <2>1, <2>2, AddressOf
  <2> QED
    BY <1>1, <2>3 DEF ArpSound
<1>3. ASSUME NEW p \in Configured, NEW q \in Configured,
             p # q, Segment(p) = Segment(q), p[1] = Router \/ q[1] = Router
      PROVE  [host |-> p[1], ip |-> addr[q], of |-> q] \in arp <=> Learns(p, q)
  <2>1. p \in Interfaces /\ q \in Interfaces
    BY DEF Configured
  <2>2. /\ Planned(p) /\ addr[p] = Intended(p) /\ Segment(p) = SegmentAt(Subnet(p), Index(p))
        /\ Planned(q) /\ addr[q] = Intended(q) /\ Segment(q) = SegmentAt(Subnet(q), Index(q))
    BY <2>1, ConfiguredInTheEnd
  <2>3. /\ Subnet(p) \in {LeftSubnet, RightSubnet} /\ Index(p) \in Nat
        /\ Subnet(q) \in {LeftSubnet, RightSubnet} /\ Index(q) \in Nat
        /\ p = At(Subnet(p), Index(p), Number(p))
        /\ q = At(Subnet(q), Index(q), Number(q))
    BY <2>1, <2>2, PlaceOf, MultiInterfaceAssumption
  <2>4. Subnet(p) = Subnet(q) /\ Index(p) = Index(q)
    BY <1>3, <2>2, <2>3, SegmentsDiffer
  <2>5. Entry(p[1], q) \in arp => MayLearn(p[1], q)
    <3>1. Entry(p[1], q).host = p[1] /\ Entry(p[1], q).of = q
      BY DEF Entry
    <3> QED
      BY <1>1, <3>1 DEF ArpSound
  <2>6. CASE p[1] = Router
    <3>1. q[1] # Router
      BY <1>3, <2>3, <2>4, <2>6 DEF Number
    <3>2. Given(q)
      BY <2>1, <2>2, LastTurn, AllGiven
    <3>3. q[1] # Client(0) => Entry(Router, q) \in arp
      BY <1>1, <2>1, <3>1, <3>2 DEF ArpComplete
    <3> QED
      BY <2>2, <2>5, <2>6, <3>3 DEF Entry, Learns, MayLearn
  <2>7. CASE p[1] # Router
    <3>1. q[1] = Router /\ q = RouterEnd(p)
      BY <1>3, <2>3, <2>4, <2>7 DEF RouterEnd, Number
    <3>2. /\ nc \in Nat /\ MaxLinks \in Nat /\ ServerConnections \in Nat /\ multi \in BOOLEAN
          /\ LeftSubnet # RightSubnet
      BY MultiInterfaceAssumption DEF TypeOK, ServerConnections
    <3>3. PICK k \in 0..(3 * MaxLinks) :
                    \/ p = <<Router, k>> \/ p = <<Client(0), k>> \/ p = <<Server(0), k>>
                    \/ \E j \in 1..MaxLinks : p = <<Client(j), k>> \/ p = <<Server(j), k>>
      BY <2>1, InterfaceCases
    <3>4. k \in Nat
      BY <3>2, <3>3
    <3> SUFFICES Entry(p[1], q) \in arp <=> Learns(p, q)
      BY <2>2 DEF Entry
    <3>5. CASE p = <<Client(0), k>>
      <4>1. q = <<Router, k>> /\ k < nc /\ p[1] = Client(0)
        BY <2>2, <3>1, <3>4, <3>5, ClientPlace DEF RouterEnd, At
      <4>2. k \in 0..(Done["router_addresses"] - 1)
        BY <3>2, <3>4, <4>1, AllDone
      <4>3. Entry(p[1], q) \in arp
        BY <1>1, <4>1, <4>2 DEF ArpComplete
      <4>4. Learns(p, q)
        BY <2>7, <4>1 DEF Learns, Client
      <4> QED
        BY <4>3, <4>4
    <3>6. CASE p = <<Server(0), k>>
      <4>1. q = <<Router, nc + k>> /\ k < ServerConnections /\ p[1] = Server(0)
        BY <2>2, <3>1, <3>2, <3>4, <3>6, ServerPlace DEF RouterEnd, At
      <4>2. Learns(p, q) <=> multi /\ k = 0
        BY <2>7, <3>6, <4>1 DEF Learns, Server, get_server_interface
      <4>3. multi /\ k = 0 => Entry(p[1], q) \in arp
        <5>1. multi => Done["servers_addresses"] > 0
          BY <3>2, AllDone
        <5>2. k = 0 => q = <<Router, nc>>
          BY <3>2, <4>1
        <5> QED
          BY <1>1, <4>1, <5>1, <5>2 DEF ArpComplete
      <4>4. MayLearn(p[1], q) => multi /\ k = 0
        <5>1. MayLearn(p[1], q) => multi /\ q = <<Router, nc>>
          BY <4>1 DEF MayLearn, Server
        <5> QED
          BY <3>2, <3>4, <4>1, <5>1
      <4> QED
        BY <2>5, <4>2, <4>3, <4>4
    <3>7. ASSUME NEW j \in 1..MaxLinks, p = <<Client(j), k>>
          PROVE  Entry(p[1], q) \in arp <=> Learns(p, q)
      <4>1. /\ Subnet(p) = LeftSubnet /\ Index(p) = j - 1 /\ multi /\ j <= nc /\ p[1] = Client(j)
        BY <2>2, <3>2, <3>4, <3>7, ClientsPlace
      <4>2. q = <<Router, j - 1>>
        BY <3>1, <4>1 DEF RouterEnd, At
      <4>3. j - 1 \in 0..(Done["clients_addresses"] - 1) /\ j - 1 + 1 = j
        BY <3>2, <4>1, AllDone
      <4>4. Entry(Client(j - 1 + 1), <<Router, j - 1>>) \in arp
        BY <1>1, <4>3 DEF ArpComplete
      <4>5. Learns(p, q)
        BY <2>7, <4>1 DEF Learns, Client
      <4> QED
        BY <4>1, <4>2, <4>3, <4>4, <4>5
    <3>8. ASSUME NEW j \in 1..MaxLinks, p = <<Server(j), k>>
          PROVE  Entry(p[1], q) \in arp <=> Learns(p, q)
      <4>1. p[1] = Server(j) /\ Server(j) # Server(0) /\ Server(j)[1] = "Server"
        BY <3>2, <3>8 DEF Server
      <4>2. ~MayLearn(p[1], q)
        BY <4>1 DEF MayLearn
      <4>3. ~Learns(p, q)
        BY <2>7, <4>1 DEF Learns, get_server_interface
      <4> QED
        BY <2>5, <4>2, <4>3
    <3>9. p # <<Router, k>>
      BY <2>7
    <3> QED
      BY <3>3, <3>5, <3>6, <3>7, <3>8, <3>9
  <2> QED
    BY <2>6, <2>7
<1> QED
  BY <1>2, <1>3

(* A gateway made from the place of an interface is the router there.      *)
LEMMA Leads ==
    ASSUME TypeOK, ControlInv, PortsInv, AddressInv, IndicesAgree, pc = "done",
           NEW p \in Interfaces, Planned(p)
    PROVE  LeadsToRouter(p, RouterAddress(Subnet(p), Index(p)))
<1> DEFINE q == RouterEnd(p)
<1>1. /\ q \in Interfaces /\ q[1] = Router /\ Planned(q)
      /\ Subnet(q) = Subnet(p) /\ Index(q) = Index(p)
      /\ Intended(q) = RouterAddress(Subnet(p), Index(p))
  BY RouterEnds
<1> HIDE DEF q
<1>2. addr[p] = Intended(p) /\ Segment(p) = SegmentAt(Subnet(p), Index(p))
  BY ConfiguredInTheEnd
<1>3. q \in Configured /\ addr[q] = Intended(q) /\ Segment(q) = SegmentAt(Subnet(q), Index(q))
  BY <1>1, ConfiguredInTheEnd
<1>4. SameSubnet(Intended(p), Intended(q))
  BY <1>1, IntendedDiffer
<1> QED
  BY <1>1, <1>2, <1>3, <1>4 DEF LeadsToRouter

(* The default routes.                                                     *)
LEMMA DefaultInTheEnd ==
    ASSUME TypeOK, DefaultsInv, pc = "done", NEW p \in Interfaces, Planned(p), p[1] # Router, p[2] = 0
    PROVE  RouteThere(p, 0, Default, RouterAddress(Subnet(p), Index(p)))
<1>1. nc \in Nat /\ MaxLinks \in Nat /\ multi \in BOOLEAN
  BY MultiInterfaceAssumption DEF TypeOK
<1>2. PICK k \in 0..(3 * MaxLinks) :
                \/ p = <<Router, k>> \/ p = <<Client(0), k>> \/ p = <<Server(0), k>>
                \/ \E j \in 1..MaxLinks : p = <<Client(j), k>> \/ p = <<Server(j), k>>
  BY InterfaceCases
<1>3. k = 0 /\ 0 \in Nat
  BY <1>2
<1>4. CASE p = <<Client(0), k>>
  <2>1. Subnet(p) = LeftSubnet /\ Index(p) = 0 /\ 0 < nc
    BY <1>3, <1>4, ClientPlace
  <2> QED
    BY <1>1, <1>3, <1>4, <2>1, LastTurn DEF DefaultsInv, DefaultThere
<1>5. CASE p = <<Server(0), k>>
  <2>1. Subnet(p) = RightSubnet /\ Index(p) = 0
    BY <1>3, <1>5, ServerPlace
  <2> QED
    BY <1>3, <1>5, <2>1, LastTurn DEF DefaultsInv, DefaultThere
<1>6. ASSUME NEW j \in 1..MaxLinks, p = <<Client(j), k>>
      PROVE  RouteThere(p, 0, Default, RouterAddress(Subnet(p), Index(p)))
  <2>1. Subnet(p) = LeftSubnet /\ Index(p) = j - 1 /\ multi /\ j <= nc /\ p[1] = Client(j)
    BY <1>1, <1>3, <1>6, ClientsPlace
  <2>2. j - 1 \in 0..(Done["clients_routes"] - 1) /\ j - 1 + 1 = j
    BY <1>1, <2>1, AllDone
  <2>3. DefaultThere(Client(j - 1 + 1), LeftSubnet, j - 1)
    BY <2>2 DEF DefaultsInv
  <2> QED
    BY <1>3, <1>6, <2>1, <2>2, <2>3 DEF DefaultThere
<1>7. ASSUME NEW j \in 1..MaxLinks, p = <<Server(j), k>>
      PROVE  RouteThere(p, 0, Default, RouterAddress(Subnet(p), Index(p)))
  <2>1. Subnet(p) = RightSubnet /\ Index(p) = j /\ multi /\ j <= nc /\ p[1] = Server(j)
    BY <1>1, <1>3, <1>7, ServersPlace
  <2>2. j \in 1..(Done["servers_routes"] - 1)
    BY <1>1, <2>1, AllDone
  <2> QED
    BY <1>3, <1>7, <2>1, <2>2 DEF DefaultsInv, DefaultThere
<1> QED
  BY <1>2, <1>4, <1>5, <1>6, <1>7

(* The rules and the tables of the client and the first server.            *)
LEMMA TableInTheEnd ==
    ASSUME TypeOK, TablesInv, pc = "done", NEW p \in Interfaces, Planned(p),
           p[1] = Client(0) \/ (p[1] = Server(0) /\ ns > 0)
    PROVE  /\ TableThere(p, p[2], Subnet(p)) /\ Index(p) = p[2]
           /\ Intended(p) = Address(Subnet(p), p[2], 1)
<1>1. nc \in Nat /\ ns \in Nat /\ MaxLinks \in Nat /\ (ns > 0 => ServerConnections = ns)
  BY MultiInterfaceAssumption DEF TypeOK, ServerConnections
<1>2. p = <<p[1], p[2]>> /\ p[2] \in Nat
  BY <1>1 DEF Interfaces
<1>3. CASE p[1] = Client(0)
  <2>1. /\ Subnet(p) = LeftSubnet /\ Index(p) = p[2] /\ p[2] < nc
        /\ Intended(p) = Address(LeftSubnet, p[2], 1)
    BY <1>2, <1>3, ClientPlace
  <2>2. p[2] \in 0..(Done["client_routes"] - 1)
    BY <1>1, <1>2, <2>1, AllDone
  <2> QED
    BY <1>2, <1>3, <2>1, <2>2 DEF TablesInv
<1>4. CASE p[1] = Server(0) /\ ns > 0
  <2>1. /\ Subnet(p) = RightSubnet /\ Index(p) = p[2] /\ p[2] < ns
        /\ Intended(p) = Address(RightSubnet, p[2], 1)
    BY <1>1, <1>2, <1>4, ServerPlace
  <2>2. p[2] \in 0..(Done["server_routes"] - 1)
    BY <1>1, <1>2, <2>1, AllDone
  <2> QED
    BY <1>2, <1>4, <2>1, <2>2 DEF TablesInv
<1> QED
  BY <1>3, <1>4

LEMMA RoutesInTheEnd ==
    ASSUME TypeOK, ControlInv, PortsInv, AddressInv, RoutesInv
    PROVE  RoutesLeadToRouter
<1> SUFFICES ASSUME IndicesAgree, dot, pc = "done", NEW p \in Configured
             PROVE  /\ p[1] # Router /\ p[2] = 0 => DefaultThrough(p, 0)
                    /\ p[1] = Client(0) \/ (p[1] = Server(0) /\ ns > 0) =>
                        \E u \in rules :
                            /\ u.host = p[1] /\ u.from = addr[p]
                            /\ DefaultThrough(p, u.table)
                            /\ \E r \in routes : /\ r.host = p[1] /\ r.table = u.table
                                                 /\ r.net # Default /\ SameSubnet(addr[p], r.net)
                            /\ \A r \in routes : r.host = p[1] /\ r.table = u.table => r.dev = p
  BY DEF RoutesLeadToRouter
<1>1. TablesInv /\ DefaultsInv /\ NoRouteBefore
  BY DEF RoutesInv
<1>2. p \in Interfaces
  BY DEF Configured
<1>3. Planned(p) /\ addr[p] = Intended(p)
  BY <1>2, ConfiguredInTheEnd
<1>4. LeadsToRouter(p, RouterAddress(Subnet(p), Index(p)))
  BY <1>2, <1>3, Leads
<1>5. ASSUME NEW t, RouteThere(p, t, Default, RouterAddress(Subnet(p), Index(p)))
      PROVE  DefaultThrough(p, t)
  <2> DEFINE r == [host |-> p[1], table |-> t, net |-> Default,
                   via |-> RouterAddress(Subnet(p), Index(p)), dev |-> p]
  <2>1. /\ r.host = p[1] /\ r.table = t /\ r.net = Default /\ r.dev = p
        /\ r.via = RouterAddress(Subnet(p), Index(p))
    OBVIOUS
  <2>2. r \in routes
    BY <1>5 DEF RouteThere
  <2> HIDE DEF r
  <2> QED
    BY <1>4, <2>1, <2>2 DEF DefaultThrough
<1>6. p[1] # Router /\ p[2] = 0 => DefaultThrough(p, 0)
  BY <1>1, <1>2, <1>3, <1>5, DefaultInTheEnd
<1>7. ASSUME p[1] = Client(0) \/ (p[1] = Server(0) /\ ns > 0)
      PROVE  \E u \in rules :
                /\ u.host = p[1] /\ u.from = addr[p]
                /\ DefaultThrough(p, u.table)
                /\ \E r \in routes : /\ r.host = p[1] /\ r.table = u.table
                                     /\ r.net # Default /\ SameSubnet(addr[p], r.net)
                /\ \A r \in routes : r.host = p[1] /\ r.table = u.table => r.dev = p
  <2> DEFINE k == p[2]
             u == [host |-> p[1], from |-> addr[p], table |-> k + 1]
             s == [host |-> p[1], table |-> k + 1, net |-> Address(Subnet(p), k, 0),
                   via |-> NoAddress, dev |-> p]
  <2>1. TableThere(p, k, Subnet(p)) /\ Index(p) = k /\ Intended(p) = Address(Subnet(p), k, 1)
    BY <1>1, <1>2, <1>3, <1>7, TableInTheEnd
  <2>2. p = <<p[1], k>> /\ k \in Nat
    BY <1>2, MultiInterfaceAssumption DEF Interfaces
  <2>3. Subnet(p) \in {LeftSubnet, RightSubnet} /\ k \in 0..MaxLinks
    BY <1>2, <1>3, <2>1, PlaceOf
  <2>4. /\ SameSubnet(Address(Subnet(p), k, 1), Address(Subnet(p), k, 0))
        /\ Address(Subnet(p), k, 0) # Default
    <3>1. 0 \in Nat /\ 1 \in Nat
      OBVIOUS
    <3> QED
      BY <2>2, <2>3, <3>1, AddressesDiffer, AddressTypes DEF Default, NoAddress
  <2>5. u \in rules /\ u.host = p[1] /\ u.from = addr[p] /\ u.table = k + 1
    BY <1>3, <2>1 DEF TableThere, RuleThere
  <2>6. DefaultThrough(p, k + 1)
    BY <1>5, <2>1 DEF TableThere
  <2>7. /\ s \in routes /\ s.host = p[1] /\ s.table = k + 1
        /\ s.net # Default /\ SameSubnet(addr[p], s.net)
    BY <1>3, <2>1, <2>4 DEF TableThere, RouteThere
  <2>8. ASSUME NEW r \in routes, r.host = p[1], r.table = k + 1
        PROVE  r.dev = p
    <3>1. r.table > 0 => r.dev = <<r.host, r.table - 1>>
      BY <1>1 DEF NoRouteBefore, TimelyAt
    <3>2. r.table > 0 /\ r.table - 1 = k
      BY <2>2, <2>8
    <3> QED
      BY <2>2, <2>8, <3>1, <3>2
  <2> HIDE DEF k, u, s
  <2> QED
    BY <2>5, <2>6, <2>7, <2>8
<1> QED
  BY <1>6, <1>7

-----------------------------------------------------------------------------
(* A step of any loop                                                      *)

(* An action that leaves the network alone, given the types of what it     *)
(* changes.                                                                *)
LEMMA TypesKept ==
    ASSUME TypeOK, ControlInv, NEW loop \in Loops, NEW next, Moves(loop, next), UNCHANGED netVars,
           addr' \in [Interfaces -> Addresses \cup {NoAddress}],
           arp' \subseteq ArpEntry, rules' \subseteq Rule, routes' \subseteq Route
    PROVE  TypeOK'
<1>1. Limit(loop) \in 0..(MaxLinks + 1) /\ MaxLinks \in Nat
  BY LoopTypes, MultiInterfaceAssumption
<1>2. i' \in 0..(MaxLinks + 1)
  BY <1>1 DEF Moves
<1>3. nc' = nc /\ ns' = ns /\ multi' = multi /\ dot' = dot /\ servers' = servers /\ ports' = ports
  BY DEF netVars, inputs
<1> QED
  BY <1>2, <1>3 DEF TypeOK

(* A loop whose interfaces exist raises no KeyError.                       *)
LEMMA ConfigureMoves ==
    ASSUME TypeOK, ControlInv, NEW loop \in Loops, NEW next \in Loops \cup {"done"}, NEW use,
           ConfigureLoop(loop, Limit(loop), next, use),
           i < Limit(loop) => \A p \in use : Exists(p),
           Turn(loop) < Turn(next),
           \A m \in Loops : Turn(loop) < Turn(m) /\ Turn(m) < Turn(next) => Limit(m) = 0
    PROVE  Moves(loop, next) /\ UNCHANGED <<netVars, rules, routes>>
<1>1. Loop(loop, Limit(loop), next) /\ UNCHANGED <<netVars, rules, routes>>
  BY DEF ConfigureLoop
<1>2. UNCHANGED inputs
  BY <1>1 DEF netVars
<1> QED
  BY <1>1, <1>2, LoopMoves

LEMMA GivenPrimed ==
    ASSUME UNCHANGED inputs, NEW p
    PROVE  Given(p)' <=> GivenAfter(Done', p)
<1>1. nc' = nc
  BY DEF inputs
<1> QED
  BY <1>1 DEF Given, GivenAfter

LEMMA GivenCases ==
    ASSUME NEW d, NEW k \in Nat, nc \in Nat
    PROVE  /\ GivenAfter(d, <<Router, k>>) <=>
                IF k < nc THEN k < d["router_addresses"]
                ELSE \/ k - nc < d["server_addresses"]
                     \/ k - nc < d["servers_addresses"]
           /\ GivenAfter(d, <<Client(0), k>>) <=> k < d["client_addresses"]
           /\ GivenAfter(d, <<Server(0), k>>) <=> k < d["server_addresses"]
           /\ \A j \in 1..MaxLinks :
                /\ GivenAfter(d, <<Client(j), k>>) <=> k = 0 /\ j - 1 < d["clients_addresses"]
                /\ GivenAfter(d, <<Server(j), k>>) <=> k = 0 /\ j < d["servers_addresses"]
<1>1. GivenAfter(d, <<Router, k>>) <=>
                IF k < nc THEN k < d["router_addresses"]
                ELSE \/ k - nc < d["server_addresses"]
                     \/ k - nc < d["servers_addresses"]
  <2>1. <<Router, k>>[1] = Router /\ <<Router, k>>[2] = k /\ Router[1] = "Router"
    BY DEF Router
  <2> QED
    BY <2>1 DEF GivenAfter
<1>2. /\ GivenAfter(d, <<Client(0), k>>) <=> k < d["client_addresses"]
      /\ GivenAfter(d, <<Server(0), k>>) <=> k < d["server_addresses"]
  <2>1. /\ <<Client(0), k>>[1] = Client(0) /\ <<Client(0), k>>[2] = k /\ Client(0) # Router
        /\ Client(0)[1] = "Client" /\ Client(0)[2] = 0
        /\ <<Server(0), k>>[1] = Server(0) /\ <<Server(0), k>>[2] = k /\ Server(0) # Router
        /\ Server(0)[1] = "Server" /\ Server(0)[2] = 0
    BY DEF Router, Client, Server
  <2> QED
    BY <2>1 DEF GivenAfter
<1>3. ASSUME NEW j \in 1..MaxLinks
      PROVE  /\ GivenAfter(d, <<Client(j), k>>) <=> k = 0 /\ j - 1 < d["clients_addresses"]
             /\ GivenAfter(d, <<Server(j), k>>) <=> k = 0 /\ j < d["servers_addresses"]
  <2>1. /\ <<Client(j), k>>[1] = Client(j) /\ <<Client(j), k>>[2] = k /\ Client(j) # Router
        /\ Client(j)[1] = "Client" /\ Client(j)[2] = j
        /\ <<Server(j), k>>[1] = Server(j) /\ <<Server(j), k>>[2] = k /\ Server(j) # Router
        /\ Server(j)[1] = "Server" /\ Server(j)[2] = j /\ j # 0
    BY MultiInterfaceAssumption DEF Router, Client, Server
  <2> QED
    BY <2>1 DEF GivenAfter
<1> QED
  BY <1>1, <1>2, <1>3

-----------------------------------------------------------------------------
(* configure_interfaces                                                    *)

LEMMA WithTypes ==
    ASSUME NEW a \in [Interfaces -> Addresses \cup {NoAddress}], NEW entries \in SUBSET ArpEntry,
           NEW host \in Hosts, NEW ip \in Addresses, NEW p \in Interfaces, NEW b
    PROVE  /\ WithAddress(a, p, ip) \in [Interfaces -> Addresses \cup {NoAddress}]
           /\ Flush(a, p) \in [Interfaces -> Addresses \cup {NoAddress}]
           /\ WithArp(entries, b, host, ip, p) \in SUBSET ArpEntry
<1>1. {e \in entries : e.host # host \/ e.ip # ip} \cup {[host |-> host, ip |-> ip, of |-> p]} \in SUBSET ArpEntry
  BY DEF ArpEntry
<1>2. WithArp(entries, b, host, ip, p) \in SUBSET ArpEntry
  BY <1>1 DEF WithArp
<1> QED
  BY <1>2 DEF WithAddress, Flush

(* The interfaces of G have their addresses, the others none.              *)
Holds(a, G) ==
    /\ G \subseteq Interfaces /\ \A q \in G : Planned(q)
    /\ \A q \in Interfaces : a[q] = IF q \in G THEN Intended(q) ELSE NoAddress

(* A host has one interface at a place: the one that reaches it.           *)
LEMMA ConnectedTo ==
    ASSUME TypeOK, IndicesAgree, NEW a, NEW G, Holds(a, G), NEW p \in Interfaces, Planned(p),
           NEW q \in Interfaces, Planned(q), Subnet(p) = Subnet(q), Index(p) = Index(q)
    PROVE  Connected(a, q[1], Intended(p)) = G \cap {q}
<1>1. ASSUME NEW o \in Interfaces, o[1] = q[1], a[o] # NoAddress, SameSubnet(a[o], Intended(p))
      PROVE  o \in G /\ o = q
  <2>1. o \in G /\ Planned(o) /\ a[o] = Intended(o)
    BY <1>1 DEF Holds
  <2>2. Subnet(o) = Subnet(p) /\ Index(o) = Index(p)
    BY <1>1, <2>1, IntendedDiffer
  <2>3. Number(o) = Number(q)
    BY <1>1 DEF Number
  <2>4. o = At(Subnet(o), Index(o), Number(o)) /\ q = At(Subnet(q), Index(q), Number(q))
    BY <2>1, PlaceOf
  <2> QED
    BY <2>1, <2>2, <2>3, <2>4
<1>2. ASSUME q \in G PROVE a[q] # NoAddress /\ SameSubnet(a[q], Intended(p))
  <2>1. a[q] = Intended(q)
    BY <1>2 DEF Holds
  <2>2. Intended(q) # NoAddress /\ SameSubnet(Intended(q), Intended(p))
    BY IntendedDiffer
  <2> QED
    BY <2>1, <2>2
<1> QED
  BY <1>1, <1>2 DEF Connected

LEMMA AddrHolds ==
    ASSUME TypeOK, ControlInv, AddressInv, IndicesAgree
    PROVE  Holds(addr, {q \in Interfaces : Given(q)})
BY GivenPlanned DEF Holds, AddressInv

LEMMA MoreHolds ==
    ASSUME NEW a, NEW G, Holds(a, G), NEW P, P \subseteq Interfaces, \A q \in P : Planned(q), NEW b,
           b = [q \in Interfaces |-> IF q \in P THEN Intended(q) ELSE a[q]]
    PROVE  Holds(b, G \cup P)
BY DEF Holds

(* Entries for the addresses that interfaces are to have.                  *)
RightEntries(entries) ==
    \A e \in entries : e \in ArpEntry /\ Planned(e.of) /\ e.ip = Intended(e.of)

(* No entry replaces one of another interface.                             *)
LEMMA ArpAdds ==
    ASSUME TypeOK, IndicesAgree, NEW entries, RightEntries(entries), NEW host \in Hosts,
           NEW p \in Interfaces, Planned(p), NEW ip, ip = Intended(p),
           NEW a, Connected(a, host, ip) # {}
    PROVE  WithArp(entries, a, host, ip, p) = entries \cup {Entry(host, p)}
<1>1. ASSUME NEW e \in entries, e.host = host, e.ip = ip
      PROVE  e = Entry(host, p)
  <2>1. e \in ArpEntry /\ Planned(e.of) /\ e.ip = Intended(e.of)
    BY DEF RightEntries
  <2>2. e.of \in Interfaces /\ e = [host |-> e.host, ip |-> e.ip, of |-> e.of]
    BY <2>1 DEF ArpEntry
  <2>3. e.of = p
    BY <1>1, <2>1, <2>2, IntendedDiffer
  <2> QED
    BY <1>1, <2>2, <2>3 DEF Entry
<1>2. {e \in entries : e.host # host \/ e.ip # ip} \cup {Entry(host, p)} = entries \cup {Entry(host, p)}
  BY <1>1
<1> QED
  BY <1>2 DEF WithArp, Entry

LEMMA ArpStaysRight ==
    ASSUME TypeOK, IndicesAgree, NEW entries, RightEntries(entries), NEW host \in Hosts,
           NEW p \in Interfaces, Planned(p)
    PROVE  RightEntries(entries \cup {Entry(host, p)})
<1>1. Entry(host, p) \in ArpEntry /\ Entry(host, p).of = p /\ Entry(host, p).ip = Intended(p)
  BY IntendedDiffer DEF Entry, ArpEntry
<1> QED
  BY <1>1 DEF RightEntries

LEMMA ArpRight ==
    ASSUME TypeOK, ControlInv, ArpSound
    PROVE  RightEntries(arp)
<1> SUFFICES ASSUME NEW e \in arp PROVE e \in ArpEntry /\ Planned(e.of) /\ e.ip = Intended(e.of)
  BY DEF RightEntries
<1>1. e \in ArpEntry /\ e.of \in Interfaces
  BY DEF TypeOK, ArpEntry
<1>2. Given(e.of) /\ e.ip = Intended(e.of)
  BY DEF ArpSound
<1> QED
  BY <1>1, <1>2, GivenPlanned

LEMMA ArpCompleteStep ==
    ASSUME TypeOK, ControlInv, ArpComplete, UNCHANGED inputs, arp \subseteq arp',
           NEW loop \in AddressLoops, i \in Nat, Done[loop] = i, Done' = [Done EXCEPT ![loop] = i + 1],
           NEW P, \A p \in Interfaces : Given(p)' <=> Given(p) \/ p \in P,
           \A p \in P : p[1] # Router /\ p[1] # Client(0) => Entry(Router, p) \in arp',
           loop = "router_addresses" => Entry(Client(0), <<Router, i>>) \in arp',
           loop = "clients_addresses" => Entry(Client(i + 1), <<Router, i>>) \in arp',
           loop = "servers_addresses" /\ i = 0 => Entry(Server(0), <<Router, nc>>) \in arp'
    PROVE  ArpComplete'
<1>1. ASSUME NEW h, NEW p PROVE Entry(h, p)' = Entry(h, p)
  BY DEF Entry, Intended, Address, RouterAddress, inputs
<1>2. nc' = nc /\ Done \in [Loops -> Nat]
  BY DoneType DEF inputs
<1>3. \A m \in AddressLoops : Done[m] \in Nat /\ Done'[m] = IF m = loop THEN i + 1 ELSE Done[m]
  BY <1>2 DEF AddressLoops, Loops
<1>4. ASSUME NEW m \in AddressLoops, NEW k \in 0..(Done'[m] - 1)
      PROVE  k \in 0..(Done[m] - 1) \/ (m = loop /\ k = i)
  BY <1>3
<1>5. \A p \in Interfaces :
        Given(p)' /\ p[1] # Router /\ p[1] # Client(0) => Entry(Router, p) \in arp'
  BY DEF ArpComplete
<1>6. ASSUME NEW k \in 0..(Done'["router_addresses"] - 1)
      PROVE  Entry(Client(0), <<Router, k>>) \in arp'
  <2>1. k \in 0..(Done["router_addresses"] - 1) \/ (loop = "router_addresses" /\ k = i)
    BY <1>4 DEF AddressLoops
  <2> QED
    BY <2>1 DEF ArpComplete
<1>7. ASSUME NEW k \in 0..(Done'["clients_addresses"] - 1)
      PROVE  Entry(Client(k + 1), <<Router, k>>) \in arp'
  <2>1. k \in 0..(Done["clients_addresses"] - 1) \/ (loop = "clients_addresses" /\ k = i)
    BY <1>4 DEF AddressLoops
  <2> QED
    BY <2>1 DEF ArpComplete
<1>8. ASSUME Done'["servers_addresses"] > 0
      PROVE  Entry(Server(0), <<Router, nc>>) \in arp'
  <2>1. Done["servers_addresses"] > 0 \/ (loop = "servers_addresses" /\ i = 0)
    BY <1>3, <1>8 DEF AddressLoops
  <2> QED
    BY <2>1 DEF ArpComplete
<1> QED
  BY <1>1, <1>2, <1>5, <1>6, <1>7, <1>8 DEF ArpComplete

(* A turn that gives the interfaces of P their addresses, and entries of   *)
(* E, each at a host with an interface on the segment.                     *)
Neighbour(e) ==
    \E p, q \in Interfaces :
        /\ e = Entry(q[1], p) /\ Planned(p) /\ Planned(q)
        /\ Subnet(p) = Subnet(q) /\ Index(p) = Index(q)

LEMMA SoundStep ==
    ASSUME TypeOK, ControlInv, PortsInv, ArpSound, IndicesAgree, UNCHANGED netVars, Turn(pc) > 4,
           NEW E, arp' = arp \cup E, \A e \in E : Neighbour(e) /\ MayLearn(e.host, e.of) /\ Given(e.of)',
           \A p \in Interfaces : Given(p) => Given(p)'
    PROVE  ArpSound'
<1>1. ASSUME NEW p PROVE Intended(p)' = Intended(p) /\ Exists(p)' = Exists(p) /\ Segment(p)' = Segment(p)
  BY DEF Intended, Address, RouterAddress, Exists, Segment, netVars, inputs
<1>2. ASSUME NEW e \in arp'
      PROVE  /\ Given(e.of)' /\ e.ip = Intended(e.of) /\ MayLearn(e.host, e.of)
             /\ \E p \in Interfaces : p[1] = e.host /\ Exists(p) /\ Segment(p) = Segment(e.of)
  <2>1. CASE e \in arp
    <3>1. e.of \in Interfaces
      BY <2>1 DEF TypeOK, ArpEntry
    <3> QED
      BY <2>1, <3>1 DEF ArpSound
  <2>2. CASE e \in E
    <3>1. PICK p \in Interfaces, q \in Interfaces :
            /\ e = Entry(q[1], p) /\ Planned(p) /\ Planned(q)
            /\ Subnet(p) = Subnet(q) /\ Index(p) = Index(q)
      BY <2>2 DEF Neighbour
    <3>2. e.host = q[1] /\ e.of = p /\ e.ip = Intended(p)
      BY <3>1 DEF Entry
    <3>3. Exists(q) /\ Segment(q) = Segment(p)
      BY <3>1, SegmentOf
    <3> QED
      BY <2>2, <3>2, <3>3
  <2> QED
    BY <2>1, <2>2
<1>3. ASSUME NEW h, NEW q PROVE MayLearn(h, q)' = MayLearn(h, q)
  BY DEF MayLearn, netVars, inputs
<1> QED
  BY <1>1, <1>2, <1>3 DEF ArpSound

LEMMA AddressStep ==
    ASSUME TypeOK, AddressInv, IndicesAgree, UNCHANGED netVars, NEW P,
           addr' = [p \in Interfaces |-> IF p \in P THEN Intended(p) ELSE addr[p]],
           \A p \in Interfaces : Given(p)' <=> Given(p) \/ p \in P
    PROVE  AddressInv'
<1>1. ASSUME NEW p PROVE Intended(p)' = Intended(p)
  BY DEF Intended, Address, RouterAddress, netVars, inputs
<1>2. ASSUME NEW p \in Interfaces PROVE addr'[p] = IF Given(p)' THEN Intended(p) ELSE NoAddress
  BY DEF AddressInv
<1> QED
  BY <1>1, <1>2 DEF AddressInv

(* The interfaces that get an address in a turn.                           *)
Gives(loop) ==
    CASE loop = "client_addresses"  -> {<<Client(0), i>>}
      [] loop = "router_addresses"  -> {<<Router, i>>}
      [] loop = "server_addresses"  -> {<<Router, nc + i>>, <<Server(0), i>>}
      [] loop = "clients_addresses" -> {<<Client(i + 1), 0>>}
      [] loop = "servers_addresses" -> {<<Router, nc + i>>, <<Server(i), 0>>}

LEMMA GivesValues ==
    /\ Gives("client_addresses") = {<<Client(0), i>>}
    /\ Gives("router_addresses") = {<<Router, i>>}
    /\ Gives("server_addresses") = {<<Router, nc + i>>, <<Server(0), i>>}
    /\ Gives("clients_addresses") = {<<Client(i + 1), 0>>}
    /\ Gives("servers_addresses") = {<<Router, nc + i>>, <<Server(i), 0>>}
BY DEF Gives

LEMMA GivesCases ==
    ASSUME NEW loop \in AddressLoops, i \in Nat, nc \in Nat, NEW k \in Nat
    PROVE  /\ <<Router, k>> \in Gives(loop) <=>
                \/ loop = "router_addresses" /\ k = i
                \/ loop \in {"server_addresses", "servers_addresses"} /\ k = nc + i
           /\ <<Client(0), k>> \in Gives(loop) <=> loop = "client_addresses" /\ k = i
           /\ <<Server(0), k>> \in Gives(loop) <=>
                \/ loop = "server_addresses" /\ k = i
                \/ loop = "servers_addresses" /\ i = 0 /\ k = 0
           /\ \A j \in 1..MaxLinks :
                /\ <<Client(j), k>> \in Gives(loop) <=> loop = "clients_addresses" /\ j = i + 1 /\ k = 0
                /\ <<Server(j), k>> \in Gives(loop) <=> loop = "servers_addresses" /\ j = i /\ k = 0
<1>1. CASE loop = "client_addresses"
  BY <1>1, GivesValues, MultiInterfaceAssumption DEF Client, Server, Router
<1>2. CASE loop = "router_addresses"
  BY <1>2, GivesValues, MultiInterfaceAssumption DEF Client, Server, Router
<1>3. CASE loop = "server_addresses"
  BY <1>3, GivesValues, MultiInterfaceAssumption DEF Client, Server, Router
<1>4. CASE loop = "clients_addresses"
  BY <1>4, GivesValues, MultiInterfaceAssumption DEF Client, Server, Router
<1>5. CASE loop = "servers_addresses"
  BY <1>5, GivesValues, MultiInterfaceAssumption DEF Client, Server, Router
<1> QED
  BY <1>1, <1>2, <1>3, <1>4, <1>5 DEF AddressLoops

LEMMA GivenStep ==
    ASSUME TypeOK, ControlInv, UNCHANGED inputs, NEW loop \in AddressLoops, NEW next,
           Moves(loop, next), i < Limit(loop), NEW p \in Interfaces
    PROVE  Given(p)' <=> Given(p) \/ p \in Gives(loop)
<1>1. /\ nc \in Nat /\ MaxLinks \in Nat /\ i \in Nat
      /\ ServerConnections \in Nat /\ ServerConnections >= 1
  BY MultiInterfaceAssumption DEF TypeOK, ServerConnections
<1>2. loop \in Loops /\ Done \in [Loops -> Nat] /\ Limit(loop) \in Nat
  BY DoneType DEF AddressLoops, Loops
<1>3. /\ pc = loop /\ Done[loop] = i /\ Done' = [Done EXCEPT ![loop] = i + 1]
  BY <1>1, <1>2 DEF Moves
<1>4. \A m \in AddressLoops : Done[m] \in Nat /\ Done'[m] = IF m = loop THEN Done[m] + 1 ELSE Done[m]
  BY <1>2, <1>3 DEF AddressLoops, Loops
<1>5. loop = "router_addresses" => i < nc
  BY Limits
<1>6. loop = "servers_addresses" => Done["server_addresses"] >= 1
  BY <1>1, <1>3, Turns, Limits, DoneValues DEF Loops
<1>7. PICK k \in 0..(3 * MaxLinks) :
                \/ p = <<Router, k>> \/ p = <<Client(0), k>> \/ p = <<Server(0), k>>
                \/ \E j \in 1..MaxLinks : p = <<Client(j), k>> \/ p = <<Server(j), k>>
  BY InterfaceCases
<1>8. k \in Nat
  BY <1>1, <1>7
<1> SUFFICES GivenAfter(Done', p) <=> GivenAfter(Done, p) \/ p \in Gives(loop)
  BY GivenPrimed DEF Given
<1>9. CASE p = <<Router, k>>
  <2>1. /\ GivenAfter(Done, p) <=> IF k < nc THEN k < Done["router_addresses"]
                                   ELSE \/ k - nc < Done["server_addresses"]
                                        \/ k - nc < Done["servers_addresses"]
        /\ GivenAfter(Done', p) <=> IF k < nc THEN k < Done'["router_addresses"]
                                    ELSE \/ k - nc < Done'["server_addresses"]
                                         \/ k - nc < Done'["servers_addresses"]
    BY <1>1, <1>8, <1>9, GivenCases
  <2>2. p \in Gives(loop) <=>
                \/ loop = "router_addresses" /\ k = i
                \/ loop \in {"server_addresses", "servers_addresses"} /\ k = nc + i
    BY <1>1, <1>8, <1>9, GivesCases
  <2> QED
    BY <1>1, <1>3, <1>4, <1>5, <1>8, <2>1, <2>2 DEF AddressLoops
<1>10. CASE p = <<Client(0), k>>
  <2>1. /\ GivenAfter(Done, p) <=> k < Done["client_addresses"]
        /\ GivenAfter(Done', p) <=> k < Done'["client_addresses"]
    BY <1>1, <1>8, <1>10, GivenCases
  <2>2. p \in Gives(loop) <=> loop = "client_addresses" /\ k = i
    BY <1>1, <1>8, <1>10, GivesCases
  <2> QED
    BY <1>1, <1>3, <1>4, <1>8, <2>1, <2>2 DEF AddressLoops
<1>11. CASE p = <<Server(0), k>>
  <2>1. /\ GivenAfter(Done, p) <=> k < Done["server_addresses"]
        /\ GivenAfter(Done', p) <=> k < Done'["server_addresses"]
    BY <1>1, <1>8, <1>11, GivenCases
  <2>2. p \in Gives(loop) <=> \/ loop = "server_addresses" /\ k = i
                              \/ loop = "servers_addresses" /\ i = 0 /\ k = 0
    BY <1>1, <1>8, <1>11, GivesCases
  <2> QED
    BY <1>1, <1>3, <1>4, <1>6, <1>8, <2>1, <2>2 DEF AddressLoops
<1>12. ASSUME NEW j \in 1..MaxLinks, p = <<Client(j), k>>
       PROVE  GivenAfter(Done', p) <=> GivenAfter(Done, p) \/ p \in Gives(loop)
  <2>1. /\ GivenAfter(Done, p) <=> k = 0 /\ j - 1 < Done["clients_addresses"]
        /\ GivenAfter(Done', p) <=> k = 0 /\ j - 1 < Done'["clients_addresses"]
    BY <1>1, <1>8, <1>12, GivenCases
  <2>2. p \in Gives(loop) <=> loop = "clients_addresses" /\ j = i + 1 /\ k = 0
    BY <1>1, <1>8, <1>12, GivesCases
  <2> QED
    BY <1>1, <1>3, <1>4, <1>8, <2>1, <2>2 DEF AddressLoops
<1>13. ASSUME NEW j \in 1..MaxLinks, p = <<Server(j), k>>
       PROVE  GivenAfter(Done', p) <=> GivenAfter(Done, p) \/ p \in Gives(loop)
  <2>1. /\ GivenAfter(Done, p) <=> k = 0 /\ j < Done["servers_addresses"]
        /\ GivenAfter(Done', p) <=> k = 0 /\ j < Done'["servers_addresses"]
    BY <1>1, <1>8, <1>13, GivenCases
  <2>2. p \in Gives(loop) <=> loop = "servers_addresses" /\ j = i /\ k = 0
    BY <1>1, <1>8, <1>13, GivesCases
  <2> QED
    BY <1>1, <1>3, <1>4, <1>8, <2>1, <2>2 DEF AddressLoops
<1> QED
  BY <1>7, <1>9, <1>10, <1>11, <1>12, <1>13

(* A turn gives the addresses and the entries that it should.              *)
TurnIsRight(loop, E) ==
    /\ addr' = [p \in Interfaces |-> IF p \in Gives(loop) THEN Intended(p) ELSE addr[p]]
    /\ arp' = arp \cup E
    /\ \A e \in E : /\ Neighbour(e) /\ MayLearn(e.host, e.of)
                    /\ Given(e.of) \/ e.of \in Gives(loop)
    /\ \A p \in Gives(loop) : p[1] # Router /\ p[1] # Client(0) => Entry(Router, p) \in E
    /\ loop = "router_addresses" => Entry(Client(0), <<Router, i>>) \in E
    /\ loop = "clients_addresses" => Entry(Client(i + 1), <<Router, i>>) \in E
    /\ loop = "servers_addresses" /\ i = 0 => Entry(Server(0), <<Router, nc>>) \in E

(* A loop of configure_interfaces preserves the invariant if its turns     *)
(* are right.                                                              *)
LEMMA ConfigureStep ==
    ASSUME NetworkInv, NEW loop \in AddressLoops, NEW next \in AddressLoops \cup {"client_routes"},
           Moves(loop, next), UNCHANGED <<netVars, rules, routes>>, ~multi => next \notin MultiLoops,
           ~(i < Limit(loop)) => UNCHANGED <<addr, arp>>,
           addr' \in [Interfaces -> Addresses \cup {NoAddress}], arp' \in SUBSET ArpEntry,
           NEW E,
           i < Limit(loop) /\ IndicesAgree => TurnIsRight(loop, E)
    PROVE  NetworkInv'
<1>1. /\ TypeOK /\ ControlInv /\ PortsInv /\ AddressInv /\ ArpInv /\ RoutesInv
      /\ loop \in Loops /\ next \in Loops \cup {"done"} /\ UNCHANGED inputs
  BY DEF NetworkInv, AddressLoops, Loops, netVars
<1>2. TypeOK'
  BY <1>1, TypesKept DEF TypeOK
<1>3. Same(Loops \ {loop})
  BY <1>1, OthersSame
<1>4. ControlInv'
  <2>1. servers' = Done'["clients"] + 1
    BY <1>3 DEF Same, Loops, AddressLoops, NetworkInv, ControlInv, netVars
  <2> QED
    BY <1>1, <2>1, ControlStep
<1>5. pc = loop /\ (pc' = loop \/ pc' = next)
  BY DEF Moves
<1>6. \A m \in AddressLoops \cup {"client_routes"} : Turn(m) > 4 /\ Turn(m) > 2 /\ ~(Turn(m) > 12) /\ ~(Turn(m) > 13)
  BY Turns DEF AddressLoops
<1>7. PortsInv'
  <2>1. Same({"c2r", "r2s", "clients", "servers"})
    BY <1>3 DEF Same, Loops, AddressLoops
  <2>2. UNCHANGED <<inputs, ports>> /\ Turn(pc) > 2 /\ Turn(pc') > 2
    BY <1>5, <1>6 DEF netVars
  <2> QED
    BY <1>1, <2>1, <2>2, PortsKept
<1>8. RoutesInv'
  <2>1. Same(RouteLoops)
    BY <1>3 DEF Same, Loops, AddressLoops, RouteLoops
  <2>2. /\ UNCHANGED <<inputs, rules, routes>>
        /\ Turn(pc') > 12 <=> Turn(pc) > 12
        /\ Turn(pc') > 13 <=> Turn(pc) > 13
    BY <1>5, <1>6 DEF netVars
  <2> QED
    BY <1>1, <2>1, <2>2, RoutesKept
<1>9. CASE ~(i < Limit(loop))
  <2>1. Same(AddressLoops) /\ UNCHANGED <<inputs, addr, arp, ports>>
    BY <1>9 DEF Moves, Same, netVars
  <2>2. AddressInv'
    BY <1>1, <2>1, AddressKept
  <2>3. ArpInv'
    BY <1>1, <2>1, ArpKept
  <2> QED
    BY <1>2, <1>4, <1>7, <1>8, <2>2, <2>3 DEF NetworkInv
<1>10. CASE i < Limit(loop) /\ IndicesAgree
  <2>1. \A p \in Interfaces : Given(p)' <=> Given(p) \/ p \in Gives(loop)
    BY <1>1, <1>10, GivenStep
  <2>2. AddressInv'
    BY <1>1, <1>10, <2>1, AddressStep DEF TurnIsRight
  <2>3. ArpSound /\ ArpComplete
    BY <1>1, <1>10 DEF ArpInv
  <2>4. \A e \in E : Neighbour(e) /\ MayLearn(e.host, e.of) /\ Given(e.of)'
    <3>1. \A e \in E : e.of \in Interfaces
      BY <1>10 DEF TurnIsRight, Neighbour, Entry
    <3> QED
      BY <1>10, <2>1, <3>1 DEF TurnIsRight
  <2>5. ArpSound'
    <3>1. arp' = arp \cup E /\ Turn(pc) > 4 /\ \A p \in Interfaces : Given(p) => Given(p)'
      BY <1>5, <1>6, <1>10, <2>1 DEF TurnIsRight
    <3> QED
      BY <1>1, <1>10, <2>3, <2>4, <3>1, SoundStep
  <2>6. ArpComplete'
    <3>1. i \in Nat /\ Done[loop] = i /\ Done' = [Done EXCEPT ![loop] = i + 1]
      <4>1. Limit(loop) \in Nat
        BY <1>1, DoneType
      <4> QED
        BY <1>10, <4>1 DEF Moves
    <3>2. E \subseteq arp' /\ arp \subseteq arp'
      BY <1>10 DEF TurnIsRight
    <3> QED
      BY <1>1, <1>10, <2>1, <2>3, <3>1, <3>2, ArpCompleteStep DEF TurnIsRight
  <2> QED
    BY <1>2, <1>4, <1>7, <1>8, <2>2, <2>5, <2>6 DEF NetworkInv, ArpInv
<1>11. CASE ~IndicesAgree
  <2>1. ~IndicesAgree'
    BY <1>1, <1>11 DEF IndicesAgree, inputs
  <2> QED
    BY <1>2, <1>4, <1>7, <1>8, <2>1 DEF NetworkInv, ArpInv, AddressInv
<1> QED
  BY <1>9, <1>10, <1>11

(* The ends of the segments, as the loops name them.                       *)
LEMMA LeftEnds ==
    ASSUME TypeOK, NEW k \in Nat, k < nc
    PROVE  /\ <<Client(0), k>> \in Interfaces /\ Planned(<<Client(0), k>>)
           /\ Subnet(<<Client(0), k>>) = LeftSubnet /\ Index(<<Client(0), k>>) = k
           /\ Intended(<<Client(0), k>>) = Address(LeftSubnet, k, 1)
           /\ <<Router, k>> \in Interfaces /\ Planned(<<Router, k>>)
           /\ Subnet(<<Router, k>>) = LeftSubnet /\ Index(<<Router, k>>) = k
           /\ Intended(<<Router, k>>) = Address(LeftSubnet, k, 2)
           /\ <<Client(k + 1), 0>> \in Interfaces /\ (multi => Planned(<<Client(k + 1), 0>>))
           /\ Subnet(<<Client(k + 1), 0>>) = LeftSubnet /\ Index(<<Client(k + 1), 0>>) = k
           /\ Intended(<<Client(k + 1), 0>>) = Address(LeftSubnet, k, 10)
<1>1. /\ nc \in 0..MaxLinks /\ MaxLinks \in Nat /\ ServerConnections \in Nat /\ ServerConnections >= 1
      /\ k \in 0..(3 * MaxLinks) /\ k + 1 \in 1..MaxLinks /\ 0 \in 0..(3 * MaxLinks)
      /\ k + 1 \in Nat /\ k + 1 # 0 /\ k + 1 - 1 = k /\ k + 1 <= nc /\ 0 \in Nat
      /\ k - nc < ServerConnections
  BY MultiInterfaceAssumption DEF TypeOK, ServerConnections
<1>2. Client(0) \in Hosts /\ Router \in Hosts /\ Client(k + 1) \in Hosts
  BY <1>1, HostFacts
<1>3. <<Client(0), k>> \in Interfaces /\ <<Router, k>> \in Interfaces /\ <<Client(k + 1), 0>> \in Interfaces
  BY <1>1, <1>2 DEF Interfaces
<1>4. /\ Planned(<<Client(0), k>>)
      /\ Subnet(<<Client(0), k>>) = LeftSubnet /\ Index(<<Client(0), k>>) = k
      /\ Intended(<<Client(0), k>>) = Address(LeftSubnet, k, 1)
  BY ClientPlace
<1>5. /\ Planned(<<Router, k>>)
      /\ Subnet(<<Router, k>>) = LeftSubnet /\ Index(<<Router, k>>) = k
      /\ Intended(<<Router, k>>) = Address(LeftSubnet, k, 2)
  BY <1>1, RouterPlace
<1> DEFINE j == k + 1
<1>6. j \in Nat /\ j # 0 /\ j <= nc /\ j - 1 = k
  BY <1>1
<1> HIDE DEF j
<1>7. /\ multi => Planned(<<Client(j), 0>>)
      /\ Subnet(<<Client(j), 0>>) = LeftSubnet /\ Index(<<Client(j), 0>>) = k
      /\ Intended(<<Client(j), 0>>) = Address(LeftSubnet, k, 10)
  BY <1>1, <1>6, ClientsPlace
<1> QED
  BY <1>3, <1>4, <1>5, <1>7 DEF j

LEMMA RightEnds ==
    ASSUME TypeOK, NEW k \in Nat, k < ServerConnections \/ (multi /\ k <= nc)
    PROVE  /\ <<Router, nc + k>> \in Interfaces /\ Planned(<<Router, nc + k>>)
           /\ Subnet(<<Router, nc + k>>) = RightSubnet /\ Index(<<Router, nc + k>>) = k
           /\ Intended(<<Router, nc + k>>) = Address(RightSubnet, k, 2)
           /\ k < ServerConnections => /\ <<Server(0), k>> \in Interfaces /\ Planned(<<Server(0), k>>)
                                       /\ Subnet(<<Server(0), k>>) = RightSubnet
                                       /\ Index(<<Server(0), k>>) = k
                                       /\ Intended(<<Server(0), k>>) = Address(RightSubnet, k, 1)
           /\ multi /\ k <= nc => /\ <<Server(k), 0>> \in Interfaces /\ Planned(<<Server(k), 0>>)
                                  /\ Subnet(<<Server(k), 0>>) = RightSubnet
                                  /\ Index(<<Server(k), 0>>) = k
                                  /\ Intended(<<Server(k), 0>>) = Address(RightSubnet, k, 1)
<1>1. /\ nc \in 0..MaxLinks /\ MaxLinks \in Nat /\ ServerConnections \in Nat /\ ServerConnections >= 1
      /\ ServerConnections <= MaxLinks \/ ServerConnections = 1
      /\ 0 \in 0..(3 * MaxLinks) /\ 0 \in Nat
  BY MultiInterfaceAssumption DEF TypeOK, ServerConnections
<1> DEFINE n == nc + k
<1>2. n \in 0..(3 * MaxLinks) /\ n \in Nat /\ ~(n < nc) /\ n - nc = k
  BY <1>1
<1>3. <<Router, n>> \in Interfaces
  BY <1>2, HostFacts DEF Interfaces
<1> HIDE DEF n
<1>4. /\ Planned(<<Router, n>>)
      /\ Subnet(<<Router, n>>) = RightSubnet /\ Index(<<Router, n>>) = k
      /\ Intended(<<Router, n>>) = Address(RightSubnet, k, 2)
  BY <1>1, <1>2, RouterPlace
<1>5. k < ServerConnections => /\ <<Server(0), k>> \in Interfaces /\ Planned(<<Server(0), k>>)
                               /\ Subnet(<<Server(0), k>>) = RightSubnet
                               /\ Index(<<Server(0), k>>) = k
                               /\ Intended(<<Server(0), k>>) = Address(RightSubnet, k, 1)
  <2>1. ASSUME k < ServerConnections
        PROVE  k \in 0..(3 * MaxLinks)
    BY <1>1, <2>1
  <2>2. k < ServerConnections => <<Server(0), k>> \in Interfaces
    BY <2>1, HostFacts DEF Interfaces
  <2> QED
    BY <2>2, ServerPlace
<1>6. multi /\ k <= nc => /\ <<Server(k), 0>> \in Interfaces /\ Planned(<<Server(k), 0>>)
                          /\ Subnet(<<Server(k), 0>>) = RightSubnet
                          /\ Index(<<Server(k), 0>>) = k
                          /\ Intended(<<Server(k), 0>>) = Address(RightSubnet, k, 1)
  <2> SUFFICES ASSUME multi /\ k <= nc
               PROVE  /\ <<Server(k), 0>> \in Interfaces /\ Planned(<<Server(k), 0>>)
                      /\ Subnet(<<Server(k), 0>>) = RightSubnet
                      /\ Index(<<Server(k), 0>>) = k
                      /\ Intended(<<Server(k), 0>>) = Address(RightSubnet, k, 1)
    OBVIOUS
  <2>1. k \in 0..MaxLinks
    BY <1>1
  <2>2. <<Server(k), 0>> \in Interfaces
    BY <1>1, <2>1, HostFacts DEF Interfaces
  <2>3. CASE k = 0
    BY <1>1, <2>2, <2>3, ServerPlace
  <2>4. CASE k # 0
    BY <1>1, <2>2, <2>4, ServersPlace
  <2> QED
    BY <2>3, <2>4
<1> QED
  BY <1>3, <1>4, <1>5, <1>6 DEF n

(* One address and its entry at another host.                              *)
LEMMA GivesOne ==
    ASSUME TypeOK, ControlInv, AddressInv, ArpInv, IndicesAgree, NEW p \in Interfaces, Planned(p),
           NEW q \in Interfaces, Planned(q), Subnet(p) = Subnet(q), Index(p) = Index(q), q # p,
           NEW a, a = WithAddress(addr, p, Intended(p))
    PROVE  /\ a = [o \in Interfaces |-> IF o \in {p} THEN Intended(o) ELSE addr[o]]
           /\ Holds(a, {o \in Interfaces : Given(o)} \cup {p})
           /\ Given(q) => WithArp(arp, a, q[1], Intended(p), p) = arp \cup {Entry(q[1], p)}
           /\ ~Given(q) => WithArp(arp, a, q[1], Intended(p), p) = arp
           /\ RightEntries(arp \cup {Entry(q[1], p)})
<1> DEFINE G == {o \in Interfaces : Given(o)}
           P == {p}
<1>1. a = [o \in Interfaces |-> IF o \in P THEN Intended(o) ELSE addr[o]]
  BY DEF WithAddress, TypeOK
<1>2. RightEntries(arp)
  BY ArpRight DEF ArpInv
<1>3. P \subseteq Interfaces /\ \A o \in P : Planned(o)
  OBVIOUS
<1>4. Holds(addr, G)
  BY AddrHolds
<1> HIDE DEF G, P
<1>5. Holds(a, G \cup P)
  BY <1>1, <1>3, <1>4, MoreHolds
<1>6. Connected(a, q[1], Intended(p)) = (G \cup P) \cap {q}
  BY <1>5, ConnectedTo
<1> USE DEF G, P
<1>7. Given(q) <=> Connected(a, q[1], Intended(p)) # {}
  BY <1>6
<1>8. q[1] \in Hosts
  BY DEF Interfaces
<1>9. ASSUME Given(q) PROVE WithArp(arp, a, q[1], Intended(p), p) = arp \cup {Entry(q[1], p)}
  <2>1. Connected(a, q[1], Intended(p)) # {}
    BY <1>7, <1>9
  <2> QED
    BY <1>2, <1>8, <2>1, ArpAdds
<1>10. ASSUME ~Given(q) PROVE WithArp(arp, a, q[1], Intended(p), p) = arp
  BY <1>7, <1>10 DEF WithArp
<1>11. RightEntries(arp \cup {Entry(q[1], p)})
  BY <1>2, <1>8, ArpStaysRight
<1> QED
  BY <1>1, <1>5, <1>9, <1>10, <1>11

LEMMA ConfigureClientStep ==
    ASSUME NetworkInv, ConfigureClient
    PROVE  NetworkInv'
<1>1. TypeOK /\ ControlInv /\ PortsInv /\ AddressInv /\ ArpInv
  BY DEF NetworkInv
<1>2. /\ pc = "client_addresses" /\ Limit("client_addresses") = nc /\ i \in Nat /\ nc \in Nat
      /\ addr \in [Interfaces -> Addresses \cup {NoAddress}] /\ arp \in SUBSET ArpEntry
  BY <1>1, Limits, MultiInterfaceAssumption DEF ConfigureClient, ConfigureLoop, Loop, TypeOK
<1> DEFINE p == <<Client(0), i>>
           ip == Address(LeftSubnet, i, 1)
<1>3. /\ ConfigureLoop("client_addresses", Limit("client_addresses"), "router_addresses", {p})
      /\ i < nc => addr' = WithAddress(addr, p, ip) /\ arp' = WithArp(arp, addr', Router, ip, p)
      /\ ~(i < nc) => UNCHANGED <<addr, arp>>
  BY <1>2 DEF ConfigureClient, get_client_interface, ClientHost
<1>4. Moves("client_addresses", "router_addresses") /\ UNCHANGED <<netVars, rules, routes>>
  <2>1. i < Limit("client_addresses") => \A q \in {p} : Exists(q)
    <3>1. Len(ports[Client(0)]) = nc
      BY <1>1, <1>2, Turns, Built
    <3> QED
      BY <1>2, <3>1 DEF Exists
  <2>2. /\ "client_addresses" \in Loops /\ "router_addresses" \in Loops
        /\ Turn("client_addresses") < Turn("router_addresses")
    BY Turns DEF Loops
  <2>3. \A m \in Loops : ~(Turn("client_addresses") < Turn(m) /\ Turn(m) < Turn("router_addresses"))
    BY <1>1, LoopTypes, Turns
  <2> HIDE DEF p
  <2> QED
    BY <1>1, <1>3, <2>1, <2>2, <2>3, ConfigureMoves
<1>5. i < nc => p \in Interfaces /\ Planned(p) /\ ip = Intended(p) /\ ip \in Addresses
  BY <1>1, <1>2, LeftEnds, AddressTypes
<1>6. addr' \in [Interfaces -> Addresses \cup {NoAddress}] /\ arp' \in SUBSET ArpEntry
  <2>1. Router \in Hosts
    BY HostFacts
  <2> HIDE DEF p, ip
  <2> QED
    BY <1>2, <1>3, <1>5, <2>1, WithTypes
<1>7. ASSUME i < nc, IndicesAgree
      PROVE  /\ addr' = [q \in Interfaces |-> IF q \in {p} THEN Intended(q) ELSE addr[q]]
             /\ arp' = arp \cup {}
  <2> DEFINE q == <<Router, i>>
  <2>1. /\ q \in Interfaces /\ Planned(q) /\ Subnet(p) = Subnet(q) /\ Index(p) = Index(q)
    BY <1>1, <1>2, <1>7, LeftEnds
  <2>2. q[1] = Router /\ q # p
    BY HostFacts
  <2>3. ~Given(q)
    <3>1. Done["router_addresses"] = 0
      BY <1>2, Turns, DoneValues DEF Loops
    <3> QED
      BY <1>2, <1>7, <3>1, RouterPlace
  <2>4. /\ p \in Interfaces /\ Planned(p) /\ ip = Intended(p)
        /\ addr' = WithAddress(addr, p, ip) /\ arp' = WithArp(arp, addr', Router, ip, p)
    BY <1>3, <1>5, <1>7
  <2> HIDE DEF p, ip, q
  <2>5. /\ addr' = [o \in Interfaces |-> IF o \in {p} THEN Intended(o) ELSE addr[o]]
        /\ WithArp(arp, addr', q[1], Intended(p), p) = arp
    BY <1>1, <1>7, <2>1, <2>2, <2>3, <2>4, GivesOne
  <2> QED
    BY <2>2, <2>4, <2>5
<1>8. Gives("client_addresses") = {p} /\ p[1] = Client(0)
  BY GivesValues
<1>9. "client_addresses" \in AddressLoops /\ "router_addresses" \in AddressLoops /\ "router_addresses" \notin MultiLoops
  BY DEF AddressLoops, MultiLoops
<1>10. i < Limit("client_addresses") /\ IndicesAgree => TurnIsRight("client_addresses", {})
  <2> HIDE DEF p
  <2> QED
    BY <1>2, <1>7, <1>8 DEF TurnIsRight
<1> QED
  BY <1>2, <1>3, <1>4, <1>6, <1>9, <1>10, ConfigureStep

LEMMA ConfigureRouterStep ==
    ASSUME NetworkInv, ConfigureRouter
    PROVE  NetworkInv'
<1>1. TypeOK /\ ControlInv /\ PortsInv /\ AddressInv /\ ArpInv
  BY DEF NetworkInv
<1>2. /\ pc = "router_addresses" /\ Limit("router_addresses") = nc /\ i \in Nat /\ nc \in Nat
      /\ addr \in [Interfaces -> Addresses \cup {NoAddress}] /\ arp \in SUBSET ArpEntry
  BY <1>1, Limits, MultiInterfaceAssumption DEF ConfigureRouter, ConfigureLoop, Loop, TypeOK
<1> DEFINE p == <<Router, i>>
           ip == Address(LeftSubnet, i, 2)
<1>3. /\ ConfigureLoop("router_addresses", Limit("router_addresses"), "server_addresses", {p})
      /\ i < nc => addr' = WithAddress(addr, p, ip) /\ arp' = WithArp(arp, addr', Client(0), ip, p)
      /\ ~(i < nc) => UNCHANGED <<addr, arp>>
  BY <1>2 DEF ConfigureRouter, get_router_interface_to_client_switch, RouterAddress
<1>4. Moves("router_addresses", "server_addresses") /\ UNCHANGED <<netVars, rules, routes>>
  <2>1. i < Limit("router_addresses") => \A q \in {p} : Exists(q)
    <3>1. /\ Len(ports[Router]) = nc + ServerConnections + (IF multi THEN nc ELSE 0)
          /\ ServerConnections \in Nat /\ multi \in BOOLEAN
      BY <1>1, <1>2, Turns, Built DEF TypeOK
    <3> QED
      BY <1>2, <3>1 DEF Exists
  <2>2. /\ "router_addresses" \in Loops /\ "server_addresses" \in Loops
        /\ Turn("router_addresses") < Turn("server_addresses")
    BY Turns DEF Loops
  <2>3. \A m \in Loops : ~(Turn("router_addresses") < Turn(m) /\ Turn(m) < Turn("server_addresses"))
    BY <1>1, LoopTypes, Turns
  <2> HIDE DEF p
  <2> QED
    BY <1>1, <1>3, <2>1, <2>2, <2>3, ConfigureMoves
<1>5. i < nc => p \in Interfaces /\ Planned(p) /\ ip = Intended(p) /\ ip \in Addresses
  BY <1>1, <1>2, LeftEnds, AddressTypes
<1>6. addr' \in [Interfaces -> Addresses \cup {NoAddress}] /\ arp' \in SUBSET ArpEntry
  <2>1. Client(0) \in Hosts
    BY HostFacts
  <2> HIDE DEF p, ip
  <2>2. CASE i < nc
    <3>1. p \in Interfaces /\ ip \in Addresses
      BY <1>5, <2>2
    <3>2. addr' = WithAddress(addr, p, ip) /\ arp' = WithArp(arp, addr', Client(0), ip, p)
      BY <1>3, <2>2
    <3> QED
      BY <1>2, <2>1, <3>1, <3>2, WithTypes
  <2>3. CASE ~(i < nc)
    BY <1>2, <1>3, <2>3
  <2> QED
    BY <2>2, <2>3
<1> DEFINE E == {Entry(Client(0), p)}
<1>7. ASSUME i < nc, IndicesAgree
      PROVE  /\ addr' = [q \in Interfaces |-> IF q \in {p} THEN Intended(q) ELSE addr[q]]
             /\ arp' = arp \cup E
             /\ Neighbour(Entry(Client(0), p)) /\ MayLearn(Client(0), p)
             /\ Entry(Client(0), p).of = p /\ Entry(Client(0), p).host = Client(0)
  <2> DEFINE q == <<Client(0), i>>
  <2>1. q \in Interfaces /\ Planned(q) /\ Subnet(p) = Subnet(q) /\ Index(p) = Index(q)
    BY <1>1, <1>2, <1>7, LeftEnds
  <2>2. q[1] = Client(0) /\ q # p
    BY HostFacts
  <2>3. Given(q)
    <3>1. Done["client_addresses"] = nc
      BY <1>2, Turns, Limits, DoneValues DEF Loops
    <3> QED
      BY <1>2, <1>7, <3>1, ClientPlace
  <2>4. /\ p \in Interfaces /\ Planned(p) /\ ip = Intended(p)
        /\ addr' = WithAddress(addr, p, ip) /\ arp' = WithArp(arp, addr', Client(0), ip, p)
    BY <1>3, <1>5, <1>7
  <2> HIDE DEF p, ip, q
  <2>5. /\ addr' = [o \in Interfaces |-> IF o \in {p} THEN Intended(o) ELSE addr[o]]
        /\ WithArp(arp, addr', q[1], Intended(p), p) = arp \cup {Entry(q[1], p)}
    BY <1>1, <1>7, <2>1, <2>2, <2>3, <2>4, GivesOne
  <2>6. Neighbour(Entry(Client(0), p))
    BY <2>1, <2>2, <2>4 DEF Neighbour
  <2>7. Entry(Client(0), p).of = p /\ Entry(Client(0), p).host = Client(0)
    BY DEF Entry
  <2>8. MayLearn(Client(0), p)
    BY DEF MayLearn, Client, Router
  <2> QED
    BY <2>2, <2>4, <2>5, <2>6, <2>7, <2>8
<1>8. Gives("router_addresses") = {p} /\ p[1] = Router
  BY GivesValues
<1>9. "router_addresses" \in AddressLoops /\ "server_addresses" \in AddressLoops /\ "server_addresses" \notin MultiLoops
  BY DEF AddressLoops, MultiLoops
<1>10. i < Limit("router_addresses") /\ IndicesAgree => TurnIsRight("router_addresses", E)
  <2>1. Entry(Client(0), <<Router, i>>) \in E
    OBVIOUS
  <2> HIDE DEF p
  <2> QED
    BY <1>2, <1>7, <1>8, <2>1 DEF TurnIsRight
<1> HIDE DEF E
<1> QED
  BY <1>2, <1>3, <1>4, <1>6, <1>9, <1>10, ConfigureStep

LEMMA ConfigureClientsStep ==
    ASSUME NetworkInv, ConfigureClients
    PROVE  NetworkInv'
<1>1. TypeOK /\ ControlInv /\ PortsInv /\ AddressInv /\ ArpInv
  BY DEF NetworkInv
<1>2. /\ pc = "clients_addresses" /\ multi /\ Limit("clients_addresses") = nc
      /\ i \in Nat /\ nc \in Nat /\ nc <= MaxLinks
      /\ addr \in [Interfaces -> Addresses \cup {NoAddress}] /\ arp \in SUBSET ArpEntry
  <2>1. pc = "clients_addresses"
    BY DEF ConfigureClients, ConfigureLoop, Loop
  <2>2. multi
    BY <1>1, <2>1 DEF ControlInv
  <2> QED
    BY <1>1, <2>1, <2>2, Limits, MultiInterfaceAssumption DEF TypeOK
<1> DEFINE p == <<Client(i + 1), 0>>
           ip == Address(LeftSubnet, i, 10)
           r == <<Router, i>>
           rip == Address(LeftSubnet, i, 2)
<1>3. /\ ConfigureLoop("clients_addresses", Limit("clients_addresses"), "servers_addresses", {p, r})
      /\ i < nc => /\ addr' = WithAddress(addr, p, ip)
                   /\ arp' = WithArp(WithArp(arp, addr', Router, ip, p), addr', Client(i + 1), rip, r)
      /\ ~(i < nc) => UNCHANGED <<addr, arp>>
  BY <1>2 DEF ConfigureClients, get_client_interface, get_router_interface_to_client_switch,
              RouterAddress, ClientHost
<1>4. Moves("clients_addresses", "servers_addresses") /\ UNCHANGED <<netVars, rules, routes>>
  <2>1. ASSUME i < nc PROVE Exists(p)
    <3>1. i + 1 \in 1..MaxLinks /\ i + 1 <= nc
      BY <1>2, <2>1, MultiInterfaceAssumption
    <3>2. Turn(pc) > 4
      BY <1>2, Turns
    <3> DEFINE j == i + 1
    <3> HIDE DEF j
    <3>3. j \in 1..MaxLinks /\ j <= nc
      BY <3>1 DEF j
    <3>4. ports[Client(j)] = IF multi /\ j <= nc THEN << <<"c2r", j - 1>> >> ELSE <<>>
      BY <1>1, <3>2, <3>3, Built
    <3>5. Len(ports[Client(j)]) = 1
      BY <1>2, <3>3, <3>4
    <3> QED
      BY <3>5 DEF Exists, j
  <2>2. ASSUME i < nc PROVE Exists(r)
    <3>1. /\ Len(ports[Router]) = nc + ServerConnections + (IF multi THEN nc ELSE 0)
          /\ ServerConnections \in Nat
      BY <1>1, <1>2, Turns, Built
    <3> QED
      BY <1>2, <2>2, <3>1 DEF Exists
  <2>3. /\ "clients_addresses" \in Loops /\ "servers_addresses" \in Loops
        /\ Turn("clients_addresses") < Turn("servers_addresses")
    BY Turns DEF Loops
  <2>4. \A m \in Loops : ~(Turn("clients_addresses") < Turn(m) /\ Turn(m) < Turn("servers_addresses"))
    BY <1>1, LoopTypes, Turns
  <2> HIDE DEF p, r
  <2>5. i < Limit("clients_addresses") => \A q \in {p, r} : Exists(q)
    BY <1>2, <2>1, <2>2
  <2> QED
    BY <1>1, <1>3, <2>3, <2>4, <2>5, ConfigureMoves
<1>5. i < nc => /\ p \in Interfaces /\ Planned(p) /\ ip = Intended(p) /\ ip \in Addresses
                /\ r \in Interfaces /\ Planned(r) /\ rip = Intended(r) /\ rip \in Addresses
                /\ Subnet(p) = Subnet(r) /\ Index(p) = Index(r)
  BY <1>1, <1>2, LeftEnds, AddressTypes
<1>6. Router \in Hosts /\ (i < nc => Client(i + 1) \in Hosts)
  <2>1. i < nc => i + 1 \in 0..MaxLinks
    BY <1>2, MultiInterfaceAssumption
  <2> QED
    BY <2>1, HostFacts
<1>7. addr' \in [Interfaces -> Addresses \cup {NoAddress}] /\ arp' \in SUBSET ArpEntry
  <2> HIDE DEF p, ip, r, rip
  <2>1. CASE i < nc
    <3>1. p \in Interfaces /\ ip \in Addresses /\ r \in Interfaces /\ rip \in Addresses
      BY <1>5, <2>1
    <3>2. /\ WithAddress(addr, p, ip) \in [Interfaces -> Addresses \cup {NoAddress}]
          /\ WithArp(arp, addr', Router, ip, p) \in SUBSET ArpEntry
      BY <1>2, <1>6, <3>1, WithTypes
    <3> DEFINE F == WithArp(arp, addr', Router, ip, p)
    <3>3. F \in SUBSET ArpEntry /\ Client(i + 1) \in Hosts
      BY <1>6, <2>1, <3>2
    <3> HIDE DEF F
    <3>4. WithArp(F, addr', Client(i + 1), rip, r) \in SUBSET ArpEntry
      BY <1>2, <3>1, <3>3, WithTypes
    <3> QED
      BY <1>3, <2>1, <3>2, <3>4 DEF F
  <2>2. CASE ~(i < nc)
    BY <1>2, <1>3, <2>2
  <2> QED
    BY <2>1, <2>2
<1> DEFINE E == {Entry(Router, p), Entry(Client(i + 1), r)}
<1>8. p[1] = Client(i + 1) /\ r[1] = Router
  OBVIOUS
<1>9. ASSUME i < nc, IndicesAgree
      PROVE  /\ addr' = [q \in Interfaces |-> IF q \in {p} THEN Intended(q) ELSE addr[q]]
             /\ arp' = arp \cup E
             /\ \A e \in E : Neighbour(e) /\ MayLearn(e.host, e.of) /\ e.of \in {p, r}
             /\ Given(r)
  <2>1. Given(r)
    <3>1. Done["router_addresses"] = nc
      BY <1>2, Turns, Limits, DoneValues DEF Loops
    <3> QED
      BY <1>2, <1>9, <3>1, RouterPlace
  <2>2. r # p /\ MayLearn(Router, p) /\ MayLearn(Client(i + 1), r)
    <3>1. /\ Client(i + 1) # Router /\ Client(i + 1) # Client(0)
          /\ Client(i + 1)[1] = "Client" /\ Router[1] = "Router"
      BY <1>2 DEF Client, Router
    <3> QED
      BY <1>8, <3>1 DEF MayLearn
  <2>3. /\ p \in Interfaces /\ Planned(p) /\ ip = Intended(p)
        /\ r \in Interfaces /\ Planned(r) /\ rip = Intended(r)
        /\ Subnet(p) = Subnet(r) /\ Index(p) = Index(r)
        /\ addr' = WithAddress(addr, p, ip)
        /\ arp' = WithArp(WithArp(arp, addr', Router, ip, p), addr', Client(i + 1), rip, r)
    BY <1>3, <1>5, <1>9
  <2> HIDE DEF p, ip, r, rip
  <2>4. /\ Neighbour(Entry(Router, p)) /\ Neighbour(Entry(Client(i + 1), r))
        /\ Entry(Router, p).of = p /\ Entry(Client(i + 1), r).of = r
        /\ Entry(Router, p).host = Router /\ Entry(Client(i + 1), r).host = Client(i + 1)
    BY <1>8, <2>3 DEF Neighbour, Entry
  <2> DEFINE G == {o \in Interfaces : Given(o)} \cup {p}
             F == arp \cup {Entry(Router, p)}
  <2>5. /\ addr' = [q \in Interfaces |-> IF q \in {p} THEN Intended(q) ELSE addr[q]]
        /\ Holds(addr', G)
        /\ WithArp(arp, addr', r[1], Intended(p), p) = arp \cup {Entry(r[1], p)}
        /\ RightEntries(arp \cup {Entry(r[1], p)})
    BY <1>1, <1>9, <2>1, <2>2, <2>3, GivesOne
  <2>6. WithArp(arp, addr', Router, ip, p) = F /\ RightEntries(F)
    BY <1>8, <2>3, <2>5
  <2>7. p \in G
    OBVIOUS
  <2> HIDE DEF G, F
  <2>8. Connected(addr', p[1], Intended(r)) = G \cap {p}
    BY <1>1, <1>9, <2>3, <2>5, ConnectedTo
  <2>9. Connected(addr', Client(i + 1), Intended(r)) # {} /\ Client(i + 1) \in Hosts
    BY <1>6, <1>8, <1>9, <2>7, <2>8
  <2>10. WithArp(F, addr', Client(i + 1), Intended(r), r) = F \cup {Entry(Client(i + 1), r)}
    <3>1. TypeOK /\ IndicesAgree /\ RightEntries(F) /\ r \in Interfaces /\ Planned(r)
      BY <1>1, <1>9, <2>3, <2>6
    <3> DEFINE h == Client(i + 1)
               b == addr'
    <3>2. h \in Hosts /\ Connected(b, h, Intended(r)) # {}
      BY <2>9
    <3> HIDE DEF h, b
    <3>3. WithArp(F, b, h, Intended(r), r) = F \cup {Entry(h, r)}
      BY <3>1, <3>2, ArpAdds
    <3> QED
      BY <3>3 DEF h, b
  <2>11. arp' = arp \cup E
    BY <2>3, <2>6, <2>10 DEF F
  <2> QED
    BY <2>1, <2>2, <2>4, <2>5, <2>11
<1>10. Gives("clients_addresses") = {p}
  BY GivesValues
<1>11. "clients_addresses" \in AddressLoops /\ "servers_addresses" \in AddressLoops
  BY DEF AddressLoops
<1>12. i < Limit("clients_addresses") /\ IndicesAgree => TurnIsRight("clients_addresses", E)
  <2>1. Entry(Client(i + 1), <<Router, i>>) \in E
    OBVIOUS
  <2> HIDE DEF p, r
  <2> QED
    BY <1>2, <1>9, <1>10, <2>1 DEF TurnIsRight
<1> HIDE DEF E
<1> QED
  BY <1>2, <1>3, <1>4, <1>7, <1>11, <1>12, ConfigureStep

(* The two ends of a connection to a server.                               *)
LEMMA ConnectServerRight ==
    ASSUME TypeOK, ControlInv, AddressInv, ArpInv, NEW h \in Hosts, NEW p \in Interfaces, NEW k \in Nat,
           NEW a \in [Interfaces -> Addresses \cup {NoAddress}], ConnectServer(a, h, p, k),
           p[1] = h, h # Router, h # Client(0),
           Planned(p), Subnet(p) = RightSubnet, Index(p) = k,
           Intended(p) = Address(RightSubnet, k, 1), k < ServerConnections \/ (multi /\ k <= nc),
           \A q \in Interfaces : q # p /\ q # <<Router, nc + k>> => a[q] = addr[q],
           NEW G, IndicesAgree => Holds(a, G)
    PROVE  /\ addr' \in [Interfaces -> Addresses \cup {NoAddress}] /\ arp' \in SUBSET ArpEntry
           /\ IndicesAgree =>
                LET r == <<Router, nc + k>>
                IN  /\ addr' = [q \in Interfaces |-> IF q \in {r, p} THEN Intended(q) ELSE addr[q]]
                    /\ p \notin G => arp' = arp \cup {Entry(Router, p)}
                    /\ p \in G => arp' = arp \cup {Entry(h, r), Entry(Router, p)}
                    /\ \A e \in {Entry(h, r), Entry(Router, p)} : Neighbour(e) /\ e.of \in {r, p}
<1> DEFINE r == <<Router, nc + k>>
           rip == Address(RightSubnet, k, 2)
           sip == Address(RightSubnet, k, 1)
           routed == WithAddress(a, r, rip)
<1>1. /\ addr' = WithAddress(routed, p, sip)
      /\ arp' = WithArp(WithArp(arp, routed, h, rip, r), addr', Router, sip, p)
  BY DEF ConnectServer, get_router_interface_to_server_switch,
         get_router_interface_to_client_switch, RouterAddress
<1>2. /\ r \in Interfaces /\ Planned(r) /\ rip = Intended(r) /\ rip \in Addresses /\ sip \in Addresses
      /\ Subnet(r) = RightSubnet /\ Index(r) = k /\ r[1] = Router /\ sip = Intended(p)
  BY RightEnds, AddressTypes
<1>3. Router \in Hosts /\ r # p /\ \A q \in Interfaces : q # p /\ q # r => a[q] = addr[q]
  BY <1>2, HostFacts
<1> HIDE DEF r, rip, sip, routed
<1>4. arp \in SUBSET ArpEntry /\ routed \in [Interfaces -> Addresses \cup {NoAddress}]
  BY <1>2, WithTypes DEF TypeOK, routed
<1>5. addr' \in [Interfaces -> Addresses \cup {NoAddress}] /\ arp' \in SUBSET ArpEntry
  <2> DEFINE F == WithArp(arp, routed, h, rip, r)
  <2>1. F \in SUBSET ArpEntry
    BY <1>2, <1>4, WithTypes
  <2> HIDE DEF F
  <2> QED
    BY <1>1, <1>2, <1>3, <1>4, <2>1, WithTypes DEF F
<1>6. ASSUME IndicesAgree
      PROVE  /\ addr' = [q \in Interfaces |-> IF q \in {r, p} THEN Intended(q) ELSE addr[q]]
             /\ p \notin G => arp' = arp \cup {Entry(Router, p)}
             /\ p \in G => arp' = arp \cup {Entry(h, r), Entry(Router, p)}
             /\ \A e \in {Entry(h, r), Entry(Router, p)} : Neighbour(e) /\ e.of \in {r, p}
  <2>1. Neighbour(Entry(h, r)) /\ Neighbour(Entry(Router, p))
    BY <1>2 DEF Neighbour
  <2>2. Entry(h, r).of = r /\ Entry(Router, p).of = p
    BY DEF Entry
  <2>3. RightEntries(arp)
    BY <1>6, ArpRight DEF ArpInv
  <2> DEFINE R == {r}
             P == {p}
  <2>4. /\ R \subseteq Interfaces /\ (\A q \in R : Planned(q))
        /\ P \subseteq Interfaces /\ (\A q \in P : Planned(q))
    BY <1>2
  <2>5. /\ routed = [q \in Interfaces |-> IF q \in R THEN Intended(q) ELSE a[q]]
        /\ addr' = [q \in Interfaces |-> IF q \in P THEN Intended(q) ELSE routed[q]]
    BY <1>1, <1>2, <1>4 DEF WithAddress, routed
  <2>6. addr' = [q \in Interfaces |-> IF q \in {r, p} THEN Intended(q) ELSE addr[q]]
    BY <1>3, <2>5
  <2>7. (r \in G \cup R) /\ (p \in G \cup R <=> p \in G)
    BY <1>3
  <2> HIDE DEF R, P
  <2>8. Holds(a, G)
    BY <1>6
  <2>9. Holds(routed, G \cup R)
    BY <2>4, <2>5, <2>8, MoreHolds
  <2>10. Holds(addr', (G \cup R) \cup P)
    <3> DEFINE H == G \cup R
               b == addr'
    <3>1. Holds(routed, H) /\ b = [q \in Interfaces |-> IF q \in P THEN Intended(q) ELSE routed[q]]
      BY <2>5, <2>9
    <3> HIDE DEF H, b
    <3>2. Holds(b, H \cup P)
      BY <2>4, <3>1, MoreHolds
    <3> QED
      BY <3>2 DEF H, b
  <2>11. Connected(routed, h, rip) = (G \cup R) \cap {p}
    BY <1>2, <1>6, <2>9, ConnectedTo
  <2>12. Connected(addr', Router, sip) = ((G \cup R) \cup P) \cap {r}
    BY <1>2, <1>6, <2>10, ConnectedTo
  <2>13. /\ Connected(addr', Router, Intended(p)) # {}
         /\ p \in G <=> Connected(routed, h, Intended(r)) # {}
    BY <1>2, <2>7, <2>11, <2>12
  <2>14. ASSUME NEW F, RightEntries(F), WithArp(arp, routed, h, rip, r) = F
         PROVE  arp' = F \cup {Entry(Router, p)}
    <3> DEFINE b == addr'
    <3>0. Connected(b, Router, Intended(p)) # {}
      BY <2>13
    <3> HIDE DEF b
    <3>2. WithArp(F, b, Router, Intended(p), p) = F \cup {Entry(Router, p)}
      BY <1>3, <1>6, <2>14, <3>0, ArpAdds
    <3>1. WithArp(F, addr', Router, Intended(p), p) = F \cup {Entry(Router, p)}
      BY <3>2 DEF b
    <3> QED
      BY <1>1, <1>2, <2>14, <3>1
  <2>15. ASSUME p \notin G PROVE arp' = arp \cup {Entry(Router, p)}
    <3>1. WithArp(arp, routed, h, Intended(r), r) = arp
      BY <2>13, <2>15 DEF WithArp
    <3> QED
      BY <1>2, <2>3, <2>14, <3>1
  <2>16. ASSUME p \in G PROVE arp' = arp \cup {Entry(h, r), Entry(Router, p)}
    <3> DEFINE F == arp \cup {Entry(h, r)}
    <3>0. Connected(routed, h, Intended(r)) # {}
      BY <2>13, <2>16
    <3>1. WithArp(arp, routed, h, Intended(r), r) = F /\ RightEntries(F)
      BY <1>2, <1>6, <2>3, <3>0, ArpAdds, ArpStaysRight
    <3> HIDE DEF F
    <3>2. arp' = F \cup {Entry(Router, p)}
      BY <1>2, <2>14, <3>1
    <3> QED
      BY <3>2 DEF F
  <2> QED
    BY <2>1, <2>2, <2>6, <2>15, <2>16
<1> QED
  BY <1>5, <1>6 DEF r

LEMMA ConfigureServerStep ==
    ASSUME NetworkInv, ConfigureServer
    PROVE  NetworkInv'
<1>1. TypeOK /\ ControlInv /\ PortsInv /\ AddressInv /\ ArpInv
  BY DEF NetworkInv
<1>2. /\ pc = "server_addresses" /\ Limit("server_addresses") = ServerConnections
      /\ i \in Nat /\ nc \in Nat /\ ServerConnections \in Nat /\ multi \in BOOLEAN
      /\ addr \in [Interfaces -> Addresses \cup {NoAddress}] /\ arp \in SUBSET ArpEntry
  BY <1>1, Limits, MultiInterfaceAssumption
  DEF ConfigureServer, ConfigureLoop, Loop, TypeOK, ServerConnections
<1> DEFINE p == <<Server(0), i>>
           r == <<Router, nc + i>>
           a == Flush(Flush(addr, r), p)
           next == IF multi THEN "clients_addresses" ELSE "client_routes"
<1>3. /\ ConfigureLoop("server_addresses", Limit("server_addresses"), next, {p, r})
      /\ i < ServerConnections => ConnectServer(a, Server(0), p, i)
      /\ ~(i < ServerConnections) => UNCHANGED <<addr, arp>>
  BY <1>2 DEF ConfigureServer, get_server_interface, get_router_interface_to_server_switch,
              get_router_interface_to_client_switch
<1>4. Moves("server_addresses", next) /\ UNCHANGED <<netVars, rules, routes>>
  <2>1. ASSUME i < ServerConnections PROVE Exists(p) /\ Exists(r)
    <3>1. /\ Len(ports[Router]) = nc + ServerConnections + (IF multi THEN nc ELSE 0)
          /\ Len(ports[Server(0)]) = ServerConnections
      BY <1>1, <1>2, Turns, Built
    <3> QED
      BY <1>2, <2>1, <3>1 DEF Exists
  <2>2. /\ "server_addresses" \in Loops /\ next \in Loops
        /\ Turn("server_addresses") < Turn(next)
    BY Turns DEF Loops
  <2>3. \A m \in Loops : Turn("server_addresses") < Turn(m) /\ Turn(m) < Turn(next) => Limit(m) = 0
    BY <1>2, Turns, Limits DEF Loops
  <2> HIDE DEF p, r, next
  <2>4. i < Limit("server_addresses") => \A q \in {p, r} : Exists(q)
    BY <1>2, <2>1
  <2> QED
    BY <1>1, <1>3, <2>2, <2>3, <2>4, ConfigureMoves
<1>5. i < ServerConnections => /\ p \in Interfaces /\ Planned(p)
                               /\ Subnet(p) = RightSubnet /\ Index(p) = i
                               /\ Intended(p) = Address(RightSubnet, i, 1)
  BY <1>1, <1>2, RightEnds
<1>6. /\ Server(0) \in Hosts /\ Server(0) # Router /\ Server(0) # Client(0) /\ Router \in Hosts
      /\ p[1] = Server(0) /\ r[1] = Router
  BY HostFacts
<1> DEFINE E == {Entry(Router, p)}
<1>7. ASSUME i < ServerConnections
      PROVE  /\ addr' \in [Interfaces -> Addresses \cup {NoAddress}] /\ arp' \in SUBSET ArpEntry
             /\ IndicesAgree =>
                /\ addr' = [q \in Interfaces |-> IF q \in {r, p} THEN Intended(q) ELSE addr[q]]
                /\ arp' = arp \cup E
                /\ \A e \in E : Neighbour(e) /\ e.of \in {r, p}
  <2> DEFINE G == {q \in Interfaces : Given(q)} \ {r, p}
  <2>1. r \in Interfaces /\ p \in Interfaces
    BY <1>1, <1>2, <1>5, <1>7, RightEnds
  <2>2. /\ a \in [Interfaces -> Addresses \cup {NoAddress}]
        /\ \A q \in Interfaces : a[q] = IF q \in {r, p} THEN NoAddress ELSE addr[q]
    <3> HIDE DEF p, r
    <3> QED
      BY <1>2, <2>1 DEF Flush, WithAddress
  <2>3. IndicesAgree => Holds(a, G)
    <3>1. IndicesAgree => Holds(addr, {q \in Interfaces : Given(q)})
      BY <1>1, AddrHolds
    <3> HIDE DEF p, r, a
    <3> QED
      BY <2>2, <3>1 DEF Holds
  <2>4. p \notin G
    OBVIOUS
  <2>5. \A q \in Interfaces : q # p /\ q # <<Router, nc + i>> => a[q] = addr[q]
    BY <2>2
  <2>6. /\ ConnectServer(a, Server(0), p, i) /\ Planned(p) /\ Subnet(p) = RightSubnet /\ Index(p) = i
        /\ Intended(p) = Address(RightSubnet, i, 1)
    BY <1>3, <1>5, <1>7
  <2> HIDE DEF p, a, G
  <2> QED
    BY <1>1, <1>2, <1>6, <1>7, <2>1, <2>2, <2>3, <2>4, <2>5, <2>6, ConnectServerRight
<1>8. Gives("server_addresses") = {r, p}
  BY GivesValues
<1>9. /\ "server_addresses" \in AddressLoops /\ next \in AddressLoops \cup {"client_routes"}
      /\ ~multi => next \notin MultiLoops
  BY DEF AddressLoops, MultiLoops
<1>10. i < Limit("server_addresses") /\ IndicesAgree => TurnIsRight("server_addresses", E)
  <2>1. MayLearn(Router, p)
    BY <1>6 DEF MayLearn, Router
  <2> HIDE DEF p, r
  <2>2. Entry(Router, p).host = Router /\ Entry(Router, p).of = p
    BY DEF Entry
  <2> QED
    BY <1>2, <1>6, <1>7, <1>8, <2>1, <2>2 DEF TurnIsRight
<1>11. addr' \in [Interfaces -> Addresses \cup {NoAddress}] /\ arp' \in SUBSET ArpEntry
  BY <1>2, <1>3, <1>7
<1> HIDE DEF E, next
<1> QED
  BY <1>2, <1>3, <1>4, <1>9, <1>10, <1>11, ConfigureStep

LEMMA ConfigureServersStep ==
    ASSUME NetworkInv, ConfigureServers
    PROVE  NetworkInv'
<1>1. TypeOK /\ ControlInv /\ PortsInv /\ AddressInv /\ ArpInv
  BY DEF NetworkInv
<1>2. /\ pc = "servers_addresses" /\ multi /\ Limit("servers_addresses") = nc + 1 /\ servers = nc + 1
      /\ i \in Nat /\ nc \in Nat /\ nc <= MaxLinks /\ MaxLinks \in Nat
      /\ addr \in [Interfaces -> Addresses \cup {NoAddress}] /\ arp \in SUBSET ArpEntry
  <2>1. pc = "servers_addresses"
    BY DEF ConfigureServers, ConfigureLoop, Loop
  <2>2. multi
    BY <1>1, <2>1 DEF ControlInv
  <2>3. servers = nc + 1
    BY <1>1, <2>1, <2>2, Turns, Built
  <2> QED
    BY <1>1, <2>1, <2>2, <2>3, Limits, MultiInterfaceAssumption DEF TypeOK
<1> DEFINE p == <<Server(i), 0>>
           r == <<Router, nc + i>>
<1>3. /\ ConfigureLoop("servers_addresses", Limit("servers_addresses"), "client_routes", {p, r})
      /\ i < nc + 1 => ConnectServer(addr, Server(i), p, i)
      /\ ~(i < nc + 1) => UNCHANGED <<addr, arp>>
  BY <1>2 DEF ConfigureServers, get_server_interface, get_router_interface_to_server_switch,
              get_router_interface_to_client_switch
<1>4. Moves("servers_addresses", "client_routes") /\ UNCHANGED <<netVars, rules, routes>>
  <2>1. ASSUME i < nc + 1 PROVE Exists(p) /\ Exists(r)
    <3>1. /\ Len(ports[Router]) = nc + ServerConnections + (IF multi THEN nc ELSE 0)
          /\ Len(ports[Server(0)]) = ServerConnections
          /\ ServerConnections \in Nat /\ ServerConnections >= 1
      BY <1>1, <1>2, Turns, Built
    <3>2. Exists(r)
      BY <1>2, <2>1, <3>1 DEF Exists
    <3>3. CASE i = 0
      BY <3>1, <3>2, <3>3 DEF Exists
    <3>4. CASE i # 0
      <4>1. i \in 1..MaxLinks /\ i <= nc /\ Turn(pc) > 4
        BY <1>2, <2>1, <3>4, Turns
      <4>2. ports[Server(i)] = IF multi /\ i <= nc THEN << <<"server", i - 1>> >> ELSE <<>>
        BY <1>1, <4>1, Built
      <4>3. Len(ports[Server(i)]) = 1
        BY <1>2, <4>1, <4>2
      <4>4. Exists(p)
        BY <4>3 DEF Exists
      <4> QED
        BY <3>2, <4>4
    <3> QED
      BY <3>3, <3>4
  <2>2. /\ "servers_addresses" \in Loops /\ "client_routes" \in Loops
        /\ Turn("servers_addresses") < Turn("client_routes")
    BY Turns DEF Loops
  <2>3. \A m \in Loops : ~(Turn("servers_addresses") < Turn(m) /\ Turn(m) < Turn("client_routes"))
    BY <1>1, LoopTypes, Turns
  <2> HIDE DEF p, r
  <2>4. i < Limit("servers_addresses") => \A q \in {p, r} : Exists(q)
    BY <1>2, <2>1
  <2> QED
    BY <1>1, <1>3, <2>2, <2>3, <2>4, ConfigureMoves
<1>5. i < nc + 1 => /\ p \in Interfaces /\ Planned(p)
                    /\ Subnet(p) = RightSubnet /\ Index(p) = i
                    /\ Intended(p) = Address(RightSubnet, i, 1)
                    /\ i <= nc
  <2>1. i < nc + 1 => i <= nc
    BY <1>2
  <2> QED
    BY <1>1, <1>2, <2>1, RightEnds
<1>6. /\ i < nc + 1 => Server(i) \in Hosts /\ Server(i) # Router /\ Server(i) # Client(0)
      /\ p[1] = Server(i) /\ r[1] = Router
  <2>1. i < nc + 1 => i \in 0..MaxLinks /\ 0 \in 0..MaxLinks
    BY <1>2
  <2> QED
    BY <2>1, HostFacts
<1> DEFINE E == IF i = 0 THEN {Entry(Server(i), r), Entry(Router, p)} ELSE {Entry(Router, p)}
<1>7. ASSUME i < nc + 1
      PROVE  /\ addr' \in [Interfaces -> Addresses \cup {NoAddress}] /\ arp' \in SUBSET ArpEntry
             /\ IndicesAgree =>
                /\ addr' = [q \in Interfaces |-> IF q \in {r, p} THEN Intended(q) ELSE addr[q]]
                /\ arp' = arp \cup E
                /\ \A e \in E : Neighbour(e) /\ e.of \in {r, p}
  <2> DEFINE G == {q \in Interfaces : Given(q)}
  <2>1. p \in G <=> i = 0
    <3>1. /\ Done["servers_addresses"] = i /\ Done["server_addresses"] = ServerConnections
          /\ ServerConnections \in Nat /\ ServerConnections >= 1
      BY <1>1, <1>2, Turns, Limits, DoneValues, Built DEF Loops
    <3>2. CASE i = 0
      <4>1. p = <<Server(0), 0>> /\ 0 \in Nat /\ 0 < Done["server_addresses"]
        BY <3>1, <3>2
      <4> QED
        BY <1>5, <1>7, <3>2, <4>1, ServerPlace
    <3>3. CASE i # 0
      <4>1. 0 \in Nat /\ ~(i < Done["servers_addresses"])
        BY <1>2, <3>1
      <4> QED
        BY <1>2, <3>3, <4>1, ServersPlace
    <3> QED
      BY <3>2, <3>3
  <2>2. IndicesAgree => Holds(addr, G)
    BY <1>1, AddrHolds
  <2>3. /\ ConnectServer(addr, Server(i), p, i) /\ Planned(p) /\ Subnet(p) = RightSubnet /\ Index(p) = i
        /\ Intended(p) = Address(RightSubnet, i, 1) /\ p \in Interfaces /\ i <= nc
        /\ Server(i) \in Hosts /\ Server(i) # Router /\ Server(i) # Client(0)
    BY <1>3, <1>5, <1>6, <1>7
  <2> HIDE DEF p, G
  <2>4. /\ addr' \in [Interfaces -> Addresses \cup {NoAddress}] /\ arp' \in SUBSET ArpEntry
        /\ IndicesAgree =>
                /\ addr' = [q \in Interfaces |-> IF q \in {r, p} THEN Intended(q) ELSE addr[q]]
                /\ p \notin G => arp' = arp \cup {Entry(Router, p)}
                /\ p \in G => arp' = arp \cup {Entry(Server(i), r), Entry(Router, p)}
                /\ \A e \in {Entry(Server(i), r), Entry(Router, p)} : Neighbour(e) /\ e.of \in {r, p}
    BY <1>1, <1>2, <1>6, <2>2, <2>3, ConnectServerRight
  <2> QED
    BY <2>1, <2>4
<1>8. Gives("servers_addresses") = {r, p}
  BY GivesValues
<1>9. "servers_addresses" \in AddressLoops /\ "client_routes" \notin MultiLoops
  BY DEF AddressLoops, MultiLoops
<1>10. i < Limit("servers_addresses") /\ IndicesAgree => TurnIsRight("servers_addresses", E)
  <2>1. ASSUME i < nc + 1 PROVE MayLearn(Router, p)
    BY <1>6, <2>1 DEF MayLearn, Router
  <2>2. i = 0 => MayLearn(Server(i), r) /\ Server(i) = Server(0) /\ r = <<Router, nc>>
    <3>1. i = 0 => Server(i) = Server(0) /\ nc + i = nc
      BY <1>2
    <3>2. Server(0) # Router
      BY HostFacts
    <3> QED
      BY <1>2, <3>1, <3>2 DEF MayLearn
  <2>3. i = 0 => Entry(Server(0), <<Router, nc>>) \in E
    BY <2>2
  <2> HIDE DEF p, r
  <2>4. /\ Entry(Router, p).host = Router /\ Entry(Router, p).of = p
        /\ Entry(Server(i), r).host = Server(i) /\ Entry(Server(i), r).of = r
    BY DEF Entry
  <2>5. Entry(Router, p) \in E
    OBVIOUS
  <2>6. i < nc + 1 => \A e \in E : MayLearn(e.host, e.of)
    BY <2>1, <2>2, <2>4
  <2> HIDE DEF E
  <2> QED
    BY <1>2, <1>6, <1>7, <1>8, <2>3, <2>5, <2>6 DEF TurnIsRight
<1>11. addr' \in [Interfaces -> Addresses \cup {NoAddress}] /\ arp' \in SUBSET ArpEntry
  BY <1>2, <1>3, <1>7
<1> HIDE DEF E
<1> QED
  BY <1>2, <1>3, <1>4, <1>9, <1>10, <1>11, ConfigureStep

-----------------------------------------------------------------------------
(* configure_routing                                                       *)

LEMMA DoneGrows ==
    ASSUME TypeOK, ControlInv, UNCHANGED inputs, NEW loop \in Loops, NEW next, Moves(loop, next)
    PROVE  \A m \in Loops : /\ Done[m] \in Nat /\ Done'[m] \in Nat
                            /\ Done[m] <= Done'[m] /\ Done'[m] <= Limit(m)
<1>1. /\ Done \in [Loops -> Nat]
      /\ \A m \in Loops : Done[m] <= Limit(m) /\ Limit(m) \in Nat
  BY DoneType
<1> QED
  BY <1>1 DEF Moves

(* What goes on during the routing.                                        *)
LEMMA RouteMoves ==
    ASSUME TypeOK, ControlInv, NEW loop \in Loops, NEW next \in Loops \cup {"done"},
           RouteLoop(loop, Limit(loop), next), Turn(loop) < Turn(next),
           \A m \in Loops : Turn(loop) < Turn(m) /\ Turn(m) < Turn(next) => Limit(m) = 0
    PROVE  Moves(loop, next) /\ UNCHANGED <<netVars, addr, arp>>
<1>1. Loop(loop, Limit(loop), next) /\ UNCHANGED <<netVars, addr, arp>>
  BY DEF RouteLoop
<1>2. UNCHANGED inputs
  BY <1>1 DEF netVars
<1> QED
  BY <1>1, <1>2, LoopMoves

RoutingLoops == RouteLoops \cup {"client_default", "server_default"}

LEMMA RouteStep ==
    ASSUME NetworkInv, NEW loop \in RoutingLoops, NEW next \in RoutingLoops \cup {"done"},
           Moves(loop, next), UNCHANGED <<netVars, addr, arp>>, ~multi => next \notin MultiLoops,
           rules' \subseteq Rule, routes' \subseteq Route, RoutesInv'
    PROVE  NetworkInv'
<1>1. /\ TypeOK /\ ControlInv /\ PortsInv /\ AddressInv /\ ArpInv /\ RoutesInv
      /\ loop \in Loops /\ next \in Loops \cup {"done"} /\ UNCHANGED inputs
  BY DEF NetworkInv, RoutingLoops, RouteLoops, Loops, netVars
<1>2. TypeOK'
  BY <1>1, TypesKept DEF TypeOK
<1>3. Same(Loops \ {loop})
  BY <1>1, OthersSame
<1>4. ControlInv'
  <2>1. servers' = Done'["clients"] + 1
    BY <1>3 DEF Same, Loops, RoutingLoops, RouteLoops, NetworkInv, ControlInv, netVars
  <2> QED
    BY <1>1, <2>1, ControlStep
<1>5. pc = loop /\ (pc' = loop \/ pc' = next)
  BY DEF Moves
<1>6. PortsInv'
  <2>1. Same({"c2r", "r2s", "clients", "servers"})
    BY <1>3 DEF Same, Loops, RoutingLoops, RouteLoops
  <2>2. \A m \in RoutingLoops \cup {"done"} : Turn(m) > 2
    BY Turns DEF RoutingLoops, RouteLoops
  <2>3. UNCHANGED <<inputs, ports>> /\ Turn(pc) > 2 /\ Turn(pc') > 2
    BY <1>5, <2>2 DEF netVars
  <2> QED
    BY <1>1, <2>1, <2>3, PortsKept
<1>7. Same(AddressLoops) /\ UNCHANGED <<inputs, addr, arp, ports>>
  BY <1>3 DEF Same, Loops, AddressLoops, RoutingLoops, RouteLoops, netVars
<1>8. AddressInv' /\ ArpInv'
  BY <1>1, <1>7, AddressKept, ArpKept
<1> QED
  BY <1>2, <1>4, <1>6, <1>8 DEF NetworkInv

(* A step adds routes to one table of one host.                            *)
AddsTo(host, table) ==
    /\ routes' \subseteq Route /\ routes \subseteq routes'
    /\ \A r \in routes' : r \in routes \/ (r.host = host /\ r.table = table)

LEMMA LinkTypes ==
    ASSUME TypeOK, NEW host \in Hosts, NEW table \in Nat, NEW net \in Addresses, NEW dev \in Interfaces
    PROVE  /\ WithLink(routes, host, table, net, dev) \in SUBSET Route
           /\ routes \subseteq WithLink(routes, host, table, net, dev)
           /\ WithLink(routes, host, table, net, dev) \subseteq
                routes \cup {[host |-> host, table |-> table, net |-> net, via |-> NoAddress, dev |-> dev]}
BY DEF WithLink, Route, TypeOK

LEMMA DefaultTypes ==
    ASSUME NEW current \in SUBSET Route, NEW host \in Hosts, NEW table \in Nat, NEW via \in Addresses,
           NEW devs \in SUBSET Interfaces, AddDefault(current, host, table, via, devs)
    PROVE  /\ routes' \in SUBSET Route /\ current \subseteq routes'
           /\ \A r \in routes' : \/ r \in current
                                 \/ r.host = host /\ r.table = table /\ r.net = Default
<1>1. CASE routes' = current
  BY <1>1
<1>2. ASSUME NEW dev \in devs,
             routes' = current \cup {[host |-> host, table |-> table, net |-> Default,
                                      via |-> via, dev |-> dev]}
      PROVE  /\ routes' \in SUBSET Route /\ current \subseteq routes'
             /\ \A r \in routes' : \/ r \in current
                                   \/ r.host = host /\ r.table = table /\ r.net = Default
  BY <1>2 DEF Route
<1> QED
  BY <1>1, <1>2 DEF AddDefault

LEMMA GatewayTypes ==
    ASSUME NEW current \in SUBSET Route, NEW host, NEW table, NEW via
    PROVE  /\ Gateways(current, host, table, via) \in SUBSET Interfaces
           /\ Connected(addr, host, via) \in SUBSET Interfaces
<1>1. Connected(addr, host, via) \in SUBSET Interfaces
  BY DEF Connected
<1>2. \A r \in current : r.dev \in Interfaces
  BY DEF Route
<1> QED
  BY <1>1, <1>2 DEF Gateways

(* A new default route leaves through the only interface that leads to the *)
(* gateway.                                                                *)
LEMMA DefaultAdds ==
    ASSUME NEW current, NEW host, NEW table, NEW via, NEW dev,
           \A r \in current : r.host = host /\ r.table = table => r.net # Default,
           AddDefault(current, host, table, via, {dev})
    PROVE  routes' = current \cup {[host |-> host, table |-> table, net |-> Default,
                                    via |-> via, dev |-> dev]}
<1>1. ~HasRoute(current, host, table, Default)
  BY DEF HasRoute
<1> QED
  BY <1>1 DEF AddDefault

(* With all addresses given, a host reaches the router on a link through   *)
(* its interface there.                                                    *)
LEMMA ReachesRouter ==
    ASSUME TypeOK, ControlInv, AddressInv, IndicesAgree, dot, Turn(pc) > 9,
           NEW p \in Interfaces, Planned(p)
    PROVE  /\ Connected(addr, p[1], IPAddress(Subnet(p), Index(p), 2)) = {p}
           /\ IPAddress(Subnet(p), Index(p), 2) = RouterAddress(Subnet(p), Index(p))
<1> DEFINE G == {q \in Interfaces : Given(q)}
           via == Address(Subnet(p), Index(p), 2)
<1>1. IPAddress(Subnet(p), Index(p), 2) = via /\ RouterAddress(Subnet(p), Index(p)) = via
  BY DEF IPAddress, Address, RouterAddress
<1>2. /\ Intended(p) = Address(Subnet(p), Index(p), Number(p))
      /\ Subnet(p) \in {LeftSubnet, RightSubnet} /\ Index(p) \in 0..MaxLinks /\ Number(p) \in Nat
  BY PlaceOf
<1>3. SameSubnet(Intended(p), via)
  BY <1>2, AddressesDiffer
<1>4. p \in G
  BY AllGiven
<1>5. Holds(addr, G)
  BY AddrHolds
<1> HIDE DEF G, via
<1>6. Connected(addr, p[1], Intended(p)) = G \cap {p}
  BY <1>5, ConnectedTo
<1>7. \A x : SameSubnet(x, Intended(p)) <=> SameSubnet(x, via)
  BY <1>3 DEF SameSubnet
<1>8. Connected(addr, p[1], via) = Connected(addr, p[1], Intended(p))
  BY <1>7 DEF Connected
<1> QED
  BY <1>1, <1>4, <1>6, <1>8

(* The rule and the table of an interface.                                 *)
LEMMA TableTypes ==
    ASSUME TypeOK, NEW p \in Interfaces, NEW k \in Nat, NEW s \in {LeftSubnet, RightSubnet},
           TableOf(p, k, s)
    PROVE  /\ rules' \subseteq Rule /\ rules \subseteq rules'
           /\ AddsTo(p[1], k + 1)
<1> DEFINE h == p[1]
           table == k + 1
           net == IPAddress(s, k, 0)
           via == IPAddress(s, k, 2)
           from == IPAddress(s, k, 1)
           linked == WithLink(routes, h, table, net, p)
           devs == Gateways(linked, h, table, via)
<1>1. /\ rules' = rules \cup {[host |-> h, from |-> from, table |-> table]}
      /\ AddDefault(linked, h, table, via, devs)
  BY DEF TableOf
<1>2. /\ h \in Hosts /\ table \in Nat /\ net \in Addresses /\ via \in Addresses /\ from \in Addresses
      /\ rules \subseteq Rule /\ routes \subseteq Route
  BY AddressTypes DEF Interfaces, TypeOK
<1> HIDE DEF h, table, net, via, from
<1>3. /\ linked \in SUBSET Route /\ routes \subseteq linked
      /\ linked \subseteq routes \cup {[host |-> h, table |-> table, net |-> net,
                                        via |-> NoAddress, dev |-> p]}
  BY <1>2, LinkTypes
<1> HIDE DEF linked
<1>4. devs \in SUBSET Interfaces
  BY <1>3, GatewayTypes
<1> HIDE DEF devs
<1>5. /\ routes' \in SUBSET Route /\ linked \subseteq routes'
      /\ \A r \in routes' : \/ r \in linked
                            \/ r.host = h /\ r.table = table /\ r.net = Default
  BY <1>1, <1>2, <1>3, <1>4, DefaultTypes
<1>6. \A r \in linked : r \in routes \/ (r.host = h /\ r.table = table)
  BY <1>3
<1>7. AddsTo(h, table)
  BY <1>3, <1>5, <1>6 DEF AddsTo
<1>8. rules' \subseteq Rule /\ rules \subseteq rules'
  BY <1>1, <1>2 DEF Rule
<1> QED
  BY <1>7, <1>8 DEF h, table

(* They are right if the table is empty.                                   *)
LEMMA TableRight ==
    ASSUME TypeOK, ControlInv, PortsInv, AddressInv, IndicesAgree, dot, Turn(pc) > 9, UNCHANGED inputs,
           NEW p \in Interfaces, Planned(p), NEW k \in 0..MaxLinks, k = Index(p),
           NEW s \in {LeftSubnet, RightSubnet},
           \A r \in routes : ~(r.host = p[1] /\ r.table = k + 1),
           TableOf(p, k, s)
    PROVE  /\ TableThere(p, k, s)'
           /\ \A r \in routes' : r \in routes \/ r.dev = p
<1> DEFINE h == p[1]
           table == k + 1
           net == Address(s, k, 0)
           via == Address(s, k, 2)
           from == Address(s, k, 1)
           link == [host |-> h, table |-> table, net |-> net, via |-> NoAddress, dev |-> p]
           linked == routes \cup {link}
           links == {r \in linked : /\ r.host = h /\ r.table = table
                                    /\ r.net # Default /\ SameSubnet(r.net, via)}
<1>1. k \in Nat /\ 0 \in Nat /\ 1 \in Nat /\ 2 \in Nat
  BY MultiInterfaceAssumption
<1>2. Exists(p)
  <2>1. Turn(pc) > 4
    BY Turns, LoopTypes DEF ControlInv
  <2> QED
    BY <2>1, SegmentOf
<1>3. \A r \in routes : ~(r.host = h /\ r.table = table)
  OBVIOUS
<1>4. net # Default /\ SameSubnet(net, via)
  <2>1. net # NoAddress
    BY <1>1, AddressTypes
  <2>2. SameSubnet(net, via)
    BY <1>1, AddressesDiffer
  <2> QED
    BY <2>1, <2>2 DEF Default, NoAddress
<1>5. IPAddress(s, k, 0) = net /\ IPAddress(s, k, 1) = from /\ IPAddress(s, k, 2) = via
  BY DEF IPAddress, Address
<1> HIDE DEF h, table, net, via, from
<1>6. WithLink(routes, h, table, net, p) = linked
  BY <1>2, <1>3 DEF WithLink, HasRoute
<1>7. link.host = h /\ link.table = table /\ link.net = net /\ link.dev = p
  OBVIOUS
<1> HIDE DEF link
<1>8. links = {link}
  BY <1>3, <1>4, <1>7
<1>9. Gateways(linked, h, table, via) = {p}
  <2>1. {r.dev : r \in links} = {p} /\ links # {}
    BY <1>7, <1>8
  <2> QED
    BY <2>1 DEF Gateways
<1>10. \A r \in linked : r.host = h /\ r.table = table => r.net # Default
  BY <1>3, <1>4, <1>7
<1>11. /\ rules' = rules \cup {[host |-> h, from |-> from, table |-> table]}
       /\ AddDefault(linked, h, table, via, {p})
  <2>1. /\ rules' = rules \cup {[host |-> h, from |-> from, table |-> table]}
        /\ AddDefault(WithLink(routes, h, table, net, p), h, table, via,
                      Gateways(WithLink(routes, h, table, net, p), h, table, via))
    BY <1>5 DEF TableOf, h, table
  <2> HIDE DEF linked
  <2> QED
    BY <1>6, <1>9, <2>1
<1> HIDE DEF linked
<1>12. routes' = linked \cup {[host |-> h, table |-> table, net |-> Default, via |-> via, dev |-> p]}
  BY <1>10, <1>11, DefaultAdds
<1>13. \A r \in routes' : r \in routes \/ r.dev = p
  BY <1>7, <1>12 DEF linked
<1>14. TableThere(p, k, s)'
  <2>1. Address(s, k, 0)' = net /\ Address(s, k, 1)' = from /\ RouterAddress(s, k)' = via
    BY DEF Address, RouterAddress, inputs, net, from, via
  <2>2. /\ [host |-> p[1], from |-> from, table |-> k + 1] \in rules'
        /\ [host |-> p[1], table |-> k + 1, net |-> net, via |-> NoAddress, dev |-> p] \in routes'
        /\ [host |-> p[1], table |-> k + 1, net |-> Default, via |-> via, dev |-> p] \in routes'
    BY <1>11, <1>12 DEF linked, link, h, table
  <2> QED
    BY <2>1, <2>2 DEF TableThere, RuleThere, RouteThere
<1> QED
  BY <1>13, <1>14

(* A default route in the main table of a host.                            *)
LEMMA MainTypes ==
    ASSUME TypeOK, NEW h \in Hosts, NEW s \in {LeftSubnet, RightSubnet}, NEW k \in Nat,
           NEW devs \in SUBSET Interfaces, AddDefault(routes, h, 0, IPAddress(s, k, 2), devs)
    PROVE  AddsTo(h, 0) /\ \A r \in routes' : r \in routes \/ r.net = Default
<1> DEFINE via == IPAddress(s, k, 2)
           current == routes
<1>1. via \in Addresses /\ AddDefault(current, h, 0, via, devs) /\ 0 \in Nat /\ current \in SUBSET Route
  BY AddressTypes DEF TypeOK
<1> HIDE DEF via, current
<1>2. /\ routes' \in SUBSET Route /\ current \subseteq routes'
      /\ \A r \in routes' : \/ r \in current
                            \/ r.host = h /\ r.table = 0 /\ r.net = Default
  BY <1>1, DefaultTypes
<1> QED
  BY <1>2 DEF AddsTo, current

LEMMA MainRight ==
    ASSUME TypeOK, ControlInv, AddressInv, IndicesAgree, dot, Turn(pc) > 9, UNCHANGED inputs,
           NEW h \in Hosts, NEW p \in Interfaces, p = <<h, 0>>, Planned(p),
           NEW s, NEW k, Subnet(p) = s, Index(p) = k,
           \A r \in routes : ~(r.host = h /\ r.table = 0),
           AddDefault(routes, h, 0, IPAddress(s, k, 2), {p})
    PROVE  DefaultThere(h, s, k)'
<1> DEFINE via == IPAddress(s, k, 2)
           current == routes
<1>1. via = RouterAddress(s, k) /\ AddDefault(current, h, 0, via, {p})
  BY ReachesRouter
<1>2. \A r \in current : r.host = h /\ r.table = 0 => r.net # Default
  OBVIOUS
<1> HIDE DEF via, current
<1>3. routes' = current \cup {[host |-> h, table |-> 0, net |-> Default, via |-> via, dev |-> p]}
  BY <1>1, <1>2 DEF AddDefault, HasRoute
<1>4. RouterAddress(s, k)' = via
  BY <1>1 DEF RouterAddress, Address, inputs
<1>5. [host |-> h, table |-> 0, net |-> Default, via |-> via, dev |-> <<h, 0>>] \in routes'
  BY <1>3
<1>6. <<h, 0>>[1] = h
  OBVIOUS
<1> QED
  BY <1>4, <1>5, <1>6 DEF DefaultThere, RouteThere

LEMMA ThereKept ==
    ASSUME UNCHANGED inputs, rules \subseteq rules', routes \subseteq routes', NEW k, NEW s
    PROVE  /\ \A p \in Interfaces : TableThere(p, k, s) => TableThere(p, k, s)'
           /\ \A h \in Hosts : DefaultThere(h, s, k) => DefaultThere(h, s, k)'
<1>1. \A n : Address(s, k, n)' = Address(s, k, n)
  BY DEF Address, inputs
<1>2. RouterAddress(s, k)' = RouterAddress(s, k)
  BY DEF RouterAddress, Address, inputs
<1> QED
  BY <1>1, <1>2 DEF TableThere, DefaultThere, RuleThere, RouteThere

LEMMA TablesKept ==
    ASSUME TablesInv, UNCHANGED inputs, rules \subseteq rules', routes \subseteq routes',
           Same({"client_routes", "server_routes"})
    PROVE  TablesInv'
BY DEF TablesInv, TableThere, RuleThere, RouteThere, Address, RouterAddress, Same, inputs

LEMMA DefaultsKept ==
    ASSUME DefaultsInv, UNCHANGED inputs, routes \subseteq routes',
           Same({"clients_routes", "servers_routes"}),
           Turn(pc') > 12 => Turn(pc) > 12, Turn(pc') > 13 => Turn(pc) > 13
    PROVE  DefaultsInv'
BY TurnPrimed DEF DefaultsInv, DefaultThere, RouteThere, Address, RouterAddress, Same, inputs

(* The routes of earlier turns remain timely.                              *)
LEMMA TimelyKept ==
    ASSUME TypeOK, ControlInv, UNCHANGED inputs, NoRouteBefore, NEW loop \in Loops, NEW next,
           Moves(loop, next), Turn(pc) > 12 => Turn(pc') > 12, Turn(pc) > 13 => Turn(pc') > 13,
           \A r \in routes' : r \in routes \/ TimelyAt(Turn(pc'), Done', r)
    PROVE  NoRouteBefore'
<1> SUFFICES ASSUME NEW r \in routes PROVE TimelyAt(Turn(pc'), Done', r)
  BY TurnPrimed DEF NoRouteBefore
<1>1. TimelyAt(Turn(pc), Done, r) /\ r.table \in Nat /\ MaxLinks \in Nat
  BY MultiInterfaceAssumption DEF NoRouteBefore, TypeOK, Route
<1>2. ASSUME NEW m \in RouteLoops
      PROVE  Done[m] \in Nat /\ Done'[m] \in Nat /\ Done[m] <= Done'[m]
  BY DoneGrows DEF Loops, RouteLoops
<1>3. /\ r.host = Client(0) /\ r.table = 0 => Turn(pc') > 12
      /\ r.host = Server(0) /\ r.table = 0 => Turn(pc') > 13
      /\ r.table > 0 => r.dev = <<r.host, r.table - 1>>
      /\ r.table = 0 => r.net = Default
  BY <1>1 DEF TimelyAt
<1>4. /\ r.host = Client(0) /\ r.table > 0 => r.table <= Done'["client_routes"]
      /\ r.host = Server(0) /\ r.table > 0 => r.table <= Done'["server_routes"]
  BY <1>1, <1>2 DEF TimelyAt, RouteLoops
<1>5. /\ \A j \in 1..MaxLinks : r.host = Client(j) => j <= Done'["clients_routes"]
      /\ \A j \in 1..MaxLinks : r.host = Server(j) => j < Done'["servers_routes"]
  BY <1>1, <1>2 DEF TimelyAt, RouteLoops
<1> QED
  BY <1>3, <1>4, <1>5 DEF TimelyAt

LEMMA RouteClientStep ==
    ASSUME NetworkInv, RouteClient
    PROVE  NetworkInv'
<1>1. TypeOK /\ ControlInv /\ PortsInv /\ AddressInv /\ RoutesInv
  BY DEF NetworkInv
<1>2. /\ pc = "client_routes" /\ Limit("client_routes") = nc /\ i \in Nat /\ nc \in Nat
      /\ rules \subseteq Rule /\ routes \subseteq Route
  BY <1>1, Limits, MultiInterfaceAssumption DEF RouteClient, RouteLoop, Loop, TypeOK
<1>3. Moves("client_routes", "server_routes") /\ UNCHANGED <<netVars, addr, arp>>
  <2>1. RouteLoop("client_routes", Limit("client_routes"), "server_routes")
    BY <1>2 DEF RouteClient
  <2>2. /\ "client_routes" \in Loops /\ "server_routes" \in Loops
        /\ Turn("client_routes") < Turn("server_routes")
    BY Turns DEF Loops
  <2>3. \A m \in Loops : ~(Turn("client_routes") < Turn(m) /\ Turn(m) < Turn("server_routes"))
    BY <1>1, LoopTypes, Turns
  <2> QED
    BY <1>1, <2>1, <2>2, <2>3, RouteMoves
<1>4. /\ "client_routes" \in RoutingLoops /\ "server_routes" \in RoutingLoops
      /\ "server_routes" \notin MultiLoops /\ "client_routes" \in Loops /\ UNCHANGED inputs
  BY <1>3 DEF RoutingLoops, RouteLoops, MultiLoops, Loops, netVars
<1>5. ~(Turn(pc) > 12) /\ ~(Turn(pc') > 12) /\ ~(Turn(pc) > 13) /\ ~(Turn(pc') > 13) /\ Turn(pc) > 9
  BY <1>2, <1>3, Turns DEF Moves
<1>6. CASE ~(i < nc)
  <2>1. UNCHANGED <<rules, routes>>
    BY <1>6 DEF RouteClient
  <2>2. Same(RouteLoops)
    BY <1>2, <1>3, <1>6 DEF Moves, Same
  <2>3. RoutesInv'
    BY <1>1, <1>4, <1>5, <2>1, <2>2, RoutesKept
  <2> QED
    BY <1>2, <1>3, <1>4, <2>1, <2>3, RouteStep
<1>7. CASE i < nc
  <2>0. PICK n \in 0..MaxLinks : n = i /\ n \in Nat /\ n < nc
    BY <1>1, <1>2, <1>7, MultiInterfaceAssumption DEF TypeOK
  <2> DEFINE p == <<Client(0), n>>
  <2>1. TableOf(p, n, LeftSubnet)
    BY <1>7, <2>0 DEF RouteClient, get_client_interface
  <2>2. /\ p \in Interfaces /\ Planned(p) /\ p[1] = Client(0) /\ Client(0) \in Hosts
        /\ Subnet(p) = LeftSubnet /\ Index(p) = n
    BY <1>1, <2>0, LeftEnds, HostFacts
  <2>3. rules' \subseteq Rule /\ rules \subseteq rules' /\ AddsTo(Client(0), n + 1)
    <3> HIDE DEF p
    <3>1. rules' \subseteq Rule /\ rules \subseteq rules' /\ AddsTo(p[1], n + 1)
      BY <1>1, <2>0, <2>1, <2>2, TableTypes
    <3> QED
      BY <2>2, <3>1
  <2>4. routes' \subseteq Route /\ routes \subseteq routes'
    BY <2>3 DEF AddsTo
  <2>5. /\ Done["client_routes"] = n /\ Done'["client_routes"] = n + 1
        /\ Same({"clients_routes", "servers_routes", "server_routes"})
    <3>1. Done["client_routes"] = n /\ Done' = [Done EXCEPT !["client_routes"] = n + 1]
      BY <1>2, <1>3, <1>7, <2>0 DEF Moves
    <3>2. Done \in [Loops -> Nat]
      BY <1>1, DoneType
    <3> QED
      BY <3>1, <3>2 DEF Same, Loops
  <2>6. ASSUME IndicesAgree, dot PROVE TablesInv' /\ DefaultsInv' /\ NoRouteBefore'
    <3>1. TablesInv /\ DefaultsInv /\ NoRouteBefore
      BY <1>1, <2>6 DEF RoutesInv
    <3>2. TableThere(p, n, LeftSubnet)' /\ \A r \in routes' : r \in routes \/ r.dev = p
      <4> HIDE DEF p
      <4>1. \A r \in routes : ~(r.host = p[1] /\ r.table = n + 1)
        BY <2>0, <2>2, <2>5, <3>1 DEF NoRouteBefore, TimelyAt
      <4>2. Turn(pc) > 9 /\ UNCHANGED inputs /\ n = Index(p)
        BY <1>4, <1>5, <2>2
      <4> QED
        BY <1>1, <2>0, <2>1, <2>2, <2>6, <4>1, <4>2, TableRight
    <3>3. TablesInv'
      <4>1. ASSUME NEW k \in 0..(Done'["client_routes"] - 1)
            PROVE  TableThere(<<Client(0), k>>, k, LeftSubnet)'
        <5>1. k = n \/ k \in 0..(Done["client_routes"] - 1)
          BY <2>0, <2>5
        <5>2. CASE k = n
          BY <3>2, <5>2
        <5>3. CASE k \in 0..(Done["client_routes"] - 1)
          <6>1. TableThere(<<Client(0), k>>, k, LeftSubnet)
            BY <3>1, <5>3 DEF TablesInv
          <6>2. <<Client(0), k>> \in Interfaces
            BY <1>1, <2>0, <2>2, <2>5, <5>3, MultiInterfaceAssumption DEF Interfaces, TypeOK
          <6> QED
            BY <1>4, <2>3, <2>4, <6>1, <6>2, ThereKept
        <5> QED
          BY <5>1, <5>2, <5>3
      <4>2. ASSUME NEW k \in 0..(Done'["server_routes"] - 1)
            PROVE  TableThere(<<Server(0), k>>, k, RightSubnet)'
        <5>1. TableThere(<<Server(0), k>>, k, RightSubnet)
          BY <2>5, <3>1 DEF TablesInv, Same
        <5>2. <<Server(0), k>> \in Interfaces
          <6>1. Done'["server_routes"] \in Nat /\ Done'["server_routes"] <= MaxLinks /\ MaxLinks \in Nat
            <7>1. "server_routes" \in Loops /\ Limit("server_routes") <= MaxLinks
              BY <1>1, Limits DEF Loops, TypeOK
            <7>2. Done["server_routes"] \in Nat /\ Done["server_routes"] <= Limit("server_routes")
              BY <1>1, <7>1, DoneType
            <7>3. Limit("server_routes") \in Nat
              BY <1>1, <7>1, DoneType
            <7> QED
              BY <2>5, <7>1, <7>2, <7>3, MultiInterfaceAssumption DEF Same
          <6> QED
            BY <6>1, HostFacts DEF Interfaces
        <5> QED
          BY <1>4, <2>3, <2>4, <5>1, <5>2, ThereKept
      <4> QED
        BY <4>1, <4>2 DEF TablesInv
    <3>4. DefaultsInv'
      <4>1. Same({"clients_routes", "servers_routes"})
        BY <2>5 DEF Same
      <4> QED
        BY <1>4, <1>5, <2>4, <3>1, <4>1, DefaultsKept
    <3>5. NoRouteBefore'
      <4>1. ASSUME NEW r \in routes', r \notin routes
            PROVE  TimelyAt(Turn(pc'), Done', r)
        <5>1. r.host = Client(0) /\ r.table = n + 1 /\ r.dev = <<Client(0), n>>
          BY <2>3, <3>2, <4>1 DEF AddsTo
        <5>2. Client(0) # Server(0) /\ \A j \in 1..MaxLinks : Client(0) # Client(j) /\ Client(0) # Server(j)
          BY MultiInterfaceAssumption DEF Client, Server
        <5>3. n + 1 > 0 /\ n + 1 # 0 /\ n + 1 - 1 = n /\ n + 1 <= Done'["client_routes"]
          BY <2>0, <2>5
        <5> QED
          BY <5>1, <5>2, <5>3 DEF TimelyAt
      <4> QED
        BY <1>1, <1>3, <1>4, <1>5, <3>1, <4>1, TimelyKept
    <3> QED
      BY <3>3, <3>4, <3>5
  <2>7. RoutesInv'
    BY <1>4, <2>6 DEF RoutesInv, IndicesAgree, inputs
  <2> QED
    BY <1>3, <1>4, <2>3, <2>4, <2>7, RouteStep
<1> QED
  BY <1>6, <1>7

LEMMA RouteServerStep ==
    ASSUME NetworkInv, RouteServer
    PROVE  NetworkInv'
<1>1. TypeOK /\ ControlInv /\ PortsInv /\ AddressInv /\ RoutesInv
  BY DEF NetworkInv
<1>2. /\ pc = "server_routes" /\ Limit("server_routes") = ns /\ i \in Nat /\ ns \in Nat
      /\ rules \subseteq Rule /\ routes \subseteq Route
  BY <1>1, Limits, MultiInterfaceAssumption DEF RouteServer, RouteLoop, Loop, TypeOK
<1>3. Moves("server_routes", "client_default") /\ UNCHANGED <<netVars, addr, arp>>
  <2>1. RouteLoop("server_routes", Limit("server_routes"), "client_default")
    BY <1>2 DEF RouteServer
  <2>2. /\ "server_routes" \in Loops /\ "client_default" \in Loops
        /\ Turn("server_routes") < Turn("client_default")
    BY Turns DEF Loops
  <2>3. \A m \in Loops : ~(Turn("server_routes") < Turn(m) /\ Turn(m) < Turn("client_default"))
    BY <1>1, LoopTypes, Turns
  <2> QED
    BY <1>1, <2>1, <2>2, <2>3, RouteMoves
<1>4. /\ "server_routes" \in RoutingLoops /\ "client_default" \in RoutingLoops
      /\ "client_default" \notin MultiLoops /\ "server_routes" \in Loops /\ UNCHANGED inputs
  BY <1>3 DEF RoutingLoops, RouteLoops, MultiLoops, Loops, netVars
<1>5. ~(Turn(pc) > 12) /\ ~(Turn(pc') > 12) /\ ~(Turn(pc) > 13) /\ ~(Turn(pc') > 13) /\ Turn(pc) > 9
  BY <1>2, <1>3, Turns DEF Moves
<1>6. CASE ~(i < ns)
  <2>1. UNCHANGED <<rules, routes>>
    BY <1>6 DEF RouteServer
  <2>2. Same(RouteLoops)
    BY <1>2, <1>3, <1>6 DEF Moves, Same
  <2>3. RoutesInv'
    BY <1>1, <1>4, <1>5, <2>1, <2>2, RoutesKept
  <2> QED
    BY <1>2, <1>3, <1>4, <2>1, <2>3, RouteStep
<1>7. CASE i < ns
  <2>0. PICK n \in 0..MaxLinks : n = i /\ n \in Nat /\ n < ns
    BY <1>1, <1>2, <1>7, MultiInterfaceAssumption DEF TypeOK
  <2> DEFINE p == <<Server(0), n>>
  <2>1. TableOf(p, n, RightSubnet)
    BY <1>7, <2>0 DEF RouteServer, get_server_interface
  <2>2. /\ p \in Interfaces /\ Planned(p) /\ p[1] = Server(0) /\ Server(0) \in Hosts
        /\ Subnet(p) = RightSubnet /\ Index(p) = n
    <3>1. n < ServerConnections
      BY <1>2, <2>0 DEF ServerConnections
    <3> QED
      BY <1>1, <2>0, <3>1, RightEnds, HostFacts
  <2>3. rules' \subseteq Rule /\ rules \subseteq rules' /\ AddsTo(Server(0), n + 1)
    <3> HIDE DEF p
    <3>1. rules' \subseteq Rule /\ rules \subseteq rules' /\ AddsTo(p[1], n + 1)
      BY <1>1, <2>0, <2>1, <2>2, TableTypes
    <3> QED
      BY <2>2, <3>1
  <2>4. routes' \subseteq Route /\ routes \subseteq routes'
    BY <2>3 DEF AddsTo
  <2>5. /\ Done["server_routes"] = n /\ Done'["server_routes"] = n + 1
        /\ Same({"clients_routes", "servers_routes", "client_routes"})
    <3>1. Done["server_routes"] = n /\ Done' = [Done EXCEPT !["server_routes"] = n + 1]
      BY <1>2, <1>3, <1>7, <2>0 DEF Moves
    <3>2. Done \in [Loops -> Nat]
      BY <1>1, DoneType
    <3> QED
      BY <3>1, <3>2 DEF Same, Loops
  <2>6. ASSUME IndicesAgree, dot PROVE TablesInv' /\ DefaultsInv' /\ NoRouteBefore'
    <3>1. TablesInv /\ DefaultsInv /\ NoRouteBefore
      BY <1>1, <2>6 DEF RoutesInv
    <3>2. TableThere(p, n, RightSubnet)' /\ \A r \in routes' : r \in routes \/ r.dev = p
      <4> HIDE DEF p
      <4>1. \A r \in routes : ~(r.host = p[1] /\ r.table = n + 1)
        BY <2>0, <2>2, <2>5, <3>1 DEF NoRouteBefore, TimelyAt
      <4>2. Turn(pc) > 9 /\ UNCHANGED inputs /\ n = Index(p)
        BY <1>4, <1>5, <2>2
      <4> QED
        BY <1>1, <2>0, <2>1, <2>2, <2>6, <4>1, <4>2, TableRight
    <3>3. TablesInv'
      <4>1. ASSUME NEW k \in 0..(Done'["server_routes"] - 1)
            PROVE  TableThere(<<Server(0), k>>, k, RightSubnet)'
        <5>1. k = n \/ k \in 0..(Done["server_routes"] - 1)
          BY <2>0, <2>5
        <5>2. CASE k = n
          BY <3>2, <5>2
        <5>3. CASE k \in 0..(Done["server_routes"] - 1)
          <6>1. TableThere(<<Server(0), k>>, k, RightSubnet)
            BY <3>1, <5>3 DEF TablesInv
          <6>2. <<Server(0), k>> \in Interfaces
            BY <1>1, <2>0, <2>2, <2>5, <5>3, MultiInterfaceAssumption DEF Interfaces, TypeOK
          <6> QED
            BY <1>4, <2>3, <2>4, <6>1, <6>2, ThereKept
        <5> QED
          BY <5>1, <5>2, <5>3
      <4>2. ASSUME NEW k \in 0..(Done'["client_routes"] - 1)
            PROVE  TableThere(<<Client(0), k>>, k, LeftSubnet)'
        <5>1. TableThere(<<Client(0), k>>, k, LeftSubnet)
          BY <2>5, <3>1 DEF TablesInv, Same
        <5>2. <<Client(0), k>> \in Interfaces
          <6>1. Done'["client_routes"] \in Nat /\ Done'["client_routes"] <= MaxLinks /\ MaxLinks \in Nat
            <7>1. "client_routes" \in Loops /\ Limit("client_routes") <= MaxLinks
              BY <1>1, Limits DEF Loops, TypeOK
            <7>2. Done["client_routes"] \in Nat /\ Done["client_routes"] <= Limit("client_routes")
              BY <1>1, <7>1, DoneType
            <7>3. Limit("client_routes") \in Nat
              BY <1>1, <7>1, DoneType
            <7> QED
              BY <2>5, <7>1, <7>2, <7>3, MultiInterfaceAssumption DEF Same
          <6> QED
            BY <6>1, HostFacts DEF Interfaces
        <5> QED
          BY <1>4, <2>3, <2>4, <5>1, <5>2, ThereKept
      <4> QED
        BY <4>1, <4>2 DEF TablesInv
    <3>4. DefaultsInv'
      <4>1. Same({"clients_routes", "servers_routes"})
        BY <2>5 DEF Same
      <4> QED
        BY <1>4, <1>5, <2>4, <3>1, <4>1, DefaultsKept
    <3>5. NoRouteBefore'
      <4>1. ASSUME NEW r \in routes', r \notin routes
            PROVE  TimelyAt(Turn(pc'), Done', r)
        <5>1. r.host = Server(0) /\ r.table = n + 1 /\ r.dev = <<Server(0), n>>
          BY <2>3, <3>2, <4>1 DEF AddsTo
        <5>2. Server(0) # Client(0) /\ \A j \in 1..MaxLinks : Server(0) # Client(j) /\ Server(0) # Server(j)
          BY MultiInterfaceAssumption DEF Client, Server
        <5>3. n + 1 > 0 /\ n + 1 # 0 /\ n + 1 - 1 = n /\ n + 1 <= Done'["server_routes"]
          BY <2>0, <2>5
        <5> QED
          BY <5>1, <5>2, <5>3 DEF TimelyAt
      <4> QED
        BY <1>1, <1>3, <1>4, <1>5, <3>1, <4>1, TimelyKept
    <3> QED
      BY <3>3, <3>4, <3>5
  <2>7. RoutesInv'
    BY <1>4, <2>6 DEF RoutesInv, IndicesAgree, inputs
  <2> QED
    BY <1>3, <1>4, <2>3, <2>4, <2>7, RouteStep
<1> QED
  BY <1>6, <1>7

LEMMA RouteDefaultClientStep ==
    ASSUME NetworkInv, RouteDefaultClient
    PROVE  NetworkInv'
<1>1. TypeOK /\ ControlInv /\ AddressInv /\ RoutesInv
  BY DEF NetworkInv
<1>2. /\ pc = "client_default" /\ Limit("client_default") = 0 /\ i \in Nat /\ nc \in Nat
      /\ rules \subseteq Rule /\ rules' = rules
  BY <1>1, Limits, MultiInterfaceAssumption DEF RouteDefaultClient, RouteLoop, Loop, TypeOK
<1>3. Moves("client_default", "server_default") /\ UNCHANGED <<netVars, addr, arp>>
  <2>1. RouteLoop("client_default", Limit("client_default"), "server_default")
    BY <1>2 DEF RouteDefaultClient
  <2>2. /\ "client_default" \in Loops /\ "server_default" \in Loops
        /\ Turn("client_default") < Turn("server_default")
    BY Turns DEF Loops
  <2>3. \A m \in Loops : ~(Turn("client_default") < Turn(m) /\ Turn(m) < Turn("server_default"))
    BY <1>1, LoopTypes, Turns
  <2> QED
    BY <1>1, <2>1, <2>2, <2>3, RouteMoves
<1>4. /\ "client_default" \in RoutingLoops /\ "server_default" \in RoutingLoops
      /\ "server_default" \notin MultiLoops /\ "client_default" \in Loops /\ UNCHANGED inputs
  BY <1>3 DEF RoutingLoops, RouteLoops, MultiLoops, Loops, netVars
<1>5. Done' = Done /\ pc' = "server_default"
  BY <1>2, <1>3 DEF Moves
<1>6. /\ ~(Turn(pc) > 12) /\ Turn(pc') > 12 /\ ~(Turn(pc) > 13) /\ ~(Turn(pc') > 13) /\ Turn(pc) > 9
  BY <1>2, <1>5, Turns
<1> DEFINE p == <<Client(0), 0>>
           via == IPAddress(LeftSubnet, 0, 2)
           devs == Connected(addr, Client(0), via) \cap {p}
<1>7. AddDefault(routes, Client(0), 0, via, devs) /\ Client(0) \in Hosts /\ p[1] = Client(0)
  BY HostFacts DEF RouteDefaultClient, AddGlobalDefault, get_client_interface
<1>8. AddsTo(Client(0), 0) /\ \A r \in routes' : r \in routes \/ r.net = Default
  <2>1. devs \in SUBSET Interfaces
    BY <1>1, GatewayTypes DEF TypeOK
  <2> HIDE DEF devs
  <2> QED
    BY <1>1, <1>7, <2>1, MainTypes
<1>9. routes' \subseteq Route /\ routes \subseteq routes'
  BY <1>8 DEF AddsTo
<1>10. ASSUME IndicesAgree, dot PROVE TablesInv' /\ DefaultsInv' /\ NoRouteBefore'
  <2>1. TablesInv /\ DefaultsInv /\ NoRouteBefore
    BY <1>1, <1>10 DEF RoutesInv
  <2>2. TablesInv'
    BY <1>2, <1>4, <1>5, <1>9, <2>1, TablesKept DEF Same
  <2>3. ASSUME nc > 0 PROVE DefaultThere(Client(0), LeftSubnet, 0)'
    <3>1. p \in Interfaces /\ Planned(p) /\ Subnet(p) = LeftSubnet /\ Index(p) = 0
      <4>1. \A k \in Nat : k < nc =>
                /\ <<Client(0), k>> \in Interfaces /\ Planned(<<Client(0), k>>)
                /\ Subnet(<<Client(0), k>>) = LeftSubnet /\ Index(<<Client(0), k>>) = k
        BY <1>1, LeftEnds
      <4>2. 0 \in Nat /\ 0 < nc
        BY <1>2, <2>3
      <4> QED
        BY <4>1, <4>2
    <3>2. \A r \in routes : ~(r.host = Client(0) /\ r.table = 0)
      BY <1>6, <2>1 DEF NoRouteBefore, TimelyAt
    <3>3. devs = {p}
      <4> HIDE DEF p
      <4>1. Connected(addr, p[1], IPAddress(Subnet(p), Index(p), 2)) = {p}
        BY <1>1, <1>6, <1>10, <3>1, ReachesRouter
      <4> QED
        BY <1>7, <3>1, <4>1
    <3>4. p = <<Client(0), 0>> /\ Turn(pc) > 9 /\ UNCHANGED inputs
      BY <1>4, <1>6
    <3> HIDE DEF p, devs
    <3>5. AddDefault(routes, Client(0), 0, IPAddress(LeftSubnet, 0, 2), {p})
      BY <1>7, <3>3
    <3> QED
      BY <1>1, <1>7, <1>10, <3>1, <3>2, <3>4, <3>5, MainRight
  <2>4. DefaultsInv'
    BY <1>4, <1>5, <1>6, <1>9, <2>1, <2>3, TurnPrimed
    DEF DefaultsInv, DefaultThere, RouteThere, RouterAddress, Address, inputs
  <2>5. NoRouteBefore'
    <3>1. ASSUME NEW r \in routes', r \notin routes
          PROVE  TimelyAt(Turn(pc'), Done', r)
      <4>1. r.host = Client(0) /\ r.table = 0 /\ r.net = Default
        BY <1>8, <3>1 DEF AddsTo
      <4>2. Client(0) # Server(0) /\ \A j \in 1..MaxLinks : Client(0) # Client(j) /\ Client(0) # Server(j)
        BY MultiInterfaceAssumption DEF Client, Server
      <4> QED
        BY <1>6, <4>1, <4>2 DEF TimelyAt
    <3> QED
      BY <1>1, <1>3, <1>4, <1>6, <2>1, <3>1, TimelyKept
  <2> QED
    BY <2>2, <2>4, <2>5
<1>11. RoutesInv'
  BY <1>4, <1>10 DEF RoutesInv, IndicesAgree, inputs
<1> QED
  BY <1>2, <1>3, <1>4, <1>9, <1>11, RouteStep

LEMMA RouteDefaultServerStep ==
    ASSUME NetworkInv, RouteDefaultServer
    PROVE  NetworkInv'
<1> DEFINE next == IF multi THEN "clients_routes" ELSE "done"
<1>1. TypeOK /\ ControlInv /\ AddressInv /\ RoutesInv
  BY DEF NetworkInv
<1>2. /\ pc = "server_default" /\ Limit("server_default") = 0 /\ i \in Nat /\ multi \in BOOLEAN
      /\ rules \subseteq Rule /\ rules' = rules
      /\ 0 < ServerConnections
  BY <1>1, Limits, MultiInterfaceAssumption
  DEF RouteDefaultServer, RouteLoop, Loop, TypeOK, ServerConnections
<1>3. Moves("server_default", next) /\ UNCHANGED <<netVars, addr, arp>>
  <2>1. RouteLoop("server_default", Limit("server_default"), next)
    BY <1>2 DEF RouteDefaultServer
  <2>2. /\ "server_default" \in Loops /\ next \in Loops \cup {"done"}
        /\ Turn("server_default") < Turn(next)
    BY Turns DEF Loops
  <2>3. \A m \in Loops : Turn("server_default") < Turn(m) /\ Turn(m) < Turn(next) => Limit(m) = 0
    BY <1>2, Turns, Limits DEF Loops
  <2> HIDE DEF next
  <2> QED
    BY <1>1, <2>1, <2>2, <2>3, RouteMoves
<1>4. /\ "server_default" \in RoutingLoops /\ next \in RoutingLoops \cup {"done"}
      /\ (~multi => next \notin MultiLoops) /\ "server_default" \in Loops /\ UNCHANGED inputs
  BY <1>3 DEF RoutingLoops, RouteLoops, MultiLoops, Loops, netVars
<1>5. Done' = Done /\ pc' = next
  BY <1>2, <1>3 DEF Moves
<1>6. /\ Turn(pc) > 12 /\ Turn(pc') > 12 /\ ~(Turn(pc) > 13) /\ Turn(pc') > 13 /\ Turn(pc) > 9
  BY <1>2, <1>5, Turns
<1> HIDE DEF next
<1> DEFINE p == <<Server(0), 0>>
           via == IPAddress(RightSubnet, 0, 2)
           devs == Gateways(routes, Server(0), 0, via)
<1>7. AddDefault(routes, Server(0), 0, via, devs) /\ Server(0) \in Hosts /\ p[1] = Server(0)
  BY HostFacts DEF RouteDefaultServer, AddSimpleDefault
<1>8. AddsTo(Server(0), 0) /\ \A r \in routes' : r \in routes \/ r.net = Default
  <2>1. devs \in SUBSET Interfaces
    BY <1>1, GatewayTypes DEF TypeOK
  <2> HIDE DEF devs
  <2> QED
    BY <1>1, <1>7, <2>1, MainTypes
<1>9. routes' \subseteq Route /\ routes \subseteq routes'
  BY <1>8 DEF AddsTo
<1>10. ASSUME IndicesAgree, dot PROVE TablesInv' /\ DefaultsInv' /\ NoRouteBefore'
  <2>1. TablesInv /\ DefaultsInv /\ NoRouteBefore
    BY <1>1, <1>10 DEF RoutesInv
  <2>2. TablesInv'
    BY <1>2, <1>4, <1>5, <1>9, <2>1, TablesKept DEF Same
  <2>3. DefaultThere(Server(0), RightSubnet, 0)'
    <3>1. p \in Interfaces /\ Planned(p) /\ Subnet(p) = RightSubnet /\ Index(p) = 0
      <4>1. \A k \in Nat : k < ServerConnections =>
                /\ <<Server(0), k>> \in Interfaces /\ Planned(<<Server(0), k>>)
                /\ Subnet(<<Server(0), k>>) = RightSubnet /\ Index(<<Server(0), k>>) = k
        BY <1>1, RightEnds
      <4> QED
        BY <1>2, <4>1
    <3>2. \A r \in routes : ~(r.host = Server(0) /\ r.table = 0)
      BY <1>6, <2>1 DEF NoRouteBefore, TimelyAt
    <3>3. devs = {p}
      <4>1. devs = Connected(addr, Server(0), via)
        BY <3>2 DEF Gateways
      <4> HIDE DEF p
      <4>2. Connected(addr, p[1], IPAddress(Subnet(p), Index(p), 2)) = {p}
        BY <1>1, <1>6, <1>10, <3>1, ReachesRouter
      <4> QED
        BY <1>7, <3>1, <4>1, <4>2
    <3>4. p = <<Server(0), 0>> /\ Turn(pc) > 9 /\ UNCHANGED inputs
      BY <1>4, <1>6
    <3> HIDE DEF p, devs
    <3>5. AddDefault(routes, Server(0), 0, IPAddress(RightSubnet, 0, 2), {p})
      BY <1>7, <3>3
    <3> QED
      BY <1>1, <1>7, <1>10, <3>1, <3>2, <3>4, <3>5, MainRight
  <2>4. DefaultsInv'
    BY <1>4, <1>5, <1>6, <1>9, <2>1, <2>3, TurnPrimed
    DEF DefaultsInv, DefaultThere, RouteThere, RouterAddress, Address, inputs
  <2>5. NoRouteBefore'
    <3>1. ASSUME NEW r \in routes', r \notin routes
          PROVE  TimelyAt(Turn(pc'), Done', r)
      <4>1. r.host = Server(0) /\ r.table = 0 /\ r.net = Default
        BY <1>8, <3>1 DEF AddsTo
      <4>2. Server(0) # Client(0) /\ \A j \in 1..MaxLinks : Server(0) # Client(j) /\ Server(0) # Server(j)
        BY MultiInterfaceAssumption DEF Client, Server
      <4> QED
        BY <1>6, <4>1, <4>2 DEF TimelyAt
    <3> QED
      BY <1>1, <1>3, <1>4, <1>6, <2>1, <3>1, TimelyKept
  <2> QED
    BY <2>2, <2>4, <2>5
<1>11. RoutesInv'
  BY <1>4, <1>10 DEF RoutesInv, IndicesAgree, inputs
<1> QED
  BY <1>2, <1>3, <1>4, <1>9, <1>11, RouteStep

LEMMA RouteClientsStep ==
    ASSUME NetworkInv, RouteClients
    PROVE  NetworkInv'
<1>1. TypeOK /\ ControlInv /\ AddressInv /\ RoutesInv
  BY DEF NetworkInv
<1>2. /\ pc = "clients_routes" /\ multi /\ Limit("clients_routes") = nc
      /\ i \in Nat /\ nc \in Nat /\ nc <= MaxLinks /\ MaxLinks \in Nat
      /\ rules \subseteq Rule /\ routes \subseteq Route /\ rules' = rules
  <2>1. pc = "clients_routes" /\ rules' = rules
    BY DEF RouteClients, RouteLoop, Loop
  <2>2. multi
    BY <1>1, <2>1 DEF ControlInv
  <2> QED
    BY <1>1, <2>1, <2>2, Limits, MultiInterfaceAssumption DEF TypeOK
<1>3. Moves("clients_routes", "servers_routes") /\ UNCHANGED <<netVars, addr, arp>>
  <2>1. RouteLoop("clients_routes", Limit("clients_routes"), "servers_routes")
    BY <1>2 DEF RouteClients
  <2>2. /\ "clients_routes" \in Loops /\ "servers_routes" \in Loops
        /\ Turn("clients_routes") < Turn("servers_routes")
    BY Turns DEF Loops
  <2>3. \A m \in Loops : ~(Turn("clients_routes") < Turn(m) /\ Turn(m) < Turn("servers_routes"))
    BY <1>1, LoopTypes, Turns
  <2> QED
    BY <1>1, <2>1, <2>2, <2>3, RouteMoves
<1>4. /\ "clients_routes" \in RoutingLoops /\ "servers_routes" \in RoutingLoops
      /\ "clients_routes" \in Loops /\ UNCHANGED inputs
  BY <1>3 DEF RoutingLoops, RouteLoops, Loops, netVars
<1>5. Turn(pc) > 12 /\ Turn(pc') > 12 /\ Turn(pc) > 13 /\ Turn(pc') > 13 /\ Turn(pc) > 9
  BY <1>2, <1>3, Turns DEF Moves
<1>6. CASE ~(i < nc)
  <2>1. UNCHANGED <<rules, routes>>
    BY <1>6 DEF RouteClients
  <2>2. Same(RouteLoops)
    BY <1>2, <1>3, <1>6 DEF Moves, Same
  <2>3. RoutesInv'
    BY <1>1, <1>4, <1>5, <2>1, <2>2, RoutesKept
  <2> QED
    BY <1>2, <1>3, <1>4, <2>1, <2>3, RouteStep
<1>7. CASE i < nc
  <2>0. PICK n \in Nat : n = i /\ n < nc
    BY <1>2, <1>7
  <2>1. PICK j \in 1..MaxLinks : j = n + 1
    BY <1>2, <2>0
  <2> DEFINE p == <<Client(j), 0>>
             via == IPAddress(LeftSubnet, n, 2)
             devs == Connected(addr, Client(j), via) \cap {p}
  <2>2. AddDefault(routes, Client(j), 0, via, devs) /\ Client(j) \in Hosts /\ p[1] = Client(j)
    <3>1. j \in 0..MaxLinks
      BY <1>2
    <3> QED
      BY <1>7, <2>0, <2>1, <3>1, HostFacts DEF RouteClients, AddGlobalDefault, get_client_interface
  <2>3. /\ p \in Interfaces /\ Planned(p)
        /\ Subnet(p) = LeftSubnet /\ Index(p) = n
    BY <1>1, <1>2, <2>0, <2>1, LeftEnds
  <2>4. AddsTo(Client(j), 0) /\ \A r \in routes' : r \in routes \/ r.net = Default
    <3>1. devs \in SUBSET Interfaces
      BY <1>2, GatewayTypes
    <3> HIDE DEF devs
    <3> QED
      BY <1>1, <2>0, <2>2, <3>1, MainTypes
  <2>5. routes' \subseteq Route /\ routes \subseteq routes' /\ rules \subseteq rules'
    BY <1>2, <2>4 DEF AddsTo
  <2>6. /\ Done["clients_routes"] = n /\ Done'["clients_routes"] = n + 1
        /\ Same({"client_routes", "server_routes", "servers_routes"})
    <3>1. Done["clients_routes"] = n /\ Done' = [Done EXCEPT !["clients_routes"] = n + 1]
      BY <1>2, <1>3, <1>7, <2>0 DEF Moves
    <3>2. Done \in [Loops -> Nat]
      BY <1>1, DoneType
    <3> QED
      BY <3>1, <3>2 DEF Same, Loops
  <2>7. ASSUME IndicesAgree, dot PROVE TablesInv' /\ DefaultsInv' /\ NoRouteBefore'
    <3>1. TablesInv /\ DefaultsInv /\ NoRouteBefore
      BY <1>1, <2>7 DEF RoutesInv
    <3>2. TablesInv'
      <4>1. Same({"client_routes", "server_routes"})
        BY <2>6 DEF Same
      <4> QED
        BY <1>2, <1>4, <2>5, <3>1, <4>1, TablesKept
    <3>3. DefaultThere(Client(j), LeftSubnet, n)'
      <4>1. \A r \in routes : ~(r.host = Client(j) /\ r.table = 0)
        <5>1. ~(j <= Done["clients_routes"])
          BY <2>0, <2>1, <2>6
        <5> QED
          BY <3>1, <5>1 DEF NoRouteBefore, TimelyAt
      <4>2. devs = {p}
        <5> HIDE DEF p
        <5>1. Connected(addr, p[1], IPAddress(Subnet(p), Index(p), 2)) = {p}
          BY <1>1, <1>5, <2>3, <2>7, ReachesRouter
        <5> QED
          BY <2>2, <2>3, <5>1
      <4>3. p = <<Client(j), 0>> /\ Turn(pc) > 9 /\ UNCHANGED inputs
        BY <1>4, <1>5
      <4> HIDE DEF p, devs
      <4>4. AddDefault(routes, Client(j), 0, IPAddress(LeftSubnet, n, 2), {p})
        BY <2>2, <4>2
      <4> QED
        BY <1>1, <2>2, <2>3, <2>7, <4>1, <4>3, <4>4, MainRight
    <3>4. DefaultsInv'
      <4>1. ASSUME NEW k \in 0..(Done'["clients_routes"] - 1)
            PROVE  DefaultThere(Client(k + 1), LeftSubnet, k)'
        <5>1. k = n \/ k \in 0..(Done["clients_routes"] - 1)
          BY <2>0, <2>6
        <5>2. CASE k = n
          BY <2>1, <3>3, <5>2
        <5>3. CASE k \in 0..(Done["clients_routes"] - 1)
          <6>1. DefaultThere(Client(k + 1), LeftSubnet, k)
            BY <3>1, <5>3 DEF DefaultsInv
          <6>2. k + 1 \in 0..MaxLinks
            BY <1>2, <2>0, <2>6, <5>3
          <6>3. Client(k + 1) \in Hosts
            BY <6>2, HostFacts
          <6> QED
            BY <1>4, <2>5, <6>1, <6>3, ThereKept
        <5> QED
          BY <5>1, <5>2, <5>3
      <4>2. ASSUME NEW k \in 1..(Done'["servers_routes"] - 1)
            PROVE  DefaultThere(Server(k), RightSubnet, k)'
        BY <1>4, <2>5, <2>6, <3>1
        DEF DefaultsInv, DefaultThere, RouteThere, RouterAddress, Address, inputs, Same
      <4>3. /\ nc' > 0 => DefaultThere(Client(0), LeftSubnet, 0)'
            /\ DefaultThere(Server(0), RightSubnet, 0)'
        BY <1>4, <1>5, <2>5, <3>1 DEF DefaultsInv, DefaultThere, RouteThere, RouterAddress, Address, inputs
      <4> QED
        BY <4>1, <4>2, <4>3 DEF DefaultsInv
    <3>5. NoRouteBefore'
      <4>1. ASSUME NEW r \in routes', r \notin routes
            PROVE  TimelyAt(Turn(pc'), Done', r)
        <5>1. r.host = Client(j) /\ r.table = 0 /\ r.net = Default
          BY <2>4, <4>1 DEF AddsTo
        <5>2. /\ Client(j) # Client(0) /\ Client(j) # Server(0)
              /\ \A k \in 1..MaxLinks : Client(j) # Server(k) /\ (Client(j) = Client(k) => k = j)
          BY DEF Client, Server
        <5>3. j <= Done'["clients_routes"]
          BY <2>0, <2>1, <2>6
        <5> QED
          BY <5>1, <5>2, <5>3 DEF TimelyAt
      <4> QED
        BY <1>1, <1>3, <1>4, <1>5, <3>1, <4>1, TimelyKept
    <3> QED
      BY <3>2, <3>4, <3>5
  <2>8. RoutesInv'
    BY <1>4, <2>7 DEF RoutesInv, IndicesAgree, inputs
  <2> QED
    BY <1>2, <1>3, <1>4, <2>5, <2>8, RouteStep
<1> QED
  BY <1>6, <1>7

LEMMA RouteServersStep ==
    ASSUME NetworkInv, RouteServers
    PROVE  NetworkInv'
<1>1. TypeOK /\ ControlInv /\ PortsInv /\ AddressInv /\ RoutesInv
  BY DEF NetworkInv
<1>2. /\ pc = "servers_routes" /\ multi /\ Limit("servers_routes") = nc + 1 /\ servers = nc + 1
      /\ i \in Nat /\ nc \in Nat /\ nc <= MaxLinks /\ MaxLinks \in Nat
      /\ rules \subseteq Rule /\ routes \subseteq Route /\ rules' = rules
  <2>1. pc = "servers_routes" /\ rules' = rules
    BY DEF RouteServers, RouteLoop, Loop
  <2>2. multi
    BY <1>1, <2>1 DEF ControlInv
  <2>3. servers = nc + 1
    BY <1>1, <2>1, <2>2, Turns, Built
  <2> QED
    BY <1>1, <2>1, <2>2, <2>3, Limits, MultiInterfaceAssumption DEF TypeOK
<1>3. Moves("servers_routes", "done") /\ UNCHANGED <<netVars, addr, arp>>
  <2>1. RouteLoop("servers_routes", Limit("servers_routes"), "done")
    BY <1>2 DEF RouteServers
  <2>2. "servers_routes" \in Loops /\ Turn("servers_routes") < Turn("done")
    BY Turns DEF Loops
  <2>3. \A m \in Loops : ~(Turn("servers_routes") < Turn(m) /\ Turn(m) < Turn("done"))
    BY <1>1, LoopTypes, Turns
  <2> QED
    BY <1>1, <2>1, <2>2, <2>3, RouteMoves
<1>4. "servers_routes" \in RoutingLoops /\ "servers_routes" \in Loops /\ UNCHANGED inputs
  BY <1>3 DEF RoutingLoops, RouteLoops, Loops, netVars
<1>5. Turn(pc) > 12 /\ Turn(pc') > 12 /\ Turn(pc) > 13 /\ Turn(pc') > 13 /\ Turn(pc) > 9
  BY <1>2, <1>3, Turns DEF Moves
<1>6. CASE ~(i < nc + 1)
  <2>1. UNCHANGED <<rules, routes>>
    BY <1>2, <1>6 DEF RouteServers
  <2>2. Same(RouteLoops)
    BY <1>2, <1>3, <1>6 DEF Moves, Same
  <2>3. RoutesInv'
    BY <1>1, <1>4, <1>5, <2>1, <2>2, RoutesKept
  <2> QED
    BY <1>2, <1>3, <1>4, <2>1, <2>3, RouteStep
<1>7. CASE i < nc + 1
  <2>0. PICK n \in 0..MaxLinks : n = i /\ n \in Nat /\ n <= nc
    BY <1>2, <1>7
  <2> DEFINE p == <<Server(n), 0>>
             via == IPAddress(RightSubnet, n, 2)
             devs == Gateways(routes, Server(n), 0, via)
  <2>2. AddDefault(routes, Server(n), 0, via, devs) /\ Server(n) \in Hosts /\ p[1] = Server(n)
    BY <1>2, <1>7, <2>0, HostFacts DEF RouteServers, AddSimpleDefault
  <2>3. /\ p \in Interfaces /\ Planned(p)
        /\ Subnet(p) = RightSubnet /\ Index(p) = n
    BY <1>1, <1>2, <2>0, RightEnds
  <2>4. AddsTo(Server(n), 0) /\ \A r \in routes' : r \in routes \/ r.net = Default
    <3>1. devs \in SUBSET Interfaces
      BY <1>2, GatewayTypes
    <3> HIDE DEF devs
    <3> QED
      BY <1>1, <2>0, <2>2, <3>1, MainTypes
  <2>5. routes' \subseteq Route /\ routes \subseteq routes' /\ rules \subseteq rules'
    BY <1>2, <2>4 DEF AddsTo
  <2>6. /\ Done["servers_routes"] = n /\ Done'["servers_routes"] = n + 1
        /\ Same({"client_routes", "server_routes", "clients_routes"})
    <3>1. Done["servers_routes"] = n /\ Done' = [Done EXCEPT !["servers_routes"] = n + 1]
      BY <1>2, <1>3, <1>7, <2>0 DEF Moves
    <3>2. Done \in [Loops -> Nat]
      BY <1>1, DoneType
    <3> QED
      BY <3>1, <3>2 DEF Same, Loops
  <2>7. ASSUME IndicesAgree, dot PROVE TablesInv' /\ DefaultsInv' /\ NoRouteBefore'
    <3>1. TablesInv /\ DefaultsInv /\ NoRouteBefore
      BY <1>1, <2>7 DEF RoutesInv
    <3>2. TablesInv'
      <4>1. Same({"client_routes", "server_routes"})
        BY <2>6 DEF Same
      <4> QED
        BY <1>2, <1>4, <2>5, <3>1, <4>1, TablesKept
    <3>3. ASSUME n # 0 PROVE DefaultThere(Server(n), RightSubnet, n)'
      <4>1. \A r \in routes : ~(r.host = Server(n) /\ r.table = 0)
        <5>1. n \in 1..MaxLinks /\ ~(n < Done["servers_routes"])
          BY <2>0, <2>6, <3>3
        <5> QED
          BY <3>1, <5>1 DEF NoRouteBefore, TimelyAt
      <4>2. devs = {p}
        <5>1. devs = Connected(addr, Server(n), via)
          BY <4>1 DEF Gateways
        <5> HIDE DEF p
        <5>2. Connected(addr, p[1], IPAddress(Subnet(p), Index(p), 2)) = {p}
          BY <1>1, <1>5, <2>3, <2>7, ReachesRouter
        <5> QED
          BY <2>2, <2>3, <5>1, <5>2
      <4>3. p = <<Server(n), 0>> /\ Turn(pc) > 9 /\ UNCHANGED inputs
        BY <1>4, <1>5
      <4> HIDE DEF p, devs
      <4>4. AddDefault(routes, Server(n), 0, IPAddress(RightSubnet, n, 2), {p})
        BY <2>2, <4>2
      <4> QED
        BY <1>1, <2>2, <2>3, <2>7, <4>1, <4>3, <4>4, MainRight
    <3>4. DefaultsInv'
      <4>1. ASSUME NEW k \in 1..(Done'["servers_routes"] - 1)
            PROVE  DefaultThere(Server(k), RightSubnet, k)'
        <5>1. (k = n /\ n # 0) \/ k \in 1..(Done["servers_routes"] - 1)
          BY <2>0, <2>6
        <5>2. CASE k = n /\ n # 0
          BY <3>3, <5>2
        <5>3. CASE k \in 1..(Done["servers_routes"] - 1)
          <6>1. DefaultThere(Server(k), RightSubnet, k)
            BY <3>1, <5>3 DEF DefaultsInv
          <6>2. k \in 0..MaxLinks
            BY <1>2, <2>0, <2>6, <5>3
          <6>3. Server(k) \in Hosts
            BY <6>2, HostFacts
          <6> QED
            BY <1>4, <2>5, <6>1, <6>3, ThereKept
        <5> QED
          BY <5>1, <5>2, <5>3
      <4>2. ASSUME NEW k \in 0..(Done'["clients_routes"] - 1)
            PROVE  DefaultThere(Client(k + 1), LeftSubnet, k)'
        BY <1>4, <2>5, <2>6, <3>1
        DEF DefaultsInv, DefaultThere, RouteThere, RouterAddress, Address, inputs, Same
      <4>3. /\ nc' > 0 => DefaultThere(Client(0), LeftSubnet, 0)'
            /\ DefaultThere(Server(0), RightSubnet, 0)'
        BY <1>4, <1>5, <2>5, <3>1 DEF DefaultsInv, DefaultThere, RouteThere, RouterAddress, Address, inputs
      <4> QED
        BY <4>1, <4>2, <4>3 DEF DefaultsInv
    <3>5. NoRouteBefore'
      <4>1. ASSUME NEW r \in routes', r \notin routes
            PROVE  TimelyAt(Turn(pc'), Done', r)
        <5>1. r.host = Server(n) /\ r.table = 0 /\ r.net = Default
          BY <2>4, <4>1 DEF AddsTo
        <5>2. /\ Server(n) # Client(0)
              /\ \A k \in 1..MaxLinks : Server(n) # Client(k) /\ (Server(n) = Server(k) => k = n)
          BY DEF Client, Server
        <5>3. n < Done'["servers_routes"]
          BY <2>0, <2>6
        <5> QED
          BY <1>5, <5>1, <5>2, <5>3 DEF TimelyAt
      <4> QED
        BY <1>1, <1>3, <1>4, <1>5, <3>1, <4>1, TimelyKept
    <3> QED
      BY <3>2, <3>4, <3>5
  <2>8. RoutesInv'
    BY <1>4, <2>7 DEF RoutesInv, IndicesAgree, inputs
  <2>9. "done" \notin MultiLoops
    BY DEF MultiLoops
  <2> QED
    BY <1>2, <1>3, <1>4, <2>5, <2>8, <2>9, RouteStep
<1> QED
  BY <1>6, <1>7

-----------------------------------------------------------------------------
(* The constructors again: no address is given before they are done        *)

BuildLoops == {"c2r", "r2s", "clients", "servers"}

LEMMA NoneGiven ==
    ASSUME NEW d, \A m \in AddressLoops : d[m] = 0, nc \in Nat, NEW p \in Interfaces
    PROVE  ~GivenAfter(d, p)
<1>1. /\ d["client_addresses"] = 0 /\ d["router_addresses"] = 0 /\ d["server_addresses"] = 0
      /\ d["clients_addresses"] = 0 /\ d["servers_addresses"] = 0
  BY DEF AddressLoops
<1>2. PICK k \in 0..(3 * MaxLinks) :
                \/ p = <<Router, k>> \/ p = <<Client(0), k>> \/ p = <<Server(0), k>>
                \/ \E j \in 1..MaxLinks : p = <<Client(j), k>> \/ p = <<Server(j), k>>
  BY InterfaceCases
<1>3. k \in Nat /\ MaxLinks \in Nat
  BY <1>2, MultiInterfaceAssumption
<1> DEFINE g(q) == GivenAfter(d, q)
<1>a. /\ g(<<Router, k>>) <=>
                IF k < nc THEN k < d["router_addresses"]
                ELSE \/ k - nc < d["server_addresses"]
                     \/ k - nc < d["servers_addresses"]
      /\ g(<<Client(0), k>>) <=> k < d["client_addresses"]
      /\ g(<<Server(0), k>>) <=> k < d["server_addresses"]
      /\ \A j \in 1..MaxLinks :
                /\ g(<<Client(j), k>>) <=> k = 0 /\ j - 1 < d["clients_addresses"]
                /\ g(<<Server(j), k>>) <=> k = 0 /\ j < d["servers_addresses"]
  BY <1>3, GivenCases
<1> HIDE DEF g
<1>b. ~(k < 0)
  BY <1>3
<1>c. ~(k < nc) => ~(k - nc < 0)
  BY <1>3
<1>4. ~g(<<Router, k>>)
  BY <1>1, <1>a, <1>b, <1>c
<1>5. ~g(<<Client(0), k>>) /\ ~g(<<Server(0), k>>)
  BY <1>1, <1>a, <1>b
<1>6. ASSUME NEW j \in 1..MaxLinks PROVE ~g(<<Client(j), k>>) /\ ~g(<<Server(j), k>>)
  <2>1. ~(j - 1 < 0) /\ ~(j < 0)
    BY <1>3
  <2> QED
    BY <1>1, <1>a, <2>1
<1>7. ~g(p)
  BY <1>2, <1>4, <1>5, <1>6
<1> QED
  BY <1>7 DEF g

LEMMA BuildStep ==
    ASSUME NetworkInv, NEW loop \in BuildLoops, NEW next \in BuildLoops \cup {"client_addresses"},
           Moves(loop, next), UNCHANGED <<inputs, addr, arp, rules, routes>>,
           ~multi => next \notin MultiLoops,
           servers' = Done'["clients"] + 1, PortsInv', ports' \in [Hosts -> Seq(Segments)]
    PROVE  NetworkInv'
<1>1. /\ TypeOK /\ ControlInv /\ AddressInv /\ ArpInv /\ RoutesInv
      /\ loop \in Loops /\ next \in Loops \cup {"done"}
  BY DEF NetworkInv, BuildLoops, Loops
<1>2. /\ nc' = nc /\ ns' = ns /\ nc \in Nat /\ ns \in Nat /\ MaxLinks \in Nat /\ nc <= MaxLinks
      /\ multi \in BOOLEAN /\ ServerConnections = IF ns = 0 THEN 1 ELSE ns
  BY <1>1, MultiInterfaceAssumption DEF TypeOK, inputs, ServerConnections
<1>3. Same(Loops \ {loop})
  BY <1>1, OthersSame
<1>4. ControlInv'
  BY <1>1, ControlStep
<1>5. pc = loop /\ (pc' = loop \/ pc' = next)
  BY DEF Moves
<1>6. \A m \in Loops : Done[m] \in Nat /\ Done'[m] \in Nat /\ Done'[m] <= Limit(m)
  BY <1>1, DoneGrows
<1>7. TypeOK'
  <2>1. i' \in 0..(MaxLinks + 1)
    <3>1. Limit(loop) \in 0..(MaxLinks + 1)
      BY <1>1, LoopTypes
    <3> QED
      BY <1>2, <3>1 DEF Moves
  <2>2. /\ Done'["clients"] \in Nat /\ Done'["clients"] <= nc
        /\ Done'["c2r"] \in Nat /\ Done'["c2r"] <= nc
        /\ Done'["r2s"] \in Nat /\ Done'["r2s"] <= ns
        /\ Done'["servers"] \in Nat /\ Done'["servers"] <= IF multi THEN nc ELSE 0
    <3>1. "clients" \in Loops /\ "c2r" \in Loops /\ "r2s" \in Loops /\ "servers" \in Loops
      BY DEF Loops
    <3>2. /\ Done'["clients"] \in Nat /\ Done'["clients"] <= Limit("clients")
          /\ Done'["c2r"] \in Nat /\ Done'["c2r"] <= Limit("c2r")
          /\ Done'["r2s"] \in Nat /\ Done'["r2s"] <= Limit("r2s")
          /\ Done'["servers"] \in Nat /\ Done'["servers"] <= Limit("servers")
      BY <1>6, <3>1
    <3>3. /\ Limit("clients") = (IF multi THEN nc ELSE 0) /\ Limit("c2r") = nc /\ Limit("r2s") = ns
          /\ Limit("servers") = IF multi THEN nc ELSE 0
      BY Limits
    <3>4. Limit("clients") <= nc
      BY <1>2, <3>3
    <3>5. Done'["clients"] <= nc
      BY <1>2, <3>2, <3>3, <3>4
    <3> QED
      BY <3>2, <3>3, <3>5
  <2>3. servers' \in 1..(MaxLinks + 1)
    BY <1>2, <2>2
  <2>4. Done'["servers"] <= Done'["clients"]
    <3>1. CASE loop = "servers"
      <4>1. Done["clients"] = IF multi THEN nc ELSE 0
        BY <1>5, <3>1, Turns, Limits, DoneValues DEF Loops
      <4>2. Done'["clients"] = Done["clients"]
        BY <1>3, <3>1 DEF Same, Loops
      <4> QED
        BY <2>2, <4>1, <4>2
    <3>2. CASE loop # "servers"
      <4>1. Done["servers"] = 0
        BY <1>5, <3>2, Turns, DoneValues DEF Loops, BuildLoops
      <4>2. Done'["servers"] = Done["servers"]
        BY <1>3, <3>2 DEF Same, Loops
      <4> QED
        BY <2>2, <4>1, <4>2
    <3> QED
      BY <3>1, <3>2
  <2>5. Connections' \in Nat /\ Connections' <= ServerConnections
    BY <1>2, <2>2 DEF Connections
  <2>6. Len(ports'[Router]) = Done'["c2r"] + Connections' + Done'["servers"]
    BY DEF PortsInv, RouterPorts
  <2>7. Len(ports'[Router]) <= nc + ServerConnections + servers' - 1
    <3> DEFINE c == Done'["c2r"]
               s == Done'["servers"]
               n == Done'["clients"]
               x == Connections'
    <3>1. /\ c \in Nat /\ s \in Nat /\ n \in Nat /\ x \in Nat /\ c <= nc /\ s <= n
          /\ x <= ServerConnections /\ Len(ports'[Router]) = c + x + s /\ servers' = n + 1
      BY <2>2, <2>4, <2>5, <2>6
    <3>2. ServerConnections \in Nat
      BY <1>2
    <3> HIDE DEF c, s, n, x
    <3> QED
      BY <1>2, <3>1, <3>2
  <2> QED
    BY <1>1, <1>2, <2>1, <2>3, <2>7 DEF TypeOK, inputs
<1>8. AddressInv'
  <2>1. Same(AddressLoops)
    BY <1>3 DEF Same, BuildLoops, AddressLoops, Loops
  <2> QED
    BY <1>1, <2>1, AddressKept
<1>9. RoutesInv'
  <2>1. Same(RouteLoops)
    BY <1>3 DEF Same, BuildLoops, RouteLoops, Loops
  <2>2. \A m \in BuildLoops \cup {"client_addresses"} : ~(Turn(m) > 12) /\ ~(Turn(m) > 13)
    BY Turns DEF BuildLoops
  <2>3. (Turn(pc') > 12 <=> Turn(pc) > 12) /\ (Turn(pc') > 13 <=> Turn(pc) > 13)
    BY <1>5, <2>2
  <2> QED
    BY <1>1, <2>1, <2>3, RoutesKept
<1>10. ArpInv'
  <2>1. \A m \in AddressLoops : Done[m] = 0
    BY <1>5, Turns, DoneValues DEF AddressLoops, BuildLoops, Loops
  <2>2. \A m \in AddressLoops : Done'[m] = 0
    BY <1>3, <2>1 DEF Same, BuildLoops, AddressLoops, Loops
  <2>3. \A p \in Interfaces : ~Given(p)
    BY <1>2, <2>1, NoneGiven DEF Given
  <2>4. \A p \in Interfaces : ~Given(p)'
    BY <1>2, <2>2, NoneGiven, GivenPrimed
  <2>5. IndicesAgree' => IndicesAgree
    BY DEF IndicesAgree, inputs
  <2>6. IndicesAgree => arp = {}
    <3>1. \A e \in arp : e.of \in Interfaces
      BY <1>1 DEF TypeOK, ArpEntry
    <3> QED
      BY <1>1, <2>3, <3>1 DEF ArpInv, ArpSound
  <2>7. ASSUME IndicesAgree PROVE ArpSound'
    BY <2>6, <2>7 DEF ArpSound
  <2>8. ArpComplete'
    <3>1. /\ Done'["router_addresses"] = 0 /\ Done'["clients_addresses"] = 0
          /\ Done'["server_addresses"] = 0 /\ Done'["servers_addresses"] = 0
      BY <2>2 DEF AddressLoops
    <3>2. 0..(0 - 1) = {}
      OBVIOUS
    <3> QED
      BY <2>4, <3>1, <3>2 DEF ArpComplete
  <2> QED
    BY <2>5, <2>7, <2>8 DEF ArpInv
<1> QED
  BY <1>4, <1>7, <1>8, <1>9, <1>10 DEF NetworkInv

LEMMA ConstructorStep ==
    ASSUME NetworkInv, AddC2RLinks \/ AddR2SLinks \/ AddClients \/ ConnectServers
    PROVE  NetworkInv'
<1>1. TypeOK /\ ControlInv /\ PortsInv /\ servers = Done["clients"] + 1
  BY DEF NetworkInv, ControlInv
<1>2. ASSUME NEW loop \in BuildLoops \ {"clients"}, NEW next, Moves(loop, next)
      PROVE  Done'["clients"] = Done["clients"]
  <2>1. loop \in Loops
    BY DEF BuildLoops, Loops
  <2> QED
    BY <1>1, <1>2, <2>1, OthersSame DEF Same, Loops
<1>3. CASE AddC2RLinks
  <2>1. Moves("c2r", "r2s") /\ PortsInv' /\ ports' \in [Hosts -> Seq(Segments)]
    BY <1>1, <1>3, C2RMoves, C2RPorts
  <2>2. UNCHANGED <<inputs, addr, arp, rules, routes>> /\ servers' = servers
    BY <1>3 DEF AddC2RLinks
  <2>3. "c2r" \in BuildLoops \ {"clients"} /\ "r2s" \in BuildLoops /\ "r2s" \notin MultiLoops
    BY DEF BuildLoops, MultiLoops
  <2> QED
    BY <1>1, <1>2, <2>1, <2>2, <2>3, BuildStep
<1>4. CASE AddR2SLinks
  <2> DEFINE next == IF multi THEN "clients" ELSE "client_addresses"
  <2>1. Moves("r2s", next) /\ PortsInv' /\ ports' \in [Hosts -> Seq(Segments)]
    BY <1>1, <1>4, R2SMoves, R2SPorts
  <2>2. UNCHANGED <<inputs, addr, arp, rules, routes>> /\ servers' = servers
    BY <1>4 DEF AddR2SLinks
  <2>3. /\ "r2s" \in BuildLoops \ {"clients"} /\ next \in BuildLoops \cup {"client_addresses"}
        /\ ~multi => next \notin MultiLoops
    BY DEF BuildLoops, MultiLoops
  <2> HIDE DEF next
  <2> QED
    BY <1>1, <1>2, <2>1, <2>2, <2>3, BuildStep
<1>5. CASE AddClients
  <2>1. /\ Moves("clients", "servers") /\ multi /\ PortsInv' /\ ports' \in [Hosts -> Seq(Segments)]
        /\ servers' = Done'["clients"] + 1
    BY <1>1, <1>5, ClientsMoves, ClientsPorts
  <2>2. UNCHANGED <<inputs, addr, arp, rules, routes>>
    BY <1>5 DEF AddClients
  <2>3. "clients" \in BuildLoops /\ "servers" \in BuildLoops
    BY DEF BuildLoops
  <2> QED
    BY <2>1, <2>2, <2>3, BuildStep
<1>6. CASE ConnectServers
  <2>1. /\ Moves("servers", "client_addresses") /\ PortsInv' /\ ports' \in [Hosts -> Seq(Segments)]
    BY <1>1, <1>6, ServersMoves, ServersPorts
  <2>2. UNCHANGED <<inputs, addr, arp, rules, routes>> /\ servers' = servers
    BY <1>6 DEF ConnectServers
  <2>3. "servers" \in BuildLoops \ {"clients"} /\ "client_addresses" \notin MultiLoops
    BY DEF BuildLoops, MultiLoops
  <2> QED
    BY <1>1, <1>2, <2>1, <2>2, <2>3, BuildStep
<1> QED
  BY <1>3, <1>4, <1>5, <1>6

-----------------------------------------------------------------------------
(* The invariant                                                           *)

LEMMA NetworkInit ==
    ASSUME Init
    PROVE  NetworkInv
<1>1. /\ pc = "c2r" /\ i = 0 /\ servers = 1 /\ nc \in Nat /\ ns \in Nat /\ MaxLinks \in Nat
      /\ ports = [h \in Hosts |-> <<>>] /\ arp = {} /\ rules = {} /\ routes = {}
  BY MultiInterfaceAssumption DEF Init
<1>2. \A m \in Loops : Done[m] = 0
  <2>1. \A m \in Loops : m # "c2r" => ~(Turn(pc) > Turn(m))
    BY <1>1, Turns DEF Loops
  <2> QED
    BY <1>1, <2>1, DoneValues
<1>3. /\ Done["c2r"] = 0 /\ Done["r2s"] = 0 /\ Done["clients"] = 0 /\ Done["servers"] = 0
  BY <1>2 DEF Loops
<1>4. ServerConnections \in Nat
  BY <1>1 DEF ServerConnections
<1>5. TypeOK
  <2>1. ports[Router] = <<>>
    BY <1>1, HostFacts
  <2>2. Len(ports[Router]) <= nc + (IF ns = 0 THEN 1 ELSE ns) + servers - 1
    BY <1>1, <2>1
  <2>3. multi \in BOOLEAN /\ dot \in BOOLEAN
    BY Zenon DEF Init
  <2>4. ports \in [Hosts -> Seq(Segments)]
    BY <1>1
  <2>5. addr \in [Interfaces -> Addresses \cup {NoAddress}]
    BY DEF Init
  <2> QED
    BY <1>1, <2>2, <2>3, <2>4, <2>5 DEF Init, TypeOK
<1>6. ControlInv
  BY <1>1, <1>3, Limits DEF ControlInv, Loops
<1>7. PortsInv
  <2>1. Connections = 0
    BY <1>1, <1>3, Turns DEF Connections
  <2>2. \A j \in 0..MaxLinks : ports[Client(j)] = <<>> /\ ports[Server(j)] = <<>>
    BY <1>1, HostFacts
  <2>3. ports[Router] = <<>> /\ ports[Client(0)] = <<>> /\ ports[Server(0)] = <<>>
    BY <1>1, HostFacts
  <2>4. ClientPorts
    BY <1>1, <1>3, <2>2, <2>3 DEF ClientPorts
  <2>5. ServerPorts
    BY <1>1, <1>3, <2>1, <2>2, <2>3 DEF ServerPorts
  <2>6. RouterPorts
    BY <1>1, <1>3, <2>1, <2>3 DEF RouterPorts
  <2> QED
    BY <2>4, <2>5, <2>6 DEF PortsInv
<1>8. \A p \in Interfaces : ~Given(p)
  <2>1. \A m \in AddressLoops : Done[m] = 0
    BY <1>2 DEF AddressLoops, Loops
  <2> QED
    BY <1>1, <2>1, NoneGiven DEF Given
<1>9. AddressInv
  BY <1>8 DEF AddressInv, Init
<1>10. ArpInv
  <2>1. /\ Done["router_addresses"] = 0 /\ Done["clients_addresses"] = 0
        /\ Done["server_addresses"] = 0 /\ Done["servers_addresses"] = 0
    BY <1>2 DEF Loops
  <2>2. 0..(0 - 1) = {}
    OBVIOUS
  <2>3. ArpComplete
    BY <1>8, <2>1, <2>2 DEF ArpComplete
  <2>4. ArpSound
    BY <1>1 DEF ArpSound
  <2> QED
    BY <2>3, <2>4 DEF ArpInv
<1>11. RoutesInv
  <2>1. /\ Done["client_routes"] = 0 /\ Done["clients_routes"] = 0
        /\ Done["server_routes"] = 0 /\ Done["servers_routes"] = 0
    BY <1>2 DEF Loops
  <2>2. 0..(0 - 1) = {} /\ 1..(0 - 1) = {}
    OBVIOUS
  <2>3. ~(Turn(pc) > 12) /\ ~(Turn(pc) > 13)
    BY <1>1, Turns
  <2>4. TablesInv
    BY <2>1, <2>2 DEF TablesInv
  <2>5. DefaultsInv
    BY <2>1, <2>2, <2>3 DEF DefaultsInv
  <2>6. NoRouteBefore
    BY <1>1 DEF NoRouteBefore
  <2> QED
    BY <2>4, <2>5, <2>6 DEF RoutesInv
<1> QED
  BY <1>5, <1>6, <1>7, <1>9, <1>10, <1>11 DEF NetworkInv

LEMMA NetworkStutters ==
    ASSUME NetworkInv, UNCHANGED vars
    PROVE  NetworkInv'
<1>1. /\ UNCHANGED inputs /\ pc' = pc /\ i' = i /\ servers' = servers /\ ports' = ports
      /\ addr' = addr /\ arp' = arp /\ rules' = rules /\ routes' = routes
  BY DEF vars, netVars
<1>2. TypeOK /\ ControlInv /\ PortsInv /\ AddressInv /\ ArpInv /\ RoutesInv
  BY DEF NetworkInv
<1>3. nc' = nc /\ ns' = ns /\ multi' = multi /\ dot' = dot
  BY <1>1 DEF inputs
<1>4. \A m \in Loops \cup {"done"} : Limit(m)' = Limit(m)
  BY <1>3 DEF Limit, ServerConnections
<1>5. Done' = Done
  BY <1>1, <1>4 DEF Done, Turn
<1>6. TypeOK'
  BY <1>1, <1>2, <1>3 DEF TypeOK
<1>7. ControlInv'
  <2>1. Limit(pc)' = Limit(pc)
    BY <1>1, <1>3 DEF Limit, ServerConnections
  <2> QED
    BY <1>1, <1>2, <1>3, <1>5, <2>1 DEF ControlInv
<1>8. PortsInv'
  <2>1. Connections' = Connections
    BY <1>1, <1>3, <1>5, TurnPrimed DEF Connections
  <2>2. ClientPorts'
    BY <1>1, <1>2, <1>5 DEF PortsInv, ClientPorts
  <2>3. ServerPorts'
    BY <1>1, <1>2, <1>3, <1>5, <2>1 DEF PortsInv, ServerPorts, R2S
  <2>4. RouterPorts'
    BY <1>1, <1>2, <1>3, <1>5, <2>1 DEF PortsInv, RouterPorts, RouterSegment, R2S, ServerConnections
  <2> QED
    BY <2>2, <2>3, <2>4 DEF PortsInv
<1>9. Same(AddressLoops) /\ Same(RouteLoops)
  BY <1>5 DEF Same
<1>10. AddressInv' /\ ArpInv'
  BY <1>1, <1>2, <1>9, AddressKept, ArpKept
<1>11. RoutesInv'
  BY <1>1, <1>2, <1>9, RoutesKept
<1> QED
  BY <1>6, <1>7, <1>8, <1>10, <1>11 DEF NetworkInv

LEMMA NetworkStep ==
    ASSUME NetworkInv, [Next]_vars
    PROVE  NetworkInv'
BY ConstructorStep, ConfigureClientStep, ConfigureRouterStep, ConfigureServerStep,
   ConfigureClientsStep, ConfigureServersStep, RouteClientStep, RouteServerStep,
   RouteDefaultClientStep, RouteDefaultServerStep, RouteClientsStep, RouteServersStep,
   NetworkStutters
   DEF Next

(* For any numbers of links and any two subnets: the state is the one that *)
(* the turns of the loops should have led to, after every command that     *)
(* mininet is given.                                                       *)
THEOREM NetworkInvariant == Spec => []NetworkInv
<1>1. Init => NetworkInv
  BY NetworkInit
<1>2. NetworkInv /\ [Next]_vars => NetworkInv'
  BY NetworkStep
<1> QED
  BY <1>1, <1>2, PTL DEF Spec

(* No address is given twice and no MAC of a missing interface is looked   *)
(* up, at any time.                                                        *)
THEOREM NoAddressTwice == Spec => []AddressingInv
<1>1. NetworkInv => AddressingInv
  <2> SUFFICES ASSUME NetworkInv PROVE AddressingInv
    OBVIOUS
  <2>1. TypeOK /\ ControlInv /\ AddressInv
    BY DEF NetworkInv
  <2>2. pc # "KeyError"
    BY <2>1 DEF ControlInv, Loops
  <2> QED
    BY <2>1, <2>2, DistinctAddresses DEF AddressingInv
<1> QED
  BY <1>1, NetworkInvariant, PTL

(* When the configuration is done, the subnets are the segments.           *)
THEOREM SubnetsMatchSegments == Spec => []SubnetsAreSegments
<1>1. NetworkInv => SubnetsAreSegments
  BY SegmentsHaveSubnets DEF NetworkInv
<1> QED
  BY <1>1, NetworkInvariant, PTL

(* The static ARP entries are right and complete.                          *)
THEOREM ArpEntriesRight == Spec => []ArpIsRight
<1>1. NetworkInv => ArpIsRight
  BY ArpInTheEnd DEF NetworkInv
<1> QED
  BY <1>1, NetworkInvariant, PTL

(* The routes and the tables of every host lead to the router.             *)
THEOREM EveryHostIsRouted == Spec => []RoutesLeadToRouter
<1>1. NetworkInv => RoutesLeadToRouter
  BY RoutesInTheEnd DEF NetworkInv
<1> QED
  BY <1>1, NetworkInvariant, PTL
=============================================================================
