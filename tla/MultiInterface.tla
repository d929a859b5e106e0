---------------------------- MODULE MultiInterface ----------------------------
(***************************************************************************)
(* The topologies MultiIf and MultiIfMultiClient (topos/): the constructor *)
(* connects hosts through links, then configure_interfaces gives addresses *)
(* and static ARP entries to the interfaces and configure_routing sets the *)
(* routes.  The code never looks at the network it has built: it computes  *)
(* the names of interfaces, the addresses and the gateways from indices.   *)
(*                                                                         *)
(* A link, with its switches, is a segment; an interface is a host and the *)
(* number of its port.  Looking up the MAC of an interface that does not   *)
(* exist raises a KeyError.                                                *)
(***************************************************************************)
EXTENDS Integers, Sequences

CONSTANTS
    MaxLinks,       \* links of each type, at most
    LeftSubnet,     \* the two numbers of leftSubnet
    RightSubnet     \* the two numbers of rightSubnet

ASSUME MultiInterfaceAssumption ==
    /\ MaxLinks \in Nat
    /\ LeftSubnet \in Nat \X Nat
    /\ RightSubnet \in Nat \X Nat
    /\ LeftSubnet # RightSubnet

Client(j) == <<"Client", j>>
Server(j) == <<"Server", j>>
Router == <<"Router", 0>>

Hosts == {Router} \cup ({"Client", "Server"} \X (0..MaxLinks))

Segments == {"c2r", "r2s", "direct", "server"} \X (0..MaxLinks)

Addresses == [1..4 -> Nat]

NoAddress == <<>>

(* The destination of a default route.                                     *)
Default == <<>>

(* Ports are numbered from 0, as in Client_0-eth0.                         *)
Interfaces == Hosts \X (0..(3 * MaxLinks))

VARIABLES
    nc,         \* links from the client to the router
    ns,         \* links from the router to the server
    multi,      \* the topology is MultiIfMultiClient
    dot,        \* leftSubnet and rightSubnet end with a dot
    pc,         \* the loop the program is in
    i,          \* its index
    servers,    \* servers added so far
    ports,      \* the segments each host is connected to, in order
    addr,       \* the address of each interface
    arp,        \* static ARP entries
    rules,      \* ip rule: source addresses and the tables they use
    routes      \* the routes added; table 0 is main

inputs == <<nc, ns, multi, dot>>
netVars == <<inputs, servers, ports>>
vars == <<netVars, pc, i, addr, arp, rules, routes>>

ArpEntry == [host : Hosts, ip : Addresses, of : Interfaces]
Rule     == [host : Hosts, from : Addresses, table : Nat]

(* A default route leads to a gateway, a link-scope route to a network     *)
(* that has none.                                                          *)
Route    == [host : Hosts, table : Nat, net : Addresses \cup {Default},
             via : Addresses \cup {NoAddress}, dev : Interfaces]

(* The router has an interface for each link and, in the second topology,  *)
(* for each server but the first.                                          *)
TypeOK ==
    /\ nc \in 0..MaxLinks /\ ns \in 0..MaxLinks
    /\ multi \in BOOLEAN /\ dot \in BOOLEAN
    /\ i \in 0..(MaxLinks + 1)
    /\ servers \in 1..(MaxLinks + 1)
    /\ ports \in [Hosts -> Seq(Segments)]
    /\ Len(ports[Router]) <= nc + (IF ns = 0 THEN 1 ELSE ns) + servers - 1
    /\ addr \in [Interfaces -> Addresses \cup {NoAddress}]
    /\ arp \subseteq ArpEntry
    /\ rules \subseteq Rule
    /\ routes \subseteq Route

(* One client, one server and one router are added before the loops.       *)
Init ==
    /\ nc \in 0..MaxLinks /\ ns \in 0..MaxLinks
    /\ multi \in BOOLEAN /\ dot \in BOOLEAN
    /\ pc = "c2r" /\ i = 0
    /\ servers = 1
    /\ ports = [h \in Hosts |-> <<>>]
    /\ addr = [p \in Interfaces |-> NoAddress]
    /\ arp = {} /\ rules = {} /\ routes = {}

-----------------------------------------------------------------------------
(* The constructors                                                        *)

(* A loop over n elements: the body for i, or on to the next loop.         *)
Loop(this, n, next) ==
    /\ pc = this
    /\ IF i < n THEN i' = i + 1 /\ UNCHANGED pc ELSE i' = 0 /\ pc' = next

Connect(a, b, segment) ==
    [ports EXCEPT ![a] = Append(@, segment), ![b] = Append(@, segment)]

AddC2RLinks ==
    /\ Loop("c2r", nc, "r2s")
    /\ ports' = IF i < nc THEN Connect(Client(0), Router, <<"c2r", i>>) ELSE ports
    /\ UNCHANGED <<inputs, servers, addr, arp, rules, routes>>

(* Without a link between them, the router and the server are connected    *)
(* directly.                                                               *)
AfterR2S == IF ns = 0 THEN Connect(Router, Server(0), <<"direct", 0>>) ELSE ports

AddR2SLinks ==
    /\ Loop("r2s", ns, IF multi THEN "clients" ELSE "client_addresses")
    /\ ports' = IF i < ns THEN Connect(Router, Server(0), <<"r2s", i>>) ELSE AfterR2S
    /\ UNCHANGED <<inputs, servers, addr, arp, rules, routes>>

(* For each link of the client, another client on its left and a server.   *)
AddClients ==
    /\ Loop("clients", nc, "servers")
    /\ IF i < nc
       THEN /\ ports' = [ports EXCEPT ![Client(i + 1)] = Append(@, <<"c2r", i>>)]
            /\ servers' = servers + 1
       ELSE UNCHANGED <<ports, servers>>
    /\ UNCHANGED <<inputs, addr, arp, rules, routes>>

ConnectServers ==
    /\ Loop("servers", servers - 1, "client_addresses")
    /\ ports' = IF i < servers - 1 THEN Connect(Router, Server(i + 1), <<"server", i>>) ELSE ports
    /\ UNCHANGED <<inputs, servers, addr, arp, rules, routes>>

-----------------------------------------------------------------------------
(* Names of interfaces and addresses                                       *)

Exists(p) == p[2] < Len(ports[p[1]])

Segment(p) == ports[p[1]][p[2] + 1]

get_client_interface(j, k) == <<Client(j), k>>

get_server_interface(j, k) == <<Server(j), k>>

get_router_interface_to_client_switch(k) == <<Router, k>>

(* Mutant: the interfaces to the clients are not skipped.                  *)
RouterInterfaceFirst(k) == <<Router, k>>

get_router_interface_to_server_switch(k) == get_router_interface_to_client_switch(nc + k)

(* "{subnet}{index}.{host}" as ifconfig and arp read it.  A subnet without *)
(* its dot runs into the index, here of one digit, and the last of three   *)
(* numbers fills the last two bytes.                                       *)
Address(subnet, k, host) ==
    IF dot THEN <<subnet[1], subnet[2], k, host>>
           ELSE <<subnet[1], 10 * subnet[2] + k, 0, host>>

(* ... and as ip reads it: missing numbers are 0.                          *)
IPAddress(subnet, k, host) ==
    IF dot THEN <<subnet[1], subnet[2], k, host>>
           ELSE <<subnet[1], 10 * subnet[2] + k, host, 0>>

(* Mutant: the congestion client has the address of the client.            *)
ClientHostSame(congestion_client) == 1

ClientHost(congestion_client) == IF congestion_client THEN 10 ELSE 1

(* Mutant: the gateway is the same for all links.                          *)
RouterAddressFirst(subnet, k) == Address(subnet, 0, 2)

RouterAddress(subnet, k) == Address(subnet, k, 2)

SameSubnet(a, b) == \A n \in 1..3 : a[n] = b[n]

-----------------------------------------------------------------------------
(* configure_interfaces                                                    *)

(* ifconfig replaces the address of an interface, ip addr flush takes it   *)
(* away.  Mininet's own address of a port 0 does not count: it is replaced *)
(* or flushed before any entry or route that could use it is of use, and   *)
(* the kernel forgets the ARP entries of an interface with its address.    *)
WithAddress(a, p, ip) == [a EXCEPT ![p] = ip]

Flush(a, p) == WithAddress(a, p, NoAddress)

(* The interfaces whose subnet an address is in; no host has a route to    *)
(* anywhere else when the interfaces are configured.                       *)
Connected(a, host, ip) ==
    {p \in Interfaces : p[1] = host /\ a[p] # NoAddress /\ SameSubnet(a[p], ip)}

(* arp -s replaces the entry of an address.  It is refused if the host     *)
(* cannot reach the address: the network is unreachable.                   *)
WithArp(entries, a, host, ip, p) ==
    IF Connected(a, host, ip) = {} THEN entries
    ELSE {e \in entries : e.host # host \/ e.ip # ip} \cup {[host |-> host, ip |-> ip, of |-> p]}

(* A loop of configure_interfaces: it uses interfaces, whose MACs it looks *)
(* up.                                                                     *)
ConfigureLoop(this, n, next, use) ==
    /\ IF i < n /\ \E p \in use : ~Exists(p)
       THEN pc = this /\ pc' = "KeyError" /\ UNCHANGED i
       ELSE Loop(this, n, next)
    /\ UNCHANGED <<netVars, rules, routes>>

(* The router has no address yet: it refuses the entries for the client.   *)
ConfigureClient ==
    LET p  == get_client_interface(0, i)
        ip == Address(LeftSubnet, i, ClientHost(FALSE))
    IN  /\ ConfigureLoop("client_addresses", nc, "router_addresses", {p})
        /\ IF i < nc
           THEN addr' = WithAddress(addr, p, ip) /\ arp' = WithArp(arp, addr', Router, ip, p)
           ELSE UNCHANGED <<addr, arp>>

ConfigureRouter ==
    LET p  == get_router_interface_to_client_switch(i)
        ip == RouterAddress(LeftSubnet, i)
    IN  /\ ConfigureLoop("router_addresses", nc, "server_addresses", {p})
        /\ IF i < nc
           THEN addr' = WithAddress(addr, p, ip) /\ arp' = WithArp(arp, addr', Client(0), ip, p)
           ELSE UNCHANGED <<addr, arp>>

(* The two ends of the k-th connection of the router to a server: first    *)
(* the router gets its address and the server its entry for it, then the   *)
(* server its address and the router its entry.                            *)
ConnectServer(a, host, p, k) ==
    LET r      == get_router_interface_to_server_switch(k)
        rip    == RouterAddress(RightSubnet, k)
        sip    == Address(RightSubnet, k, 1)
        routed == WithAddress(a, r, rip)
    IN  /\ addr' = WithAddress(routed, p, sip)
        /\ arp' = WithArp(WithArp(arp, routed, host, rip, r), addr', Router, sip, p)

(* A direct connection is configured like a first link.                    *)
ServerConnections == IF ns = 0 THEN 1 ELSE ns

(* Both ends are flushed first.                                            *)
ConfigureServer ==
    LET p == get_server_interface(0, i)
        r == get_router_interface_to_server_switch(i)
    IN  /\ ConfigureLoop("server_addresses", ServerConnections,
                         IF multi THEN "clients_addresses" ELSE "client_routes", {p, r})
        /\ IF i < ServerConnections THEN ConnectServer(Flush(Flush(addr, r), p), Server(0), p, i)
                                    ELSE UNCHANGED <<addr, arp>>

ConfigureClients ==
    LET p   == get_client_interface(i + 1, 0)
        ip  == Address(LeftSubnet, i, ClientHost(TRUE))
        r   == get_router_interface_to_client_switch(i)
        rip == RouterAddress(LeftSubnet, i)
    IN  /\ ConfigureLoop("clients_addresses", nc, "servers_addresses", {p, r})
        /\ IF i < nc
           THEN /\ addr' = WithAddress(addr, p, ip)
                /\ arp' = WithArp(WithArp(arp, addr', Router, ip, p), addr', Client(i + 1), rip, r)
           ELSE UNCHANGED <<addr, arp>>

(* Nothing is flushed: the first server keeps the address it has.          *)
ConfigureServers ==
    LET p == get_server_interface(i, 0)
    IN  /\ ConfigureLoop("servers_addresses", servers, "client_routes",
                         {p, get_router_interface_to_server_switch(i)})
        /\ IF i < servers THEN ConnectServer(addr, Server(i), p, i)
                          ELSE UNCHANGED <<addr, arp>>

-----------------------------------------------------------------------------
(* configure_routing                                                       *)

HasRoute(current, host, table, net) ==
    \E r \in current : r.host = host /\ r.table = table /\ r.net = net

(* Mutant: the network of each table is on the first interface.            *)
WithLinkFirst(current, host, table, net, dev) ==
    IF Exists(<<host, 0>>) /\ ~HasRoute(current, host, table, net)
    THEN current \cup {[host |-> host, table |-> table, net |-> net, via |-> NoAddress, dev |-> <<host, 0>>]}
    ELSE current

(* ip route add of a network on a link: refused without such an interface, *)
(* or if the table has a route to the network.                             *)
WithLink(current, host, table, net, dev) ==
    IF Exists(dev) /\ ~HasRoute(current, host, table, net)
    THEN current \cup {[host |-> host, table |-> table, net |-> net, via |-> NoAddress, dev |-> dev]}
    ELSE current

(* ip route add default, through one of some interfaces: refused without   *)
(* any, and if the table has a default route.                              *)
AddDefault(current, host, table, via, devs) ==
    IF devs = {} \/ HasRoute(current, host, table, Default) THEN routes' = current
    ELSE \E dev \in devs :
        routes' = current \cup {[host |-> host, table |-> table, net |-> Default, via |-> via, dev |-> dev]}

(* Without "dev", the interface is looked up: in the networks of the table *)
(* first, then in the subnets of the host.                                 *)
Gateways(current, host, table, via) ==
    LET links == {r \in current : /\ r.host = host /\ r.table = table
                                  /\ r.net # Default /\ SameSubnet(r.net, via)}
    IN  IF links = {} THEN Connected(addr, host, via) ELSE {r.dev : r \in links}

(* The rule and the table of the k-th interface p of a host: the network   *)
(* of its link, and the router there.  Tables are counted from 1.          *)
TableOf(p, k, subnet) ==
    LET host   == p[1]
        via    == IPAddress(subnet, k, 2)
        linked == WithLink(routes, host, k + 1, IPAddress(subnet, k, 0), p)
    IN  /\ rules' = rules \cup {[host |-> host, from |-> IPAddress(subnet, k, 1), table |-> k + 1]}
        /\ AddDefault(linked, host, k + 1, via, Gateways(linked, host, k + 1, via))

(* The default route of a client names its interface, ...                  *)
AddGlobalDefault(p, via) ==
    AddDefault(routes, p[1], 0, via, Connected(addr, p[1], via) \cap {p})

(* ... the one of a server does not.                                       *)
AddSimpleDefault(host, via) ==
    AddDefault(routes, host, 0, via, Gateways(routes, host, 0, via))

RouteLoop(this, n, next) == Loop(this, n, next) /\ UNCHANGED <<netVars, addr, arp>>

RouteClient ==
    /\ RouteLoop("client_routes", nc, "server_routes")
    /\ IF i < nc THEN TableOf(get_client_interface(0, i), i, LeftSubnet)
                 ELSE UNCHANGED <<rules, routes>>

RouteServer ==
    /\ RouteLoop("server_routes", ns, "client_default")
    /\ IF i < ns THEN TableOf(get_server_interface(0, i), i, RightSubnet)
                 ELSE UNCHANGED <<rules, routes>>

RouteDefaultClient ==
    /\ RouteLoop("client_default", 0, "server_default")
    /\ AddGlobalDefault(get_client_interface(0, 0), IPAddress(LeftSubnet, 0, 2))
    /\ UNCHANGED rules

RouteDefaultServer ==
    /\ RouteLoop("server_default", 0, IF multi THEN "clients_routes" ELSE "done")
    /\ AddSimpleDefault(Server(0), IPAddress(RightSubnet, 0, 2))
    /\ UNCHANGED rules

RouteClients ==
    /\ RouteLoop("clients_routes", nc, "servers_routes")
    /\ IF i < nc THEN AddGlobalDefault(get_client_interface(i + 1, 0), IPAddress(LeftSubnet, i, 2))
                 ELSE UNCHANGED routes
    /\ UNCHANGED rules

(* The default route of the first server is there already.                 *)
RouteServers ==
    /\ RouteLoop("servers_routes", servers, "done")
    /\ IF i < servers THEN AddSimpleDefault(Server(i), IPAddress(RightSubnet, i, 2))
                      ELSE UNCHANGED routes
    /\ UNCHANGED rules

Next ==
    \/ AddC2RLinks \/ AddR2SLinks \/ AddClients \/ ConnectServers
    \/ ConfigureClient \/ ConfigureRouter \/ ConfigureServer
    \/ ConfigureClients \/ ConfigureServers
    \/ RouteClient \/ RouteServer \/ RouteDefaultClient \/ RouteDefaultServer
    \/ RouteClients \/ RouteServers

Spec == Init /\ [][Next]_vars

-----------------------------------------------------------------------------
(* What a configured network looks like                                    *)

Configured == {p \in Interfaces : addr[p] # NoAddress}

(* The indices of servers and of router interfaces agree: with several     *)
(* links to the first server, the second topology counts them differently. *)
(* And without a dot they have one digit, in base 8 too.                   *)
IndicesAgree ==
    /\ multi /\ nc > 0 => ns <= 1
    /\ dot \/ MaxLinks < 8

(* No two interfaces of the network have the same address.                 *)
AddressesDistinct ==
    IndicesAgree => \A p, q \in Configured : addr[p] = addr[q] => p = q

(* When the addresses are set, the subnets are the segments: every         *)
(* interface has an address, and two of them are in one subnet exactly     *)
(* when they are connected by a link.                                      *)
SubnetsAreSegments ==
    IndicesAgree /\ pc = "done" =>
        /\ \A p \in Interfaces : Exists(p) => p \in Configured
        /\ \A p, q \in Configured : SameSubnet(addr[p], addr[q]) <=> Segment(p) = Segment(q)

(* Who keeps an entry for q: the router for all but the client, the        *)
(* clients for the router, and of the servers only the first one of the    *)
(* second topology, which is configured twice.                             *)
Learns(p, q) ==
    IF p[1] = Router THEN q[1] # Client(0)
    ELSE p[1][1] = "Client" \/ (multi /\ p = get_server_interface(0, 0))

(* The static ARP entries are right: an entry names the interface that has *)
(* the address, on a link of the host.  And of a host and the router on a  *)
(* link between them, exactly those that could reach the other when arp -s *)
(* was run have an entry for it.                                           *)
ArpIsRight ==
    IndicesAgree /\ pc = "done" =>
        /\ \A e \in arp :
            /\ addr[e.of] = e.ip
            /\ \E p \in Interfaces : p[1] = e.host /\ Exists(p) /\ Segment(p) = Segment(e.of)
        /\ \A p, q \in Configured :
            p # q /\ Segment(p) = Segment(q) /\ (p[1] = Router \/ q[1] = Router) =>
                ([host |-> p[1], ip |-> addr[q], of |-> q] \in arp <=> Learns(p, q))

(* The router is at the other end: p is in the subnet of the gateway, and  *)
(* the router has this address on the link of p.                           *)
LeadsToRouter(p, via) ==
    /\ SameSubnet(addr[p], via)
    /\ \E q \in Configured : q[1] = Router /\ addr[q] = via /\ Segment(q) = Segment(p)

(* The default route of a table leaves through p, to the router.           *)
DefaultThrough(p, table) ==
    \E r \in routes :
        /\ r.host = p[1] /\ r.table = table /\ r.net = Default
        /\ r.dev = p /\ LeadsToRouter(p, r.via)

(* Each host that has an interface has a default route to the router       *)
(* through the first one.  And what the client or the server sends from    *)
(* the address of one of its links leaves through this link whatever the   *)
(* destination, to its neighbours directly and to all others by the        *)
(* router, if the subnets end with a dot.                                  *)
RoutesLeadToRouter ==
    IndicesAgree /\ dot /\ pc = "done" =>
        /\ \A p \in Configured : p[1] # Router /\ p[2] = 0 => DefaultThrough(p, 0)
        /\ \A p \in Configured : p[1] = Client(0) \/ (p[1] = Server(0) /\ ns > 0) =>
            \E u \in rules :
                /\ u.host = p[1] /\ u.from = addr[p]
                /\ DefaultThrough(p, u.table)
                /\ \E r \in routes : /\ r.host = p[1] /\ r.table = u.table
                                     /\ r.net # Default /\ SameSubnet(addr[p], r.net)
                /\ \A r \in routes : r.host = p[1] /\ r.table = u.table => r.dev = p

(* At any time of the configuration: no address is given twice, and the    *)
(* interface whose MAC is looked up exists, with several links to the      *)
(* server too.                                                             *)
AddressingInv == TypeOK /\ AddressesDistinct /\ pc # "KeyError"

-----------------------------------------------------------------------------
(* Why: the state is a function of how far the loops are                   *)

Loops == {"c2r", "r2s", "clients", "servers", "client_addresses", "router_addresses",
          "server_addresses", "clients_addresses", "servers_addresses", "client_routes",
          "server_routes", "client_default", "server_default", "clients_routes",
          "servers_routes"}

(* The order of the loops.                                                 *)
Turn(loop) ==
    CASE loop = "c2r"               -> 1
      [] loop = "r2s"               -> 2
      [] loop = "clients"           -> 3
      [] loop = "servers"           -> 4
      [] loop = "client_addresses"  -> 5
      [] loop = "router_addresses"  -> 6
      [] loop = "server_addresses"  -> 7
      [] loop = "clients_addresses" -> 8
      [] loop = "servers_addresses" -> 9
      [] loop = "client_routes"     -> 10
      [] loop = "server_routes"     -> 11
      [] loop = "client_default"    -> 12
      [] loop = "server_default"    -> 13
      [] loop = "clients_routes"    -> 14
      [] loop = "servers_routes"    -> 15
      [] loop = "done"              -> 16

(* The turns of a loop; the second topology has loops of its own.          *)
Limit(loop) ==
    CASE loop \in {"c2r", "client_addresses", "router_addresses", "client_routes"} -> nc
      [] loop \in {"r2s", "server_routes"} -> ns
      [] loop = "server_addresses" -> ServerConnections
      [] loop \in {"clients", "servers", "clients_addresses", "clients_routes"} ->
            IF multi THEN nc ELSE 0
      [] loop \in {"servers_addresses", "servers_routes"} -> IF multi THEN nc + 1 ELSE 0
      [] OTHER -> 0

(* The turns that were made of each loop.                                  *)
Done == [loop \in Loops |->
            IF pc = loop THEN i ELSE IF Turn(pc) > Turn(loop) THEN Limit(loop) ELSE 0]

ControlInv ==
    /\ pc \in Loops \cup {"done"}
    /\ i <= Limit(pc)
    /\ ~multi => pc \notin {"clients", "servers", "clients_addresses", "servers_addresses",
                            "clients_routes", "servers_routes"}
    /\ servers = Done["clients"] + 1

(* Connections of the router to the first server.                          *)
Connections == IF ns = 0 /\ Turn(pc) > 2 THEN 1 ELSE Done["r2s"]

R2S(k) == IF ns = 0 THEN <<"direct", 0>> ELSE <<"r2s", k>>

(* Which port is which, counted from 1: on the router, the links to the    *)
(* client come first.                                                      *)
RouterSegment(k) ==
    IF k <= nc THEN <<"c2r", k - 1>>
    ELSE IF k <= nc + ServerConnections THEN R2S(k - nc - 1)
    ELSE <<"server", k - nc - ServerConnections - 1>>

RouterPorts ==
    /\ Len(ports[Router]) = Done["c2r"] + Connections + Done["servers"]
    /\ \A k \in 1..Len(ports[Router]) : ports[Router][k] = RouterSegment(k)

ClientPorts ==
    /\ Len(ports[Client(0)]) = Done["c2r"]
    /\ \A k \in 1..Len(ports[Client(0)]) : ports[Client(0)][k] = <<"c2r", k - 1>>
    /\ \A j \in 1..MaxLinks :
        ports[Client(j)] = IF j <= Done["clients"] THEN << <<"c2r", j - 1>> >> ELSE <<>>

ServerPorts ==
    /\ Len(ports[Server(0)]) = Connections
    /\ \A k \in 1..Len(ports[Server(0)]) : ports[Server(0)][k] = R2S(k - 1)
    /\ \A j \in 1..MaxLinks :
        ports[Server(j)] = IF j <= Done["servers"] THEN << <<"server", j - 1>> >> ELSE <<>>

PortsInv == ClientPorts /\ ServerPorts /\ RouterPorts

(* The address meant for an interface, ...                                 *)
Intended(p) ==
    LET h == p[1]
        k == p[2]
    IN  CASE h = Router -> IF k < nc THEN RouterAddress(LeftSubnet, k)
                                     ELSE RouterAddress(RightSubnet, k - nc)
          [] h[1] = "Client" -> IF h[2] = 0 THEN Address(LeftSubnet, k, 1)
                                            ELSE Address(LeftSubnet, h[2] - 1, 10)
          [] h[1] = "Server" -> IF h[2] = 0 THEN Address(RightSubnet, k, 1)
                                            ELSE Address(RightSubnet, h[2], 1)

(* ... and whether its turn has come, after so many turns of each loop.    *)
GivenAfter(turns, p) ==
    LET h == p[1]
        k == p[2]
    IN  CASE h = Router -> IF k < nc THEN k < turns["router_addresses"]
                           ELSE \/ k - nc < turns["server_addresses"]
                                \/ k - nc < turns["servers_addresses"]
          [] h[1] = "Client" -> IF h[2] = 0 THEN k < turns["client_addresses"]
                                ELSE k = 0 /\ h[2] - 1 < turns["clients_addresses"]
          [] h[1] = "Server" -> IF h[2] = 0 THEN k < turns["server_addresses"]
                                ELSE k = 0 /\ h[2] < turns["servers_addresses"]

Given(p) == GivenAfter(Done, p)

AddressInv ==
    IndicesAgree => \A p \in Interfaces : addr[p] = IF Given(p) THEN Intended(p) ELSE NoAddress

(* Every ARP entry is right and of a host that could reach the address,    *)
(* and the ones of the turns made are there.                               *)
MayLearn(host, q) ==
    /\ host = Router => q[1] # Client(0)
    /\ host[1] = "Server" => host = Server(0) /\ multi /\ q = <<Router, nc>>

ArpSound ==
    \A e \in arp :
        /\ Given(e.of) /\ e.ip = Intended(e.of) /\ MayLearn(e.host, e.of)
        /\ \E p \in Interfaces : p[1] = e.host /\ Exists(p) /\ Segment(p) = Segment(e.of)

Entry(host, p) == [host |-> host, ip |-> Intended(p), of |-> p]

ArpComplete ==
    /\ \A p \in Interfaces :
        Given(p) /\ p[1] # Router /\ p[1] # Client(0) => Entry(Router, p) \in arp
    /\ \A k \in 0..(Done["router_addresses"] - 1) : Entry(Client(0), <<Router, k>>) \in arp
    /\ \A k \in 0..(Done["clients_addresses"] - 1) : Entry(Client(k + 1), <<Router, k>>) \in arp
    /\ Done["servers_addresses"] > 0 => Entry(Server(0), <<Router, nc>>) \in arp

ArpInv == IndicesAgree => ArpSound /\ ArpComplete

(* The routes of the turns made are there, and no others, which would be   *)
(* in the way of those to come; a table has routes of one interface only.  *)
RuleThere(host, k, from) == [host |-> host, from |-> from, table |-> k + 1] \in rules

RouteThere(p, table, net, via) ==
    [host |-> p[1], table |-> table, net |-> net, via |-> via, dev |-> p] \in routes

TableThere(p, k, subnet) ==
    /\ RuleThere(p[1], k, Address(subnet, k, 1))
    /\ RouteThere(p, k + 1, Address(subnet, k, 0), NoAddress)
    /\ RouteThere(p, k + 1, Default, RouterAddress(subnet, k))

TablesInv ==
    /\ \A k \in 0..(Done["client_routes"] - 1) : TableThere(<<Client(0), k>>, k, LeftSubnet)
    /\ \A k \in 0..(Done["server_routes"] - 1) : TableThere(<<Server(0), k>>, k, RightSubnet)

DefaultThere(host, subnet, k) == RouteThere(<<host, 0>>, 0, Default, RouterAddress(subnet, k))

DefaultsInv ==
    /\ Turn(pc) > 12 /\ nc > 0 => DefaultThere(Client(0), LeftSubnet, 0)
    /\ Turn(pc) > 13 => DefaultThere(Server(0), RightSubnet, 0)
    /\ \A k \in 0..(Done["clients_routes"] - 1) : DefaultThere(Client(k + 1), LeftSubnet, k)
    /\ \A k \in 1..(Done["servers_routes"] - 1) : DefaultThere(Server(k), RightSubnet, k)

TimelyAt(turn, turns, r) ==
    /\ r.host = Client(0) /\ r.table = 0 => turn > 12
    /\ r.host = Server(0) /\ r.table = 0 => turn > 13
    /\ r.host = Client(0) /\ r.table > 0 => r.table <= turns["client_routes"]
    /\ r.host = Server(0) /\ r.table > 0 => r.table <= turns["server_routes"]
    /\ \A j \in 1..MaxLinks : r.host = Client(j) => j <= turns["clients_routes"]
    /\ \A j \in 1..MaxLinks : r.host = Server(j) => j < turns["servers_routes"]
    /\ r.table > 0 => r.dev = <<r.host, r.table - 1>>
    /\ r.table = 0 => r.net = Default

NoRouteBefore == \A r \in routes : TimelyAt(Turn(pc), Done, r)

RoutesInv == IndicesAgree /\ dot => TablesInv /\ DefaultsInv /\ NoRouteBefore

NetworkInv ==
    TypeOK /\ ControlInv /\ PortsInv /\ AddressInv /\ ArpInv /\ RoutesInv
=============================================================================
