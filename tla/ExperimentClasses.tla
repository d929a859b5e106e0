-------------------------- MODULE ExperimentClasses --------------------------
(***************************************************************************)
(* The classes of experiments/, each as the operations its methods perform *)
(* on the environment.  Inheritance is written out: a class is its parent  *)
(* with some phases replaced, and the two classes with two parents follow  *)
(* Python's method resolution order.                                       *)
(*                                                                         *)
(* Consecutive foreground commands (rm of old logs, netstat, sleep, the    *)
(* client itself) are one Command: none of them changes what is modelled.  *)
(***************************************************************************)
EXTENDS Experiment

(* The values the scenarios write by themselves, see IPerfScenario.        *)
CONSTANT AnyValue, ScenarioValue

ASSUME ClassValueAssumption == {AnyValue, ScenarioValue} \subseteq Values

(* The places of two sysctls in SYSCTL_KEY.                                *)
MptcpEnabled == 1
CongestionControl == 2

Do(name, artefact, facts) ==
    [op |-> name, what |-> artefact, when |-> facts, key |-> 1, value |-> AnyValue]

Base == Do("base", "nothing", {})
PingServer == Do("ping", "nothing", {})
Cmd == Do("command", "nothing", {})
Start(p) == Do("spawn", p, {})
Stop(p) == Do("kill", p, {})
Fails == Do("raise", "nothing", {})
Needs(fact) == Do("need", "nothing", {fact})
Set(k, v) == [Do("set", "nothing", {}) EXCEPT !.key = k, !.value = v]

-----------------------------------------------------------------------------
(* core/experiment.py                                                      *)

ExperimentClass ==
    [name |-> "Experiment", construct |-> <<>>, prepare |-> <<Base>>,
     run |-> <<Fails>>, clean |-> <<Base>>]

RandomFileExperiment ==
    [ExperimentClass EXCEPT
        !.construct = <<PingServer>>,
        !.prepare = <<Base, Do("spawn", "random", {"random"})>>,
        !.clean = <<Base, Do("kill", "random", {"random"})>>]

(* Most classes load parameters that all have defaults, and ping.          *)
PingingClass ==
    [ExperimentClass EXCEPT !.construct = <<PingServer>>,
                            !.prepare = <<Base, Cmd>>]

-----------------------------------------------------------------------------
(* experiments/                                                            *)

Ping == [ExperimentClass EXCEPT !.name = "ping", !.run = <<Cmd>>]

(* run opens the Mininet command line and waits for the user to leave it.  *)
NoneExperiment == [ExperimentClass EXCEPT !.name = "none", !.run = <<Cmd>>]

(* load_parameters reads the attribute paramDic, which does not exist.     *)
NC == [ExperimentClass EXCEPT !.name = "nc", !.construct = <<Fails>>,
        !.prepare = <<Base, Cmd>>, !.run = <<Cmd>>,
        !.clean = <<Base, Stop("netcat")>>]

NCPV == [NC EXCEPT !.name = "ncpv", !.run = <<Start("netcat"), Cmd>>]

(* The parameter class refers to a name that is not defined.               *)
Epload == [ExperimentClass EXCEPT !.name = "epload", !.construct = <<Fails>>,
            !.prepare = <<Base, Cmd>>, !.run = <<Start("apache2"), Cmd>>]

(* PARAMETER_CLASS is not set, so that the two parameters have no default: *)
(* "vlcFile" stands for both being in the file, "vlcTime" for a time other *)
(* than 0, with which the player runs in the background.  clean passes     *)
(* self twice to the parent's method, a TypeError.                         *)
VLC == [ExperimentClass EXCEPT !.name = "vlc",
            !.construct = <<Needs("vlcFile"), PingServer>>,
            !.prepare = <<Base, Cmd, Start("Xvfb"), Cmd>>,
            !.run = <<Start("apache2"), Cmd, Do("spawn", "vlc", {"vlcTime"}), Cmd,
                      Do("kill", "vlc", {"vlcTime"}), Cmd>>,
            !.clean = <<Fails, Stop("Xvfb")>>]

HTTP == [RandomFileExperiment EXCEPT !.name = "http",
            !.prepare = @ \o <<Cmd>>, !.run = <<Start("http.server"), Cmd>>]

HTTPS == [RandomFileExperiment EXCEPT !.name = "https",
            !.prepare = @ \o <<Cmd>>,
            !.run = <<Start("https_server"), Cmd, Stop("https_server")>>]

(* utils/http_server.py does not exist: the process ends at once.          *)
AB == [RandomFileExperiment EXCEPT !.name = "ab",
            !.prepare = @ \o <<Cmd>>, !.run = <<Cmd>>]

SendFile == [RandomFileExperiment EXCEPT !.name = "sendfile",
            !.prepare = @ \o <<Cmd>>, !.run = <<Start("server"), Cmd>>]

(* Registered as "quic1", and as "quic" instead of the class QUIC.         *)
QuicheHTTP3 == [RandomFileExperiment EXCEPT !.name = "quic1",
            !.prepare = @ \o <<Cmd>>,
            !.run = <<Start("quiche-server"), Cmd, Stop("quiche-server")>>]

IPerf == [PingingClass EXCEPT !.name = "iperf", !.run = <<Start("iperf"), Cmd>>]

Netperf == [PingingClass EXCEPT !.name = "netperf",
            !.run = <<Start("netserver"), Cmd>>]

PQUIC == [PingingClass EXCEPT !.name = "pquic",
            !.run = <<Start("picoquicdemo"), Cmd>>]

DITG == [PingingClass EXCEPT !.name = "ditg",
            !.run = <<Start("ITGRecv"), Cmd, Stop("ITGRecv"), Cmd>>]

QUICSiri == [PingingClass EXCEPT !.name = "quicsiri",
            !.construct = <<Needs("runTime"), PingServer>>,
            !.run = <<Start("siri.go"), Cmd, Stop("siri.go"), Cmd>>]

(* The whole method run is in a try block.  The tcpdumps are those started *)
(* with -ni; the server and the two clients are never stopped.             *)
QuicMpath == [ExperimentClass EXCEPT !.name = "quic_mpath",
            !.run = <<Do("try", "nothing", {"mpathFile"}), Cmd,
                      Start("mpath-server"), Start("tcpdump -ni"),
                      Start("mpath-client"), Cmd, Stop("tcpdump -ni"), Cmd>>]

(* The iperf clients are started in the background too; run reads the      *)
(* clients 1 and 2.                                                        *)
IPerfScenario == [PingingClass EXCEPT !.name = "iperfScenario",
            !.prepare = <<Base, Cmd, Needs("multiClient")>>,
            !.run = <<Start("tcpdump"), Start("iperf"), Cmd,
                      Needs("threeClients"), Start("iperf"), Cmd,
                      Set(MptcpEnabled, ScenarioValue),
                      Set(CongestionControl, ScenarioValue), Cmd>>]

Siri == [PingingClass EXCEPT !.name = "siri",
            !.construct = <<Needs("runTime"), PingServer>>,
            !.run = <<Start("siri_server"), Cmd, Stop("siri_server"), Cmd>>]

Msg == [PingingClass EXCEPT !.name = "msg",
            !.run = <<Start("msg_server"), Cmd, Stop("msg_server"), Cmd>>]

(* class SiriMsg(Siri, Msg): the parent of Siri is then Msg, so that       *)
(* Siri.prepare(self) also performs Msg.prepare(self), which is called     *)
(* once more after it; the same for clean and for the constructors.        *)
SiriMsg == [Siri EXCEPT !.name = "sirimsg",
            !.construct = Siri.construct \o Siri.construct,
            !.prepare = <<Base, Cmd>> \o <<Cmd>> \o Msg.prepare,
            !.run = <<Start("siri_server"), Start("msg_server"), Cmd,
                      Start("msg_client"), Cmd, Stop("siri_server"),
                      Stop("msg_server"), Stop("msg_client"), Cmd>>,
            !.clean = Msg.clean \o Msg.clean]

(* class SiriHTTP(Siri, RandomFileExperiment): load_parameters of Siri     *)
(* does not call its parent's, so that self.file never exists and the      *)
(* methods of RandomFileExperiment raise after their call of the base.     *)
SiriHTTP == [Siri EXCEPT !.name = "sirihttp",
            !.construct = Siri.construct \o Siri.construct,
            !.prepare = <<Base, Fails>>,
            !.run = <<Start("siri_server"), Start("apache2"), Cmd,
                      Start("wget"), Cmd, Stop("siri_server"), Cmd>>,
            !.clean = <<Base, Fails>>]

(* What the registry maps the names to.                                    *)
EXPERIMENTS ==
    {Ping, NoneExperiment, NC, NCPV, Epload, VLC, HTTP, HTTPS, AB, SendFile,
     QuicheHTTP3, IPerf, Netperf, PQUIC, DITG, QUICSiri, QuicMpath,
     IPerfScenario, Siri, Msg, SiriMsg, SiriHTTP}

(* All of them leave the stopping of the base class's processes to the     *)
(* base class and remove their random data.                                *)
ASSUME RegistryIsTidy == \A c \in EXPERIMENTS : Tidy(c)
=============================================================================
