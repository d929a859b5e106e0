---------------------------- MODULE MCExperiment ----------------------------
(***************************************************************************)
(* Instances of Experiment: the classes of the repository, two global      *)
(* sysctls and one in each namespace.                                      *)
(***************************************************************************)
EXTENDS ExperimentClasses

MCProcesses ==
    {"tcpdump", "tcpdump -ni", "upmc", "upms", "netem", "netcat", "apache2",
     "Xvfb", "vlc", "http.server", "https_server", "server", "quiche-server",
     "iperf", "netserver", "picoquicdemo", "ITGRecv", "siri.go",
     "mpath-server", "mpath-client", "siri_server", "msg_server",
     "msg_client", "wget"}

MCDataFiles == {"random"}

(* "old" is what the host has, "xp" what the parameter file says, and      *)
(* "scenario" what IPerfScenario writes.                                   *)
MCValues == {"old", "xp", "scenario"}

(* A sysctl is missing, refuses the experiment's value or takes everything. *)
MCSettings ==
    {[is |-> Absent, takes |-> {}],
     [is |-> "old", takes |-> {"old", "scenario"}],
     [is |-> "old", takes |-> MCValues]}

AnyKernel ==
    {[original |-> [k \in Keys |-> s[k].is], accepts |-> [k \in Keys |-> s[k].takes]]
        : s \in [Keys -> MCSettings]}

(* The hosts whose global sysctls behave alike, and those of the           *)
(* namespaces; and a kernel that has the congestion control only.          *)
EvenKernels ==
    {k \in AnyKernel : \A j, l \in Keys :
        (j <= NGlobal <=> l <= NGlobal) =>
            k.original[j] = k.original[l] /\ k.accepts[j] = k.accepts[l]}

PlainTcp ==
    [original |-> [k \in Keys |-> IF k = CongestionControl THEN "old" ELSE Absent],
     accepts |-> [k \in Keys |-> IF k = CongestionControl THEN MCValues ELSE {}]]

RunnerKernels == EvenKernels \cup {PlainTcp}

FilesWith(factSets) ==
    {[value |-> [k \in Keys |-> "xp"], has |-> facts] : facts \in factSets}

(* What the classes ask for is there or not; nothing is captured.          *)
ClassFacts == {"runTime", "vlcFile", "mpathFile", "multiClient", "threeClients"}

PlainFiles == FilesWith({ClassFacts, ClassFacts \ {"threeClients"}, {"priorities"}})

(* What Experiment.prepare may start: everything, everything but one       *)
(* thing, or next to nothing.                                              *)
BaseFacts == {"clientPcap", "serverPcap", "netlinkClient", "netlinkServer",
              "priorities", "changeNetem", "random"}

CombinedFiles ==
    FilesWith({ClassFacts \cup BaseFacts}
                \cup {ClassFacts \cup (BaseFacts \ {f}) : f \in BaseFacts}
                \cup {{}, {"random", "vlcFile", "vlcTime"}})

AllFiles == PlainFiles \cup CombinedFiles

EverythingFile == FilesWith({ClassFacts \cup {"random", "clientPcap"}})

OnlySiriMsg == {SiriMsg}
=============================================================================
