----------------------------- MODULE Experiment -----------------------------
(***************************************************************************)
(* The life of one experiment object: core/experiment.py, classes          *)
(* Experiment and RandomFileExperiment.  Runner constructs the object and  *)
(* calls classic_run, which calls prepare, run and clean of the concrete   *)
(* class one after the other, with no try/finally around them.             *)
(*                                                                         *)
(* A concrete class is data here: a record giving, for its constructor and *)
(* its three phases, the sequence of operations its methods perform (see   *)
(* ExperimentClasses for the classes of experiments/).  One of these       *)
(* operations, "base", is the call of the method of class Experiment       *)
(* itself, whose own steps are the actions from SaveKey to                 *)
(* CleanUserspacePathManager.                                              *)
(*                                                                         *)
(* The sysctls are numbered in the order in which the code visits them:    *)
(* 1..NGlobal are those of SYSCTL_KEY, set on the host itself; the others  *)
(* those of SYSCTL_KEY_CLIENT and SYSCTL_KEY_SERVER, set through commands  *)
(* given to a Mininet node.                                                *)
(***************************************************************************)
EXTENDS Integers, Sequences

CONSTANTS
    NGlobal,     \* how many sysctls SYSCTL_KEY has
    NKeys,       \* how many the three dictionaries have together
    Values,      \* what a sysctl can hold
    Absent,      \* this kernel has no such sysctl
    ErrorText,   \* what is left of an error message cut as if it were a value
    NotSaved,    \* the key is not in the sysctl_to_restore dictionary
    Processes,   \* background processes an experiment can leave running
    DataFiles,   \* files an experiment generates
    Classes,     \* the experiment classes
    ParamFiles,  \* the parameter files
    Kernels      \* the hosts: what each sysctl holds and what it accepts

Keys == 1..NKeys

Artefacts == Processes \cup DataFiles

Phases == {"construct", "prepare", "run", "clean"}

(* What a parameter file, or the topology, may say that matters here.      *)
Facts == {"clientPcap", "serverPcap", "netlinkClient", "netlinkServer",
          "priorities", "changeNetem", "random", "runTime", "vlcFile",
          "vlcTime", "mpathFile", "multiClient", "threeClients"}

OpNames == {"base", "ping", "command", "spawn", "kill", "raise", "need",
            "try", "set"}

(* An operation of a class.  `when' is the condition around it: the facts  *)
(* that have to hold for the operation to be performed.                    *)
Ops == [op : OpNames, what : Artefacts \cup {"nothing"}, when : SUBSET Facts,
        key : Keys, value : Values]

ASSUME KeysAssumption ==
    /\ NGlobal \in Nat
    /\ NKeys \in Nat
    /\ NGlobal < NKeys          \* each namespace has a sysctl of its own

ASSUME SentinelAssumption ==
    /\ Absent \notin Values
    /\ ErrorText \notin Values
    /\ NotSaved \notin Values
    /\ NotSaved # ErrorText

ASSUME ArtefactAssumption ==
    /\ {"tcpdump", "upmc", "upms", "netem"} \subseteq Processes
    /\ Processes \cap DataFiles = {}

(* A class is a record with a sequence of operations for each phase.       *)
ASSUME ClassAssumption ==
    \A c \in Classes : \A p \in Phases :
        /\ c[p] \in Seq(Ops)
        /\ \A i \in DOMAIN c[p] : c[p][i].op = "spawn" => c[p][i].what \in Artefacts

ASSUME ParamFileAssumption ==
    ParamFiles \subseteq [value : [Keys -> Values], has : SUBSET Facts]

(* The value a sysctl holds is one the kernel accepts again.               *)
ASSUME KernelAssumption ==
    \A h \in Kernels :
        /\ h \in [original : [Keys -> Values \cup {Absent}],
                  accepts : [Keys -> SUBSET Values]]
        /\ \A k \in Keys : h.original[k] \in h.accepts[k] \cup {Absent}

VARIABLES
    class,      \* the class of the object
    file,       \* its parameter file
    kernel,     \* the host it runs on
    net,        \* "none" before start_network, "up", "stopped" after stop_network
    phase,      \* a member of Phases, "done", "failed" after an exception, or
                \* "idle" while there is no experiment object
    ip,         \* the next operation of class[phase]
    sub,        \* "op", or the step of the base method under way
    key,        \* the loop variable of the sysctl loops
    host,       \* what each sysctl holds now
    saved,      \* the three sysctl_to_restore dictionaries
    artefacts   \* the processes running and the files existing

vars == <<class, file, kernel, net, phase, ip, sub, key, host, saved, artefacts>>

inputs == <<class, file, kernel, net>>

original == kernel.original

Subs == {"op", "save", "write", "pathManager", "priority", "tcpdump", "netem",
         "killTcpdump", "restore", "cleanPathManager"}

TypeOK ==
    /\ class \in Classes
    /\ file \in ParamFiles
    /\ kernel \in Kernels
    /\ net \in {"none", "up", "stopped"}
    /\ phase \in Phases \cup {"done", "failed", "idle"}
    /\ ip \in Nat \ {0}
    /\ sub \in Subs
    /\ key \in 1..(NKeys + 1)
    /\ host \in [Keys -> Values \cup {Absent}]
    /\ saved \in [Keys -> Values \cup {ErrorText, NotSaved}]
    /\ artefacts \subseteq Artefacts

(***************************************************************************)
(* Runner looks the class up, calls its constructor and then classic_run,  *)
(* first on the network it has started and again when it has stopped it.   *)
(***************************************************************************)
Init ==
    /\ class \in Classes
    /\ file \in ParamFiles
    /\ kernel \in Kernels
    /\ net \in {"up", "stopped"}
    /\ phase = "construct"
    /\ ip = 1
    /\ sub = "op"
    /\ key = 1
    /\ host = kernel.original
    /\ saved = [k \in Keys |-> NotSaved]
    /\ artefacts = {}

-----------------------------------------------------------------------------
(* Helpers                                                                 *)

Has(fact) == fact \in file.has

(* sysctl key="value": the kernel refuses a key it does not have and a     *)
(* value it does not accept, and the code only logs that, or not even that *)
(* in a namespace, where the error is text like any other.                 *)
SysctlWrite(k, v) ==
    IF host[k] # Absent /\ v \in kernel.accepts[k]
    THEN [host EXCEPT ![k] = v]
    ELSE host

(* Mutants: the error test is dropped; the new value is recorded.          *)
RecordedUnchecked(k) == host[k]

RecordedParameter(k) ==
    IF host[k] # Absent
    THEN file.value[k]
    ELSE IF k <= NGlobal THEN NotSaved ELSE ErrorText

(* What _save_sysctl puts in the dictionary.  command_global reports an    *)
(* error and the key is left out; command_to does not, so that the error   *)
(* message itself is cut and recorded.                                     *)
Recorded(k) ==
    IF host[k] # Absent
    THEN host[k]
    ELSE IF k <= NGlobal THEN NotSaved ELSE ErrorText

(* An exception leaves classic_run at once: nothing else is undone.        *)
Raise ==
    /\ phase' = "failed"
    /\ UNCHANGED <<inputs, ip, sub, key, host, saved, artefacts>>

(* A command is given to a node, whose shell is gone once the network has  *)
(* been stopped: Mininet then raises an AssertionError.                    *)
NodeAnswers == net = "up"

Doing(step) == phase \in Phases /\ sub = step

AtOp(name) ==
    /\ Doing("op")
    /\ ip \in DOMAIN class[phase]
    /\ class[phase][ip].op = name

Op == class[phase][ip]

Enabled == Op.when \subseteq file.has

-----------------------------------------------------------------------------
(* The operations of the concrete class                                    *)

(* super().prepare() and super().clean()                                   *)
CallBase ==
    /\ AtOp("base")
    /\ sub' = IF phase = "prepare" THEN "save" ELSE "killTcpdump"
    /\ key' = 1
    /\ UNCHANGED <<inputs, phase, ip, host, saved, artefacts>>

(* A command in the foreground: rm, netstat, sleep, a client, ping.        *)
Command ==
    /\ AtOp("command") \/ AtOp("ping")
    /\ NodeAnswers
    /\ ip' = ip + 1
    /\ UNCHANGED <<inputs, phase, sub, key, host, saved, artefacts>>

(* A command that ends in "&", or that generates a file.                   *)
Spawn ==
    /\ AtOp("spawn")
    /\ Enabled => NodeAnswers
    /\ artefacts' = IF Enabled THEN artefacts \cup {Op.what} ELSE artefacts
    /\ ip' = ip + 1
    /\ UNCHANGED <<inputs, phase, sub, key, host, saved>>

(* killall, pkill (the nodes share the process numbers of the host, so it  *)
(* does not matter to which node the command is given) or rm of a          *)
(* generated file.                                                         *)
Kill ==
    /\ AtOp("kill")
    /\ Enabled => NodeAnswers
    /\ artefacts' = IF Enabled THEN artefacts \ {Op.what} ELSE artefacts
    /\ ip' = ip + 1
    /\ UNCHANGED <<inputs, phase, sub, key, host, saved>>

(* A sysctl written directly, through command_global.                      *)
SetSysctl ==
    /\ AtOp("set")
    /\ host' = SysctlWrite(Op.key, Op.value)
    /\ ip' = ip + 1
    /\ UNCHANGED <<inputs, phase, sub, key, saved, artefacts>>

(* A parameter with no default is read, a type is checked.                 *)
NeedMet ==
    /\ AtOp("need")
    /\ Enabled
    /\ ip' = ip + 1
    /\ UNCHANGED <<inputs, phase, sub, key, host, saved, artefacts>>

NeedFails ==
    /\ AtOp("need")
    /\ ~Enabled
    /\ Raise

(* The same inside a try block around the rest of the method: the          *)
(* exception is logged and the method returns.                             *)
Try ==
    /\ AtOp("try")
    /\ ip' = IF Enabled THEN ip + 1 ELSE Len(class[phase]) + 1
    /\ UNCHANGED <<inputs, phase, sub, key, host, saved, artefacts>>

RaiseOp == AtOp("raise") /\ Raise

(* A method returns; classic_run calls the next one.                       *)
EndPhase ==
    /\ Doing("op")
    /\ ip = Len(class[phase]) + 1
    /\ \/ phase = "construct" /\ phase' = "prepare"
       \/ phase = "prepare" /\ phase' = "run"
       \/ phase = "run" /\ phase' = "clean"
       \/ phase = "clean" /\ phase' = "done"
    /\ ip' = 1
    /\ UNCHANGED <<inputs, sub, key, host, saved, artefacts>>

-----------------------------------------------------------------------------
(* Experiment.prepare: setup_sysctl, run_userspace_path_manager,           *)
(* put_priority_on_paths, run_tcpdump, run_netem_at                        *)

(* Mutant: the output of a dead node counts as an answer.                  *)
SaveKeyOfDeadNode ==
    /\ Doing("save")
    /\ key <= NKeys
    /\ saved' = [saved EXCEPT ![key] = Recorded(key)]
    /\ key' = key + 1
    /\ UNCHANGED <<inputs, phase, ip, sub, host, artefacts>>

(* One turn of the loops of save_sysctl.  Each dictionary is emptied       *)
(* before its loop; as every key is visited, setting the entry to NotSaved *)
(* when the loop leaves the key out comes to the same.                     *)
SaveKey ==
    /\ Doing("save")
    /\ key <= NKeys
    /\ key > NGlobal => NodeAnswers
    /\ saved' = [saved EXCEPT ![key] = Recorded(key)]
    /\ key' = key + 1
    /\ UNCHANGED <<inputs, phase, ip, sub, host, artefacts>>

(* One turn of the loops of write_sysctl, over the keys that were saved.   *)
WriteKey ==
    /\ Doing("write")
    /\ key <= NKeys
    /\ (key > NGlobal /\ saved[key] # NotSaved) => NodeAnswers
    /\ host' = IF saved[key] = NotSaved
               THEN host
               ELSE SysctlWrite(key, file.value[key])
    /\ key' = key + 1
    /\ UNCHANGED <<inputs, phase, ip, sub, saved, artefacts>>

(* The end of a sysctl loop.                                               *)
LoopEnds ==
    /\ \/ Doing("save") /\ sub' = "write"
       \/ Doing("write") /\ sub' = "pathManager"
       \/ Doing("restore") /\ sub' = "cleanPathManager"
    /\ key > NKeys
    /\ key' = 1
    /\ UNCHANGED <<inputs, phase, ip, host, saved, artefacts>>

(* The user-space path managers, when the kernel's one is "netlink".       *)
PathManagers ==
    (IF Has("netlinkClient") THEN {"upmc"} ELSE {})
        \cup (IF Has("netlinkServer") THEN {"upms"} ELSE {})

RunUserspacePathManager ==
    /\ Doing("pathManager")
    /\ PathManagers # {} => NodeAnswers
    /\ artefacts' = artefacts \cup PathManagers
    /\ sub' = "priority"
    /\ UNCHANGED <<inputs, phase, ip, key, host, saved>>

(* Different priorities, or a backup path: get_client_interface is then    *)
(* called without its second argument, a TypeError.                        *)
PutPriorityOnPaths ==
    /\ Doing("priority")
    /\ ~Has("priorities")
    /\ sub' = "tcpdump"
    /\ UNCHANGED <<inputs, phase, ip, key, host, saved, artefacts>>

PutPriorityOnPathsRaises ==
    /\ Doing("priority")
    /\ Has("priorities")
    /\ Raise

Captures == Has("clientPcap") \/ Has("serverPcap")

RunTcpdump ==
    /\ Doing("tcpdump")
    /\ Captures => NodeAnswers
    /\ artefacts' = IF Captures THEN artefacts \cup {"tcpdump"} ELSE artefacts
    /\ sub' = "netem"
    /\ UNCHANGED <<inputs, phase, ip, key, host, saved>>

(* The chains "sleep && tc ... &" of the links that change over time.      *)
NetemChains == IF Has("changeNetem") THEN {"netem"} ELSE {}

RunNetemAt ==
    /\ Doing("netem")
    /\ NetemChains # {} => NodeAnswers
    /\ artefacts' = artefacts \cup NetemChains
    /\ sub' = "op"
    /\ ip' = ip + 1
    /\ UNCHANGED <<inputs, phase, key, host, saved>>

-----------------------------------------------------------------------------
(* Experiment.clean: killall tcpdump, restore_sysctl,                      *)
(* clean_userspace_path_manager                                            *)

(* Mutant: the processes are looked up by their command lines.             *)
TcpdumpsByArguments == {"tcpdump -ni"}

(* killall looks at the name of the program, whatever its arguments.      *)
Tcpdumps == {"tcpdump", "tcpdump -ni"}

KillTcpdump ==
    /\ Doing("killTcpdump")
    /\ NodeAnswers
    /\ artefacts' = artefacts \ Tcpdumps
    /\ sub' = "restore"
    /\ key' = 1
    /\ UNCHANGED <<inputs, phase, ip, host, saved>>

(* Mutants: the loop misses its last key; it waits at a key that was not   *)
(* saved.                                                                  *)
RestoreKeyMissesLast ==
    /\ Doing("restore")
    /\ key <= NKeys
    /\ (key > NGlobal /\ saved[key] # NotSaved) => NodeAnswers
    /\ host' = IF saved[key] = NotSaved \/ key = NKeys
               THEN host
               ELSE SysctlWrite(key, saved[key])
    /\ key' = key + 1
    /\ UNCHANGED <<inputs, phase, ip, sub, saved, artefacts>>

RestoreKeyStuck ==
    /\ Doing("restore")
    /\ key <= NKeys
    /\ saved[key] # NotSaved
    /\ key > NGlobal => NodeAnswers
    /\ host' = SysctlWrite(key, saved[key])
    /\ key' = key + 1
    /\ UNCHANGED <<inputs, phase, ip, sub, saved, artefacts>>

(* One turn of the loops of restore_sysctl.                                *)
RestoreKey ==
    /\ Doing("restore")
    /\ key <= NKeys
    /\ (key > NGlobal /\ saved[key] # NotSaved) => NodeAnswers
    /\ host' = IF saved[key] = NotSaved
               THEN host
               ELSE SysctlWrite(key, saved[key])
    /\ key' = key + 1
    /\ UNCHANGED <<inputs, phase, ip, sub, saved, artefacts>>

CleanUserspacePathManager ==
    /\ Doing("cleanPathManager")
    /\ PathManagers # {} => NodeAnswers
    /\ artefacts' = artefacts \ PathManagers
    /\ sub' = "op"
    /\ ip' = ip + 1
    /\ UNCHANGED <<inputs, phase, key, host, saved>>

-----------------------------------------------------------------------------
(* What can happen around the code                                         *)

(* A step that has to command a node of a stopped network.                 *)
CommandsNode ==
    \/ /\ Doing("op")
       /\ ip \in DOMAIN class[phase]
       /\ \/ Op.op \in {"command", "ping"}
          \/ Op.op \in {"spawn", "kill"} /\ Enabled
    \/ Doing("save") /\ key \in (NGlobal + 1)..NKeys
    \/ /\ Doing("write") \/ Doing("restore")
       /\ key \in (NGlobal + 1)..NKeys
       /\ saved[key] # NotSaved
    \/ Doing("pathManager") /\ PathManagers # {}
    \/ Doing("cleanPathManager") /\ PathManagers # {}
    \/ Doing("tcpdump") /\ Captures
    \/ Doing("netem") /\ NetemChains # {}
    \/ Doing("killTcpdump")

NodeGone ==
    /\ CommandsNode
    /\ ~NodeAnswers
    /\ Raise

(* The user interrupts the program: KeyboardInterrupt, which no except     *)
(* clause of the repository catches, may come at any point.                *)
Interrupt ==
    /\ phase \in Phases
    /\ Raise

(* A background process ends by itself.                                    *)
ProcessExits ==
    /\ \E p \in artefacts \cap Processes : artefacts' = artefacts \ {p}
    /\ UNCHANGED <<inputs, phase, ip, sub, key, host, saved>>

BaseStep ==
    \/ SaveKey \/ WriteKey \/ LoopEnds
    \/ RunUserspacePathManager
    \/ PutPriorityOnPaths \/ PutPriorityOnPathsRaises
    \/ RunTcpdump \/ RunNetemAt
    \/ KillTcpdump \/ RestoreKey \/ CleanUserspacePathManager

ClassStep ==
    \/ CallBase \/ Command \/ Spawn \/ Kill \/ SetSysctl
    \/ NeedMet \/ NeedFails \/ Try \/ RaiseOp \/ EndPhase

(* What Python executes next.                                              *)
Step == ClassStep \/ BaseStep \/ NodeGone

Next == Step \/ Interrupt \/ ProcessExits

Spec == Init /\ [][Next]_vars

-----------------------------------------------------------------------------
(* Properties                                                              *)

(* The discipline the docstrings of prepare and clean ask of a class: it   *)
(* extends prepare, run and clean while still calling the parent's method, *)
(* here once and first in prepare, and somewhere in clean; and it leaves   *)
(* the sysctls alone outside prepare and run.                              *)
Disciplined(c) ==
    /\ \A i \in DOMAIN c.construct : c.construct[i].op \notin {"base", "set"}
    /\ 1 \in DOMAIN c.prepare /\ c.prepare[1].op = "base"
    /\ \A i \in DOMAIN c.prepare : i > 1 => c.prepare[i].op # "base"
    /\ \A i \in DOMAIN c.run : c.run[i].op # "base"
    /\ \A i \in DOMAIN c.clean : c.clean[i].op \notin {"set", "try"}
    /\ \E i \in DOMAIN c.clean : c.clean[i].op = "base"

(* restore_sysctl: when classic_run has returned, every sysctl holds what  *)
(* it held before the experiment: the ones the experiment wrote, the ones  *)
(* the kernel refused to write, the ones it could not even read, and the   *)
(* ones run changed behind the back of the base class.                     *)
RestoredWhenDone ==
    (Disciplined(class) /\ phase = "done") => host = original

(* At every moment, after an exception or an interrupt too, a sysctl that  *)
(* differs from what it held before is one whose old value was recorded:   *)
(* setup_sysctl reads all of them before it writes the first, and nothing  *)
(* overwrites the record.                                                  *)
RecordedBeforeChanged ==
    Disciplined(class) =>
        \A k \in Keys : host[k] # original[k] => saved[k] = original[k]

(* What the record of sysctl k is once save_sysctl has been through, if no *)
(* sysctl had been written before.                                         *)
Expected(k) ==
    IF original[k] # Absent
    THEN original[k]
    ELSE IF k <= NGlobal THEN NotSaved ELSE ErrorText

BeforeWrite ==
    \/ phase = "construct"
    \/ phase = "prepare" /\ ip = 1 /\ sub \in {"op", "save"}

AfterSave ==
    \/ phase = "prepare" /\ (ip > 1 \/ sub \notin {"op", "save"})
    \/ phase \in {"run", "clean", "done"}

Restored ==
    \/ phase = "done"
    \/ /\ phase = "clean"
       /\ \/ sub = "cleanPathManager"
          \/ \E j \in DOMAIN class.clean : j < ip /\ class.clean[j].op = "base"

(* Where the steps of the base methods are.                                *)
ControlInv ==
    /\ phase \in {"construct", "run", "done"} => sub = "op"
    /\ phase = "prepare" =>
        /\ sub \notin {"killTcpdump", "restore", "cleanPathManager"}
        /\ sub # "op" => ip \in DOMAIN class.prepare /\ class.prepare[ip].op = "base"
    /\ phase = "clean" =>
        /\ sub \in {"op", "killTcpdump", "restore", "cleanPathManager"}
        /\ sub # "op" => ip \in DOMAIN class.clean /\ class.clean[ip].op = "base"

(* What the sysctls and their records are at each point of the life of a   *)
(* disciplined experiment.                                                 *)
AbsentInv == \A k \in Keys : host[k] = Absent <=> original[k] = Absent

RecordInv == \A k \in Keys : host[k] # original[k] => saved[k] = original[k]

UntouchedInv == BeforeWrite => host = original

SavingInv ==
    (phase = "prepare" /\ sub = "save") =>
        \A k \in Keys : k < key => saved[k] = Expected(k)

SavedInv == AfterSave => \A k \in Keys : saved[k] = Expected(k)

RestoringInv ==
    (phase = "clean" /\ sub = "restore") =>
        \A k \in Keys : k < key => host[k] = original[k]

RestoredInv == Restored => host = original

(* The inductive invariant from which the two properties above follow.     *)
SysctlInv ==
    Disciplined(class) =>
        /\ ControlInv
        /\ AbsentInv
        /\ RecordInv
        /\ UntouchedInv
        /\ SavingInv
        /\ SavedInv
        /\ RestoringInv
        /\ RestoredInv

(* What clean stops or removes: the captures and the path managers, in the *)
(* base class, and the file with random data.                              *)
Cleaned == {"tcpdump", "tcpdump -ni", "upmc", "upms", "random"}

(* With the netem chains, which nothing stops: all that prepare starts.    *)
Prepared == Cleaned \cup {"netem"}

(* The clean of a class can return.                                        *)
Returns(c) == \A i \in DOMAIN c.clean : c.clean[i].op # "raise"

(* What a class has to do for the things in Cleaned to be gone in the end: *)
(* call the parent's clean, start none of them while it cleans, no path    *)
(* manager and no netem chain at all, and remove the random data if it may *)
(* have made them.                                                         *)
Tidy(c) ==
    /\ \A i \in DOMAIN c.clean : c.clean[i].op # "try"
    /\ Returns(c) =>
        /\ \E i \in DOMAIN c.clean : c.clean[i].op = "base"
        /\ \A i \in DOMAIN c.clean : c.clean[i].op = "spawn" => c.clean[i].what \notin Prepared
        /\ \A p \in Phases : \A i \in DOMAIN c[p] : c[p][i].op = "spawn" =>
            /\ c[p][i].what \notin {"upmc", "upms", "netem"}
            /\ c[p][i].what = "random" =>
                \E j \in DOMAIN c.clean : /\ c.clean[j].op = "kill"
                                          /\ c.clean[j].what = "random"
                                          /\ c.clean[j].when \subseteq c[p][i].when

(* Of what prepare started, however often, nothing is left when            *)
(* classic_run returns but the netem chains of a topology whose links      *)
(* change: clean kills the captures and the path managers and removes the  *)
(* random data, but the chains sleep on and will still change the links.   *)
CleanedWhenDone ==
    (Tidy(class) /\ phase = "done") => artefacts \cap Prepared \subseteq NetemChains

(* Why: clean has all of its operations before it, ...                     *)
CleanInv ==
    phase = "clean" =>
        /\ sub \in {"op", "killTcpdump", "restore", "cleanPathManager"}
        /\ sub # "op" => ip \in DOMAIN class.clean /\ class.clean[ip].op = "base"

ReturnsInv ==
    ~Returns(class) =>
        /\ phase # "done"
        /\ phase = "clean" => \E i \in DOMAIN class.clean : i >= ip /\ class.clean[i].op = "raise"

(* ... the path managers are those the parameter file asks for, and the    *)
(* chains those of the topology, ...                                       *)
ManagersInv == artefacts \cap {"upmc", "upms", "netem"} \subseteq PathManagers \cup NetemChains

(* ... random data are there only as long as their removal lies ahead, ... *)
RandomInv ==
    "random" \in artefacts =>
        /\ phase # "done"
        /\ \E i \in DOMAIN class.clean :
            /\ class.clean[i].op = "kill"
            /\ class.clean[i].what = "random"
            /\ class.clean[i].when \subseteq file.has
            /\ phase = "clean" => i >= ip

(* ... and what the base class stopped stays stopped.                      *)
StoppedInv ==
    /\ (phase = "clean" /\ sub \in {"restore", "cleanPathManager"}) => artefacts \cap Tcpdumps = {}
    /\ \/ phase = "done"
       \/ phase = "clean" /\ \E i \in DOMAIN class.clean : i < ip /\ class.clean[i].op = "base"
       => artefacts \cap {"tcpdump", "tcpdump -ni", "upmc", "upms"} = {}

TidyInv ==
    Tidy(class) =>
        /\ CleanInv
        /\ ReturnsInv
        /\ Returns(class) => ManagersInv /\ RandomInv /\ StoppedInv

(* The docstring of restore_sysctl, of every class.                        *)
RestoresWhatWasPresent == phase = "done" => host = original
=============================================================================
