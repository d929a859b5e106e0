------------------------------- MODULE Runner -------------------------------
(***************************************************************************)
(* The program itself: runner.py, class Runner and the __main__ block,     *)
(* around the experiments of Experiment.  The constructor of Runner does   *)
(* everything: it converts a YAML topology into a temporary file, builds   *)
(* and starts the network, runs the experiment and stops the network, and  *)
(* then runs the experiment a second time.                                 *)
(***************************************************************************)
EXTENDS ExperimentClasses

CONSTANTS
    Jobs,      \* what the command line and the topology file ask for
    Detached   \* processes that survive the hang-up of their node's shell

(* topology: the file is fine, cannot be parsed, names a type of topology  *)
(* that does not exist, or cannot be configured once the network runs.     *)
(* experiment: none on the command line, a type not registered, or known.  *)
ASSUME JobAssumption ==
    Jobs \subseteq [yaml : BOOLEAN,
                    topology : {"fine", "unreadable", "unknown", "unconfigurable"},
                    experiment : {"none", "unknown", "known"}]

ASSUME DetachedAssumption == Detached \subseteq Processes

VARIABLES
    job,
    pc,           \* where the constructor and the __main__ block are
    tmpFiles,     \* the temporary files on disk
    tracked,      \* Runner._tmp_files
    abandoned,    \* the files whose writing raised (history)
    launches,     \* how many experiment objects were created
    completions,  \* how many classic_run returned
    fatal,        \* "A fatal error occurred" was logged
    interrupted   \* the program was interrupted

fileVars == <<tmpFiles, tracked, abandoned>>
progress == <<launches, completions, fatal, interrupted>>
runnerVars == <<job, pc, fileVars, progress>>
allVars == <<vars, runnerVars>>

(* "raised" and "interrupted" are the ways into the finally clause of the  *)
(* __main__ block, "exit" and "aborted" the ends: aborted, when an         *)
(* interrupt left that clause itself.                                      *)
PCs == {"load", "write", "track", "parse", "build", "start", "configure", "cli", "lookup",
        "experiment", "stop", "returned", "raised", "interrupted", "finally", "exit",
        "aborted"}

RunnerTypeOK ==
    /\ TypeOK
    /\ job \in Jobs
    /\ pc \in PCs
    /\ tmpFiles \subseteq {"topo"}
    /\ tracked \subseteq {"topo"}
    /\ abandoned \subseteq {"topo"}
    /\ launches \in 0..2
    /\ completions \in 0..2
    /\ fatal \in BOOLEAN
    /\ interrupted \in BOOLEAN

RunnerInit ==
    /\ class \in Classes
    /\ file \in ParamFiles
    /\ kernel \in Kernels
    /\ net = "none"
    /\ phase = "idle"
    /\ ip = 1
    /\ sub = "op"
    /\ key = 1
    /\ host = kernel.original
    /\ saved = [k \in Keys |-> NotSaved]
    /\ artefacts = {}
    /\ job \in Jobs
    /\ pc = "load"
    /\ tmpFiles = {}
    /\ tracked = {}
    /\ abandoned = {}
    /\ launches = 0
    /\ completions = 0
    /\ fatal = FALSE
    /\ interrupted = FALSE

Goto(from, to) == pc = from /\ pc' = to

(* _cleanup_tmp_files                                                      *)
CleanupTmpFiles ==
    /\ tmpFiles' = tmpFiles \ tracked
    /\ tracked' = {}
    /\ UNCHANGED abandoned

(* An exception that leaves the constructor.                               *)
RunnerRaise(from) ==
    /\ Goto(from, "raised")
    /\ UNCHANGED <<vars, job, fileVars, progress>>

-----------------------------------------------------------------------------
(* The constructor                                                         *)

(* The version cannot be asked for, or the YAML file cannot be opened,     *)
(* parsed or converted: there is no temporary file yet.                    *)
LoadFails == RunnerRaise("load")

(* The YAML file is read, and a temporary file made with delete=False ...  *)
ConvertYaml ==
    /\ job.yaml
    /\ Goto("load", "write")
    /\ tmpFiles' = {"topo"}
    /\ UNCHANGED <<vars, job, tracked, abandoned, progress>>

(* ... and written, flushed and closed.                                    *)
WriteTmpFile ==
    /\ Goto("write", "track")
    /\ UNCHANGED <<vars, job, fileVars, progress>>

(* When that raises, a full disk say, nobody has the name of the file.     *)
WriteFails ==
    /\ Goto("write", "raised")
    /\ abandoned' = tmpFiles
    /\ UNCHANGED <<vars, job, tmpFiles, tracked, progress>>

(* Mutant: the name is not remembered.                                     *)
ForgetTmpFile ==
    /\ Goto("track", "parse")
    /\ UNCHANGED <<vars, job, fileVars, progress>>

(* The name is remembered when the conversion has returned.                *)
TrackTmpFile ==
    /\ Goto("track", "parse")
    /\ tracked' = {"topo"}
    /\ UNCHANGED <<vars, job, tmpFiles, abandoned, progress>>

UseLegacyFile ==
    /\ ~job.yaml
    /\ Goto("load", "parse")
    /\ UNCHANGED <<vars, job, fileVars, progress>>

(* TopoParameter(topo_param_path)                                          *)
ParseTopology ==
    /\ job.topology # "unreadable"
    /\ Goto("parse", "build")
    /\ UNCHANGED <<vars, job, fileVars, progress>>

ParseFails == job.topology = "unreadable" /\ RunnerRaise("parse")

(* set_builder, apply_topo, apply_topo_config                              *)
BuildTopology ==
    /\ job.topology # "unknown"
    /\ Goto("build", "start")
    /\ UNCHANGED <<vars, job, fileVars, progress>>

UnknownTopology == job.topology = "unknown" /\ RunnerRaise("build")

(* start_topo: Mininet is started, then the nodes are configured.          *)
StartNetwork ==
    /\ Goto("start", "configure")
    /\ net' = "up"
    /\ UNCHANGED <<class, file, kernel, phase, ip, sub, key, host, saved, artefacts>>
    /\ UNCHANGED <<job, fileVars, progress>>

(* Mininet raises after it has made some of the nodes and links, or before *)
(* the first.                                                              *)
StartFails ==
    /\ Goto("start", "raised")
    /\ net' \in {"none", "up"}
    /\ UNCHANGED <<class, file, kernel, phase, ip, sub, key, host, saved, artefacts>>
    /\ UNCHANGED <<job, fileVars, progress>>

ConfigureNetwork ==
    /\ job.topology # "unconfigurable"
    /\ Goto("configure", IF job.experiment = "none" THEN "cli" ELSE "lookup")
    /\ UNCHANGED <<vars, job, fileVars, progress>>

ConfigureFails == job.topology = "unconfigurable" /\ RunnerRaise("configure")

(* open_cli returns when the user leaves the command line.                 *)
OpenCli ==
    /\ Goto("cli", "stop")
    /\ UNCHANGED <<vars, job, fileVars, progress>>

(* run_experiment: a new object of the class the parameter file names.     *)
LaunchExperiment ==
    /\ job.experiment = "known"
    /\ Goto("lookup", "experiment")
    /\ launches' = launches + 1
    /\ phase' = "construct"
    /\ ip' = 1
    /\ sub' = "op"
    /\ key' = 1
    /\ saved' = [k \in Keys |-> NotSaved]
    /\ UNCHANGED <<inputs, host, artefacts>>
    /\ UNCHANGED <<job, fileVars, completions, fatal, interrupted>>

UnknownExperiment == job.experiment = "unknown" /\ RunnerRaise("lookup")

(* The constructor of the experiment and classic_run.                      *)
ExperimentStep ==
    /\ pc = "experiment"
    /\ Step
    /\ UNCHANGED runnerVars

ExperimentReturns ==
    /\ phase = "done"
    /\ Goto("experiment", "stop")
    /\ completions' = completions + 1
    /\ phase' = "idle"
    /\ UNCHANGED <<inputs, ip, sub, key, host, saved, artefacts>>
    /\ UNCHANGED <<job, fileVars, launches, fatal, interrupted>>

ExperimentRaises == phase = "failed" /\ RunnerRaise("experiment")

(* After the first stop_topo the constructor tests once more whether there *)
(* is an experiment, and runs it again.                                    *)
AfterStop == IF job.experiment # "none" /\ launches = 1 THEN "lookup" ELSE "returned"

(* Mutant: the network is left running for the second experiment.          *)
StopTopoLater ==
    /\ Goto("stop", AfterStop)
    /\ CleanupTmpFiles
    /\ UNCHANGED <<vars, job, progress>>

(* stop_topo: stop_network, then the temporary files are removed.  The     *)
(* builder keeps its stopped net.  The processes of the nodes are hung up. *)
StopTopo ==
    /\ Goto("stop", AfterStop)
    /\ net' = "stopped"
    /\ artefacts' = artefacts \cap (DataFiles \cup Detached)
    /\ CleanupTmpFiles
    /\ UNCHANGED <<class, file, kernel, phase, ip, sub, key, host, saved>>
    /\ UNCHANGED <<job, progress>>

(* stop_network raises with the network not all down: the files are        *)
(* removed all the same.                                                   *)
StopFails ==
    /\ Goto("stop", "raised")
    /\ CleanupTmpFiles
    /\ UNCHANGED <<vars, job, progress>>

-----------------------------------------------------------------------------
(* The __main__ block                                                      *)

(* Mutant: __del__ does nothing.                                           *)
DeleteRunnerOnly ==
    /\ \/ Goto("returned", "finally") /\ UNCHANGED fatal
       \/ Goto("raised", "finally") /\ fatal' = TRUE
    /\ UNCHANGED <<vars, job, fileVars, launches, completions, interrupted>>

(* Nothing refers to the Runner any more, when the constructor returned or *)
(* when the exception has been logged: __del__ removes the files.          *)
DeleteRunner ==
    /\ \/ Goto("returned", "finally") /\ UNCHANGED fatal
       \/ Goto("raised", "finally") /\ fatal' = TRUE
    /\ CleanupTmpFiles
    /\ UNCHANGED <<vars, job, launches, completions, interrupted>>

(* KeyboardInterrupt is not an Exception: it is not logged, and the        *)
(* exception under way keeps the Runner alive.                             *)
AfterInterrupt ==
    /\ Goto("interrupted", "finally")
    /\ UNCHANGED <<vars, job, fileVars, progress>>

(* Mutant: no cleanup in the finally clause.                               *)
NoCleanup ==
    /\ Goto("finally", "exit")
    /\ UNCHANGED <<vars, job, fileVars, progress>>

(* cleanup() of Mininet.  A Runner that is still there is deleted when     *)
(* Python shuts down, or not at all.                                       *)
Cleanup ==
    /\ Goto("finally", "exit")
    /\ net' = IF net = "up" THEN "stopped" ELSE net
    /\ CleanupTmpFiles \/ UNCHANGED fileVars
    /\ UNCHANGED <<class, file, kernel, phase, ip, sub, key, host, saved, artefacts>>
    /\ UNCHANGED <<job, progress>>

(* An interrupt, at any point.  From the constructor and from the handler  *)
(* of its exception it leads to the finally clause; in the finally clause  *)
(* it ends the program with the cleanup not done, or not all of it.  Where *)
(* temporary files are being removed they are gone or not.                 *)
InterruptRunner ==
    /\ pc \notin {"exit", "aborted"}
    /\ pc' = IF pc = "finally" THEN "aborted" ELSE "interrupted"
    /\ interrupted' = TRUE
    /\ net' \in IF pc = "start" THEN {"none", "up"} ELSE {net}
    /\ \/ pc \in {"stop", "returned", "raised", "finally"} /\ CleanupTmpFiles
       \/ UNCHANGED fileVars
    /\ fatal' \in IF pc = "raised" THEN {fatal, TRUE} ELSE {fatal}
    /\ phase' = IF pc = "experiment" THEN "failed" ELSE phase
    /\ UNCHANGED <<class, file, kernel, ip, sub, key, host, saved, artefacts>>
    /\ UNCHANGED <<job, launches, completions>>

RunnerStep ==
    \/ LoadFails \/ ConvertYaml \/ WriteTmpFile \/ WriteFails \/ TrackTmpFile
    \/ UseLegacyFile
    \/ ParseTopology \/ ParseFails \/ BuildTopology \/ UnknownTopology
    \/ StartNetwork \/ StartFails \/ ConfigureNetwork \/ ConfigureFails
    \/ OpenCli \/ LaunchExperiment \/ UnknownExperiment
    \/ ExperimentStep \/ ExperimentReturns \/ ExperimentRaises
    \/ StopTopo \/ StopFails \/ DeleteRunner \/ AfterInterrupt \/ Cleanup

RunnerNext ==
    \/ RunnerStep
    \/ InterruptRunner
    \/ ProcessExits /\ UNCHANGED runnerVars

RunnerSpec == RunnerInit /\ [][RunnerNext]_allVars

(* The program goes on: the commands it waits for return, and the user     *)
(* leaves the command line.                                                *)
FairRunnerSpec == RunnerSpec /\ WF_allVars(RunnerStep)

-----------------------------------------------------------------------------
(* Properties                                                              *)

(* From the moment the first experiment has completed, the sysctls are the *)
(* ones the host had: stop_topo leaves them alone, and the second launch   *)
(* on the stopped network fails before it writes the first sysctl, because *)
(* save_sysctl asks the client's namespace before anything is written.     *)
RestoredAfterCompletion ==
    (Disciplined(class) /\ completions > 0) => host = original

(* Where a second experiment object can get on a stopped network: not      *)
(* beyond the reading of the global sysctls.                               *)
Harmless ==
    \/ phase \in {"idle", "failed"}
    \/ phase = "construct" /\ sub = "op"
    \/ /\ phase = "prepare"
       /\ ip = 1
       /\ sub = "op" \/ (sub = "save" /\ key <= NGlobal + 1)

BeforeLaunch ==
    pc \in {"load", "write", "track", "parse", "build", "start", "configure", "cli"}

(* The inductive invariant behind RestoredAfterCompletion: there is an     *)
(* experiment object only while Runner waits for it or has given it up,    *)
(* and a launch starts from the host as it was.                            *)
LaunchInv ==
    /\ SysctlInv
    /\ completions \in Nat
    /\ pc \notin {"experiment", "raised", "interrupted", "finally", "exit", "aborted"} =>
          phase = "idle"
    /\ BeforeLaunch => completions = 0
    /\ (pc = "lookup" /\ completions > 0) => net = "stopped"
    /\ (pc = "experiment" /\ completions > 0) => net = "stopped"
    /\ Disciplined(class) =>
        /\ phase = "idle" => host = original
        /\ completions > 0 => host = original /\ Harmless

(* A program that was not interrupted leaves a temporary file behind in    *)
(* one case only, whether the constructor returned or raised, and wherever *)
(* it raised: when the writing of the file itself raised.                  *)
TmpFilesRemoved ==
    (pc = "exit" /\ ~interrupted) => tmpFiles = abandoned

(* The inductive invariant of the program around the experiments: it       *)
(* launches two of them at most, counts one as completed only when it was  *)
(* launched, and outside the conversion knows every temporary file but one *)
(* whose writing raised.                                                   *)
ProgramInv ==
    /\ RunnerTypeOK
    /\ completions <= launches
    /\ pc = "experiment" => completions < launches
    /\ pc = "lookup" => launches <= 1
    /\ BeforeLaunch => launches = 0
    /\ pc \in {"load", "write", "track"} => tracked = {} /\ abandoned = {}
    /\ pc \in {"write", "track"} => tmpFiles = {"topo"}
    /\ tracked \cap abandoned = {}
    /\ ~interrupted =>
        /\ pc \notin {"interrupted", "aborted"}
        /\ pc \notin {"write", "track"} => tmpFiles = tracked \cup abandoned
        /\ pc \in {"finally", "exit"} => tracked = {}

(* A network that was started is taken down again, by stop_topo or by the  *)
(* finally clause of the __main__ block, after an error too (one in        *)
(* starting or in stopping it included) and after interrupts, unless one   *)
(* of them comes while the finally clause itself is cleaning up.           *)
NetworkTornDown == net = "up" ~> (net # "up" \/ pc = "aborted")

(* A disciplined experiment that gets as far as clean puts the sysctls     *)
(* back unless the user interrupts it: restore_sysctl goes through all of  *)
(* them, whichever of them were missing, refused or never recorded.        *)
CleanRestores ==
    (Disciplined(class) /\ phase = "clean") ~> (host = original \/ interrupted)
=============================================================================
