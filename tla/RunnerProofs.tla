---------------------------- MODULE RunnerProofs ----------------------------
(***************************************************************************)
(* Proofs about Runner: the host's sysctls after an experiment completed.  *)
(***************************************************************************)
EXTENDS Runner, ExperimentProofs

(* The steps of Runner that leave the experiment and the host alone.       *)
LEMMA QuietSysctl ==
    ASSUME SysctlInv, UNCHANGED <<class, kernel, phase, ip, sub, key, host, saved>>
    PROVE  SysctlInv'
  BY DEF SysctlInv, ControlInv, AbsentInv, RecordInv, UntouchedInv, BeforeWrite, SavingInv,
         SavedInv, AfterSave, Expected, RestoringInv, RestoredInv, Restored, original

(* A host nobody changed satisfies SysctlInv outside the phases that rely  *)
(* on the records.                                                         *)
LEMMA FreshSysctl ==
    ASSUME UNCHANGED <<class, kernel, host>>, host = original,
           \/ phase' \in {"idle", "failed"}
           \/ phase' = "construct" /\ sub' = "op"
    PROVE  SysctlInv'
  BY DEF SysctlInv, ControlInv, AbsentInv, RecordInv, UntouchedInv, BeforeWrite, SavingInv,
         SavedInv, AfterSave, Expected, RestoringInv, RestoredInv, Restored, original

QuietStep ==
    \/ LoadFails \/ ConvertYaml \/ WriteTmpFile \/ WriteFails \/ TrackTmpFile \/ UseLegacyFile
    \/ ParseTopology \/ ParseFails \/ BuildTopology \/ UnknownTopology
    \/ ConfigureNetwork \/ ConfigureFails \/ OpenCli \/ UnknownExperiment \/ ExperimentRaises
    \/ StopFails \/ DeleteRunner \/ AfterInterrupt

LEMMA QuietStepQuiet == QuietStep => UNCHANGED <<vars, completions>>
  BY DEF QuietStep, LoadFails, ConvertYaml, WriteTmpFile, WriteFails, TrackTmpFile, UseLegacyFile,
         ParseTopology, ParseFails, BuildTopology, UnknownTopology, ConfigureNetwork,
         ConfigureFails, OpenCli, UnknownExperiment, ExperimentRaises, StopFails, DeleteRunner,
         AfterInterrupt, RunnerRaise, progress

(* The experiment's part of the type invariant is kept by every step.      *)
LEMMA RunnerTypeStep ==
    ASSUME TypeOK, [RunnerNext]_allVars
    PROVE  TypeOK'
<1>1. CASE ExperimentStep
  BY <1>1, TypeStep DEF ExperimentStep, Next
<1>2. CASE ProcessExits /\ UNCHANGED runnerVars
  BY <1>2, TypeStep DEF Next
<1>3. CASE UNCHANGED allVars
  BY <1>3, TypeStep DEF allVars
<1>4. CASE QuietStep
  <2>1. UNCHANGED vars
    BY <1>4, QuietStepQuiet
  <2>2. QED
    BY <2>1, TypeStep
<1>5. CASE StartNetwork \/ StartFails \/ Cleanup
  BY <1>5 DEF StartNetwork, StartFails, Cleanup, TypeOK
<1>6. CASE LaunchExperiment
  BY <1>6, KeysAssumption DEF LaunchExperiment, TypeOK, inputs, Phases, Subs, Keys
<1>7. CASE ExperimentReturns \/ InterruptRunner
  BY <1>7 DEF ExperimentReturns, InterruptRunner, TypeOK, inputs
<1>8. CASE StopTopo
  BY <1>8 DEF StopTopo, TypeOK, Artefacts
<1>9. QED
  BY <1>1, <1>2, <1>3, <1>4, <1>5, <1>6, <1>7, <1>8 DEF RunnerNext, RunnerStep, QuietStep

(* On a stopped network an experiment does not get beyond save_sysctl: the *)
(* first namespace it asks no longer answers, and nothing is written.      *)
LEMMA StoppedStep ==
    ASSUME TypeOK, Disciplined(class), net = "stopped", Harmless, phase # "idle",
           Step
    PROVE  host' = host /\ Harmless'
<1>1. phase \in {"construct", "prepare"} /\ (phase = "construct" => sub = "op")
  BY DEF Harmless, Step, ClassStep, BaseStep, NodeGone, CommandsNode, CallBase, Command, Spawn,
         Kill, SetSysctl, NeedMet, NeedFails, Try, RaiseOp, EndPhase, AtOp, Doing, SaveKey,
         WriteKey, LoopEnds, RunUserspacePathManager, PutPriorityOnPaths,
         PutPriorityOnPathsRaises, RunTcpdump, RunNetemAt, KillTcpdump, RestoreKey,
         CleanUserspacePathManager, Phases
<1>2. NGlobal \in Nat /\ NKeys \in Nat /\ NGlobal < NKeys
  BY KeysAssumption
<1>3. key \in 1..(NKeys + 1)
  BY DEF TypeOK
<1>4. ASSUME Raise PROVE host' = host /\ Harmless'
  BY <1>4 DEF Raise, Harmless
<1>5. CASE phase = "construct"
  <2>1. ~AtOp("base") /\ ~AtOp("set")
    BY <1>5 DEF AtOp, Disciplined
  <2>2. sub = "op"
    BY <1>1, <1>5
  <2>3. QED
    BY <1>4, <1>5, <2>1, <2>2
    DEF Harmless, Step, ClassStep, BaseStep, NodeGone, CallBase, Command, Spawn, Kill, SetSysctl,
        NeedMet, NeedFails, Try, RaiseOp, EndPhase, Doing, SaveKey, WriteKey, LoopEnds,
        RunUserspacePathManager, PutPriorityOnPaths, PutPriorityOnPathsRaises, RunTcpdump,
        RunNetemAt, KillTcpdump, RestoreKey, CleanUserspacePathManager, inputs
<1>6. CASE phase = "prepare"
  <2>1. ip = 1 /\ (sub = "op" \/ (sub = "save" /\ key <= NGlobal + 1))
    BY <1>6 DEF Harmless
  <2>2. CASE sub = "op"
    <3>1. 1 \in DOMAIN class[phase] /\ class[phase][ip].op = "base"
      BY <1>6, <2>1 DEF Disciplined
    <3>2. Len(class[phase]) + 1 # ip
      <4>1. class[phase] \in Seq(Ops)
        BY <1>6, ClassAssumption DEF TypeOK, Phases
      <4>2. QED
        BY <2>1, <3>1, <4>1
    <3>3. CallBase \/ Raise
      BY <2>1, <2>2, <3>1, <3>2
      DEF Step, ClassStep, BaseStep, NodeGone, Command, Spawn, Kill, SetSysctl, AtOp,
          NeedMet, NeedFails, Try, RaiseOp, EndPhase, Doing, SaveKey, WriteKey, LoopEnds,
          RunUserspacePathManager, PutPriorityOnPaths, PutPriorityOnPathsRaises, RunTcpdump,
          RunNetemAt, KillTcpdump, RestoreKey, CleanUserspacePathManager
    <3>4. QED
      BY <1>2, <1>4, <1>6, <2>1, <3>3 DEF CallBase, Harmless, inputs
  <2>3. CASE sub = "save"
    <3>0. ~(key > NKeys)
      BY <1>2, <1>3, <2>1, <2>3
    <3>1. SaveKey \/ Raise
      BY <2>1, <2>3, <3>0
      DEF Step, ClassStep, BaseStep, NodeGone, CallBase, Command, Spawn, Kill, SetSysctl, AtOp,
          NeedMet, NeedFails, Try, RaiseOp, EndPhase, Doing, WriteKey, LoopEnds,
          RunUserspacePathManager, PutPriorityOnPaths, PutPriorityOnPathsRaises, RunTcpdump,
          RunNetemAt, KillTcpdump, RestoreKey, CleanUserspacePathManager
    <3>2. CASE SaveKey
      <4>1. key <= NGlobal
        BY <3>2, <1>2, <1>3 DEF SaveKey, NodeAnswers
      <4>2. QED
        BY <1>2, <1>3, <1>6, <2>1, <2>3, <3>2, <4>1 DEF SaveKey, Harmless, inputs
    <3>3. QED
      BY <1>4, <3>1, <3>2
  <2>4. QED
    BY <2>1, <2>2, <2>3
<1>7. QED
  BY <1>1, <1>5, <1>6

(* A step of an experiment is a step of an object that exists.             *)
LEMMA StepOfObject ==
    ASSUME Step
    PROVE  phase # "idle" /\ phase' # "idle" /\ UNCHANGED <<class, kernel, net>>
  BY DEF Raise, inputs, Step, ClassStep, BaseStep, NodeGone, CommandsNode, CallBase, Command, Spawn,
         Kill, SetSysctl, NeedMet, NeedFails, Try, RaiseOp, EndPhase, AtOp, Doing, SaveKey,
         WriteKey, LoopEnds, RunUserspacePathManager, PutPriorityOnPaths,
         PutPriorityOnPathsRaises, RunTcpdump, RunNetemAt, KillTcpdump, RestoreKey,
         CleanUserspacePathManager, Phases

(* LaunchInv is inductive.                                                 *)
LEMMA LaunchStep ==
    ASSUME TypeOK, LaunchInv, [RunnerNext]_allVars
    PROVE  LaunchInv'
<1> USE DEF BeforeLaunch
<1>1. CASE QuietStep \/ UNCHANGED allVars
  <2>1. UNCHANGED <<vars, completions>>
    BY <1>1, QuietStepQuiet DEF allVars, runnerVars, progress
  <2>2. SysctlInv'
    BY <2>1, QuietSysctl DEF LaunchInv, vars
  <2>3. QED
    BY <1>1, <2>1, <2>2
    DEF QuietStep, LoadFails, ConvertYaml, WriteTmpFile, WriteFails, TrackTmpFile, UseLegacyFile,
        ParseTopology, ParseFails, BuildTopology, UnknownTopology, ConfigureNetwork,
        ConfigureFails, OpenCli, UnknownExperiment, ExperimentRaises, StopFails, DeleteRunner,
        AfterInterrupt, RunnerRaise, allVars, runnerVars, vars, LaunchInv, Harmless, Goto, original
<1>2. CASE StartNetwork \/ StartFails \/ Cleanup
  <2>1. SysctlInv'
    BY <1>2, QuietSysctl DEF LaunchInv, StartNetwork, StartFails, Cleanup
  <2>2. QED
    BY <1>2, <2>1
    DEF LaunchInv, StartNetwork, StartFails, Cleanup, Goto, Harmless, original, progress
<1>3. CASE LaunchExperiment
  <2>1. Disciplined(class) => host = original
    BY <1>3 DEF LaunchExperiment, Goto, LaunchInv
  <2>2. SysctlInv'
    <3>1. CASE Disciplined(class)
      BY <1>3, <2>1, <3>1, FreshSysctl DEF LaunchExperiment, inputs
    <3>2. CASE ~Disciplined(class)
      BY <1>3, <3>2 DEF LaunchExperiment, inputs, SysctlInv
    <3>3. QED
      BY <3>1, <3>2
  <2>3. QED
    BY <1>3, <2>1, <2>2 DEF LaunchExperiment, Goto, LaunchInv, Harmless, inputs, original
<1>4. CASE ExperimentStep
  <2>1. pc = "experiment" /\ Step /\ UNCHANGED <<pc, completions>>
    BY <1>4 DEF ExperimentStep, runnerVars, progress
  <2>2. phase # "idle" /\ phase' # "idle" /\ UNCHANGED <<class, kernel, net>>
    BY <2>1, StepOfObject
  <2>3. SysctlInv'
    BY <2>1, SysctlStep DEF Next, LaunchInv
  <2>4. ASSUME Disciplined(class), completions > 0
        PROVE  host' = original /\ Harmless'
    BY <2>1, <2>2, <2>4, StoppedStep DEF LaunchInv
  <2>5. QED
    BY <2>1, <2>2, <2>3, <2>4 DEF LaunchInv, original
<1>5. CASE ExperimentReturns
  <2>1. Disciplined(class) => host = original
    BY <1>5 DEF ExperimentReturns, LaunchInv, SysctlInv, RestoredInv, Restored
  <2>2. SysctlInv'
    <3>1. CASE Disciplined(class)
      BY <1>5, <2>1, <3>1, FreshSysctl DEF ExperimentReturns, inputs
    <3>2. CASE ~Disciplined(class)
      BY <1>5, <3>2 DEF ExperimentReturns, inputs, SysctlInv
    <3>3. QED
      BY <3>1, <3>2
  <2>3. QED
    BY <1>5, <2>1, <2>2 DEF ExperimentReturns, Goto, LaunchInv, Harmless, inputs, original
<1>6. CASE StopTopo
  <2>1. SysctlInv'
    BY <1>6, QuietSysctl DEF LaunchInv, StopTopo
  <2>2. QED
    BY <1>6, <2>1 DEF LaunchInv, StopTopo, AfterStop, Goto, Harmless, original, progress
<1>7. CASE InterruptRunner
  <2>1. SysctlInv'
    <3>1. CASE pc = "experiment"
      BY <1>7, <3>1
      DEF InterruptRunner, LaunchInv, SysctlInv, ControlInv, AbsentInv, RecordInv, UntouchedInv,
          BeforeWrite, SavingInv, SavedInv, AfterSave, RestoringInv, RestoredInv, Restored,
          original
    <3>2. CASE pc # "experiment"
      BY <1>7, <3>2, QuietSysctl DEF InterruptRunner, LaunchInv
    <3>3. QED
      BY <3>1, <3>2
  <2>2. QED
    BY <1>7, <2>1 DEF InterruptRunner, LaunchInv, Harmless, original
<1>8. CASE ProcessExits /\ UNCHANGED runnerVars
  <2>1. UNCHANGED <<class, kernel, net, phase, ip, sub, key, host, saved, pc, completions>>
    BY <1>8 DEF ProcessExits, inputs, runnerVars, progress
  <2>2. SysctlInv'
    BY <2>1, QuietSysctl DEF LaunchInv
  <2>3. QED
    BY <2>1, <2>2 DEF LaunchInv, Harmless, original
<1>9. QED
  BY <1>1, <1>2, <1>3, <1>4, <1>5, <1>6, <1>7, <1>8 DEF RunnerNext, RunnerStep, QuietStep

-----------------------------------------------------------------------------

(* The inductive invariant, and the types with it: how far an experiment   *)
(* can be and what the host holds at each point of Runner's constructor    *)
(* and of the __main__ block.                                              *)
THEOREM LaunchInvariant == RunnerSpec => [](TypeOK /\ LaunchInv)
<1>1. RunnerInit => TypeOK /\ LaunchInv
  <2>1. RunnerInit => TypeOK
    BY KernelTypes, KeysAssumption DEF RunnerInit, TypeOK, Subs, Keys
  <2>2. RunnerInit => LaunchInv
    BY DEF RunnerInit, LaunchInv, BeforeLaunch, Harmless, SysctlInv, ControlInv, AbsentInv, RecordInv,
           UntouchedInv, BeforeWrite, SavingInv, SavedInv, AfterSave, RestoringInv,
           RestoredInv, Restored, original
  <2>3. QED
    BY <2>1, <2>2
<1>2. TypeOK /\ LaunchInv /\ [RunnerNext]_allVars => TypeOK' /\ LaunchInv'
  BY RunnerTypeStep, LaunchStep
<1>3. QED
  BY <1>1, <1>2, PTL DEF RunnerSpec

(* Once an experiment completed, the host keeps the sysctls it had before  *)
(* the program was started, to the end of the program: the second launch   *)
(* that Runner makes on the stopped network cannot touch them.             *)
THEOREM CompletionRestores == RunnerSpec => []RestoredAfterCompletion
<1>1. LaunchInv => RestoredAfterCompletion
  BY DEF LaunchInv, RestoredAfterCompletion
<1>2. QED
  BY <1>1, LaunchInvariant, PTL

-----------------------------------------------------------------------------
(* The launches and the temporary files                                    *)

(* Every step of the program keeps ProgramInv.                             *)
LEMMA ProgramStep ==
    ASSUME ProgramInv, [RunnerNext]_allVars
    PROVE  ProgramInv'
<1>1. TypeOK'
  BY RunnerTypeStep DEF ProgramInv, RunnerTypeOK
<1> USE DEF ProgramInv, RunnerTypeOK, Goto, PCs, BeforeLaunch, fileVars, progress
<1>2. CASE ConvertYaml \/ WriteTmpFile
  BY <1>1, <1>2 DEF ConvertYaml, WriteTmpFile
<1>3. CASE WriteFails \/ TrackTmpFile
  <2>1. CASE WriteFails
    BY <1>1, <2>1 DEF WriteFails
  <2>2. CASE TrackTmpFile
    BY <1>1, <2>2 DEF TrackTmpFile
  <2> QED
    BY <1>3, <2>1, <2>2
<1>4. CASE UseLegacyFile \/ ParseTopology \/ BuildTopology \/ OpenCli
  BY <1>1, <1>4 DEF UseLegacyFile, ParseTopology, BuildTopology, OpenCli
<1>5. CASE LoadFails \/ ParseFails \/ UnknownTopology \/ ConfigureFails \/ UnknownExperiment
           \/ ExperimentRaises
  <2>1. \E from \in {"load", "parse", "build", "configure", "lookup", "experiment"} :
            RunnerRaise(from)
    BY <1>5 DEF LoadFails, ParseFails, UnknownTopology, ConfigureFails, UnknownExperiment,
                ExperimentRaises
  <2> QED
    BY <1>1, <2>1 DEF RunnerRaise
<1>6. CASE StartNetwork \/ StartFails
  BY <1>1, <1>6 DEF StartNetwork, StartFails
<1>7. CASE ConfigureNetwork
  BY <1>1, <1>7 DEF ConfigureNetwork
<1>8. CASE LaunchExperiment
  BY <1>1, <1>8 DEF LaunchExperiment
<1>9. CASE ExperimentStep \/ (ProcessExits /\ UNCHANGED runnerVars) \/ UNCHANGED allVars
  <2>1. UNCHANGED runnerVars
    BY <1>9 DEF ExperimentStep, allVars
  <2> QED
    BY <1>1, <2>1 DEF runnerVars
<1>10. CASE ExperimentReturns
  BY <1>1, <1>10 DEF ExperimentReturns
<1>11. CASE StopTopo
  <2>1. /\ pc = "stop" /\ ((pc' = "lookup" /\ launches = 1) \/ pc' = "returned")
        /\ tmpFiles' = tmpFiles \ tracked /\ tracked' = {} /\ abandoned' = abandoned
        /\ UNCHANGED <<job, launches, completions, fatal, interrupted>>
    BY <1>11 DEF StopTopo, AfterStop, CleanupTmpFiles
  <2>2. CASE pc' = "lookup" /\ launches = 1
    <3>1. RunnerTypeOK'
      BY <1>1, <2>1, <2>2
    <3>2. ~interrupted' => tmpFiles' = tracked' \cup abandoned'
      BY <2>1
    <3> QED
      BY <2>1, <2>2, <3>1, <3>2
  <2>3. CASE pc' = "returned"
    BY <1>1, <2>1, <2>3
  <2> QED
    BY <2>1, <2>2, <2>3
<1>12. CASE StopFails
  <2>1. /\ pc = "stop" /\ pc' = "raised"
        /\ tmpFiles' = tmpFiles \ tracked /\ tracked' = {} /\ abandoned' = abandoned
        /\ UNCHANGED <<job, launches, completions, fatal, interrupted>>
    BY <1>12 DEF StopFails, CleanupTmpFiles
  <2> QED
    BY <1>1, <2>1
<1>13. CASE DeleteRunner
  BY <1>1, <1>13 DEF DeleteRunner, CleanupTmpFiles
<1>14. CASE AfterInterrupt
  BY <1>1, <1>14 DEF AfterInterrupt
<1>15. CASE Cleanup
  BY <1>1, <1>15 DEF Cleanup, CleanupTmpFiles
<1>16. CASE InterruptRunner
  BY <1>1, <1>16 DEF InterruptRunner, CleanupTmpFiles
<1>17. QED
  BY <1>2, <1>3, <1>4, <1>5, <1>6, <1>7, <1>8, <1>9, <1>10, <1>11, <1>12, <1>13, <1>14, <1>15,
     <1>16
  DEF RunnerNext, RunnerStep

(* The program launches its experiment twice at most, and outside the      *)
(* conversion it knows the temporary file it has to remove, unless the     *)
(* writing of the file raised or the user interrupted the program.         *)
THEOREM ProgramInvariant == RunnerSpec => []ProgramInv
<1>1. RunnerInit => ProgramInv
  <2> SUFFICES ASSUME RunnerInit PROVE ProgramInv
    OBVIOUS
  <2>1. TypeOK
    BY KernelTypes, KeysAssumption DEF RunnerInit, TypeOK, Subs, Keys
  <2>2. RunnerTypeOK
    <3>1. 0 \in 0..2
      OBVIOUS
    <3> QED
      BY <2>1, <3>1, Zenon DEF RunnerInit, RunnerTypeOK, PCs
  <2> QED
    BY <2>2 DEF RunnerInit, ProgramInv, BeforeLaunch
<1>2. ProgramInv /\ [RunnerNext]_allVars => ProgramInv'
  BY ProgramStep
<1>3. QED
  BY <1>1, <1>2, PTL DEF RunnerSpec

(* A program that nobody interrupts leaves no temporary file behind but    *)
(* one whose writing raised: the finally clause of stop_topo or __del__    *)
(* removes it, wherever else the constructor raised.                       *)
THEOREM NoFileLeft == RunnerSpec => []TmpFilesRemoved
<1>1. ProgramInv => TmpFilesRemoved
  BY DEF ProgramInv, TmpFilesRemoved
<1>2. QED
  BY <1>1, ProgramInvariant, PTL
=============================================================================
