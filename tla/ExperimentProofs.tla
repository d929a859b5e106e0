-------------------------- MODULE ExperimentProofs --------------------------
(***************************************************************************)
(* Proofs about Experiment, for every number of sysctls, every host, every *)
(* parameter file and every set of classes.                                *)
(***************************************************************************)
EXTENDS Experiment, TLAPS

(* What KernelAssumption says of one host.                                 *)
LEMMA KernelTypes ==
    ASSUME NEW h \in Kernels
    PROVE  /\ h.original \in [Keys -> Values \cup {Absent}]
           /\ h.accepts \in [Keys -> SUBSET Values]
           /\ \A k \in Keys : h.original[k] \in h.accepts[k] \cup {Absent}
  BY KernelAssumption

(* What a write leaves in the host, whatever is written.                   *)
LEMMA SysctlWriteType ==
    ASSUME TypeOK, NEW k \in Keys, NEW v
    PROVE  SysctlWrite(k, v) \in [Keys -> Values \cup {Absent}]
  <1>1. kernel.accepts \in [Keys -> SUBSET Values]
    BY KernelTypes DEF TypeOK
  <1>2. QED
    BY <1>1 DEF SysctlWrite, TypeOK

(* The operation an experiment is at is one of Ops.                        *)
LEMMA OpType ==
    ASSUME TypeOK, phase \in Phases, ip \in DOMAIN class[phase]
    PROVE  /\ Op \in Ops
           /\ Op.op = "spawn" => Op.what \in Artefacts
           /\ Len(class[phase]) \in Nat
  <1>1. class[phase] \in Seq(Ops)
    BY ClassAssumption DEF TypeOK
  <1>2. QED
    BY <1>1, ClassAssumption DEF Op, TypeOK

(* Every step keeps the types: no operation of any class, in any order,    *)
(* takes the state out of them.                                            *)
LEMMA TypeStep ==
    ASSUME TypeOK, [Next]_vars
    PROVE  TypeOK'
<1> USE KeysAssumption
<1>1. ASSUME Raise PROVE TypeOK'
  BY <1>1 DEF Raise, TypeOK, inputs
<1>2. CASE CallBase
  BY <1>2 DEF CallBase, TypeOK, inputs, Subs, Keys
<1>3. CASE Command
  BY <1>3 DEF Command, TypeOK, inputs
<1>4. CASE Spawn
  <2>1. artefacts' \subseteq Artefacts
    BY <1>4, OpType DEF Spawn, AtOp, Doing, TypeOK, Op
  <2>2. QED
    BY <1>4, <2>1 DEF Spawn, TypeOK, inputs
<1>5. CASE Kill
  BY <1>5 DEF Kill, TypeOK, inputs
<1>6. CASE SetSysctl
  <2>1. Op.key \in Keys
    BY <1>6, OpType DEF SetSysctl, AtOp, Doing, Ops
  <2>2. host' \in [Keys -> Values \cup {Absent}]
    BY <1>6, <2>1, SysctlWriteType DEF SetSysctl
  <2>3. QED
    BY <1>6, <2>2 DEF SetSysctl, TypeOK, inputs
<1>7. CASE NeedMet
  BY <1>7 DEF NeedMet, TypeOK, inputs
<1>8. CASE Try
  <2>1. Len(class[phase]) \in Nat
    BY <1>8, OpType DEF Try, AtOp, Doing
  <2>2. QED
    BY <1>8, <2>1 DEF Try, TypeOK, inputs
<1>9. CASE EndPhase
  BY <1>9 DEF EndPhase, Doing, TypeOK, inputs, Phases
<1>10. CASE SaveKey
  <2>1. Recorded(key) \in Values \cup {ErrorText, NotSaved}
    BY <1>10 DEF SaveKey, Recorded, TypeOK, Keys
  <2>2. QED
    BY <1>10, <2>1 DEF SaveKey, TypeOK, inputs, Keys
<1>11. CASE WriteKey
  <2>1. key \in Keys
    BY <1>11 DEF WriteKey, TypeOK, Keys
  <2>2. host' \in [Keys -> Values \cup {Absent}]
    BY <1>11, <2>1, SysctlWriteType DEF WriteKey, TypeOK
  <2>3. QED
    BY <1>11, <2>1, <2>2 DEF WriteKey, TypeOK, inputs, Keys
<1>12. CASE LoopEnds
  BY <1>12 DEF LoopEnds, TypeOK, inputs, Subs
<1>13. CASE RunUserspacePathManager
  BY <1>13, ArtefactAssumption
  DEF RunUserspacePathManager, PathManagers, TypeOK, inputs, Subs, Artefacts
<1>14. CASE PutPriorityOnPaths
  BY <1>14 DEF PutPriorityOnPaths, TypeOK, inputs, Subs
<1>15. CASE RunTcpdump
  BY <1>15, ArtefactAssumption DEF RunTcpdump, TypeOK, inputs, Subs, Artefacts
<1>16. CASE RunNetemAt
  BY <1>16, ArtefactAssumption DEF RunNetemAt, NetemChains, TypeOK, inputs, Subs, Artefacts
<1>17. CASE KillTcpdump
  BY <1>17 DEF KillTcpdump, TypeOK, inputs, Subs
<1>18. CASE RestoreKey
  <2>1. key \in Keys
    BY <1>18 DEF RestoreKey, TypeOK, Keys
  <2>2. host' \in [Keys -> Values \cup {Absent}]
    BY <1>18, <2>1, SysctlWriteType DEF RestoreKey, TypeOK
  <2>3. QED
    BY <1>18, <2>1, <2>2 DEF RestoreKey, TypeOK, inputs, Keys
<1>19. CASE CleanUserspacePathManager
  BY <1>19 DEF CleanUserspacePathManager, TypeOK, inputs, Subs
<1>20. CASE ProcessExits
  BY <1>20 DEF ProcessExits, TypeOK, inputs
<1>21. CASE UNCHANGED vars
  BY <1>21 DEF TypeOK, vars
<1>22. CASE NeedFails \/ RaiseOp \/ PutPriorityOnPathsRaises \/ NodeGone \/ Interrupt
  BY <1>1, <1>22
  DEF NeedFails, RaiseOp, PutPriorityOnPathsRaises, NodeGone, Interrupt
<1>23. QED
  BY <1>2, <1>3, <1>4, <1>5, <1>6, <1>7, <1>8, <1>9, <1>10, <1>11, <1>12, <1>13,
     <1>14, <1>15, <1>16, <1>17, <1>18, <1>19, <1>20, <1>21, <1>22
  DEF Next, Step, ClassStep, BaseStep

(* The type invariant of an experiment, whatever its class does.           *)
THEOREM TypeCorrect == Spec => []TypeOK
<1>1. Init => TypeOK
  BY KernelTypes, KeysAssumption DEF Init, TypeOK, Phases, Subs, Keys
<1>2. TypeOK /\ [Next]_vars => TypeOK'
  BY TypeStep
<1>3. QED
  BY <1>1, <1>2, PTL DEF Spec

-----------------------------------------------------------------------------

(* Writing the expected record of a sysctl gives it back its old value and *)
(* leaves the others alone.                                                *)
LEMMA WriteBack ==
    ASSUME TypeOK, AbsentInv, NEW k \in Keys, saved[k] = Expected(k),
           NEW h, h = IF saved[k] = NotSaved THEN host ELSE SysctlWrite(k, saved[k])
    PROVE  /\ h[k] = original[k]
           /\ \A j \in Keys : j # k => h[j] = host[j]
  <1>1. /\ kernel.original \in [Keys -> Values \cup {Absent}]
        /\ kernel.accepts \in [Keys -> SUBSET Values]
        /\ kernel.original[k] \in kernel.accepts[k] \cup {Absent}
    BY KernelTypes DEF TypeOK
  <1>2. host \in [Keys -> Values \cup {Absent}]
    BY DEF TypeOK
  <1>3. CASE original[k] = Absent
    <2>1. host[k] = Absent
      BY <1>3 DEF AbsentInv
    <2>2. h = host
      BY <2>1 DEF SysctlWrite
    <2>3. QED
      BY <2>1, <2>2, <1>3
  <1>4. CASE original[k] # Absent
    <2>1. saved[k] = original[k] /\ host[k] # Absent
      BY <1>4 DEF Expected, AbsentInv
    <2>2. saved[k] \in kernel.accepts[k] /\ saved[k] # NotSaved
      BY <1>1, <1>4, <2>1, SentinelAssumption DEF original
    <2>3. h = [host EXCEPT ![k] = original[k]]
      BY <2>1, <2>2 DEF SysctlWrite
    <2>4. QED
      BY <2>3, <1>2
  <1>5. QED
    BY <1>3, <1>4

(* A write never makes a sysctl appear or disappear, and changes only its  *)
(* own.                                                                    *)
LEMMA WriteKeepsAbsent ==
    ASSUME TypeOK, AbsentInv, NEW k \in Keys, NEW v,
           NEW h, h = SysctlWrite(k, v)
    PROVE  /\ \A j \in Keys : h[j] = Absent <=> original[j] = Absent
           /\ \A j \in Keys : j # k => h[j] = host[j]
           /\ original[k] = Absent => h[k] = original[k]
  <1>1. kernel.accepts \in [Keys -> SUBSET Values]
    BY KernelTypes DEF TypeOK
  <1>2. host \in [Keys -> Values \cup {Absent}]
    BY DEF TypeOK
  <1>3. QED
    BY <1>1, <1>2, SentinelAssumption DEF SysctlWrite, AbsentInv

(* The parts of SysctlInv, without its hypothesis.                         *)
Parts ==
    /\ ControlInv /\ AbsentInv /\ RecordInv /\ UntouchedInv
    /\ SavingInv /\ SavedInv /\ RestoringInv /\ RestoredInv

(* An operation that is not the call of the base class, and that leaves    *)
(* the sysctls and their records alone.                                    *)
LEMMA OtherOp ==
    ASSUME TypeOK, Disciplined(class), Parts, NEW name \in OpNames \ {"base"},
           AtOp(name), ip' = ip + 1,
           UNCHANGED <<class, kernel, phase, sub, key, host, saved>>
    PROVE  Parts'
  <1>1. /\ phase \in Phases /\ sub = "op" /\ ip \in Nat \ {0}
        /\ class[phase][ip].op # "base"
    BY DEF AtOp, Doing, TypeOK
  <1>2. phase = "prepare" => ip > 1
    BY <1>1 DEF Disciplined
  <1>3. ControlInv'
    BY <1>1 DEF Parts, ControlInv
  <1>4. AbsentInv' /\ RecordInv'
    BY DEF Parts, AbsentInv, RecordInv, original
  <1>5. UntouchedInv'
    BY <1>1, <1>2 DEF Parts, UntouchedInv, BeforeWrite, original
  <1>6. SavingInv' /\ RestoringInv'
    BY <1>1 DEF SavingInv, RestoringInv
  <1>7. SavedInv'
    BY <1>1, <1>2 DEF Parts, SavedInv, AfterSave, Expected, original
  <1>8. RestoredInv'
    <2>1. class["clean"] \in Seq(Ops)
      BY ClassAssumption DEF TypeOK, Phases
    <2>2. phase = "clean" =>
            \A j \in DOMAIN class["clean"] :
                j < ip + 1 /\ class["clean"][j].op = "base" => j < ip
      BY <1>1, <2>1
    <2>3. Restored' => Restored
      BY <1>1, <2>2 DEF Restored
    <2>4. QED
      BY <2>3 DEF Parts, RestoredInv, original
  <1>9. QED
    BY <1>3, <1>4, <1>5, <1>6, <1>7, <1>8 DEF Parts

(* Every step of a disciplined experiment keeps SysctlInv.                 *)
LEMMA SysctlStep ==
    ASSUME TypeOK, SysctlInv, [Next]_vars
    PROVE  SysctlInv'
<1>1. UNCHANGED <<class, kernel, file>>
  BY DEF Next, Step, ClassStep, BaseStep, CallBase, Command, Spawn, Kill, SetSysctl,
         NeedMet, NeedFails, Try, RaiseOp, EndPhase, SaveKey, WriteKey, LoopEnds,
         RunUserspacePathManager, PutPriorityOnPaths, PutPriorityOnPathsRaises,
         RunTcpdump, RunNetemAt, KillTcpdump, RestoreKey, CleanUserspacePathManager,
         NodeGone, Interrupt, ProcessExits, Raise, inputs, vars
<1> SUFFICES ASSUME Disciplined(class) PROVE Parts'
  BY <1>1 DEF SysctlInv, Parts
<1>2. Parts
  BY DEF SysctlInv, Parts
<1>3. ip \in Nat \ {0} /\ key \in 1..(NKeys + 1) /\ NKeys \in Nat
  BY KeysAssumption DEF TypeOK
<1>4. ASSUME Raise PROVE Parts'
  BY <1>1, <1>2, <1>4
  DEF Raise, Parts, ControlInv, AbsentInv, RecordInv, UntouchedInv, BeforeWrite, SavingInv,
      SavedInv, AfterSave, RestoringInv, RestoredInv, Restored, original
<1>5. CASE Command \/ Spawn \/ Kill \/ NeedMet
  <2>1. PICK name \in OpNames \ {"base"} : AtOp(name)
    BY <1>5 DEF Command, Spawn, Kill, NeedMet, OpNames
  <2>2. QED
    BY <1>2, <1>5, <2>1, OtherOp DEF Command, Spawn, Kill, NeedMet, inputs
<1>6. CASE Try
  <2>1. phase \in Phases /\ sub = "op" /\ class[phase][ip].op = "try"
    BY <1>6 DEF Try, AtOp, Doing
  <2>2. phase # "clean" /\ (phase = "prepare" => ip > 1)
    BY <1>3, <1>6, <2>1 DEF Try, AtOp, Disciplined
  <2>3. Len(class[phase]) \in Nat /\ ip \in 1..Len(class[phase])
    <3>1. class[phase] \in Seq(Ops)
      BY <2>1, ClassAssumption DEF TypeOK
    <3>2. QED
      BY <3>1, <1>6 DEF Try, AtOp
  <2>4. phase = "prepare" => ip' > 1
    BY <1>6, <2>2, <2>3 DEF Try
  <2>5. QED
    BY <1>1, <1>2, <1>6, <2>1, <2>2, <2>4
    DEF Try, Parts, ControlInv, AbsentInv, RecordInv, UntouchedInv, BeforeWrite, SavingInv,
        SavedInv, AfterSave, Expected, RestoringInv, RestoredInv, Restored, original, inputs, Phases
<1>7. CASE SetSysctl
  <2>1. phase \in Phases /\ sub = "op" /\ class[phase][ip].op = "set"
    BY <1>7 DEF SetSysctl, AtOp, Doing
  <2>2. phase \in {"prepare", "run"} /\ (phase = "prepare" => ip > 1)
    BY <1>3, <1>7, <2>1 DEF SetSysctl, AtOp, Disciplined, Phases
  <2>3. Op.key \in Keys
    BY <1>7, OpType DEF SetSysctl, AtOp, Doing, Ops
  <2>4. \A k \in Keys : saved[k] = Expected(k)
    BY <1>2, <2>2 DEF Parts, SavedInv, AfterSave
  <2>5. \A k \in Keys : host'[k] = Absent <=> original[k] = Absent
    BY <1>2, <1>7, <2>3, WriteKeepsAbsent DEF SetSysctl, Parts
  <2>6. \A k \in Keys : original[k] = Absent => host'[k] = original[k]
    BY <2>5
  <2>7. RecordInv' /\ AbsentInv'
    BY <1>1, <1>7, <2>4, <2>5, <2>6 DEF SetSysctl, RecordInv, AbsentInv, Expected, original
  <2>8. QED
    BY <1>1, <1>2, <1>3, <1>7, <2>1, <2>2, <2>4, <2>7
    DEF SetSysctl, Parts, ControlInv, UntouchedInv, BeforeWrite, SavingInv,
        SavedInv, AfterSave, Expected, RestoringInv, RestoredInv, Restored, original, inputs
<1>8. CASE CallBase
  <2>1. /\ phase \in Phases /\ sub = "op" /\ ip \in DOMAIN class[phase]
        /\ class[phase][ip].op = "base"
    BY <1>8 DEF CallBase, AtOp, Doing
  <2>2. phase \in {"prepare", "clean"} /\ (phase = "prepare" => ip = 1)
    BY <1>3, <2>1 DEF Disciplined, Phases
  <2>3. QED
    BY <1>1, <1>2, <1>3, <1>8, <2>1, <2>2
    DEF CallBase, Parts, ControlInv, AbsentInv, RecordInv, UntouchedInv, BeforeWrite, SavingInv,
        SavedInv, AfterSave, Expected, RestoringInv, RestoredInv, Restored, original, inputs, Keys
<1>9. CASE EndPhase
  <2>1. phase \in Phases /\ sub = "op" /\ ip = Len(class[phase]) + 1 /\ ip' = 1 /\ sub' = "op"
    BY <1>9 DEF EndPhase, Doing
  <2>2. class[phase] \in Seq(Ops)
    BY <2>1, ClassAssumption DEF TypeOK
  <2>3. phase = "prepare" => ip > 1
    <3>1. phase = "prepare" => 1 \in DOMAIN class[phase]
      BY DEF Disciplined
    <3>2. QED
      BY <2>1, <2>2, <3>1
  <2>4. phase = "clean" => Restored
    <3>1. phase = "clean" => \E j \in DOMAIN class[phase] : class[phase][j].op = "base"
      BY DEF Disciplined
    <3>2. \A j \in DOMAIN class[phase] : j < ip
      BY <2>1, <2>2
    <3>3. QED
      BY <3>1, <3>2 DEF Restored
  <2>5. phase' \in {"prepare", "run", "clean", "done"} /\ UNCHANGED <<host, saved>>
    BY <1>9 DEF EndPhase
  <2>6. ControlInv' /\ SavingInv' /\ RestoringInv'
    BY <2>1, <2>5 DEF ControlInv, SavingInv, RestoringInv
  <2>7. AbsentInv' /\ RecordInv'
    BY <1>1, <1>2, <2>5 DEF Parts, AbsentInv, RecordInv, original
  <2>8. UntouchedInv'
    BY <1>1, <1>2, <1>9, <2>5 DEF EndPhase, Parts, UntouchedInv, BeforeWrite, original
  <2>9. SavedInv'
    BY <1>1, <1>2, <1>9, <2>1, <2>3, <2>5
    DEF EndPhase, Parts, SavedInv, AfterSave, Expected, original
  <2>10. RestoredInv'
    <3>1. class["clean"] \in Seq(Ops)
      BY ClassAssumption DEF TypeOK, Phases
    <3>2. \A j \in DOMAIN class["clean"] : ~(j < 1)
      BY <3>1
    <3>3. Restored' => phase' = "done"
      BY <1>1, <2>1, <3>2 DEF Restored
    <3>4. phase' = "done" => phase = "clean"
      BY <1>9 DEF EndPhase
    <3>5. QED
      BY <1>1, <1>2, <2>4, <2>5, <3>3, <3>4 DEF Parts, RestoredInv, original
  <2>11. QED
    BY <2>6, <2>7, <2>8, <2>9, <2>10 DEF Parts
<1>10. ASSUME Doing("save") \/ Doing("write") \/ Doing("pathManager") \/ Doing("priority")
              \/ Doing("tcpdump") \/ Doing("netem")
       PROVE  phase = "prepare" /\ ip = 1
  <2>1. phase = "prepare"
    BY <1>2, <1>10 DEF Doing, Parts, ControlInv, Phases
  <2>2. QED
    BY <1>2, <1>3, <1>10, <2>1 DEF Doing, Parts, ControlInv, Disciplined
<1>11. ASSUME Doing("killTcpdump") \/ Doing("restore") \/ Doing("cleanPathManager")
       PROVE  /\ phase = "clean"
              /\ ip \in DOMAIN class.clean
              /\ class.clean[ip].op = "base"
  BY <1>2, <1>11 DEF Doing, Parts, ControlInv, Phases
<1>12. CASE SaveKey
  <2>1. phase = "prepare" /\ ip = 1 /\ sub = "save" /\ key \in Keys
    BY <1>3, <1>10, <1>12 DEF SaveKey, Doing, Keys
  <2>2. host = original
    BY <1>2, <2>1 DEF Parts, UntouchedInv, BeforeWrite
  <2>3. Recorded(key) = Expected(key)
    BY <2>2 DEF Recorded, Expected
  <2>4. \A k \in Keys : saved'[k] = IF k = key THEN Expected(key) ELSE saved[k]
    BY <1>12, <2>3 DEF SaveKey, TypeOK
  <2>5. \A k \in Keys : k < key' => saved'[k] = Expected(k)
    <3>1. \A k \in Keys : k < key + 1 => k = key \/ k < key
      BY <1>3 DEF Keys
    <3>2. QED
      BY <1>2, <1>12, <2>1, <2>4, <3>1 DEF SaveKey, Parts, SavingInv
  <2>6. QED
    BY <1>1, <1>2, <1>12, <2>1, <2>2, <2>5 DEF SaveKey, Parts, ControlInv, AbsentInv, RecordInv, UntouchedInv, BeforeWrite, SavingInv,
        SavedInv, AfterSave, Expected, RestoringInv, RestoredInv, Restored, original, inputs
<1>13. CASE WriteKey
  <2>1. phase = "prepare" /\ ip = 1 /\ sub = "write" /\ key \in Keys
    BY <1>3, <1>10, <1>13 DEF WriteKey, Doing, Keys
  <2>2. \A k \in Keys : saved[k] = Expected(k)
    BY <1>2, <2>1 DEF Parts, SavedInv, AfterSave
  <2>3. \A k \in Keys : host'[k] = Absent <=> original[k] = Absent
    BY <1>2, <1>13, <2>1, WriteKeepsAbsent DEF WriteKey, Parts, AbsentInv
  <2>4. AbsentInv' /\ RecordInv'
    BY <1>1, <1>13, <2>2, <2>3 DEF WriteKey, AbsentInv, RecordInv, Expected, original
  <2>5. QED
    BY <1>1, <1>2, <1>13, <2>1, <2>2, <2>4 DEF WriteKey, Parts, ControlInv, AbsentInv, RecordInv, UntouchedInv, BeforeWrite, SavingInv,
        SavedInv, AfterSave, Expected, RestoringInv, RestoredInv, Restored, original, inputs
<1>14. CASE LoopEnds
  <2>1. \A k \in Keys : k < key
    BY <1>3, <1>14 DEF LoopEnds, Keys
  <2>2. CASE Doing("save") /\ sub' = "write"
    <3>1. phase = "prepare" /\ ip = 1 /\ sub = "save"
      BY <1>10, <2>2 DEF Doing
    <3>2. \A k \in Keys : saved[k] = Expected(k)
      BY <1>2, <2>1, <3>1 DEF Parts, SavingInv
    <3>3. QED
      BY <1>1, <1>2, <1>14, <2>2, <3>1, <3>2 DEF LoopEnds, Parts, ControlInv, AbsentInv, RecordInv, UntouchedInv, BeforeWrite, SavingInv,
        SavedInv, AfterSave, Expected, RestoringInv, RestoredInv, Restored, original, inputs
  <2>3. CASE Doing("write") /\ sub' = "pathManager"
    <3>1. phase = "prepare" /\ ip = 1 /\ sub = "write"
      BY <1>10, <2>3 DEF Doing
    <3>2. QED
      BY <1>1, <1>2, <1>14, <2>3, <3>1 DEF LoopEnds, Parts, ControlInv, AbsentInv, RecordInv, UntouchedInv, BeforeWrite, SavingInv,
        SavedInv, AfterSave, Expected, RestoringInv, RestoredInv, Restored, original, inputs
  <2>4. CASE Doing("restore") /\ sub' = "cleanPathManager"
    <3>1. phase = "clean" /\ sub = "restore"
      BY <1>11, <2>4 DEF Doing
    <3>2. host = original
      <4>1. \A k \in Keys : host[k] = original[k]
        BY <1>2, <2>1, <3>1 DEF Parts, RestoringInv
      <4>2. host \in [Keys -> Values \cup {Absent}] /\ original \in [Keys -> Values \cup {Absent}]
        BY KernelTypes DEF TypeOK, original
      <4>3. QED
        BY <4>1, <4>2
    <3>3. QED
      BY <1>1, <1>2, <1>11, <1>14, <2>4, <3>1, <3>2 DEF LoopEnds, Parts, ControlInv, AbsentInv, RecordInv, UntouchedInv, BeforeWrite, SavingInv,
        SavedInv, AfterSave, Expected, RestoringInv, RestoredInv, Restored, original, inputs
  <2>5. QED
    BY <1>14, <2>2, <2>3, <2>4 DEF LoopEnds
<1>15. CASE RunUserspacePathManager \/ PutPriorityOnPaths \/ RunTcpdump \/ RunNetemAt
  <2>1. phase = "prepare" /\ ip = 1 /\ sub \in {"pathManager", "priority", "tcpdump", "netem"}
    BY <1>10, <1>15
    DEF RunUserspacePathManager, PutPriorityOnPaths, RunTcpdump, RunNetemAt, Doing
  <2>2. /\ UNCHANGED <<class, kernel, phase, key, host, saved>>
        /\ \/ sub' \in {"priority", "tcpdump", "netem"} /\ ip' = ip
           \/ sub' = "op" /\ ip' = ip + 1
    BY <1>15
    DEF RunUserspacePathManager, PutPriorityOnPaths, RunTcpdump, RunNetemAt, inputs
  <2>3. QED
    BY <1>2, <2>1, <2>2 DEF Parts, ControlInv, AbsentInv, RecordInv, UntouchedInv, BeforeWrite, SavingInv,
        SavedInv, AfterSave, Expected, RestoringInv, RestoredInv, Restored, original, inputs
<1>16. CASE KillTcpdump
  <2>1. phase = "clean" /\ sub = "killTcpdump"
    BY <1>11, <1>16 DEF KillTcpdump, Doing
  <2>2. \A k \in Keys : ~(k < 1)
    BY DEF Keys
  <2>3. QED
    BY <1>1, <1>2, <1>11, <1>16, <2>1, <2>2 DEF KillTcpdump, Parts, ControlInv, AbsentInv, RecordInv, UntouchedInv, BeforeWrite, SavingInv,
        SavedInv, AfterSave, Expected, RestoringInv, RestoredInv, Restored, original, inputs
<1>17. CASE RestoreKey
  <2>1. phase = "clean" /\ sub = "restore" /\ key \in Keys
    BY <1>3, <1>11, <1>17 DEF RestoreKey, Doing, Keys
  <2>2. \A k \in Keys : saved[k] = Expected(k)
    BY <1>2, <2>1 DEF Parts, SavedInv, AfterSave
  <2>3. /\ host'[key] = original[key]
        /\ \A j \in Keys : j # key => host'[j] = host[j]
    BY <1>2, <1>17, <2>1, <2>2, WriteBack DEF RestoreKey, Parts
  <2>4. \A k \in Keys : k < key' => host'[k] = original[k]
    <3>1. \A k \in Keys : k < key + 1 => k = key \/ k < key
      BY <1>3 DEF Keys
    <3>2. QED
      BY <1>2, <1>17, <2>1, <2>3, <3>1 DEF RestoreKey, Parts, RestoringInv
  <2>5. host = original => host' = original
    <3>1. host' \in [Keys -> Values \cup {Absent}]
      BY <1>17, <2>1, SysctlWriteType DEF RestoreKey, TypeOK
    <3>2. original \in [Keys -> Values \cup {Absent}]
      BY KernelTypes DEF TypeOK, original
    <3>3. QED
      BY <2>3, <3>1, <3>2
  <2>6. AbsentInv' /\ RecordInv'
    BY <1>1, <1>2, <1>17, <2>2, <2>3 DEF RestoreKey, AbsentInv, RecordInv, Parts, original
  <2>7. QED
    BY <1>1, <1>2, <1>11, <1>17, <2>1, <2>2, <2>4, <2>5, <2>6 DEF RestoreKey, Parts, ControlInv,
        UntouchedInv, BeforeWrite, SavingInv, SavedInv, AfterSave, Expected, RestoringInv,
        RestoredInv, Restored, original, inputs
<1>18. CASE CleanUserspacePathManager
  <2>1. phase = "clean" /\ sub = "cleanPathManager"
    BY <1>11, <1>18 DEF CleanUserspacePathManager, Doing
  <2>2. host = original
    BY <1>2, <2>1 DEF Parts, RestoredInv, Restored
  <2>3. QED
    BY <1>1, <1>2, <1>18, <2>1, <2>2 DEF CleanUserspacePathManager, Parts, ControlInv, AbsentInv, RecordInv, UntouchedInv, BeforeWrite, SavingInv,
        SavedInv, AfterSave, Expected, RestoringInv, RestoredInv, Restored, original, inputs
<1>19. CASE ProcessExits \/ UNCHANGED vars
  BY <1>2, <1>19 DEF ProcessExits, vars, Parts, ControlInv, AbsentInv, RecordInv, UntouchedInv, BeforeWrite, SavingInv,
        SavedInv, AfterSave, Expected, RestoringInv, RestoredInv, Restored, original, inputs
<1>20. CASE NeedFails \/ RaiseOp \/ PutPriorityOnPathsRaises \/ NodeGone \/ Interrupt
  BY <1>4, <1>20
  DEF NeedFails, RaiseOp, PutPriorityOnPathsRaises, NodeGone, Interrupt
<1>21. QED
  BY <1>5, <1>6, <1>7, <1>8, <1>9, <1>12, <1>13, <1>14, <1>15, <1>16, <1>17, <1>18, <1>19, <1>20
  DEF Next, Step, ClassStep, BaseStep

-----------------------------------------------------------------------------

(* The invariant holds in every state of every experiment.                 *)
THEOREM SysctlInvariant == Spec => []SysctlInv
<1>1. Init => SysctlInv
  BY KernelTypes, KeysAssumption
  DEF Init, SysctlInv, ControlInv, AbsentInv, RecordInv, UntouchedInv, BeforeWrite, SavingInv,
      SavedInv, AfterSave, RestoringInv, RestoredInv, Restored, original
<1>2. TypeOK /\ SysctlInv /\ [Next]_vars => SysctlInv'
  BY SysctlStep
<1>3. QED
  BY <1>1, <1>2, TypeCorrect, PTL DEF Spec

(* classic_run of a disciplined class gives every sysctl its old value     *)
(* back before it returns: restore_sysctl after any sequence of writes.    *)
THEOREM Restoration == Spec => []RestoredWhenDone
<1>1. SysctlInv => RestoredWhenDone
  BY DEF SysctlInv, RestoredWhenDone, RestoredInv, Restored
<1>2. QED
  BY <1>1, SysctlInvariant, PTL

(* At every moment, and wherever an exception or an interrupt ends the     *)
(* run, the old value of a changed sysctl is in sysctl_to_restore.         *)
THEOREM NothingLost == Spec => []RecordedBeforeChanged
<1>1. SysctlInv => RecordedBeforeChanged
  BY DEF SysctlInv, RecordedBeforeChanged, RecordInv
<1>2. QED
  BY <1>1, SysctlInvariant, PTL
-----------------------------------------------------------------------------
(* What clean leaves behind                                                *)

(* The parts of TidyInv, without its hypothesis.                           *)
TidyParts ==
    /\ CleanInv
    /\ ReturnsInv
    /\ Returns(class) => ManagersInv /\ RandomInv /\ StoppedInv

(* A step within a method that neither ends an operation nor starts        *)
(* anything.                                                               *)
LEMMA TidyStay ==
    ASSUME TidyParts, UNCHANGED <<class, file, phase, ip>>,
           artefacts' \subseteq artefacts, CleanInv',
           (phase = "clean" /\ sub' \in {"restore", "cleanPathManager"})
               => artefacts' \cap Tcpdumps = {}
    PROVE  TidyParts'
  <1>1. ReturnsInv'
    BY DEF TidyParts, ReturnsInv, Returns
  <1>2. ASSUME Returns(class) PROVE ManagersInv' /\ RandomInv' /\ StoppedInv'
    BY <1>2 DEF TidyParts, ManagersInv, PathManagers, NetemChains, Has, RandomInv, StoppedInv,
                Tcpdumps
  <1>3. QED
    BY <1>1, <1>2 DEF TidyParts, Returns

(* A step that ends in a method other than clean: only what it starts has  *)
(* to be looked at.                                                        *)
LEMMA TidyOutside ==
    ASSUME UNCHANGED <<class, file>>, phase' \notin {"clean", "done"},
           Returns(class) => ManagersInv' /\ RandomInv'
    PROVE  TidyParts'
  BY DEF TidyParts, CleanInv, ReturnsInv, Returns, StoppedInv

(* Steps outside clean that start nothing but what the base class starts.  *)
LEMMA TidyBefore ==
    ASSUME TidyParts, UNCHANGED <<class, file>>, phase' \notin {"clean", "done"},
           artefacts' \subseteq artefacts \cup PathManagers \cup NetemChains \cup {"tcpdump"}
    PROVE  TidyParts'
  <1>1. ASSUME Returns(class) PROVE ManagersInv'
    BY <1>1 DEF TidyParts, ManagersInv, PathManagers, NetemChains, Has
  <1>2. ASSUME Returns(class) PROVE RandomInv'
    <2>1. "random" \in artefacts' => "random" \in artefacts
      BY DEF PathManagers, NetemChains
    <2>2. QED
      BY <1>2, <2>1 DEF TidyParts, RandomInv
  <1>3. QED
    BY <1>1, <1>2, TidyOutside

(* The operations of clean before and after the next one.                  *)
LEMMA CleanIndices ==
    ASSUME TypeOK
    PROVE  \A i \in DOMAIN class.clean :
              /\ i >= ip => i = ip \/ i >= ip + 1
              /\ i < ip + 1 => i = ip \/ i < ip
  <1>1. class["clean"] \in Seq(Ops)
    BY ClassAssumption DEF TypeOK, Phases
  <1>2. ip \in Nat
    BY DEF TypeOK
  <1>3. \A i \in DOMAIN class["clean"] : i \in Nat
    BY <1>1
  <1>4. QED
    BY <1>2, <1>3

(* The end of an operation of clean: it was not a raise; if it was the     *)
(* call of the base class, nothing of what that stops is left; if it was   *)
(* the removal of the random data, they are gone.                          *)
LEMMA TidyAdvance ==
    ASSUME TypeOK, TidyParts, phase = "clean", ip \in DOMAIN class.clean,
           UNCHANGED <<class, file, phase>>, sub' = "op", ip' = ip + 1,
           class.clean[ip].op # "raise",
           artefacts' \cap Prepared \subseteq artefacts,
           Returns(class) /\ class.clean[ip].op = "base"
               => artefacts' \cap {"tcpdump", "tcpdump -ni", "upmc", "upms"} = {},
           (/\ class.clean[ip].op = "kill"
            /\ class.clean[ip].what = "random"
            /\ class.clean[ip].when \subseteq file.has) => "random" \notin artefacts'
    PROVE  TidyParts'
  <1>1. \A i \in DOMAIN class.clean :
          /\ i >= ip => i = ip \/ i >= ip + 1
          /\ i < ip + 1 => i = ip \/ i < ip
    BY CleanIndices
  <1>2. CleanInv' /\ ReturnsInv'
    BY <1>1 DEF TidyParts, CleanInv, ReturnsInv, Returns
  <1>3. ASSUME Returns(class) PROVE ManagersInv'
    BY <1>3 DEF TidyParts, ManagersInv, PathManagers, NetemChains, Has, Prepared, Cleaned
  <1>4. ASSUME Returns(class), "random" \in artefacts' PROVE RandomInv'
    <2>1. "random" \in artefacts
      BY <1>4 DEF Prepared, Cleaned
    <2>2. PICK i \in DOMAIN class.clean :
            /\ class.clean[i].op = "kill"
            /\ class.clean[i].what = "random"
            /\ class.clean[i].when \subseteq file.has
            /\ i >= ip
      BY <1>4, <2>1 DEF TidyParts, RandomInv
    <2>3. i # ip
      BY <1>4, <2>2
    <2>4. i >= ip + 1
      BY <1>1, <2>2, <2>3
    <2>5. QED
      BY <2>2, <2>4 DEF RandomInv
  <1>5. ASSUME Returns(class) PROVE StoppedInv'
    <2>1. CASE class.clean[ip].op = "base"
      BY <1>5, <2>1 DEF StoppedInv, Tcpdumps
    <2>2. CASE class.clean[ip].op # "base"
      <3>1. SUFFICES ASSUME NEW i \in DOMAIN class.clean, i < ip + 1, class.clean[i].op = "base"
                     PROVE  artefacts' \cap {"tcpdump", "tcpdump -ni", "upmc", "upms"} = {}
        BY DEF StoppedInv
      <3>2. i < ip
        BY <1>1, <2>2, <3>1
      <3>3. artefacts \cap {"tcpdump", "tcpdump -ni", "upmc", "upms"} = {}
        BY <1>5, <3>1, <3>2 DEF TidyParts, StoppedInv
      <3>4. QED
        BY <3>3 DEF Prepared, Cleaned
    <2>3. QED
      BY <2>1, <2>2
  <1>6. QED
    BY <1>2, <1>3, <1>4, <1>5 DEF TidyParts, Returns, RandomInv

(* Every step of a tidy experiment keeps TidyInv.                          *)
LEMMA TidyStep ==
    ASSUME TypeOK, TidyInv, [Next]_vars
    PROVE  TidyInv'
<1>1. UNCHANGED <<class, file>>
  BY DEF Next, Step, ClassStep, BaseStep, CallBase, Command, Spawn, Kill, SetSysctl,
         NeedMet, NeedFails, Try, RaiseOp, EndPhase, SaveKey, WriteKey, LoopEnds,
         RunUserspacePathManager, PutPriorityOnPaths, PutPriorityOnPathsRaises,
         RunTcpdump, RunNetemAt, KillTcpdump, RestoreKey, CleanUserspacePathManager,
         NodeGone, Interrupt, ProcessExits, Raise, inputs, vars
<1> SUFFICES ASSUME Tidy(class) PROVE TidyParts'
  BY <1>1 DEF TidyInv, TidyParts
<1>2. TidyParts
  BY DEF TidyInv, TidyParts
<1>3. ASSUME Raise PROVE TidyParts'
  BY <1>1, <1>2, <1>3, TidyBefore DEF Raise
<1>4. CASE Command \/ Kill \/ SetSysctl \/ NeedMet
  <2>1. PICK name \in {"command", "ping", "kill", "set", "need"} : AtOp(name)
    BY <1>4 DEF Command, Kill, SetSysctl, NeedMet
  <2>2. /\ phase \in Phases /\ phase' = phase /\ ip' = ip + 1 /\ sub' = "op"
        /\ artefacts' \subseteq artefacts
    BY <1>4, <2>1 DEF Command, Kill, SetSysctl, NeedMet, AtOp, Doing
  <2>3. CASE phase # "clean"
    BY <1>1, <1>2, <2>2, <2>3, TidyBefore DEF Phases
  <2>4. CASE phase = "clean"
    <3>1. ip \in DOMAIN class.clean /\ class.clean[ip].op = name
      BY <2>1, <2>4 DEF AtOp
    <3>2. (/\ class.clean[ip].op = "kill"
           /\ class.clean[ip].what = "random"
           /\ class.clean[ip].when \subseteq file.has) => "random" \notin artefacts'
      BY <1>4, <2>4, <3>1 DEF Command, Kill, SetSysctl, NeedMet, AtOp, Op, Enabled
    <3>3. QED
      BY <1>1, <1>2, <2>1, <2>2, <2>4, <3>1, <3>2, TidyAdvance
  <2>5. QED
    BY <2>3, <2>4
<1>5. CASE Spawn
  <2>1. /\ phase \in Phases /\ phase' = phase /\ ip' = ip + 1 /\ sub' = "op"
        /\ ip \in DOMAIN class[phase] /\ class[phase][ip].op = "spawn"
        /\ artefacts' = IF class[phase][ip].when \subseteq file.has
                        THEN artefacts \cup {class[phase][ip].what}
                        ELSE artefacts
    BY <1>5 DEF Spawn, AtOp, Doing, Op, Enabled
  <2>2. CASE phase # "clean"
    <3>1. ASSUME Returns(class) PROVE ManagersInv' /\ RandomInv'
      <4>1. class[phase][ip].what \notin {"upmc", "upms", "netem"}
        BY <2>1, <3>1 DEF Tidy
      <4>2. ManagersInv'
        BY <1>1, <1>2, <2>1, <3>1, <4>1 DEF TidyParts, ManagersInv, PathManagers, NetemChains, Has
      <4>3. CASE "random" \in artefacts
        BY <1>1, <1>2, <2>1, <2>2, <3>1, <4>2, <4>3 DEF TidyParts, RandomInv
      <4>4. CASE "random" \notin artefacts /\ "random" \in artefacts'
        <5>1. /\ class[phase][ip].what = "random"
              /\ class[phase][ip].when \subseteq file.has
          BY <2>1, <4>4
        <5>2. PICK j \in DOMAIN class.clean :
                /\ class.clean[j].op = "kill"
                /\ class.clean[j].what = "random"
                /\ class.clean[j].when \subseteq class[phase][ip].when
          BY <2>1, <3>1, <5>1 DEF Tidy
        <5>3. class.clean[j].when \subseteq file.has
          BY <5>1, <5>2
        <5>4. QED
          BY <1>1, <2>1, <2>2, <4>2, <5>2, <5>3 DEF RandomInv, Phases
      <4>5. QED
        BY <4>2, <4>3, <4>4 DEF RandomInv
    <3>2. QED
      BY <1>1, <2>1, <2>2, <3>1, TidyOutside DEF Phases
  <2>3. CASE phase = "clean"
    <3>1. ip \in DOMAIN class.clean /\ class.clean[ip].op = "spawn"
      BY <2>1, <2>3
    <3>2. ASSUME Returns(class) PROVE artefacts' \cap Prepared \subseteq artefacts
      BY <2>1, <2>3, <3>1, <3>2 DEF Tidy
    <3>3. CASE Returns(class)
      BY <1>1, <1>2, <2>1, <2>3, <3>1, <3>2, <3>3, TidyAdvance
    <3>4. CASE ~Returns(class)
      <4>1. \A i \in DOMAIN class.clean : i >= ip => i = ip \/ i >= ip + 1
        BY CleanIndices
      <4>2. QED
        BY <1>1, <1>2, <2>1, <2>3, <3>1, <3>4, <4>1 DEF TidyParts, CleanInv, ReturnsInv, Returns
    <3>5. QED
      BY <3>3, <3>4
  <2>4. QED
    BY <2>2, <2>3
<1>6. CASE Try
  <2>1. phase \in Phases /\ phase' = phase /\ artefacts' = artefacts
    BY <1>6 DEF Try, AtOp, Doing
  <2>2. phase # "clean"
    BY <1>6 DEF Try, AtOp, Tidy
  <2>3. QED
    BY <1>1, <1>2, <2>1, <2>2, TidyBefore DEF Phases
<1>7. CASE EndPhase
  <2>1. /\ phase \in Phases /\ sub = "op" /\ ip = Len(class[phase]) + 1
        /\ ip' = 1 /\ sub' = "op" /\ artefacts' = artefacts
    BY <1>7 DEF EndPhase, Doing
  <2>2. class["clean"] \in Seq(Ops)
    BY ClassAssumption DEF TypeOK, Phases
  <2>3. CASE phase' \in {"prepare", "run"}
    BY <1>1, <1>2, <2>1, <2>3, TidyBefore
  <2>4. CASE phase = "run" /\ phase' = "clean"
    <3>1. \A i \in DOMAIN class.clean : i >= 1 /\ ~(i < 1)
      BY <2>2
    <3>2. CleanInv' /\ ReturnsInv'
      BY <1>1, <2>1, <2>4, <3>1 DEF CleanInv, ReturnsInv, Returns
    <3>3. ASSUME Returns(class) PROVE ManagersInv' /\ RandomInv' /\ StoppedInv'
      BY <1>1, <1>2, <2>1, <2>4, <3>1, <3>3
      DEF TidyParts, ManagersInv, PathManagers, NetemChains, Has, RandomInv, StoppedInv
    <3>4. QED
      BY <1>1, <3>2, <3>3 DEF TidyParts, Returns
  <2>5. CASE phase = "clean" /\ phase' = "done"
    <3>1. \A i \in DOMAIN class.clean : i < ip /\ ~(i >= ip)
      BY <2>1, <2>2, <2>5
    <3>2. Returns(class)
      BY <1>2, <2>5, <3>1 DEF TidyParts, ReturnsInv
    <3>3. CleanInv' /\ ReturnsInv'
      BY <1>1, <2>5, <3>2 DEF CleanInv, ReturnsInv, Returns
    <3>4. ManagersInv'
      BY <1>1, <1>2, <2>1, <3>2 DEF TidyParts, ManagersInv, PathManagers, NetemChains, Has
    <3>5. "random" \notin artefacts
      BY <1>2, <2>5, <3>1, <3>2 DEF TidyParts, RandomInv
    <3>6. artefacts \cap {"tcpdump", "tcpdump -ni", "upmc", "upms"} = {}
      BY <1>2, <2>5, <3>1, <3>2 DEF TidyParts, StoppedInv, Tidy
    <3>7. QED
      BY <2>1, <2>5, <3>3, <3>4, <3>5, <3>6 DEF TidyParts, RandomInv, StoppedInv
  <2>6. QED
    BY <1>7, <2>3, <2>4, <2>5 DEF EndPhase
<1>8. CASE CallBase
  <2>1. /\ phase \in Phases /\ ip \in DOMAIN class[phase] /\ class[phase][ip].op = "base"
        /\ UNCHANGED <<phase, ip, artefacts>>
        /\ phase = "clean" => sub' = "killTcpdump"
    BY <1>8 DEF CallBase, AtOp, Doing
  <2>2. CleanInv'
    BY <1>1, <2>1 DEF CleanInv
  <2>3. QED
    BY <1>1, <1>2, <2>1, <2>2, TidyStay
<1>9. CASE SaveKey \/ WriteKey \/ RunUserspacePathManager \/ PutPriorityOnPaths
           \/ RunTcpdump \/ RunNetemAt
  <2>1. phase \in Phases /\ sub \notin {"op", "killTcpdump", "restore", "cleanPathManager"}
    BY <1>9 DEF SaveKey, WriteKey, RunUserspacePathManager, PutPriorityOnPaths, RunTcpdump,
                RunNetemAt, Doing
  <2>2. phase \notin {"clean", "done"}
    BY <1>2, <2>1 DEF TidyParts, CleanInv, Phases
  <2>3. /\ phase' = phase
        /\ artefacts' \subseteq artefacts \cup PathManagers \cup NetemChains \cup {"tcpdump"}
    BY <1>9 DEF SaveKey, WriteKey, RunUserspacePathManager, PutPriorityOnPaths, RunTcpdump,
                RunNetemAt
  <2>4. QED
    BY <1>1, <1>2, <2>2, <2>3, TidyBefore
<1>10. CASE LoopEnds
  <2>1. /\ phase \in Phases /\ UNCHANGED <<phase, ip, artefacts>>
        /\ sub \in {"save", "write"} \/ (sub = "restore" /\ sub' = "cleanPathManager")
    BY <1>10 DEF LoopEnds, Doing
  <2>2. CASE phase # "clean"
    BY <1>1, <1>2, <2>1, <2>2, TidyBefore DEF Phases
  <2>3. CASE phase = "clean"
    <3>1. sub = "restore" /\ sub' = "cleanPathManager"
      BY <1>2, <2>1, <2>3 DEF TidyParts, CleanInv
    <3>2. CleanInv'
      BY <1>1, <1>2, <2>1, <2>3, <3>1 DEF TidyParts, CleanInv
    <3>3. CASE Returns(class)
      BY <1>1, <1>2, <2>1, <2>3, <3>1, <3>2, <3>3, TidyStay DEF TidyParts, StoppedInv
    <3>4. CASE ~Returns(class)
      BY <1>1, <1>2, <2>1, <3>2, <3>4 DEF TidyParts, ReturnsInv, Returns
    <3>5. QED
      BY <3>3, <3>4
  <2>4. QED
    BY <2>2, <2>3
<1>11. CASE KillTcpdump
  <2>1. /\ sub = "killTcpdump" /\ sub' = "restore" /\ UNCHANGED <<phase, ip>>
        /\ artefacts' = artefacts \ Tcpdumps
    BY <1>11 DEF KillTcpdump, Doing
  <2>2. CleanInv'
    BY <1>1, <1>2, <2>1 DEF TidyParts, CleanInv
  <2>3. QED
    BY <1>1, <1>2, <2>1, <2>2, TidyStay
<1>12. CASE RestoreKey \/ ProcessExits \/ UNCHANGED vars
  <2>1. UNCHANGED <<phase, ip, sub>> /\ artefacts' \subseteq artefacts
    BY <1>12 DEF RestoreKey, ProcessExits, vars
  <2>2. CleanInv'
    BY <1>1, <1>2, <2>1 DEF TidyParts, CleanInv
  <2>3. CASE Returns(class)
    <3>1. (phase = "clean" /\ sub' \in {"restore", "cleanPathManager"})
            => artefacts' \cap Tcpdumps = {}
      BY <1>2, <2>1, <2>3 DEF TidyParts, StoppedInv
    <3>2. QED
      BY <1>1, <1>2, <2>1, <2>2, <3>1, TidyStay
  <2>4. CASE ~Returns(class)
    BY <1>1, <1>2, <2>1, <2>2, <2>4 DEF TidyParts, ReturnsInv, Returns
  <2>5. QED
    BY <2>3, <2>4
<1>13. CASE CleanUserspacePathManager
  <2>1. /\ phase \in Phases /\ sub = "cleanPathManager" /\ sub' = "op"
        /\ phase' = phase /\ ip' = ip + 1 /\ artefacts' = artefacts \ PathManagers
    BY <1>13 DEF CleanUserspacePathManager, Doing
  <2>2. CASE phase # "clean"
    BY <1>1, <1>2, <2>1, <2>2, TidyBefore DEF Phases
  <2>3. CASE phase = "clean"
    <3>1. ip \in DOMAIN class.clean /\ class.clean[ip].op = "base"
      BY <1>2, <2>1, <2>3 DEF TidyParts, CleanInv
    <3>2. Returns(class) =>
            artefacts' \cap {"tcpdump", "tcpdump -ni", "upmc", "upms"} = {}
      BY <1>2, <2>1, <2>3 DEF TidyParts, ManagersInv, NetemChains, StoppedInv, Tcpdumps
    <3>3. QED
      BY <1>1, <1>2, <2>1, <2>3, <3>1, <3>2, TidyAdvance
  <2>4. QED
    BY <2>2, <2>3
<1>14. CASE NeedFails \/ RaiseOp \/ PutPriorityOnPathsRaises \/ NodeGone \/ Interrupt
  BY <1>3, <1>14
  DEF NeedFails, RaiseOp, PutPriorityOnPathsRaises, NodeGone, Interrupt
<1>15. QED
  BY <1>4, <1>5, <1>6, <1>7, <1>8, <1>9, <1>10, <1>11, <1>12, <1>13, <1>14
  DEF Next, Step, ClassStep, BaseStep

(* The invariant holds in every state of every experiment.                 *)
THEOREM TidyInvariant == Spec => []TidyInv
<1>1. Init => TidyInv
  BY DEF Init, TidyInv, CleanInv, ReturnsInv, ManagersInv, RandomInv, StoppedInv
<1>2. TypeOK /\ TidyInv /\ [Next]_vars => TidyInv'
  BY TidyStep
<1>3. QED
  BY <1>1, <1>2, TypeCorrect, PTL DEF Spec

(* When classic_run of a tidy class returns, no tcpdump, no path manager   *)
(* and no random data are left, however often they were started and        *)
(* whatever ended by itself in between; of the rest that prepare starts,   *)
(* the netem chains, only those of a topology with changing links.         *)
THEOREM NothingRunning == Spec => []CleanedWhenDone
<1>1. TidyInv => CleanedWhenDone
  BY DEF TidyInv, ReturnsInv, ManagersInv, PathManagers, RandomInv, StoppedInv, CleanedWhenDone,
         Prepared, Cleaned, NetemChains
<1>2. QED
  BY <1>1, TidyInvariant, PTL
=============================================================================
