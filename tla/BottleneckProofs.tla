--------------------------- MODULE BottleneckProofs ---------------------------
(***************************************************************************)
(* The changes of a link are made in order and never early, for every set  *)
(* of times and commands, every number of changes and every lateness.      *)
(***************************************************************************)
EXTENDS Bottleneck, TLAPS

(* The times of changes are numbers.                                       *)
LEMMA LastIsInt ==
    ASSUME NEW changes \in Seq(NetemAt), changes # <<>>
    PROVE  /\ Len(changes) \in Nat \ {0}
           /\ LastAt(changes) \in Int
<1>1. Len(changes) \in Nat \ {0}
  OBVIOUS
<1>2. changes[Len(changes)] \in NetemAt
  BY <1>1
<1> QED
  BY <1>1, <1>2 DEF LastAt, NetemAt

(* add_netem_at keeps the sequence of changes well-formed, and adds at     *)
(* most one change, behind the others.                                     *)
LEMMA ChangeAdded ==
    ASSUME NEW changes \in Seq(NetemAt), NEW at \in Int, NEW cmd \in Cmds
    PROVE  /\ WithChange(changes, at, cmd) \in Seq(NetemAt)
           /\ Len(WithChange(changes, at, cmd)) <= Len(changes) + 1
<1>1. CASE changes = <<>>
  <2> DEFINE new == [at |-> at, delta |-> at, cmd |-> cmd]
  <2>1. new \in NetemAt
    BY DEF NetemAt
  <2>2. WithChange(changes, at, cmd) = <<new>>
    BY <1>1 DEF WithChange
  <2> HIDE DEF new
  <2>3. <<new>> \in Seq(NetemAt) /\ Len(<<new>>) = 1
    BY <2>1
  <2>4. Len(changes) = 0
    BY <1>1
  <2> QED
    BY <2>2, <2>3, <2>4
<1>2. CASE changes # <<>> /\ at > LastAt(changes)
  <2> DEFINE new == [at |-> at, delta |-> at - LastAt(changes), cmd |-> cmd]
  <2>0. at - LastAt(changes) \in Int
    BY <1>2, LastIsInt
  <2>1. new \in NetemAt
    BY <2>0 DEF NetemAt
  <2>2. WithChange(changes, at, cmd) = Append(changes, new)
    BY <1>2 DEF WithChange
  <2> HIDE DEF new
  <2> QED
    BY <2>1, <2>2
<1>3. CASE changes # <<>> /\ ~(at > LastAt(changes))
  BY <1>3 DEF WithChange
<1> QED
  BY <1>1, <1>2, <1>3

(* The sleeps still add up after it.                                       *)
LEMMA SumsKept ==
    ASSUME NEW changes \in Seq(NetemAt), NEW at \in Int, NEW cmd \in Cmds,
           \A k \in 1..Len(changes) :
                changes[k].at = changes[k].delta + (IF k = 1 THEN 0 ELSE changes[k - 1].at),
           NEW k \in 1..Len(WithChange(changes, at, cmd))
    PROVE  LET new == WithChange(changes, at, cmd)
           IN  new[k].at = new[k].delta + (IF k = 1 THEN 0 ELSE new[k - 1].at)
<1>1. CASE changes = <<>>
  BY <1>1 DEF WithChange, NetemAt
<1>2. CASE changes # <<>> /\ at > LastAt(changes)
  <2>1. /\ WithChange(changes, at, cmd)
            = Append(changes, [at |-> at, delta |-> at - LastAt(changes), cmd |-> cmd])
        /\ Len(changes) \in Nat \ {0}
    BY <1>2, LastIsInt DEF WithChange
  <2>2. LastAt(changes) \in Int
    BY <1>2, LastIsInt
  <2>3. CASE k = Len(changes) + 1
    BY <2>1, <2>2, <2>3 DEF LastAt
  <2>4. CASE k \in 1..Len(changes)
    BY <2>1, <2>4
  <2> QED
    BY <2>1, <2>3, <2>4
<1>3. CASE changes # <<>> /\ ~(at > LastAt(changes))
  BY <1>3 DEF WithChange
<1> QED
  BY <1>1, <1>2, <1>3

-----------------------------------------------------------------------------
(* The invariant                                                           *)

(* No chain has been started.                                              *)
LEMMA InitInv == Init => ChainsInv
BY BottleneckAssumption
DEF BottleneckAssumption, Init, ChainsInv, TypeOK, SleepsAddUp, ChainInv, NoQdisc, Qdisc,
    Chains, Target, Interfaces, NetemAt

(* Changes are only added while no chain has been started.                 *)
LEMMA AddKeeps ==
    ASSUME ChainsInv, AddNetemAt
    PROVE  ChainsInv'
<1>1. PICK at \in Times, cmd \in Cmds : add_netem_at(at, cmd)
  BY DEF AddNetemAt
<1>2. at \in Int /\ netem_at \in Seq(NetemAt)
  BY BottleneckAssumption DEF BottleneckAssumption, ChainsInv, TypeOK
<1>3. netem_at' = WithChange(netem_at, at, cmd)
  BY <1>1 DEF add_netem_at
<1>4. TypeOK'
  <2>1. netem_at' \in Seq(NetemAt) /\ Len(netem_at') <= MaxChanges
    BY <1>1, <1>2, <1>3, ChangeAdded, BottleneckAssumption
    DEF add_netem_at, BottleneckAssumption
  <2> QED
    BY <1>1, <2>1 DEF add_netem_at, ChainsInv, TypeOK, chainVars
<1>5. SleepsAddUp'
  BY <1>2, <1>3, SumsKept DEF ChainsInv, SleepsAddUp
<1>6. ASSUME NEW c \in Chains PROVE ChainInv(c)'
  BY <1>1, <1>4 DEF add_netem_at, ChainsInv, ChainInv, TypeOK, chainVars
<1> QED
  BY <1>4, <1>5, <1>6 DEF ChainsInv

(* configure_bottleneck leaves the interfaces at their first state.        *)
LEMMA ConfigureKeeps ==
    ASSUME ChainsInv, configure_bottleneck
    PROVE  ChainsInv'
<1>1. TypeOK'
  BY BottleneckAssumption
  DEF BottleneckAssumption, ChainsInv, TypeOK, configure_bottleneck, chainVars, Qdisc,
      build_netem_cmd, build_bandwidth_cmd
<1>2. SleepsAddUp'
  BY DEF ChainsInv, SleepsAddUp, configure_bottleneck
<1>3. ASSUME NEW c \in Chains PROVE ChainInv(c)'
  <2>1. Target[c] \in Interfaces
    BY DEF Chains, Target, Interfaces
  <2> QED
    BY <2>1
    DEF ChainsInv, ChainInv, TypeOK, configure_bottleneck, chainVars,
        build_netem_cmd, build_bandwidth_cmd
<1> QED
  BY <1>1, <1>2, <1>3 DEF ChainsInv

(* A chain begins with the sleep until the first change.                   *)
LEMMA StartKeeps ==
    ASSUME ChainsInv, run_netem_at
    PROVE  ChainsInv'
<1>1. CASE ~change_netem
  BY <1>1 DEF ChainsInv, run_netem_at, TypeOK, SleepsAddUp, ChainInv, chainVars
<1>2. CASE change_netem
  <2>1. PICK d \in Chains : StartChain(d)
    BY <1>2 DEF run_netem_at
  <2> DEFINE first == IF netem_at = <<>> THEN 0 ELSE netem_at[1].delta
  <2>2. first \in Int /\ (netem_at # <<>> => first = netem_at[1].at)
    <3>1. CASE netem_at # <<>>
      <4>1. 1 \in 1..Len(netem_at) /\ netem_at[1] \in NetemAt
        BY <3>1 DEF ChainsInv, TypeOK
      <4> QED
        BY <3>1, <4>1 DEF NetemAt, ChainsInv, SleepsAddUp
    <3> QED
      BY <3>1
  <2> HIDE DEF first
  <2>3. /\ pos' = [pos EXCEPT ![d] = 1]
        /\ left' = [left EXCEPT ![d] = first]
        /\ pos[d] = 0
        /\ phase' \in {"configured", "started"}
        /\ UNCHANGED <<change_netem, netem_at, qdisc, elapsed, failed>>
    BY <2>1 DEF StartChain, run_netem_at, first
  <2>4. TypeOK'
    BY <2>2, <2>3, BottleneckAssumption DEF ChainsInv, TypeOK, BottleneckAssumption
  <2>5. SleepsAddUp'
    BY <2>3 DEF ChainsInv, SleepsAddUp
  <2>6. ASSUME NEW c \in Chains PROVE ChainInv(c)'
    BY <2>2, <2>3, <2>6 DEF ChainsInv, TypeOK, ChainInv
  <2> QED
    BY <2>4, <2>5, <2>6 DEF ChainsInv
<1> QED
  BY <1>1, <1>2

(* What a chain has slept is taken from what it has still to sleep.        *)
LEMMA TickKeeps ==
    ASSUME ChainsInv, Tick
    PROVE  ChainsInv'
<1>1. TypeOK'
  BY DEF ChainsInv, TypeOK, Tick
<1>2. SleepsAddUp'
  BY DEF ChainsInv, SleepsAddUp, Tick
<1>3. ASSUME NEW c \in Chains PROVE ChainInv(c)'
  <2>1. left'[c] + elapsed'[c] = left[c] + elapsed[c]
    BY <1>3 DEF ChainsInv, TypeOK, Tick
  <2>2. ASSUME pos[c] \in 1..Len(netem_at)
        PROVE  netem_at[pos[c]].at \in Int
    <3>1. netem_at[pos[c]] \in NetemAt
      BY <2>2 DEF ChainsInv, TypeOK
    <3> QED
      BY <3>1 DEF NetemAt
  <2> QED
    BY <1>1, <1>3, <2>1, <2>2 DEF ChainsInv, TypeOK, ChainInv, Tick
<1> QED
  BY <1>1, <1>2, <1>3 DEF ChainsInv

(* When the sleep of a chain is over, the time of its change has come.     *)
LEMMA SleptEnough ==
    ASSUME ChainsInv, NEW c \in Chains, Running(c), left[c] <= 0
    PROVE  /\ pos[c] \in 1..Len(netem_at)
           /\ elapsed[c] \in Nat
           /\ netem_at[pos[c]].at \in Int
           /\ elapsed[c] >= netem_at[pos[c]].at
<1>1. pos[c] \in 1..Len(netem_at) /\ elapsed[c] \in Nat /\ left[c] \in Int
  BY DEF Running, ChainsInv, TypeOK
<1>2. netem_at[pos[c]] \in NetemAt
  BY <1>1 DEF ChainsInv, TypeOK
<1>3. elapsed[c] + left[c] >= netem_at[pos[c]].at
  BY <1>1 DEF ChainsInv, ChainInv
<1> QED
  BY <1>1, <1>2, <1>3 DEF NetemAt

(* The next sleep lasts until the time of the next change.                 *)
LEMMA SleepsOn ==
    ASSUME ChainsInv, NEW c \in Chains, pos[c] \in 1..Len(netem_at)
    PROVE  /\ NextSleep(c) \in Int
           /\ pos[c] + 1 \in 1..Len(netem_at) =>
                /\ netem_at[pos[c] + 1].at \in Int
                /\ netem_at[pos[c]].at + NextSleep(c) = netem_at[pos[c] + 1].at
<1>1. CASE pos[c] < Len(netem_at)
  <2>1. pos[c] + 1 \in 1..Len(netem_at) /\ pos[c] \in Nat \ {0} /\ pos[c] + 1 # 1
    BY <1>1 DEF ChainsInv, TypeOK
  <2>2. netem_at[pos[c] + 1] \in NetemAt /\ netem_at[pos[c]] \in NetemAt
    BY <2>1 DEF ChainsInv, TypeOK
  <2>3. netem_at[pos[c] + 1].at = netem_at[pos[c] + 1].delta + netem_at[(pos[c] + 1) - 1].at
    BY <2>1 DEF ChainsInv, SleepsAddUp
  <2>4. (pos[c] + 1) - 1 = pos[c]
    BY <2>1
  <2> QED
    BY <1>1, <2>2, <2>3, <2>4 DEF NextSleep, NetemAt
<1>2. CASE ~(pos[c] < Len(netem_at))
  BY <1>2 DEF NextSleep, ChainsInv, TypeOK
<1> QED
  BY <1>1, <1>2

(* A chain that made its change sleeps until the next; the others do not   *)
(* share its interface.                                                    *)
LEMMA ApplyKeeps ==
    ASSUME ChainsInv, NEW d \in Chains, ApplyChange(d)
    PROVE  ChainsInv'
<1>1. CASE Fails(d, pos[d])
  BY <1>1 DEF ApplyChange, ChainsInv, TypeOK, SleepsAddUp, ChainInv
<1>2. CASE ~Fails(d, pos[d])
  <2>1. Running(d) /\ left[d] <= 0
    BY DEF ApplyChange
  <2>2. /\ pos' = [pos EXCEPT ![d] = @ + 1]
        /\ left' = [left EXCEPT ![d] = NextSleep(d)]
        /\ qdisc' = ChangeInterface(d)
        /\ UNCHANGED <<phase, change_netem, netem_at, elapsed, failed>>
    BY <1>2 DEF ApplyChange
  <2>3. /\ pos[d] \in 1..Len(netem_at) /\ Len(netem_at) <= MaxChanges
        /\ elapsed[d] >= netem_at[pos[d]].at
        /\ elapsed[d] \in Nat /\ netem_at[pos[d]].at \in Int
    BY <2>1, SleptEnough DEF ChainsInv, TypeOK
  <2> DEFINE new == IF d \in Shaping THEN build_bandwidth_cmd(pos[d]) ELSE build_netem_cmd(pos[d])
  <2>4. new \in Qdisc /\ new.change = pos[d]
    BY <2>3, BottleneckAssumption
    DEF build_bandwidth_cmd, build_netem_cmd, Qdisc, BottleneckAssumption
  <2>5. qdisc' = [qdisc EXCEPT ![Target[d]] = new]
    BY <2>2 DEF ChangeInterface
  <2> HIDE DEF new
  <2>6. TypeOK'
    <3>1. pos' \in [Chains -> 0..(MaxChanges + 1)]
      BY <2>2, <2>3, BottleneckAssumption DEF ChainsInv, TypeOK, BottleneckAssumption
    <3>2. left' \in [Chains -> Int]
      BY <2>2, <2>3, SleepsOn DEF ChainsInv, TypeOK
    <3>3. qdisc' \in [Interfaces -> Qdisc]
      BY <2>4, <2>5 DEF ChainsInv, TypeOK
    <3> QED
      BY <2>2, <3>1, <3>2, <3>3 DEF ChainsInv, TypeOK
  <2>7. SleepsAddUp'
    BY <2>2 DEF ChainsInv, SleepsAddUp
  <2>8. ASSUME NEW c \in Chains PROVE ChainInv(c)'
    <3>1. CASE c = d
      <4>1. pos'[c] = pos[d] + 1 /\ left'[c] = NextSleep(d) /\ elapsed'[c] = elapsed[d]
        BY <2>2, <3>1 DEF ChainsInv, TypeOK
      <4>2. qdisc'[Target[c]].change = pos[d]
        <5>1. Target[d] \in Interfaces
          BY DEF Chains, Target, Interfaces
        <5> QED
          BY <2>4, <2>5, <3>1, <5>1 DEF ChainsInv, TypeOK
      <4>3. phase # "load"
        BY <2>3 DEF ChainsInv, ChainInv
      <4>4. pos[d] + 1 \in 1..Len(netem_at) =>
                elapsed[d] + NextSleep(d) >= netem_at[pos[d] + 1].at
        BY <2>3, SleepsOn
      <4> QED
        BY <2>2, <2>3, <4>1, <4>2, <4>3, <4>4 DEF ChainInv
    <3>2. CASE c # d
      <4>1. Target[c] # Target[d]
        BY <3>2 DEF Chains, Target
      <4>2. qdisc'[Target[c]] = qdisc[Target[c]]
        BY <2>5, <4>1 DEF ChainsInv, TypeOK
      <4>3. pos'[c] = pos[c] /\ left'[c] = left[c] /\ elapsed'[c] = elapsed[c]
        BY <2>2, <3>2 DEF ChainsInv, TypeOK
      <4> QED
        BY <2>2, <4>2, <4>3 DEF ChainsInv, ChainInv
    <3> QED
      BY <3>1, <3>2
  <2> QED
    BY <2>6, <2>7, <2>8 DEF ChainsInv
<1> QED
  BY <1>1, <1>2

(* Every step keeps the invariant.                                         *)
LEMMA NextInv == ChainsInv /\ [Next]_vars => ChainsInv'
<1> SUFFICES ASSUME ChainsInv, [Next]_vars PROVE ChainsInv'
  OBVIOUS
<1>1. CASE UNCHANGED vars
  BY <1>1 DEF ChainsInv, TypeOK, SleepsAddUp, ChainInv, vars, chainVars
<1> QED
  BY <1>1, AddKeeps, ConfigureKeeps, StartKeeps, TickKeeps, ApplyKeeps DEF Next

(* The sleeps of a link's changes add up to their times, and a chain has   *)
(* slept, or has still to sleep, until the time of the change it is at.    *)
LEMMA ChainsInvariant == Spec => []ChainsInv
<1>1. ChainsInv /\ [Next]_vars => ChainsInv'
  BY NextInv
<1> QED
  BY <1>1, InitInv, PTL DEF Spec

(* A chain starts after the others before it, and its interface is changed *)
(* by no other.                                                            *)
LEMMA CommandStep ==
    ASSUME ChainsInv, netem_at # <<>> => change_netem, [Next]_vars, NEW c \in Chains,
           \A d \in Chains : CommandInv(d)
    PROVE  CommandInv(c)'
<1>1. Chains = 1..4 /\ c \in 1..4
  BY DEF Chains
<1>2. pos \in [Chains -> 0..(MaxChanges + 1)] /\ pos[c] \in Nat
  BY BottleneckAssumption DEF BottleneckAssumption, ChainsInv, TypeOK
<1>3. CASE AddNetemAt \/ Tick \/ UNCHANGED vars
  BY <1>3 DEF AddNetemAt, add_netem_at, Tick, vars, chainVars, CommandInv
<1>4. CASE configure_bottleneck
  <2>1. pos'[c] = 0 /\ phase' = "configured"
    BY <1>4 DEF configure_bottleneck, chainVars, ChainsInv, ChainInv
  <2> QED
    BY <2>1 DEF CommandInv
<1>5. CASE run_netem_at /\ ~change_netem
  BY <1>5 DEF run_netem_at, chainVars, CommandInv
<1>6. CASE run_netem_at /\ change_netem
  <2>1. PICK d \in Chains : StartChain(d)
    BY <1>6 DEF run_netem_at
  <2>2. /\ pos[d] = 0 /\ pos' = [pos EXCEPT ![d] = 1]
        /\ UNCHANGED <<qdisc, change_netem>>
        /\ phase' = IF d = 4 THEN "started" ELSE phase
        /\ \A e \in 1..(d - 1) : pos[e] > 0
        /\ phase = "configured"
    BY <1>6, <2>1 DEF StartChain, run_netem_at
  <2>3. CASE c = d
    BY <1>1, <1>2, <2>2, <2>3 DEF CommandInv
  <2>4. CASE c # d
    <3>1. pos'[c] = pos[c]
      BY <1>2, <2>2, <2>4
    <3>2. phase' = "started" => c \in 1..(d - 1)
      BY <1>1, <2>2, <2>4
    <3> QED
      BY <2>2, <3>1, <3>2 DEF CommandInv
  <2> QED
    BY <2>3, <2>4
<1>7. ASSUME NEW d \in Chains, ApplyChange(d)
      PROVE  CommandInv(c)'
  <2>1. UNCHANGED <<phase, change_netem, netem_at>> /\ Running(d)
    BY <1>7 DEF ApplyChange
  <2>2. CASE Fails(d, pos[d])
    BY <1>7, <2>2 DEF ApplyChange, CommandInv
  <2>3. CASE ~Fails(d, pos[d])
    <3>1. qdisc' = ChangeInterface(d) /\ pos' = [pos EXCEPT ![d] = @ + 1]
      BY <1>7, <2>3 DEF ApplyChange
    <3>2. Target[d] \in Interfaces /\ Target[c] \in Interfaces
      BY DEF Chains, Target, Interfaces
    <3>3. CASE c = d
      <4>1. pos'[c] = pos[c] + 1 /\ (pos[c] + 1) - 1 = pos[c] /\ pos[c] + 1 > 0
        BY <1>2, <3>1, <3>3
      <4>2. qdisc'[Target[c]] = IF c \in Shaping THEN build_bandwidth_cmd(pos[c])
                                                 ELSE build_netem_cmd(pos[c])
        BY <3>1, <3>2, <3>3 DEF ChangeInterface, ChainsInv, TypeOK
      <4> QED
        BY <4>1, <4>2 DEF CommandInv, build_bandwidth_cmd, build_netem_cmd
    <3>4. CASE c # d
      <4>1. Target[c] # Target[d]
        BY <3>4 DEF Chains, Target
      <4>2. qdisc'[Target[c]] = qdisc[Target[c]]
        BY <3>1, <3>2, <4>1 DEF ChangeInterface, ChainsInv, TypeOK
      <4>3. pos'[c] = pos[c]
        BY <1>2, <3>1, <3>4
      <4> QED
        BY <2>1, <4>2, <4>3 DEF CommandInv
    <3> QED
      BY <3>3, <3>4
  <2> QED
    BY <2>2, <2>3
<1> QED
  BY <1>3, <1>4, <1>5, <1>6, <1>7 DEF Next

(* At every moment the sleeps of a link's changes add up to their times,   *)
(* a chain has slept, or has still to sleep, until the time of the change  *)
(* it is at, and its last command is what its interface has (add_netem_at  *)
(* and configure_changing_bottleneck).                                     *)
THEOREM BottleneckInvariant == Spec => []BottleneckInv
<1>1. Init => BottleneckInv
  BY InitInv DEF Init, BottleneckInv, CommandInv
<1>2. BottleneckInv /\ [Next]_vars => BottleneckInv'
  <2> SUFFICES ASSUME BottleneckInv, [Next]_vars PROVE BottleneckInv'
    OBVIOUS
  <2>1. ChainsInv'
    BY NextInv DEF BottleneckInv
  <2>2. netem_at' # <<>> => change_netem'
    BY DEF BottleneckInv, Next, AddNetemAt, add_netem_at, configure_bottleneck, run_netem_at,
           StartChain, Tick, ApplyChange, vars
  <2>3. \A c \in Chains : CommandInv(c)'
    BY CommandStep DEF BottleneckInv
  <2> QED
    BY <2>1, <2>2, <2>3 DEF BottleneckInv
<1> QED
  BY <1>1, <1>2, PTL DEF Spec

(* Each chain makes the changes of its link one after the other, none      *)
(* skipped or made twice, and none before its time, however late the       *)
(* commands before it were.                                                *)
THEOREM OnTime == Spec => ChangesOnTime
<1>1. ASSUME ChainsInv, [Next]_vars, NEW c \in Chains
      PROVE  ChangeOnTime(c)
  <2>1. CASE qdisc' = qdisc
    BY <2>1 DEF ChangeOnTime
  <2>2. CASE configure_bottleneck
    <3>1. Target[c] \in Interfaces
      BY DEF Chains, Target, Interfaces
    <3>2. qdisc[Target[c]].change = 0
      BY <1>1, <2>2 DEF configure_bottleneck, ChainsInv, ChainInv
    <3>3. qdisc'[Target[c]].change = 0
      BY <2>2, <3>1 DEF configure_bottleneck, build_netem_cmd, build_bandwidth_cmd
    <3> QED
      BY <3>2, <3>3 DEF ChangeOnTime
  <2>3. ASSUME NEW d \in Chains, ApplyChange(d), qdisc' # qdisc
        PROVE  ChangeOnTime(c)
    <3>1. qdisc' = ChangeInterface(d) /\ Running(d) /\ left[d] <= 0
      BY <2>3 DEF ApplyChange
    <3>2. CASE c = d
      <4>1. Target[d] \in Interfaces
        BY DEF Chains, Target, Interfaces
      <4>2. qdisc'[Target[c]].change = pos[c]
        BY <1>1, <3>1, <3>2, <4>1
        DEF ChangeInterface, ChainsInv, TypeOK, build_netem_cmd, build_bandwidth_cmd
      <4>3. pos[c] \in 1..Len(netem_at) /\ elapsed[c] >= netem_at[pos[c]].at
        BY <1>1, <3>1, <3>2, SleptEnough
      <4>4. qdisc[Target[c]].change = pos[c] - 1
        BY <1>1, <4>3 DEF ChainsInv, ChainInv
      <4> QED
        BY <4>2, <4>3, <4>4 DEF ChangeOnTime
    <3>3. CASE c # d
      <4>1. Target[c] # Target[d]
        BY <3>3 DEF Chains, Target
      <4>2. qdisc'[Target[c]] = qdisc[Target[c]]
        BY <1>1, <3>1, <4>1 DEF ChangeInterface, ChainsInv, TypeOK
      <4> QED
        BY <4>2 DEF ChangeOnTime
    <3> QED
      BY <3>2, <3>3
  <2>4. CASE AddNetemAt \/ run_netem_at \/ Tick
    BY <2>1, <2>4 DEF AddNetemAt, add_netem_at, run_netem_at, StartChain, Tick
  <2>5. CASE UNCHANGED vars
    BY <2>1, <2>5 DEF vars
  <2> QED
    BY <1>1, <2>1, <2>2, <2>3, <2>4, <2>5 DEF Next
<1>2. ChainsInv /\ [Next]_vars => [\A c \in Chains : ChangeOnTime(c)]_vars
  BY <1>1
<1> QED
  BY <1>2, ChainsInvariant, PTL DEF Spec, ChangesOnTime

(* When the chains of a link are over and none has failed, both directions *)
(* have the bandwidth on one interface and the last netem command on the   *)
(* other, in whatever order the chains overtook each other.                *)
THEOREM SettledInTheEnd == Spec => []Settled
<1>1. ASSUME BottleneckInv PROVE Settled
  <2> SUFFICES ASSUME phase = "started", netem_at # <<>>,
                      \A c \in Chains : ~Running(c) /\ ~failed[c]
               PROVE  \A flow \in Flows : \E i, j \in flow :
                        /\ qdisc[i] = build_bandwidth_cmd(Len(netem_at))
                        /\ qdisc[j] = build_netem_cmd(Len(netem_at))
    BY DEF Settled
  <2>1. Len(netem_at) \in Nat \ {0}
    BY <1>1 DEF BottleneckInv, ChainsInv, TypeOK
  <2>2. ASSUME NEW c \in Chains
        PROVE  qdisc[Target[c]] = IF c \in Shaping THEN build_bandwidth_cmd(Len(netem_at))
                                                   ELSE build_netem_cmd(Len(netem_at))
    <3>1. pos[c] \in Nat /\ pos[c] > 0 /\ pos[c] <= Len(netem_at) + 1
      BY <1>1, BottleneckAssumption
      DEF BottleneckAssumption, BottleneckInv, ChainsInv, TypeOK, ChainInv, CommandInv
    <3>2. pos[c] = Len(netem_at) + 1
      BY <2>1, <3>1 DEF Running
    <3>3. pos[c] > 1 /\ pos[c] - 1 = Len(netem_at)
      BY <2>1, <3>2
    <3> QED
      BY <1>1, <3>3 DEF BottleneckInv, CommandInv
  <2>3. /\ qdisc[Target[1]] = build_bandwidth_cmd(Len(netem_at))
        /\ qdisc[Target[2]] = build_netem_cmd(Len(netem_at))
        /\ qdisc[Target[3]] = build_bandwidth_cmd(Len(netem_at))
        /\ qdisc[Target[4]] = build_netem_cmd(Len(netem_at))
    BY <2>2 DEF Chains, Shaping
  <2> QED
    BY <2>3 DEF Flows, Target
<1> QED
  BY <1>1, BottleneckInvariant, PTL
=============================================================================
