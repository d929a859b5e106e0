------------------------------ MODULE Bottleneck -----------------------------
(***************************************************************************)
(* One bottleneck link of core/topo.py, bs0 -- bs1 -- bs2 -- bs3, and its  *)
(* changes over time: the changes are collected by add_netem_at, the tc    *)
(* configuration of the link is set by configure_bottleneck, and           *)
(* configure_changing_bottleneck starts, one after the other, four shell   *)
(* chains of sleeps and tc commands that run in the background.            *)
(*                                                                         *)
(* Time passes in steps; a sleep never ends early, and what follows it may *)
(* be late by at most MaxLate.                                             *)
(***************************************************************************)
EXTENDS LinkCharacteristics

CONSTANTS
    Times,          \* the times of changes that the parameter file may name
    Cmds,           \* the netem commands that it may name
    BadCmds,        \* those of them that tc refuses
    MaxChanges,     \* changes of the link, at most
    MaxLate         \* how late a command may be

ASSUME BottleneckAssumption ==
    /\ Times \subseteq Int
    /\ BadCmds \subseteq Cmds
    /\ MaxChanges \in Nat
    /\ MaxLate \in Nat

(* The interfaces that carry tc commands: the node and where it leads.     *)
Interfaces == {"bs1-bs2", "bs2-bs3", "bs2-bs1", "bs1-bs0"}

(* Those a packet leaves through on its way, in each direction.            *)
Flows == {{"bs1-bs2", "bs2-bs3"}, {"bs2-bs1", "bs1-bs0"}}

(* The four chains in the order they are started, the interface each of    *)
(* them changes, and which of them set the bandwidth.                      *)
Chains == 1..4

(* Mutant: a chain of the second flow uses a name of the first one.        *)
TargetCopied == <<"bs1-bs2", "bs2-bs3", "bs1-bs2", "bs1-bs0">>

Target == <<"bs1-bs2", "bs2-bs3", "bs2-bs1", "bs1-bs0">>

Shaping == {1, 3}

VARIABLES
    phase,          \* "load", "configured" or "started"
    change_netem,   \* changeNetem is yes
    netem_at,       \* the changes of the link
    qdisc,          \* what tc has set on each interface
    pos,            \* the change each chain is at, 0 before it is started
    left,           \* what is left of its sleep, negative if it is late
    elapsed,        \* the time since it was started
    failed          \* a command of it failed, so that the rest is skipped

chainVars == <<pos, left, elapsed, failed>>
vars == <<phase, change_netem, netem_at, qdisc, chainVars>>

(* What tc has set on an interface: by the configuration of the link       *)
(* (change 0) or by one of the changes.                                    *)
Qdisc == [kind : {"none", "tbf", "netem"}, change : 0..MaxChanges, delayed : BOOLEAN]

NoQdisc == [kind |-> "none", change |-> 0, delayed |-> FALSE]

build_bandwidth_cmd(k) == [kind |-> "tbf", change |-> k, delayed |-> FALSE]

(* The delay of the link is part of an added netem, not of a replaced one. *)
build_netem_cmd(k) == [kind |-> "netem", change |-> k, delayed |-> k = 0]

NetemAt == [at : Int, delta : Int, cmd : Cmds]

TypeOK ==
    /\ phase \in {"load", "configured", "started"}
    /\ change_netem \in BOOLEAN
    /\ netem_at \in Seq(NetemAt)
    /\ Len(netem_at) <= MaxChanges
    /\ qdisc \in [Interfaces -> Qdisc]
    /\ pos \in [Chains -> 0..(MaxChanges + 1)]
    /\ left \in [Chains -> Int]
    /\ elapsed \in [Chains -> Nat]
    /\ failed \in [Chains -> BOOLEAN]

Init ==
    /\ phase = "load"
    /\ change_netem \in BOOLEAN
    /\ netem_at = <<>>
    /\ qdisc = [i \in Interfaces |-> NoQdisc]
    /\ pos = [c \in Chains |-> 0]
    /\ left = [c \in Chains |-> 0]
    /\ elapsed = [c \in Chains |-> 0]
    /\ failed = [c \in Chains |-> FALSE]

-----------------------------------------------------------------------------
(* Loading the parameters                                                  *)

(* load_netem_at comes to a change of this link, if changeNetem is yes.    *)
add_netem_at(at, cmd) ==
    /\ phase = "load"
    /\ change_netem
    /\ Len(netem_at) < MaxChanges
    /\ netem_at' = WithChange(netem_at, at, cmd)
    /\ UNCHANGED <<phase, change_netem, qdisc, chainVars>>

AddNetemAt == \E at \in Times, cmd \in Cmds : add_netem_at(at, cmd)

-----------------------------------------------------------------------------
(* Configuring the link and starting the chains                            *)

(* Whatever the interfaces had is deleted first.                           *)
configure_bottleneck ==
    /\ phase = "load"
    /\ phase' = "configured"
    /\ qdisc' = [i \in Interfaces |->
        IF i \in {"bs1-bs2", "bs2-bs1"} THEN build_netem_cmd(0) ELSE build_bandwidth_cmd(0)]
    /\ UNCHANGED <<change_netem, netem_at, chainVars>>

Running(c) == pos[c] \in 1..Len(netem_at) /\ ~failed[c]

(* The chain begins with the sleep of the first change; without a change   *)
(* it is only "true &".                                                    *)
StartChain(c) ==
    /\ pos[c] = 0
    /\ \A d \in 1..(c - 1) : pos[d] > 0
    /\ pos' = [pos EXCEPT ![c] = 1]
    /\ left' = [left EXCEPT ![c] = IF netem_at = <<>> THEN 0 ELSE netem_at[1].delta]
    /\ phase' = IF c = 4 THEN "started" ELSE phase
    /\ UNCHANGED <<change_netem, netem_at, qdisc, elapsed, failed>>

(* run_netem_at, one chain at a time.                                      *)
run_netem_at ==
    /\ phase = "configured"
    /\ IF change_netem
       THEN \E c \in Chains : StartChain(c)
       ELSE phase' = "started" /\ UNCHANGED <<change_netem, netem_at, qdisc, chainVars>>

-----------------------------------------------------------------------------
(* The chains                                                              *)

Tick ==
    /\ \E c \in Chains : Running(c)
    /\ \A c \in Chains : Running(c) => left[c] > -MaxLate
    /\ left' = [c \in Chains |-> IF Running(c) THEN left[c] - 1 ELSE left[c]]
    /\ elapsed' = [c \in Chains |-> IF Running(c) THEN elapsed[c] + 1 ELSE elapsed[c]]
    /\ UNCHANGED <<phase, change_netem, netem_at, qdisc, pos, failed>>

(* sleep does not take a negative number, and tc refuses a wrong netem     *)
(* command; what follows the && is then not run.                           *)
Fails(c, k) == netem_at[k].delta < 0 \/ (c \notin Shaping /\ netem_at[k].cmd \in BadCmds)

(* Mutant: the command that follows is not separated by &&, its sleep has  *)
(* begun with the chain.                                                   *)
NextSleepParallel(c) ==
    IF pos[c] < Len(netem_at) THEN netem_at[pos[c] + 1].delta - elapsed[c] ELSE 0

NextSleep(c) == IF pos[c] < Len(netem_at) THEN netem_at[pos[c] + 1].delta ELSE 0

ChangeInterface(c) ==
    [qdisc EXCEPT ![Target[c]] =
        IF c \in Shaping THEN build_bandwidth_cmd(pos[c]) ELSE build_netem_cmd(pos[c])]

(* The sleep is over and tc replaces what the interface had.               *)
ApplyChange(c) ==
    /\ Running(c)
    /\ left[c] <= 0
    /\ IF Fails(c, pos[c])
       THEN failed' = [failed EXCEPT ![c] = TRUE] /\ UNCHANGED <<qdisc, pos, left>>
       ELSE /\ qdisc' = ChangeInterface(c)
            /\ pos' = [pos EXCEPT ![c] = @ + 1]
            /\ left' = [left EXCEPT ![c] = NextSleep(c)]
            /\ UNCHANGED failed
    /\ UNCHANGED <<phase, change_netem, netem_at, elapsed>>

Next ==
    \/ AddNetemAt
    \/ configure_bottleneck
    \/ run_netem_at
    \/ Tick
    \/ \E c \in Chains : ApplyChange(c)

Spec == Init /\ [][Next]_vars

(* The program goes on to start the chains, time passes, and the shell     *)
(* runs what follows a sleep that has ended.                               *)
FairSpec ==
    /\ Spec
    /\ WF_vars(configure_bottleneck)
    /\ WF_vars(run_netem_at)
    /\ WF_vars(Tick)
    /\ \A c \in Chains : WF_vars(ApplyChange(c))

-----------------------------------------------------------------------------
(* What the link promises                                                  *)

(* However late the commands before it were, the k-th change of a link is  *)
(* made on an interface no earlier than its time after the start of the    *)
(* chain, and right after the change before it: none is skipped or made    *)
(* twice.                                                                  *)
ChangeOnTime(c) ==
    LET before == qdisc[Target[c]].change
        after  == qdisc'[Target[c]].change
    IN  after # before =>
            /\ after = before + 1
            /\ elapsed[c] >= netem_at[after].at

ChangesOnTime == [][\A c \in Chains : ChangeOnTime(c)]_vars

Shaped(flow) == \E i \in flow : qdisc[i].kind = "tbf"

Delayed(flow) == \E i \in flow : qdisc[i].kind = "netem" /\ qdisc[i].delayed

(* When all the chains have ended and none has failed, both directions of  *)
(* the link have the bandwidth on one interface and the last netem command *)
(* on the other one.                                                       *)
Settled ==
    /\ phase = "started"
    /\ netem_at # <<>>
    /\ \A c \in Chains : ~Running(c) /\ ~failed[c]
    => \A flow \in Flows : \E i, j \in flow :
        /\ qdisc[i] = build_bandwidth_cmd(Len(netem_at))
        /\ qdisc[j] = build_netem_cmd(Len(netem_at))

(* The bandwidth of the link is limited again after the changes, whichever *)
(* of the chains were overtaken or have failed.                            *)
LimitedInTheEnd == <>[](\A flow \in Flows : Shaped(flow))

(* "the one-way delay introduced by the link": when all the chains have    *)
(* ended, both directions of the link still have the delay it is given.    *)
KeepsDelay ==
    phase = "started" /\ (\A c \in Chains : ~Running(c))
        => \A flow \in Flows : Delayed(flow)

(* The inductive invariant: the sleeps of the changes add up to their      *)
(* times, and a chain that waits has slept, or has still to sleep, until   *)
(* the time of the change it is at.                                        *)
SleepsAddUp ==
    \A k \in 1..Len(netem_at) :
        netem_at[k].at = netem_at[k].delta + (IF k = 1 THEN 0 ELSE netem_at[k - 1].at)

ChainInv(c) ==
    /\ pos[c] <= Len(netem_at) + 1
    /\ phase = "load" => pos[c] = 0
    /\ qdisc[Target[c]].change = IF pos[c] = 0 THEN 0 ELSE pos[c] - 1
    /\ pos[c] \in 1..Len(netem_at) => elapsed[c] + left[c] >= netem_at[pos[c]].at

ChainsInv == TypeOK /\ SleepsAddUp /\ \A c \in Chains : ChainInv(c)

(* ... what the last command of a chain has set is still on its interface, *)
(* and all the chains have been started when run_netem_at returns.         *)
CommandInv(c) ==
    /\ phase = "started" /\ change_netem => pos[c] > 0
    /\ pos[c] > 1 =>
        qdisc[Target[c]] = IF c \in Shaping THEN build_bandwidth_cmd(pos[c] - 1)
                                            ELSE build_netem_cmd(pos[c] - 1)

BottleneckInv ==
    /\ ChainsInv
    /\ netem_at # <<>> => change_netem
    /\ \A c \in Chains : CommandInv(c)
=============================================================================
