------------------------- MODULE LinkCharacteristics -------------------------
(***************************************************************************)
(* The changes of a link over time, netem_at of LinkCharacteristics in     *)
(* core/topo.py: records of the time of a change, of the sleep before it   *)
(* and of the netem command.  TopoParameter collects them, Bottleneck runs *)
(* them.                                                                   *)
(***************************************************************************)
EXTENDS Integers, Sequences

LastAt(changes) == changes[Len(changes)].at

(* Mutant: the sleep is the time of the change.                            *)
WithChangeAbsolute(changes, at, cmd) ==
    IF changes # <<>> /\ at <= LastAt(changes)
    THEN changes
    ELSE Append(changes, [at |-> at, delta |-> at, cmd |-> cmd])

(* A change that is not later than the last one is logged and dropped.     *)
WithChange(changes, at, cmd) ==
    IF changes = <<>>
    THEN <<[at |-> at, delta |-> at, cmd |-> cmd]>>
    ELSE IF at > LastAt(changes)
    THEN Append(changes, [at |-> at, delta |-> at - LastAt(changes), cmd |-> cmd])
    ELSE changes
=============================================================================
