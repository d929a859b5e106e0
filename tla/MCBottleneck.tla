----------------------------- MODULE MCBottleneck ----------------------------
(***************************************************************************)
(* A few times and commands for Bottleneck.  The chains end, so that       *)
(* states without a successor are expected.                                *)
(***************************************************************************)
EXTENDS Bottleneck

MCTimes == -1..2
=============================================================================
