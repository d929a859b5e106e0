-------------------------- MODULE MCMultiInterface ---------------------------
(***************************************************************************)
(* The subnets of the README's example for MultiInterface.  The            *)
(* configuration ends, so that states without a successor are expected.    *)
(***************************************************************************)
EXTENDS MultiInterface

MCLeftSubnet == <<10, 0>>

MCRightSubnet == <<10, 1>>
=============================================================================
