------------------------------- MODULE MCSiri -------------------------------
(***************************************************************************)
(* Small requests, buffers and windows for Siri.  The client stops for     *)
(* good after MaxRequests requests, so that states without a successor are *)
(* expected; the liveness runs ask for the answers all the same.           *)
(***************************************************************************)
EXTENDS Siri
=============================================================================
