-------------------------------- MODULE MCMsg -------------------------------
(***************************************************************************)
(* Small messages, buffers and numbers of requests for Msg.  Both programs *)
(* end, so that states without a successor are expected.                   *)
(***************************************************************************)
EXTENDS Msg
=============================================================================
