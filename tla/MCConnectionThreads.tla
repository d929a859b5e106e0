------------------------ MODULE MCConnectionThreads -------------------------
(***************************************************************************)
(* A few connections for ConnectionThreads.  When all clients have come    *)
(* and gone the server waits in accept for ever.                           *)
(***************************************************************************)
EXTENDS ConnectionThreads
=============================================================================
