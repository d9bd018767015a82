---------------------------- MODULE MCDiscovery ----------------------------
(***************************************************************************)
(* Two calls that register or unregister beside StopServer, with two       *)
(* faults (safety), or one registration with two faults (liveness).        *)
(***************************************************************************)
EXTENDS Discovery
=============================================================================
