------------------------- MODULE MCClientLifecycle -------------------------
(***************************************************************************)
(* Three threads and two groups: a StartClient or a ConnectWebRTC with     *)
(* its StartTunnel, overtaken by a StopClient and a newer call, or         *)
(* followed by a fast reconnect and its successor.                         *)
(***************************************************************************)
EXTENDS ClientLifecycle
=============================================================================
