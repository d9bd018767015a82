--------------------------- MODULE MCAcceptLoop ---------------------------
(* Two lives of the server, three groups, two answers, one lost request. *)
EXTENDS AcceptLoop
=============================================================================
