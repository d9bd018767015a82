-------------------------- MODULE MCPortMapping ----------------------------
(***************************************************************************)
(* Instances of PortMapping: three starts of the server with a lease of    *)
(* three ticks that is renewed every two, two with a lease of one tick or  *)
(* an indefinite one, or fewer with two StartClient calls.                 *)
(***************************************************************************)
EXTENDS PortMapping

Case(natMethod, lease_, calls, ticks, starts, failures, close) ==
    [natMethod |-> natMethod, lease |-> lease_, calls |-> calls,
     budget |-> [tick |-> ticks, start |-> starts, xray |-> failures, close |-> close]]

MCCases == {
    Case("upnp", 3, 0, 5, 3, 1, 0),
    Case("upnp", 1, 0, 4, 2, 1, 0),
    Case("upnp", 0, 0, 3, 2, 1, 0),
    Case("auto", 3, 2, 1, 2, 0, 1),
    Case("auto", 0, 2, 0, 1, 1, 0),
    Case("holepunch", 3, 2, 0, 1, 1, 1) }
=============================================================================
