---------------------------- MODULE MCPeerGroup ----------------------------
(***************************************************************************)
(* Instances of PeerGroup: the number of PeerConnections and channels at   *)
(* the edges (0, a share of 0, above the cap), both transports, and one or *)
(* two faults at a time.                                                   *)
(***************************************************************************)
EXTENDS PeerGroup

None == [start |-> 0, down |-> 0, blip |-> 0, bad |-> 0, dtls |-> 0, timeout |-> 0,
         stop |-> 0]

Config(npc, total, mode, limit, waits, dials, events) ==
    [npc |-> npc, total |-> total, mode |-> mode, limit |-> limit, waits |-> waits,
     dials |-> dials, targets |-> {FALSE}, faults |-> events]

MCConfigs == {
    [Config(0, 1, "data", 1, {"cli"}, {1, 2}, [None EXCEPT !.stop = 1]) EXCEPT !.targets = BOOLEAN],
    Config(0, 0, "data", 0, {"cli"}, {1}, [None EXCEPT !.stop = 1]),
    Config(1, 2, "data", 1, {"cli"}, {1}, [None EXCEPT !.down = 1]),
    Config(1, 2, "data", 0, {"srv"}, {}, [None EXCEPT !.bad = 1, !.blip = 1]),
    Config(2, 2, "data", 0, {"cli"}, {1}, [None EXCEPT !.down = 1]),
    Config(2, 1, "data", 0, {"cli"}, {1, 2}, None),
    Config(2, 3, "data", 1, Ends, {}, [None EXCEPT !.timeout = 1, !.start = 1]),
    Config(3, 2, "media", 1, {"cli"}, {}, [None EXCEPT !.down = 2]),
    Config(3, 2, "media", 0, {"srv"}, {}, [None EXCEPT !.dtls = 1, !.bad = 1]),
    Config(1, 2, "data", 1, {"cli"}, {1, 2}, None) }
=============================================================================
