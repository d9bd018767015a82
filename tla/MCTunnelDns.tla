--------------------------- MODULE MCTunnelDns -----------------------------
(***************************************************************************)
(* Instances of TunnelDns: three queries for the names 11 and 12, of which *)
(* 1 and 3 are different questions with the same transaction ID, and one   *)
(* or two faults at a time.                                                *)
(***************************************************************************)
EXTENDS TunnelDns, TLC

MCQuery == 1 :> [name |-> 11, tx |-> 1] @@ 2 :> [name |-> 12, tx |-> 2]
             @@ 3 :> [name |-> 12, tx |-> 1]

Quiet == [tick |-> 0, stream |-> 0, unresolved |-> 0, break |-> 0, timeout |-> 0,
          stop |-> 0, swap |-> 0]

Case(users, channels, dns2, direct, events) ==
    [users |-> users, channels |-> channels, dns2 |-> dns2, direct |-> direct, faults |-> events,
     records |-> {[nx |-> FALSE, ttls |-> {2, 3}]}]

MCCases == {
    Case({1, 2, 3}, 2, FALSE, FALSE, Quiet),
    Case({2, 3}, 2, FALSE, FALSE, [Quiet EXCEPT !.tick = 2]),
    Case({1, 2}, 2, TRUE, FALSE, [Quiet EXCEPT !.stream = 1, !.timeout = 1]),
    Case({1, 3}, 1, TRUE, FALSE, [Quiet EXCEPT !.timeout = 1]),
    Case({1, 3}, 1, FALSE, TRUE, [Quiet EXCEPT !.stream = 1, !.unresolved = 1, !.timeout = 1]),
    [Case({1, 2}, 2, FALSE, FALSE, [Quiet EXCEPT !.break = 1]) EXCEPT
        !.records = {[nx |-> TRUE, ttls |-> {2}], [nx |-> FALSE, ttls |-> {0}]}],
    Case({1, 2}, 1, FALSE, FALSE, [Quiet EXCEPT !.stop = 1]),
    Case({1}, 2, FALSE, FALSE, [Quiet EXCEPT !.stop = 1]),
    Case({1, 3}, 1, FALSE, FALSE, [Quiet EXCEPT !.swap = 1]) }
=============================================================================
