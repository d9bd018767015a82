------------------------------ MODULE Mailbox ------------------------------
(***************************************************************************)
(* What the signaling server promises to the peers, without goroutines,    *)
(* locks or channels: one slot per session and kind (offer, answer), and   *)
(* event streams that are handed the slot's current content.  Posts are    *)
(* numbered in the order in which they take effect; 0 is an empty slot.    *)
(***************************************************************************)
EXTENDS Naturals

CONSTANTS Sessions,   \* session ids
          Streams     \* SSE connections, each used once

Kinds == {"offer", "answer"}
Key == Sessions \X Kinds

VARIABLES slot,       \* slot[k]: the post that the slot holds
          clock,      \* number of posts so far
          skey,       \* skey[st]: the slot that the URL of st names
          mode,       \* mode[st]: "off", "on" or "gone"
          sent        \* sent[st]: the last post written to st

mvars == <<slot, clock, skey, mode, sent>>

Init ==
    /\ slot = [k \in Key |-> 0]
    /\ clock = 0
    /\ skey \in [Streams -> Key]
    /\ mode = [st \in Streams |-> "off"]
    /\ sent = [st \in Streams |-> 0]

\* A post replaces the slot's content, atomically.
Put(k) ==
    /\ clock' = clock + 1
    /\ slot' = [slot EXCEPT ![k] = clock + 1]
    /\ UNCHANGED <<skey, mode, sent>>

\* Both slots of an expired session vanish together.
Expire(S) ==
    /\ slot' = [k \in Key |-> IF k[1] \in S THEN 0 ELSE slot[k]]
    /\ UNCHANGED <<clock, skey, mode, sent>>

Open(st) ==
    /\ mode[st] = "off"
    /\ mode' = [mode EXCEPT ![st] = "on"]
    /\ UNCHANGED <<slot, clock, skey, sent>>

\* A stream is only ever given what its slot holds at that moment.
Deliver(st) ==
    /\ mode[st] = "on"
    /\ slot[skey[st]] # 0
    /\ sent' = [sent EXCEPT ![st] = slot[skey[st]]]
    /\ UNCHANGED <<slot, clock, skey, mode>>

Shut(st) ==
    /\ mode[st] = "on"
    /\ mode' = [mode EXCEPT ![st] = "gone"]
    /\ UNCHANGED <<slot, clock, skey, sent>>

\* The server keeps nothing across a restart, and drops its connections.
Reboot ==
    /\ slot' = [k \in Key |-> 0]
    /\ mode' = [st \in Streams |-> IF mode[st] = "off" THEN "off" ELSE "gone"]
    /\ UNCHANGED <<clock, skey, sent>>

Next ==
    \/ \E k \in Key : Put(k)
    \/ \E S \in SUBSET Sessions : Expire(S)
    \/ \E st \in Streams : Open(st) \/ Deliver(st) \/ Shut(st)
    \/ Reboot

Spec == Init /\ [][Next]_mvars

=============================================================================
