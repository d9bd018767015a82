--------------------------- MODULE MCReliableRTP ---------------------------
(***************************************************************************)
(* Instances of ReliableRTP: three messages with a loss, three messages    *)
(* that share two sequence numbers, and two that race with a close.        *)
(***************************************************************************)
EXTENDS ReliableRTP

MCLongCase == { [mod |-> 4, writes |-> 3, lost |-> 1, close |-> FALSE] }

MCCases == MCLongCase \cup
    { [mod |-> 2, writes |-> 3, lost |-> 0, close |-> FALSE],
      [mod |-> 4, writes |-> 2, lost |-> 0, close |-> TRUE] }
=============================================================================
