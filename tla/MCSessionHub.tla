--------------------------- MODULE MCSessionHub ---------------------------
(***************************************************************************)
(* Two posters and two streams on the two slots of one session.  setOffer  *)
(* and setAnswer are the same code on different maps, so the first stream  *)
(* is taken to be one of offers.                                           *)
(***************************************************************************)
EXTENDS SessionHub

First == CHOOSE st \in Streams : TRUE

MCInit == Init /\ skey[First][2] = "offer"
MCSpec == MCInit /\ [][Next]_vars /\ Fairness
=============================================================================
