----------------------------- MODULE MCFraming ------------------------------
(* What each connection sends: four packets of different sizes.              *)
EXTENDS Framing

MCStream == [c \in Conns |-> <<2, 3, 1, 4>>]
=============================================================================
