------------------------------ MODULE MCLobby ------------------------------
(* Lobby for TLC: user names are interchangeable model values. *)
EXTENDS Lobby, TLC

NameSymmetry == Permutations(Names)
=============================================================================
