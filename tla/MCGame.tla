------------------------------- MODULE MCGame -------------------------------
(* GameServer for TLC: interchangeable users. *)
EXTENDS GameServer, TLC

Symmetry == Permutations(User)
=============================================================================
