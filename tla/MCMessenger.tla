---------------------------- MODULE MCMessenger ----------------------------
(* MessengerServer for TLC: interchangeable users. *)
EXTENDS MessengerServer, TLC

Symmetry == Permutations(User)
=============================================================================
