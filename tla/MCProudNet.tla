----------------------------- MODULE MCProudNet -----------------------------
(* ProudNetServer for TLC: interchangeable peer objects. *)
EXTENDS ProudNetServer, TLC

Symmetry == Permutations(Conn)
=============================================================================
