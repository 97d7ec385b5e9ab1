----------------------------- MODULE MCSession -----------------------------
(* SessionServer for TLC: passwords that are one word, none, or two. *)
EXTENDS SessionServer

CONSTANTS a, b

MCUsername == {<<a>>, <<b>>}
MCPassword == {<<a>>, <<>>, <<a, newline, b>>}

\* No file, and one an administrator wrote with a user listed twice.
MCInitialFiles == {<<>>, <<b, space, a, newline, b, space, b, newline>>}

=============================================================================
