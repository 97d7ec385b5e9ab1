------------------------------ MODULE MCLogins ------------------------------
(* Logins for TLC: names and passwords of one word, with white space in them, and    *)
(* those that login refuses.                                                          *)
EXTENDS Logins

CONSTANTS a, b

MCUsername == {<<a>>, <<a, newline>>, <<a, space>>, <<>>}
MCPassword == {<<a>>, <<newline>>, <<space>>}

\* A whole line that an administrator wrote, and one whose end is missing.
MCInitialFiles == {<<b, space, a, newline>>, <<a, space, a>>}

=============================================================================
