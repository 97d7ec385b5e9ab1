---------------------------- MODULE AccountStore ----------------------------
(***************************************************************************)
(* app::account_store (src/src/app/accounts.hpp): accounts kept in memory    *)
(* and in a text file of "username password" lines, which is appended to     *)
(* when a login registers a new account and read back when the program       *)
(* starts.                                                                   *)
(*                                                                          *)
(* Text is a sequence of characters, because white space decides what the    *)
(* file means: login looks for blanks only, and the operator >> that reads   *)
(* the file stops at every white space and does not see empty words.         *)
(***************************************************************************)
EXTENDS Integers, Sequences, FiniteSets

CONSTANTS Letter,        \* stretches of text without white space
          space,         \* ' '
          newline,       \* the end of a line, a tab, and all other white space
          Username,      \* the names clients log in with
          Password,      \* the passwords they give
          auto_register, \* whether a login may open an account
          InitialFiles,  \* what the accounts file may hold to begin with
          AppendFails,   \* whether the file may take less than was appended
          MaxText        \* bound on the length of the file

Char == Letter \cup {space, newline}
Text == Seq(Char)

ASSUME AccountAssumption ==
  /\ space \notin Letter /\ newline \notin Letter /\ space # newline
  /\ Username \subseteq Text /\ Password \subseteq Text
  /\ auto_register \in BOOLEAN
  /\ InitialFiles \subseteq Text
  /\ AppendFails \in BOOLEAN
  /\ MaxText \in Nat

VARIABLES m_accounts, \* username -> account
          file,       \* the accounts file
          intact,     \* since the program started the file is made of whole lines
          lasting     \* the users whose line, with all before it, was written as it should be

accountVars == <<m_accounts, file, intact, lasting>>

\* account::index and account::password. Accounts are only ever added.
Account == [index : Nat \ {0}, password : Text]

AccountsTypeOK ==
  /\ DOMAIN m_accounts \subseteq Text
  /\ \A u \in DOMAIN m_accounts : m_accounts[u] \in Account
  /\ file \in Text
  /\ intact \in BOOLEAN
  /\ lasting \subseteq DOMAIN m_accounts

-----------------------------------------------------------------------------
\* The map with one more entry.
Emplaced(accounts, user, account) ==
  [u \in DOMAIN accounts \cup {user} |-> IF u = user THEN account ELSE accounts[u]]

\* Mutant: the number is the count of accounts so far, the first one being 0.
add_FromZero(accounts, user, password) ==
  IF user \in DOMAIN accounts THEN accounts
  ELSE Emplaced(accounts, user, [index |-> Cardinality(DOMAIN accounts), password |-> password])

\* try_emplace: an account that exists is kept as it is.
add(accounts, user, password) ==
  IF user \in DOMAIN accounts THEN accounts
  ELSE Emplaced(accounts, user, [index |-> Cardinality(DOMAIN accounts) + 1, password |-> password])

\* How far reading has come: the accounts there are, the name that waits for its
\* password, and the word under way.
Unread == [accounts |-> <<>>, user |-> <<>>, word |-> <<>>]

\* in >> user >> pass, by one character.
Take(r, c) ==
  IF c \in Letter THEN [r EXCEPT !.word = Append(@, c)]
  ELSE IF r.word = <<>> THEN r
  ELSE IF r.user = <<>> THEN [r EXCEPT !.user = r.word, !.word = <<>>]
  ELSE [Unread EXCEPT !.accounts = add(r.accounts, r.user, r.word)]

\* After each of the characters.
Reading(text) ==
  LET after[i \in 0 .. Len(text)] == IF i = 0 THEN Unread ELSE Take(after[i - 1], text[i])
  IN  after

Read(text) == Reading(text)[Len(text)]

\* The constructor. The end of the file ends a word, too.
Load(text) == Take(Read(text), newline).accounts

\* Nothing is left over that could become part of what is appended.
Whole(text) == Read(text).user = <<>> /\ Read(text).word = <<>>

\* The accounts read before anything that is left over.
Complete(text) == Read(text).accounts

AccountsInit ==
  /\ file \in InitialFiles
  /\ m_accounts = Load(file)
  /\ intact = Whole(file)
  /\ lasting = DOMAIN Complete(file)

find(u) == u \in DOMAIN m_accounts

\* Mutant: the password is not compared.
Known_AnyPassword(u, p) == find(u)

\* login returns ok for an account that exists.
Known(u, p) == find(u) /\ m_accounts[u].password = p

HasSpace(t) == \E i \in DOMAIN t : t[i] = space
IsWord(t) == t # <<>> /\ \A i \in DOMAIN t : t[i] \in Letter

\* Mutant: the end of the line is left out.
Line_Open(u, p) == u \o <<space>> \o p

Line(u, p) == u \o <<space>> \o p \o <<newline>>

\* What is known of the line of u from now on, if it is in the file.
Noted(u, p, written) ==
  /\ intact' = (intact /\ written /\ IsWord(u) /\ IsWord(p))
  /\ lasting' = IF intact' THEN lasting \cup {u} ELSE lasting

\* login registers the account, in memory and then in the file, and returns ok. Nobody
\* looks whether the line could be written: a full disk, or the end of the process, may
\* cut it short anywhere.
Register(u, p) ==
  /\ auto_register /\ ~find(u)
  /\ u # <<>> /\ ~HasSpace(u) /\ ~HasSpace(p)
  /\ m_accounts' = add(m_accounts, u, p)
  /\ \E n \in 0 .. Len(Line(u, p)) :
       /\ n = Len(Line(u, p)) \/ AppendFails
       /\ Len(file) + n <= MaxText
       /\ file' = file \o SubSeq(Line(u, p), 1, n)
       /\ Noted(u, p, n = Len(Line(u, p)))

\* Known or registered now, the answer is ok. Everything else changes nothing: a wrong
\* password, a name that is not known and may not be registered.
login(u, p) ==
  \/ Known(u, p) /\ UNCHANGED accountVars
  \/ Register(u, p)

\* The process ends, orderly or not, and is started again.
Reload ==
  /\ m_accounts' = Load(file)
  /\ intact' = Whole(file)
  /\ lasting' = DOMAIN Complete(file)
  /\ UNCHANGED file

-----------------------------------------------------------------------------
(* Properties *)

\* account::index numbers the accounts without gaps, and no two share a number:
\* the game and messenger servers identify players by it.
AccountsNumbered ==
  {m_accounts[u].index : u \in DOMAIN m_accounts} = 1 .. Cardinality(DOMAIN m_accounts)

\* account_store: starting the program again gives every user the number and password it
\* has, if its line and all before it were written, each of a name and a password of one
\* word. No later line can change that, however it is cut short and whatever white space
\* is in it. And while all lines are such lines nothing else is read back.
AccountsSurviveRestart ==
  /\ \A u \in lasting : u \in DOMAIN Load(file) /\ Load(file)[u] = m_accounts[u]
  /\ intact => Load(file) = m_accounts

\* "stable per-account number (line order)": starting the program again gives every user
\* its number back.
NumbersStable ==
  \A u \in DOMAIN m_accounts :
    u \in DOMAIN Load(file) /\ Load(file)[u].index = m_accounts[u].index
=============================================================================
