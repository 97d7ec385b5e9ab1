------------------------------- MODULE Logins -------------------------------
(***************************************************************************)
(* The three servers over the one account store that main gives them. The    *)
(* session server is here as a whole; of the game and the messenger server,  *)
(* whose tables have modules of their own, only what a login asks of the     *)
(* store and answers. Game asks login and then find; the messenger asks find *)
(* and then login.                                                           *)
(***************************************************************************)
EXTENDS SessionServer

VARIABLES accepted, \* the logins answered with ok, and the account each was for
          snubs     \* snubs[u]: times the messenger refused u a login the store accepted

loginVars == <<net, user_data, m_online, superseded>>
allVars == <<vars, accepted, snubs>>

LoginsInit ==
  /\ Init
  /\ accepted = {}
  /\ snubs = [u \in Username |-> 0]

\* The answer ok to user u that gave password p: u is told the number of its account.
Accepts(u, p) ==
  accepted' = accepted \cup
    {[user |-> u, account |-> [index |-> m_accounts'[u].index, password |-> p]]}

SessionLogon(h, u, p) == logon(h, u, p) /\ Accepts(u, p) /\ UNCHANGED snubs

\* game_server::logon, as far as the store is concerned: login, then find.
GameLogon(u, p) == login(u, p) /\ Accepts(u, p) /\ UNCHANGED <<loginVars, snubs>>

\* Mutant: the account is looked up in the accounts file.
FoundFirst_Loaded(u) == u \in DOMAIN Load(file)

\* messenger_server::logon looks the account up before login may register it.
FoundFirst(u) == find(u)

\* messenger_server::logon, as far as the store is concerned: find, then login.
\* Without an account beforehand the answer is a refusal, of a user who has one now.
MessengerLogon(u, p) ==
  /\ login(u, p)
  /\ \/ FoundFirst(u) /\ Accepts(u, p) /\ UNCHANGED snubs
     \/ /\ ~FoundFirst(u)
        /\ snubs[u] < 2
        /\ snubs' = [snubs EXCEPT ![u] = @ + 1]
        /\ UNCHANGED accepted
  /\ UNCHANGED loginVars

SessionOther ==
  /\ Accept \/ \E h \in HostId : Handshake(h) \/ Leave(h) \/ Change_Nation(h)
  /\ UNCHANGED <<accepted, snubs>>

\* Who has no line in the file, or one after a line that is not as it should be, may be
\* gone or have another number: what it was told before no longer counts.
RestartAll ==
  /\ Restart
  /\ accepted' = {a \in accepted : a.user \in lasting}
  /\ snubs' = [u \in Username |-> 0]

LoginsNext ==
  \/ SessionOther
  \/ \E u \in Username, p \in Password :
       GameLogon(u, p) \/ MessengerLogon(u, p) \/ \E h \in HostId : SessionLogon(h, u, p)
  \/ RestartAll

LoginsSpec == LoginsInit /\ [][LoginsNext]_allVars

-----------------------------------------------------------------------------
(* Properties *)

\* A login that one of the servers has accepted stays good for all of them: the
\* account keeps the password it was opened with and the number the client was told,
\* whichever server registered it, whoever tries the name with another password, and
\* over restarts, provided its line and all before it are in the file as they should be.
CredentialsHold ==
  \A a \in accepted : a.user \in DOMAIN m_accounts /\ m_accounts[a.user] = a.account

\* A user who comes to the messenger before the other servers is refused although the
\* same call opened an account for it; that happens once, and trying again succeeds.
RefusedAtMostOnce == \A u \in Username : snubs[u] <= 1
=============================================================================
