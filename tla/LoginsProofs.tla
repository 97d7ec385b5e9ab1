---------------------------- MODULE LoginsProofs ----------------------------
(***************************************************************************)
(* Proofs about AccountStore, SessionServer and Logins, for every file, all  *)
(* names and passwords, every pool of HostIDs and every number of restarts.  *)
(* What reading the accounts file computes is proved by induction over its   *)
(* characters, each time as the absence of a shortest counterexample.        *)
(***************************************************************************)
EXTENDS Logins, ProudNetStateProofs, SequenceTheorems, FiniteSetTheorems

-----------------------------------------------------------------------------
(* Reading the accounts file *)

\* g is how far reading has come after each of the first n characters.
Reads(text, g, n) ==
  g = [i \in 0 .. n |-> IF i = 0 THEN Unread ELSE Take(g[i - 1], text[i])]

\* A set of naturals without a least element is empty: induction, as the absence of a
\* least counterexample.
LEMMA NoLeast ==
  ASSUME NEW S, S \subseteq Nat, \A n \in S : \E m \in S : m < n
  PROVE  S = {}
<1>1. SUFFICES ASSUME S # {} PROVE FALSE
  OBVIOUS
<1> DEFINE R == {ss \in Nat \X Nat : ss[1] < ss[2]}
<1>2. IsWellFoundedOn(R, Nat)
  BY NatLessThanWellFounded, Zenon DEF OpToRel
<1>3. PICK x \in S : \A y \in S : ~ (<<y, x>> \in R)
  BY <1>1, <1>2, WFMin
<1>4. PICK m \in S : m < x
  OBVIOUS
<1>5. <<m, x>> \in R
  BY <1>4
<1> QED
  BY <1>3, <1>5

\* The recursion over the characters is well defined.
LEMMA ReadsExists ==
  ASSUME NEW text, NEW n \in Nat
  PROVE  \E g : Reads(text, g, n)
<1> DEFINE S == {m \in Nat : ~ \E g : Reads(text, g, m)}
<1>1. ASSUME NEW m \in S
      PROVE  \E k \in S : k < m
  <2>1. m # 0
    <3> DEFINE g == [i \in 0 .. 0 |-> Unread]
    <3>1. Reads(text, g, 0)
      BY DEF Reads
    <3> QED
      BY <3>1
  <2>2. SUFFICES ASSUME NEW f, Reads(text, f, m - 1)
                 PROVE  \E g : Reads(text, g, m)
    BY <2>1
  <2> DEFINE g == [i \in 0 .. m |-> IF i = m THEN Take(f[m - 1], text[m]) ELSE f[i]]
  <2>3. \A i \in 0 .. m - 1 : g[i] = f[i]
    BY <2>1
  <2>4. ASSUME NEW i \in 0 .. m
        PROVE  g[i] = IF i = 0 THEN Unread ELSE Take(g[i - 1], text[i])
    <3>1. CASE i = m
      <4>1. g[m - 1] = f[m - 1] /\ m - 1 \in Nat
        BY <2>1, <2>3
      <4>2. g[m] = Take(f[m - 1], text[m])
        OBVIOUS
      <4> HIDE DEF g
      <4> QED
        BY <2>1, <3>1, <4>1, <4>2
    <3>2. CASE i # m
      <4>1. i \in 0 .. m - 1 /\ (i # 0 => i - 1 \in 0 .. m - 1)
        BY <2>1, <3>2
      <4>2. f[i] = IF i = 0 THEN Unread ELSE Take(f[i - 1], text[i])
        BY <2>2, <4>1 DEF Reads
      <4> HIDE DEF g
      <4> QED
        BY <2>3, <4>1, <4>2
    <3> QED
      BY <3>1, <3>2
  <2>5. g = [i \in 0 .. m |-> g[i]]
    OBVIOUS
  <2> HIDE DEF g
  <2>6. Reads(text, g, m)
    BY <2>4, <2>5 DEF Reads
  <2> QED
    BY <2>6
<1>2. S = {}
  BY <1>1, NoLeast
<1> QED
  BY <1>2

\* The equations of Reading.
LEMMA ReadingIs ==
  ASSUME NEW text \in Text
  PROVE  /\ Reading(text)[0] = Unread
         /\ \A i \in 1 .. Len(text) : Reading(text)[i] = Take(Reading(text)[i - 1], text[i])
<1> DEFINE n == Len(text)
<1>1. n \in Nat
  BY DEF Text
<1>2. Reading(text) = CHOOSE g : Reads(text, g, n)
  BY DEF Reading, Reads
<1>3. Reads(text, Reading(text), n)
  BY <1>1, <1>2, ReadsExists
<1> HIDE DEF n
<1>4. \A i \in 0 .. n : Reading(text)[i] =
         IF i = 0 THEN Unread ELSE Take(Reading(text)[i - 1], text[i])
  BY <1>3 DEF Reads
<1>5. Reading(text)[0] = Unread
  <2>1. 0 \in 0 .. n
    BY <1>1
  <2> QED
    BY <1>4, <2>1, Zenon
<1>6. ASSUME NEW i \in 1 .. n
      PROVE  Reading(text)[i] = Take(Reading(text)[i - 1], text[i])
  <2>1. i \in 0 .. n /\ i # 0
    BY <1>1
  <2> QED
    BY <1>4, <2>1
<1> QED
  BY <1>5, <1>6 DEF n

\* The characters of two texts, one after the other.
LEMMA TextJoined ==
  ASSUME NEW s \in Text, NEW t \in Text
  PROVE  /\ s \o t \in Text /\ Len(s) \in Nat /\ Len(t) \in Nat
         /\ Len(s \o t) = Len(s) + Len(t)
         /\ \A i \in 1 .. Len(s) : (s \o t)[i] = s[i]
         /\ \A i \in 1 .. Len(t) : (s \o t)[Len(s) + i] = t[i]
  BY DEF Text

\* Three texts, one after the other.
LEMMA TextAssociative ==
  ASSUME NEW s \in Text, NEW t \in Text, NEW v \in Text
  PROVE  s \o (t \o v) = (s \o t) \o v
<1>1. s \in Seq(Char) /\ t \in Seq(Char) /\ v \in Seq(Char)
  BY DEF Text
<1> QED
  BY <1>1, ConcatAssociative

\* Words are text, and so are blanks and line ends.
LEMMA WordsAreText ==
  /\ Letter \subseteq Char /\ space \in Char /\ newline \in Char
  /\ \A s \in Seq(Letter) : s \in Text
  /\ <<space>> \in Text /\ <<newline>> \in Text /\ <<>> \in Text
  /\ \A t \in Text : IsWord(t) => t \in Seq(Letter) /\ t # <<>>
<1>1. Letter \subseteq Char /\ space \in Char /\ newline \in Char
  BY DEF Char
<1>2. ASSUME NEW s \in Seq(Letter)
      PROVE  s \in Text
  BY <1>1, SeqMonotonic DEF Text
<1>3. <<space>> \in Text /\ <<newline>> \in Text /\ <<>> \in Text
  BY <1>1 DEF Text
<1>4. ASSUME NEW t \in Text, IsWord(t)
      PROVE  t \in Seq(Letter) /\ t # <<>>
  <2>1. t \in [1 .. Len(t) -> Char] /\ Len(t) \in Nat /\ DOMAIN t = 1 .. Len(t)
    BY LenProperties DEF Text
  <2>2. \A i \in 1 .. Len(t) : t[i] \in Letter
    BY <1>4, <2>1 DEF IsWord
  <2>3. t \in [1 .. Len(t) -> Letter]
    BY <2>1, <2>2
  <2>4. t \in UNION {[1 .. n -> Letter] : n \in Nat}
    BY <2>1, <2>3
  <2> QED
    BY <1>4, <2>4, SeqDef DEF IsWord
<1> QED
  BY <1>1, <1>2, <1>3, <1>4

\* A well-formed account map: every entry an account, numbered from 1 without gaps.
AccountMap(acc) ==
  /\ IsFiniteSet(DOMAIN acc)
  /\ DOMAIN acc \subseteq Text \ {<<>>}
  /\ \A u \in DOMAIN acc : acc[u] \in Account
  /\ {acc[u].index : u \in DOMAIN acc} = 1 .. Cardinality(DOMAIN acc)

\* Every entry of one map is in another.
Within(acc, more) ==
  \A u \in DOMAIN acc : u \in DOMAIN more /\ more[u] = acc[u]

\* The empty map is well formed.
LEMMA EmptyMap == AccountMap(<<>>)
<1>1. DOMAIN <<>> = {}
  OBVIOUS
<1>2. IsFiniteSet({}) /\ Cardinality({}) = 0
  BY FS_EmptySet
<1> QED
  BY <1>1, <1>2 DEF AccountMap

\* account_store::add keeps the map well formed, keeps every entry there is, and gives
\* a new user the next number and the password that came with it.
LEMMA AddKeeps ==
  ASSUME NEW acc, AccountMap(acc), NEW u \in Text \ {<<>>}, NEW p \in Text
  PROVE  /\ AccountMap(add(acc, u, p))
         /\ DOMAIN add(acc, u, p) = DOMAIN acc \cup {u}
         /\ Within(acc, add(acc, u, p))
         /\ u \notin DOMAIN acc => add(acc, u, p)[u].password = p
<1>1. CASE u \in DOMAIN acc
  BY <1>1 DEF add, Within
<1>2. CASE u \notin DOMAIN acc
  <2> DEFINE n == Cardinality(DOMAIN acc)
             D == DOMAIN acc \cup {u}
             a == [index |-> n + 1, password |-> p]
             r == add(acc, u, p)
  <2>1. n \in Nat
    BY FS_CardinalityType DEF AccountMap
  <2>2. IsFiniteSet(D) /\ Cardinality(D) = n + 1
    BY <1>2, FS_AddElement DEF AccountMap
  <2>3. a \in Account /\ a.index = n + 1 /\ a.password = p
    BY <2>1 DEF Account
  <2> HIDE DEF n, a
  <2>4. r = [v \in D |-> IF v = u THEN a ELSE acc[v]]
    BY <1>2 DEF add, Emplaced, a, n
  <2>5. DOMAIN r = D
    BY <2>4
  <2>6. r[u] = a /\ \A v \in DOMAIN acc : r[v] = acc[v]
    BY <2>4, <1>2
  <2> HIDE DEF r
  <2>7. {r[v].index : v \in D} = {acc[v].index : v \in DOMAIN acc} \cup {n + 1}
    BY <2>6, <2>3
  <2>8. {r[v].index : v \in D} = 1 .. (n + 1)
    <3>1. {acc[v].index : v \in DOMAIN acc} = 1 .. n
      BY DEF AccountMap, n
    <3>2. (1 .. n) \cup {n + 1} = 1 .. (n + 1)
      BY <2>1
    <3> QED
      BY <2>7, <3>1, <3>2
  <2>9. AccountMap(r)
    BY <2>2, <2>3, <2>5, <2>6, <2>8 DEF AccountMap
  <2> QED
    BY <2>3, <2>5, <2>6, <2>9 DEF r, Within
<1> QED
  BY <1>1, <1>2

\* What reading keeps: well-formed accounts, and words without white space.
Reader(r) ==
  /\ r = [accounts |-> r.accounts, user |-> r.user, word |-> r.word]
  /\ AccountMap(r.accounts)
  /\ r.user \in Seq(Letter) /\ r.word \in Seq(Letter)

\* One character: a letter is added to the word under way; after a word, white space
\* makes it the name, or adds the account; more white space changes nothing.
LEMMA TakeKeeps ==
  ASSUME NEW r, Reader(r), NEW c \in Char
  PROVE  Reader(Take(r, c)) /\ Within(r.accounts, Take(r, c).accounts)
<1>1. Unread = [accounts |-> <<>>, user |-> <<>>, word |-> <<>>] /\ <<>> \in Seq(Letter)
  BY DEF Unread
<1>2. CASE c \in Letter
  <2>1. Take(r, c) = [accounts |-> r.accounts, user |-> r.user, word |-> Append(r.word, c)]
    BY <1>2 DEF Take, Reader
  <2>2. Append(r.word, c) \in Seq(Letter)
    BY <1>2 DEF Reader
  <2> QED
    BY <2>1, <2>2 DEF Reader, Within
<1>3. CASE c \notin Letter /\ r.word = <<>>
  BY <1>3 DEF Take, Within
<1>4. CASE c \notin Letter /\ r.word # <<>> /\ r.user = <<>>
  <2>1. Take(r, c) = [accounts |-> r.accounts, user |-> r.word, word |-> <<>>]
    BY <1>4 DEF Take, Reader
  <2> QED
    BY <1>1, <2>1 DEF Reader, Within
<1>5. CASE c \notin Letter /\ r.word # <<>> /\ r.user # <<>>
  <2>1. PICK acc, u, p : acc = r.accounts /\ u = r.user /\ p = r.word
    OBVIOUS
  <2>2. u \in Text \ {<<>>} /\ p \in Text
    BY <1>5, <2>1, WordsAreText DEF Reader
  <2>3. AccountMap(acc)
    BY <2>1 DEF Reader
  <2>4. AccountMap(add(acc, u, p)) /\ Within(acc, add(acc, u, p))
    BY <2>2, <2>3, AddKeeps
  <2>5. Take(r, c) = [accounts |-> add(acc, u, p), user |-> <<>>, word |-> <<>>]
    BY <1>1, <1>5, <2>1 DEF Take
  <2> QED
    BY <1>1, <2>1, <2>4, <2>5 DEF Reader
<1> QED
  BY <1>2, <1>3, <1>4, <1>5

\* Whatever text the file holds, reading keeps this after every character, and no
\* account goes or changes.
LEMMA ReadingTyped ==
  ASSUME NEW text \in Text, NEW i \in 0 .. Len(text)
  PROVE  Reader(Reading(text)[i])
<1> DEFINE n == Len(text)
           S == {k \in 0 .. n : ~ Reader(Reading(text)[k])}
<1>1. n \in Nat
  BY DEF Text
<1>2. ASSUME NEW k \in S
      PROVE  \E m \in S : m < k
  <2>1. Reader(Unread)
    BY EmptyMap DEF Reader, Unread
  <2>2. k # 0
    BY <2>1, ReadingIs
  <2>3. k \in 1 .. n /\ k - 1 \in 0 .. n /\ k - 1 < k
    BY <1>1, <2>2
  <2>4. text[k] \in Char
    BY <2>3 DEF Text
  <2>5. Reading(text)[k] = Take(Reading(text)[k - 1], text[k])
    BY <2>3, ReadingIs
  <2>6. PICK r : r = Reading(text)[k - 1]
    OBVIOUS
  <2>7. Reader(r) => Reader(Take(r, text[k]))
    BY <2>4, TakeKeeps
  <2> QED
    BY <2>3, <2>5, <2>6, <2>7
<1>3. S = {}
  <2>1. S \subseteq Nat
    BY <1>1
  <2> QED
    BY <1>2, <2>1, NoLeast
<1> QED
  BY <1>3

\* No account that has been read goes or changes while reading goes on.
LEMMA ReadingGrows ==
  ASSUME NEW text \in Text, NEW j \in 0 .. Len(text), NEW i \in j .. Len(text)
  PROVE  Within(Reading(text)[j].accounts, Reading(text)[i].accounts)
<1> DEFINE n == Len(text)
           acc == Reading(text)[j].accounts
           S == {k \in j .. n : ~ Within(acc, Reading(text)[k].accounts)}
<1>1. n \in Nat /\ j \in Nat /\ j <= n
  BY DEF Text
<1>2. ASSUME NEW k \in S
      PROVE  \E m \in S : m < k
  <2>1. k # j
    BY DEF Within
  <2>2. k \in 1 .. n /\ k - 1 \in j .. n /\ k - 1 \in 0 .. n /\ k - 1 < k
    BY <1>1, <2>1
  <2>3. text[k] \in Char
    BY <2>2 DEF Text
  <2>4. Reading(text)[k] = Take(Reading(text)[k - 1], text[k])
    BY <2>2, ReadingIs
  <2>5. PICK r : r = Reading(text)[k - 1]
    OBVIOUS
  <2>6. Reader(r)
    BY <2>2, <2>5, ReadingTyped
  <2>7. Within(r.accounts, Take(r, text[k]).accounts)
    BY <2>3, <2>6, TakeKeeps
  <2> HIDE DEF acc
  <2>8. Within(acc, r.accounts) => Within(acc, Take(r, text[k]).accounts)
    BY <2>7 DEF Within
  <2> QED
    BY <2>2, <2>4, <2>5, <2>8
<1>3. S = {}
  <2>1. S \subseteq Nat
    BY <1>1
  <2> QED
    BY <1>2, <2>1, NoLeast
<1> QED
  BY <1>3

\* Reading a file that is longer reads the same first.
LEMMA ReadingAppended ==
  ASSUME NEW text \in Text, NEW more \in Text, NEW i \in 0 .. Len(text)
  PROVE  Reading(text \o more)[i] = Reading(text)[i]
<1> DEFINE n == Len(text)
           all == text \o more
           S == {k \in 0 .. n : Reading(all)[k] # Reading(text)[k]}
<1>1. /\ all \in Text /\ n \in Nat /\ Len(all) = n + Len(more) /\ Len(more) \in Nat
      /\ \A k \in 1 .. n : all[k] = text[k]
  BY TextJoined
<1>2. Reading(all)[0] = Reading(text)[0]
  BY <1>1, ReadingIs
<1> HIDE DEF all
<1>3. ASSUME NEW k \in S
      PROVE  \E m \in S : m < k
  <2>1. k \in 1 .. n /\ k - 1 \in 0 .. n /\ k - 1 < k /\ k \in 1 .. Len(all)
    BY <1>1, <1>2
  <2>2. /\ Reading(text)[k] = Take(Reading(text)[k - 1], text[k])
        /\ Reading(all)[k] = Take(Reading(all)[k - 1], all[k])
    BY <1>1, <2>1, ReadingIs
  <2>3. all[k] = text[k]
    BY <1>1, <2>1
  <2> QED
    BY <2>1, <2>2, <2>3
<1>4. S = {}
  <2>1. S \subseteq Nat
    BY <1>1
  <2> QED
    BY <1>3, <2>1, NoLeast
<1> QED
  BY <1>4 DEF all

\* What is known of a file by its end.
LEMMA ReadTyped ==
  ASSUME NEW text \in Text
  PROVE  /\ Reader(Read(text)) /\ AccountMap(Complete(text))
         /\ AccountMap(Load(text)) /\ Within(Complete(text), Load(text))
         /\ Whole(text) => Load(text) = Complete(text)
<1>1. Len(text) \in 0 .. Len(text)
  BY DEF Text
<1>2. PICK r : r = Read(text)
  OBVIOUS
<1>3. Reader(r)
  BY <1>1, <1>2, ReadingTyped DEF Read
<1>4. Reader(Take(r, newline)) /\ Within(r.accounts, Take(r, newline).accounts)
  BY <1>3, WordsAreText, TakeKeeps
<1>5. r.word = <<>> => Take(r, newline) = r
  BY AccountAssumption DEF Take
<1> QED
  BY <1>2, <1>3, <1>4, <1>5 DEF Reader, Complete, Load, Whole

\* Whatever is appended to a file, the accounts of its complete lines stay.
LEMMA CompleteKept ==
  ASSUME NEW text \in Text, NEW more \in Text
  PROVE  Within(Complete(text), Complete(text \o more))
<1>1. PICK all : all = text \o more
  OBVIOUS
<1>2. all \in Text /\ Len(all) \in Len(text) .. Len(all) /\ Len(text) \in 0 .. Len(all)
  BY <1>1, TextJoined
<1>3. Within(Reading(all)[Len(text)].accounts, Reading(all)[Len(all)].accounts)
  BY <1>2, ReadingGrows
<1>4. Reading(all)[Len(text)] = Reading(text)[Len(text)]
  BY <1>1, ReadingAppended, TextJoined
<1> QED
  BY <1>1, <1>3, <1>4 DEF Complete, Read

\* One more character.
LEMMA ReadMore ==
  ASSUME NEW text \in Text, NEW c \in Char
  PROVE  text \o <<c>> \in Text /\ Read(text \o <<c>>) = Take(Read(text), c)
<1>1. PICK more : more = <<c>>
  OBVIOUS
<1>2. more \in Text /\ Len(more) = 1 /\ more[1] = c
  BY <1>1 DEF Text
<1>3. PICK all : all = text \o more
  OBVIOUS
<1>4. /\ all \in Text /\ Len(text) \in Nat /\ Len(all) = Len(text) + 1
      /\ all[Len(text) + 1] = c
  <2>1. 1 \in 1 .. Len(more)
    BY <1>2
  <2>2. /\ text \o more \in Text /\ Len(text) \in Nat
        /\ Len(text \o more) = Len(text) + Len(more)
        /\ (text \o more)[Len(text) + 1] = more[1]
    BY <1>2, <2>1, TextJoined
  <2> QED
    BY <1>2, <1>3, <2>2
<1>5. Reading(all)[Len(text) + 1] = Take(Reading(all)[Len(text)], c)
  <2>1. Len(text) + 1 \in 1 .. Len(all) /\ (Len(text) + 1) - 1 = Len(text)
    BY <1>4
  <2>2. Reading(all)[Len(text) + 1] = Take(Reading(all)[(Len(text) + 1) - 1], all[Len(text) + 1])
    BY <1>4, <2>1, ReadingIs
  <2> QED
    BY <1>4, <2>1, <2>2
<1>6. Reading(all)[Len(text)] = Reading(text)[Len(text)]
  <2>1. Len(text) \in 0 .. Len(text)
    BY <1>4
  <2> QED
    BY <1>2, <1>3, <2>1, ReadingAppended
<1> QED
  BY <1>1, <1>3, <1>4, <1>5, <1>6 DEF Read

\* A word that is read from its start is the word under way.
LEMMA ReadWord ==
  ASSUME NEW text \in Text, NEW w \in Seq(Letter), Read(text).word = <<>>
  PROVE  text \o w \in Text /\ Read(text \o w) = [Read(text) EXCEPT !.word = w]
<1> DEFINE all == text \o w
           l == Len(text)
           r == Read(text)
           S == {k \in 0 .. Len(w) : Reading(all)[l + k] # [r EXCEPT !.word = SubSeq(w, 1, k)]}
<1>0. w \in Text
  BY WordsAreText
<1>1. /\ all \in Text /\ l \in Nat /\ Len(w) \in Nat /\ Len(all) = l + Len(w)
      /\ \A k \in 1 .. Len(w) : all[l + k] = w[k]
  BY <1>0, TextJoined
<1>2. Reading(all)[l] = r
  <2>1. l \in 0 .. l
    BY <1>1
  <2> QED
    BY <1>0, <2>1, ReadingAppended DEF Read
<1>3. Reader(r)
  BY ReadTyped
<1>4. r = [accounts |-> r.accounts, user |-> r.user, word |-> <<>>]
  <2>1. r = [accounts |-> r.accounts, user |-> r.user, word |-> r.word]
    BY <1>3 DEF Reader
  <2> QED
    BY <2>1
<1> HIDE DEF all, l, r
<1>5. ASSUME NEW k \in S
      PROVE  \E m \in S : m < k
  <2>1. k # 0
    <3>1. SubSeq(w, 1, 0) = <<>>
      BY SubSeqEmpty
    <3>2. [r EXCEPT !.word = <<>>] = r
      BY <1>4
    <3> QED
      BY <1>1, <1>2, <3>1, <3>2
  <2>2. /\ k \in 1 .. Len(w) /\ k - 1 \in 0 .. Len(w) /\ k - 1 < k
        /\ l + k \in 1 .. Len(all) /\ (l + k) - 1 = l + (k - 1)
    BY <1>1, <2>1
  <2>3. Reading(all)[l + k] = Take(Reading(all)[l + (k - 1)], w[k])
    <3>1. Reading(all)[l + k] = Take(Reading(all)[(l + k) - 1], all[l + k])
      BY <1>1, <2>2, ReadingIs
    <3> QED
      BY <1>1, <2>2, <3>1
  <2>4. w[k] \in Letter
    BY <2>2
  <2>5. PICK v : v = SubSeq(w, 1, k - 1)
    OBVIOUS
  <2>6. Append(v, w[k]) = SubSeq(w, 1, k)
    BY <2>2, <2>5
  <2>7. Take([r EXCEPT !.word = v], w[k]) = [r EXCEPT !.word = Append(v, w[k])]
    BY <1>4, <2>4 DEF Take
  <2>8. Reading(all)[l + (k - 1)] # [r EXCEPT !.word = v]
    BY <2>3, <2>6, <2>7
  <2> QED
    BY <2>2, <2>5, <2>8
<1>6. S = {}
  <2>1. S \subseteq Nat
    BY <1>1
  <2> QED
    BY <1>5, <2>1, NoLeast
<1>7. Reading(all)[l + Len(w)] = [r EXCEPT !.word = SubSeq(w, 1, Len(w))]
  <2>1. Len(w) \in 0 .. Len(w)
    BY <1>1
  <2> QED
    BY <1>6, <2>1
<1>8. SubSeq(w, 1, Len(w)) = w
  BY SubSeqFull
<1> QED
  BY <1>1, <1>7, <1>8 DEF all, l, r, Read

\* A line of a name and a password that are words, appended to a file of whole lines, is
\* read back as one more add.
LEMMA LineRead ==
  ASSUME NEW text \in Text, Whole(text),
         NEW u \in Text, IsWord(u), NEW p \in Text, IsWord(p)
  PROVE  /\ Whole(text \o Line(u, p))
         /\ Complete(text \o Line(u, p)) = add(Complete(text), u, p)
<1> DEFINE t1 == text \o u
           t2 == t1 \o <<space>>
           t3 == t2 \o p
           t4 == t3 \o <<newline>>
           acc == Complete(text)
<1>1. u \in Seq(Letter) /\ u # <<>> /\ p \in Seq(Letter) /\ p # <<>>
  BY WordsAreText
<1>2. /\ Read(text) = [accounts |-> acc, user |-> <<>>, word |-> <<>>]
      /\ Read(text).word = <<>>
  <2>1. PICK r : r = Read(text)
    OBVIOUS
  <2>2. r = [accounts |-> r.accounts, user |-> r.user, word |-> r.word]
    BY <2>1, ReadTyped DEF Reader
  <2> QED
    BY <2>1, <2>2 DEF Whole, Complete
<1>3. t1 \in Text /\ Read(t1) = [accounts |-> acc, user |-> <<>>, word |-> u]
  <2>1. t1 \in Text /\ Read(t1) = [Read(text) EXCEPT !.word = u]
    BY <1>1, <1>2, ReadWord
  <2> QED
    BY <1>2, <2>1
<1> HIDE DEF t1, acc
<1>4. t2 \in Text /\ Read(t2) = [accounts |-> acc, user |-> u, word |-> <<>>]
  <2>1. t2 \in Text /\ Read(t2) = Take(Read(t1), space)
    BY <1>3, WordsAreText, ReadMore
  <2>2. Take(Read(t1), space) = [accounts |-> acc, user |-> u, word |-> <<>>]
    <3>1. PICK r : r = Read(t1)
      OBVIOUS
    <3>2. /\ r = [accounts |-> r.accounts, user |-> r.user, word |-> r.word]
          /\ r.accounts = acc /\ r.user = <<>> /\ r.word = u
      BY <1>3, <3>1
    <3>3. Take(r, space) = [accounts |-> r.accounts, user |-> r.word, word |-> <<>>]
      BY <1>1, <3>2, AccountAssumption DEF Take
    <3> QED
      BY <3>1, <3>2, <3>3
  <2> QED
    BY <2>1, <2>2
<1> HIDE DEF t2
<1>5. t3 \in Text /\ Read(t3) = [accounts |-> acc, user |-> u, word |-> p]
  <2>1. t3 \in Text /\ Read(t3) = [Read(t2) EXCEPT !.word = p]
    BY <1>1, <1>4, ReadWord
  <2> QED
    BY <1>4, <2>1
<1> HIDE DEF t3
<1>6. Read(t4) = [accounts |-> add(acc, u, p), user |-> <<>>, word |-> <<>>]
  <2>1. Read(t4) = Take(Read(t3), newline)
    BY <1>5, WordsAreText, ReadMore
  <2>2. Take(Read(t3), newline) = [accounts |-> add(acc, u, p), user |-> <<>>, word |-> <<>>]
    BY <1>1, <1>5, AccountAssumption DEF Take, Unread
  <2> QED
    BY <2>1, <2>2
<1>7. text \o Line(u, p) = t4
  <2> DEFINE s == <<space>>
             n == <<newline>>
  <2>1. s \in Text /\ n \in Text
    BY WordsAreText
  <2> HIDE DEF s, n
  <2>2. PICK us, usp : us = u \o s /\ usp = us \o p
    OBVIOUS
  <2>3. us \in Text /\ usp \in Text
    BY <2>1, <2>2, TextJoined
  <2>4. text \o (usp \o n) = (text \o usp) \o n
    BY <2>1, <2>3, TextAssociative
  <2>5. text \o (us \o p) = (text \o us) \o p
    BY <2>3, TextAssociative
  <2>6. text \o (u \o s) = (text \o u) \o s
    BY <2>1, TextAssociative
  <2> QED
    BY <2>2, <2>4, <2>5, <2>6 DEF Line, s, n, t1, t2, t3
<1> QED
  BY <1>6, <1>7 DEF Whole, Complete, acc

-----------------------------------------------------------------------------
(* The store *)

\* What holds of the store whatever the file held, whatever clients called themselves,
\* and however their lines were written.
StoreInv ==
  /\ AccountMap(m_accounts)
  /\ file \in Text
  /\ intact \in BOOLEAN
  /\ lasting \subseteq DOMAIN m_accounts

\* The accounts in memory of lasting users are those of complete lines of the file, which
\* is why nothing appended can change them; and if all lines are as they should be, the
\* file has all accounts and ends where the next line may begin.
FileInv ==
  /\ \A u \in lasting : u \in DOMAIN Complete(file) /\ Complete(file)[u] = m_accounts[u]
  /\ intact => Whole(file) /\ Complete(file) = m_accounts

\* Reading the file again gives lasting users the account they have, and while all lines
\* are as they should be, everybody.
LEMMA FileReadBack ==
  ASSUME StoreInv, FileInv
  PROVE  AccountsSurviveRestart
<1>1. file \in Text
  BY DEF StoreInv
<1>2. Within(Complete(file), Load(file)) /\ (Whole(file) => Load(file) = Complete(file))
  BY <1>1, ReadTyped
<1> QED
  BY <1>2 DEF FileInv, AccountsSurviveRestart, Within

\* A line, cut short anywhere, is text.
LEMMA LineCut ==
  ASSUME NEW u \in Text, NEW p \in Text, NEW n \in 0 .. Len(Line(u, p))
  PROVE  SubSeq(Line(u, p), 1, n) \in Text /\ SubSeq(Line(u, p), 1, Len(Line(u, p))) = Line(u, p)
<1>1. Line(u, p) \in Text
  BY WordsAreText, TextJoined DEF Line
<1>2. PICK line : line = Line(u, p)
  OBVIOUS
<1>3. line \in Seq(Char) /\ n \in 0 .. Len(line)
  BY <1>1, <1>2 DEF Text
<1>4. SubSeq(line, 1, n) \in Seq(Char) /\ SubSeq(line, 1, Len(line)) = line
  BY <1>3, SubSeqFull
<1> QED
  BY <1>2, <1>4 DEF Text

\* A login that is accepted finds the account with this password, or opens it: in both
\* cases the account is there afterwards with that password, and no other changes.
LEMMA LoginStore ==
  ASSUME StoreInv, NEW u \in Username, NEW p \in Password, login(u, p)
  PROVE  /\ StoreInv'
         /\ DOMAIN m_accounts' = DOMAIN m_accounts \cup {u}
         /\ \A v \in DOMAIN m_accounts : m_accounts'[v] = m_accounts[v]
         /\ m_accounts'[u].password = p
<1>0. u \in Text /\ p \in Text
  BY AccountAssumption
<1>1. CASE Known(u, p) /\ UNCHANGED accountVars
  BY <1>1 DEF Known, find, accountVars, StoreInv, AccountMap
<1>2. CASE Register(u, p)
  <2>1. u \notin DOMAIN m_accounts /\ u # <<>> /\ m_accounts' = add(m_accounts, u, p)
    BY <1>2 DEF Register, find
  <2>2. file' \in Text
    <3>1. PICK n \in 0 .. Len(Line(u, p)) : file' = file \o SubSeq(Line(u, p), 1, n)
      BY <1>2 DEF Register
    <3>2. SubSeq(Line(u, p), 1, n) \in Text
      BY <1>0, LineCut
    <3> QED
      BY <3>1, <3>2, TextJoined DEF StoreInv
  <2>3. AccountMap(m_accounts)
    BY DEF StoreInv
  <2>4. PICK acc : acc = m_accounts
    OBVIOUS
  <2>5. /\ AccountMap(add(acc, u, p))
        /\ DOMAIN add(acc, u, p) = DOMAIN acc \cup {u}
        /\ Within(acc, add(acc, u, p))
        /\ u \notin DOMAIN acc => add(acc, u, p)[u].password = p
    BY <1>0, <2>1, <2>3, <2>4, AddKeeps
  <2>6. m_accounts' = add(acc, u, p)
    BY <2>1, <2>4
  <2>7. AccountMap(m_accounts)'
    BY <2>5, <2>6 DEF AccountMap
  <2>8. intact' \in BOOLEAN /\ lasting' \subseteq lasting \cup {u}
    BY <1>2 DEF Register, Noted, StoreInv
  <2> QED
    BY <2>1, <2>2, <2>4, <2>5, <2>6, <2>7, <2>8 DEF StoreInv, Within
<1> QED
  BY <1>1, <1>2 DEF login

\* The line that login appends changes no lasting account; if it is as it should be, and
\* all before it are, it is the account that login adds.
LEMMA LoginFile ==
  ASSUME StoreInv, FileInv, NEW u \in Username, NEW p \in Password, login(u, p)
  PROVE  FileInv'
<1>0. u \in Text /\ p \in Text /\ file \in Text
  BY AccountAssumption DEF StoreInv
<1>1. CASE Known(u, p) /\ UNCHANGED accountVars
  BY <1>1 DEF accountVars, FileInv
<1>2. CASE Register(u, p)
  <2>1. PICK n \in 0 .. Len(Line(u, p)) :
          /\ file' = file \o SubSeq(Line(u, p), 1, n)
          /\ Noted(u, p, n = Len(Line(u, p)))
    BY <1>2 DEF Register
  <2>2. m_accounts' = add(m_accounts, u, p)
    BY <1>2 DEF Register
  <2>3. Within(Complete(file), Complete(file'))
    <3>1. PICK more : more = SubSeq(Line(u, p), 1, n)
      OBVIOUS
    <3>2. more \in Text
      BY <1>0, <3>1, LineCut
    <3>3. PICK f : f = file
      OBVIOUS
    <3>4. Within(Complete(f), Complete(f \o more))
      BY <1>0, <3>2, <3>3, CompleteKept
    <3>5. file' = f \o more
      BY <2>1, <3>1, <3>3
    <3> QED
      BY <3>3, <3>4, <3>5
  <2>4. Within(m_accounts, m_accounts')
    BY <1>2, LoginStore DEF Within
  <2>5. \A v \in lasting : v \in DOMAIN Complete(file') /\ Complete(file')[v] = m_accounts'[v]
    BY <2>3, <2>4 DEF FileInv, StoreInv, Within
  <2>6. CASE ~intact'
    <3>1. lasting' = lasting
      BY <2>1, <2>6 DEF Noted
    <3> QED
      BY <2>5, <2>6, <3>1 DEF FileInv
  <2>7. CASE intact'
    <3>1. intact /\ n = Len(Line(u, p)) /\ IsWord(u) /\ IsWord(p)
      BY <2>1, <2>7 DEF Noted
    <3>2. file' = file \o Line(u, p)
      BY <1>0, <2>1, <3>1, LineCut
    <3>3. Whole(file) /\ Complete(file) = m_accounts
      BY <3>1 DEF FileInv
    <3>4. PICK f : f = file
      OBVIOUS
    <3>5. Whole(f \o Line(u, p)) /\ Complete(f \o Line(u, p)) = add(Complete(f), u, p)
      BY <1>0, <3>1, <3>3, <3>4, LineRead
    <3>6. Whole(file') /\ Complete(file') = m_accounts'
      BY <2>2, <3>2, <3>3, <3>4, <3>5
    <3>7. lasting' \subseteq DOMAIN m_accounts'
      BY LoginStore DEF StoreInv
    <3> QED
      BY <3>6, <3>7 DEF FileInv
  <2> QED
    BY <2>6, <2>7
<1> QED
  BY <1>1, <1>2 DEF login

\* What the constructor makes of the file is well formed, and in step with it.
LEMMA LoadedStore ==
  ASSUME NEW f \in Text
  PROVE  /\ AccountMap(Load(f)) /\ DOMAIN Complete(f) \subseteq DOMAIN Load(f)
         /\ \A u \in DOMAIN Complete(f) : Complete(f)[u] = Load(f)[u]
         /\ Whole(f) \in BOOLEAN /\ (Whole(f) => Complete(f) = Load(f))
<1>1. AccountMap(Load(f)) /\ Within(Complete(f), Load(f)) /\ (Whole(f) => Load(f) = Complete(f))
  BY ReadTyped
<1>2. Whole(f) \in BOOLEAN
  BY DEF Whole
<1> QED
  BY <1>1, <1>2 DEF Within

\* Starting the program again keeps the store well formed and in step with the file.
LEMMA ReloadStore ==
  ASSUME StoreInv, Reload
  PROVE  StoreInv' /\ FileInv'
<1>1. PICK f : f = file
  OBVIOUS
<1>2. f \in Text
  BY <1>1 DEF StoreInv
<1>3. /\ file' = f /\ m_accounts' = Load(f)
      /\ intact' = Whole(f) /\ lasting' = DOMAIN Complete(f)
  BY <1>1 DEF Reload
<1>4. AccountMap(m_accounts)'
  BY <1>2, <1>3, LoadedStore DEF AccountMap
<1>5. StoreInv'
  BY <1>2, <1>3, <1>4, LoadedStore DEF StoreInv
<1>6. FileInv'
  BY <1>2, <1>3, LoadedStore DEF FileInv
<1> QED
  BY <1>5, <1>6

\* So does starting it for the first time.
LEMMA InitStore ==
  ASSUME AccountsInit
  PROVE  StoreInv /\ FileInv
<1>1. file \in Text
  BY AccountAssumption DEF AccountsInit
<1> QED
  BY <1>1, LoadedStore DEF AccountsInit, StoreInv, FileInv

-----------------------------------------------------------------------------
(* The session server and the logins of the other two *)

SessionTypeOK ==
  /\ user_data \in [HostId -> [username : Username \cup {NoName}, nation : 0 .. Nations - 1]]
  /\ m_online \in [Username -> HostId \cup {0}]
  /\ superseded \subseteq HostId

\* Whoever the messenger has refused has an account since.
SnubInv ==
  /\ snubs \in [Username -> Nat]
  /\ \A u \in Username : snubs[u] <= 1 /\ (snubs[u] > 0 => u \in DOMAIN m_accounts)

BaseInv ==
  /\ StoreInv
  /\ Sound(net, {})
  /\ SessionTypeOK
  /\ SnubInv

\* Only connected clients are logged in or have been superseded, and every user has a name.
LiveInv ==
  /\ \A h \in HostId : user_data[h].username # NoName => h \in net.up
  /\ \A u \in Username : m_online[u] # 0 => u # NoName
  /\ superseded \subseteq net.up
  /\ OnlineIsLive
  /\ KickedIffSuperseded

CredInv ==
  /\ FileInv
  /\ CredentialsHold

\* The record of a connection on which nobody has logged in.
LEMMA NoUserTyped ==
  /\ NoUser \in [username : Username \cup {NoName}, nation : 0 .. Nations - 1]
  /\ NoUser.username = NoName
  /\ \A u \in Username :
       /\ [NoUser EXCEPT !.username = u] \in [username : Username \cup {NoName}, nation : 0 .. Nations - 1]
       /\ [NoUser EXCEPT !.username = u].username = u
<1>1. 1 % Nations \in 0 .. Nations - 1
  BY SessionAssumption
<1> QED
  BY <1>1 DEF NoUser

\* peer::close and server::on_peer_closed: the tables stay sound without the connection.
LEMMA LeaveNet ==
  ASSUME NEW n, Sound(n, {}), NEW h \in n.peers
  PROVE  /\ Sound(on_peer_closed(MarkClosed(n, {h}), {h}), {})
         /\ on_peer_closed(MarkClosed(n, {h}), {h}).up = n.up \ {h}
<1>1. PICK S : S = {h}
  OBVIOUS
<1>2. S \in SUBSET n.peers
  BY <1>1
<1>3. PICK m : m = MarkClosed(n, S)
  OBVIOUS
<1>4. Sound(m, S) /\ m.peers = n.peers /\ m.up = n.up \ S
  BY <1>2, <1>3, MarkClosedSound
<1>5. Sound(on_peer_closed(m, S), {}) /\ on_peer_closed(m, S).up = m.up
  BY <1>2, <1>4, PeerClosedSound
<1> QED
  BY <1>1, <1>3, <1>4, <1>5

\* The tables of a sound net have their types.
LEMMA SoundTyped ==
  ASSUME NEW n, NEW C, Sound(n, C)
  PROVE  n \in NetType /\ n.peers \subseteq HostId /\ n.up \subseteq n.peers
  BY DEF Sound, AllocInv, NetType

\* What each step does to the tables of proudnet::server.
LEMMA NetStep ==
  ASSUME Sound(net, {}), LoginsNext
  PROVE  Sound(net, {})'
<1>1. ASSUME Accept
      PROVE  Sound(net, {})'
  <2>1. PICK n : n = net
    OBVIOUS
  <2>2. Sound(AddPeer(n), {})
    BY <1>1, <2>1, AddPeerSound DEF Accept
  <2> QED
    BY <1>1, <2>1, <2>2 DEF Accept
<1>2. ASSUME NEW h \in HostId, Handshake(h)
      PROVE  Sound(net, {})'
  <2>1. PICK n : n = net
    OBVIOUS
  <2>2. Sound([n EXCEPT !.up = @ \cup {h}], {})
    BY <1>2, <2>1, ConnectSound DEF Handshake
  <2> QED
    BY <1>2, <2>1, <2>2 DEF Handshake
<1>3. ASSUME NEW h \in HostId, Leave(h)
      PROVE  Sound(net, {})'
  <2>1. PICK n : n = net
    OBVIOUS
  <2>2. Sound(on_peer_closed(MarkClosed(n, {h}), {h}), {})
    BY <1>3, <2>1, LeaveNet DEF Leave
  <2> QED
    BY <1>3, <2>1, <2>2 DEF Leave
<1>4. ASSUME NEW h \in HostId, Change_Nation(h)
      PROVE  Sound(net, {})'
  BY <1>4 DEF Change_Nation
<1>5. ASSUME NEW u \in Username, NEW p \in Password, NEW h \in HostId, SessionLogon(h, u, p)
      PROVE  Sound(net, {})'
  BY <1>5 DEF SessionLogon, logon
<1>6. ASSUME NEW u \in Username, NEW p \in Password, GameLogon(u, p) \/ MessengerLogon(u, p)
      PROVE  Sound(net, {})'
  BY <1>6 DEF GameLogon, MessengerLogon, loginVars
<1>7. ASSUME RestartAll
      PROVE  Sound(net, {})'
  BY <1>7, EmptySound DEF RestartAll, Restart
<1> QED
  BY <1>1, <1>2, <1>3, <1>4, <1>5, <1>6, <1>7 DEF LoginsNext, SessionOther

\* The tables of the session server keep their types.
LEMMA SessionTypes ==
  ASSUME BaseInv, LoginsNext
  PROVE  SessionTypeOK'
<1> USE DEF SessionTypeOK, BaseInv
<1>1. ASSUME Accept
      PROVE  SessionTypeOK'
  BY <1>1 DEF Accept
<1>2. ASSUME NEW h \in HostId, Handshake(h)
      PROVE  SessionTypeOK'
  BY <1>2 DEF Handshake
<1>3. ASSUME NEW h \in HostId, Leave(h)
      PROVE  SessionTypeOK'
  BY <1>3, NoUserTyped DEF Leave
<1>4. ASSUME NEW h \in HostId, Change_Nation(h)
      PROVE  SessionTypeOK'
  <2>1. PICK index \in 0 .. Nations - 1 :
          user_data' = [user_data EXCEPT ![h].nation = NationOf(index)]
    BY <1>4 DEF Change_Nation
  <2>2. NationOf(index) \in 0 .. Nations - 1
    BY SessionAssumption DEF NationOf
  <2> QED
    BY <1>4, <2>1, <2>2 DEF Change_Nation
<1>5. ASSUME NEW u \in Username, NEW p \in Password, NEW h \in HostId, SessionLogon(h, u, p)
      PROVE  SessionTypeOK'
  <2>1. net.peers \subseteq HostId
    BY SoundTyped
  <2> QED
    BY <1>5, <2>1, NoUserTyped DEF SessionLogon, logon, Older
<1>6. ASSUME NEW u \in Username, NEW p \in Password, GameLogon(u, p) \/ MessengerLogon(u, p)
      PROVE  SessionTypeOK'
  BY <1>6 DEF GameLogon, MessengerLogon, loginVars
<1>7. ASSUME RestartAll
      PROVE  SessionTypeOK'
  BY <1>7, NoUserTyped DEF RestartAll, Restart
<1> QED
  BY <1>1, <1>2, <1>3, <1>4, <1>5, <1>6, <1>7 DEF LoginsNext, SessionOther

\* A step is a login at one of the servers, the start of the program, or leaves the
\* store alone.
LEMMA StoreSteps ==
  ASSUME LoginsNext
  PROVE  \/ UNCHANGED <<accountVars, accepted, snubs>>
         \/ \E u \in Username, p \in Password :
              /\ login(u, p)
              /\ \/ Accepts(u, p) /\ UNCHANGED snubs
                 \/ /\ ~FoundFirst(u)
                    /\ snubs' = [snubs EXCEPT ![u] = @ + 1]
                    /\ UNCHANGED accepted
         \/ /\ Reload
            /\ accepted' = {a \in accepted : a.user \in lasting}
            /\ snubs' = [u \in Username |-> 0]
<1>1. SessionOther => UNCHANGED <<accountVars, accepted, snubs>>
  BY DEF SessionOther, Accept, Handshake, Leave, Change_Nation
<1>2. \A h, u, p : SessionLogon(h, u, p) => login(u, p) /\ Accepts(u, p) /\ UNCHANGED snubs
  BY DEF SessionLogon, logon
<1> QED
  BY <1>1, <1>2 DEF LoginsNext, GameLogon, MessengerLogon, RestartAll, Restart

\* Every step keeps what holds without any hypothesis.
LEMMA BaseStep ==
  ASSUME BaseInv, LoginsNext
  PROVE  BaseInv'
<1>1. Sound(net, {})' /\ SessionTypeOK'
  BY NetStep, SessionTypes DEF BaseInv
<1>2. CASE UNCHANGED <<accountVars, accepted, snubs>>
  BY <1>1, <1>2 DEF BaseInv, StoreInv, AccountMap, SnubInv, accountVars
<1>3. ASSUME NEW u \in Username, NEW p \in Password, login(u, p),
             \/ Accepts(u, p) /\ UNCHANGED snubs
             \/ /\ ~FoundFirst(u)
                /\ snubs' = [snubs EXCEPT ![u] = @ + 1]
                /\ UNCHANGED accepted
      PROVE  BaseInv'
  <2>1. StoreInv' /\ DOMAIN m_accounts' = DOMAIN m_accounts \cup {u}
    BY <1>3, LoginStore DEF BaseInv
  <2>2. CASE UNCHANGED snubs
    BY <1>1, <2>1, <2>2 DEF BaseInv, SnubInv
  <2>3. CASE ~FoundFirst(u) /\ snubs' = [snubs EXCEPT ![u] = @ + 1]
    <3>1. snubs[u] = 0
      BY <2>3 DEF FoundFirst, find, BaseInv, SnubInv
    <3>2. SnubInv'
      BY <2>1, <2>3, <3>1 DEF BaseInv, SnubInv
    <3> QED
      BY <1>1, <2>1, <3>2 DEF BaseInv
  <2> QED
    BY <1>3, <2>2, <2>3
<1>4. CASE Reload /\ snubs' = [u \in Username |-> 0]
  <2>1. StoreInv'
    BY <1>4, ReloadStore DEF BaseInv
  <2>2. SnubInv'
    BY <1>4 DEF SnubInv
  <2> QED
    BY <1>1, <2>1, <2>2 DEF BaseInv
<1> QED
  BY <1>2, <1>3, <1>4, StoreSteps

\* The program starts with what holds without any hypothesis.
LEMMA BaseInit ==
  ASSUME LoginsInit
  PROVE  BaseInv
<1>1. StoreInv
  BY InitStore DEF LoginsInit, Init
<1>2. Sound(net, {})
  BY EmptySound DEF LoginsInit, Init
<1>3. SessionTypeOK /\ SnubInv
  BY NoUserTyped DEF LoginsInit, Init, SessionTypeOK, SnubInv
<1> QED
  BY <1>1, <1>2, <1>3 DEF BaseInv

\* In every reachable state the store is well formed, the tables are typed and sound,
\* and the messenger has refused only users that have an account since.
THEOREM Invariant == LoginsSpec => []BaseInv
<1>1. BaseInv /\ UNCHANGED allVars => BaseInv'
  BY DEF BaseInv, StoreInv, AccountMap, SessionTypeOK, SnubInv, allVars, vars, accountVars
<1> QED
  BY <1>1, BaseInit, BaseStep, PTL DEF LoginsSpec

\* Who is online, and who was superseded, stays right over every step, provided that
\* no client logs in as a second user on one connection.
LEMMA LiveStep ==
  ASSUME BaseInv, LiveInv, AllowOtherLogon = FALSE, LoginsNext
  PROVE  LiveInv'
<1> USE DEF LiveInv
<1>0. /\ SessionTypeOK
      /\ net.up \subseteq net.peers /\ net.peers \subseteq HostId
      /\ 0 \notin HostId
  BY SoundTyped, HostIdAssumption DEF BaseInv, HostId
<1>1. ASSUME Accept
      PROVE  LiveInv'
  <2>1. PICK n : n = net
    OBVIOUS
  <2>2. AddPeer(n).up = n.up
    BY <1>1, <2>1, AddPeerSound DEF Accept, BaseInv
  <2>3. net'.up = net.up
    BY <1>1, <2>1, <2>2 DEF Accept
  <2> QED
    BY <1>1, <2>3 DEF Accept, OnlineIsLive, KickedIffSuperseded
<1>2. ASSUME NEW h \in HostId, Handshake(h)
      PROVE  LiveInv'
  <2>1. h \in net.peers \ net.up /\ UNCHANGED <<user_data, m_online, superseded>>
    BY <1>2 DEF Handshake
  <2>2. net'.up = net.up \cup {h}
    BY <1>2, SoundTyped DEF Handshake, BaseInv, NetType
  <2>3. OnlineIsLive'
    BY <2>1, <2>2 DEF OnlineIsLive
  <2>4. h \notin superseded /\ user_data[h].username = NoName
    BY <2>1
  <2>5. KickedIffSuperseded'
    BY <2>1, <2>2, <2>4 DEF KickedIffSuperseded
  <2> QED
    BY <2>1, <2>2, <2>3, <2>5
<1>3. ASSUME NEW h \in HostId, Leave(h)
      PROVE  LiveInv'
  <2>1. net'.up = net.up \ {h}
    <3>1. PICK n : n = net
      OBVIOUS
    <3>2. on_peer_closed(MarkClosed(n, {h}), {h}).up = n.up \ {h}
      BY <1>3, <3>1, LeaveNet DEF Leave, BaseInv
    <3> QED
      BY <1>3, <3>1, <3>2 DEF Leave
  <2>2. /\ m_online' = [u \in Username |-> IF u \in ErasedBy(h) THEN 0 ELSE m_online[u]]
        /\ user_data' = [user_data EXCEPT ![h] = NoUser]
        /\ superseded' = superseded \ {h}
    BY <1>3 DEF Leave
  <2>3. \A u \in Username : m_online'[u] = IF m_online[u] = h THEN 0 ELSE m_online[u]
    BY <1>0, <2>2 DEF ErasedBy, OnlineIsLive
  <2>4. \A k \in HostId : user_data'[k] = IF k = h THEN NoUser ELSE user_data[k]
    BY <1>0, <2>2 DEF SessionTypeOK
  <2>5. OnlineIsLive'
    BY <1>0, <2>1, <2>3, <2>4 DEF OnlineIsLive, SessionTypeOK
  <2>6. KickedIffSuperseded'
    BY <1>0, <2>1, <2>2, <2>3, <2>4 DEF KickedIffSuperseded, SessionTypeOK
  <2>7. \A k \in HostId : user_data'[k].username # NoName => k \in net'.up
    BY <2>1, <2>4, NoUserTyped
  <2> QED
    BY <2>1, <2>2, <2>5, <2>6, <2>7
<1>4. ASSUME NEW h \in HostId, Change_Nation(h)
      PROVE  LiveInv'
  <2>1. \A k \in HostId : user_data'[k].username = user_data[k].username
    BY <1>0, <1>4 DEF Change_Nation, SessionTypeOK
  <2>2. UNCHANGED <<net, m_online, superseded>>
    BY <1>4 DEF Change_Nation
  <2> QED
    BY <1>0, <2>1, <2>2 DEF OnlineIsLive, KickedIffSuperseded
<1>5. ASSUME NEW u \in Username, NEW p \in Password, NEW h \in HostId, SessionLogon(h, u, p)
      PROVE  LiveInv'
  <2>1. /\ h \in net.up /\ user_data[h].username \in {NoName, u}
        /\ superseded' = (superseded \cup Older(h, u)) \ {h}
        /\ m_online' = [m_online EXCEPT ![u] = h]
        /\ user_data' = [user_data EXCEPT ![h] = [NoUser EXCEPT !.username = u]]
        /\ UNCHANGED net
    BY <1>5 DEF SessionLogon, logon
  <2>0. u # NoName
    BY <1>5, LoginStore DEF SessionLogon, logon, BaseInv, StoreInv, AccountMap, NoName
  <2>2. \A k \in HostId : user_data'[k].username = IF k = h THEN u ELSE user_data[k].username
    BY <1>0, <2>1, NoUserTyped DEF SessionTypeOK
  <2>3. \A v \in Username : m_online'[v] = IF v = u THEN h ELSE m_online[v]
    BY <1>0, <2>1 DEF SessionTypeOK
  <2>4. superseded' \subseteq net.up
    BY <1>0, <2>1 DEF Older, OnlineIsLive
  <2>5. OnlineIsLive'
    BY <1>0, <2>0, <2>1, <2>2, <2>3 DEF OnlineIsLive, SessionTypeOK
  <2>6. ASSUME NEW k \in net.up
        PROVE  k \in superseded' <=>
                 user_data'[k].username # NoName /\ m_online'[user_data'[k].username] # k
    <3>1. CASE k = h
      BY <1>0, <2>0, <2>1, <2>2, <2>3, <3>1
    <3>2. CASE k # h /\ user_data[k].username = u
      BY <1>0, <2>0, <2>1, <2>2, <2>3, <3>2 DEF Older, KickedIffSuperseded
    <3>3. CASE k # h /\ user_data[k].username # u
      <4>1. k # m_online[u]
        BY <1>0, <3>3 DEF OnlineIsLive
      <4> QED
        BY <1>0, <2>0, <2>1, <2>2, <2>3, <3>3, <4>1 DEF Older, KickedIffSuperseded, SessionTypeOK
    <3> QED
      BY <3>1, <3>2, <3>3
  <2> QED
    BY <1>0, <2>0, <2>1, <2>2, <2>3, <2>4, <2>5, <2>6 DEF KickedIffSuperseded, SessionTypeOK
<1>6. ASSUME NEW u \in Username, NEW p \in Password, GameLogon(u, p) \/ MessengerLogon(u, p)
      PROVE  LiveInv'
  BY <1>6 DEF GameLogon, MessengerLogon, loginVars, OnlineIsLive, KickedIffSuperseded
<1>7. ASSUME RestartAll
      PROVE  LiveInv'
  BY <1>7, NoUserTyped DEF RestartAll, Restart, EmptyNet, OnlineIsLive, KickedIffSuperseded
<1> QED
  BY <1>1, <1>2, <1>3, <1>4, <1>5, <1>6, <1>7 DEF LoginsNext, SessionOther

\* What the clients were told of their accounts stays true over every step.
LEMMA CredStep ==
  ASSUME BaseInv, CredInv, LoginsNext
  PROVE  CredInv'
<1>1. CASE UNCHANGED <<accountVars, accepted, snubs>>
  BY <1>1 DEF CredInv, FileInv, CredentialsHold, accountVars
<1>2. ASSUME NEW u \in Username, NEW p \in Password, login(u, p),
             Accepts(u, p) \/ UNCHANGED accepted
      PROVE  CredInv'
  <2>1. FileInv'
    BY <1>2, LoginFile DEF BaseInv, CredInv
  <2>2. /\ StoreInv'
        /\ DOMAIN m_accounts' = DOMAIN m_accounts \cup {u}
        /\ \A v \in DOMAIN m_accounts : m_accounts'[v] = m_accounts[v]
        /\ m_accounts'[u].password = p
    BY <1>2, LoginStore DEF BaseInv
  <2>3. \A a \in accepted : a.user \in DOMAIN m_accounts' /\ m_accounts'[a.user] = a.account
    BY <2>2 DEF CredInv, CredentialsHold
  <2>4. m_accounts'[u] \in Account
    BY <2>2 DEF StoreInv, AccountMap
  <2>5. m_accounts'[u] = [index |-> m_accounts'[u].index, password |-> p]
    BY <2>2, <2>4 DEF Account
  <2>6. CredentialsHold'
    BY <1>2, <2>2, <2>3, <2>5 DEF Accepts, CredentialsHold
  <2> QED
    BY <2>1, <2>6 DEF CredInv
<1>3. CASE Reload /\ accepted' = {a \in accepted : a.user \in lasting}
  <2>1. FileInv'
    BY <1>3, ReloadStore DEF BaseInv
  <2>2. AccountsSurviveRestart
    BY FileReadBack DEF BaseInv, CredInv
  <2>3. CredentialsHold'
    BY <1>3, <2>2 DEF Reload, AccountsSurviveRestart, CredInv, CredentialsHold
  <2> QED
    BY <2>1, <2>3 DEF CredInv
<1> QED
  BY <1>1, <1>2, <1>3, StoreSteps

-----------------------------------------------------------------------------
(* Theorems *)

\* The variables of the store and of the session server keep their types, whatever
\* clients send and however often the program is started again.
THEOREM TypeCorrect == LoginsSpec => []TypeOK
<1>1. BaseInv => TypeOK
  BY SoundTyped DEF BaseInv, StoreInv, AccountMap, SessionTypeOK, TypeOK, AccountsTypeOK
<1> QED
  BY <1>1, Invariant, PTL

\* Accounts are numbered from 1 without gaps or repetitions in every reachable state,
\* also when the file has lines with missing words, repeated users or lost lines.
THEOREM AccountsAreNumbered == LoginsSpec => []AccountsNumbered
<1>1. BaseInv => AccountsNumbered
  BY DEF BaseInv, StoreInv, AccountMap, AccountsNumbered
<1> QED
  BY <1>1, Invariant, PTL

\* The messenger refuses a user at most once between two starts of the program.
THEOREM RefusedOnce == LoginsSpec => []RefusedAtMostOnce
<1>1. BaseInv => RefusedAtMostOnce
  BY DEF BaseInv, SnubInv, RefusedAtMostOnce
<1> QED
  BY <1>1, Invariant, PTL

\* The lines written as they should be give the accounts in memory when the file is read
\* again, whatever else was written; and every accepted login holds its account.
THEOREM CredentialsInvariant == LoginsSpec => []CredInv
<1>1. LoginsInit => CredInv
  BY InitStore DEF LoginsInit, Init, CredInv, CredentialsHold
<1>2. BaseInv /\ CredInv /\ [LoginsNext]_allVars => CredInv'
  <2>1. CredInv /\ UNCHANGED allVars => CredInv'
    BY DEF CredInv, FileInv, CredentialsHold, allVars, vars, accountVars
  <2> QED
    BY <2>1, CredStep
<1> QED
  BY <1>1, <1>2, Invariant, PTL DEF LoginsSpec

\* account_store: starting the program again gives every user its number and its password
\* back whose line and all before it were written as they should be, whatever clients
\* called themselves later and however their lines were cut short; and while all lines
\* are such lines it gives exactly the accounts there are.
THEOREM RestartKeepsAccounts == LoginsSpec => []AccountsSurviveRestart
<1>1. BaseInv /\ CredInv => AccountsSurviveRestart
  BY FileReadBack DEF BaseInv, CredInv
<1> QED
  BY <1>1, Invariant, CredentialsInvariant, PTL

\* A login one server accepted stays good for all three of them, and for those whose
\* line is in the file as it should be over restarts, too.
THEOREM CredentialsKept == LoginsSpec => []CredentialsHold
<1>1. CredInv => CredentialsHold
  BY DEF CredInv
<1> QED
  BY <1>1, CredentialsInvariant, PTL

\* The table of who is online is right as long as no client logs in as a second user
\* on one connection.
THEOREM LiveInvariant == AllowOtherLogon = FALSE => (LoginsSpec => []LiveInv)
<1> SUFFICES ASSUME AllowOtherLogon = FALSE
             PROVE  LoginsSpec => []LiveInv
  OBVIOUS
<1>1. LoginsInit => LiveInv
  BY NoUserTyped DEF LoginsInit, Init, EmptyNet, LiveInv, OnlineIsLive, KickedIffSuperseded
<1>2. BaseInv /\ LiveInv /\ [LoginsNext]_allVars => LiveInv'
  <2>1. LiveInv /\ UNCHANGED allVars => LiveInv'
    BY DEF LiveInv, OnlineIsLive, KickedIffSuperseded, allVars, vars
  <2> QED
    BY <2>1, LiveStep
<1> QED
  BY <1>1, <1>2, Invariant, PTL DEF LoginsSpec

\* session_server: an entry of m_online is a connected client logged in as that user,
\* also after its HostID went to another connection.
THEOREM OnlineStaysLive == AllowOtherLogon = FALSE => (LoginsSpec => []OnlineIsLive)
<1>1. LiveInv => OnlineIsLive
  BY DEF LiveInv
<1> QED
  BY <1>1, LiveInvariant, PTL

\* session_server: exactly the connections that a later login took over from are sent
\* Forced_Close.
THEOREM SupersededAreKicked ==
  AllowOtherLogon = FALSE => (LoginsSpec => []KickedIffSuperseded)
<1>1. LiveInv => KickedIffSuperseded
  BY DEF LiveInv
<1> QED
  BY <1>1, LiveInvariant, PTL
=============================================================================
