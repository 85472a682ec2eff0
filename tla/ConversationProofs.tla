------------------------- MODULE ConversationProofs -------------------------
(***************************************************************************)
(* Theorems about Conversations, for any chats, keys, names and bounds:    *)
(* the types and the resolver's limit (Typed); that no session leads to a  *)
(* conversation the clean-up has deleted (Living) or to one of another key *)
(* (KeysApart); and that the increment is exact (ExactInv).                *)
(*                                                                         *)
(* Each of these speaks of the sessions, and is inductive only with what   *)
(* requests in flight will make of them: a request that has its answer     *)
(* (Leaving) leaves a session, one that continues a conversation adds to   *)
(* it, and until Bind has run a session tells less than its conversation   *)
(* holds (Behind).                                                         *)
(***************************************************************************)
EXTENDS Conversations, FiniteSetTheorems, SequenceTheorems, TLAPS

\* The first n messages of a chat.
Told(d, n) == [i \in 1 .. n |-> <<d, i>>]

Even(n) == n % 2 = 0

LEMMA Count == /\ MaxConv \in Nat /\ MaxSaid \in Nat /\ MaxSessions \in Nat
               /\ KeepN \in Nat /\ MaxTrouble \in Nat
               /\ Unset \notin Conv /\ Unset \notin Name
  BY ConversationAssumption DEF Conv

\* A chat's messages, each told once and in order, end with the answer.
LEMMA ToldEnds ==
  ASSUME NEW c \in Chat, said \in [Chat -> Nat]
  PROVE  /\ Asked(c) = Told(c, said[c] + 1)
         /\ Append(Asked(c), Answer(c)) = Told(c, said[c] + 2)
<1>1. Asked(c) = Told(c, said[c] + 1)
  BY DEF Asked, Told
<1>. DEFINE n == said[c]
<1>2. n \in Nat
  OBVIOUS
<1>3. Append(Told(c, n + 1), <<c, n + 2>>) = Told(c, n + 2)
  <2>. HIDE DEF n
  <2>1. Told(c, n + 1) \in Seq({c} \X Nat) /\ Len(Told(c, n + 1)) = n + 1
    BY <1>2 DEF Told
  <2>2. Told(c, n + 2) \in Seq({c} \X Nat) /\ Len(Told(c, n + 2)) = n + 2
    BY <1>2 DEF Told
  <2>3. Append(Told(c, n + 1), <<c, n + 2>>) \in Seq({c} \X Nat)
    BY <1>2, <2>1
  <2>4. ASSUME NEW i \in 1 .. n + 2
        PROVE  Append(Told(c, n + 1), <<c, n + 2>>)[i] = Told(c, n + 2)[i]
    BY <1>2, <2>1 DEF Told
  <2>. QED
    BY <1>2, <2>1, <2>2, <2>3, <2>4
<1>. QED
  BY <1>1, <1>3 DEF Answer

\* What tells of one chat begins only a request of that chat.
LEMMA ToldBegins ==
  ASSUME NEW c \in Chat, NEW d \in Chat, NEW n \in Nat, NEW m \in Nat, n >= 1,
         IsPrefixOf(Told(d, n), Told(c, m))
  PROVE  d = c /\ n <= m
<1>1. Len(Told(d, n)) = n /\ Len(Told(c, m)) = m
  BY DEF Told
<1>2. n <= m /\ SubSeq(Told(c, m), 1, n) = Told(d, n)
  BY <1>1 DEF IsPrefixOf
<1>3. Told(c, m) \in Seq({c} \X Nat)
  BY DEF Told
<1>4. SubSeq(Told(c, m), 1, n)[1] = Told(c, m)[1]
  BY <1>1, <1>2, <1>3
<1>5. Told(d, n)[1] = <<d, 1>> /\ Told(c, m)[1] = <<c, 1>>
  BY <1>2 DEF Told
<1>. QED
  BY <1>2, <1>4, <1>5

LEMMA ToldOnce ==
  ASSUME NEW c \in Chat, NEW d \in Chat, NEW n \in Nat, NEW m \in Nat, n >= 1,
         Told(d, n) = Told(c, m)
  PROVE  d = c /\ n = m
<1>1. Len(Told(d, n)) = n /\ Len(Told(c, m)) = m
  BY DEF Told
<1>2. n = m
  BY <1>1
<1>3. Told(d, n)[1] = <<d, 1>> /\ Told(c, m)[1] = <<c, 1>>
  BY <1>2 DEF Told
<1>. QED
  BY <1>2, <1>3

\* An increment that begins where the history ends completes the chat.
LEMMA ToldGoesOn ==
  ASSUME NEW c \in Chat, NEW n \in Nat, NEW m \in Nat, n <= m
  PROVE  Told(c, n) \o Append(SubSeq(Told(c, m), n + 1, m), <<c, m + 1>>) = Told(c, m + 1)
<1>. DEFINE M == {c} \X Nat
            A == Told(c, n)
            B == Told(c, m)
            S == SubSeq(B, n + 1, m)
            T == Append(S, <<c, m + 1>>)
            D == Told(c, m + 1)
<1>1. A \in Seq(M) /\ Len(A) = n /\ \A i \in 1 .. n : A[i] = <<c, i>>
  BY DEF Told
<1>2. B \in Seq(M) /\ Len(B) = m /\ \A i \in 1 .. m : B[i] = <<c, i>>
  BY DEF Told
<1>3. D \in Seq(M) /\ Len(D) = m + 1 /\ \A i \in 1 .. m + 1 : D[i] = <<c, i>>
  BY DEF Told
<1>. HIDE DEF A, B, D
<1>4. S \in Seq(M) /\ Len(S) = m - n /\ \A i \in 1 .. m - n : S[i] = <<c, n + i>>
  BY <1>2
<1>5. <<c, m + 1>> \in M
  OBVIOUS
<1>. HIDE DEF S, M
<1>6. T \in Seq(M) /\ Len(T) = m - n + 1 /\ \A i \in 1 .. m - n + 1 : T[i] = <<c, n + i>>
  <2>1. /\ T \in Seq(M) /\ Len(T) = Len(S) + 1
        /\ \A i \in 1 .. Len(S) : T[i] = S[i]
        /\ T[Len(S) + 1] = <<c, m + 1>>
    <3>. DEFINE e == <<c, m + 1>>
    <3>1. S \in Seq(M) /\ e \in M
      BY <1>4, <1>5
    <3>. HIDE DEF e
    <3>. SUFFICES /\ Append(S, e) \in Seq(M) /\ Len(Append(S, e)) = Len(S) + 1
                  /\ \A i \in 1 .. Len(S) : Append(S, e)[i] = S[i]
                  /\ Append(S, e)[Len(S) + 1] = e
      BY Zenon DEF e
    <3>. QED
      BY ONLY <3>1, AppendProperties, SMT
  <2>2. ASSUME NEW i \in 1 .. m - n + 1 PROVE T[i] = <<c, n + i>>
    <3>1. CASE i = m - n + 1
      BY <1>4, <2>1, <3>1
    <3>2. CASE i # m - n + 1
      <4>1. i \in 1 .. m - n
        BY <3>2
      <4>. QED
        BY <1>4, <2>1, <4>1
    <3>. QED
      BY <3>1, <3>2
  <2>. QED
    BY <1>4, <2>1, <2>2
<1>. HIDE DEF T
<1>7. /\ A \o T \in Seq(M) /\ Len(A \o T) = m + 1
      /\ \A i \in 1 .. m + 1 : (A \o T)[i] = IF i <= n THEN A[i] ELSE T[i - n]
  <2>1. /\ A \o T \in Seq(M)
        /\ Len(A \o T) = Len(A) + Len(T)
        /\ \A i \in 1 .. Len(A) + Len(T) : (A \o T)[i] =
                     IF i <= Len(A) THEN A[i] ELSE T[i - Len(A)]
    BY <1>1, <1>6, ConcatProperties, Zenon
  <2>2. Len(A) = n /\ Len(A) + Len(T) = m + 1
    BY <1>1, <1>6
  <2>. QED
    BY <2>1, <2>2
<1>8. ASSUME NEW i \in 1 .. m + 1
      PROVE  (A \o T)[i] = D[i]
  <2>0. (A \o T)[i] = IF i <= n THEN A[i] ELSE T[i - n]
    BY <1>7
  <2>. DEFINE x == (A \o T)[i]
  <2>. HIDE DEF x
  <2>1. CASE i <= n
    <3>1. x = A[i]
      BY <2>0, <2>1 DEF x
    <3>2. A[i] = <<c, i>> /\ D[i] = <<c, i>>
      BY <1>1, <1>3, <2>1
    <3>. QED
      BY <3>1, <3>2 DEF x
  <2>2. CASE i > n
    <3>1. i - n \in 1 .. m - n + 1 /\ n + (i - n) = i
      BY <2>2
    <3>2. T[i - n] = <<c, i>>
      BY <1>6, <3>1
    <3>3. x = T[i - n]
      BY <2>0, <2>2 DEF x
    <3>4. D[i] = <<c, i>>
      BY <1>3
    <3>. QED
      BY <3>2, <3>3, <3>4 DEF x
  <2>3. i <= n \/ i > n
    OBVIOUS
  <2>. QED
    BY <2>1, <2>2, <2>3, Zenon
<1>9. A \o T = D
  <2>1. Len(A \o T) = Len(D)
    BY <1>3, <1>7
  <2>2. \A i \in 1 .. Len(A \o T) : (A \o T)[i] = D[i]
    BY <1>7, <1>8
  <2>. QED
    BY <1>3, <1>7, <2>1, <2>2, SeqEqual, Zenon
<1>. QED
  BY <1>9 DEF A, B, D, S, T
-----------------------------------------------------------------------------
(* What each part of the state holds.                                      *)

AskOK(c) ==
  /\ said[c] <= MaxSaid + 1 /\ Even(said[c])
  /\ turn[c] # "idle" => said[c] < MaxSaid
  /\ from[c] <= said[c]
  /\ target[c] # Unset => target[c] \in Made /\ under[c] \in Made
  /\ target[c] = Unset => from[c] = 0
  /\ turn[c] \in {"answered", "bound"} => target[c] # Unset

\* Requests: what one continues was created, and what it skips it has.
Asks ==
  /\ keyOf \in [Chat -> Key] /\ nameOf \in [Chat -> Name \cup {Unset}]
  /\ said \in [Chat -> Nat] /\ turn \in [Chat -> Turn]
  /\ target \in [Chat -> Conv \cup {Unset}] /\ under \in [Chat -> Conv \cup {Unset}]
  /\ from \in [Chat -> Nat]
  /\ \A c \in Chat : AskOK(c)

\* What the cloud holds, and what the cache and the histories know of it.
Clouds ==
  /\ cloud \in Seq(Seq(Message)) /\ Len(cloud) <= MaxConv
  /\ \A v \in Made : cloud[v] # <<>>
  /\ alive \subseteq Made /\ aged \subseteq Made /\ late \subseteq Made /\ doomed \subseteq Made
  /\ blurred \subseteq Made \X {"guess", "cache", "failure", "twins"}
  /\ cached \in [conv : Made \cup {Unset}, session : Made \cup {Unset}, count : Nat, past : BOOLEAN]
  /\ cached.conv # Unset => cached.session # Unset

\* Sessions and what they continue were created, and the names lead to sessions.
GoodBook(S, V) ==
  \A s \in DOMAIN S : s \in V /\ S[s] \in Session /\ S[s].conv \in V

Few(S, n) == Cardinality(DOMAIN S) <= n

GoodNames(names) == \A n \in DOMAIN names : names[n] \in Conv

Books ==
  /\ GoodBook(sessions, Made)
  /\ Few(sessions, MaxSessions + 1)
  /\ GoodNames(byName)

Sweeping ==
  /\ managed \in [DOMAIN managed -> BOOLEAN]
  /\ sweep \in {"off", "listing", "picking", "deleted", "asked", "counting", "removing"}
  /\ kept \in 0 .. KeepN
  /\ trouble \in 0 .. MaxTrouble

Typed == Asks /\ Clouds /\ Books /\ Sweeping

LEMMA MadeIs ==
  ASSUME Clouds
  PROVE  Made = 1 .. Len(cloud) /\ Made \subseteq Conv /\ Unset \notin Made
  BY Count DEF Clouds, Made, Conv

\* What was created stays.
Grows == Made \subseteq Made'

LEMMA BookWithout ==
  ASSUME NEW S, NEW V, NEW gone, GoodBook(S, V)
  PROVE  GoodBook(Without(S, gone), V)
  BY DEF GoodBook, Without

LEMMA BookPut ==
  ASSUME NEW S, NEW V, GoodBook(S, V), NEW x \in V, NEW r \in Session, r.conv \in V
  PROVE  GoodBook(Put(S, x, r), V)
  BY DEF GoodBook, Put

LEMMA BookWider ==
  ASSUME NEW S, NEW V, NEW W, V \subseteq W, GoodBook(S, V)
  PROVE  GoodBook(S, W)
  BY DEF GoodBook

\* What Resolve finds is a session of the key, or nothing.
LEMMA ResolvedIs ==
  ASSUME NEW S, NEW names, NEW c \in Chat, NEW hit \in Resolved(S, names, c)
  PROVE  \/ hit[1] \in DOMAIN S /\ S[hit[1]].key = keyOf[c] /\ hit[2] \in {0, Len(S[hit[1]].history)}
            /\ (hit[1] \in OpeningsOf(S, c) => hit[2] = Len(S[hit[1]].history))
         \/ hit = <<Unset, 0>>
  BY DEF Resolved, Longest, OpeningsOf, Alike
-----------------------------------------------------------------------------
(* What the steps do to the sessions.                                      *)

\* Sessions may have gone or been used; what they continue and tell is as before.
Kept ==
  /\ DOMAIN sessions' \subseteq DOMAIN sessions
  /\ \A s \in DOMAIN sessions' :
        /\ sessions'[s] \in Session
        /\ sessions'[s].conv = sessions[s].conv
        /\ sessions'[s].key = sessions[s].key
        /\ sessions'[s].history = sessions[s].history

LEMMA WithoutKept ==
  ASSUME Books, NEW gone, sessions' = Without(sessions, gone), byName' = NamesLeft(gone)
  PROVE  Kept /\ GoodNames(byName')
<1>1. GoodNames(byName')
  BY DEF Books, GoodNames, NamesLeft, Without
<1>2. Kept
  BY DEF Books, GoodBook, Kept, Without
<1>. QED
  BY <1>1, <1>2

LEMMA SameKept ==
  ASSUME Books, UNCHANGED indexVars
  PROVE  Kept /\ GoodNames(byName')
  BY DEF Books, GoodBook, Kept, indexVars

\* The session that a request is led to, as it was, and how.
Led(c, s) ==
  /\ s \in DOMAIN sessions /\ sessions[s].key = keyOf[c]
  /\ target' = [target EXCEPT ![c] = sessions[s].conv]
  /\ under' = [under EXCEPT ![c] = s]
  /\ \E n \in Nat :
        /\ from' = [from EXCEPT ![c] = IF n < said[c] + 1 THEN n ELSE 0]
        /\ \/ /\ s \in OpeningsOf(sessions, c) /\ n = Len(sessions[s].history)
              /\ UNCHANGED blurred
           \/ blurred' = blurred \cup {<<sessions[s].conv, "guess">>}

LedNowhere(c) ==
  /\ target' = [target EXCEPT ![c] = Unset]
  /\ under' = [under EXCEPT ![c] = Unset]
  /\ from' = [from EXCEPT ![c] = 0]
  /\ UNCHANGED blurred

LEMMA ResolveDoes ==
  ASSUME Typed, NEW c \in Chat, Resolve(c)
  PROVE  /\ Kept /\ GoodNames(byName')
         /\ LedNowhere(c) \/ \E s \in DOMAIN sessions : Led(c, s)
<1>1. PICK gone \in Evicted(sessions) :
        LET S == Without(sessions, gone)
        IN  /\ byName' = NamesLeft(gone)
            /\ \E hit \in Resolved(S, byName', c) :
                IF hit[1] = Unset
                THEN /\ sessions' = S
                     /\ target' = [target EXCEPT ![c] = Unset]
                     /\ under' = [under EXCEPT ![c] = Unset]
                     /\ from' = [from EXCEPT ![c] = 0]
                     /\ UNCHANGED blurred
                ELSE /\ sessions' = Put(S, hit[1], [S[hit[1]] EXCEPT !.past = FALSE])
                     /\ target' = [target EXCEPT ![c] = S[hit[1]].conv]
                     /\ under' = [under EXCEPT ![c] = hit[1]]
                     /\ from' = [from EXCEPT ![c] = IF hit[2] < said[c] + 1 THEN hit[2] ELSE 0]
                     /\ blurred' = IF hit[1] \in OpeningsOf(S, c) THEN blurred
                                   ELSE blurred \cup {<<S[hit[1]].conv, "guess">>}
  BY DEF Resolve
<1>. DEFINE S == Without(sessions, gone)
<1>2. PICK hit \in Resolved(S, byName', c) :
                IF hit[1] = Unset
                THEN /\ sessions' = S
                     /\ target' = [target EXCEPT ![c] = Unset]
                     /\ under' = [under EXCEPT ![c] = Unset]
                     /\ from' = [from EXCEPT ![c] = 0]
                     /\ UNCHANGED blurred
                ELSE /\ sessions' = Put(S, hit[1], [S[hit[1]] EXCEPT !.past = FALSE])
                     /\ target' = [target EXCEPT ![c] = S[hit[1]].conv]
                     /\ under' = [under EXCEPT ![c] = hit[1]]
                     /\ from' = [from EXCEPT ![c] = IF hit[2] < said[c] + 1 THEN hit[2] ELSE 0]
                     /\ blurred' = IF hit[1] \in OpeningsOf(S, c) THEN blurred
                                   ELSE blurred \cup {<<S[hit[1]].conv, "guess">>}
  BY <1>1
<1>3. byName' = NamesLeft(gone)
  BY <1>1
<1>4. \A t \in DOMAIN S : t \in DOMAIN sessions /\ S[t] = sessions[t] /\ S[t] \in Session
  BY DEF Without, Typed, Books, GoodBook
<1>5. GoodNames(byName')
  BY <1>3 DEF Typed, Books, GoodNames, NamesLeft, Without
<1>6. \A t \in DOMAIN S : t \in Conv
  BY <1>4, MadeIs DEF Typed, Books, GoodBook
<1>7. \/ hit[1] \in DOMAIN S /\ S[hit[1]].key = keyOf[c] /\ hit[2] \in {0, Len(S[hit[1]].history)}
            /\ (hit[1] \in OpeningsOf(S, c) => hit[2] = Len(S[hit[1]].history))
      \/ hit = <<Unset, 0>>
  BY ResolvedIs
<1>. HIDE DEF S
<1>8. CASE hit[1] = Unset
  <2>1. sessions' = S /\ LedNowhere(c)
    BY <1>2, <1>8 DEF LedNowhere
  <2>2. Kept
    BY <1>4, <2>1 DEF Kept
  <2>. QED
    BY <1>5, <2>1, <2>2
<1>9. CASE hit[1] # Unset
  <2>. DEFINE s == hit[1]
              n == hit[2]
              r == [S[s] EXCEPT !.past = FALSE]
  <2>1. s \in DOMAIN S /\ S[s].key = keyOf[c] /\ n \in {0, Len(S[s].history)}
          /\ (s \in OpeningsOf(S, c) => n = Len(S[s].history))
    BY <1>7, <1>9
  <2>2. /\ sessions' = Put(S, s, r)
        /\ target' = [target EXCEPT ![c] = S[s].conv]
        /\ under' = [under EXCEPT ![c] = s]
        /\ from' = [from EXCEPT ![c] = IF n < said[c] + 1 THEN n ELSE 0]
        /\ blurred' = IF s \in OpeningsOf(S, c) THEN blurred
                      ELSE blurred \cup {<<S[s].conv, "guess">>}
    BY <1>2, <1>9
  <2>. HIDE DEF s, n
  <2>3. s \in DOMAIN sessions /\ S[s] = sessions[s] /\ S[s] \in Session
    BY <1>4, <2>1
  <2>4. r \in Session /\ r.conv = S[s].conv /\ r.key = S[s].key /\ r.history = S[s].history
    BY <2>3 DEF Session
  <2>. HIDE DEF r
  <2>5. Kept
    <3>1. DOMAIN sessions' = DOMAIN S
      BY <2>1, <2>2 DEF Put
    <3>2. \A t \in DOMAIN S : sessions'[t] = IF t = s THEN r ELSE S[t]
      BY <2>2 DEF Put
    <3>3. ASSUME NEW t \in DOMAIN S
          PROVE  /\ sessions'[t] \in Session
                 /\ sessions'[t].conv = sessions[t].conv
                 /\ sessions'[t].key = sessions[t].key
                 /\ sessions'[t].history = sessions[t].history
      BY <1>4, <2>3, <2>4, <3>2
    <3>. QED
      BY <1>4, <3>1, <3>3 DEF Kept
  <2>6. n \in Nat
    BY <2>1, <2>3 DEF Session
  <2>7. Led(c, s)
    <3>1. CASE s \in OpeningsOf(S, c)
      <4>1. s \in OpeningsOf(sessions, c)
        BY <2>3, <3>1 DEF OpeningsOf
      <4>2. n = Len(sessions[s].history) /\ UNCHANGED blurred
        BY <2>1, <2>2, <2>3, <3>1
      <4>. QED
        BY <2>1, <2>2, <2>3, <2>6, <4>1, <4>2 DEF Led
    <3>2. CASE s \notin OpeningsOf(S, c)
      BY <2>1, <2>2, <2>3, <2>6, <3>2 DEF Led
    <3>. QED
      BY <3>1, <3>2
  <2>. QED
    BY <1>5, <2>3, <2>5, <2>7
<1>. QED
  BY <1>8, <1>9

\* The session that Bind leaves, s, with what it holds, r.
Bound(c, gone, s, r) ==
  /\ gone \in Evicted(sessions)
  /\ s \in Made /\ r \in Session
  /\ r.conv = target[c] /\ r.key = keyOf[c] /\ r.history = Append(Asked(c), Answer(c))
  /\ sessions' = Put(Without(sessions, gone), s, r)
  /\ blurred' = IF Twins(Without(sessions, gone), s, c) THEN blurred \cup {<<target[c], "twins">>}
                ELSE blurred

LEMMA ToldTyped ==
  ASSUME Asks, NEW c \in Chat, said[c] < MaxSaid
  PROVE  /\ Append(Asked(c), Answer(c)) \in Seq(Message)
         /\ Asked(c) \in Seq(Message) /\ Answer(c) \in Message /\ Len(Asked(c)) = said[c] + 1
<1>1. said[c] \in Nat /\ MaxSaid \in Nat
  BY Count DEF Asks
<1>2. Asked(c) \in Seq(Message) /\ Len(Asked(c)) = said[c] + 1
  BY <1>1 DEF Asked, Message
<1>3. Answer(c) \in Message
  BY <1>1 DEF Answer, Message
<1>. QED
  BY <1>2, <1>3

LEMMA BindDoes ==
  ASSUME Typed, NEW c \in Chat, Bind(c)
  PROVE  /\ \E gone \in SUBSET DOMAIN sessions, s \in Made, r \in Session : Bound(c, gone, s, r)
         /\ GoodNames(byName')
<1>1. PICK gone \in Evicted(sessions) :
        LET S == Without(sessions, gone)
            old == Holder(S, NamesLeft(gone), c)
        IN  \E s \in IF old = {} THEN {under[c]} ELSE old :
                LET name == IF nameOf[c] # Unset \/ old = {} THEN nameOf[c] ELSE S[s].name
                IN  /\ sessions' = Put(S, s,
                            [conv |-> target[c], key |-> keyOf[c], past |-> FALSE,
                             history |-> Append(Asked(c), Answer(c)), name |-> name])
                    /\ byName' = IF name = Unset THEN NamesLeft(gone)
                                 ELSE Put(NamesLeft(gone), <<keyOf[c], name>>, s)
                    /\ blurred' = IF Twins(S, s, c) THEN blurred \cup {<<target[c], "twins">>}
                                  ELSE blurred
  BY DEF Bind
<1>. DEFINE S == Without(sessions, gone)
            old == Holder(S, NamesLeft(gone), c)
<1>2. PICK s \in IF old = {} THEN {under[c]} ELSE old :
                LET name == IF nameOf[c] # Unset \/ old = {} THEN nameOf[c] ELSE S[s].name
                IN  /\ sessions' = Put(S, s,
                            [conv |-> target[c], key |-> keyOf[c], past |-> FALSE,
                             history |-> Append(Asked(c), Answer(c)), name |-> name])
                    /\ byName' = IF name = Unset THEN NamesLeft(gone)
                                 ELSE Put(NamesLeft(gone), <<keyOf[c], name>>, s)
                    /\ blurred' = IF Twins(S, s, c) THEN blurred \cup {<<target[c], "twins">>}
                                  ELSE blurred
  BY <1>1
<1>. DEFINE name == IF nameOf[c] # Unset \/ old = {} THEN nameOf[c] ELSE S[s].name
            r == [conv |-> target[c], key |-> keyOf[c], past |-> FALSE,
                  history |-> Append(Asked(c), Answer(c)), name |-> name]
<1>3. /\ sessions' = Put(S, s, r)
      /\ byName' = IF name = Unset THEN NamesLeft(gone) ELSE Put(NamesLeft(gone), <<keyOf[c], name>>, s)
      /\ blurred' = IF Twins(S, s, c) THEN blurred \cup {<<target[c], "twins">>} ELSE blurred
  BY <1>2
<1>4. \A t \in DOMAIN S : t \in DOMAIN sessions /\ S[t] = sessions[t] /\ S[t] \in Session /\ t \in Made
  BY DEF Without, Typed, Books, GoodBook
<1>5. gone \in SUBSET DOMAIN sessions
  BY DEF Evicted
<1>6. GoodNames(NamesLeft(gone))
  BY DEF Typed, Books, GoodNames, NamesLeft, Without
<1>7. old \subseteq DOMAIN S
  BY DEF Holder
<1>8. /\ target[c] \in Made /\ under[c] \in Made /\ target[c] \in Conv
      /\ keyOf[c] \in Key /\ nameOf[c] \in Name \cup {Unset} /\ said[c] < MaxSaid
  BY Count DEF Typed, Asks, AskOK, Bind
<1>. HIDE DEF S, old
<1>9. s \in Made /\ (old # {} => s \in DOMAIN S)
  BY <1>4, <1>7, <1>8
<1>10. name \in Name \cup {Unset}
  <2>1. CASE nameOf[c] # Unset \/ old = {}
    BY <1>8, <2>1
  <2>2. CASE ~(nameOf[c] # Unset \/ old = {})
    <3>1. S[s] \in Session
      BY <1>4, <1>9, <2>2
    <3>. QED
      BY <2>2, <3>1 DEF Session
  <2>. QED
    BY <2>1, <2>2
<1>11. Append(Asked(c), Answer(c)) \in Seq(Message)
  BY <1>8, ToldTyped DEF Typed
<1>. HIDE DEF name
<1>12. /\ r \in Session
       /\ r.conv = target[c] /\ r.key = keyOf[c] /\ r.history = Append(Asked(c), Answer(c))
  BY <1>8, <1>10, <1>11 DEF Session
<1>. HIDE DEF r
<1>13. GoodNames(byName')
  <2>1. s \in Conv
    BY <1>9, MadeIs DEF Typed
  <2>. QED
    BY <1>3, <1>6, <2>1 DEF GoodNames, Put
<1>14. Bound(c, gone, s, r)
  BY <1>3, <1>9, <1>12 DEF Bound, S
<1>. QED
  BY <1>5, <1>9, <1>12, <1>13, <1>14

LEMMA SentTyped ==
  ASSUME Asks, NEW c \in Chat, said[c] < MaxSaid
  PROVE  Sent(c) \in Seq(Message) /\ Append(Sent(c), Answer(c)) \in Seq(Message) \ {<<>>}
<1>1. Asked(c) \in Seq(Message) /\ Answer(c) \in Message /\ Len(Asked(c)) = said[c] + 1
  BY ToldTyped
<1>2. from[c] \in Nat /\ said[c] \in Nat
  BY DEF Asks
<1>3. Sent(c) \in Seq(Message)
  BY <1>1, <1>2 DEF Sent
<1>4. Append(Sent(c), Answer(c)) \in Seq(Message) /\ Append(Sent(c), Answer(c)) # <<>>
  BY <1>1, <1>3, AppendProperties, Zenon
<1>. QED
  BY <1>3, <1>4

\* The conversation v takes the request and its answer.
Taken(c, v) ==
  /\ cloud' \in Seq(Seq(Message)) /\ Len(cloud') <= MaxConv
  /\ \A w \in Made \ {v} : w \in Made' /\ cloud'[w] = cloud[w]
  /\ \/ /\ target[c] = Unset /\ v \in Conv \ Made /\ v \in Made'
        /\ Made' = Made \cup {v} /\ alive' = alive \cup {v}
        /\ cloud'[v] = Append(Sent(c), Answer(c))
        /\ target' = [target EXCEPT ![c] = v] /\ under' = [under EXCEPT ![c] = v]
     \/ /\ target[c] = v /\ v \in alive /\ Made' = Made
        /\ cloud'[v] = cloud[v] \o Append(Sent(c), Answer(c))
        /\ UNCHANGED <<alive, target, under>>

LEMMA AnsweredDoes ==
  ASSUME Typed, NEW c \in Chat, Answered(c)
  PROVE  \E v \in Conv : Taken(c, v)
<1>. DEFINE a == Append(Sent(c), Answer(c))
<1>1. a \in Seq(Message)
  <2>1. said[c] < MaxSaid
    BY DEF Answered, Typed, Asks, AskOK
  <2>. QED
    BY <2>1, SentTyped DEF Typed
<1>2. cloud \in Seq(Seq(Message)) /\ Len(cloud) <= MaxConv /\ Len(cloud) \in Nat
  BY DEF Typed, Clouds
<1>3. Made = 1 .. Len(cloud) /\ Made \subseteq Conv /\ Unset \notin Made
  BY MadeIs DEF Typed
<1>4. CASE /\ target[c] = Unset /\ Len(cloud) < MaxConv
           /\ cloud' = Append(cloud, a)
           /\ alive' = alive \cup {Len(cloud) + 1}
           /\ target' = [target EXCEPT ![c] = Len(cloud) + 1]
           /\ under' = [under EXCEPT ![c] = Len(cloud) + 1]
  <2>. DEFINE v == Len(cloud) + 1
  <2>. HIDE DEF a
  <2>1. /\ cloud' \in Seq(Seq(Message)) /\ Len(cloud') = v
        /\ \A w \in 1 .. Len(cloud) : cloud'[w] = cloud[w]
        /\ cloud'[v] = a
    BY <1>1, <1>2, <1>4, AppendProperties
  <2>2. Made' = 1 .. v
    BY <2>1 DEF Made
  <2>3. v \in Conv \ Made /\ v \in Made' /\ Made' = Made \cup {v} /\ v <= MaxConv
    BY <1>2, <1>3, <1>4, <2>2, Count DEF Conv
  <2>4. \A w \in Made \ {v} : w \in Made' /\ cloud'[w] = cloud[w]
    BY <1>3, <2>1, <2>3
  <2>. HIDE DEF v
  <2>5. Taken(c, v)
    BY <1>4, <2>1, <2>3, <2>4 DEF Taken, a, v
  <2>. QED
    BY <2>3, <2>5
<1>5. CASE /\ target[c] \in alive
           /\ cloud' = [cloud EXCEPT ![target[c]] = @ \o a]
           /\ UNCHANGED <<alive, target, under>>
  <2>. DEFINE v == target[c]
              x == cloud[v] \o a
  <2>1. v \in Made
    BY <1>5 DEF Typed, Clouds
  <2>2. cloud[v] \in Seq(Message)
    BY <1>2, <1>3, <2>1
  <2>. HIDE DEF a
  <2>3. x \in Seq(Message)
    BY <1>1, <2>2, ConcatProperties, Zenon
  <2>4. cloud' = [cloud EXCEPT ![v] = x]
    BY <1>5
  <2>. HIDE DEF x, v
  <2>5. cloud' \in Seq(Seq(Message)) /\ Len(cloud') = Len(cloud)
    BY <1>2, <1>3, <2>1, <2>3, <2>4
  <2>6. Made' = Made
    BY <1>3, <2>4 DEF Made
  <2>7. cloud'[v] = x /\ \A w \in Made \ {v} : cloud'[w] = cloud[w]
    BY <1>2, <1>3, <2>1, <2>4
  <2>8. Taken(c, v)
    BY <1>2, <1>5, <2>5, <2>6, <2>7 DEF Taken, v, x, a
  <2>. QED
    BY <1>3, <2>1, <2>8
<1>. QED
  BY <1>4, <1>5 DEF Answered

\* A failed request may leave its messages behind.
LEMMA FailedDoes ==
  ASSUME Typed, NEW c \in Chat, Failed(c)
  PROVE  /\ cloud' \in Seq(Seq(Message)) /\ Len(cloud') <= MaxConv /\ Made' = Made
         /\ \A w \in Made : cloud'[w] # <<>>
         /\ \A w \in Made : w # target[c] => cloud'[w] = cloud[w]
         /\ \/ UNCHANGED <<cloud, blurred>>
            \/ target[c] \in Made /\ blurred' = blurred \cup {<<target[c], "failure">>}
               /\ cloud'[target[c]] = cloud[target[c]] \o Sent(c)
<1>. DEFINE a == Sent(c)
<1>1. a \in Seq(Message)
  <2>1. said[c] < MaxSaid
    BY DEF Failed, Typed, Asks, AskOK
  <2>. QED
    BY <2>1, SentTyped DEF Typed
<1>2. /\ cloud \in Seq(Seq(Message)) /\ Len(cloud) <= MaxConv /\ Len(cloud) \in Nat
      /\ \A w \in Made : cloud[w] # <<>>
  BY DEF Typed, Clouds
<1>3. Made = 1 .. Len(cloud) /\ Made \subseteq Conv /\ Unset \notin Made
  BY MadeIs DEF Typed
<1>4. CASE UNCHANGED <<cloud, blurred>>
  BY <1>2, <1>4 DEF Made
<1>5. CASE /\ target[c] \in alive
           /\ cloud' = [cloud EXCEPT ![target[c]] = @ \o a]
           /\ blurred' = blurred \cup {<<target[c], "failure">>}
  <2>. DEFINE v == target[c]
              x == cloud[v] \o a
  <2>1. v \in Made
    BY <1>5 DEF Typed, Clouds
  <2>2. cloud[v] \in Seq(Message) /\ cloud[v] # <<>>
    BY <1>2, <1>3, <2>1
  <2>. HIDE DEF a
  <2>3. x \in Seq(Message) /\ x # <<>>
    <3>1. x \in Seq(Message) /\ Len(x) = Len(cloud[v]) + Len(a)
      BY <1>1, <2>2, ConcatProperties, Zenon
    <3>2. Len(cloud[v]) # 0 /\ Len(cloud[v]) \in Nat /\ Len(a) \in Nat
      BY <1>1, <2>2
    <3>3. Len(x) # 0
      BY <3>1, <3>2
    <3>. QED
      BY <3>1, <3>3
  <2>4. cloud' = [cloud EXCEPT ![v] = x]
    BY <1>5
  <2>. HIDE DEF x, v
  <2>5. cloud' \in Seq(Seq(Message)) /\ Len(cloud') = Len(cloud)
    BY <1>2, <1>3, <2>1, <2>3, <2>4
  <2>6. Made' = Made
    BY <1>3, <2>4 DEF Made
  <2>7. cloud'[v] = x /\ \A w \in Made \ {v} : cloud'[w] = cloud[w]
    BY <1>2, <1>3, <2>1, <2>4
  <2>8. \A w \in Made : cloud'[w] # <<>>
    BY <1>2, <2>3, <2>7
  <2>. QED
    BY <1>2, <1>5, <2>1, <2>5, <2>6, <2>7, <2>8 DEF v, x, a
<1>. QED
  BY <1>4, <1>5 DEF Failed
-----------------------------------------------------------------------------
(* Types.                                                                  *)

Binding == \E c \in Chat : Bind(c)

\* Only Bind puts a session or changes what one tells.
LEMMA KeptOrBound ==
  ASSUME Typed, ConversationNext, ~Binding
  PROVE  Kept /\ GoodNames(byName')
<1>. USE DEF Typed
<1>1. ASSUME NEW c \in Chat, ChatStep(c)
      PROVE  Kept /\ GoodNames(byName')
  <2>1. CASE Resolve(c)
    BY <2>1, ResolveDoes
  <2>2. CASE LookUp(c) \/ Answered(c) \/ Failed(c)
    <3>1. UNCHANGED indexVars
      BY <2>2 DEF LookUp, Answered, Failed
    <3>. QED
      BY <3>1, SameKept
  <2>3. CASE Store(c)
    <3>1. UNCHANGED indexVars
           \/ \E gone \in Evicted(sessions) :
                sessions' = Without(sessions, gone) /\ byName' = NamesLeft(gone)
      BY <2>3 DEF Store
    <3>. QED
      BY <3>1, SameKept, WithoutKept
  <2>. QED
    BY <1>1, <2>1, <2>2, <2>3 DEF ChatStep, Binding
<1>2. CASE Sweep
  <2>1. CASE SweepStarts \/ SweepLists \/ SweepDeletes
    <3>1. UNCHANGED indexVars
      BY <2>1 DEF SweepStarts, SweepLists, SweepDeletes
    <3>. QED
      BY <3>1, SameKept
  <2>2. CASE SweepDrops
    <3>1. \E gone : sessions' = Without(sessions, gone) /\ byName' = NamesLeft(gone)
      BY <2>2 DEF SweepDrops
    <3>. QED
      BY <3>1, WithoutKept
  <2>. QED
    BY <1>2, <2>1, <2>2 DEF Sweep
<1>3. CASE AdminSteps
  <2>1. UNCHANGED indexVars
    BY <1>3 DEF AdminSteps, AdminDeletes, AdminForgets, AdminCleans, AdminLists, AdminRemoves
  <2>. QED
    BY <2>1, SameKept
<1>4. ASSUME NEW s \in DOMAIN sessions, DeleteSession(s)
      PROVE  Kept /\ GoodNames(byName')
  <2>1. sessions' = Without(sessions, {s}) /\ byName' = NamesLeft({s})
    BY <1>4 DEF DeleteSession
  <2>. QED
    BY <2>1, WithoutKept
<1>5. CASE Hours
  <2>1. sessions' = [s \in DOMAIN sessions |-> [sessions[s] EXCEPT !.past = TRUE]] /\ byName' = byName
    BY <1>5 DEF Hours
  <2>2. GoodNames(byName')
    BY <2>1 DEF Books
  <2>3. ASSUME NEW s \in DOMAIN sessions'
        PROVE  /\ s \in DOMAIN sessions
               /\ sessions'[s] \in Session
               /\ sessions'[s].conv = sessions[s].conv
               /\ sessions'[s].key = sessions[s].key
               /\ sessions'[s].history = sessions[s].history
    <3>1. s \in DOMAIN sessions /\ sessions'[s] = [sessions[s] EXCEPT !.past = TRUE]
      BY <2>1
    <3>2. sessions[s] \in Session
      BY <3>1 DEF Books, GoodBook
    <3>. DEFINE r == sessions[s]
                q == sessions'[s]
    <3>. HIDE DEF r, q
    <3>3. r \in Session /\ q = [r EXCEPT !.past = TRUE]
      BY <3>1, <3>2 DEF r, q
    <3>4. q \in Session /\ q.conv = r.conv /\ q.key = r.key /\ q.history = r.history
      BY <3>3 DEF Session
    <3>. QED
      BY <3>1, <3>4 DEF r, q
  <2>. QED
    BY <2>2, <2>3 DEF Kept
<1>. QED
  BY <1>1, <1>2, <1>3, <1>4, <1>5 DEF ConversationNext

\* What the steps of a chat do to the cloud, and that no other step does anything to it.
LEMMA CloudOrSame ==
  ASSUME Typed, ConversationNext
  PROVE  UNCHANGED cloud \/ \E c \in Chat : Answered(c) \/ Failed(c)
<1>1. ASSUME NEW c \in Chat, Resolve(c) \/ LookUp(c) \/ Bind(c) \/ Store(c)
      PROVE  UNCHANGED cloud
  BY <1>1 DEF Resolve, LookUp, Bind, Store, cloudVars
<1>2. CASE Sweep \/ AdminSteps \/ Hours \/ \E s \in DOMAIN sessions : DeleteSession(s)
  BY <1>2 DEF Sweep, SweepStarts, SweepLists, SweepDeletes, SweepDrops, AdminSteps, AdminDeletes,
              AdminForgets, AdminCleans, AdminLists, AdminRemoves, Hours, DeleteSession, cloudVars
<1>. QED
  BY <1>1, <1>2 DEF ConversationNext, ChatStep

LEMMA MadeGrows ==
  ASSUME Typed, ConversationNext
  PROVE  Grows
<1>1. CASE UNCHANGED cloud
  BY <1>1 DEF Grows, Made
<1>2. ASSUME NEW c \in Chat, Answered(c) PROVE Grows
  BY <1>2, AnsweredDoes DEF Taken, Grows
<1>3. ASSUME NEW c \in Chat, Failed(c) PROVE Grows
  BY <1>3, FailedDoes DEF Grows
<1>. QED
  BY <1>1, <1>2, <1>3, CloudOrSame

\* Sessions are finitely many: each has the id of a conversation.
LEMMA BookFinite ==
  ASSUME NEW S, GoodBook(S, Made), Clouds
  PROVE  IsFiniteSet(DOMAIN S) /\ Cardinality(DOMAIN S) \in Nat
<1>1. DOMAIN S \subseteq Conv
  BY MadeIs DEF GoodBook
<1>2. IsFiniteSet(Conv)
  BY Count, FS_Interval DEF Conv
<1>3. IsFiniteSet(DOMAIN S)
  BY <1>1, <1>2, FS_Subset
<1>. QED
  BY <1>3, FS_CardinalityType

\* An eviction leaves room for one.
LEMMA EvictedFew ==
  ASSUME Typed, NEW gone \in Evicted(sessions), NEW x, NEW r
  PROVE  Few(Put(Without(sessions, gone), x, r), MaxSessions + 1)
<1>. DEFINE D == DOMAIN sessions \ gone
<1>1. Cardinality(D) <= MaxSessions
  BY DEF Evicted
<1>2. IsFiniteSet(DOMAIN sessions)
  BY BookFinite DEF Typed, Books
<1>3. IsFiniteSet(D) /\ Cardinality(D) \in Nat
  BY <1>2, FS_Difference, FS_CardinalityType
<1>4. DOMAIN Put(Without(sessions, gone), x, r) = D \cup {x}
  BY DEF Put, Without
<1>5. IsFiniteSet(D \cup {x}) /\ Cardinality(D \cup {x}) = IF x \in D THEN Cardinality(D) ELSE Cardinality(D) + 1
  BY <1>3, FS_AddElement
<1>. HIDE DEF D
<1>. QED
  BY <1>1, <1>3, <1>4, <1>5, Count DEF Few

LEMMA BooksStay ==
  ASSUME Typed, ConversationNext
  PROVE  Books'
<1>1. Grows
  BY MadeGrows
<1>2. CASE ~Binding
  <2>1. Kept /\ GoodNames(byName')
    BY <1>2, KeptOrBound
  <2>2. GoodBook(sessions', Made')
    BY <1>1, <2>1 DEF Kept, Typed, Books, GoodBook, Grows
  <2>3. Few(sessions', MaxSessions + 1)
    <3>1. IsFiniteSet(DOMAIN sessions) /\ Cardinality(DOMAIN sessions) \in Nat
          /\ Cardinality(DOMAIN sessions) <= MaxSessions + 1
      BY BookFinite DEF Typed, Books, Few
    <3>2. Cardinality(DOMAIN sessions') <= Cardinality(DOMAIN sessions) /\ Cardinality(DOMAIN sessions') \in Nat
      BY <2>1, <3>1, FS_Subset, FS_CardinalityType DEF Kept
    <3>. QED
      BY <3>1, <3>2, Count DEF Few
  <2>. QED
    BY <2>1, <2>2, <2>3 DEF Books
<1>3. ASSUME NEW c \in Chat, Bind(c) PROVE Books'
  <2>1. PICK gone \in SUBSET DOMAIN sessions, s \in Made, r \in Session : Bound(c, gone, s, r)
    BY <1>3, BindDoes
  <2>2. GoodNames(byName')
    BY <1>3, BindDoes
  <2>3. gone \in Evicted(sessions) /\ sessions' = Put(Without(sessions, gone), s, r) /\ r.conv \in Made
    BY <1>3, <2>1 DEF Bound, Bind, Typed, Asks, AskOK
  <2>4. GoodBook(Put(Without(sessions, gone), s, r), Made)
    BY <2>3, BookWithout, BookPut DEF Typed, Books
  <2>5. GoodBook(sessions', Made')
    BY <1>1, <2>3, <2>4 DEF Grows, GoodBook
  <2>6. Few(sessions', MaxSessions + 1)
    BY <2>3, EvictedFew
  <2>. QED
    BY <2>2, <2>5, <2>6 DEF Books
<1>. QED
  BY <1>2, <1>3 DEF Binding

\* Steps that are not of a chat leave the requests alone.
LEMMA ChatsOrQuiet ==
  ASSUME ConversationNext
  PROVE  UNCHANGED chatVars \/ \E c \in Chat : ChatStep(c)
  BY DEF ConversationNext, Sweep, SweepStarts, SweepLists, SweepDeletes, SweepDrops, AdminSteps,
         AdminDeletes, AdminForgets, AdminCleans, AdminLists, AdminRemoves, Hours, DeleteSession

LEMMA AsksStay ==
  ASSUME Typed, ConversationNext
  PROVE  Asks'
<1>. USE DEF Typed
<1>0. Grows
  BY MadeGrows
<1>1. Made \subseteq Conv /\ Unset \notin Made /\ Unset \notin Conv
  BY MadeIs, Count
<1>2. CASE UNCHANGED chatVars
  <2>1. ASSUME NEW d \in Chat PROVE AskOK(d)'
    BY <1>0, <1>2, <2>1 DEF Asks, AskOK, chatVars, Grows
  <2>. QED
    BY <1>2, <2>1 DEF Asks, chatVars
<1>3. ASSUME NEW c \in Chat, Resolve(c) PROVE Asks'
  <2>1. /\ turn[c] = "idle" /\ MayAsk(c) /\ turn' = [turn EXCEPT ![c] = "resolved"]
        /\ nameOf' \in [Chat -> Name \cup {Unset}]
        /\ UNCHANGED <<keyOf, said>>
    BY <1>3 DEF Resolve, Asks
  <2>2. /\ target' \in [Chat -> Conv \cup {Unset}] /\ under' \in [Chat -> Conv \cup {Unset}]
        /\ from' \in [Chat -> Nat]
        /\ \A d \in Chat \ {c} : target'[d] = target[d] /\ under'[d] = under[d] /\ from'[d] = from[d]
        /\ target'[c] # Unset => target'[c] \in Made /\ under'[c] \in Made
        /\ target'[c] = Unset => from'[c] = 0
        /\ from'[c] <= said[c]
    <3>1. CASE LedNowhere(c)
      BY <3>1 DEF LedNowhere, Asks
    <3>2. ASSUME NEW s \in DOMAIN sessions, Led(c, s)
          PROVE  /\ target' \in [Chat -> Conv \cup {Unset}] /\ under' \in [Chat -> Conv \cup {Unset}]
                 /\ from' \in [Chat -> Nat]
                 /\ \A d \in Chat \ {c} : target'[d] = target[d] /\ under'[d] = under[d] /\ from'[d] = from[d]
                 /\ target'[c] \in Made /\ under'[c] \in Made
                 /\ from'[c] <= said[c]
      <4>1. s \in Made /\ sessions[s].conv \in Made
        BY DEF Books, GoodBook
      <4>2. PICK n \in Nat : from' = [from EXCEPT ![c] = IF n < said[c] + 1 THEN n ELSE 0]
        BY <3>2 DEF Led
      <4>3. from' \in [Chat -> Nat] /\ from'[c] <= said[c] /\ \A d \in Chat \ {c} : from'[d] = from[d]
        BY <4>2 DEF Asks
      <4>. QED
        BY <1>1, <3>2, <4>1, <4>3 DEF Led, Asks
    <3>. QED
      BY <1>1, <1>3, <3>1, <3>2, ResolveDoes
  <2>3. turn'[c] = "resolved" /\ turn' \in [Chat -> Turn] /\ \A d \in Chat \ {c} : turn'[d] = turn[d]
    BY <2>1 DEF Asks, Turn
  <2>4. said[c] < MaxSaid
    BY <2>1 DEF MayAsk
  <2>5. ASSUME NEW d \in Chat PROVE AskOK(d)'
    <3>1. CASE d = c
      BY <1>0, <2>1, <2>2, <2>3, <2>4, <3>1 DEF Asks, AskOK, Grows
    <3>2. CASE d # c
      BY <1>0, <2>1, <2>2, <2>3, <3>2 DEF Asks, AskOK, Grows
    <3>. QED
      BY <3>1, <3>2
  <2>. QED
    BY <2>1, <2>2, <2>3, <2>5 DEF Asks
<1>4. ASSUME NEW c \in Chat, LookUp(c) PROVE Asks'
  <2>1. /\ turn[c] = "resolved"
        /\ turn' = [turn EXCEPT ![c] = "looked"] \/ turn' = [turn EXCEPT ![c] = "reused"]
        /\ UNCHANGED <<keyOf, nameOf, said>>
        /\ \/ UNCHANGED <<target, under, from>>
           \/ /\ target[c] = Unset /\ CacheHit(c)
              /\ target' = [target EXCEPT ![c] = cached.conv]
              /\ under' = [under EXCEPT ![c] = cached.session]
              /\ from' = [from EXCEPT ![c] = cached.count]
    BY <1>4 DEF LookUp
  <2>2. CASE UNCHANGED <<target, under, from>>
    <3>1. turn'[c] \in {"looked", "reused"} /\ turn' \in [Chat -> Turn] /\ \A d \in Chat \ {c} : turn'[d] = turn[d]
      BY <2>1 DEF Asks, Turn
    <3>2. ASSUME NEW d \in Chat PROVE AskOK(d)'
      BY <1>0, <2>1, <2>2, <3>1 DEF Asks, AskOK, Grows
    <3>. QED
      BY <2>1, <2>2, <3>1, <3>2 DEF Asks
  <2>3. CASE /\ target[c] = Unset /\ CacheHit(c)
             /\ target' = [target EXCEPT ![c] = cached.conv]
             /\ under' = [under EXCEPT ![c] = cached.session]
             /\ from' = [from EXCEPT ![c] = cached.count]
    <3>1. cached.conv \in Made /\ cached.session \in Made /\ cached.count \in Nat /\ cached.count <= said[c]
      BY <2>3 DEF CacheHit, Clouds, Asks
    <3>2. turn'[c] \in {"looked", "reused"} /\ turn' \in [Chat -> Turn] /\ \A d \in Chat \ {c} : turn'[d] = turn[d]
      BY <2>1 DEF Asks, Turn
    <3>3. /\ target' \in [Chat -> Conv \cup {Unset}] /\ under' \in [Chat -> Conv \cup {Unset}]
          /\ from' \in [Chat -> Nat]
          /\ target'[c] \in Made /\ under'[c] \in Made /\ from'[c] <= said[c]
          /\ \A d \in Chat \ {c} : target'[d] = target[d] /\ under'[d] = under[d] /\ from'[d] = from[d]
      BY <1>1, <2>3, <3>1 DEF Asks
    <3>4. ASSUME NEW d \in Chat PROVE AskOK(d)'
      <4>1. CASE d = c
        BY <1>0, <1>1, <2>1, <3>2, <3>3, <4>1 DEF Asks, AskOK, Grows
      <4>2. CASE d # c
        BY <1>0, <2>1, <3>2, <3>3, <4>2 DEF Asks, AskOK, Grows
      <4>. QED
        BY <4>1, <4>2
    <3>. QED
      BY <2>1, <3>2, <3>3, <3>4 DEF Asks
  <2>. QED
    BY <2>1, <2>2, <2>3
<1>5. ASSUME NEW c \in Chat, Answered(c) PROVE Asks'
  <2>1. /\ turn[c] \in {"looked", "reused"} /\ turn' = [turn EXCEPT ![c] = "answered"]
        /\ UNCHANGED <<keyOf, nameOf, said, from>>
    BY <1>5 DEF Answered
  <2>2. turn'[c] = "answered" /\ turn' \in [Chat -> Turn] /\ \A d \in Chat \ {c} : turn'[d] = turn[d]
    BY <2>1 DEF Asks, Turn
  <2>3. PICK v \in Conv : Taken(c, v)
    BY <1>5, AnsweredDoes
  <2>4. /\ target' \in [Chat -> Conv \cup {Unset}] /\ under' \in [Chat -> Conv \cup {Unset}]
        /\ target'[c] \in Made' /\ under'[c] \in Made'
        /\ \A d \in Chat \ {c} : target'[d] = target[d] /\ under'[d] = under[d]
    <3>1. CASE target[c] = Unset /\ v \in Made'
               /\ target' = [target EXCEPT ![c] = v] /\ under' = [under EXCEPT ![c] = v]
      BY <3>1 DEF Asks
    <3>2. CASE target[c] = v /\ v \in alive /\ UNCHANGED <<alive, target, under>>
      <4>1. target[c] \in Made /\ target[c] # Unset
        BY <1>1, <3>2 DEF Clouds
      <4>2. under[c] \in Made
        BY <4>1 DEF Asks, AskOK
      <4>. QED
        BY <1>0, <3>2, <4>1, <4>2 DEF Asks, Grows
    <3>. QED
      BY <2>3, <3>1, <3>2 DEF Taken
  <2>5. ASSUME NEW d \in Chat PROVE AskOK(d)'
    <3>1. CASE d = c
      <4>1. target'[c] # Unset
        <5>1. Made' \subseteq Conv
          BY <2>3, Count DEF Taken, Made, Conv
        <5>. QED
          BY <1>1, <2>4, <5>1
      <4>. QED
        BY <2>1, <2>2, <2>4, <3>1, <4>1 DEF Asks, AskOK
    <3>2. CASE d # c
      BY <1>0, <2>1, <2>2, <2>4, <3>2 DEF Asks, AskOK, Grows
    <3>. QED
      BY <3>1, <3>2
  <2>. QED
    BY <2>1, <2>2, <2>4, <2>5 DEF Asks
<1>6. ASSUME NEW c \in Chat, Failed(c) PROVE Asks'
  <2>1. /\ turn' = [turn EXCEPT ![c] = "idle"]
        /\ target' = [target EXCEPT ![c] = Unset] /\ under' = [under EXCEPT ![c] = Unset]
        /\ from' = [from EXCEPT ![c] = 0] /\ nameOf' = [nameOf EXCEPT ![c] = Unset]
        /\ UNCHANGED <<keyOf, said>>
    BY <1>6 DEF Failed
  <2>2. ASSUME NEW d \in Chat PROVE AskOK(d)'
    <3>1. CASE d = c
      BY <2>1, <3>1 DEF Asks, AskOK
    <3>2. CASE d # c
      BY <1>0, <2>1, <3>2 DEF Asks, AskOK, Grows
    <3>. QED
      BY <3>1, <3>2
  <2>. QED
    BY <2>1, <2>2 DEF Asks, Turn
<1>7. ASSUME NEW c \in Chat, Bind(c) PROVE Asks'
  <2>1. /\ turn[c] = "answered" /\ turn' = [turn EXCEPT ![c] = "bound"]
        /\ UNCHANGED <<keyOf, nameOf, said, target, under, from>>
    BY <1>7 DEF Bind
  <2>2. ASSUME NEW d \in Chat PROVE AskOK(d)'
    BY <1>0, <2>1 DEF Asks, AskOK, Grows
  <2>. QED
    BY <2>1, <2>2 DEF Asks, Turn
<1>8. ASSUME NEW c \in Chat, Store(c) PROVE Asks'
  <2>1. /\ turn[c] = "bound" /\ turn' = [turn EXCEPT ![c] = "idle"]
        /\ said' = [said EXCEPT ![c] = said[c] + 2]
        /\ target' = [target EXCEPT ![c] = Unset] /\ under' = [under EXCEPT ![c] = Unset]
        /\ from' = [from EXCEPT ![c] = 0] /\ nameOf' = [nameOf EXCEPT ![c] = Unset]
        /\ UNCHANGED keyOf
    BY <1>8 DEF Store
  <2>2. said[c] \in Nat /\ Even(said[c]) /\ said[c] < MaxSaid
    BY <2>1 DEF Asks, AskOK
  <2>3. said[c] + 2 \in Nat /\ Even(said[c] + 2) /\ said[c] + 2 <= MaxSaid + 1
    BY <2>2, Count DEF Even
  <2>4. ASSUME NEW d \in Chat PROVE AskOK(d)'
    <3>1. CASE d = c
      BY <2>1, <2>3, <3>1 DEF Asks, AskOK
    <3>2. CASE d # c
      BY <1>0, <2>1, <3>2 DEF Asks, AskOK, Grows
    <3>. QED
      BY <3>1, <3>2
  <2>. QED
    BY <2>1, <2>3, <2>4 DEF Asks, Turn
<1>. QED
  BY <1>2, <1>3, <1>4, <1>5, <1>6, <1>7, <1>8, ChatsOrQuiet DEF ChatStep

GoodCache(entry, V) ==
  /\ entry \in [conv : V \cup {Unset}, session : V \cup {Unset}, count : Nat, past : BOOLEAN]
  /\ entry.conv # Unset => entry.session # Unset

LEMMA CacheStays ==
  ASSUME Typed, ConversationNext
  PROVE  GoodCache(cached', Made')
<1>0. Grows /\ Unset \notin Made
  BY MadeGrows, MadeIs DEF Typed
<1>1. GoodCache(cached, Made)
  BY DEF Typed, Clouds, GoodCache
<1>2. CASE UNCHANGED cached
  BY <1>0, <1>1, <1>2 DEF GoodCache, Grows
<1>3. CASE cached' = NoEntry
  BY <1>3 DEF GoodCache, NoEntry
<1>4. ASSUME NEW c \in Chat, Store(c) PROVE GoodCache(cached', Made')
  <2>1. cached' = [conv |-> target[c], session |-> under[c], count |-> said[c] + 1, past |-> FALSE]
        /\ turn[c] = "bound"
    BY <1>4 DEF Store
  <2>2. target[c] \in Made /\ under[c] \in Made /\ said[c] + 1 \in Nat
    BY <2>1 DEF Typed, Asks, AskOK
  <2>. QED
    BY <1>0, <2>1, <2>2 DEF GoodCache, Grows
<1>5. CASE Hours
  <2>1. cached' = [cached EXCEPT !.past = (cached # NoEntry)]
    BY <1>5 DEF Hours
  <2>2. (cached # NoEntry) \in BOOLEAN
    OBVIOUS
  <2>. DEFINE b == cached # NoEntry
  <2>. HIDE DEF b
  <2>3. cached' = [cached EXCEPT !.past = b] /\ b \in BOOLEAN
    BY <2>1, <2>2 DEF b
  <2>. QED
    BY <1>0, <1>1, <2>3 DEF GoodCache, Grows
<1>6. ASSUME NEW c \in Chat, LookUp(c) \/ Failed(c)
      PROVE  UNCHANGED cached \/ cached' = NoEntry
  BY <1>6 DEF LookUp, Failed
<1>7. ASSUME NEW c \in Chat, Resolve(c) \/ Answered(c) \/ Bind(c)
      PROVE  UNCHANGED cached
  BY <1>7 DEF Resolve, Answered, Bind
<1>8. CASE Sweep \/ AdminSteps \/ \E s \in DOMAIN sessions : DeleteSession(s)
  <2>1. UNCHANGED cached
    BY <1>8 DEF Sweep, SweepStarts, SweepLists, SweepDeletes, SweepDrops, AdminSteps, AdminDeletes,
              AdminForgets, AdminCleans, AdminLists, AdminRemoves, DeleteSession
  <2>. QED
    BY <1>2, <2>1
<1>. QED
  BY <1>2, <1>3, <1>4, <1>5, <1>6, <1>7, <1>8 DEF ConversationNext, ChatStep

LEMMA AliveStays ==
  ASSUME Typed, ConversationNext
  PROVE  /\ alive' \subseteq Made' /\ aged' \subseteq Made' /\ late' \subseteq Made'
         /\ doomed' \subseteq Made'
<1>0. Grows
  BY MadeGrows
<1>1. alive \subseteq Made /\ aged \subseteq Made /\ late \subseteq Made /\ doomed \subseteq Made
  BY DEF Typed, Clouds
<1>2. CASE UNCHANGED <<alive, aged, late, doomed>>
  BY <1>0, <1>1, <1>2 DEF Grows
<1>3. ASSUME NEW c \in Chat, ChatStep(c)
      PROVE  UNCHANGED <<alive, aged, late, doomed>> \/ Answered(c)
  BY <1>3 DEF ChatStep, Resolve, LookUp, Failed, Bind, Store, cloudVars, sweepVars
<1>4. ASSUME NEW c \in Chat, Answered(c)
      PROVE  /\ alive' \subseteq Made' /\ aged' \subseteq Made' /\ late' \subseteq Made'
             /\ doomed' \subseteq Made'
  <2>1. UNCHANGED <<aged, late, doomed>>
    BY <1>4 DEF Answered, sweepVars
  <2>2. alive' \subseteq Made'
    BY <1>0, <1>1, <1>4, AnsweredDoes DEF Taken, Grows
  <2>. QED
    BY <1>0, <1>1, <2>1, <2>2 DEF Grows
<1>5. CASE Sweep
  BY <1>0, <1>1, <1>5 DEF Sweep, SweepStarts, SweepLists, SweepDeletes, SweepDrops, Expendable, Grows,
                          cloudVars, sweepVars
<1>6. CASE AdminSteps
  BY <1>0, <1>1, <1>6 DEF AdminSteps, AdminDeletes, AdminForgets, AdminCleans, AdminLists, AdminRemoves,
                          Grows, cloudVars, sweepVars
<1>7. CASE \E s \in DOMAIN sessions : DeleteSession(s)
  BY <1>2, <1>7 DEF DeleteSession, cloudVars, sweepVars
<1>8. CASE Hours
  BY <1>0, <1>1, <1>8 DEF Hours, sweepVars, Grows
<1>. QED
  BY <1>2, <1>3, <1>4, <1>5, <1>6, <1>7, <1>8 DEF ConversationNext

\* A conversation is blurred for a reason, and stays so.
Reason == {"guess", "cache", "failure", "twins"}

LEMMA BlurredStep ==
  ASSUME Typed, ConversationNext
  PROVE  UNCHANGED blurred
           \/ \E v \in Made, why \in Reason : blurred' = blurred \cup {<<v, why>>}
<1>1. ASSUME NEW c \in Chat, ChatStep(c)
      PROVE  UNCHANGED blurred
               \/ \E v \in Made, why \in Reason : blurred' = blurred \cup {<<v, why>>}
  <2>1. CASE Resolve(c)
    <3>1. CASE LedNowhere(c)
      BY <3>1 DEF LedNowhere
    <3>2. ASSUME NEW s \in DOMAIN sessions, Led(c, s)
          PROVE  UNCHANGED blurred \/ blurred' = blurred \cup {<<sessions[s].conv, "guess">>}
      BY <3>2 DEF Led
    <3>3. \A s \in DOMAIN sessions : sessions[s].conv \in Made
      BY DEF Typed, Books, GoodBook
    <3>. QED
      BY <2>1, <3>1, <3>2, <3>3, ResolveDoes DEF Reason
  <2>2. CASE LookUp(c)
    <3>1. UNCHANGED blurred \/ (CacheHit(c) /\ blurred' = blurred \cup {<<cached.conv, "cache">>})
      BY <2>2 DEF LookUp
    <3>2. CacheHit(c) => cached.conv \in Made
      BY DEF CacheHit, Typed, Clouds
    <3>. QED
      BY <3>1, <3>2 DEF Reason
  <2>3. CASE Failed(c)
    BY <2>3, FailedDoes DEF Reason
  <2>4. CASE Bind(c)
    <3>1. UNCHANGED blurred \/ blurred' = blurred \cup {<<target[c], "twins">>}
      BY <2>4, BindDoes DEF Bound
    <3>2. target[c] \in Made
      BY <2>4 DEF Bind, Typed, Asks, AskOK
    <3>. QED
      BY <3>1, <3>2 DEF Reason
  <2>5. CASE Answered(c) \/ Store(c)
    BY <2>5 DEF Answered, Store
  <2>. QED
    BY <1>1, <2>1, <2>2, <2>3, <2>4, <2>5 DEF ChatStep
<1>2. ASSUME Sweep \/ AdminSteps \/ Hours \/ \E s \in DOMAIN sessions : DeleteSession(s)
      PROVE  UNCHANGED blurred
  BY <1>2 DEF Sweep, SweepStarts, SweepLists, SweepDeletes, SweepDrops, AdminSteps, AdminDeletes,
              AdminForgets, AdminCleans, AdminLists, AdminRemoves, Hours, DeleteSession
<1>. QED
  BY <1>1, <1>2 DEF ConversationNext

LEMMA BlurredGrows ==
  ASSUME Typed, ConversationNext
  PROVE  blurred \subseteq blurred' /\ blurred' \subseteq Made' \X Reason
<1>0. Grows /\ blurred \subseteq Made \X Reason
  BY MadeGrows DEF Typed, Clouds, Reason
<1>1. CASE UNCHANGED blurred
  BY <1>0, <1>1 DEF Grows
<1>2. ASSUME NEW v \in Made, NEW why \in Reason, blurred' = blurred \cup {<<v, why>>}
      PROVE  blurred \subseteq blurred' /\ blurred' \subseteq Made' \X Reason
  BY <1>0, <1>2 DEF Grows
<1>. QED
  BY <1>1, <1>2, BlurredStep

LEMMA CloudsStay ==
  ASSUME Typed, ConversationNext
  PROVE  Clouds'
<1>1. GoodCache(cached', Made')
  BY CacheStays
<1>2. alive' \subseteq Made' /\ aged' \subseteq Made' /\ late' \subseteq Made' /\ doomed' \subseteq Made'
  BY AliveStays
<1>3. blurred' \subseteq Made' \X {"guess", "cache", "failure", "twins"}
  BY BlurredGrows DEF Reason
<1>4. cloud' \in Seq(Seq(Message)) /\ Len(cloud') <= MaxConv /\ \A v \in Made' : cloud'[v] # <<>>
  <2>0. cloud \in Seq(Seq(Message)) /\ Len(cloud) <= MaxConv /\ \A v \in Made : cloud[v] # <<>>
    BY DEF Typed, Clouds
  <2>1. CASE UNCHANGED cloud
    BY <2>0, <2>1 DEF Made
  <2>2. ASSUME NEW c \in Chat, Failed(c)
        PROVE  cloud' \in Seq(Seq(Message)) /\ Len(cloud') <= MaxConv /\ \A v \in Made' : cloud'[v] # <<>>
    BY <2>2, FailedDoes
  <2>3. ASSUME NEW c \in Chat, Answered(c)
        PROVE  cloud' \in Seq(Seq(Message)) /\ Len(cloud') <= MaxConv /\ \A v \in Made' : cloud'[v] # <<>>
    <3>1. PICK v \in Conv : Taken(c, v)
      BY <2>3, AnsweredDoes
    <3>2. said[c] < MaxSaid
      BY <2>3 DEF Answered, Typed, Asks, AskOK
    <3>. DEFINE a == Append(Sent(c), Answer(c))
    <3>3. a \in Seq(Message) /\ a # <<>>
      BY <3>2, SentTyped DEF Typed
    <3>4. Made' = Made \cup {v} /\ \A w \in Made \ {v} : cloud'[w] = cloud[w]
      BY <3>1 DEF Taken, Typed, Clouds
    <3>5. cloud'[v] # <<>>
      <4>1. CASE cloud'[v] = a
        BY <3>3, <4>1
      <4>2. CASE v \in Made /\ cloud'[v] = cloud[v] \o a
        <5>1. cloud[v] \in Seq(Message)
          BY <2>0, <4>2, MadeIs DEF Typed
        <5>. HIDE DEF a
        <5>2. Len(cloud[v] \o a) = Len(cloud[v]) + Len(a)
          BY <3>3, <5>1, ConcatProperties, Zenon
        <5>3. Len(a) \in Nat /\ Len(a) # 0 /\ Len(cloud[v]) \in Nat
          BY <3>3, <5>1
        <5>4. Len(cloud'[v]) # 0
          BY <4>2, <5>2, <5>3
        <5>. QED
          BY <5>4
      <4>. QED
        BY <3>1, <4>1, <4>2 DEF Taken, Typed, Clouds
    <3>6. cloud' \in Seq(Seq(Message)) /\ Len(cloud') <= MaxConv
      BY <3>1 DEF Taken
    <3>. QED
      BY <2>0, <3>4, <3>5, <3>6
  <2>. QED
    BY <2>1, <2>2, <2>3, CloudOrSame
<1>. QED
  BY <1>1, <1>2, <1>3, <1>4 DEF Clouds, GoodCache

LEMMA SweepingStays ==
  ASSUME Typed, ConversationNext
  PROVE  Sweeping'
<1>. USE Count DEF Sweeping
<1>0. Sweeping /\ IsFiniteSet(alive)
  <2>1. alive \subseteq Conv
    BY MadeIs DEF Typed, Clouds
  <2>2. IsFiniteSet(Conv)
    BY FS_Interval DEF Conv
  <2>. QED
    BY <2>1, <2>2, FS_Subset DEF Typed
<1>1. ASSUME NEW c \in Chat, Resolve(c) \/ LookUp(c) \/ Answered(c) \/ Failed(c) \/ Store(c)
      PROVE  Sweeping'
  <2>1. UNCHANGED <<managed, sweepVars>>
    BY <1>1 DEF Resolve, LookUp, Answered, Failed, Store
  <2>2. UNCHANGED trouble \/ Trouble
    BY <1>1 DEF Resolve, LookUp, Answered, Failed, Store
  <2>. QED
    BY <1>0, <2>1, <2>2 DEF Trouble, sweepVars
<1>2. ASSUME NEW c \in Chat, Bind(c) PROVE Sweeping'
  <2>1. \E rested : managed' = Put(Without(managed, rested), target[c], FALSE)
    BY <1>2 DEF Bind
  <2>2. managed' \in [DOMAIN managed' -> BOOLEAN]
    BY <1>0, <2>1 DEF Put, Without
  <2>. QED
    BY <1>0, <1>2, <2>2 DEF Bind, sweepVars
<1>3. CASE Sweep
  <2>1. CASE SweepStarts \/ SweepLists \/ SweepDeletes
    BY <1>0, <2>1 DEF SweepStarts, SweepLists, SweepDeletes, Trouble
  <2>2. CASE SweepDrops
    <3>1. \E v : managed' = Without(managed, {v})
      BY <2>2 DEF SweepDrops
    <3>2. managed' \in [DOMAIN managed' -> BOOLEAN]
      BY <1>0, <3>1 DEF Without
    <3>. QED
      BY <1>0, <2>2, <3>2 DEF SweepDrops
  <2>. QED
    BY <1>3, <2>1, <2>2 DEF Sweep
<1>4. CASE AdminSteps
  <2>1. CASE AdminDeletes \/ AdminCleans \/ AdminRemoves
    BY <1>0, <2>1 DEF AdminDeletes, AdminCleans, AdminRemoves, Trouble
  <2>2. CASE AdminForgets
    <3>1. \E gone : managed' = Without(managed, gone)
      BY <2>2 DEF AdminForgets
    <3>2. managed' \in [DOMAIN managed' -> BOOLEAN]
      BY <1>0, <3>1 DEF Without
    <3>. QED
      BY <1>0, <2>2, <3>2 DEF AdminForgets, Trouble, sweepVars
  <2>3. CASE AdminLists
    <3>1. PICK spare \in SUBSET (alive \ aged) :
            /\ Cardinality(spare) + kept = KeepN \/ (spare = alive \ aged /\ Cardinality(spare) + kept < KeepN)
            /\ kept' = IF doomed' = {} THEN 0 ELSE kept + Cardinality(spare)
      BY <2>3 DEF AdminLists
    <3>2. Cardinality(spare) \in Nat
      <4>1. spare \subseteq alive
        OBVIOUS
      <4>. QED
        BY <1>0, <4>1, FS_Subset, FS_CardinalityType
    <3>3. kept' \in 0 .. KeepN
      BY <1>0, <3>1, <3>2
    <3>. QED
      BY <1>0, <2>3, <3>3 DEF AdminLists
  <2>. QED
    BY <1>4, <2>1, <2>2, <2>3 DEF AdminSteps
<1>5. CASE \E s \in DOMAIN sessions : DeleteSession(s)
  BY <1>0, <1>5 DEF DeleteSession, Trouble, sweepVars
<1>6. CASE Hours
  BY <1>0, <1>6 DEF Hours, sweepVars
<1>. QED
  BY <1>1, <1>2, <1>3, <1>4, <1>5, <1>6 DEF ConversationNext, ChatStep

LEMMA TypedStays ==
  ASSUME Typed, [ConversationNext]_conversationVars
  PROVE  Typed'
<1>1. CASE ConversationNext
  BY <1>1, AsksStay, CloudsStay, BooksStay, SweepingStays DEF Typed
<1>2. CASE UNCHANGED conversationVars
  <2>1. Asks'
    BY <1>2 DEF Typed, Asks, AskOK, conversationVars, chatVars, cloudVars, Made
  <2>2. Clouds'
    BY <1>2 DEF Typed, Clouds, Made, conversationVars, cloudVars, sweepVars
  <2>3. Books'
    BY <1>2 DEF Typed, Books, Made, conversationVars, cloudVars, indexVars
  <2>4. Sweeping'
    BY <1>2 DEF Typed, Sweeping, conversationVars, sweepVars
  <2>. QED
    BY <2>1, <2>2, <2>3, <2>4 DEF Typed
<1>. QED
  BY <1>1, <1>2

LEMMA TypedStarts ==
  ASSUME ConversationInit
  PROVE  Typed
<1>. USE Count DEF ConversationInit
<1>1. Asks
  BY DEF Asks, AskOK, Turn, Even
<1>2. Made = {}
  BY DEF Made
<1>3. Clouds
  BY <1>2 DEF Clouds, NoEntry
<1>4. Books
  <2>1. DOMAIN sessions = {} /\ DOMAIN byName = {}
    OBVIOUS
  <2>2. Cardinality(DOMAIN sessions) = 0
    BY <2>1, FS_EmptySet
  <2>. QED
    BY <2>1, <2>2 DEF Books, GoodBook, Few, GoodNames
<1>5. Sweeping
  BY DEF Sweeping
<1>. QED
  BY <1>1, <1>3, <1>4, <1>5 DEF Typed

THEOREM TypedCorrect == ConversationSpec => []Typed
<1>1. ConversationInit => Typed
  BY TypedStarts
<1>2. Typed /\ [ConversationNext]_conversationVars => Typed'
  BY TypedStays
<1>. QED
  BY <1>1, <1>2, PTL DEF ConversationSpec

\* The types of the resolver, the cache, the clean-up and the requests; the resolver's
\* limit; and messages[from:] within the request, for any number of chats and keys and
\* any bounds.
THEOREM ConversationTypeCorrect == ConversationSpec => []ConversationTypeOK
<1>1. Typed => ConversationTypeOK
  <2>. SUFFICES ASSUME Typed PROVE ConversationTypeOK
    OBVIOUS
  <2>1. Made \subseteq Conv
    BY MadeIs DEF Typed
  <2>2. /\ said \in [Chat -> 0 .. MaxSaid + 1]
        /\ \A c \in Chat : from[c] \in 0 .. said[c]
    BY Count DEF Typed, Asks, AskOK
  <2>3. DOMAIN sessions \subseteq Conv /\ \A s \in DOMAIN sessions : sessions[s] \in Session
    BY <2>1 DEF Typed, Books, GoodBook
  <2>4. blurred \subseteq Made \X {"guess", "cache", "failure", "twins"} /\ late \subseteq Made
        /\ alive \subseteq Made /\ aged \subseteq Made
    BY DEF Typed, Clouds
  <2>. QED
    BY <2>1, <2>2, <2>3, <2>4
       DEF Typed, Asks, Books, Few, GoodNames, Sweeping, ConversationTypeOK
<1>. QED
  BY <1>1, TypedCorrect, PTL
-----------------------------------------------------------------------------
(* No session leads to what a clean-up has deleted.                        *)

\* Deleted only now, with its sessions about to be dropped; or excused.
There(v) == v \in alive \/ v \in late \/ (sweep \in {"deleted", "asked"} /\ v \in doomed)

\* A request that has its answer will leave a session.
Leaving == {c \in Chat : turn[c] \in {"answered", "bound"}}

\* The clean-up deletes one conversation and drops its sessions before the next.
OneAtATime ==
  /\ sweep = "picking" => doomed \subseteq alive
  /\ sweep \in {"deleted", "asked"} => \A v, w \in doomed \ alive : v = w

Living ==
  /\ \A s \in DOMAIN sessions : There(sessions[s].conv)
  /\ \A c \in Leaving : There(target[c])
  /\ OneAtATime

LEMMA OneStays ==
  ASSUME Typed, OneAtATime, ConversationNext
  PROVE  OneAtATime'
<1>1. ASSUME NEW c \in Chat, ChatStep(c) PROVE OneAtATime'
  <2>1. UNCHANGED sweepVars
    BY <1>1 DEF ChatStep, Resolve, LookUp, Answered, Failed, Bind, Store
  <2>2. alive \subseteq alive'
    <3>1. CASE Answered(c)
      BY <3>1 DEF Answered
    <3>2. CASE ~Answered(c)
      BY <1>1, <3>2 DEF ChatStep, Resolve, LookUp, Failed, Bind, Store, cloudVars
    <3>. QED
      BY <3>1, <3>2
  <2>. QED
    BY <2>1, <2>2 DEF OneAtATime, sweepVars
<1>2. CASE Sweep
  <2>1. CASE SweepStarts
    BY <2>1 DEF SweepStarts, OneAtATime
  <2>2. CASE SweepLists
    BY <2>2 DEF SweepLists, OneAtATime, Expendable, cloudVars
  <2>3. CASE SweepDeletes
    BY <2>3 DEF SweepDeletes, OneAtATime
  <2>4. CASE SweepDrops
    BY <2>4 DEF SweepDrops, OneAtATime, cloudVars
  <2>. QED
    BY <1>2, <2>1, <2>2, <2>3, <2>4 DEF Sweep
<1>3. CASE AdminSteps
  <2>1. CASE AdminForgets
    BY <2>1 DEF AdminForgets, OneAtATime, cloudVars, sweepVars
  <2>2. CASE ~AdminForgets
    BY <1>3, <2>2 DEF AdminSteps, AdminDeletes, AdminCleans, AdminLists, AdminRemoves, OneAtATime
  <2>. QED
    BY <2>1, <2>2
<1>4. CASE Hours \/ \E s \in DOMAIN sessions : DeleteSession(s)
  BY <1>4 DEF Hours, DeleteSession, OneAtATime, cloudVars, sweepVars
<1>. QED
  BY <1>1, <1>2, <1>3, <1>4 DEF ConversationNext

\* Chat steps delete nothing.
LEMMA ChatDeletesNothing ==
  ASSUME NEW c \in Chat, ChatStep(c)
  PROVE  UNCHANGED <<sweepVars, late>> /\ alive \subseteq alive'
<1>1. UNCHANGED <<sweepVars, late>>
  BY DEF ChatStep, Resolve, LookUp, Answered, Failed, Bind, Store
<1>2. CASE Answered(c)
  BY <1>1, <1>2 DEF Answered
<1>3. CASE ~Answered(c)
  BY <1>1, <1>3 DEF ChatStep, Resolve, LookUp, Failed, Bind, Store, cloudVars
<1>. QED
  BY <1>2, <1>3

\* What is there stays there, unless its sessions are dropped.
LEMMA ThereStays ==
  ASSUME OneAtATime, ConversationNext, NEW v, There(v)
  PROVE  \/ There(v)'
         \/ SweepDrops /\ sessions' = Without(sessions, Unbound(v)) /\ ~Held(v)
<1>1. ASSUME NEW c \in Chat, ChatStep(c) PROVE There(v)'
  BY <1>1, ChatDeletesNothing DEF There, sweepVars
<1>2. CASE SweepStarts
  BY <1>2 DEF SweepStarts, There, cloudVars
<1>3. CASE SweepLists
  BY <1>3 DEF SweepLists, There, cloudVars
<1>4. CASE SweepDeletes
  BY <1>4 DEF SweepDeletes, There
<1>5. CASE SweepDrops
  <2>1. PICK w \in doomed \ alive :
          /\ sessions' = Without(sessions, Unbound(w))
          /\ doomed' = doomed \ {w}
          /\ late' = IF Held(w) THEN late \cup {w} ELSE late
    BY <1>5 DEF SweepDrops
  <2>2. UNCHANGED alive /\ sweep \in {"deleted", "asked"}
    BY <1>5 DEF SweepDrops, cloudVars
  <2>3. CASE v \in alive \/ v \in late
    BY <2>1, <2>2, <2>3 DEF There
  <2>4. CASE v \notin alive /\ v \in doomed
    <3>1. v = w
      BY <2>1, <2>2, <2>4 DEF OneAtATime
    <3>. QED
      BY <1>5, <2>1, <3>1 DEF There
  <2>. QED
    BY <2>3, <2>4 DEF There
<1>6. CASE AdminDeletes
  BY <1>6 DEF AdminDeletes, There
<1>7. CASE AdminForgets
  BY <1>7 DEF AdminForgets, There, cloudVars, sweepVars
<1>8. CASE AdminCleans
  BY <1>8 DEF AdminCleans, There, cloudVars
<1>9. CASE AdminLists
  BY <1>9 DEF AdminLists, There, cloudVars
<1>10. CASE AdminRemoves
  BY <1>10 DEF AdminRemoves, There
<1>11. CASE Hours \/ \E s \in DOMAIN sessions : DeleteSession(s)
  BY <1>11 DEF Hours, DeleteSession, There, cloudVars, sweepVars
<1>. QED
  BY <1>1, <1>2, <1>3, <1>4, <1>5, <1>6, <1>7, <1>8, <1>9, <1>10, <1>11
     DEF ConversationNext, Sweep, AdminSteps

LEMMA LivingStays ==
  ASSUME Typed, Living, ConversationNext
  PROVE  Living'
<1>1. OneAtATime'
  BY OneStays DEF Living
<1>2. ASSUME NEW c \in Leaving' PROVE There(target[c])'
  <2>0. c \in Chat /\ turn'[c] \in {"answered", "bound"}
    BY <1>2 DEF Leaving
  <2>1. CASE Answered(c)
    <3>1. target'[c] \in alive'
      <4>1. PICK v \in Conv : Taken(c, v)
        BY <2>0, <2>1, AnsweredDoes
      <4>. QED
        BY <2>0, <4>1 DEF Taken, Typed, Asks
    <3>. QED
      BY <3>1 DEF There
  <2>2. CASE ~Answered(c)
    <3>1. c \in Leaving /\ target'[c] = target[c]
      <4>1. ASSUME NEW d \in Chat, ChatStep(d) PROVE c \in Leaving /\ target'[c] = target[c]
        <5>1. CASE d = c
          <6>1. Bind(c)
            BY <2>0, <2>2, <4>1, <5>1 DEF ChatStep, Resolve, LookUp, Failed, Store, Typed, Asks
          <6>. QED
            BY <2>0, <6>1 DEF Bind, Leaving
        <5>2. CASE d # c
          <6>1. turn'[c] = turn[c]
            BY <2>0, <4>1, <5>2 DEF ChatStep, Resolve, LookUp, Answered, Failed, Bind, Store, Typed, Asks
          <6>2. target'[c] = target[c]
            <7>0. target \in [Chat -> Conv \cup {Unset}]
              BY DEF Typed, Asks
            <7>1. CASE Resolve(d)
              <8>1. LedNowhere(d) => target' = [target EXCEPT ![d] = Unset]
                BY DEF LedNowhere
              <8>2. ASSUME NEW s, Led(d, s) PROVE target' = [target EXCEPT ![d] = sessions[s].conv]
                BY <8>2 DEF Led
              <8>. QED
                BY <2>0, <5>2, <7>0, <7>1, <8>1, <8>2, ResolveDoes
            <7>2. CASE LookUp(d) \/ Failed(d) \/ Bind(d) \/ Store(d)
              BY <2>0, <5>2, <7>2 DEF LookUp, Failed, Bind, Store, Typed, Asks
            <7>3. CASE Answered(d)
              <8>1. PICK v \in Conv : Taken(d, v)
                BY <7>3, AnsweredDoes
              <8>. QED
                BY <2>0, <5>2, <8>1 DEF Taken, Typed, Asks
            <7>. QED
              BY <4>1, <7>1, <7>2, <7>3 DEF ChatStep
          <6>. QED
            BY <2>0, <6>1, <6>2 DEF Leaving
        <5>. QED
          BY <5>1, <5>2
      <4>2. CASE UNCHANGED chatVars
        BY <2>0, <4>2 DEF chatVars, Leaving
      <4>. QED
        BY <4>1, <4>2, ChatsOrQuiet
    <3>2. There(target[c])
      BY <3>1 DEF Living
    <3>3. PICK v : v = target[c]
      OBVIOUS
    <3>4. There(v) /\ Held(v) /\ OneAtATime
      BY <2>0, <3>2, <3>3 DEF Living, Held, There
    <3>5. There(v)'
      BY <3>4, ThereStays
    <3>. QED
      BY <3>1, <3>3, <3>5 DEF There
  <2>. QED
    BY <2>1, <2>2
<1>3. ASSUME NEW s \in DOMAIN sessions' PROVE There(sessions[s].conv)'
  <2>1. CASE ~Binding
    <3>1. s \in DOMAIN sessions /\ sessions'[s].conv = sessions[s].conv
      BY <2>1, KeptOrBound DEF Kept
    <3>2. PICK v : v = sessions[s].conv
      OBVIOUS
    <3>3. There(v)
      BY <3>1, <3>2 DEF Living, There
    <3>4. There(v)'
      <4>1. ASSUME sessions' = Without(sessions, Unbound(v)) PROVE FALSE
        BY <3>1, <3>2, <4>1 DEF Without, Unbound
      <4>. QED
        BY <3>3, <4>1, ThereStays DEF Living
    <3>. QED
      BY <3>1, <3>2, <3>4 DEF There
  <2>2. ASSUME NEW c \in Chat, Bind(c) PROVE There(sessions[s].conv)'
    <3>1. PICK gone \in SUBSET DOMAIN sessions, t \in Made, r \in Session : Bound(c, gone, t, r)
      BY <2>2, BindDoes
    <3>2. /\ s = t => sessions'[s].conv = target[c]
          /\ s # t => s \in DOMAIN sessions /\ sessions'[s] = sessions[s]
      BY <3>1 DEF Bound, Put, Without
    <3>3. c \in Leaving
      BY <2>2 DEF Bind, Leaving
    <3>4. PICK v : v = sessions'[s].conv
      OBVIOUS
    <3>5. There(v)
      BY <3>2, <3>3, <3>4 DEF Living, There
    <3>6. There(v)'
      BY <2>2, <3>5, ChatDeletesNothing DEF There, sweepVars, ChatStep
    <3>. QED
      BY <3>4, <3>6 DEF There
  <2>. QED
    BY <2>1, <2>2 DEF Binding
<1>. QED
  BY <1>1, <1>2, <1>3 DEF Living
-----------------------------------------------------------------------------
(* No match of the resolver lets two keys write to one conversation.       *)

LEMMA KeysFixed ==
  ASSUME ConversationNext
  PROVE  UNCHANGED keyOf
<1>1. CASE UNCHANGED chatVars
  BY <1>1 DEF chatVars
<1>2. ASSUME NEW c \in Chat, ChatStep(c) PROVE UNCHANGED keyOf
  BY <1>2 DEF ChatStep, Resolve, LookUp, Answered, Failed, Bind, Store
<1>. QED
  BY <1>1, <1>2, ChatsOrQuiet

\* All messages are of one chat.
AllOf(a, c) == a \in Seq(Message) /\ \A i \in 1 .. Len(a) : a[i][1] = c

LEMMA OwnMessages ==
  ASSUME Asks, NEW c \in Chat, said[c] < MaxSaid
  PROVE  AllOf(Sent(c), c) /\ AllOf(Append(Sent(c), Answer(c)), c)
<1>1. Asked(c) \in Seq(Message) /\ Answer(c) \in Message /\ Len(Asked(c)) = said[c] + 1
  BY ToldTyped
<1>2. from[c] \in Nat /\ said[c] \in Nat
  BY DEF Asks
<1>3. \A i \in 1 .. said[c] + 1 : Asked(c)[i][1] = c
  BY DEF Asked
<1>4. Sent(c) \in Seq(Message) /\ Append(Sent(c), Answer(c)) \in Seq(Message)
  BY SentTyped
<1>5. ASSUME NEW i \in 1 .. Len(Sent(c)) PROVE Sent(c)[i][1] = c
  <2>. DEFINE A == Asked(c)
              f == from[c]
              m == said[c] + 1
  <2>1. A \in Seq(Message) /\ Len(A) = m /\ f \in Nat /\ m \in Nat /\ Sent(c) = SubSeq(A, f + 1, m)
    BY <1>1, <1>2 DEF Sent
  <2>2. \A j \in 1 .. m : A[j][1] = c
    BY <1>3
  <2>. HIDE DEF A, f, m
  <2>3. i + f \in 1 .. m /\ Sent(c)[i] = A[i + f]
    BY <2>1
  <2>. QED
    BY <2>2, <2>3
<1>6. Answer(c)[1] = c
  BY DEF Answer
<1>. DEFINE a == Sent(c)
            b == Append(a, Answer(c))
<1>7. /\ Len(b) = Len(a) + 1 /\ Len(a) \in Nat
      /\ \A i \in 1 .. Len(a) : b[i] = a[i]
      /\ b[Len(a) + 1] = Answer(c)
  BY <1>1, <1>4, AppendProperties
<1>. HIDE DEF a, b
<1>8. ASSUME NEW i \in 1 .. Len(b) PROVE b[i][1] = c
  <2>1. CASE i = Len(a) + 1
    BY <1>6, <1>7, <2>1
  <2>2. CASE i # Len(a) + 1
    <3>1. i \in 1 .. Len(a)
      BY <1>7, <2>2
    <3>. QED
      BY <1>5, <1>7, <3>1 DEF a
  <2>. QED
    BY <2>1, <2>2
<1>. QED
  BY <1>4, <1>5, <1>8 DEF AllOf, a, b

\* What a step adds to a conversation is of the chat that continues it.
LEMMA CloudSteps ==
  ASSUME Typed, ConversationNext, NEW w \in Made'
  PROVE  \/ w \in Made /\ cloud'[w] = cloud[w]
         \/ \E c \in Chat, a \in Seq(Message) :
              /\ AllOf(a, c) /\ turn[c] \in {"looked", "reused"}
              /\ \/ w \in Made /\ target[c] = w /\ cloud'[w] = cloud[w] \o a
                 \/ w \notin Made /\ cloud'[w] = a /\ target' = [target EXCEPT ![c] = w]
                      /\ target[c] = Unset
<1>1. CASE UNCHANGED cloud
  BY <1>1 DEF Made
<1>2. ASSUME NEW c \in Chat, Answered(c)
      PROVE  \/ w \in Made /\ cloud'[w] = cloud[w]
             \/ \E a \in Seq(Message) :
                  /\ AllOf(a, c) /\ turn[c] \in {"looked", "reused"}
                  /\ \/ w \in Made /\ target[c] = w /\ cloud'[w] = cloud[w] \o a
                     \/ w \notin Made /\ cloud'[w] = a /\ target' = [target EXCEPT ![c] = w]
                          /\ target[c] = Unset
  <2>1. said[c] < MaxSaid /\ turn[c] \in {"looked", "reused"}
    BY <1>2 DEF Answered, Typed, Asks, AskOK
  <2>2. PICK v \in Conv : Taken(c, v)
    BY <1>2, AnsweredDoes
  <2>3. AllOf(Append(Sent(c), Answer(c)), c)
    BY <2>1, OwnMessages DEF Typed
  <2>4. Append(Sent(c), Answer(c)) \in Seq(Message)
    BY <2>3 DEF AllOf
  <2>5. CASE w # v
    BY <2>2, <2>5 DEF Taken
  <2>6. CASE w = v
    BY <2>1, <2>2, <2>3, <2>4, <2>6 DEF Taken
  <2>. QED
    BY <2>5, <2>6
<1>3. ASSUME NEW c \in Chat, Failed(c)
      PROVE  \/ w \in Made /\ cloud'[w] = cloud[w]
             \/ \E a \in Seq(Message) :
                  /\ AllOf(a, c) /\ turn[c] \in {"looked", "reused"}
                  /\ w \in Made /\ target[c] = w /\ cloud'[w] = cloud[w] \o a
  <2>1. said[c] < MaxSaid /\ turn[c] \in {"looked", "reused"}
    BY <1>3 DEF Failed, Typed, Asks, AskOK
  <2>2. AllOf(Sent(c), c) /\ Sent(c) \in Seq(Message)
    BY <2>1, OwnMessages DEF Typed, AllOf
  <2>3. /\ Made' = Made /\ (w # target[c] => cloud'[w] = cloud[w])
        /\ \/ UNCHANGED cloud
           \/ cloud'[target[c]] = cloud[target[c]] \o Sent(c)
    BY <1>3, FailedDoes
  <2>. QED
    BY <2>1, <2>2, <2>3
<1>. QED
  BY <1>1, <1>2, <1>3, CloudOrSame

\* All messages of a conversation are of the key.
Ours(v, k) == \A i \in DOMAIN cloud[v] : keyOf[cloud[v][i][1]] = k

Apart(v, k) == <<v, "cache">> \in blurred \/ Ours(v, k)

KeysApart ==
  /\ \A s \in DOMAIN sessions : Apart(sessions[s].conv, sessions[s].key)
  /\ \A c \in Chat : target[c] # Unset => Apart(target[c], keyOf[c])
  /\ ResolverKeepsKeysApart

LEMMA OursGrows ==
  ASSUME NEW c \in Chat, NEW x \in Seq(Message), NEW a \in Seq(Message), AllOf(a, c),
         \A i \in 1 .. Len(x) : keyOf[x[i][1]] = keyOf[c]
  PROVE  \A i \in 1 .. Len(x \o a) : keyOf[(x \o a)[i][1]] = keyOf[c]
<1>. DEFINE y == x \o a
<1>1. /\ Len(y) = Len(x) + Len(a)
      /\ \A i \in 1 .. Len(x) + Len(a) : y[i] = IF i <= Len(x) THEN x[i] ELSE a[i - Len(x)]
  BY ConcatProperties, Zenon
<1>. HIDE DEF y
<1>2. Len(x) \in Nat /\ Len(a) \in Nat
  OBVIOUS
<1>3. ASSUME NEW i \in 1 .. Len(y) PROVE keyOf[y[i][1]] = keyOf[c]
  <2>1. CASE i <= Len(x)
    BY <1>1, <1>2, <2>1
  <2>2. CASE ~(i <= Len(x))
    <3>1. i - Len(x) \in 1 .. Len(a) /\ y[i] = a[i - Len(x)]
      BY <1>1, <1>2, <2>2
    <3>. QED
      BY <3>1 DEF AllOf
  <2>. QED
    BY <2>1, <2>2
<1>. QED
  BY <1>3 DEF y

LEMMA ApartStays ==
  ASSUME Typed, KeysApart, ConversationNext, NEW v \in Made, NEW k, Apart(v, k)
  PROVE  Apart(v, k)'
<1>1. UNCHANGED keyOf /\ blurred \subseteq blurred' /\ v \in Made'
  BY KeysFixed, BlurredGrows, MadeGrows DEF Grows
<1>2. CASE <<v, "cache">> \in blurred
  BY <1>1, <1>2 DEF Apart
<1>3. CASE cloud'[v] = cloud[v]
  BY <1>1, <1>3 DEF Apart, Ours
<1>4. ASSUME NEW c \in Chat, NEW a \in Seq(Message), AllOf(a, c), target[c] = v,
             cloud'[v] = cloud[v] \o a, <<v, "cache">> \notin blurred
      PROVE  Apart(v, k)'
  <2>1. cloud[v] \in Seq(Message) /\ cloud[v] # <<>> /\ v # Unset
    BY MadeIs DEF Typed, Clouds
  <2>2. Ours(v, k) /\ Ours(v, keyOf[c])
    BY <1>4, <2>1 DEF Apart, KeysApart
  <2>3. 1 \in DOMAIN cloud[v]
    BY <2>1
  <2>4. k = keyOf[c]
    BY <2>2, <2>3 DEF Ours
  <2>5. \A i \in DOMAIN cloud'[v] : keyOf[cloud'[v][i][1]] = keyOf[c]
    <3>1. PICK x : x = cloud[v]
      OBVIOUS
    <3>2. x \in Seq(Message) /\ \A i \in 1 .. Len(x) : keyOf[x[i][1]] = keyOf[c]
      BY <2>1, <2>2, <3>1 DEF Ours
    <3>3. \A i \in 1 .. Len(x \o a) : keyOf[(x \o a)[i][1]] = keyOf[c]
      <4>1. AllOf(a, c)
        BY <1>4
      <4>. QED
        BY <3>2, <4>1, OursGrows, Zenon
    <3>4. x \o a \in Seq(Message) /\ cloud'[v] = x \o a
      BY <1>4, <3>1, <3>2
    <3>5. DOMAIN (x \o a) = 1 .. Len(x \o a)
      BY <3>4
    <3>. QED
      BY <3>3, <3>4, <3>5
  <2>. QED
    BY <1>1, <2>4, <2>5 DEF Apart, Ours
<1>. QED
  BY <1>1, <1>2, <1>3, <1>4, CloudSteps

LEMMA KeysApartStays ==
  ASSUME Typed, KeysApart, ConversationNext
  PROVE  KeysApart'
<1>0. UNCHANGED keyOf /\ blurred \subseteq blurred' /\ Grows
  BY KeysFixed, BlurredGrows, MadeGrows
<1>1. ASSUME NEW v \in Made' PROVE <<v, "cache">> \in blurred' \/ OneKey(v)'
  <2>1. CASE v \in Made /\ cloud'[v] = cloud[v]
    BY <1>0, <2>1 DEF KeysApart, ResolverKeepsKeysApart, OneKey
  <2>2. ASSUME NEW c \in Chat, NEW a \in Seq(Message), AllOf(a, c),
               v \in Made, target[c] = v
        PROVE  <<v, "cache">> \in blurred' \/ OneKey(v)'
    <3>1. Apart(v, keyOf[c])
      BY <2>2, MadeIs DEF KeysApart, Typed, Apart, Ours
    <3>2. PICK k : k = keyOf[c]
      OBVIOUS
    <3>3. Apart(v, k)'
      BY <2>2, <3>1, <3>2, ApartStays
    <3>. QED
      BY <3>3 DEF Apart, Ours, OneKey
  <2>3. ASSUME NEW c \in Chat, NEW a \in Seq(Message), AllOf(a, c), cloud'[v] = a
        PROVE  OneKey(v)'
    <3>1. DOMAIN a = 1 .. Len(a)
      OBVIOUS
    <3>. QED
      BY <1>0, <2>3, <3>1 DEF OneKey, AllOf
  <2>. QED
    BY <2>1, <2>2, <2>3, CloudSteps
<1>2. ASSUME NEW s \in DOMAIN sessions' PROVE Apart(sessions[s].conv, sessions[s].key)'
  <2>1. CASE ~Binding
    <3>1. s \in DOMAIN sessions /\ sessions'[s].conv = sessions[s].conv /\ sessions'[s].key = sessions[s].key
      BY <2>1, KeptOrBound DEF Kept
    <3>2. PICK v, k : v = sessions[s].conv /\ k = sessions[s].key
      OBVIOUS
    <3>3. v \in Made /\ Apart(v, k)
      BY <3>1, <3>2 DEF Typed, Books, GoodBook, KeysApart, Apart, Ours
    <3>4. Apart(v, k)'
      BY <3>3, ApartStays
    <3>. QED
      BY <3>1, <3>2, <3>4 DEF Apart, Ours
  <2>2. ASSUME NEW c \in Chat, Bind(c) PROVE Apart(sessions[s].conv, sessions[s].key)'
    <3>1. PICK gone \in SUBSET DOMAIN sessions, t \in Made, r \in Session : Bound(c, gone, t, r)
      BY <2>2, BindDoes
    <3>2. /\ s = t => sessions'[s].conv = target[c] /\ sessions'[s].key = keyOf[c]
          /\ s # t => s \in DOMAIN sessions /\ sessions'[s] = sessions[s]
      BY <3>1 DEF Bound, Put, Without
    <3>3. target[c] \in Made /\ target[c] # Unset
      BY <2>2 DEF Bind, Typed, Asks, AskOK
    <3>4. PICK v, k : v = sessions'[s].conv /\ k = sessions'[s].key
      OBVIOUS
    <3>5. v \in Made /\ Apart(v, k)
      BY <3>2, <3>3, <3>4 DEF Typed, Books, GoodBook, KeysApart, Apart, Ours
    <3>6. Apart(v, k)'
      BY <3>5, ApartStays
    <3>. QED
      BY <3>4, <3>6 DEF Apart, Ours
  <2>. QED
    BY <2>1, <2>2 DEF Binding
<1>3. ASSUME NEW d \in Chat, target'[d] # Unset PROVE Apart(target[d], keyOf[d])'
  <2>1. ASSUME NEW v \in Made, target'[d] = v, Apart(v, keyOf[d])
        PROVE  Apart(target[d], keyOf[d])'
    <3>1. PICK k : k = keyOf[d]
      OBVIOUS
    <3>2. Apart(v, k)
      BY <2>1, <3>1 DEF Apart, Ours
    <3>3. Apart(v, k)'
      BY <3>2, ApartStays
    <3>. QED
      BY <1>0, <2>1, <3>1, <3>3 DEF Apart, Ours
  <2>2. CASE target'[d] = target[d]
    <3>1. PICK v : v = target[d]
      OBVIOUS
    <3>2. v \in Made /\ Apart(v, keyOf[d])
      BY <1>3, <2>2, <3>1 DEF KeysApart, Typed, Asks, AskOK, Apart, Ours
    <3>. QED
      BY <2>1, <2>2, <3>1, <3>2
  <2>3. ASSUME NEW c \in Chat, ChatStep(c), target'[d] # target[d]
        PROVE  Apart(target[d], keyOf[d])'
    <3>. USE DEF Typed
    <3>1. CASE Resolve(c)
      <4>1. PICK s \in DOMAIN sessions : Led(c, s)
        <5>1. ~LedNowhere(c)
          BY <1>3, <2>3 DEF LedNowhere, Asks
        <5>. QED
          BY <3>1, <5>1, ResolveDoes
      <4>2. d = c /\ target'[d] = sessions[s].conv /\ sessions[s].key = keyOf[d]
        BY <2>3, <4>1 DEF Led, Asks
      <4>3. PICK v : v = sessions[s].conv
        OBVIOUS
      <4>4. v \in Made /\ Apart(v, keyOf[d])
        BY <4>2, <4>3 DEF KeysApart, Books, GoodBook, Apart, Ours
      <4>. QED
        BY <2>1, <4>2, <4>3, <4>4
    <3>2. CASE LookUp(c)
      BY <2>3, <3>2 DEF LookUp, Asks, Apart
    <3>3. CASE Answered(c)
      <4>1. PICK v \in Conv : Taken(c, v)
        BY <3>3, AnsweredDoes
      <4>2. d = c /\ target'[d] = v /\ v \in Made' /\ cloud'[v] = Append(Sent(c), Answer(c))
        BY <2>3, <4>1 DEF Taken, Asks
      <4>3. AllOf(cloud'[v], c)
        <5>1. said[c] < MaxSaid
          BY <3>3 DEF Answered, Asks, AskOK
        <5>. QED
          BY <4>2, <5>1, OwnMessages
      <4>. DEFINE a == cloud'[v]
      <4>4. DOMAIN a = 1 .. Len(a)
        BY <4>3 DEF AllOf
      <4>5. \A i \in DOMAIN cloud'[v] : keyOf'[cloud'[v][i][1]] = keyOf'[d]
        BY <1>0, <4>2, <4>3, <4>4 DEF AllOf
      <4>. QED
        BY <4>2, <4>5 DEF Apart, Ours
    <3>4. CASE Failed(c) \/ Bind(c) \/ Store(c)
      BY <1>3, <2>3, <3>4 DEF Failed, Bind, Store, Asks
    <3>. QED
      BY <2>3, <3>1, <3>2, <3>3, <3>4 DEF ChatStep
  <2>4. CASE UNCHANGED chatVars
    BY <2>2, <2>4 DEF chatVars
  <2>. QED
    BY <2>2, <2>3, <2>4, ChatsOrQuiet
<1>. QED
  BY <1>1, <1>2, <1>3 DEF KeysApart, ResolverKeepsKeysApart

ResolverInv == Typed /\ Living /\ KeysApart

LEMMA ResolverStarts == ConversationInit => ResolverInv
<1>. SUFFICES ASSUME ConversationInit PROVE ResolverInv
  OBVIOUS
<1>1. Typed
  BY TypedStarts
<1>2. Living
  BY DEF ConversationInit, Living, Leaving, OneAtATime
<1>3. KeysApart
  BY DEF ConversationInit, KeysApart, ResolverKeepsKeysApart, Made
<1>. QED
  BY <1>1, <1>2, <1>3 DEF ResolverInv

LEMMA ResolverStays ==
  ASSUME ResolverInv, [ConversationNext]_conversationVars
  PROVE  ResolverInv'
<1>. USE DEF ResolverInv
<1>1. CASE ConversationNext
  BY <1>1, TypedStays, LivingStays, KeysApartStays
<1>2. CASE UNCHANGED conversationVars
  <2>1. Typed'
    BY <1>2, TypedStays
  <2>2. Living'
    BY <1>2 DEF Living, There, Leaving, OneAtATime, conversationVars, chatVars, cloudVars, indexVars,
                sweepVars
  <2>3. KeysApart'
    BY <1>2 DEF KeysApart, Apart, Ours, ResolverKeepsKeysApart, OneKey, Made, conversationVars,
                chatVars, cloudVars, indexVars
  <2>. QED
    BY <2>1, <2>2, <2>3
<1>. QED
  BY <1>1, <1>2

\* The resolver leads no request to a conversation that a clean-up has deleted, nor to
\* one of another key, for any number of chats, keys, names, sessions and clean-ups.
THEOREM ResolverCorrect == ConversationSpec => [](NoGhostSession /\ ResolverKeepsKeysApart)
<1>1. ResolverInv => NoGhostSession /\ ResolverKeepsKeysApart
  BY DEF ResolverInv, Living, There, KeysApart, NoGhostSession
<1>. QED
  BY <1>1, ResolverStarts, ResolverStays, PTL DEF ConversationSpec
-----------------------------------------------------------------------------
(* The increment is exact.                                                 *)

\* A session tells of one chat, of its key, up to an answer.
Histories ==
  \A s \in DOMAIN sessions :
    \E d \in Chat, n \in Nat :
      n >= 2 /\ Even(n) /\ sessions[s].history = Told(d, n) /\ sessions[s].key = keyOf[d]

\* The chat that s tells of has an answer which s will be told of.
Behind(s) ==
  \E c \in Chat, n \in Nat :
    /\ turn[c] = "answered" /\ target[c] = sessions[s].conv
    /\ sessions[s].key = keyOf[c] /\ n >= 2 /\ sessions[s].history = Told(c, n)

\* A session tells what its conversation holds.
Matches ==
  \A s \in DOMAIN sessions :
    ~Blurry(sessions[s].conv) => cloud[sessions[s].conv] = sessions[s].history \/ Behind(s)

\* What a request skips is what the conversation holds, and then it holds all.
ExactFor(c) ==
  /\ turn[c] = "idle" => target[c] = Unset
  /\ turn[c] \in {"resolved", "looked", "reused"} /\ target[c] # Unset /\ ~Blurry(target[c])
        => from[c] >= 2 /\ cloud[target[c]] = Told(c, from[c])
  /\ turn[c] \in {"answered", "bound"} /\ ~Blurry(target[c])
        => cloud[target[c]] = Told(c, said[c] + 2)

Exact == \A c \in Chat : ExactFor(c)

ExactInv == Histories /\ Matches /\ Exact

\* A conversation that is not blurred is continued by one chat.
LEMMA OnlyOne ==
  ASSUME Typed, Exact, NEW c \in Chat, NEW d \in Chat, target[c] = target[d], target[c] # Unset,
         ~Blurry(target[c])
  PROVE  c = d
<1>1. \A e \in Chat : target[e] # Unset /\ ~Blurry(target[e])
                        => \E n \in Nat : n >= 2 /\ cloud[target[e]] = Told(e, n)
  <2>1. ASSUME NEW e \in Chat, target[e] # Unset, ~Blurry(target[e])
        PROVE  \E n \in Nat : n >= 2 /\ cloud[target[e]] = Told(e, n)
    <3>1. from[e] \in Nat /\ said[e] \in Nat /\ turn[e] \in Turn
      BY DEF Typed, Asks
    <3>2. ExactFor(e)
      BY DEF Exact
    <3>3. turn[e] \in {"resolved", "looked", "reused"} \/ turn[e] \in {"answered", "bound"}
      BY <2>1, <3>1, <3>2 DEF ExactFor, Turn
    <3>4. CASE turn[e] \in {"resolved", "looked", "reused"}
      BY <2>1, <3>1, <3>2, <3>4 DEF ExactFor
    <3>5. CASE turn[e] \in {"answered", "bound"}
      <4>1. said[e] + 2 \in Nat /\ said[e] + 2 >= 2
        BY <3>1
      <4>. QED
        BY <2>1, <3>2, <3>5, <4>1 DEF ExactFor
    <3>. QED
      BY <3>3, <3>4, <3>5
  <2>. QED
    BY <2>1
<1>2. PICK n \in Nat : n >= 2 /\ cloud[target[c]] = Told(c, n)
  BY <1>1
<1>3. PICK m \in Nat : m >= 2 /\ cloud[target[d]] = Told(d, m)
  BY <1>1
<1>4. Told(c, n) = Told(d, m) /\ n >= 1
  BY <1>2, <1>3
<1>. QED
  BY <1>4, ToldOnce

\* Other chats do not touch a request.
LEMMA ChatFrame ==
  ASSUME Typed, ConversationNext, NEW d \in Chat
  PROVE  \/ ChatStep(d)
         \/ /\ target'[d] = target[d] /\ turn'[d] = turn[d]
            /\ from'[d] = from[d] /\ said'[d] = said[d]
<1>1. CASE UNCHANGED chatVars
  BY <1>1 DEF chatVars
<1>2. ASSUME NEW c \in Chat, ChatStep(c), c # d
      PROVE  /\ target'[d] = target[d] /\ turn'[d] = turn[d]
             /\ from'[d] = from[d] /\ said'[d] = said[d]
  <2>0. /\ target \in [Chat -> Conv \cup {Unset}] /\ turn \in [Chat -> Turn]
        /\ from \in [Chat -> Nat] /\ said \in [Chat -> Nat]
    BY DEF Typed, Asks
  <2>1. turn'[d] = turn[d] /\ said'[d] = said[d]
    BY <1>2, <2>0 DEF ChatStep, Resolve, LookUp, Answered, Failed, Bind, Store
  <2>2. CASE Resolve(c)
    <3>1. LedNowhere(c) => target'[d] = target[d] /\ from'[d] = from[d]
      BY <1>2, <2>0 DEF LedNowhere
    <3>2. ASSUME NEW s, Led(c, s) PROVE target'[d] = target[d] /\ from'[d] = from[d]
      <4>1. target' = [target EXCEPT ![c] = sessions[s].conv]
        BY <3>2 DEF Led
      <4>2. PICK n : from' = [from EXCEPT ![c] = IF n < said[c] + 1 THEN n ELSE 0]
        BY <3>2 DEF Led
      <4>. QED
        BY <1>2, <2>0, <4>1, <4>2
    <3>. QED
      BY <2>1, <2>2, <3>1, <3>2, ResolveDoes
  <2>3. CASE LookUp(c) \/ Failed(c) \/ Bind(c) \/ Store(c)
    BY <1>2, <2>0, <2>1, <2>3 DEF LookUp, Failed, Bind, Store
  <2>4. CASE Answered(c)
    <3>1. PICK v \in Conv : Taken(c, v)
      BY <2>4, AnsweredDoes
    <3>2. target'[d] = target[d]
      BY <1>2, <2>0, <3>1 DEF Taken
    <3>. QED
      BY <2>1, <2>4, <3>2 DEF Answered
  <2>. QED
    BY <1>2, <2>2, <2>3, <2>4 DEF ChatStep
<1>. QED
  BY <1>1, <1>2, ChatsOrQuiet

LEMMA HistoriesStay ==
  ASSUME Typed, Histories, ConversationNext
  PROVE  Histories'
<1>0. UNCHANGED keyOf
  BY KeysFixed
<1>1. CASE ~Binding
  <2>1. Kept
    BY <1>1, KeptOrBound
  <2>. QED
    BY <1>0, <2>1 DEF Kept, Histories
<1>2. ASSUME NEW c \in Chat, Bind(c) PROVE Histories'
  <2>1. PICK gone \in SUBSET DOMAIN sessions, t \in Made, r \in Session : Bound(c, gone, t, r)
    BY <1>2, BindDoes
  <2>2. \A s \in DOMAIN sessions' :
          /\ s = t => sessions'[s] = r
          /\ s # t => s \in DOMAIN sessions /\ sessions'[s] = sessions[s]
    BY <2>1 DEF Bound, Put, Without
  <2>3. r.key = keyOf[c] /\ r.history = Told(c, said[c] + 2)
    BY <2>1, ToldEnds DEF Bound, Typed, Asks
  <2>4. said[c] + 2 \in Nat /\ said[c] + 2 >= 2 /\ Even(said[c] + 2)
    BY DEF Typed, Asks, AskOK, Even
  <2>. QED
    BY <1>0, <2>2, <2>3, <2>4 DEF Histories
<1>. QED
  BY <1>1, <1>2 DEF Binding

LEMMA BlurryStays ==
  ASSUME Typed, ConversationNext, NEW v, Blurry(v)
  PROVE  Blurry(v)'
  BY BlurredGrows DEF Blurry

\* A conversation that is not blurred only takes the answer of a chat that had it exactly.
LEMMA ExactCloud ==
  ASSUME Typed, Exact, ConversationNext, NEW v \in Made, ~Blurry(v)'
  PROVE  \/ cloud'[v] = cloud[v]
         \/ \E c \in Chat : /\ Answered(c) /\ target[c] = v /\ from[c] >= 2
                            /\ cloud[v] = Told(c, from[c]) /\ cloud'[v] = Told(c, said[c] + 2)
                            /\ UNCHANGED target
<1>1. CASE UNCHANGED cloud
  BY <1>1
<1>2. ASSUME NEW c \in Chat, Failed(c) PROVE cloud'[v] = cloud[v]
  <2>1. \A b \in blurred' : b[1] # v
    BY DEF Blurry
  <2>2. CASE v # target[c]
    BY <1>2, <2>2, FailedDoes
  <2>3. CASE v = target[c]
    <3>1. <<v, "failure">>[1] = v
      OBVIOUS
    <3>2. <<v, "failure">> \notin blurred'
      BY <2>1, <3>1
    <3>3. UNCHANGED cloud
      BY <1>2, <2>3, <3>2, FailedDoes
    <3>. QED
      BY <3>3
  <2>. QED
    BY <2>2, <2>3
<1>3. ASSUME NEW c \in Chat, Answered(c)
      PROVE  \/ cloud'[v] = cloud[v]
             \/ /\ target[c] = v /\ from[c] >= 2
                /\ cloud[v] = Told(c, from[c]) /\ cloud'[v] = Told(c, said[c] + 2)
                /\ UNCHANGED target
  <2>1. PICK w \in Conv : Taken(c, w)
    BY <1>3, AnsweredDoes
  <2>2. CASE v # w
    BY <2>1, <2>2 DEF Taken
  <2>3. CASE v = w
    <3>1. target[c] = v /\ cloud'[v] = cloud[v] \o Append(Sent(c), Answer(c)) /\ UNCHANGED target
      BY <2>1, <2>3 DEF Taken
    <3>2. ~Blurry(v) /\ v # Unset
      BY BlurryStays, MadeIs DEF Typed
    <3>3. from[c] >= 2 /\ cloud[v] = Told(c, from[c])
      BY <1>3, <3>1, <3>2 DEF Exact, ExactFor, Answered
    <3>. DEFINE n == from[c]
                m == said[c] + 1
    <3>4. n \in Nat /\ m \in Nat /\ n <= m
      BY DEF Typed, Asks, AskOK
    <3>5. /\ Asked(c) = Told(c, said[c] + 1) /\ Answer(c) = <<c, said[c] + 2>>
          /\ said[c] \in Nat
      BY ToldEnds DEF Typed, Asks, Answer
    <3>6. m + 1 = said[c] + 2
      BY <3>5
    <3>7. Append(Sent(c), Answer(c)) = Append(SubSeq(Told(c, m), n + 1, m), <<c, m + 1>>)
      BY <3>5, <3>6 DEF Sent
    <3>. HIDE DEF n, m
    <3>8. Told(c, n) \o Append(SubSeq(Told(c, m), n + 1, m), <<c, m + 1>>) = Told(c, m + 1)
      BY <3>4, ToldGoesOn
    <3>9. cloud'[v] = Told(c, said[c] + 2)
      BY <3>1, <3>3, <3>6, <3>7, <3>8 DEF n
    <3>. QED
      BY <3>1, <3>3, <3>9
  <2>. QED
    BY <2>2, <2>3
<1>. QED
  BY <1>1, <1>2, <1>3, CloudOrSame

LEMMA MatchesStay ==
  ASSUME Typed, ExactInv, ConversationNext
  PROVE  Matches'
<1>. USE DEF ExactInv
<1>0. UNCHANGED keyOf
  BY KeysFixed
<1>1. ASSUME NEW s \in DOMAIN sessions, NEW v \in Made, v = sessions[s].conv,
             sessions'[s].conv = v, sessions'[s].key = sessions[s].key,
             sessions'[s].history = sessions[s].history, ~Blurry(v)',
             \A c \in Chat : Bind(c) => target[c] # v \/ keyOf[c] # sessions[s].key
      PROVE  cloud'[v] = sessions'[s].history \/ Behind(s)'
  <2>1. ~Blurry(v)
    BY <1>1, BlurryStays
  <2>2. CASE Behind(s)
    <3>1. PICK c \in Chat, n \in Nat :
            /\ turn[c] = "answered" /\ target[c] = v
            /\ sessions[s].key = keyOf[c] /\ n >= 2 /\ sessions[s].history = Told(c, n)
      BY <1>1, <2>2 DEF Behind
    <3>2. turn'[c] = "answered" /\ target'[c] = v
      <4>1. ~ChatStep(c)
        BY <1>1, <3>1 DEF ChatStep, Resolve, LookUp, Answered, Failed, Store
      <4>. QED
        BY <3>1, <4>1, ChatFrame
    <3>3. Behind(s)'
      BY <1>0, <1>1, <3>1, <3>2 DEF Behind
    <3>. QED
      BY <3>3
  <2>3. CASE cloud[v] = sessions[s].history
    <3>1. CASE cloud'[v] = cloud[v]
      BY <1>1, <2>3, <3>1
    <3>2. ASSUME NEW c \in Chat, Answered(c), target[c] = v, from[c] >= 2,
                 cloud[v] = Told(c, from[c]), UNCHANGED target
          PROVE  Behind(s)'
      <4>1. PICK d \in Chat, n \in Nat :
              n >= 2 /\ sessions[s].history = Told(d, n) /\ sessions[s].key = keyOf[d]
        BY DEF Histories
      <4>2. from[c] \in Nat /\ turn \in [Chat -> Turn]
        BY DEF Typed, Asks
      <4>3. Told(d, n) = Told(c, from[c]) /\ n >= 1
        <5>1. Told(d, n) = Told(c, from[c])
          BY <2>3, <3>2, <4>1, Zenon
        <5>2. n >= 1
          BY <4>1
        <5>. QED
          BY <5>1, <5>2
      <4>4. d = c
        BY <4>2, <4>3, ToldOnce
      <4>5. turn'[c] = "answered"
        BY <3>2, <4>2 DEF Answered
      <4>. QED
        BY <1>0, <1>1, <3>2, <4>1, <4>4, <4>5 DEF Behind
    <3>. QED
      BY <1>1, <3>1, <3>2, ExactCloud
  <2>. QED
    BY <1>1, <2>1, <2>2, <2>3 DEF Matches
<1>2. ASSUME NEW s \in DOMAIN sessions', ~Blurry(sessions[s].conv)'
      PROVE  cloud'[sessions'[s].conv] = sessions'[s].history \/ Behind(s)'
  <2>0. PICK v : v = sessions'[s].conv
    OBVIOUS
  <2>1. ~Blurry(v)'
    BY <1>2, <2>0 DEF Blurry
  <2>2. CASE ~Binding
    <3>1. /\ s \in DOMAIN sessions
          /\ sessions'[s].conv = sessions[s].conv /\ sessions'[s].key = sessions[s].key
          /\ sessions'[s].history = sessions[s].history
      BY <2>2, KeptOrBound DEF Kept
    <3>2. v \in Made
      BY <2>0, <3>1 DEF Typed, Books, GoodBook
    <3>. QED
      BY <1>1, <2>0, <2>1, <2>2, <3>1, <3>2 DEF Binding
  <2>3. ASSUME NEW c \in Chat, Bind(c)
        PROVE  cloud'[v] = sessions'[s].history \/ Behind(s)'
    <3>1. PICK gone \in SUBSET DOMAIN sessions, t \in Made, r \in Session : Bound(c, gone, t, r)
      BY <2>3, BindDoes
    <3>2. /\ s = t => sessions'[s] = r
          /\ s # t => s \in DOMAIN Without(sessions, gone) /\ s \in DOMAIN sessions
                        /\ sessions'[s] = sessions[s] /\ Without(sessions, gone)[s] = sessions[s]
      BY <3>1 DEF Bound, Put, Without
    <3>3. UNCHANGED cloud /\ turn[c] = "answered"
      BY <2>3 DEF Bind, cloudVars
    <3>4. CASE s = t
      <4>1. v = target[c] /\ sessions'[s].history = Told(c, said[c] + 2)
        BY <2>0, <3>1, <3>2, <3>4, ToldEnds DEF Bound, Typed, Asks
      <4>2. ~Blurry(v)
        BY <2>1, BlurryStays
      <4>3. cloud[v] = Told(c, said[c] + 2)
        BY <3>3, <4>1, <4>2 DEF Exact, ExactFor
      <4>. QED
        BY <3>3, <4>1, <4>3
    <3>5. CASE s # t
      <4>1. ASSUME target[c] = v, keyOf[c] = sessions[s].key PROVE FALSE
        <5>1. Twins(Without(sessions, gone), t, c)
          BY <2>0, <3>2, <3>5, <4>1 DEF Twins
        <5>2. <<v, "twins">> \in blurred'
          BY <3>1, <4>1, <5>1 DEF Bound
        <5>. QED
          BY <2>1, <5>2 DEF Blurry
      <4>2. \A d \in Chat : Bind(d) => d = c
        BY <2>3 DEF Bind, Typed, Asks
      <4>3. v \in Made
        BY <2>0, <3>2, <3>5 DEF Typed, Books, GoodBook
      <4>. QED
        BY <1>1, <2>0, <2>1, <3>2, <3>5, <4>1, <4>2, <4>3
    <3>. QED
      BY <3>4, <3>5
  <2>. QED
    BY <2>0, <2>2, <2>3 DEF Binding
<1>. QED
  BY <1>2 DEF Matches

\* A history that begins the request, and is not blurred, is all the conversation holds.
LEMMA OpeningExact ==
  ASSUME Typed, ExactInv, NEW c \in Chat, turn[c] = "idle", NEW s \in OpeningsOf(sessions, c),
         ~Blurry(sessions[s].conv)
  PROVE  \E n \in Nat : /\ n >= 2 /\ n <= said[c] /\ Len(sessions[s].history) = n
                        /\ cloud[sessions[s].conv] = Told(c, n)
<1>1. s \in DOMAIN sessions /\ IsPrefixOf(sessions[s].history, Asked(c))
  BY DEF OpeningsOf
<1>2. PICK d \in Chat, n \in Nat :
        n >= 2 /\ Even(n) /\ sessions[s].history = Told(d, n) /\ sessions[s].key = keyOf[d]
  BY <1>1 DEF ExactInv, Histories
<1>3. said[c] \in Nat /\ Even(said[c]) /\ said[c] + 1 \in Nat
  BY DEF Typed, Asks, AskOK
<1>4. IsPrefixOf(Told(d, n), Told(c, said[c] + 1)) /\ n >= 1
  <2>1. Asked(c) = Told(c, said[c] + 1)
    BY ToldEnds DEF Typed, Asks
  <2>2. n >= 1
    BY <1>2
  <2>. QED
    BY <1>1, <1>2, <2>1, <2>2, Zenon
<1>5. d = c /\ n <= said[c] + 1
  BY <1>3, <1>4, ToldBegins
<1>6. n <= said[c]
  BY <1>2, <1>3, <1>5 DEF Even
<1>7. ~Behind(s)
  <2>1. ASSUME NEW e \in Chat, NEW m \in Nat, turn[e] = "answered", m >= 2,
               sessions[s].history = Told(e, m)
        PROVE  FALSE
    <3>1. Told(c, n) = Told(e, m) /\ n >= 1
      BY <1>2, <1>5, <2>1
    <3>2. c = e
      BY <3>1, ToldOnce
    <3>. QED
      BY <2>1, <3>2
  <2>. QED
    BY <2>1 DEF Behind
<1>8. cloud[sessions[s].conv] = Told(c, n)
  BY <1>1, <1>2, <1>5, <1>7 DEF ExactInv, Matches
<1>9. Len(sessions[s].history) = n
  BY <1>2 DEF Told
<1>. QED
  BY <1>2, <1>6, <1>8, <1>9

LEMMA ExactStays ==
  ASSUME Typed, ExactInv, ConversationNext
  PROVE  Exact'
<1>. USE DEF ExactInv
<1>0. /\ target \in [Chat -> Conv \cup {Unset}] /\ turn \in [Chat -> Turn]
      /\ from \in [Chat -> Nat] /\ said \in [Chat -> Nat] /\ Unset \notin Made /\ Unset \notin Conv
  BY MadeIs, Count DEF Typed, Asks
<1>1. ASSUME NEW d \in Chat, ~ChatStep(d) PROVE ExactFor(d)'
  <2>1. /\ target'[d] = target[d] /\ turn'[d] = turn[d]
        /\ from'[d] = from[d] /\ said'[d] = said[d]
    BY <1>1, ChatFrame
  <2>2. ExactFor(d)
    BY DEF Exact
  <2>3. CASE target[d] = Unset
    <3>1. turn[d] \notin {"answered", "bound"}
      BY <2>3 DEF Typed, Asks, AskOK
    <3>. QED
      BY <2>1, <2>3, <3>1 DEF ExactFor
  <2>4. CASE target[d] # Unset
    <3>1. PICK v \in Made : v = target[d]
      BY <2>4 DEF Typed, Asks, AskOK
    <3>2. Blurry(v) => Blurry(v)'
      BY BlurryStays
    <3>3. ~Blurry(v)' => cloud'[v] = cloud[v]
      <4>1. ASSUME ~Blurry(v)', NEW c \in Chat, Answered(c), target[c] = v PROVE FALSE
        <5>1. c = d
          BY <2>4, <3>1, <3>2, <4>1, OnlyOne
        <5>. QED
          BY <1>1, <4>1, <5>1 DEF ChatStep
      <4>. QED
        BY <4>1, ExactCloud
    <3>4. CASE Blurry(v)'
      <4>1. Blurry(target[d])'
        BY <2>1, <3>1, <3>4 DEF Blurry
      <4>. QED
        BY <2>1, <2>2, <4>1 DEF ExactFor
    <3>5. CASE ~Blurry(v)'
      BY <2>1, <2>2, <3>1, <3>2, <3>3, <3>5 DEF ExactFor
    <3>. QED
      BY <3>4, <3>5
  <2>. QED
    BY <2>3, <2>4
<1>2. ASSUME NEW c \in Chat, Resolve(c) PROVE ExactFor(c)'
  <2>1. turn[c] = "idle" /\ turn'[c] = "resolved" /\ UNCHANGED cloud
    BY <1>0, <1>2 DEF Resolve, cloudVars
  <2>2. CASE LedNowhere(c)
    <3>1. target'[c] = Unset
      BY <1>0, <2>2 DEF LedNowhere
    <3>. QED
      BY <2>1, <3>1 DEF ExactFor
  <2>3. ASSUME NEW s \in DOMAIN sessions, Led(c, s) PROVE ExactFor(c)'
    <3>1. PICK v : v = sessions[s].conv
      OBVIOUS
    <3>2. target'[c] = v
      BY <1>0, <2>3, <3>1 DEF Led
    <3>3. PICK n \in Nat :
            /\ from' = [from EXCEPT ![c] = IF n < said[c] + 1 THEN n ELSE 0]
            /\ \/ /\ s \in OpeningsOf(sessions, c) /\ n = Len(sessions[s].history)
                  /\ UNCHANGED blurred
               \/ blurred' = blurred \cup {<<v, "guess">>}
      BY <2>3, <3>1 DEF Led
    <3>4. CASE Blurry(v)'
      <4>1. Blurry(target[c])'
        BY <3>2, <3>4 DEF Blurry
      <4>. QED
        BY <2>1, <4>1 DEF ExactFor
    <3>5. CASE ~Blurry(v)'
      <4>1. <<v, "guess">> \notin blurred'
        <5>1. <<v, "guess">>[1] = v
          OBVIOUS
        <5>. QED
          BY <3>5, <5>1 DEF Blurry
      <4>2. s \in OpeningsOf(sessions, c) /\ n = Len(sessions[s].history) /\ ~Blurry(v)
        BY <3>3, <3>5, <4>1, BlurryStays
      <4>3. PICK m \in Nat : /\ m >= 2 /\ m <= said[c] /\ Len(sessions[s].history) = m
                             /\ cloud[v] = Told(c, m)
        BY <2>1, <3>1, <4>2, OpeningExact DEF Blurry
      <4>4. from'[c] = m
        BY <1>0, <3>3, <4>2, <4>3
      <4>. QED
        BY <2>1, <3>2, <4>3, <4>4 DEF ExactFor
    <3>. QED
      BY <3>4, <3>5
  <2>. QED
    BY <1>2, <2>2, <2>3, ResolveDoes
<1>3. ASSUME NEW c \in Chat, LookUp(c) PROVE ExactFor(c)'
  <2>1. turn[c] = "resolved" /\ turn'[c] \in {"looked", "reused"} /\ UNCHANGED <<cloud, said>>
    BY <1>0, <1>3 DEF LookUp, cloudVars
  <2>2. CASE UNCHANGED <<target, under, from, blurred>>
    BY <2>1, <2>2 DEF Exact, ExactFor, Blurry
  <2>3. CASE target' = [target EXCEPT ![c] = cached.conv] /\ blurred' = blurred \cup {<<cached.conv, "cache">>}
    <3>1. target'[c] = cached.conv /\ <<cached.conv, "cache">> \in blurred'
      BY <1>0, <2>3
    <3>2. Blurry(target[c])'
      <4>1. <<cached.conv, "cache">>[1] = cached.conv
        OBVIOUS
      <4>. QED
        BY <3>1, <4>1 DEF Blurry
    <3>. QED
      BY <2>1, <3>2 DEF ExactFor
  <2>. QED
    BY <1>3, <2>2, <2>3 DEF LookUp
<1>4. ASSUME NEW c \in Chat, Answered(c) PROVE ExactFor(c)'
  <2>1. turn[c] \in {"looked", "reused"} /\ turn'[c] = "answered" /\ UNCHANGED <<said, from>>
    BY <1>0, <1>4 DEF Answered
  <2>2. PICK v \in Conv : Taken(c, v)
    BY <1>4, AnsweredDoes
  <2>3. target'[c] = v
    BY <1>0, <2>2 DEF Taken
  <2>4. CASE target[c] = Unset /\ cloud'[v] = Append(Sent(c), Answer(c))
    <3>1. from[c] = 0 /\ Asked(c) \in Seq(Message) /\ Len(Asked(c)) = said[c] + 1
      BY <2>1, <2>4, ToldTyped DEF Typed, Asks, AskOK
    <3>2. Sent(c) = Asked(c)
      <4>. DEFINE A == Asked(c)
                  m == said[c] + 1
      <4>1. A \in Seq(Message) /\ Len(A) = m /\ m \in Nat
        BY <1>0, <3>1
      <4>2. Sent(c) = SubSeq(A, 1, m)
        BY <3>1 DEF Sent
      <4>. HIDE DEF A, m
      <4>3. SubSeq(A, 1, m) = A
        BY <4>1
      <4>. QED
        BY <4>2, <4>3 DEF A
    <3>3. cloud'[v] = Told(c, said[c] + 2)
      BY <1>0, <2>4, <3>2, ToldEnds
    <3>. QED
      BY <2>1, <2>3, <3>3 DEF ExactFor
  <2>5. CASE target[c] = v /\ v \in Made
    <3>1. CASE Blurry(v)'
      <4>1. Blurry(target[c])'
        BY <2>3, <3>1 DEF Blurry
      <4>. QED
        BY <2>1, <4>1 DEF ExactFor
    <3>2. CASE ~Blurry(v)'
      <4>1. \A d \in Chat : Answered(d) => d = c
        BY <1>0, <1>4 DEF Answered
      <4>2. cloud'[v] = Told(c, said[c] + 2) \/ cloud'[v] = cloud[v]
        BY <2>5, <3>2, <4>1, ExactCloud
      <4>3. cloud'[v] # cloud[v]
        <5>1. cloud[v] \in Seq(Message) /\ v # Unset
          BY <1>0, <2>5, MadeIs DEF Typed, Clouds
        <5>2. said[c] < MaxSaid
          BY <2>1 DEF Typed, Asks, AskOK
        <5>. DEFINE a == Append(Sent(c), Answer(c))
        <5>3. a \in Seq(Message) \ {<<>>}
          BY <5>2, SentTyped DEF Typed
        <5>4. cloud'[v] = cloud[v] \o a
          BY <2>2, <2>5, <5>1 DEF Taken
        <5>. HIDE DEF a
        <5>5. Len(cloud[v] \o a) = Len(cloud[v]) + Len(a)
          BY <5>1, <5>3, ConcatProperties, Zenon
        <5>6. Len(a) # 0 /\ Len(a) \in Nat /\ Len(cloud[v]) \in Nat
          BY <5>1, <5>3
        <5>7. Len(cloud'[v]) # Len(cloud[v])
          BY <5>4, <5>5, <5>6
        <5>. QED
          BY <5>7
      <4>. QED
        BY <2>1, <2>3, <4>2, <4>3 DEF ExactFor
    <3>. QED
      BY <3>1, <3>2
  <2>. QED
    BY <2>2, <2>4, <2>5 DEF Taken, Typed, Clouds
<1>5. ASSUME NEW c \in Chat, Failed(c) \/ Store(c) PROVE ExactFor(c)'
  BY <1>0, <1>5 DEF Failed, Store, ExactFor
<1>6. ASSUME NEW c \in Chat, Bind(c) PROVE ExactFor(c)'
  <2>1. turn[c] = "answered" /\ turn'[c] = "bound" /\ UNCHANGED <<target, said, from, cloud>>
    BY <1>0, <1>6 DEF Bind, cloudVars
  <2>2. PICK v : v = target[c]
    OBVIOUS
  <2>3. Blurry(v) => Blurry(v)'
    BY BlurryStays
  <2>4. Blurry(target[c]) => Blurry(target[c])'
    BY <2>1, <2>2, <2>3 DEF Blurry
  <2>. QED
    BY <2>1, <2>4 DEF Exact, ExactFor
<1>. QED
  BY <1>1, <1>2, <1>3, <1>4, <1>5, <1>6 DEF Exact, ChatStep

HistoryInv == Typed /\ ExactInv

LEMMA HistoryStays ==
  ASSUME HistoryInv, [ConversationNext]_conversationVars
  PROVE  HistoryInv'
<1>. USE DEF HistoryInv, ExactInv
<1>1. CASE ConversationNext
  BY <1>1, TypedStays, HistoriesStay, MatchesStay, ExactStays
<1>2. CASE UNCHANGED conversationVars
  <2>1. Typed'
    BY <1>2, TypedStays
  <2>2. Histories'
    BY <1>2 DEF Histories, conversationVars, chatVars, indexVars
  <2>3. Matches'
    BY <1>2 DEF Matches, Blurry, Behind, conversationVars, chatVars, cloudVars, indexVars
  <2>4. Exact'
    BY <1>2 DEF Exact, ExactFor, Blurry, conversationVars, chatVars, cloudVars
  <2>. QED
    BY <2>1, <2>2, <2>3, <2>4
<1>. QED
  BY <1>1, <1>2

LEMMA HistoryStarts == ConversationInit => HistoryInv
<1>. SUFFICES ASSUME ConversationInit PROVE HistoryInv
  OBVIOUS
<1>1. Typed
  BY TypedStarts
<1>2. ExactInv
  BY DEF ConversationInit, ExactInv, Histories, Matches, Exact, ExactFor
<1>. QED
  BY <1>1, <1>2 DEF HistoryInv

\* A conversation that was continued only because its history begins the request, and
\* that one session of the key had, holds after each turn what the client holds: no
\* message left out and none sent twice, whatever else is asked, bound, evicted, deleted
\* and cleaned up meanwhile.
THEOREM IncrementExact == ConversationSpec => []NothingLostOrRepeated
<1>1. HistoryInv => NothingLostOrRepeated
  <2>. SUFFICES ASSUME HistoryInv, NEW c \in Chat, turn[c] \in {"answered", "bound"},
                       \A b \in blurred : b[1] # target[c]
                PROVE  cloud[target[c]] = Append(Asked(c), Answer(c))
    BY DEF NothingLostOrRepeated
  <2>1. cloud[target[c]] = Told(c, said[c] + 2)
    BY DEF HistoryInv, ExactInv, Exact, ExactFor, Blurry
  <2>. QED
    BY <2>1, ToldEnds DEF HistoryInv, Typed, Asks
<1>. QED
  BY <1>1, HistoryStarts, HistoryStays, PTL DEF ConversationSpec

\* What sessions tell is true: the increment is exact, nothing deleted is continued,
\* and no two keys are mixed.
THEOREM SessionsCorrect == ConversationSpec => []SessionsTrue
  BY IncrementExact, ResolverCorrect, PTL DEF SessionsTrue
-----------------------------------------------------------------------------
(* The conversations, as Dialogue has them.                                *)

\* What is known of a conversation is one chat, up to an answer.
InChats ==
  \A v \in Made : ~Blurry(v) =>
    \E c \in Chat, k \in 1 .. MaxSaid + 1 : cloud[v] = Told(c, 2 * k)

\* A chat that has its answer has whole turns.
LEMMA WholeTurns ==
  ASSUME Typed, NEW c \in Chat, said[c] < MaxSaid
  PROVE  \E k \in 1 .. MaxSaid + 1 : said[c] + 2 = 2 * k
<1>1. said[c] \in Nat /\ said[c] % 2 = 0 /\ MaxSaid \in Nat
  BY Count DEF Typed, Asks, AskOK, Even
<1>. DEFINE n == said[c]
            k == n \div 2 + 1
<1>. HIDE DEF n
<1>2. n \in Nat /\ n % 2 = 0 /\ n < MaxSaid
  BY <1>1 DEF n
<1>3. k \in 1 .. MaxSaid + 1 /\ n + 2 = 2 * k
  BY <1>1, <1>2
<1>. QED
  BY <1>3 DEF n

\* An answer leaves all of its chat in the conversation it went to.
LEMMA AnswerLeaves ==
  ASSUME Typed, Exact', NEW c \in Chat, Answered(c), NEW v \in Conv, Taken(c, v), ~Blurry(v)'
  PROVE  cloud'[v] = Told(c, said[c] + 2)
<1>1. turn'[c] = "answered" /\ said'[c] = said[c]
  BY DEF Answered, Typed, Asks
<1>2. target'[c] = v
  BY DEF Taken, Typed, Asks
<1>3. ExactFor(c)'
  BY DEF Exact
<1>4. ~Blurry(target[c])'
  BY <1>2 DEF Blurry
<1>. QED
  BY <1>1, <1>2, <1>3, <1>4 DEF ExactFor

\* Only an answer makes a conversation.
LEMMA MadeByAnswer ==
  ASSUME Typed, ConversationNext, NEW v \in Made' \ Made
  PROVE  \E c \in Chat : Answered(c) /\ v \in Conv /\ Taken(c, v)
<1>1. CASE UNCHANGED cloud
  BY <1>1 DEF Made
<1>2. ASSUME NEW c \in Chat, Failed(c) PROVE FALSE
  BY <1>2, FailedDoes
<1>3. ASSUME NEW c \in Chat, Answered(c) PROVE v \in Conv /\ Taken(c, v)
  <2>1. PICK w \in Conv : Taken(c, w)
    BY <1>3, AnsweredDoes
  <2>2. Made' = Made \cup {w} \/ Made' = Made
    BY <2>1 DEF Taken
  <2>3. v = w
    BY <2>2
  <2>. QED
    BY <2>1, <2>3
<1>. QED
  BY <1>1, <1>2, <1>3, CloudOrSame

LEMMA InChatsStays ==
  ASSUME HistoryInv, HistoryInv', InChats, ConversationNext
  PROVE  InChats'
<1>0. Typed /\ Exact /\ Exact'
  BY DEF HistoryInv, ExactInv
<1>. SUFFICES ASSUME NEW v \in Made', ~Blurry(v)'
              PROVE  \E c \in Chat, k \in 1 .. MaxSaid + 1 : cloud'[v] = Told(c, 2 * k)
  BY DEF InChats
<1>1. ASSUME NEW c \in Chat, Answered(c), cloud'[v] = Told(c, said[c] + 2)
      PROVE  \E k \in 1 .. MaxSaid + 1 : cloud'[v] = Told(c, 2 * k)
  <2>1. said[c] < MaxSaid
    BY <1>0, <1>1 DEF Answered, Typed, Asks, AskOK
  <2>. QED
    BY <1>0, <1>1, <2>1, WholeTurns
<1>2. CASE v \in Made
  <2>1. ~Blurry(v)
    BY <1>0, BlurryStays
  <2>2. CASE cloud'[v] = cloud[v]
    BY <1>2, <2>1, <2>2 DEF InChats
  <2>3. ASSUME NEW c \in Chat, Answered(c), cloud'[v] = Told(c, said[c] + 2)
        PROVE  \E d \in Chat, k \in 1 .. MaxSaid + 1 : cloud'[v] = Told(d, 2 * k)
    BY <1>1, <2>3
  <2>. QED
    BY <1>0, <1>2, <2>2, <2>3, ExactCloud
<1>3. CASE v \notin Made
  <2>1. PICK c \in Chat : Answered(c) /\ v \in Conv /\ Taken(c, v)
    BY <1>0, <1>3, MadeByAnswer
  <2>2. cloud'[v] = Told(c, said[c] + 2)
    BY <1>0, <2>1, AnswerLeaves
  <2>. QED
    BY <1>1, <2>1, <2>2
<1>. QED
  BY <1>2, <1>3

\* Conversations are deleted one at a time, and nothing else happens to any then.
LEMMA AliveStep ==
  ASSUME Typed, ConversationNext
  PROVE  \/ UNCHANGED alive
         \/ \E c \in Chat : Answered(c)
         \/ UNCHANGED <<cloud, blurred>> /\ \E v \in alive : alive' = alive \ {v}
<1>1. ASSUME NEW c \in Chat, ChatStep(c) PROVE UNCHANGED alive \/ Answered(c)
  BY <1>1 DEF ChatStep, Resolve, LookUp, Failed, Bind, Store, cloudVars
<1>2. CASE SweepDeletes \/ AdminDeletes \/ AdminRemoves
  <2>1. UNCHANGED <<cloud, blurred>>
    BY <1>2 DEF SweepDeletes, AdminDeletes, AdminRemoves
  <2>2. PICK v : alive' = alive \ {v}
    BY <1>2 DEF SweepDeletes, AdminDeletes, AdminRemoves
  <2>3. v \in alive \/ alive' = alive
    BY <2>2
  <2>. QED
    BY <2>1, <2>2, <2>3
<1>3. CASE \/ SweepStarts \/ SweepLists \/ SweepDrops \/ AdminForgets \/ AdminCleans \/ AdminLists
           \/ Hours \/ \E s \in DOMAIN sessions : DeleteSession(s)
  BY <1>3 DEF SweepStarts, SweepLists, SweepDrops, AdminForgets, AdminCleans, AdminLists, Hours,
              DeleteSession, cloudVars
<1>. QED
  BY <1>1, <1>2, <1>3 DEF ConversationNext, Sweep, AdminSteps

\* What Dialogue sees.
Log == [v \in Made |-> IF Blurry(v) THEN Unset ELSE cloud[v]]

LEMMA TranscriptIs == \A c, k : Spoken!Transcript(c, k) = Told(c, 2 * k)
  BY DEF Spoken!Transcript, Told

\* The log, after a step that changes one conversation at most.
LEMMA LogMoves ==
  ASSUME NEW t, Made' \subseteq Made \cup {t}, Made \subseteq Made',
         \A v \in Made \ {t} : cloud'[v] = cloud[v] /\ (Blurry(v)' <=> Blurry(v))
  PROVE  /\ DOMAIN Log = Made /\ DOMAIN Log' = Made'
         /\ \A v \in Made \ {t} : Log'[v] = Log[v]
         /\ t \in Made' => Log'[t] = IF Blurry(t)' THEN Unset ELSE cloud'[t]
<1>1. DOMAIN Log = Made /\ DOMAIN Log' = Made'
  BY DEF Log
<1>2. ASSUME NEW v \in Made' PROVE Log'[v] = IF Blurry(v)' THEN Unset ELSE cloud'[v]
  BY DEF Log
<1>3. ASSUME NEW v \in Made PROVE Log[v] = IF Blurry(v) THEN Unset ELSE cloud[v]
  BY DEF Log
<1>4. ASSUME NEW v \in Made \ {t} PROVE Log'[v] = Log[v]
  BY <1>2, <1>3
<1>5. t \in Made' => Log'[t] = IF Blurry(t)' THEN Unset ELSE cloud'[t]
  BY <1>2
<1>. QED
  BY <1>1, <1>4, <1>5

\* A conversation that is lost.
LEMMA Loses ==
  ASSUME NEW t \in Made, NEW why, Made' = Made, blurred' = blurred \cup {<<t, why>>},
         \A v \in Made \ {t} : cloud'[v] = cloud[v], UNCHANGED alive
  PROVE  Spoken!Lose(t)
<1>1. Blurry(t)' /\ \A v \in Made \ {t} : Blurry(v)' <=> Blurry(v)
  <2>1. <<t, why>>[1] = t /\ <<t, why>> \in blurred'
    OBVIOUS
  <2>2. Blurry(t)'
    BY <2>1 DEF Blurry
  <2>3. ASSUME NEW v \in Made \ {t} PROVE Blurry(v)' <=> Blurry(v)
    BY <2>1 DEF Blurry
  <2>. QED
    BY <2>2, <2>3
<1>2. /\ DOMAIN Log = Made /\ DOMAIN Log' = Made
      /\ \A v \in Made \ {t} : Log'[v] = Log[v]
      /\ Log'[t] = Unset
  BY <1>1, LogMoves
<1>3. Log = [v \in Made |-> Log[v]] /\ Log' = [v \in Made |-> Log'[v]]
  BY DEF Log
<1>4. Log' = [Log EXCEPT ![t] = Unset]
  BY <1>2, <1>3
<1>. QED
  BY <1>2, <1>4 DEF Spoken!Lose, Log

\* An answer opens a conversation or continues one, or is said to one that is lost.
LEMMA Speaks ==
  ASSUME HistoryInv, HistoryInv', InChats, ConversationNext, NEW c \in Chat, Answered(c)
  PROVE  \/ UNCHANGED <<Log, Made \ alive>>
         \/ \E v \in Conv : Spoken!Speak(v)
<1>0. Typed /\ Exact /\ Exact' /\ UNCHANGED blurred
  BY DEF HistoryInv, ExactInv, Answered
<1>1. PICK v \in Conv : Taken(c, v)
  BY <1>0, AnsweredDoes
<1>2. said[c] < MaxSaid /\ said[c] \in Nat
  BY <1>0 DEF Answered, Typed, Asks, AskOK
<1>3. PICK k \in 1 .. MaxSaid + 1 : said[c] + 2 = 2 * k
  BY <1>0, <1>2, WholeTurns
<1>4. \A w : Blurry(w)' <=> Blurry(w)
  BY <1>0 DEF Blurry
<1>5. alive \subseteq Made
  BY <1>0 DEF Typed, Clouds
<1>6. /\ DOMAIN Log = Made /\ DOMAIN Log' = Made'
      /\ \A w \in Made \ {v} : Log'[w] = Log[w]
      /\ v \in Made' => Log'[v] = IF Blurry(v) THEN Unset ELSE cloud'[v]
  BY <1>1, <1>4, LogMoves DEF Taken
<1>7. Log = [w \in Made |-> Log[w]] /\ Log' = [w \in Made' |-> Log'[w]]
  BY DEF Log
<1>8. ~Blurry(v) => cloud'[v] = Spoken!Transcript(c, k)
  BY <1>0, <1>1, <1>3, <1>4, AnswerLeaves, TranscriptIs
<1>9. CASE target[c] = Unset
  <2>1. v \notin Made /\ Made' = Made \cup {v} /\ alive' = alive \cup {v}
    BY <1>0, <1>1, <1>9, MadeIs DEF Taken, Typed, Clouds
  <2>2. ~Blurry(v)
    BY <1>0, <2>1 DEF Blurry, Typed, Clouds
  <2>3. Log'[v] = Spoken!Transcript(c, k)
    BY <1>6, <1>8, <2>1, <2>2
  <2>4. Log' = [w \in DOMAIN Log \cup {v} |->
                   IF w = v THEN Spoken!Transcript(c, k) ELSE Log[w]]
    BY <1>6, <1>7, <2>1, <2>3
  <2>5. UNCHANGED (Made \ alive)
    BY <2>1
  <2>6. Spoken!Open(v, c, k)
    BY <1>6, <2>1, <2>4, <2>5 DEF Spoken!Open, Log
  <2>. QED
    BY <1>3, <2>6 DEF Spoken!Speak
<1>10. CASE target[c] # Unset
  <2>1. target[c] = v /\ v \in alive /\ Made' = Made /\ UNCHANGED alive
    BY <1>1, <1>10 DEF Taken
  <2>2. v \in Made /\ UNCHANGED (Made \ alive)
    BY <1>5, <2>1
  <2>3. CASE Blurry(v)
    <3>1. Log[v] = Unset
      BY <2>2, <2>3 DEF Log
    <3>2. Log'[v] = Log[v]
      BY <1>6, <2>1, <2>2, <2>3, <3>1
    <3>3. Log' = Log
      BY <1>6, <1>7, <2>1, <3>2
    <3>. QED
      BY <2>2, <3>3
  <2>4. CASE ~Blurry(v)
    <3>1. Log[v] = cloud[v] /\ Log'[v] = Spoken!Transcript(c, k)
      BY <1>6, <1>8, <2>1, <2>2, <2>4 DEF Log
    <3>2. PICK d \in Chat, j \in 1 .. MaxSaid + 1 : cloud[v] = Told(d, 2 * j)
      BY <2>2, <2>4 DEF InChats
    <3>3. from[c] \in Nat /\ from[c] <= said[c] /\ cloud[v] = Told(c, from[c])
      BY <1>0, <1>10, <2>1, <2>4 DEF Exact, ExactFor, Answered, Typed, Asks, AskOK
    <3>4. d = c /\ 2 * j = from[c]
      <4>1. 2 * j \in Nat /\ 2 * j >= 1
        BY <3>2, Count
      <4>. QED
        BY <3>2, <3>3, <4>1, ToldOnce
    <3>5. j < k
      <4>. DEFINE f == from[c]
                  n == said[c]
      <4>. HIDE DEF f, n
      <4>1. f \in Nat /\ n \in Nat /\ f <= n /\ 2 * j = f /\ n + 2 = 2 * k /\ j \in Nat /\ k \in Nat
        BY <1>2, <1>3, <3>2, <3>3, <3>4, Count DEF f, n
      <4>. QED
        BY <4>1
    <3>6. Log' = [Log EXCEPT ![v] = Spoken!Transcript(c, k)]
      BY <1>6, <1>7, <2>1, <2>2, <3>1
    <3>7. Log[v] = Spoken!Transcript(c, j) /\ v \in DOMAIN Log \ (Made \ alive)
      BY <1>6, <2>1, <2>2, <3>1, <3>2, <3>4, TranscriptIs
    <3>8. Spoken!Continue(v, c, j, k)
      BY <2>2, <3>5, <3>6, <3>7 DEF Spoken!Continue, Log
    <3>. QED
      BY <1>3, <3>2, <3>8 DEF Spoken!Speak
  <2>. QED
    BY <2>3, <2>4
<1>. QED
  BY <1>9, <1>10

\* Every step is a step of Dialogue, or it does not see it.
LEMMA StepSpoken ==
  ASSUME HistoryInv, HistoryInv', InChats, ConversationNext
  PROVE  Spoken!Next \/ UNCHANGED <<Log, Made \ alive>>
<1>0. Typed /\ alive \subseteq Made /\ Made \subseteq Conv
  BY MadeIs DEF HistoryInv, Typed, Clouds
<1>1. SUFFICES ASSUME ~UNCHANGED <<Log, Made \ alive>>
               PROVE  Spoken!Next
  OBVIOUS
<1>2. ASSUME NEW v \in Conv, Spoken!Speak(v) \/ Spoken!Lose(v)
      PROVE  Spoken!Next
  <2>1. UNCHANGED (Made \ alive)
    BY <1>2 DEF Spoken!Speak, Spoken!Open, Spoken!Continue, Spoken!Lose
  <2>2. Log' # Log
    BY <1>1, <2>1
  <2>. QED
    BY <1>2, <2>2 DEF Spoken!Next, Log
<1>3. ASSUME NEW c \in Chat, Answered(c) PROVE Spoken!Next
  BY <1>1, <1>2, <1>3, Speaks
<1>4. ASSUME UNCHANGED <<cloud, alive>>, ~UNCHANGED blurred PROVE Spoken!Next
  <2>1. PICK t \in Made, why \in Reason : blurred' = blurred \cup {<<t, why>>}
    BY <1>0, <1>4, BlurredStep
  <2>2. Made' = Made
    BY <1>4 DEF Made
  <2>3. Spoken!Lose(t)
    BY <1>4, <2>1, <2>2, Loses
  <2>. QED
    BY <1>0, <1>2, <2>3
<1>5. ASSUME NEW c \in Chat, Failed(c), ~UNCHANGED <<cloud, blurred>> PROVE Spoken!Next
  <2>1. PICK t \in Made : /\ blurred' = blurred \cup {<<t, "failure">>}
                          /\ Made' = Made /\ \A v \in Made \ {t} : cloud'[v] = cloud[v]
    <3>1. /\ target[c] \in Made /\ blurred' = blurred \cup {<<target[c], "failure">>}
          /\ Made' = Made /\ \A v \in Made : v # target[c] => cloud'[v] = cloud[v]
      BY <1>0, <1>5, FailedDoes
    <3>. QED
      BY <3>1
  <2>2. UNCHANGED alive
    BY <1>5 DEF Failed
  <2>3. Spoken!Lose(t)
    BY <2>1, <2>2, Loses
  <2>. QED
    BY <1>0, <1>2, <2>1, <2>3
<1>6. ASSUME UNCHANGED <<cloud, blurred>>, NEW v \in alive, alive' = alive \ {v}
      PROVE  Spoken!Next
  <2>1. UNCHANGED Log /\ Made' = Made
    BY <1>6 DEF Log, Made, Blurry
  <2>2. Made' \ alive' = (Made \ alive) \cup {v} /\ v \in Made
    BY <1>0, <1>6, <2>1
  <2>3. v \in DOMAIN Log \ (Made \ alive) /\ v \in Conv
    BY <1>0, <1>6, <2>2 DEF Log
  <2>4. Spoken!Delete(v)
    BY <2>1, <2>2, <2>3 DEF Spoken!Delete, Log
  <2>5. Made' \ alive' # Made \ alive
    BY <1>6, <2>2
  <2>. QED
    BY <2>3, <2>4, <2>5 DEF Spoken!Next
<1>7. ASSUME UNCHANGED <<cloud, blurred, alive>> PROVE Spoken!Next
  BY <1>1, <1>7 DEF Log, Made, Blurry
<1>8. CASE \E c \in Chat : Failed(c)
  <2>1. UNCHANGED alive
    BY <1>8 DEF Failed
  <2>. QED
    BY <1>5, <1>7, <1>8, <2>1
<1>. QED
  BY <1>0, <1>3, <1>4, <1>6, <1>7, <1>8, CloudOrSame, AliveStep

\* The conversations behave as dialogues: whatever leads requests to them, each holds
\* one chat from its beginning up to an answer, grows by whole turns of that chat until
\* it is deleted, and is never rewritten (Resolve, Bind, openaiChat, autoCleanupOnce).
THEOREM ImplementsDialogue == ConversationSpec => DialogueSpec
<1>. DEFINE IInv == HistoryInv /\ InChats
<1>1. ConversationInit => IInv /\ Spoken!Init
  <2>1. ConversationInit => InChats /\ Spoken!Init
    BY DEF ConversationInit, InChats, Made, Spoken!Init
  <2>. QED
    BY <2>1, HistoryStarts
<1>2. IInv /\ [ConversationNext]_conversationVars => IInv'
  <2>1. CASE ConversationNext
    BY <2>1, HistoryStays, InChatsStays
  <2>2. CASE UNCHANGED conversationVars
    <3>1. InChats => InChats'
      BY <2>2 DEF InChats, Made, Blurry, conversationVars, cloudVars
    <3>. QED
      BY <2>2, <3>1, HistoryStays
  <2>. QED
    BY <2>1, <2>2
<1>3. IInv /\ IInv' /\ [ConversationNext]_conversationVars => [Spoken!Next]_(Spoken!vars)
  <2>1. ASSUME UNCHANGED <<Log, Made \ alive>> PROVE UNCHANGED Spoken!vars
    BY <2>1 DEF Log, Spoken!vars
  <2>2. UNCHANGED conversationVars => UNCHANGED <<Log, Made \ alive>>
    BY DEF Log, Made, Blurry, conversationVars, cloudVars
  <2>. QED
    BY <2>1, <2>2, StepSpoken
<1>. QED
  BY <1>1, <1>2, <1>3, PTL DEF ConversationSpec, DialogueSpec, Spoken!Spec
=============================================================================
