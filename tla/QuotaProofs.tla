---------------------------- MODULE QuotaProofs -----------------------------
(***************************************************************************)
(* Theorems about the three quotas: that of an API key (KeyGate), which    *)
(* counts the records of a log, that of a user of the chat page            *)
(* (ChatPage), which counts what was given, and that of the pictures of a  *)
(* key (ImageJobs), with what the disk keeps of them.  Each holds for any  *)
(* number of clients and any limits.                                       *)
(*                                                                         *)
(* The counts are sizes of sets: how many are being served is the size of  *)
(* the set of those served; what several handlers have asked for is the    *)
(* size of a set of pairs, a handler and a number up to what it asked for; *)
(* what pictures take on disk is the size of a set of blocks.              *)
(***************************************************************************)
EXTENDS KeyGate, ChatPage, ImageJobs, FiniteSetTheorems, SequenceTheorems,
        WellFoundedInduction, TLAPS

DaysIn(s, d) == {i \in DOMAIN s : s[i] = d}

\* The records that a request may still make, by where it is.
ToCome(at) == IF at = "served" THEN 2 ELSE IF at = "recorded" THEN 1 ELSE 0

At(at) == {c \in Clients : client[c] = at}

\* Records are made in the order of their days.
InOrder(made, d) ==
  /\ \A i, j \in 1 .. Len(made) : i <= j => made[i] <= made[j]
  /\ \A i \in 1 .. Len(made) : made[i] <= d

GateTyped ==
  /\ keyHere \in BOOLEAN
  /\ window \in [current : BOOLEAN, n : 0 .. Rate]
  /\ client \in [Clients -> {"idle", "valid", "found", "unlimited", "rated", "served", "recorded"}]
  /\ usage \in [memory : Seq(Nat), waiting : Seq(Nat), writing : Seq(Nat), file : Seq(Nat)]
  /\ ledger \in [minute : Nat, made : Seq(Nat), spoiled : BOOLEAN, day : 0 .. LastDay]

\* The window counts what it has let in.
WindowCounts == ledger.minute <= IF window.current THEN window.n ELSE 0

\* The log in memory is the end of what was made, and what was made is on its way.
LogHolds ==
  /\ usage.memory = Trim(ledger.made)
  /\ ~ledger.spoiled =>
       /\ usage.file \o usage.writing \o usage.waiting = ledger.made
       /\ InOrder(ledger.made, ledger.day)

\* The quotas, over the whole of what was made.
QuotasHold ==
  keyHere =>
    /\ \A c \in Clients : client[c] # "unlimited"
    /\ ~ledger.spoiled =>
         /\ Today + Unrecorded < DailyQuota + 2 * Cardinality(Clients)
         /\ Len(usage.memory) + Unrecorded < TotalQuota + 2 * Cardinality(Clients)

GateInv == GateTyped /\ WindowCounts /\ LogHolds /\ QuotasHold

\* The limits are positive, and the clients finitely many.
LEMMA GateBounds ==
  /\ Rate \in Nat \ {0} /\ DailyQuota \in Nat \ {0} /\ TotalQuota \in Nat \ {0}
  /\ KeptRecords \in Nat /\ MaxMade \in Nat /\ LastDay \in Nat
  /\ IsFiniteSet(Clients) /\ Cardinality(Clients) \in Nat
BY GateAssumption, FS_CardinalityType

\* Numbers that a shift takes into a set are no more than its members.
LEMMA Shifts ==
  ASSUME NEW S \in SUBSET Nat, NEW T, IsFiniteSet(T), NEW s \in Nat, \A i \in S : i + s \in T
  PROVE  IsFiniteSet(S) /\ Cardinality(S) <= Cardinality(T)
<1>. DEFINE f == [i \in S |-> i + s]
<1>1. f \in Injection(S, T)
  BY DEF Injection, IsInjective
<1>. HIDE DEF f
<1>. QED
  BY <1>1, FS_Injection

\* The end that is kept: its length, its records.
LEMMA TrimIs ==
  ASSUME NEW s \in Seq(Nat)
  PROVE  /\ Trim(s) \in Seq(Nat)
         /\ Len(Trim(s)) = IF Len(s) <= KeptRecords THEN Len(s) ELSE KeptRecords
         /\ Len(Trim(s)) <= Len(s)
         /\ \A i \in 1 .. Len(Trim(s)) : Trim(s)[i] = s[i + (Len(s) - Len(Trim(s)))]
<1>1. Len(s) \in Nat /\ KeptRecords \in Nat
  BY GateBounds
<1>2. CASE Len(s) <= KeptRecords
  BY <1>1, <1>2 DEF Trim
<1>3. CASE ~(Len(s) <= KeptRecords)
  BY <1>1, <1>3 DEF Trim
<1>. QED
  BY <1>2, <1>3

\* A record more: the same whether the rest was trimmed before or not.
LEMMA TrimAppend ==
  ASSUME NEW s \in Seq(Nat), NEW d \in Nat
  PROVE  Trim(Append(Trim(s), d)) = Trim(Append(s, d))
<1>. DEFINE u == Append(Trim(s), d)
            w == Append(s, d)
<1>0. KeptRecords \in Nat /\ Len(s) \in Nat
  BY GateBounds
<1>1. Trim(s) \in Seq(Nat) /\ u \in Seq(Nat) /\ w \in Seq(Nat) /\ Len(Trim(s)) \in Nat
  BY TrimIs
<1>2. Len(u) = Len(Trim(s)) + 1 /\ Len(w) = Len(s) + 1
  BY <1>1
<1>3. /\ \A i \in 1 .. Len(Trim(s)) : u[i] = s[i + (Len(s) - Len(Trim(s)))]
      /\ u[Len(Trim(s)) + 1] = d
      /\ \A i \in 1 .. Len(s) : w[i] = s[i]
      /\ w[Len(s) + 1] = d
  BY <1>1, TrimIs
<1>. HIDE DEF u, w
<1>4. /\ Trim(u) \in Seq(Nat) /\ Trim(w) \in Seq(Nat)
      /\ Len(Trim(u)) = IF Len(u) <= KeptRecords THEN Len(u) ELSE KeptRecords
      /\ Len(Trim(w)) = IF Len(w) <= KeptRecords THEN Len(w) ELSE KeptRecords
      /\ \A i \in 1 .. Len(Trim(u)) : Trim(u)[i] = u[i + (Len(u) - Len(Trim(u)))]
      /\ \A i \in 1 .. Len(Trim(w)) : Trim(w)[i] = w[i + (Len(w) - Len(Trim(w)))]
  BY <1>1, TrimIs
<1>5. Len(Trim(s)) = IF Len(s) <= KeptRecords THEN Len(s) ELSE KeptRecords
  BY TrimIs
<1>. DEFINE n == Len(s)
            t == Len(Trim(s))
            tu == Len(Trim(u))
            tw == Len(Trim(w))
<1>6. /\ n \in Nat /\ t \in Nat /\ Len(u) = t + 1 /\ Len(w) = n + 1
      /\ t = IF n <= KeptRecords THEN n ELSE KeptRecords
      /\ tu = IF Len(u) <= KeptRecords THEN Len(u) ELSE KeptRecords
      /\ tw = IF Len(w) <= KeptRecords THEN Len(w) ELSE KeptRecords
      /\ \A i \in 1 .. tu : Trim(u)[i] = u[i + (Len(u) - tu)]
      /\ \A i \in 1 .. tw : Trim(w)[i] = w[i + (Len(w) - tw)]
      /\ \A i \in 1 .. t : u[i] = s[i + (n - t)]
      /\ u[t + 1] = d
      /\ \A i \in 1 .. n : w[i] = s[i]
      /\ w[n + 1] = d
  BY <1>0, <1>1, <1>2, <1>3, <1>4, <1>5
<1>. HIDE DEF n, t, tu, tw
<1>6a. tu = tw /\ tu \in Nat
  BY <1>0, <1>6
<1>7. ASSUME NEW i \in 1 .. tu PROVE Trim(u)[i] = Trim(w)[i]
  <2>. DEFINE k == i + (Len(u) - tu)
              l == i + (Len(w) - tw)
  <2>1. Trim(u)[i] = u[k] /\ Trim(w)[i] = w[l]
    BY <1>6, <1>6a
  <2>2. k \in 1 .. t + 1 /\ l \in 1 .. n + 1 /\ l = k + (n - t)
    BY <1>0, <1>6, <1>6a
  <2>. HIDE DEF k, l
  <2>3. CASE k = t + 1
    <3>1. l = n + 1
      BY <1>6, <2>2, <2>3
    <3>. QED
      BY <1>6, <2>1, <2>3, <3>1
  <2>4. CASE k # t + 1
    <3>1. k \in 1 .. t /\ l \in 1 .. n
      BY <1>0, <1>6, <2>2, <2>4
    <3>. QED
      BY <1>6, <2>1, <2>2, <3>1
  <2>. QED
    BY <2>3, <2>4
<1>8. Trim(u) = Trim(w)
  <2>1. Trim(u) \in Seq(Nat) /\ Trim(w) \in Seq(Nat)
    BY <1>4
  <2>2. Len(Trim(u)) = Len(Trim(w)) /\ \A i \in 1 .. Len(Trim(u)) : Trim(u)[i] = Trim(w)[i]
    BY <1>6a, <1>7 DEF tu, tw
  <2>. QED
    BY <2>1, <2>2, SeqEqual, Zenon
<1>. QED
  BY <1>8 DEF u, w

\* A record of the day adds one at most to those of the day that are kept.
LEMMA AppendCount ==
  ASSUME NEW s \in Seq(Nat), NEW d \in Nat
  PROVE  /\ Cardinality(DaysIn(Trim(Append(s, d)), d)) <= Cardinality(DaysIn(Trim(s), d)) + 1
         /\ Len(Trim(Append(s, d))) <= Len(Trim(s)) + 1
<1>. DEFINE w == Append(s, d)
            S == DaysIn(Trim(w), d) \ {Len(Trim(w))}
            T == DaysIn(Trim(s), d)
<1>0. KeptRecords \in Nat /\ Len(s) \in Nat
  BY GateBounds
<1>1. /\ w \in Seq(Nat) /\ Len(w) = Len(s) + 1
      /\ \A i \in 1 .. Len(s) : w[i] = s[i]
  OBVIOUS
<1>. HIDE DEF w
<1>2. /\ Trim(s) \in Seq(Nat) /\ Trim(w) \in Seq(Nat)
      /\ Len(Trim(s)) = IF Len(s) <= KeptRecords THEN Len(s) ELSE KeptRecords
      /\ Len(Trim(w)) = IF Len(w) <= KeptRecords THEN Len(w) ELSE KeptRecords
      /\ \A i \in 1 .. Len(Trim(s)) : Trim(s)[i] = s[i + (Len(s) - Len(Trim(s)))]
      /\ \A i \in 1 .. Len(Trim(w)) : Trim(w)[i] = w[i + (Len(w) - Len(Trim(w)))]
  BY <1>1, TrimIs
<1>3. IsFiniteSet(T) /\ IsFiniteSet(DaysIn(Trim(w), d))
  <2>1. Len(Trim(s)) \in Int /\ Len(Trim(w)) \in Int /\ 1 \in Int
    BY <1>0, <1>1, <1>2
  <2>2. IsFiniteSet(1 .. Len(Trim(s))) /\ IsFiniteSet(1 .. Len(Trim(w)))
    BY <2>1, FS_Interval, Zenon
  <2>3. DOMAIN Trim(s) = 1 .. Len(Trim(s)) /\ DOMAIN Trim(w) = 1 .. Len(Trim(w))
    <3>1. Trim(s) \in Seq(Nat) /\ Trim(w) \in Seq(Nat)
      BY <1>2
    <3>. QED
      BY <3>1
  <2>4. T \subseteq 1 .. Len(Trim(s)) /\ DaysIn(Trim(w), d) \subseteq 1 .. Len(Trim(w))
    BY <2>3, Zenon DEF DaysIn
  <2>. QED
    BY <2>2, <2>4, FS_Subset
<1>. DEFINE n == Len(s)
            t == Len(Trim(s))
            tw == Len(Trim(w))
            k == ((n + 1) - tw) - (n - t)
<1>4. /\ n \in Nat /\ t \in Nat /\ tw \in Nat /\ Len(w) = n + 1
      /\ t = IF n <= KeptRecords THEN n ELSE KeptRecords
      /\ tw = IF n + 1 <= KeptRecords THEN n + 1 ELSE KeptRecords
      /\ \A i \in 1 .. n : w[i] = s[i]
      /\ \A i \in 1 .. t : Trim(s)[i] = s[i + (n - t)]
      /\ \A i \in 1 .. tw : Trim(w)[i] = w[i + ((n + 1) - tw)]
      /\ DOMAIN Trim(s) = 1 .. t /\ DOMAIN Trim(w) = 1 .. tw
  <2>1. DOMAIN Trim(s) = 1 .. t /\ DOMAIN Trim(w) = 1 .. tw
    BY <1>2
  <2>2. /\ \A i \in 1 .. n : w[i] = s[i]
        /\ \A i \in 1 .. t : Trim(s)[i] = s[i + (n - t)]
        /\ \A i \in 1 .. tw : Trim(w)[i] = w[i + (Len(w) - tw)]
    BY <1>1, <1>2
  <2>3. /\ n \in Nat /\ t \in Nat /\ tw \in Nat /\ Len(w) = n + 1
        /\ t = IF n <= KeptRecords THEN n ELSE KeptRecords
        /\ tw = IF Len(w) <= KeptRecords THEN Len(w) ELSE KeptRecords
    BY <1>0, <1>1, <1>2
  <2>. HIDE DEF n, t, tw
  <2>. QED
    BY <2>1, <2>2, <2>3
<1>. HIDE DEF n, t, tw
<1>4a. k \in {0, 1}
  BY <1>0, <1>4
<1>5. ASSUME NEW i \in S PROVE i \in Nat /\ i + k \in T
  <2>1. i \in 1 .. tw /\ i # tw /\ Trim(w)[i] = d
    BY <1>4 DEF DaysIn, tw
  <2>2. /\ i + k \in 1 .. t /\ i + ((n + 1) - tw) = (i + k) + (n - t)
        /\ i + ((n + 1) - tw) \in 1 .. n
    <3>1. /\ n \in Nat /\ t \in Nat /\ tw \in Nat /\ KeptRecords \in Nat
          /\ t = IF n <= KeptRecords THEN n ELSE KeptRecords
          /\ tw = IF n + 1 <= KeptRecords THEN n + 1 ELSE KeptRecords
      BY ONLY <1>0, <1>4
    <3>2. i \in Nat /\ 1 <= i /\ i < tw
      BY <2>1, <3>1
    <3>. QED
      BY ONLY <3>1, <3>2 DEF k
  <2>. HIDE DEF k
  <2>3. Trim(s)[i + k] = s[(i + k) + (n - t)]
    BY <1>4, <2>2
  <2>4. Trim(w)[i] = w[i + ((n + 1) - tw)]
    BY <1>4, <2>1
  <2>5. Trim(s)[i + k] = d
    BY <1>4, <2>1, <2>2, <2>3, <2>4
  <2>6. i + k \in DOMAIN Trim(s)
    BY <1>4, <2>2
  <2>. QED
    BY <2>1, <2>5, <2>6 DEF DaysIn
<1>6. Cardinality(S) <= Cardinality(T)
  <2>1. S \in SUBSET Nat /\ k \in Nat
    BY <1>4a, <1>5
  <2>. HIDE DEF S, T, k
  <2>. QED
    BY <1>3, <1>5, <2>1, Shifts
<1>7. Cardinality(DaysIn(Trim(w), d)) <= Cardinality(S) + 1
  <2>1. Cardinality(S) = IF Len(Trim(w)) \in DaysIn(Trim(w), d) THEN Cardinality(DaysIn(Trim(w), d)) - 1
                         ELSE Cardinality(DaysIn(Trim(w), d))
    BY <1>3, FS_RemoveElement
  <2>2. Cardinality(DaysIn(Trim(w), d)) \in Nat
    BY <1>3, FS_CardinalityType
  <2>. QED
    BY <2>1, <2>2
<1>8. Cardinality(S) \in Nat /\ Cardinality(T) \in Nat /\ Cardinality(DaysIn(Trim(w), d)) \in Nat
  BY <1>3, FS_CardinalityType, FS_RemoveElement
<1>9. Cardinality(DaysIn(Trim(w), d)) <= Cardinality(T) + 1
  BY <1>6, <1>7, <1>8
<1>10. Len(Trim(w)) <= Len(Trim(s)) + 1
  BY <1>0, <1>4 DEF t, tw
<1>. QED
  BY <1>9, <1>10 DEF w

\* What a restart finds in the file is no more of the day than what was made of it.
LEMMA PrefixCount ==
  ASSUME NEW f \in Seq(Nat), NEW g \in Seq(Nat), NEW d \in Nat, InOrder(f \o g, d)
  PROVE  /\ Cardinality(DaysIn(Trim(f), d)) <= Cardinality(DaysIn(Trim(f \o g), d))
         /\ Len(Trim(f)) <= Len(Trim(f \o g))
         /\ InOrder(f, d)
<1>. DEFINE w == f \o g
            S == DaysIn(Trim(f), d)
            T == DaysIn(Trim(w), d)
<1>0. KeptRecords \in Nat /\ Len(f) \in Nat /\ Len(g) \in Nat
  BY GateBounds
<1>1. /\ w \in Seq(Nat) /\ Len(w) = Len(f) + Len(g)
      /\ \A i \in 1 .. Len(f) : w[i] = f[i]
      /\ InOrder(w, d)
  OBVIOUS
<1>. HIDE DEF w
<1>2. /\ Trim(f) \in Seq(Nat) /\ Trim(w) \in Seq(Nat)
      /\ Len(Trim(f)) = IF Len(f) <= KeptRecords THEN Len(f) ELSE KeptRecords
      /\ Len(Trim(w)) = IF Len(w) <= KeptRecords THEN Len(w) ELSE KeptRecords
      /\ \A i \in 1 .. Len(Trim(f)) : Trim(f)[i] = f[i + (Len(f) - Len(Trim(f)))]
      /\ \A i \in 1 .. Len(Trim(w)) : Trim(w)[i] = w[i + (Len(w) - Len(Trim(w)))]
  BY <1>1, TrimIs
<1>. DEFINE n == Len(f)
            m == Len(w)
            t == Len(Trim(f))
            tw == Len(Trim(w))
            k == tw - t
<1>3. /\ n \in Nat /\ m \in Nat /\ t \in Nat /\ tw \in Nat /\ n <= m
      /\ t = IF n <= KeptRecords THEN n ELSE KeptRecords
      /\ tw = IF m <= KeptRecords THEN m ELSE KeptRecords
      /\ \A i \in 1 .. n : w[i] = f[i]
      /\ \A i \in 1 .. t : Trim(f)[i] = f[i + (n - t)]
      /\ \A i \in 1 .. tw : Trim(w)[i] = w[i + (m - tw)]
      /\ DOMAIN Trim(f) = 1 .. t /\ DOMAIN Trim(w) = 1 .. tw
      /\ \A i, j \in 1 .. m : i <= j => w[i] <= w[j]
      /\ \A i \in 1 .. m : w[i] <= d /\ w[i] \in Nat
  <2>1. DOMAIN Trim(f) = 1 .. t /\ DOMAIN Trim(w) = 1 .. tw
    BY <1>2
  <2>2. /\ \A i \in 1 .. n : w[i] = f[i]
        /\ \A i \in 1 .. t : Trim(f)[i] = f[i + (n - t)]
        /\ \A i \in 1 .. tw : Trim(w)[i] = w[i + (m - tw)]
    BY <1>1, <1>2
  <2>3. /\ n \in Nat /\ m \in Nat /\ t \in Nat /\ tw \in Nat /\ n <= m
        /\ t = IF n <= KeptRecords THEN n ELSE KeptRecords
        /\ tw = IF m <= KeptRecords THEN m ELSE KeptRecords
    BY <1>0, <1>1, <1>2
  <2>4. /\ \A i, j \in 1 .. m : i <= j => w[i] <= w[j]
        /\ \A i \in 1 .. m : w[i] <= d /\ w[i] \in Nat
    BY <1>1 DEF InOrder
  <2>. HIDE DEF n, m, t, tw
  <2>. QED
    BY <2>1, <2>2, <2>3, <2>4
<1>. HIDE DEF n, m, t, tw
<1>3a. k \in Nat
  BY <1>0, <1>3
<1>4. ASSUME NEW i \in S PROVE i \in Nat /\ i + k \in T
  <2>. DEFINE p == i + (n - t)
              q == (i + k) + (m - tw)
  <2>1. i \in 1 .. t /\ Trim(f)[i] = d
    BY <1>3 DEF DaysIn, t
  <2>2. p \in 1 .. n /\ q \in 1 .. m /\ p \in 1 .. m /\ p <= q /\ i + k \in 1 .. tw
    <3>1. /\ n \in Nat /\ m \in Nat /\ t \in Nat /\ tw \in Nat /\ n <= m
          /\ t = IF n <= KeptRecords THEN n ELSE KeptRecords
          /\ tw = IF m <= KeptRecords THEN m ELSE KeptRecords
      BY <1>3
    <3>2. i \in 1 .. t
      BY <2>1
    <3>3. p \in 1 .. n /\ p \in 1 .. m
      BY <1>0, <3>1, <3>2
    <3>4. i + k \in 1 .. tw
      BY <1>0, <3>1, <3>2
    <3>5. q = i + (m - t) /\ q \in 1 .. m /\ p <= q
      BY <1>0, <3>1, <3>2
    <3>. QED
      BY <3>3, <3>4, <3>5
  <2>. HIDE DEF k
  <2>3. Trim(f)[i] = f[p] /\ Trim(w)[i + k] = w[q]
    BY <1>3, <2>1, <2>2
  <2>. HIDE DEF p, q
  <2>4. w[p] = d /\ w[p] <= w[q] /\ w[q] <= d /\ w[q] \in Nat
    BY <1>3, <2>1, <2>2, <2>3
  <2>5. Trim(w)[i + k] = d
    BY <2>3, <2>4
  <2>6. i + k \in DOMAIN Trim(w)
    BY <1>3, <2>2
  <2>. QED
    BY <2>1, <2>5, <2>6 DEF DaysIn
<1>5. IsFiniteSet(T)
  <2>1. tw \in Int /\ 1 \in Int
    BY <1>3
  <2>2. IsFiniteSet(1 .. tw)
    BY <2>1, FS_Interval, Zenon
  <2>3. T \subseteq 1 .. tw
    BY <1>3 DEF DaysIn
  <2>. QED
    BY <2>2, <2>3, FS_Subset
<1>6. Cardinality(S) <= Cardinality(T)
  <2>1. S \in SUBSET Nat
    BY <1>4
  <2>. HIDE DEF S, T, k
  <2>. QED
    BY <1>3a, <1>4, <1>5, <2>1, Shifts
<1>7. Len(Trim(f)) <= Len(Trim(w))
  BY <1>0, <1>3 DEF t, tw
<1>8. InOrder(f, d)
  <2>1. \A i \in 1 .. Len(f) : i \in 1 .. Len(w)
    BY <1>0, <1>1
  <2>. QED
    BY <1>1, <2>1 DEF InOrder
<1>. QED
  BY <1>6, <1>7, <1>8 DEF w

\* The records of a day are finitely many.
LEMMA DaysFinite ==
  ASSUME NEW s \in Seq(Nat), NEW d
  PROVE  IsFiniteSet(DaysIn(s, d)) /\ Cardinality(DaysIn(s, d)) \in Nat
<1>1. Len(s) \in Int /\ 1 \in Int /\ DaysIn(s, d) \subseteq 1 .. Len(s)
  BY DEF DaysIn
<1>2. IsFiniteSet(1 .. Len(s))
  BY <1>1, FS_Interval, Zenon
<1>3. IsFiniteSet(DaysIn(s, d))
  BY <1>1, <1>2, FS_Subset
<1>. QED
  BY <1>3, FS_CardinalityType

\* What a request that goes on changes: the members of two sets.
LEMMA AtIs ==
  ASSUME GateTyped, NEW c \in Clients, NEW at, client' = [client EXCEPT ![c] = at], NEW where
  PROVE  /\ IsFiniteSet(At(where)) /\ Cardinality(At(where)) \in Nat
         /\ At(where)' = IF at = where THEN At(where) \cup {c} ELSE At(where) \ {c}
         /\ Cardinality(At(where))' = Cardinality(At(where))
                + (IF at = where THEN 1 ELSE 0) - (IF client[c] = where THEN 1 ELSE 0)
<1>1. At(where)' = IF at = where THEN At(where) \cup {c} ELSE At(where) \ {c}
  BY DEF GateTyped, At
<1>2. At(where) \in SUBSET Clients /\ (c \in At(where) <=> client[c] = where)
  BY DEF At
<1>3. IsFiniteSet(At(where))
  BY <1>2, GateBounds, FS_Subset
<1>4. Cardinality(At(where)) \in Nat
  BY <1>3, FS_CardinalityType
<1>5. /\ Cardinality(At(where) \cup {c}) = IF c \in At(where) THEN Cardinality(At(where)) ELSE Cardinality(At(where)) + 1
      /\ Cardinality(At(where) \ {c}) = IF c \in At(where) THEN Cardinality(At(where)) - 1 ELSE Cardinality(At(where))
  BY <1>3, FS_AddElement, FS_RemoveElement
<1>. QED
  BY <1>1, <1>2, <1>3, <1>4, <1>5

\* Two for each of some clients and one for each of others are at most two for each.
LEMMA TwoEach ==
  ASSUME NEW A \in SUBSET Clients, NEW B \in SUBSET Clients, A \cap B = {}
  PROVE  /\ 2 * Cardinality(A) + Cardinality(B) \in Nat
         /\ 2 * Cardinality(A) + Cardinality(B) <= 2 * Cardinality(Clients)
<1>1. IsFiniteSet(A) /\ IsFiniteSet(B) /\ A \cup B \in SUBSET Clients
  BY GateBounds, FS_Subset
<1>2. IsFiniteSet(A \cup B) /\ Cardinality(A \cup B) <= Cardinality(Clients)
  BY <1>1, GateBounds, FS_Subset
<1>3. Cardinality(A) \in Nat /\ Cardinality(B) \in Nat /\ Cardinality({}) = 0
  BY <1>1, FS_CardinalityType, FS_EmptySet
<1>4. Cardinality(A \cup B) = Cardinality(A) + Cardinality(B) - Cardinality(A \cap B)
  BY <1>1, FS_Union
<1>5. Cardinality(A) + Cardinality(B) <= Cardinality(Clients) /\ Cardinality(Clients) \in Nat
  BY <1>2, <1>3, <1>4, GateBounds
<1>. QED
  BY <1>3, <1>5

\* The records to come are at most two for every client.
LEMMA ToComeIs == Unrecorded \in Nat /\ Unrecorded <= 2 * Cardinality(Clients)
<1>1. /\ Unrecorded = 2 * Cardinality(At("served")) + Cardinality(At("recorded"))
      /\ At("served") \in SUBSET Clients /\ At("recorded") \in SUBSET Clients
      /\ At("served") \cap At("recorded") = {}
  BY DEF Unrecorded, At
<1>. QED
  BY <1>1, TwoEach

\* A request that goes on takes the records it may still make from those to come, and
\* puts back those it may make where it goes.
LEMMA ToComeAfter ==
  ASSUME GateTyped, NEW c \in Clients, NEW at, client' = [client EXCEPT ![c] = at]
  PROVE  /\ Unrecorded' = Unrecorded - ToCome(client[c]) + ToCome(at)
         /\ Unrecorded' \in Nat /\ Unrecorded' <= 2 * Cardinality(Clients)
<1>1. /\ Unrecorded = 2 * Cardinality(At("served")) + Cardinality(At("recorded"))
      /\ Unrecorded' = 2 * Cardinality(At("served"))' + Cardinality(At("recorded"))'
  BY DEF Unrecorded, At
<1>. DEFINE where == "served"
            then == "recorded"
            n == Cardinality(At(where))
            m == Cardinality(At(then))
<1>2. n \in Nat /\ n' = n + (IF at = where THEN 1 ELSE 0) - (IF client[c] = where THEN 1 ELSE 0)
  BY AtIs
<1>3. m \in Nat /\ m' = m + (IF at = then THEN 1 ELSE 0) - (IF client[c] = then THEN 1 ELSE 0)
  BY AtIs
<1>4. Unrecorded' = Unrecorded - ToCome(client[c]) + ToCome(at)
  <2>1. Unrecorded = 2 * n + m /\ Unrecorded' = 2 * n' + m'
    BY <1>1
  <2>2. \A x : ToCome(x) = 2 * (IF x = where THEN 1 ELSE 0) + (IF x = then THEN 1 ELSE 0)
    BY DEF ToCome
  <2>3. ToCome(client[c]) = 2 * (IF client[c] = where THEN 1 ELSE 0) + (IF client[c] = then THEN 1 ELSE 0)
    BY <2>2
  <2>4. ToCome(at) = 2 * (IF at = where THEN 1 ELSE 0) + (IF at = then THEN 1 ELSE 0)
    BY <2>2
  <2>. HIDE DEF n, m
  <2>. QED
    BY <1>2, <1>3, <2>1, <2>3, <2>4
<1>5. Unrecorded' \in Nat /\ Unrecorded' <= 2 * Cardinality(Clients)
  <2>1. /\ At("served")' \in SUBSET Clients /\ At("recorded")' \in SUBSET Clients
        /\ At("served")' \cap At("recorded")' = {}
    BY DEF At
  <2>. QED
    BY <1>1, <2>1, TwoEach
<1>. QED
  BY <1>4, <1>5

\* A request goes on and nothing is recorded.
LEMMA RequestGoesOn ==
  ASSUME GateInv, NEW c \in Clients,
         NEW at \in {"idle", "valid", "found", "unlimited", "rated", "served"},
         client' = [client EXCEPT ![c] = at], UNCHANGED <<usage, keyHere>>,
         ledger'.made = ledger.made, ledger'.spoiled = ledger.spoiled, ledger'.day = ledger.day,
         ledger' \in [minute : Nat, made : Seq(Nat), spoiled : BOOLEAN, day : 0 .. LastDay],
         window' \in [current : BOOLEAN, n : 0 .. Rate], WindowCounts',
         at = "unlimited" => ~ keyHere,
         at = "served" => WithinQuota
  PROVE  GateInv'
<1>. USE DEF GateInv
<1>1. GateTyped' /\ LogHolds'
  BY DEF GateTyped, LogHolds
<1>2. Today' = Today
  BY DEF Today
<1>3. /\ Today \in Nat /\ Len(usage.memory) \in Nat /\ Unrecorded \in Nat /\ Cardinality(Clients) \in Nat
      /\ DailyQuota \in Nat /\ TotalQuota \in Nat
  <2>1. usage.memory \in Seq(Nat)
    BY DEF GateTyped
  <2>2. Today = Cardinality(DaysIn(usage.memory, ledger.day))
    BY DEF Today, DaysIn
  <2>3. Today \in Nat
    BY <2>1, <2>2, DaysFinite
  <2>. QED
    BY <2>1, <2>3, ToComeIs, GateBounds
<1>4. /\ at # "served" => Unrecorded' <= Unrecorded
      /\ Unrecorded' \in Nat /\ Unrecorded' <= 2 * Cardinality(Clients)
  <2>1. /\ Unrecorded' = Unrecorded - ToCome(client[c]) + ToCome(at)
        /\ Unrecorded' \in Nat /\ Unrecorded' <= 2 * Cardinality(Clients)
    BY ToComeAfter
  <2>2. ToCome(client[c]) \in Nat /\ (at # "served" => ToCome(at) = 0)
    BY DEF ToCome
  <2>. QED
    BY <1>3, <2>1, <2>2
<1>5. \A d \in Clients : client'[d] = IF d = c THEN at ELSE client[d]
  BY DEF GateTyped
<1>6. QuotasHold'
  <2>1. CASE at = "served"
    <3>1. Today + Unrecorded' < DailyQuota + 2 * Cardinality(Clients)
          /\ Len(usage.memory) + Unrecorded' < TotalQuota + 2 * Cardinality(Clients)
      BY <1>3, <1>4, <2>1 DEF WithinQuota
    <3>. QED
      BY <1>2, <1>5, <2>1, <3>1 DEF QuotasHold
  <2>2. CASE at # "served"
    <3>1. keyHere /\ ~ledger.spoiled => Today + Unrecorded' < DailyQuota + 2 * Cardinality(Clients)
          /\ Len(usage.memory) + Unrecorded' < TotalQuota + 2 * Cardinality(Clients)
      <4>1. keyHere /\ ~ledger.spoiled => Today + Unrecorded < DailyQuota + 2 * Cardinality(Clients)
            /\ Len(usage.memory) + Unrecorded < TotalQuota + 2 * Cardinality(Clients)
        BY DEF QuotasHold
      <4>. QED
        BY ONLY <1>3, <1>4, <2>2, <4>1
    <3>. QED
      BY <1>2, <1>5, <2>2, <3>1 DEF QuotasHold
  <2>. QED
    BY <2>1, <2>2
<1>. QED
  BY <1>1, <1>6

\* A request that ends is written into the log, if it was served under the key.
LEMMA Finishes == ASSUME GateInv, NEW c \in Clients, Finish(c) PROVE GateInv'
<1>. USE DEF GateInv
<1>0. /\ UNCHANGED <<keyHere, window>>
      /\ client[c] \in {"served", "recorded", "unlimited"}
  BY DEF Finish
<1>1. CASE client' = [client EXCEPT ![c] = "idle"] /\ UNCHANGED <<usage, ledger>>
  <2>1. WindowCounts'
    BY <1>0, <1>1 DEF WindowCounts
  <2>2. /\ ledger' \in [minute : Nat, made : Seq(Nat), spoiled : BOOLEAN, day : 0 .. LastDay]
        /\ window' \in [current : BOOLEAN, n : 0 .. Rate]
    BY <1>0, <1>1 DEF GateTyped
  <2>. QED
    BY <1>0, <1>1, <2>1, <2>2, RequestGoesOn
<1>2. ASSUME NEW at \in {"idle", "recorded"}, client' = [client EXCEPT ![c] = at],
             at = "recorded" => client[c] # "recorded",
             usage' = [usage EXCEPT !.memory = Trim(Append(@, ledger.day)), !.waiting = Append(@, ledger.day)],
             ledger' = [ledger EXCEPT !.made = Append(@, ledger.day)]
      PROVE  GateInv'
  <2>1. /\ usage.memory \in Seq(Nat) /\ usage.file \in Seq(Nat) /\ usage.writing \in Seq(Nat)
        /\ usage.waiting \in Seq(Nat) /\ ledger.made \in Seq(Nat) /\ ledger.day \in Nat
    BY GateBounds DEF GateTyped
  <2>2. Trim(Append(usage.memory, ledger.day)) \in Seq(Nat)
    <3>1. Append(usage.memory, ledger.day) \in Seq(Nat)
      BY <2>1
    <3>. QED
      BY <3>1, TrimIs
  <2>3. GateTyped'
    <3>1. usage' \in [memory : Seq(Nat), waiting : Seq(Nat), writing : Seq(Nat), file : Seq(Nat)]
      <4>1. Append(usage.waiting, ledger.day) \in Seq(Nat)
        BY <2>1
      <4>. QED
        BY <1>2, <2>2, <4>1 DEF GateTyped
    <3>2. ledger' \in [minute : Nat, made : Seq(Nat), spoiled : BOOLEAN, day : 0 .. LastDay]
      <4>1. Append(ledger.made, ledger.day) \in Seq(Nat)
        BY <2>1
      <4>. QED
        BY <1>2, <4>1 DEF GateTyped
    <3>3. client' \in [Clients -> {"idle", "valid", "found", "unlimited", "rated", "served", "recorded"}]
      BY <1>2 DEF GateTyped
    <3>. QED
      BY <1>0, <3>1, <3>2, <3>3 DEF GateTyped
  <2>4. WindowCounts'
    BY <1>0, <1>2 DEF WindowCounts, GateTyped
  <2>5. /\ usage'.memory = Trim(Append(usage.memory, ledger.day))
        /\ usage'.waiting = Append(usage.waiting, ledger.day)
        /\ usage'.file = usage.file /\ usage'.writing = usage.writing
        /\ ledger'.made = Append(ledger.made, ledger.day)
        /\ ledger'.day = ledger.day /\ ledger'.spoiled = ledger.spoiled
    BY <1>2 DEF GateTyped
  <2>6. usage'.memory = Trim(ledger'.made)
    BY <2>1, <2>5, TrimAppend DEF LogHolds
  <2>7. ASSUME ~ledger.spoiled
        PROVE  usage'.file \o usage'.writing \o usage'.waiting = ledger'.made
    <3>. DEFINE f == usage.file
                g == usage.writing
                h == usage.waiting
                day == ledger.day
    <3>1. f \in Seq(Nat) /\ g \in Seq(Nat) /\ h \in Seq(Nat) /\ day \in Nat
      BY <2>1
    <3>2. f \o g \o h = ledger.made
      BY <2>7 DEF LogHolds
    <3>3. /\ usage'.file = f /\ usage'.writing = g /\ usage'.waiting = Append(h, day)
          /\ ledger'.made = Append(ledger.made, day)
      BY <2>5
    <3>. HIDE DEF f, g, h, day
    <3>4. f \o g \o Append(h, day) = Append(f \o g \o h, day)
      BY <3>1
    <3>. QED
      BY <3>2, <3>3, <3>4, Zenon
  <2>8. ASSUME ~ledger.spoiled PROVE InOrder(ledger'.made, ledger'.day)
    <3>. DEFINE made == ledger.made
                day == ledger.day
    <3>1. made \in Seq(Nat) /\ day \in Nat /\ InOrder(made, day)
      BY <2>1, <2>8 DEF LogHolds
    <3>. HIDE DEF made, day
    <3>2. /\ Len(Append(made, day)) = Len(made) + 1 /\ Len(made) \in Nat
          /\ \A i \in 1 .. Len(made) : Append(made, day)[i] = made[i] /\ made[i] \in Nat
          /\ Append(made, day)[Len(made) + 1] = day
      BY <3>1
    <3>3. InOrder(Append(made, day), day)
      BY <3>1, <3>2 DEF InOrder
    <3>. QED
      BY <2>5, <3>3 DEF made, day
  <2>9. LogHolds'
    BY <2>5, <2>6, <2>7, <2>8 DEF LogHolds
  <2>10. ASSUME keyHere, ~ledger.spoiled
         PROVE  /\ Today' + Unrecorded' < DailyQuota + 2 * Cardinality(Clients)
                /\ Len(usage'.memory) + Unrecorded' < TotalQuota + 2 * Cardinality(Clients)
    <3>1. client[c] \in {"served", "recorded"}
      BY <1>0, <2>10 DEF QuotasHold
    <3>2. Unrecorded' <= Unrecorded - 1 /\ Unrecorded \in Nat /\ Unrecorded' \in Nat
      <4>1. Unrecorded' = Unrecorded - ToCome(client[c]) + ToCome(at) /\ Unrecorded' \in Nat
        BY <1>2, ToComeAfter
      <4>2. ToCome(client[c]) \in Nat /\ ToCome(at) \in Nat /\ ToCome(client[c]) >= ToCome(at) + 1
        BY <1>2, <3>1 DEF ToCome
      <4>. QED
        BY <4>1, <4>2, ToComeIs
    <3>3. /\ Today = Cardinality(DaysIn(Trim(ledger.made), ledger.day))
          /\ Today' = Cardinality(DaysIn(Trim(Append(ledger.made, ledger.day)), ledger.day))
      BY <2>5, <2>6 DEF Today, DaysIn, LogHolds
    <3>4. /\ Today' <= Today + 1
          /\ Len(usage'.memory) <= Len(usage.memory) + 1
      BY <2>1, <2>5, <2>6, <3>3, AppendCount DEF LogHolds
    <3>5. Today \in Nat /\ Today' \in Nat /\ Len(usage.memory) \in Nat /\ Len(usage'.memory) \in Nat
      <4>1. Append(ledger.made, ledger.day) \in Seq(Nat)
        BY <2>1
      <4>2. Trim(ledger.made) \in Seq(Nat) /\ Trim(Append(ledger.made, ledger.day)) \in Seq(Nat)
        BY <2>1, <4>1, TrimIs
      <4>. QED
        <5>1. Today \in Nat /\ Today' \in Nat
          BY <2>1, <3>3, <4>2, DaysFinite, Zenon
        <5>2. Len(usage.memory) \in Nat /\ Len(usage'.memory) \in Nat
          BY <2>2, <2>5, <4>2
        <5>. QED
          BY <5>1, <5>2
    <3>6. /\ Today + Unrecorded < DailyQuota + 2 * Cardinality(Clients)
          /\ Len(usage.memory) + Unrecorded < TotalQuota + 2 * Cardinality(Clients)
      BY <2>10 DEF QuotasHold
    <3>. QED
      BY <3>2, <3>4, <3>5, <3>6, GateBounds, SMTT(30)
  <2>11. QuotasHold'
    <3>1. keyHere' = keyHere /\ ledger'.spoiled = ledger.spoiled
      BY <1>0, <1>2 DEF GateTyped
    <3>2. ASSUME NEW d \in Clients, client[d] # "unlimited" PROVE client'[d] # "unlimited"
      BY <1>2, <3>2 DEF GateTyped
    <3>. QED
      BY <2>10, <3>1, <3>2 DEF QuotasHold
  <2>. QED
    BY <2>3, <2>4, <2>9, <2>11
<1>. QED
  BY <1>1, <1>2 DEF Finish, ClientGoes

\* The way to the file, which the requests do not see.
LEMMA WayToFile ==
  ASSUME GateInv, UNCHANGED <<keyHere, window, client>>,
         usage' \in [memory : Seq(Nat), waiting : Seq(Nat), writing : Seq(Nat), file : Seq(Nat)],
         usage'.memory = usage.memory,
         \/ /\ ledger' = ledger
            /\ usage'.file \o usage'.writing \o usage'.waiting = usage.file \o usage.writing \o usage.waiting
         \/ ledger' = [ledger EXCEPT !.spoiled = TRUE]
  PROVE  GateInv'
<1>. USE DEF GateInv
<1>1. /\ ledger' \in [minute : Nat, made : Seq(Nat), spoiled : BOOLEAN, day : 0 .. LastDay]
      /\ ledger'.made = ledger.made /\ ledger'.day = ledger.day /\ ledger'.minute = ledger.minute
      /\ ~ledger'.spoiled =>
           /\ ~ledger.spoiled
           /\ usage'.file \o usage'.writing \o usage'.waiting = usage.file \o usage.writing \o usage.waiting
  BY DEF GateTyped
<1>2. GateTyped' /\ WindowCounts'
  BY <1>1 DEF GateTyped, WindowCounts
<1>3. LogHolds'
  BY <1>1 DEF LogHolds
<1>4. Today' = Today /\ Unrecorded' = Unrecorded
  BY <1>1 DEF Today, Unrecorded
<1>5. QuotasHold'
  BY <1>1, <1>4 DEF QuotasHold
<1>. QED
  BY <1>2, <1>3, <1>5

\* A start reads the log that was written.
LEMMA Restarts == ASSUME GateInv, StartFromFile PROVE GateInv'
<1>. USE DEF GateInv
<1>1. /\ usage.memory \in Seq(Nat) /\ usage.file \in Seq(Nat) /\ usage.writing \in Seq(Nat)
      /\ usage.waiting \in Seq(Nat) /\ ledger.made \in Seq(Nat) /\ ledger.day \in Nat
      /\ <<>> \in Seq(Nat)
  BY GateBounds DEF GateTyped
<1>2. Trim(usage.file) \in Seq(Nat)
  BY <1>1, TrimIs
<1>3. /\ usage' = [memory |-> Trim(usage.file), waiting |-> <<>>, writing |-> <<>>, file |-> usage.file]
      /\ ledger' = [ledger EXCEPT !.minute = 0, !.made = usage.file]
      /\ window' = [current |-> FALSE, n |-> 0] /\ client' = [c \in Clients |-> "idle"]
      /\ keyHere' = keyHere
  BY DEF StartFromFile
<1>4. /\ usage' \in [memory : Seq(Nat), waiting : Seq(Nat), writing : Seq(Nat), file : Seq(Nat)]
      /\ ledger' \in [minute : Nat, made : Seq(Nat), spoiled : BOOLEAN, day : 0 .. LastDay]
      /\ ledger'.minute = 0 /\ ledger'.made = usage.file /\ ledger'.day = ledger.day
      /\ ledger'.spoiled = ledger.spoiled
  BY <1>1, <1>2, <1>3 DEF GateTyped
<1>5. GateTyped' /\ WindowCounts'
  BY <1>3, <1>4, GateBounds DEF GateTyped, WindowCounts
<1>. DEFINE later == usage.writing \o usage.waiting
<1>6. later \in Seq(Nat)
  BY <1>1
<1>7. ~ledger.spoiled => ledger.made = usage.file \o later /\ InOrder(usage.file \o later, ledger.day)
  <2>1. (usage.file \o usage.writing) \o usage.waiting = usage.file \o (usage.writing \o usage.waiting)
    <3>. DEFINE M == Nat
                f == usage.file
                g == usage.writing
                h == usage.waiting
    <3>1. f \in Seq(M) /\ g \in Seq(M) /\ h \in Seq(M)
      BY <1>1
    <3>. HIDE DEF M, f, g, h
    <3>2. (f \o g) \o h = f \o (g \o h)
      BY ONLY <3>1, ConcatAssociative, SMT
    <3>. QED
      BY <3>2, Zenon DEF f, g, h
  <2>. QED
    BY <2>1, Zenon DEF LogHolds
<1>. HIDE DEF later
<1>8. ~ledger.spoiled =>
        /\ Cardinality(DaysIn(Trim(usage.file), ledger.day)) <= Cardinality(DaysIn(Trim(ledger.made), ledger.day))
        /\ Len(Trim(usage.file)) <= Len(Trim(ledger.made))
        /\ InOrder(usage.file, ledger.day)
  BY <1>1, <1>6, <1>7, PrefixCount
<1>9. LogHolds'
  <2>1. (usage.file \o <<>>) \o <<>> = usage.file
    BY <1>1
  <2>. QED
    BY <1>3, <1>4, <1>8, <2>1 DEF LogHolds
<1>10. Unrecorded' = 0
  <2>1. /\ {c \in Clients : client'[c] = "served"} = {}
        /\ {c \in Clients : client'[c] = "recorded"} = {}
    BY <1>3
  <2>. QED
    BY <2>1, FS_EmptySet DEF Unrecorded
<1>11. ASSUME keyHere, ~ledger.spoiled
       PROVE  /\ Today' + Unrecorded' < DailyQuota + 2 * Cardinality(Clients)
              /\ Len(usage'.memory) + Unrecorded' < TotalQuota + 2 * Cardinality(Clients)
  <2>1. /\ Today = Cardinality(DaysIn(Trim(ledger.made), ledger.day))
        /\ Today' = Cardinality(DaysIn(Trim(usage.file), ledger.day))
    BY <1>3, <1>4 DEF Today, DaysIn, LogHolds
  <2>2. /\ Len(usage.memory) = Len(Trim(ledger.made)) /\ Len(usage'.memory) = Len(Trim(usage.file))
    BY <1>3 DEF LogHolds
  <2>3. Trim(ledger.made) \in Seq(Nat)
    BY <1>1, TrimIs
  <2>4. /\ Today \in Nat /\ Today' \in Nat
    BY <1>2, <2>1, <2>3, DaysFinite
  <2>5. /\ Today + Unrecorded < DailyQuota + 2 * Cardinality(Clients)
        /\ Len(usage.memory) + Unrecorded < TotalQuota + 2 * Cardinality(Clients)
    BY <1>11 DEF QuotasHold
  <2>6. Len(usage.memory) \in Nat /\ Len(usage'.memory) \in Nat /\ Unrecorded \in Nat
    BY <1>1, <1>2, <1>3, ToComeIs
  <2>. QED
    BY <1>8, <1>10, <1>11, <2>1, <2>2, <2>4, <2>5, <2>6, GateBounds
<1>12. QuotasHold'
  BY <1>3, <1>4, <1>11 DEF QuotasHold
<1>. QED
  BY <1>5, <1>9, <1>12

\* On a new day nothing has been recorded yet.
LEMMA DayBegins == ASSUME GateInv, NextDay PROVE GateInv'
<1>. USE DEF GateInv
<1>1. /\ ledger' = [ledger EXCEPT !.day = @ + 1, !.minute = 0]
      /\ window' = [window EXCEPT !.current = FALSE]
      /\ UNCHANGED <<keyHere, client, usage>> /\ ledger.day < LastDay
  BY DEF NextDay
<1>2. /\ ledger' \in [minute : Nat, made : Seq(Nat), spoiled : BOOLEAN, day : 0 .. LastDay]
      /\ ledger'.minute = 0 /\ ledger'.made = ledger.made /\ ledger'.day = ledger.day + 1
      /\ ledger'.spoiled = ledger.spoiled /\ ledger.day \in Nat /\ ledger.made \in Seq(Nat)
  <2>1. /\ ledger \in [minute : Nat, made : Seq(Nat), spoiled : BOOLEAN, day : 0 .. LastDay]
        /\ ledger.day \in 0 .. LastDay
    BY DEF GateTyped
  <2>2. ledger.day + 1 \in 0 .. LastDay /\ ledger.day \in Nat
    BY <1>1, <2>1, GateBounds
  <2>. DEFINE tomorrow == ledger.day + 1
  <2>3. tomorrow \in 0 .. LastDay /\ ledger' = [ledger EXCEPT !.day = tomorrow, !.minute = 0]
    BY <1>1, <2>2
  <2>. HIDE DEF tomorrow
  <2>4. /\ ledger' \in [minute : Nat, made : Seq(Nat), spoiled : BOOLEAN, day : 0 .. LastDay]
        /\ ledger'.minute = 0 /\ ledger'.made = ledger.made /\ ledger'.day = tomorrow
        /\ ledger'.spoiled = ledger.spoiled /\ ledger.made \in Seq(Nat)
    BY <2>1, <2>3
  <2>. QED
    BY <2>2, <2>4 DEF tomorrow
<1>3. GateTyped' /\ WindowCounts'
  <2>1. window' \in [current : BOOLEAN, n : 0 .. Rate] /\ window'.current = FALSE
    BY <1>1 DEF GateTyped
  <2>2. GateTyped'
    BY <1>1, <1>2, <2>1 DEF GateTyped
  <2>. QED
    BY <1>2, <2>1, <2>2 DEF WindowCounts
<1>4. \A i \in 1 .. Len(ledger.made) : ledger.made[i] \in Nat
  BY <1>2
<1>5. LogHolds'
  <2>1. ASSUME ~ledger.spoiled PROVE InOrder(ledger.made, ledger.day + 1)
    <3>1. InOrder(ledger.made, ledger.day)
      BY <2>1 DEF LogHolds
    <3>. QED
      BY <1>2, <1>4, <3>1 DEF InOrder
  <2>. QED
    BY <1>1, <1>2, <2>1 DEF LogHolds
<1>6. Unrecorded' = Unrecorded /\ Unrecorded \in Nat /\ Unrecorded <= 2 * Cardinality(Clients)
  BY <1>1, ToComeIs DEF Unrecorded
<1>7. ASSUME ~ledger.spoiled PROVE Today' = 0
  <2>1. InOrder(ledger.made, ledger.day) /\ usage.memory = Trim(ledger.made)
    BY <1>7 DEF LogHolds
  <2>2. /\ \A i \in 1 .. Len(Trim(ledger.made)) :
             Trim(ledger.made)[i] = ledger.made[i + (Len(ledger.made) - Len(Trim(ledger.made)))]
        /\ Len(Trim(ledger.made)) <= Len(ledger.made) /\ Trim(ledger.made) \in Seq(Nat)
    BY <1>2, TrimIs
  <2>3. ASSUME NEW i \in DOMAIN usage.memory PROVE usage.memory[i] # ledger.day + 1
    <3>. DEFINE n == Len(ledger.made)
                t == Len(Trim(ledger.made))
                k == i + (n - t)
    <3>1. /\ n \in Nat /\ t \in Nat /\ t <= n
          /\ \A l \in 1 .. t : Trim(ledger.made)[l] = ledger.made[l + (n - t)]
          /\ DOMAIN usage.memory = 1 .. t
      BY <1>2, <2>1, <2>2
    <3>. HIDE DEF n, t
    <3>1a. i \in 1 .. t
      BY <2>3, <3>1
    <3>1b. usage.memory[i] = ledger.made[k]
      BY <2>1, <3>1, <3>1a
    <3>2. k \in 1 .. n
      BY <3>1, <3>1a
    <3>. HIDE DEF k
    <3>3. ledger.made[k] \in Nat /\ ledger.made[k] <= ledger.day
      BY <1>4, <2>1, <3>2 DEF InOrder, n
    <3>. QED
      BY <1>2, <3>1b, <3>3
  <2>4. {i \in DOMAIN usage'.memory : usage'.memory[i] = ledger'.day} = {}
    BY <1>1, <1>2, <2>3
  <2>. QED
    BY <2>4, FS_EmptySet DEF Today
<1>8. ASSUME keyHere, ~ledger.spoiled
      PROVE  /\ Today' + Unrecorded' < DailyQuota + 2 * Cardinality(Clients)
             /\ Len(usage'.memory) + Unrecorded' < TotalQuota + 2 * Cardinality(Clients)
  <2>1. Len(usage.memory) + Unrecorded < TotalQuota + 2 * Cardinality(Clients)
    BY <1>8 DEF QuotasHold
  <2>. QED
    BY <1>1, <1>6, <1>7, <1>8, <2>1, GateBounds
<1>9. QuotasHold'
  BY <1>1, <1>2, <1>8 DEF QuotasHold
<1>. QED
  BY <1>3, <1>5, <1>9

\* The first state has it.
LEMMA GateInitial == GateInit => GateInv
<1>. SUFFICES ASSUME GateInit PROVE GateInv
  OBVIOUS
<1>1. <<>> \in Seq(Nat) /\ Trim(<<>>) = <<>>
  <2>1. <<>> \in Seq(Nat)
    OBVIOUS
  <2>. QED
    BY <2>1, GateBounds DEF Trim
<1>2. GateTyped /\ WindowCounts
  BY <1>1, GateBounds DEF GateInit, GateTyped, WindowCounts
<1>3. LogHolds
  BY <1>1 DEF GateInit, LogHolds, InOrder
<1>4. Today = 0 /\ Unrecorded = 0 /\ Len(usage.memory) = 0
  <2>1. {i \in DOMAIN usage.memory : usage.memory[i] = ledger.day} = {}
    BY DEF GateInit
  <2>2. /\ {c \in Clients : client[c] = "served"} = {}
        /\ {c \in Clients : client[c] = "recorded"} = {}
    BY DEF GateInit
  <2>3. Cardinality({}) = 0
    BY FS_EmptySet
  <2>4. Today = 0
    BY <2>1, <2>3, Zenon DEF Today
  <2>5. Unrecorded = 2 * Cardinality({}) + Cardinality({})
    BY <2>2, Zenon DEF Unrecorded
  <2>6. Unrecorded = 0
    BY <2>3, <2>5
  <2>7. Len(usage.memory) = 0
    BY DEF GateInit
  <2>. QED
    BY <2>4, <2>6, <2>7
<1>5. QuotasHold
  BY <1>4, GateBounds DEF GateInit, QuotasHold
<1>. QED
  BY <1>2, <1>3, <1>5 DEF GateInv

\* Every step of a request, of the writer and of the clock keeps it.
LEMMA GateStep == GateInv /\ [GateNext]_gateVars => GateInv'
<1>. SUFFICES ASSUME GateInv, [GateNext]_gateVars PROVE GateInv'
  OBVIOUS
<1>. USE DEF GateInv
<1>1. CASE RemoveKey
  <2>1. keyHere' = FALSE /\ UNCHANGED <<window, client, usage, ledger>>
    BY <1>1 DEF RemoveKey
  <2>. QED
    BY <2>1 DEF GateTyped, WindowCounts, LogHolds, QuotasHold
<1>2. CASE TakeWaiting
  <2>1. /\ usage' = [usage EXCEPT !.writing = usage.waiting, !.waiting = <<>>]
        /\ usage.writing = <<>> /\ UNCHANGED <<keyHere, window, client, ledger>>
    BY <1>2 DEF TakeWaiting
  <2>2. /\ usage.file \in Seq(Nat) /\ usage.waiting \in Seq(Nat) /\ <<>> \in Seq(Nat)
    BY DEF GateTyped
  <2>3. /\ usage' \in [memory : Seq(Nat), waiting : Seq(Nat), writing : Seq(Nat), file : Seq(Nat)]
        /\ usage'.memory = usage.memory /\ usage'.file = usage.file
        /\ usage'.writing = usage.waiting /\ usage'.waiting = <<>>
    BY <2>1, <2>2 DEF GateTyped
  <2>4. \A f, g \in Seq(Nat) : (f \o g) \o <<>> = (f \o <<>>) \o g
    OBVIOUS
  <2>5. usage'.file \o usage'.writing \o usage'.waiting = usage.file \o usage.writing \o usage.waiting
    <3>1. (usage.file \o usage.waiting) \o <<>> = (usage.file \o <<>>) \o usage.waiting
      BY <2>2, <2>4, Zenon
    <3>. QED
      BY <2>1, <2>3, <3>1
  <2>. QED
    BY <2>1, <2>3, <2>5, WayToFile
<1>3. CASE Write
  <2>0. UNCHANGED <<keyHere, window, client>>
    BY <1>3 DEF Write
  <2>0a. /\ usage.file \in Seq(Nat) /\ usage.waiting \in Seq(Nat) /\ <<>> \in Seq(Nat)
         /\ usage.writing \in Seq(Nat)
    BY DEF GateTyped
  <2>1. /\ usage.file \in Seq(Nat) /\ usage.waiting \in Seq(Nat) /\ <<>> \in Seq(Nat)
        /\ usage.writing \in Seq(Nat) /\ UNCHANGED <<keyHere, window, client>>
    BY <2>0, <2>0a
  <2>2. CASE usage' = [usage EXCEPT !.file = @ \o usage.writing, !.writing = <<>>] /\ UNCHANGED ledger
    <3>1. usage.file \o usage.writing \in Seq(Nat)
      BY <2>1
    <3>2. /\ usage' \in [memory : Seq(Nat), waiting : Seq(Nat), writing : Seq(Nat), file : Seq(Nat)]
          /\ usage'.memory = usage.memory /\ usage'.file = usage.file \o usage.writing
          /\ usage'.writing = <<>> /\ usage'.waiting = usage.waiting
      BY <2>1, <2>2, <3>1 DEF GateTyped
    <3>3. (usage'.file \o <<>>) \o usage'.waiting = (usage.file \o usage.writing) \o usage.waiting
      BY <3>1, <3>2
    <3>. QED
      BY <2>1, <2>2, <3>2, <3>3, WayToFile
  <2>3. CASE usage' = [usage EXCEPT !.waiting = PutBack, !.writing = <<>>] /\ UNCHANGED ledger
    <3>1. PutBack \in Seq(Nat) /\ PutBack = usage.writing \o usage.waiting
      BY <2>1 DEF PutBack
    <3>2. /\ usage' \in [memory : Seq(Nat), waiting : Seq(Nat), writing : Seq(Nat), file : Seq(Nat)]
          /\ usage'.memory = usage.memory /\ usage'.file = usage.file
          /\ usage'.writing = <<>> /\ usage'.waiting = PutBack
      BY <2>1, <2>3, <3>1 DEF GateTyped
    <3>. DEFINE M == Nat
                f == usage.file
                g == usage.writing
                h == usage.waiting
    <3>3. f \in Seq(M) /\ g \in Seq(M) /\ h \in Seq(M)
      BY <2>1
    <3>. HIDE DEF M, f, g, h
    <3>4. (f \o <<>>) \o (g \o h) = (f \o g) \o h
      BY ONLY <3>3, ConcatAssociative, ConcatEmptySeq, SMT
    <3>. USE DEF f, g, h
    <3>. QED
      BY <2>1, <2>3, <3>1, <3>2, <3>4, WayToFile
  <2>4. CASE usage' = [usage EXCEPT !.writing = <<>>] /\ ledger' = [ledger EXCEPT !.spoiled = TRUE]
    <3>1. /\ usage' \in [memory : Seq(Nat), waiting : Seq(Nat), writing : Seq(Nat), file : Seq(Nat)]
          /\ usage'.memory = usage.memory
      BY <2>1, <2>4 DEF GateTyped
    <3>. QED
      BY <2>1, <2>4, <3>1, WayToFile
  <2>5. ASSUME NEW n \in 1 .. Len(usage.writing) - 1,
               usage' = [usage EXCEPT !.file = @ \o SubSeq(usage.writing, 1, n),
                                      !.waiting = PutBack, !.writing = <<>>],
               ledger' = [ledger EXCEPT !.spoiled = TRUE]
        PROVE  GateInv'
    <3>1. PutBack \in Seq(Nat) /\ usage.file \o SubSeq(usage.writing, 1, n) \in Seq(Nat)
      BY <2>1 DEF PutBack
    <3>2. /\ usage' \in [memory : Seq(Nat), waiting : Seq(Nat), writing : Seq(Nat), file : Seq(Nat)]
          /\ usage'.memory = usage.memory
      BY <2>1, <2>5, <3>1 DEF GateTyped
    <3>. QED
      BY <2>1, <2>5, <3>2, WayToFile
  <2>. QED
    BY <1>3, <2>2, <2>3, <2>4, <2>5 DEF Write
<1>4. CASE NextMinute
  <2>1. /\ window' = [window EXCEPT !.current = FALSE] /\ ledger' = [ledger EXCEPT !.minute = 0]
        /\ UNCHANGED <<keyHere, client, usage>>
    BY <1>4 DEF NextMinute
  <2>2. /\ ledger' \in [minute : Nat, made : Seq(Nat), spoiled : BOOLEAN, day : 0 .. LastDay]
        /\ ledger'.minute = 0 /\ ledger'.made = ledger.made /\ ledger'.day = ledger.day
        /\ ledger'.spoiled = ledger.spoiled
    BY <2>1 DEF GateTyped
  <2>3. GateTyped' /\ WindowCounts' /\ LogHolds'
    <3>1. window' \in [current : BOOLEAN, n : 0 .. Rate] /\ window'.current = FALSE
      BY <2>1 DEF GateTyped
    <3>2. GateTyped'
      BY <2>1, <2>2, <3>1 DEF GateTyped
    <3>3. WindowCounts'
      BY <2>2, <3>1 DEF WindowCounts
    <3>4. LogHolds'
      BY <2>1, <2>2 DEF LogHolds
    <3>. QED
      BY <3>2, <3>3, <3>4
  <2>4. Today' = Today /\ Unrecorded' = Unrecorded
    BY <2>1, <2>2 DEF Today, Unrecorded
  <2>5. QuotasHold'
    BY <2>1, <2>2, <2>4 DEF QuotasHold
  <2>. QED
    BY <2>3, <2>5
<1>5. ASSUME NEW c \in Clients, NEW at \in {"idle", "valid", "found", "unlimited", "rated", "served"},
             ClientGoes(c, at), UNCHANGED <<keyHere, window, usage, ledger>>,
             at = "unlimited" => ~keyHere, at = "served" => WithinQuota
      PROVE  GateInv'
  <2>1. /\ ledger' \in [minute : Nat, made : Seq(Nat), spoiled : BOOLEAN, day : 0 .. LastDay]
        /\ window' \in [current : BOOLEAN, n : 0 .. Rate] /\ WindowCounts'
    BY <1>5 DEF GateTyped, WindowCounts
  <2>. QED
    BY <1>5, <2>1, RequestGoesOn DEF ClientGoes
<1>6. ASSUME NEW c \in Clients, Present(c) \/ LookupRaw(c) \/ CheckQuota(c) PROVE GateInv'
  <2>1. CASE Present(c)
    BY <1>5, <2>1 DEF Present
  <2>2. CASE LookupRaw(c)
    BY <1>5, <2>2 DEF LookupRaw
  <2>3. CASE CheckQuota(c)
    BY <1>5, <2>3 DEF CheckQuota
  <2>. QED
    BY <1>6, <2>1, <2>2, <2>3
<1>7. ASSUME NEW c \in Clients, Allow(c) PROVE GateInv'
  <2>. DEFINE n == IF window.current THEN window.n ELSE 0
  <2>1. /\ window' = [current |-> TRUE, n |-> IF n < Rate THEN n + 1 ELSE n]
        /\ UNCHANGED <<keyHere, usage>>
        /\ \/ n < Rate /\ ClientGoes(c, "rated") /\ ledger' = [ledger EXCEPT !.minute = @ + 1]
           \/ ClientGoes(c, "idle") /\ UNCHANGED ledger
    BY <1>7 DEF Allow
  <2>2. n \in 0 .. Rate /\ ledger.minute \in Nat /\ ledger.minute <= n
    BY GateBounds DEF GateTyped, WindowCounts
  <2>. HIDE DEF n
  <2>3. window' \in [current : BOOLEAN, n : 0 .. Rate]
    BY <2>1, <2>2, GateBounds
  <2>4. CASE n < Rate /\ ClientGoes(c, "rated") /\ ledger' = [ledger EXCEPT !.minute = @ + 1]
    <3>1. /\ ledger' \in [minute : Nat, made : Seq(Nat), spoiled : BOOLEAN, day : 0 .. LastDay]
          /\ ledger'.made = ledger.made /\ ledger'.spoiled = ledger.spoiled /\ ledger'.day = ledger.day
          /\ ledger'.minute = ledger.minute + 1
      <4>. DEFINE m == ledger.minute + 1
      <4>1. m \in Nat /\ ledger' = [ledger EXCEPT !.minute = m]
        BY <2>2, <2>4
      <4>2. ledger \in [minute : Nat, made : Seq(Nat), spoiled : BOOLEAN, day : 0 .. LastDay]
        BY DEF GateTyped
      <4>. HIDE DEF m
      <4>3. /\ ledger' \in [minute : Nat, made : Seq(Nat), spoiled : BOOLEAN, day : 0 .. LastDay]
            /\ ledger'.made = ledger.made /\ ledger'.spoiled = ledger.spoiled /\ ledger'.day = ledger.day
            /\ ledger'.minute = m
        BY <4>1, <4>2
      <4>. QED
        BY <4>3 DEF m
    <3>2. WindowCounts'
      BY <2>1, <2>2, <2>4, <3>1, GateBounds DEF WindowCounts
    <3>. QED
      BY <2>1, <2>3, <2>4, <3>1, <3>2, RequestGoesOn DEF ClientGoes
  <2>5. CASE ClientGoes(c, "idle") /\ UNCHANGED ledger
    <3>1. ledger' \in [minute : Nat, made : Seq(Nat), spoiled : BOOLEAN, day : 0 .. LastDay]
      BY <2>5 DEF GateTyped
    <3>2. WindowCounts'
      BY <2>1, <2>2, <2>5, GateBounds DEF WindowCounts
    <3>. QED
      BY <2>1, <2>3, <2>5, <3>1, <3>2, RequestGoesOn DEF ClientGoes
  <2>. QED
    BY <2>1, <2>4, <2>5
<1>8. CASE UNCHANGED gateVars
  <2>1. UNCHANGED <<keyHere, window, client, usage, ledger>>
    BY <1>8 DEF gateVars
  <2>2. Today' = Today /\ Unrecorded' = Unrecorded
    BY <2>1 DEF Today, Unrecorded
  <2>. QED
    BY <2>1, <2>2 DEF GateTyped, WindowCounts, LogHolds, QuotasHold
<1>. HIDE DEF GateInv
<1>9. ASSUME NEW c \in Clients, Present(c) \/ LookupRaw(c) \/ Allow(c) \/ CheckQuota(c) \/ Finish(c)
      PROVE  GateInv'
  BY <1>6, <1>7, <1>9, Finishes
<1>. QED
  BY <1>1, <1>2, <1>3, <1>4, <1>8, <1>9, Restarts, DayBegins DEF GateNext

\* What the types and the quotas follow from.
LEMMA GateImplied == GateInv => GateTypeOK /\ QuotaLog
<1>. SUFFICES ASSUME GateInv PROVE GateTypeOK /\ QuotaLog
  OBVIOUS
<1>. USE DEF GateInv
<1>1. Len(usage.memory) <= KeptRecords
  <2>1. ledger.made \in Seq(Nat) /\ usage.memory = Trim(ledger.made)
    BY DEF GateTyped, LogHolds
  <2>2. Len(usage.memory) = IF Len(ledger.made) <= KeptRecords THEN Len(ledger.made) ELSE KeptRecords
    BY <2>1, TrimIs
  <2>. QED
    BY <2>1, <2>2, GateBounds
<1>2. ledger.minute \in 0 .. Rate
  BY GateBounds DEF GateTyped, WindowCounts
<1>3. GateTypeOK
  BY <1>1, <1>2 DEF GateTyped, GateTypeOK
<1>. QED
  BY <1>3 DEF QuotasHold, LogHolds, QuotaLog

\* What the window, the log in memory and its file count, in every state (keys.go,
\* usage.go).
THEOREM GateInvariant == GateSpec => []GateInv
BY GateInitial, GateStep, PTL DEF GateSpec

\* The variables hold values of their types.
THEOREM GateTypeCorrect == GateSpec => []GateTypeOK
BY GateInvariant, GateImplied, PTL

\* However requests interleave with the writing of the log, restarts and the clock, a key
\* is over its quotas by fewer than twice the requests served at once, and no record is lost,
\* doubled or moved on its way to the file (keys.go, usage.go).
THEOREM QuotaLogCorrect == GateSpec => []QuotaLog
BY GateInvariant, GateImplied, PTL
-----------------------------------------------------------------------------
Doing ==
  {Idle}
    \union [at : {"question"}, user : Users, ask : Asks]
    \union [at : {"call"}, user : Users, ask : Asks, conv : Convs]
    \union [at : {"answer", "count"}, user : Users, ask : Asks, conv : Convs, left : 1 .. MaxPictures]

Within(r) == r.at \in {"answer", "count"} => r.left <= AtMost[r.ask]

Savings == [owner : Users, conv : Convs, by : {{}} \union {{h} : h \in Handlers}]

PageTyped ==
  /\ users \in [known : SUBSET Users, enabled : SUBSET Users, session : SUBSET Users, key : SUBSET Users]
  /\ convs \in [Convs -> [owner : Users, old : BOOLEAN] \union {NoConv}]
  /\ saving \in Savings \union {NoConv}
  /\ janitor \in [conv : Convs] \union {NoConv}
  /\ gone \subseteq Convs

\* What was removed for good is neither on disk nor about to be saved.
RemovedStay == DeletedStaysDeleted /\ Loaded \intersect gone = {}

CountsTyped ==
  /\ handler \in [Handlers -> Doing] /\ \A h \in Handlers : Within(handler[h])
  /\ quota \in [Users \X Asks -> Nat] /\ spent \in [Users \X Asks -> Nat]

\* What a request will count for a user at most, and what it will surely count.
Owes(r, u, k) ==
  IF r.at # "idle" /\ r.user = u /\ r.ask = k
  THEN IF r.at \in {"answer", "count"} THEN r.left ELSE AtMost[k] ELSE 0
Holds(r, u, k) ==
  IF r.at \in {"answer", "count"} /\ r.user = u /\ r.ask = k THEN r.left ELSE 0

\* The sum of some numbers, one per handler, as the size of a set.
Units(w) == {p \in Handlers \X (1 .. MaxPictures) : p[2] <= w[p[1]]}
Total(w) == Cardinality(Units(w))

Owed(hs, u, k) == [h \in Handlers |-> Owes(hs[h], u, k)]
Held(hs, u, k) == [h \in Handlers |-> Holds(hs[h], u, k)]

\* What is counted and what is under way stay within the limit; what is given is counted
\* or is about to be.
QuotaLeaves ==
  \A u \in Users, k \in Asks :
    /\ quota[u, k] + Total(Owed(handler, u, k)) <= Most(k)
    /\ spent[u, k] <= quota[u, k] + Total(Held(handler, u, k))

PageInv == PageTyped /\ CountsTyped /\ RemovedStay /\ QuotaLeaves

Weights == [Handlers -> 0 .. MaxPictures]

\* Two and two numbers have the same sum.
SameSum(a, b, c, d) == a + b = c + d

\* The limits are positive, and the handlers finitely many.
LEMMA PageBounds ==
  /\ MaxPictures \in Nat \ {0} /\ IsFiniteSet(Handlers) /\ Cardinality(Handlers) \in Nat
  /\ \A k \in Asks : DailyLimit[k] \in Nat \ {0} /\ AtMost[k] \in 1 .. MaxPictures
<1>1. MaxPictures \in Nat \ {0} /\ IsFiniteSet(Handlers) /\ Cardinality(Handlers) \in Nat
  BY ChatPageAssumption, FS_CardinalityType
<1>2. \A k \in Asks : DailyLimit[k] \in Nat \ {0} /\ AtMost[k] \in 1 .. MaxPictures
  BY <1>1, ChatPageAssumption DEF Asks, AtMost
<1>. QED
  BY <1>1, <1>2

\* The limit of what a user can be given.
LEMMA MostIs ==
  ASSUME NEW k \in Asks
  PROVE  Most(k) \in Nat /\ Most(k) = DailyLimit[k] - 1 + Cardinality(Handlers) * AtMost[k]
<1>. DEFINE n == Cardinality(Handlers)
            m == AtMost[k]
            d == DailyLimit[k]
<1>1. n \in Nat /\ m \in Nat /\ d \in Nat \ {0}
  BY PageBounds
<1>2. Most(k) = d - 1 + n * m
  BY DEF Most
<1>. HIDE DEF n, m, d
<1>3. n * m \in Nat
  BY <1>1
<1>4. Most(k) \in Nat
  <2>. DEFINE x == n * m
  <2>1. x \in Nat /\ Most(k) = d - 1 + x
    BY <1>2, <1>3
  <2>. HIDE DEF x
  <2>. QED
    BY <1>1, <2>1
<1>. QED
  BY <1>2, <1>4 DEF n, m, d

\* The sum is finite, and no more than the members of a larger one.
LEMMA TotalIs ==
  ASSUME NEW w \in Weights
  PROVE  /\ IsFiniteSet(Units(w)) /\ Total(w) \in Nat
         /\ \A v \in Weights : (\A h \in Handlers : v[h] <= w[h]) => Total(v) <= Total(w)
<1>1. IsFiniteSet(Handlers \X (1 .. MaxPictures))
  <2>1. IsFiniteSet(1 .. MaxPictures)
    BY PageBounds, FS_Interval
  <2>. QED
    BY <2>1, PageBounds, FS_Product
<1>2. IsFiniteSet(Units(w)) /\ Total(w) \in Nat
  <2>1. Units(w) \in SUBSET (Handlers \X (1 .. MaxPictures))
    BY DEF Units
  <2>. QED
    BY <1>1, <2>1, FS_Subset, FS_CardinalityType DEF Total
<1>3. ASSUME NEW v \in Weights, \A h \in Handlers : v[h] <= w[h] PROVE Total(v) <= Total(w)
  <2>1. Units(v) \subseteq Units(w)
    <3>. SUFFICES ASSUME NEW h \in Handlers, NEW i \in 1 .. MaxPictures, i <= v[h] PROVE i <= w[h]
      BY DEF Units
    <3>1. v[h] \in Nat /\ w[h] \in Nat /\ i \in Nat /\ v[h] <= w[h]
      BY <1>3, PageBounds DEF Weights
    <3>. QED
      BY <3>1
  <2>. QED
    BY <1>2, <2>1, FS_Subset DEF Total
<1>. QED
  BY <1>2, <1>3

\* One handler's part of the sum.
LEMMA PartOfTotal ==
  ASSUME NEW w \in Weights, NEW h \in Handlers
  PROVE  LET z == [w EXCEPT ![h] = 0] IN z \in Weights /\ Total(w) = Total(z) + w[h]
<1>. DEFINE z == [w EXCEPT ![h] = 0]
            Block == {h} \X (1 .. w[h])
<1>1. w[h] \in Nat /\ w[h] <= MaxPictures /\ MaxPictures \in Nat
  BY PageBounds DEF Weights
<1>2. z \in Weights
  BY <1>1 DEF Weights
<1>3. IsFiniteSet(Block) /\ Cardinality(Block) = w[h]
  <2>. DEFINE n == w[h]
  <2>0. n \in Nat /\ 1 \in Int /\ n \in Int
    BY <1>1
  <2>. HIDE DEF n
  <2>0a. IsFiniteSet(1 .. n) /\ Cardinality(1 .. n) = IF 1 > n THEN 0 ELSE n - 1 + 1
    BY <2>0, FS_Interval
  <2>1. IsFiniteSet(1 .. n) /\ Cardinality(1 .. n) = n
    BY <2>0, <2>0a
  <2>2. IsFiniteSet({h}) /\ Cardinality({h}) = 1
    BY FS_Singleton
  <2>3. IsFiniteSet({h} \X (1 .. n)) /\ Cardinality({h} \X (1 .. n)) = 1 * n
    <3>1. Cardinality({h} \X (1 .. n)) = Cardinality({h}) * Cardinality(1 .. n)
      BY <2>1, <2>2, FS_Product, Zenon
    <3>2. IsFiniteSet({h} \X (1 .. n))
      BY <2>1, <2>2, FS_Product, Zenon
    <3>. QED
      BY <2>1, <2>2, <3>1, <3>2, Zenon
  <2>4. 1 * n = n
    BY <2>0
  <2>. QED
    BY <2>3, <2>4 DEF n
<1>4. Units(w) = Units(z) \cup Block
  <2>1. ASSUME NEW p \in Units(w) PROVE p \in Units(z) \cup Block
    BY <1>1, <2>1 DEF Units, Weights
  <2>2. ASSUME NEW p \in Units(z) PROVE p \in Units(w)
    BY <1>1, <2>2 DEF Units, Weights
  <2>3. ASSUME NEW p \in Block PROVE p \in Units(w)
    BY <1>1, <2>3 DEF Units, Weights
  <2>. QED
    BY <2>1, <2>2, <2>3
<1>5. Units(z) \cap Block = {}
  BY <1>1 DEF Units, Weights
<1>6. Total(w) = Total(z) + w[h]
  <2>1. IsFiniteSet(Units(z)) /\ Total(z) \in Nat
    BY <1>2, TotalIs
  <2>. DEFINE U == Units(z)
  <2>. HIDE DEF U, Block
  <2>2. Cardinality(U \cup Block) = Cardinality(U) + Cardinality(Block) - Cardinality(U \cap Block)
    BY <1>3, <2>1, FS_Union DEF U
  <2>3. Cardinality(U \cap Block) = 0
    BY <1>5, FS_EmptySet DEF U
  <2>4. Cardinality(U) \in Nat /\ w[h] \in Nat
    BY <1>1, <2>1 DEF U, Total
  <2>5. Cardinality(U \cup Block) = Cardinality(U) + w[h]
    BY <1>3, <2>2, <2>3, <2>4
  <2>. QED
    BY <1>4, <2>5 DEF Total, U
<1>. QED
  BY <1>2, <1>6

\* What a change of one handler does to the sum.
LEMMA TotalChanges ==
  ASSUME NEW w \in Weights, NEW h \in Handlers, NEW n \in 0 .. MaxPictures
  PROVE  LET v == [w EXCEPT ![h] = n] IN v \in Weights /\ Total(v) + w[h] = Total(w) + n
<1>. DEFINE v == [w EXCEPT ![h] = n]
            z == [w EXCEPT ![h] = 0]
<1>1. v \in Weights /\ v[h] = n /\ [v EXCEPT ![h] = 0] = z
  BY DEF Weights
<1>. HIDE DEF v, z
<1>2. z \in Weights /\ Total(w) = Total(z) + w[h] /\ Total(v) = Total(z) + v[h]
  BY <1>1, PartOfTotal DEF z
<1>3. Total(z) \in Nat /\ w[h] \in Nat /\ n \in Nat
  BY <1>2, TotalIs, PageBounds DEF Weights
<1>. QED
  BY <1>1, <1>2, <1>3 DEF v

\* The sum of weights none of which is more than m.
LEMMA AllTotal ==
  ASSUME NEW w \in Weights, NEW m \in 1 .. MaxPictures, \A h \in Handlers : w[h] <= m
  PROVE  Total(w) <= Cardinality(Handlers) * m
<1>1. IsFiniteSet(1 .. m) /\ Cardinality(1 .. m) = m
  BY PageBounds, FS_Interval
<1>2. IsFiniteSet(Handlers \X (1 .. m)) /\ Cardinality(Handlers \X (1 .. m)) = Cardinality(Handlers) * m
  BY <1>1, PageBounds, FS_Product
<1>3. Units(w) \subseteq Handlers \X (1 .. m)
  <2>. SUFFICES ASSUME NEW h \in Handlers, NEW i \in 1 .. MaxPictures, i <= w[h] PROVE i \in 1 .. m
    BY DEF Units
  <2>1. w[h] \in Nat /\ w[h] <= m /\ m \in Nat
    BY PageBounds DEF Weights
  <2>. QED
    BY <2>1
<1>. QED
  BY <1>2, <1>3, FS_Subset DEF Total

\* A record without the fields of a request is none.
LEMMA IdleIs ==
  /\ Idle \in Doing /\ Idle.at = "idle" /\ Within(Idle)
  /\ \A r \in Doing : r.at = "idle" => r = Idle
  /\ \A u, k : Owes(Idle, u, k) = 0 /\ Holds(Idle, u, k) = 0
BY DEF Idle, Doing, Within, Owes, Holds

\* The numbers of a handler.
LEMMA DoingIs ==
  ASSUME NEW r \in Doing, Within(r), NEW u, NEW k \in Asks
  PROVE  /\ Owes(r, u, k) \in 0 .. MaxPictures /\ Owes(r, u, k) <= AtMost[k]
         /\ Holds(r, u, k) \in 0 .. MaxPictures /\ Holds(r, u, k) <= Owes(r, u, k)
<1>1. r.at \in {"answer", "count"} => r.left \in 1 .. MaxPictures /\ r.ask \in Asks
  BY DEF Doing, Idle
<1>2. AtMost[k] \in 1 .. MaxPictures /\ MaxPictures \in Nat
  BY PageBounds
<1>. QED
  BY <1>1, <1>2 DEF Owes, Holds, Within

\* The numbers of all handlers.
LEMMA OwedIs ==
  ASSUME NEW hs \in [Handlers -> Doing], \A h \in Handlers : Within(hs[h]), NEW u, NEW k \in Asks
  PROVE  /\ Owed(hs, u, k) \in Weights /\ Held(hs, u, k) \in Weights
         /\ \A h \in Handlers : Owed(hs, u, k)[h] <= AtMost[k] /\ Held(hs, u, k)[h] <= Owed(hs, u, k)[h]
<1>1. ASSUME NEW h \in Handlers
      PROVE  /\ Owes(hs[h], u, k) \in 0 .. MaxPictures /\ Owes(hs[h], u, k) <= AtMost[k]
             /\ Holds(hs[h], u, k) \in 0 .. MaxPictures /\ Holds(hs[h], u, k) <= Owes(hs[h], u, k)
  BY <1>1, DoingIs
<1>. QED
  BY <1>1 DEF Owed, Held, Weights

\* A handler goes from one thing to another.
LEMMA OneHandler ==
  ASSUME NEW hs \in [Handlers -> Doing], \A g \in Handlers : Within(hs[g]),
         NEW h \in Handlers, NEW r \in Doing, Within(r), NEW u, NEW k \in Asks,
         NEW new, new = [hs EXCEPT ![h] = r]
  PROVE      /\ new \in [Handlers -> Doing] /\ \A g \in Handlers : Within(new[g])
             /\ Total(Owed(new, u, k)) \in Nat /\ Total(Owed(hs, u, k)) \in Nat
             /\ Total(Held(new, u, k)) \in Nat /\ Total(Held(hs, u, k)) \in Nat
             /\ SameSum(Total(Owed(new, u, k)), Owes(hs[h], u, k), Total(Owed(hs, u, k)), Owes(r, u, k))
             /\ SameSum(Total(Held(new, u, k)), Holds(hs[h], u, k), Total(Held(hs, u, k)), Holds(r, u, k))
<1>1. new \in [Handlers -> Doing] /\ \A g \in Handlers : Within(new[g])
  OBVIOUS
<1>2. /\ Owed(new, u, k) = [Owed(hs, u, k) EXCEPT ![h] = Owes(r, u, k)]
      /\ Held(new, u, k) = [Held(hs, u, k) EXCEPT ![h] = Holds(r, u, k)]
  BY DEF Owed, Held
<1>3. Owed(hs, u, k)[h] = Owes(hs[h], u, k) /\ Held(hs, u, k)[h] = Holds(hs[h], u, k)
  BY DEF Owed, Held
<1>4. /\ Owed(hs, u, k) \in Weights /\ Held(hs, u, k) \in Weights
      /\ Owes(r, u, k) \in 0 .. MaxPictures /\ Holds(r, u, k) \in 0 .. MaxPictures
  BY OwedIs, DoingIs
<1>5. /\ Owed(new, u, k) \in Weights
      /\ Total(Owed(new, u, k)) + Owes(hs[h], u, k) = Total(Owed(hs, u, k)) + Owes(r, u, k)
  <2>. DEFINE w == Owed(hs, u, k)
              n == Owes(r, u, k)
  <2>1. w \in Weights /\ n \in 0 .. MaxPictures /\ w[h] = Owes(hs[h], u, k) /\ Owed(new, u, k) = [w EXCEPT ![h] = n]
    BY <1>2, <1>3, <1>4
  <2>. HIDE DEF w, n
  <2>2. [w EXCEPT ![h] = n] \in Weights /\ Total([w EXCEPT ![h] = n]) + w[h] = Total(w) + n
    BY <2>1, TotalChanges
  <2>. QED
    BY <2>1, <2>2 DEF w, n
<1>6. /\ Held(new, u, k) \in Weights
      /\ Total(Held(new, u, k)) + Holds(hs[h], u, k) = Total(Held(hs, u, k)) + Holds(r, u, k)
  <2>. DEFINE w == Held(hs, u, k)
              n == Holds(r, u, k)
  <2>1. w \in Weights /\ n \in 0 .. MaxPictures /\ w[h] = Holds(hs[h], u, k) /\ Held(new, u, k) = [w EXCEPT ![h] = n]
    BY <1>2, <1>3, <1>4
  <2>. HIDE DEF w, n
  <2>2. [w EXCEPT ![h] = n] \in Weights /\ Total([w EXCEPT ![h] = n]) + w[h] = Total(w) + n
    BY <2>1, TotalChanges
  <2>. QED
    BY <2>1, <2>2 DEF w, n
<1>. QED
  BY <1>1, <1>4, <1>5, <1>6, TotalIs DEF SameSum

\* The arithmetic of a step.
LEMMA Books ==
  ASSUME NEW q1 \in Nat, NEW q2 \in Nat, NEW s1 \in Nat, NEW s2 \in Nat,
         NEW o1 \in Nat, NEW o2 \in Nat, NEW h1 \in Nat, NEW h2 \in Nat,
         NEW a1 \in Nat, NEW a2 \in Nat, NEW b1 \in Nat, NEW b2 \in Nat, NEW m \in Nat,
         o2 + a1 = o1 + a2, h2 + b1 = h1 + b2, q1 + o1 <= m, s1 <= q1 + h1,
         q2 + a2 <= q1 + a1, s2 = 0 \/ s2 + q1 + b1 <= s1 + q2 + b2
  PROVE  q2 + o2 <= m /\ s2 <= q2 + h2
OBVIOUS

\* What one user is counted and given, after a step of one handler.
LEMMA UserBooks ==
  ASSUME NEW hs \in [Handlers -> Doing], \A g \in Handlers : Within(hs[g]),
         NEW h \in Handlers, NEW r \in Doing, Within(r), NEW u, NEW k \in Asks,
         NEW q1 \in Nat, NEW q2 \in Nat, NEW s1 \in Nat, NEW s2 \in Nat,
         q1 + Total(Owed(hs, u, k)) <= Most(k), s1 <= q1 + Total(Held(hs, u, k)),
         q2 + Owes(r, u, k) <= q1 + Owes(hs[h], u, k),
         s2 = 0 \/ s2 + q1 + Holds(hs[h], u, k) <= s1 + q2 + Holds(r, u, k),
         NEW new, new = [hs EXCEPT ![h] = r]
  PROVE      q2 + Total(Owed(new, u, k)) <= Most(k) /\ s2 <= q2 + Total(Held(new, u, k))
<1>. DEFINE o1 == Total(Owed(hs, u, k))
            h1 == Total(Held(hs, u, k))
            a1 == Owes(hs[h], u, k)
            a2 == Owes(r, u, k)
            b1 == Holds(hs[h], u, k)
            b2 == Holds(r, u, k)
            o2 == Total(Owed(new, u, k))
            h2 == Total(Held(new, u, k))
<1>1. /\ o1 \in Nat /\ o2 \in Nat /\ h1 \in Nat /\ h2 \in Nat
      /\ o2 + a1 = o1 + a2 /\ h2 + b1 = h1 + b2
  <2>1. /\ Total(Owed(new, u, k)) \in Nat /\ Total(Owed(hs, u, k)) \in Nat
        /\ Total(Held(new, u, k)) \in Nat /\ Total(Held(hs, u, k)) \in Nat
        /\ SameSum(Total(Owed(new, u, k)), Owes(hs[h], u, k), Total(Owed(hs, u, k)), Owes(r, u, k))
        /\ SameSum(Total(Held(new, u, k)), Holds(hs[h], u, k), Total(Held(hs, u, k)), Holds(r, u, k))
    BY OneHandler
  <2>. QED
    BY <2>1 DEF SameSum
<1>2. a1 \in Nat /\ a2 \in Nat /\ b1 \in Nat /\ b2 \in Nat
  <2>1. hs[h] \in Doing /\ Within(hs[h])
    OBVIOUS
  <2>2. /\ a1 \in 0 .. MaxPictures /\ a2 \in 0 .. MaxPictures
        /\ b1 \in 0 .. MaxPictures /\ b2 \in 0 .. MaxPictures
    BY <2>1, DoingIs
  <2>. HIDE DEF a1, a2, b1, b2
  <2>. QED
    BY <2>2, PageBounds
<1>3. Most(k) \in Nat
  BY MostIs
<1>4. /\ q1 + o1 <= Most(k) /\ s1 <= q1 + h1 /\ q2 + a2 <= q1 + a1
      /\ s2 = 0 \/ s2 + q1 + b1 <= s1 + q2 + b2
  OBVIOUS
<1>. HIDE DEF o1, o2, h1, h2, a1, a2, b1, b2
<1>5. q2 + o2 <= Most(k) /\ s2 <= q2 + h2
  BY <1>1, <1>2, <1>3, <1>4, Books
<1>. QED
  BY <1>5 DEF o2, h2

\* A step of one handler keeps the books when what it counts and gives is what it owed
\* and held.
LEMMA HandlerSteps ==
  ASSUME CountsTyped, QuotaLeaves, NEW h \in Handlers, NEW r \in Doing, Within(r),
         handler' = [handler EXCEPT ![h] = r],
         quota' \in [Users \X Asks -> Nat], spent' \in [Users \X Asks -> Nat],
         \A u \in Users, k \in Asks :
           /\ quota'[u, k] + Owes(r, u, k) <= quota[u, k] + Owes(handler[h], u, k)
           /\ \/ spent'[u, k] = 0
              \/ spent'[u, k] + quota[u, k] + Holds(handler[h], u, k)
                   <= spent[u, k] + quota'[u, k] + Holds(r, u, k)
  PROVE  CountsTyped' /\ QuotaLeaves'
<1>1. CountsTyped'
  BY DEF CountsTyped
<1>2. ASSUME NEW u \in Users, NEW k \in Asks
      PROVE  /\ quota'[u, k] + Total(Owed(handler', u, k)) <= Most(k)
             /\ spent'[u, k] <= quota'[u, k] + Total(Held(handler', u, k))
  <2>1. quota[u, k] \in Nat /\ quota'[u, k] \in Nat /\ spent[u, k] \in Nat /\ spent'[u, k] \in Nat
    BY DEF CountsTyped
  <2>2. handler \in [Handlers -> Doing] /\ \A g \in Handlers : Within(handler[g])
    BY DEF CountsTyped
  <2>3. /\ quota[u, k] + Total(Owed(handler, u, k)) <= Most(k)
        /\ spent[u, k] <= quota[u, k] + Total(Held(handler, u, k))
    BY DEF QuotaLeaves
  <2>4. /\ quota'[u, k] + Owes(r, u, k) <= quota[u, k] + Owes(handler[h], u, k)
        /\ \/ spent'[u, k] = 0
           \/ spent'[u, k] + quota[u, k] + Holds(handler[h], u, k)
                <= spent[u, k] + quota'[u, k] + Holds(r, u, k)
    OBVIOUS
  <2>. QED
    BY <2>1, <2>2, <2>3, <2>4, UserBooks
<1>. QED
  BY <1>1, <1>2 DEF QuotaLeaves

\* The counts do not depend on the users and the files.
LEMMA CountsKept ==
  ASSUME CountsTyped, QuotaLeaves, UNCHANGED <<handler, quota, spent>>
  PROVE  CountsTyped' /\ QuotaLeaves'
BY DEF CountsTyped, QuotaLeaves

\* The users and the files do not depend on the counts.
LEMMA FilesKept ==
  ASSUME PageTyped, RemovedStay, UNCHANGED <<users, convs, saving, janitor, gone>>
  PROVE  PageTyped' /\ RemovedStay'
BY DEF PageTyped, RemovedStay, DeletedStaysDeleted, Loaded

\* What is loaded.
LEMMA LoadedIs ==
  /\ Unlocked => Loaded = {}
  /\ \A u, c, by : Load(u, c, by) => Loaded = {} /\ Loaded' = {c}
  /\ \A by : Save(by) => Loaded = {saving.conv} /\ Loaded' = {}
<1>1. Unlocked => Loaded = {}
  BY DEF Unlocked, Loaded
<1>2. ASSUME NEW u, NEW c, NEW by, Load(u, c, by) PROVE Loaded = {} /\ Loaded' = {c}
  <2>1. saving' = [owner |-> u, conv |-> c, by |-> by]
    BY <1>2 DEF Load
  <2>2. saving' # NoConv /\ saving'.conv = c
    BY <2>1 DEF NoConv
  <2>. QED
    BY <1>1, <1>2, <2>2 DEF Load, Loaded
<1>3. ASSUME NEW by, Save(by) PROVE Loaded = {saving.conv} /\ Loaded' = {}
  BY <1>3 DEF Save, Loaded
<1>. QED
  BY <1>1, <1>2, <1>3

\* Only a conversation that was not deleted is loaded.
LEMMA Loads ==
  ASSUME PageTyped, RemovedStay, NEW u \in Users, NEW c \in Convs, c \notin gone,
         NEW by \in {{}} \union {{h} : h \in Handlers}, Load(u, c, by),
         UNCHANGED <<users, convs, janitor, gone>>
  PROVE  PageTyped' /\ RemovedStay'
<1>1. saving' \in Savings
  BY DEF Load, Savings
<1>2. PageTyped'
  BY <1>1 DEF PageTyped
<1>3. Loaded' = {c}
  BY LoadedIs
<1>4. RemovedStay'
  BY <1>3 DEF RemovedStay, DeletedStaysDeleted
<1>. QED
  BY <1>2, <1>4

\* A file is written only where nothing was deleted.
LEMMA Saves ==
  ASSUME PageTyped, RemovedStay, NEW by, Save(by), UNCHANGED <<users, janitor, gone>>
  PROVE  PageTyped' /\ RemovedStay'
<1>1. saving \in Savings
  BY DEF PageTyped, Save
<1>2. PICK c \in Convs, u \in Users : c = saving.conv /\ u = saving.owner
  BY <1>1 DEF Savings
<1>3. Loaded = {c} /\ Loaded' = {}
  BY <1>2, LoadedIs
<1>4. convs' = [convs EXCEPT ![c] = [owner |-> u, old |-> FALSE]] /\ saving' = NoConv
  BY <1>2 DEF Save
<1>5. [owner |-> u, old |-> FALSE] \in [owner : Users, old : BOOLEAN]
  OBVIOUS
<1>6. PageTyped'
  BY <1>4, <1>5 DEF PageTyped
<1>7. c \notin gone
  BY <1>3 DEF RemovedStay
<1>8. DeletedStaysDeleted'
  BY <1>4, <1>7 DEF PageTyped, RemovedStay, DeletedStaysDeleted
<1>. QED
  BY <1>3, <1>6, <1>8 DEF RemovedStay

\* Files are removed and remembered as gone, unless they are loaded.
LEMMA Removes ==
  ASSUME PageTyped, RemovedStay, NEW S \in SUBSET Convs,
         convs' = [c \in Convs |-> IF c \in S THEN NoConv ELSE convs[c]],
         gone' = gone \union (S \ Loaded), saving' = saving,
         users' \in [known : SUBSET Users, enabled : SUBSET Users, session : SUBSET Users, key : SUBSET Users],
         janitor' \in [conv : Convs] \union {NoConv}
  PROVE  PageTyped' /\ RemovedStay'
<1>1. convs' \in [Convs -> [owner : Users, old : BOOLEAN] \union {NoConv}]
  BY DEF PageTyped
<1>2. PageTyped'
  BY <1>1 DEF PageTyped
<1>3. DeletedStaysDeleted'
  BY DEF PageTyped, RemovedStay, DeletedStaysDeleted
<1>4. Loaded' = Loaded
  BY DEF Loaded
<1>5. Loaded' \intersect gone' = {}
  BY <1>4 DEF RemovedStay
<1>. QED
  BY <1>2, <1>3, <1>5 DEF RemovedStay

\* What the users, the administrator and the janitor do beside the requests.
UsersStep ==
  \/ \E u \in Users :
       \/ Login(u) \/ Logout(u) \/ DeleteUser(u) \/ DeleteKey(u)
       \/ \E on \in BOOLEAN : Enable(u, on)
       \/ \E c \in Convs : LoadToRename(u, c) \/ LoadToStrip(u, c) \/ DeleteConv(u, c)
  \/ \E c \in Convs : GrowOld(c) \/ Inspect(c)
  \/ SaveChanged \/ JanitorSweeps

\* What the administrator does to the users.
LEMMA UsersSteps == ASSUME PageInv, UsersStep PROVE PageInv'
<1>. DEFINE Fields == [known : SUBSET Users, enabled : SUBSET Users, session : SUBSET Users, key : SUBSET Users]
<1>0. PageTyped /\ CountsTyped /\ RemovedStay /\ QuotaLeaves
  BY DEF PageInv
<1>1. UNCHANGED <<handler, quota, spent>>
  BY DEF UsersStep, Login, Logout, DeleteUser, DeleteKey, Enable, LoadToRename, LoadToStrip, SaveChanged,
         DeleteConv, GrowOld, Inspect, JanitorSweeps
<1>2. CountsTyped' /\ QuotaLeaves'
  BY <1>0, <1>1, CountsKept
<1>3. ASSUME NEW u \in Users, Login(u) \/ Logout(u) \/ DeleteKey(u) \/ \E on \in BOOLEAN : Enable(u, on)
      PROVE  PageTyped' /\ RemovedStay'
  <2>1. UNCHANGED <<convs, saving, janitor, gone>>
    BY <1>3 DEF Login, Logout, DeleteKey, Enable
  <2>2. users \in Fields
    BY <1>0 DEF PageTyped
  <2>3. users' \in Fields
    <3>1. CASE Login(u)
      BY <2>2, <3>1 DEF Login
    <3>2. CASE Logout(u)
      BY <2>2, <3>2 DEF Logout
    <3>3. CASE DeleteKey(u)
      BY <2>2, <3>3 DEF DeleteKey
    <3>4. ASSUME NEW on \in BOOLEAN, Enable(u, on) PROVE users' \in Fields
      <4>1. CASE on
        BY <2>2, <3>4, <4>1 DEF Enable
      <4>2. CASE ~on
        BY <2>2, <3>4, <4>2 DEF Enable
      <4>. QED
        BY <4>1, <4>2
    <3>. QED
      BY <1>3, <3>1, <3>2, <3>3, <3>4
  <2>. QED
    BY <1>0, <2>1, <2>3 DEF PageTyped, RemovedStay, DeletedStaysDeleted, Loaded
<1>4. ASSUME NEW u \in Users, DeleteUser(u) PROVE PageTyped' /\ RemovedStay'
  <2>. DEFINE his == {c \in Convs : Mine(u, c)}
  <2>1. /\ convs' = [c \in Convs |-> IF c \in his THEN NoConv ELSE convs[c]] /\ gone' = gone \union his
        /\ users' = [users EXCEPT !.known = @ \ {u}, !.key = @ \ {u}] /\ UNCHANGED <<saving, janitor>>
        /\ Loaded = {}
    BY <1>4, LoadedIs DEF DeleteUser
  <2>2. users' \in Fields /\ janitor' \in [conv : Convs] \union {NoConv} /\ his \in SUBSET Convs
    BY <1>0, <2>1 DEF PageTyped
  <2>. HIDE DEF his
  <2>3. gone' = gone \union (his \ Loaded)
    BY <2>1
  <2>. QED
    BY <1>0, <2>1, <2>2, <2>3, Removes
<1>5. ASSUME NEW u \in Users, NEW c \in Convs, LoadToRename(u, c) \/ LoadToStrip(u, c)
      PROVE  PageTyped' /\ RemovedStay'
  <2>1. c \notin gone /\ Load(u, c, {}) /\ UNCHANGED <<users, convs, janitor, gone>>
    BY <1>0, <1>5 DEF LoadToRename, LoadToStrip, Mine, RemovedStay, DeletedStaysDeleted
  <2>. QED
    BY <1>0, <2>1, Loads
<1>5a. ASSUME SaveChanged PROVE PageTyped' /\ RemovedStay'
  BY <1>0, <1>5a, Saves DEF SaveChanged
<1>6. ASSUME NEW S \in SUBSET Convs, convs' = [c \in Convs |-> IF c \in S THEN NoConv ELSE convs[c]],
             gone' = gone \union (S \ Loaded), UNCHANGED <<users, saving>>,
             janitor' = janitor \/ janitor' = NoConv
      PROVE  PageTyped' /\ RemovedStay'
  <2>1. users' \in Fields /\ janitor' \in [conv : Convs] \union {NoConv}
    BY <1>0, <1>6 DEF PageTyped
  <2>. QED
    BY <1>0, <1>6, <2>1, Removes
<1>7. ASSUME NEW u \in Users, NEW c \in Convs, DeleteConv(u, c) PROVE PageTyped' /\ RemovedStay'
  <2>1. convs' = [d \in Convs |-> IF d \in {c} THEN NoConv ELSE convs[d]]
    BY <1>0, <1>7 DEF DeleteConv, PageTyped
  <2>2. /\ gone' = gone \union ({c} \ Loaded) /\ UNCHANGED <<users, saving, janitor>>
        /\ {c} \in SUBSET Convs
    BY <1>7, LoadedIs DEF DeleteConv, Authorised
  <2>. QED
    BY <1>6, <2>1, <2>2
<1>8. ASSUME NEW c \in Convs, GrowOld(c) PROVE PageTyped' /\ RemovedStay'
  <2>1. /\ convs[c] # NoConv /\ convs' = [convs EXCEPT ![c].old = TRUE]
        /\ UNCHANGED <<users, saving, janitor, gone>>
    BY <1>8 DEF GrowOld
  <2>2. convs[c] \in [owner : Users, old : BOOLEAN]
    BY <1>0, <2>1 DEF PageTyped
  <2>3. [convs[c] EXCEPT !.old = TRUE] \in [owner : Users, old : BOOLEAN]
    BY <2>2
  <2>4. convs' = [convs EXCEPT ![c] = [convs[c] EXCEPT !.old = TRUE]]
    BY <2>1
  <2>5. PageTyped'
    BY <1>0, <2>1, <2>3, <2>4 DEF PageTyped
  <2>6. RemovedStay'
    BY <1>0, <2>1, <2>4 DEF PageTyped, RemovedStay, DeletedStaysDeleted, Loaded
  <2>. QED
    BY <2>5, <2>6
<1>9. ASSUME NEW c \in Convs, Inspect(c) PROVE PageTyped' /\ RemovedStay'
  <2>1. janitor' = [conv |-> c] /\ UNCHANGED <<users, convs, saving, gone>>
    BY <1>9 DEF Inspect
  <2>2. [conv |-> c] \in [conv : Convs]
    OBVIOUS
  <2>. QED
    BY <1>0, <2>1, <2>2 DEF PageTyped, RemovedStay, DeletedStaysDeleted, Loaded
<1>10. ASSUME JanitorSweeps PROVE PageTyped' /\ RemovedStay'
  <2>1. janitor \in [conv : Convs]
    BY <1>0, <1>10 DEF PageTyped, JanitorSweeps
  <2>2. janitor.conv \in Convs
    BY <2>1
  <2>3. convs' = [d \in Convs |-> IF d \in {janitor.conv} THEN NoConv ELSE convs[d]]
    BY <1>0, <1>10, <2>2 DEF JanitorSweeps, PageTyped
  <2>4. /\ gone' = gone \union ({janitor.conv} \ Loaded)
        /\ UNCHANGED <<users, saving>> /\ janitor' = NoConv
    BY <1>10 DEF JanitorSweeps
  <2>5. {janitor.conv} \in SUBSET Convs
    BY <2>2
  <2>. QED
    BY <1>6, <2>3, <2>4, <2>5
<1>11. PageTyped' /\ RemovedStay'
  BY <1>3, <1>4, <1>5, <1>5a, <1>7, <1>8, <1>9, <1>10 DEF UsersStep
<1>. QED
  BY <1>2, <1>11 DEF PageInv

\* A request begins when less than the limit is counted, and then those that are served
\* at once can count no more than the limit allows.
LEMMA Begins ==
  ASSUME CountsTyped, QuotaLeaves, NEW h \in Handlers, NEW u \in Users, NEW k \in Asks, Begin(h, u, k)
  PROVE  CountsTyped' /\ QuotaLeaves'
<1>. DEFINE r == [at |-> "question", user |-> u, ask |-> k]
            new == [handler EXCEPT ![h] = r]
<1>1. /\ handler[h] = Idle /\ quota[u, k] < DailyLimit[k] /\ handler' = new
      /\ UNCHANGED <<quota, spent>>
  BY DEF Begin
<1>2. /\ handler \in [Handlers -> Doing] /\ \A g \in Handlers : Within(handler[g])
      /\ quota \in [Users \X Asks -> Nat] /\ spent \in [Users \X Asks -> Nat]
  BY DEF CountsTyped
<1>3. r \in Doing /\ Within(r) /\ r.at = "question" /\ r.user = u /\ r.ask = k
  BY DEF Doing, Within
<1>. HIDE DEF r
<1>4. /\ new \in [Handlers -> Doing] /\ \A g \in Handlers : Within(new[g])
  BY <1>2, <1>3
<1>. HIDE DEF new
<1>5. CountsTyped'
  BY <1>1, <1>2, <1>4 DEF CountsTyped
<1>6. ASSUME NEW v \in Users, NEW j \in Asks
      PROVE  /\ quota[v, j] + Total(Owed(new, v, j)) <= Most(j)
             /\ spent[v, j] <= quota[v, j] + Total(Held(new, v, j))
  <2>1. /\ Total(Owed(new, v, j)) \in Nat /\ Total(Owed(handler, v, j)) \in Nat
        /\ Total(Held(new, v, j)) \in Nat /\ Total(Held(handler, v, j)) \in Nat
        /\ SameSum(Total(Owed(new, v, j)), Owes(handler[h], v, j), Total(Owed(handler, v, j)), Owes(r, v, j))
        /\ SameSum(Total(Held(new, v, j)), Holds(handler[h], v, j), Total(Held(handler, v, j)), Holds(r, v, j))
    BY <1>2, <1>3, OneHandler DEF new
  <2>2. Owes(handler[h], v, j) = 0 /\ Holds(handler[h], v, j) = 0 /\ Holds(r, v, j) = 0
    BY <1>1, <1>3, IdleIs DEF Holds
  <2>3. /\ quota[v, j] + Total(Owed(handler, v, j)) <= Most(j)
        /\ spent[v, j] <= quota[v, j] + Total(Held(handler, v, j))
    BY DEF QuotaLeaves
  <2>4. Total(Held(new, v, j)) = Total(Held(handler, v, j))
    BY <2>1, <2>2 DEF SameSum
  <2>5. CASE v = u /\ j = k
    <3>1. Owed(new, u, k) \in Weights /\ \A g \in Handlers : Owed(new, u, k)[g] <= AtMost[k]
      BY <1>4, OwedIs
    <3>2. AtMost[k] \in 1 .. MaxPictures
      BY PageBounds
    <3>3. Total(Owed(new, u, k)) <= Cardinality(Handlers) * AtMost[k]
      BY <3>1, <3>2, AllTotal
    <3>. DEFINE x == Cardinality(Handlers) * AtMost[k]
    <3>4. Most(k) = DailyLimit[k] - 1 + x /\ x \in Nat
      <4>1. Cardinality(Handlers) \in Nat /\ AtMost[k] \in Nat
        BY <3>2, PageBounds
      <4>. QED
        BY <4>1, MostIs
    <3>5. Total(Owed(new, u, k)) <= x
      BY <3>3
    <3>. DEFINE q == quota[u, k]
                d == DailyLimit[k]
                o == Total(Owed(new, u, k))
                m == Most(k)
    <3>6. q \in Nat /\ d \in Nat /\ o \in Nat /\ q < d /\ m = d - 1 + x /\ o <= x
      BY <1>1, <1>2, <2>1, <2>5, <3>4, <3>5, PageBounds
    <3>. HIDE DEF x, q, d, o, m
    <3>6a. q + o <= m
      BY <3>4, <3>6
    <3>7. quota[u, k] + Total(Owed(new, u, k)) <= Most(k)
      BY <3>6a DEF q, o, m
    <3>. QED
      BY <2>3, <2>4, <2>5, <3>7
  <2>6. CASE ~(v = u /\ j = k)
    <3>1. Owes(r, v, j) = 0
      BY <1>3, <2>6 DEF Owes
    <3>2. Total(Owed(new, v, j)) = Total(Owed(handler, v, j))
      BY <2>1, <2>2, <3>1 DEF SameSum
    <3>. QED
      BY <2>3, <2>4, <3>2
  <2>. QED
    BY <2>5, <2>6
<1>7. QuotaLeaves'
  BY <1>1, <1>6 DEF QuotaLeaves
<1>. QED
  BY <1>5, <1>7

\* A request goes on, and neither counts nor gives anything.
LEMMA GoesOn ==
  ASSUME CountsTyped, QuotaLeaves, NEW h \in Handlers, NEW r \in Doing, Within(r),
         handler' = [handler EXCEPT ![h] = r], UNCHANGED <<quota, spent>>,
         \A u \in Users, k \in Asks :
           Owes(r, u, k) <= Owes(handler[h], u, k) /\ Holds(r, u, k) >= Holds(handler[h], u, k)
  PROVE  CountsTyped' /\ QuotaLeaves'
<1>1. /\ handler \in [Handlers -> Doing] /\ \A g \in Handlers : Within(handler[g])
      /\ quota \in [Users \X Asks -> Nat] /\ spent \in [Users \X Asks -> Nat]
  BY DEF CountsTyped
<1>2. handler[h] \in Doing /\ Within(handler[h])
  BY <1>1
<1>3. ASSUME NEW u \in Users, NEW k \in Asks
      PROVE  /\ quota[u, k] + Owes(r, u, k) <= quota[u, k] + Owes(handler[h], u, k)
             /\ spent[u, k] + quota[u, k] + Holds(handler[h], u, k)
                  <= spent[u, k] + quota[u, k] + Holds(r, u, k)
  <2>1. quota[u, k] \in Nat /\ spent[u, k] \in Nat
    BY <1>1
  <2>2. /\ Owes(r, u, k) \in Nat /\ Owes(handler[h], u, k) \in Nat
        /\ Holds(r, u, k) \in Nat /\ Holds(handler[h], u, k) \in Nat
    BY <1>2, DoingIs, PageBounds
  <2>. DEFINE q == quota[u, k]
              s == spent[u, k]
              o1 == Owes(handler[h], u, k)
              o2 == Owes(r, u, k)
              h1 == Holds(handler[h], u, k)
              h2 == Holds(r, u, k)
  <2>3. /\ q \in Nat /\ s \in Nat /\ o1 \in Nat /\ o2 \in Nat /\ h1 \in Nat /\ h2 \in Nat
        /\ o2 <= o1 /\ h2 >= h1
    BY <2>1, <2>2
  <2>. HIDE DEF q, s, o1, o2, h1, h2
  <2>4. q + o2 <= q + o1 /\ s + q + h1 <= s + q + h2
    BY <2>3
  <2>. QED
    BY <2>4 DEF q, s, o1, o2, h1, h2
<1>. QED
  BY <1>1, <1>3, HandlerSteps

\* A conversation is loaded for a question or an answer.
LEMMA LoadsForHandler ==
  ASSUME PageInv, NEW h \in Handlers, (\E c \in Convs : LoadQuestion(h, c)) \/ LoadAnswer(h)
  PROVE  PageInv'
<1>0. PageTyped /\ CountsTyped /\ RemovedStay /\ QuotaLeaves
  BY DEF PageInv
<1>1. handler[h] \in Doing
  BY <1>0 DEF CountsTyped
<1>2. PICK c \in Convs, u \in Users :
        c \notin gone /\ Load(u, c, {h}) /\ UNCHANGED <<users, convs, handler, quota, janitor, spent, gone>>
  <2>1. ASSUME NEW c \in Convs, LoadQuestion(h, c)
        PROVE  handler[h].user \in Users /\ c \notin gone
    <3>1. handler[h] \in [at : {"question"}, user : Users, ask : Asks]
      BY <1>1, <2>1 DEF LoadQuestion, Doing, Idle
    <3>. QED
      BY <1>0, <2>1, <3>1 DEF LoadQuestion, Mine, RemovedStay, DeletedStaysDeleted
  <2>2. ASSUME LoadAnswer(h)
        PROVE  handler[h].user \in Users /\ handler[h].conv \in Convs /\ handler[h].conv \notin gone
    <3>1. handler[h] \in [at : {"answer"}, user : Users, ask : Asks, conv : Convs, left : 1 .. MaxPictures]
      BY <1>1, <2>2 DEF LoadAnswer, Doing, Idle
    <3>. QED
      BY <1>0, <2>2, <3>1 DEF LoadAnswer, Mine, RemovedStay, DeletedStaysDeleted
  <2>. QED
    BY <2>1, <2>2 DEF LoadQuestion, LoadAnswer
<1>3. {h} \in {{}} \union {{g} : g \in Handlers}
  OBVIOUS
<1>4. PageTyped' /\ RemovedStay'
  BY <1>0, <1>2, <1>3, Loads
<1>5. CountsTyped' /\ QuotaLeaves'
  BY <1>0, <1>2, CountsKept
<1>. QED
  BY <1>4, <1>5 DEF PageInv

\* What is filed, and what is refused.
LEMMA Files ==
  ASSUME PageInv, NEW h \in Handlers,
         FileQuestion(h) \/ CallRefused(h) \/ FileAnswer(h) \/ NothingFiled(h)
  PROVE  PageInv'
<1>0. PageTyped /\ CountsTyped /\ RemovedStay /\ QuotaLeaves
  BY DEF PageInv
<1>1. handler \in [Handlers -> Doing] /\ handler[h] \in Doing /\ Within(handler[h])
  BY <1>0 DEF CountsTyped
<1>2. \A k \in Asks : AtMost[k] \in Nat
  BY PageBounds
<1>3. ASSUME FileQuestion(h) PROVE PageInv'
  <2>. DEFINE r == [at |-> "call", user |-> handler[h].user, ask |-> handler[h].ask,
                    conv |-> saving.conv]
  <2>1. handler[h] \in [at : {"question"}, user : Users, ask : Asks]
    BY <1>1, <1>3 DEF FileQuestion, Doing, Idle
  <2>1a. saving.conv \in Convs
    BY <1>0, <1>3 DEF FileQuestion, Save, PageTyped, Savings
  <2>2. /\ r \in Doing /\ Within(r)
        /\ r.at = "call" /\ r.user = handler[h].user /\ r.ask = handler[h].ask
    BY <2>1, <2>1a DEF Doing, Within
  <2>3. /\ handler' = [handler EXCEPT ![h] = r] /\ Save({h})
        /\ UNCHANGED <<users, quota, janitor, spent, gone>>
    BY <1>3 DEF FileQuestion
  <2>. HIDE DEF r
  <2>4. \A u \in Users, k \in Asks :
          Owes(r, u, k) <= Owes(handler[h], u, k) /\ Holds(r, u, k) >= Holds(handler[h], u, k)
    BY <1>2, <2>1, <2>2 DEF Owes, Holds
  <2>5. CountsTyped' /\ QuotaLeaves'
    BY <1>0, <2>2, <2>3, <2>4, GoesOn
  <2>7. PageTyped' /\ RemovedStay'
    BY <1>0, <2>3, Saves
  <2>. QED
    BY <2>5, <2>7 DEF PageInv
<1>4. ASSUME CallRefused(h) PROVE PageInv'
  <2>1. /\ handler' = [handler EXCEPT ![h] = Idle] /\ handler[h].at = "call"
        /\ UNCHANGED <<users, convs, saving, quota, janitor, spent, gone>>
    BY <1>4 DEF CallRefused
  <2>2. \A u \in Users, k \in Asks :
          Owes(Idle, u, k) <= Owes(handler[h], u, k) /\ Holds(Idle, u, k) >= Holds(handler[h], u, k)
    <3>1. \A u, k : Owes(Idle, u, k) = 0 /\ Holds(Idle, u, k) = 0
      BY IdleIs
    <3>2. \A u \in Users, k \in Asks : Owes(handler[h], u, k) >= 0 /\ Holds(handler[h], u, k) = 0
      BY <1>2, <2>1 DEF Owes, Holds
    <3>. QED
      BY <3>1, <3>2
  <2>3. CountsTyped' /\ QuotaLeaves'
    BY <1>0, <2>1, <2>2, IdleIs, GoesOn
  <2>4. PageTyped' /\ RemovedStay'
    BY <1>0, <2>1, FilesKept
  <2>. QED
    BY <2>3, <2>4 DEF PageInv
<1>5. ASSUME FileAnswer(h) \/ NothingFiled(h) PROVE PageInv'
  <2>. DEFINE r == [handler[h] EXCEPT !.at = "count"]
  <2>1. handler[h] \in [at : {"answer"}, user : Users, ask : Asks, conv : Convs, left : 1 .. MaxPictures]
    BY <1>1, <1>5 DEF FileAnswer, NothingFiled, Doing, Idle
  <2>2. /\ r \in [at : {"count"}, user : Users, ask : Asks, conv : Convs, left : 1 .. MaxPictures]
        /\ r.at = "count" /\ r.user = handler[h].user /\ r.ask = handler[h].ask /\ r.left = handler[h].left
    BY <2>1
  <2>3. /\ handler' = [handler EXCEPT ![h] = r]
        /\ UNCHANGED <<users, quota, janitor, spent, gone>>
    BY <1>1, <1>5 DEF FileAnswer, NothingFiled
  <2>3a. Save({h}) \/ UNCHANGED <<convs, saving>>
    BY <1>5 DEF FileAnswer, NothingFiled
  <2>. HIDE DEF r
  <2>4. r \in Doing /\ Within(r)
    BY <1>1, <2>1, <2>2 DEF Doing, Within
  <2>5. \A u \in Users, k \in Asks :
          Owes(r, u, k) <= Owes(handler[h], u, k) /\ Holds(r, u, k) >= Holds(handler[h], u, k)
    <3>1. \A u \in Users, k \in Asks :
            Owes(r, u, k) = Owes(handler[h], u, k) /\ Holds(r, u, k) = Holds(handler[h], u, k)
      BY <2>1, <2>2 DEF Owes, Holds
    <3>2. \A u \in Users, k \in Asks : Owes(r, u, k) \in Nat /\ Holds(r, u, k) \in Nat
      BY <2>4, DoingIs, PageBounds
    <3>. QED
      BY <3>1, <3>2
  <2>6. CountsTyped' /\ QuotaLeaves'
    BY <1>0, <2>3, <2>4, <2>5, GoesOn
  <2>7. PageTyped' /\ RemovedStay'
    <3>1. CASE UNCHANGED <<convs, saving>>
      BY <1>0, <2>3, <3>1, FilesKept
    <3>2. CASE Save({h})
      BY <1>0, <2>3, <3>2, Saves
    <3>. QED
      BY <2>3a, <3>1, <3>2
  <2>. QED
    BY <2>6, <2>7 DEF PageInv
<1>. QED
  BY <1>3, <1>4, <1>5

\* An answer, or so many pictures, are given: the request owes what it gave.
LEMMA Answers ==
  ASSUME PageInv, NEW h \in Handlers, NEW n \in 1 .. MaxPictures, CallAnswered(h, n)
  PROVE  PageInv'
<1>. DEFINE o == handler[h]
            r == [at |-> "answer", user |-> o.user, ask |-> o.ask, conv |-> o.conv, left |-> n]
<1>0. PageTyped /\ CountsTyped /\ RemovedStay /\ QuotaLeaves
  BY DEF PageInv
<1>1. handler \in [Handlers -> Doing] /\ o \in Doing /\ spent \in [Users \X Asks -> Nat]
      /\ quota \in [Users \X Asks -> Nat]
  BY <1>0 DEF CountsTyped
<1>2. o \in [at : {"call"}, user : Users, ask : Asks, conv : Convs]
  BY <1>1 DEF CallAnswered, Doing, Idle
<1>3. /\ handler' = [handler EXCEPT ![h] = r]
      /\ spent' = [spent EXCEPT ![<<o.user, o.ask>>] = @ + n]
      /\ UNCHANGED <<users, convs, saving, quota, janitor, gone>>
  BY DEF CallAnswered
<1>4. n \in Nat /\ n <= AtMost[o.ask] /\ AtMost[o.ask] \in Nat
  <2>1. o.ask \in {"chat", "image"} /\ (o.ask = "chat" => n = 1) /\ MaxPictures \in Nat
    BY <1>2, PageBounds DEF CallAnswered, Asks
  <2>2. CASE o.ask = "chat"
    BY <2>1, <2>2 DEF AtMost
  <2>3. CASE o.ask = "image"
    BY <2>1, <2>3 DEF AtMost
  <2>. QED
    BY <2>1, <2>2, <2>3
<1>5. /\ r \in Doing /\ Within(r)
      /\ r.at = "answer" /\ r.user = o.user /\ r.ask = o.ask /\ r.left = n
  BY <1>2, <1>4 DEF Doing, Within
<1>6. o.at = "call" /\ o.user \in Users /\ o.ask \in Asks
  BY <1>2
<1>. HIDE DEF o, r
<1>7. spent' \in [Users \X Asks -> Nat]
  BY <1>1, <1>3, <1>4, <1>6
<1>8. ASSUME NEW u \in Users, NEW k \in Asks
      PROVE  /\ quota'[u, k] + Owes(r, u, k) <= quota[u, k] + Owes(o, u, k)
             /\ \/ spent'[u, k] = 0
                \/ spent'[u, k] + quota[u, k] + Holds(o, u, k) <= spent[u, k] + quota'[u, k] + Holds(r, u, k)
  <2>. DEFINE q1 == quota[u, k]
              q2 == quota'[u, k]
              s1 == spent[u, k]
              s2 == spent'[u, k]
              a1 == Owes(o, u, k)
              a2 == Owes(r, u, k)
              b1 == Holds(o, u, k)
              b2 == Holds(r, u, k)
  <2>1. q1 \in Nat /\ s1 \in Nat
    BY <1>1
  <2>1a. q2 = q1
    BY <1>3
  <2>1b. AtMost[k] \in Nat
    BY PageBounds
  <2>2. CASE u = o.user /\ k = o.ask
    <3>. DEFINE m == AtMost[k]
    <3>1. a2 = n /\ a1 = m /\ b1 = 0 /\ b2 = n
      BY <1>5, <1>6, <2>2 DEF Owes, Holds
    <3>2. s2 = s1 + n
      BY <1>1, <1>3, <1>6, <2>2
    <3>3. n <= m /\ m \in Nat
      BY <1>4, <2>1b, <2>2
    <3>. HIDE DEF q1, q2, s1, s2, a1, a2, b1, b2, m
    <3>4. q2 + a2 <= q1 + a1 /\ (s2 = 0 \/ s2 + q1 + b1 <= s1 + q2 + b2)
      BY <1>4, <2>1, <2>1a, <3>1, <3>2, <3>3
    <3>. QED
      BY <3>4 DEF q1, q2, s1, s2, a1, a2, b1, b2
  <2>3. CASE ~(u = o.user /\ k = o.ask)
    <3>1. a1 = 0 /\ a2 = 0 /\ b1 = 0 /\ b2 = 0
      BY <1>5, <1>6, <2>3 DEF Owes, Holds
    <3>2. s2 = s1
      BY <1>1, <1>3, <1>6, <2>3
    <3>. HIDE DEF q1, q2, s1, s2, a1, a2, b1, b2
    <3>3. q2 + a2 <= q1 + a1 /\ (s2 = 0 \/ s2 + q1 + b1 <= s1 + q2 + b2)
      BY <2>1, <2>1a, <3>1, <3>2
    <3>. QED
      BY <3>3 DEF q1, q2, s1, s2, a1, a2, b1, b2
  <2>. QED
    BY <2>2, <2>3
<1>9. CountsTyped' /\ QuotaLeaves'
  <2>1. quota' \in [Users \X Asks -> Nat]
    BY <1>1, <1>3
  <2>2. handler' = [handler EXCEPT ![h] = r] /\ r \in Doing /\ Within(r)
    BY <1>3, <1>5
  <2>3. \A u \in Users, k \in Asks :
          /\ quota'[u, k] + Owes(r, u, k) <= quota[u, k] + Owes(handler[h], u, k)
          /\ \/ spent'[u, k] = 0
             \/ spent'[u, k] + quota[u, k] + Holds(handler[h], u, k)
                  <= spent[u, k] + quota'[u, k] + Holds(r, u, k)
    BY <1>8 DEF o
  <2>. QED
    BY <1>0, <1>7, <2>1, <2>2, <2>3, HandlerSteps
<1>10. PageTyped' /\ RemovedStay'
  BY <1>0, <1>3, FilesKept
<1>. QED
  BY <1>9, <1>10 DEF PageInv

\* One of what was given is counted, whether or not the day ends meanwhile.
LEMMA Counts ==
  ASSUME PageInv, NEW h \in Handlers, Count(h) \/ CountOverMidnight(h)
  PROVE  PageInv'
<1>. DEFINE o == handler[h]
            r == IF o.left = 1 THEN Idle ELSE [o EXCEPT !.left = o.left - 1]
<1>0. PageTyped /\ CountsTyped /\ RemovedStay /\ QuotaLeaves
  BY DEF PageInv
<1>1. /\ handler \in [Handlers -> Doing] /\ o \in Doing /\ spent \in [Users \X Asks -> Nat]
      /\ quota \in [Users \X Asks -> Nat] /\ Within(o)
  BY <1>0 DEF CountsTyped
<1>2. /\ o.at = "count" /\ UNCHANGED <<users, convs, saving, janitor, gone>>
      /\ quota' = [quota EXCEPT ![<<o.user, o.ask>>] = @ + 1]
      /\ spent' = spent \/ spent' = NoneUsed
  BY DEF Count, CountOverMidnight
<1>3. o \in [at : {"count"}, user : Users, ask : Asks, conv : Convs, left : 1 .. MaxPictures]
  BY <1>1, <1>2 DEF Doing, Idle
<1>4. handler' = [handler EXCEPT ![h] = r]
  <2>1. Counted(h)
    BY DEF Count, CountOverMidnight
  <2>2. handler' = [handler EXCEPT ![h] = IF handler[h].left = 1 THEN Idle
                                          ELSE [handler[h] EXCEPT !.left = handler[h].left - 1]]
    BY <2>1, Zenon DEF Counted
  <2>. QED
    BY <2>2, Zenon
<1>5. o.at = "count" /\ o.user \in Users /\ o.ask \in Asks /\ o.left \in 1 .. MaxPictures /\ MaxPictures \in Nat
  BY <1>3, PageBounds
<1>6. /\ r \in Doing /\ Within(r)
      /\ \A u \in Users, k \in Asks :
           IF u = o.user /\ k = o.ask
           THEN Owes(r, u, k) = o.left - 1 /\ Holds(r, u, k) = o.left - 1
           ELSE Owes(r, u, k) = 0 /\ Holds(r, u, k) = 0
  <2>1. CASE o.left = 1
    BY <1>5, <2>1, IdleIs
  <2>2. CASE o.left # 1
    <3>. DEFINE n == o.left - 1
    <3>1. n \in 1 .. MaxPictures /\ n <= o.left /\ r = [o EXCEPT !.left = n]
      BY <1>5, <2>2
    <3>. HIDE DEF n, r
    <3>2. /\ r \in [at : {"count"}, user : Users, ask : Asks, conv : Convs, left : 1 .. MaxPictures]
          /\ r.at = "count" /\ r.user = o.user /\ r.ask = o.ask /\ r.left = n
      BY <1>3, <3>1
    <3>. HIDE DEF o
    <3>3. n <= AtMost[o.ask]
      <4>1. o.left <= AtMost[o.ask] /\ AtMost[o.ask] \in Nat
        BY <1>1, <1>5, PageBounds DEF Within
      <4>. QED
        BY <1>5, <3>1, <4>1
    <3>4. r \in Doing /\ Within(r)
      BY <3>2, <3>3 DEF Doing, Within
    <3>5. \A u \in Users, k \in Asks :
            IF u = o.user /\ k = o.ask
            THEN Owes(r, u, k) = n /\ Holds(r, u, k) = n
            ELSE Owes(r, u, k) = 0 /\ Holds(r, u, k) = 0
      BY <3>2 DEF Owes, Holds
    <3>. QED
      BY <3>4, <3>5 DEF n
  <2>. QED
    BY <2>1, <2>2
<1>7. \A u \in Users, k \in Asks :
        IF u = o.user /\ k = o.ask
        THEN Owes(o, u, k) = o.left /\ Holds(o, u, k) = o.left
        ELSE Owes(o, u, k) = 0 /\ Holds(o, u, k) = 0
  BY <1>5 DEF Owes, Holds
<1>. HIDE DEF o, r
<1>8. quota' \in [Users \X Asks -> Nat] /\ spent' \in [Users \X Asks -> Nat]
  <2>1. NoneUsed \in [Users \X Asks -> Nat]
    BY DEF NoneUsed
  <2>2. quota' \in [Users \X Asks -> Nat]
    BY <1>1, <1>2, <1>5
  <2>. QED
    BY <1>1, <1>2, <2>1, <2>2
<1>9. ASSUME NEW u \in Users, NEW k \in Asks
      PROVE  /\ quota'[u, k] + Owes(r, u, k) <= quota[u, k] + Owes(o, u, k)
             /\ \/ spent'[u, k] = 0
                \/ spent'[u, k] + quota[u, k] + Holds(o, u, k) <= spent[u, k] + quota'[u, k] + Holds(r, u, k)
  <2>. DEFINE q1 == quota[u, k]
              q2 == quota'[u, k]
              s1 == spent[u, k]
              s2 == spent'[u, k]
              a1 == Owes(o, u, k)
              a2 == Owes(r, u, k)
              b1 == Holds(o, u, k)
              b2 == Holds(r, u, k)
              l == o.left
  <2>0. l \in Nat
    BY <1>5
  <2>1. q1 \in Nat /\ s1 \in Nat /\ l \in Nat
    BY <1>1, <2>0
  <2>2. s2 = s1 \/ s2 = 0
    BY <1>2 DEF NoneUsed
  <2>3. CASE u = o.user /\ k = o.ask
    <3>1. q2 = q1 + 1
      BY <1>1, <1>2, <1>5, <2>3
    <3>2. a2 = l - 1 /\ b2 = l - 1 /\ a1 = l /\ b1 = l
      BY <1>6, <1>7, <2>3
    <3>. HIDE DEF q1, q2, s1, s2, a1, a2, b1, b2, l
    <3>3. q2 + a2 <= q1 + a1 /\ (s2 = 0 \/ s2 + q1 + b1 <= s1 + q2 + b2)
      BY <2>1, <2>2, <3>1, <3>2
    <3>. QED
      BY <3>3 DEF q1, q2, s1, s2, a1, a2, b1, b2
  <2>4. CASE ~(u = o.user /\ k = o.ask)
    <3>1. q2 = q1
      BY <1>1, <1>2, <1>5, <2>4
    <3>2. a1 = 0 /\ a2 = 0 /\ b1 = 0 /\ b2 = 0
      BY <1>6, <1>7, <2>4
    <3>. HIDE DEF q1, q2, s1, s2, a1, a2, b1, b2, l
    <3>3. q2 + a2 <= q1 + a1 /\ (s2 = 0 \/ s2 + q1 + b1 <= s1 + q2 + b2)
      BY <2>1, <2>2, <3>1, <3>2
    <3>. QED
      BY <3>3 DEF q1, q2, s1, s2, a1, a2, b1, b2
  <2>. QED
    BY <2>3, <2>4
<1>10. CountsTyped' /\ QuotaLeaves'
  BY <1>0, <1>4, <1>6, <1>8, <1>9, HandlerSteps DEF o
<1>11. PageTyped' /\ RemovedStay'
  BY <1>0, <1>2, FilesKept
<1>. QED
  BY <1>10, <1>11 DEF PageInv

\* The counters of a new day.
LEMMA DayEnds == ASSUME PageInv, Midnight PROVE PageInv'
<1>0. PageTyped /\ CountsTyped /\ RemovedStay /\ QuotaLeaves
  BY DEF PageInv
<1>1. quota' = NoneUsed /\ spent' = NoneUsed /\ UNCHANGED <<users, convs, saving, handler, janitor, gone>>
  BY DEF Midnight
<1>2. /\ NoneUsed \in [Users \X Asks -> Nat]
      /\ \A u \in Users, k \in Asks : NoneUsed[u, k] = 0
  BY DEF NoneUsed
<1>3. CountsTyped'
  BY <1>0, <1>1, <1>2 DEF CountsTyped
<1>4. ASSUME NEW u \in Users, NEW k \in Asks
      PROVE  0 + Total(Owed(handler, u, k)) <= Most(k) /\ 0 <= 0 + Total(Held(handler, u, k))
  <2>1. Owed(handler, u, k) \in Weights /\ Held(handler, u, k) \in Weights
    BY <1>0, OwedIs DEF CountsTyped
  <2>2. Total(Owed(handler, u, k)) \in Nat /\ Total(Held(handler, u, k)) \in Nat /\ Most(k) \in Nat
    BY <2>1, TotalIs, MostIs
  <2>. DEFINE q == quota[u, k]
              o == Total(Owed(handler, u, k))
              m == Most(k)
  <2>3. q \in Nat /\ q + o <= m /\ o \in Nat /\ m \in Nat
    BY <1>0, <2>2 DEF CountsTyped, QuotaLeaves
  <2>. HIDE DEF q, o, m
  <2>4. 0 + o <= m
    BY <2>3
  <2>. QED
    BY <2>2, <2>4 DEF o, m
<1>5. QuotaLeaves'
  BY <1>1, <1>2, <1>4 DEF QuotaLeaves
<1>6. PageTyped' /\ RemovedStay'
  BY <1>0, <1>1, FilesKept
<1>. QED
  BY <1>3, <1>5, <1>6 DEF PageInv

\* At first nobody is served and nothing is counted.
LEMMA PageInitial == ChatPageInit => PageInv
<1>. SUFFICES ASSUME ChatPageInit PROVE PageInv
  OBVIOUS
<1>1. PageTyped /\ RemovedStay
  BY DEF ChatPageInit, PageTyped, RemovedStay, DeletedStaysDeleted, Loaded
<1>2. /\ handler \in [Handlers -> Doing] /\ \A h \in Handlers : handler[h] = Idle
      /\ quota \in [Users \X Asks -> Nat] /\ spent \in [Users \X Asks -> Nat]
      /\ \A u \in Users, k \in Asks : quota[u, k] = 0 /\ spent[u, k] = 0
  <2>1. handler \in [Handlers -> Doing] /\ \A h \in Handlers : handler[h] = Idle
    BY IdleIs DEF ChatPageInit
  <2>2. quota = NoneUsed /\ spent = NoneUsed /\ NoneUsed \in [Users \X Asks -> Nat]
    BY DEF ChatPageInit, NoneUsed
  <2>3. \A u \in Users, k \in Asks : NoneUsed[u, k] = 0
    BY DEF NoneUsed
  <2>. QED
    BY <2>1, <2>2, <2>3
<1>3. CountsTyped
  BY <1>2, IdleIs DEF CountsTyped
<1>4. ASSUME NEW u \in Users, NEW k \in Asks
      PROVE  /\ quota[u, k] + Total(Owed(handler, u, k)) <= Most(k)
             /\ spent[u, k] <= quota[u, k] + Total(Held(handler, u, k))
  <2>1. /\ Owed(handler, u, k) \in Weights /\ Held(handler, u, k) \in Weights
        /\ \A h \in Handlers : Owed(handler, u, k)[h] = 0
    <3>1. \A h \in Handlers : Owes(handler[h], u, k) = 0
      BY <1>2, IdleIs
    <3>. QED
      BY <1>3, <3>1, OwedIs DEF CountsTyped, Owed
  <2>2. Total(Owed(handler, u, k)) \in Nat /\ Total(Held(handler, u, k)) \in Nat /\ Most(k) \in Nat
    BY <2>1, TotalIs, MostIs
  <2>3. Total(Owed(handler, u, k)) = 0
    <3>1. Units(Owed(handler, u, k)) = {}
      BY <2>1, PageBounds DEF Units
    <3>. QED
      BY <3>1, FS_EmptySet DEF Total
  <2>. DEFINE q == quota[u, k]
              s == spent[u, k]
              o == Total(Owed(handler, u, k))
              g == Total(Held(handler, u, k))
              m == Most(k)
  <2>4. q = 0 /\ s = 0 /\ o = 0 /\ g \in Nat /\ m \in Nat
    BY <1>2, <2>2, <2>3
  <2>. HIDE DEF q, s, o, g, m
  <2>5. q + o <= m /\ s <= q + g
    BY <2>4
  <2>. QED
    BY <2>5 DEF q, s, o, g, m
<1>5. QuotaLeaves
  BY <1>4 DEF QuotaLeaves
<1>. QED
  BY <1>1, <1>3, <1>5 DEF PageInv

\* Every step keeps the books and the files.
LEMMA PageStep == PageInv /\ [ChatPageNext]_pageVars => PageInv'
<1>. SUFFICES ASSUME PageInv, [ChatPageNext]_pageVars PROVE PageInv'
  OBVIOUS
<1>1. CASE UsersStep
  BY <1>1, UsersSteps
<1>2. ASSUME NEW h \in Handlers, NEW u \in Users, NEW k \in Asks, Begin(h, u, k) PROVE PageInv'
  <2>1. CountsTyped' /\ QuotaLeaves'
    BY <1>2, Begins DEF PageInv
  <2>2. UNCHANGED <<users, convs, saving, janitor, gone>>
    BY <1>2 DEF Begin
  <2>3. PageTyped' /\ RemovedStay'
    BY <2>2, FilesKept DEF PageInv
  <2>. QED
    BY <2>1, <2>3 DEF PageInv
<1>3. ASSUME NEW h \in Handlers,
             FileQuestion(h) \/ CallRefused(h) \/ FileAnswer(h) \/ NothingFiled(h)
      PROVE  PageInv'
  BY <1>3, Files
<1>3a. ASSUME NEW h \in Handlers, (\E c \in Convs : LoadQuestion(h, c)) \/ LoadAnswer(h)
       PROVE  PageInv'
  BY <1>3a, LoadsForHandler
<1>4. ASSUME NEW h \in Handlers, NEW n \in 1 .. MaxPictures, CallAnswered(h, n) PROVE PageInv'
  BY <1>4, Answers
<1>5. ASSUME NEW h \in Handlers, Count(h) \/ CountOverMidnight(h) PROVE PageInv'
  BY <1>5, Counts
<1>6. CASE Midnight
  BY <1>6, DayEnds
<1>7. CASE UNCHANGED pageVars
  <2>1. UNCHANGED <<users, convs, saving, handler, quota, janitor, spent, gone>>
    BY <1>7 DEF pageVars
  <2>2. CountsTyped' /\ QuotaLeaves'
    BY <2>1, CountsKept DEF PageInv
  <2>3. PageTyped' /\ RemovedStay'
    BY <2>1, FilesKept DEF PageInv
  <2>. QED
    BY <2>2, <2>3 DEF PageInv
<1>. QED
  BY <1>1, <1>2, <1>3, <1>3a, <1>4, <1>5, <1>6, <1>7 DEF ChatPageNext, UsersStep

\* What is given is no more than what is counted and under way, which the limit covers.
LEMMA PageImplied == PageInv => ChatPageTypeOK /\ PageTrue
<1>. SUFFICES ASSUME PageInv PROVE ChatPageTypeOK /\ PageTrue
  OBVIOUS
<1>0. PageTyped /\ CountsTyped /\ RemovedStay /\ QuotaLeaves
  BY DEF PageInv
<1>1. ASSUME NEW u \in Users, NEW k \in Asks PROVE quota[u, k] \in 0 .. Most(k) /\ spent[u, k] <= Most(k)
  <2>. DEFINE q == quota[u, k]
              s == spent[u, k]
              o == Total(Owed(handler, u, k))
              g == Total(Held(handler, u, k))
              m == Most(k)
  <2>1. /\ Owed(handler, u, k) \in Weights /\ Held(handler, u, k) \in Weights
        /\ \A h \in Handlers : Held(handler, u, k)[h] <= Owed(handler, u, k)[h]
    BY <1>0, OwedIs DEF CountsTyped
  <2>2. o \in Nat /\ g \in Nat /\ g <= o
    BY <2>1, TotalIs
  <2>3. q \in Nat /\ s \in Nat /\ m \in Nat /\ q + o <= m /\ s <= q + g
    BY <1>0, MostIs DEF CountsTyped, QuotaLeaves
  <2>. HIDE DEF q, s, o, g, m
  <2>4. q \in 0 .. m /\ s <= m
    BY <2>2, <2>3
  <2>. QED
    BY <2>4 DEF q, s, m
<1>2. \A h \in Handlers : handler[h].at \in {"idle", "question", "call", "answer", "count"}
  BY <1>0 DEF CountsTyped, Doing, Idle
<1>3. \A part \in DOMAIN users : users[part] \subseteq Users
  BY <1>0 DEF PageTyped
<1>4. ChatPageTypeOK
  BY <1>0, <1>1, <1>2, <1>3 DEF PageTyped, Savings, ChatPageTypeOK
<1>. QED
  BY <1>0, <1>1, <1>4 DEF PageTrue, QuotaHolds, RemovedStay

\* What is counted, given and under way, and what is deleted, in every state
\* (chatui.go: the handlers, bumpChatQuota and the janitor).
THEOREM PageInvariant == ChatPageSpec => []PageInv
BY PageInitial, PageStep, PTL DEF ChatPageSpec

\* The variables hold values of their types, whatever the limits are.
THEOREM PageTypeCorrect == ChatPageSpec => []ChatPageTypeOK
BY PageInvariant, PageImplied, PTL

\* What a user or the administrator deleted never comes back, nor what the janitor removed
\* while nobody was saving it; and nobody is given more than the limit and what the requests
\* served at once can give (chatui.go).
THEOREM PageTrueCorrect == ChatPageSpec => []PageTrue
BY PageInvariant, PageImplied, PTL
-----------------------------------------------------------------------------
(* The pictures (ImageJobs).                                               *)

\* A request that is at work, one that has its pictures, and one that is over.
AtWork ==
  [at : {"choose", "draw", "store"}, route : {"chat", "endpoint"}, count : 1 .. MaxCount,
   chosen : ImageAccounts \cup {AutoAccount}, tried : SUBSET ImageAccounts,
   acc : ImageAccounts \cup {AutoAccount}, ready : SUBSET Nat, batch : SUBSET Nat,
   made : Nat, rest : Nat]
HasPictures == [at : {"count"}, route : {"chat", "endpoint"}, count : 1 .. MaxCount, ready : SUBSET Nat]
IsOver == [at : {"over"}, given : SUBSET Nat]

\* The pictures a request has stored, or has been given.
Pictures(r) ==
  CASE r.at \in {"choose", "draw", "store"} -> r.ready \cup r.batch
    [] r.at = "count" -> r.ready
    [] r.at = "over" -> r.given
    [] OTHER -> {}

\* A picture that was stored is on disk, unless it has expired or made room.
WasStored(p) == p \in 1 .. Drawings /\ (p \in files \cup expired.pictures \/ PushedOut(p))

JobTyped(r) ==
  /\ r \in {NoJob} \cup AtWork \cup HasPictures \cup IsOver
  /\ r.at = "draw" => r.acc \in ImageAccounts

DiskTyped ==
  /\ sizes \in Seq(Sizes) /\ Drawings <= MaxImage
  /\ files \subseteq 1 .. Drawings
  /\ Cardinality(files) <= MaxFiles /\ Cardinality(Blocks(files)) <= DiskLimit

CountTyped ==
  /\ spentOut \subseteq ImageAccounts
  /\ used \in Nat /\ delivered \in Nat /\ uncounted \in Nat /\ QuotaIsExact

JobsKept ==
  /\ DOMAIN job = Jobs
  /\ \A j \in Jobs : JobTyped(job[j]) /\ \A p \in Pictures(job[j]) : WasStored(p)

\* The strengthening of PicturesKept: also the pictures of requests in flight are on
\* disk or pushed out.
ImageInv ==
  /\ JobsKept /\ DiskTyped /\ CountTyped
  /\ expired \in [pictures : SUBSET Nat, marks : Nat]
-----------------------------------------------------------------------------
\* A set of numbers that is not empty has a least one.
LEMMA LeastNumber ==
  ASSUME NEW S \in SUBSET Nat, S # {}
  PROVE  \E m \in S : \A k \in S : m <= k
<1>. DEFINE R == {ss \in Nat \X Nat : ss[1] < ss[2]}
<1>1. IsWellFoundedOn(R, Nat)
  BY NatLessThanWellFounded DEF OpToRel
<1>2. \A x, y \in Nat : <<y, x>> \in R <=> y < x
  OBVIOUS
<1>. HIDE DEF R
<1>3. PICK m \in S : \A y \in S : ~ (<<y, m>> \in R)
  BY <1>1, WFMin, Zenon
<1>4. ASSUME NEW k \in S PROVE m <= k
  <2>1. m \in Nat /\ k \in Nat
    OBVIOUS
  <2>2. ~(k < m)
    BY <1>2, <1>3, <2>1
  <2>. QED
    BY <2>1, <2>2
<1>. QED
  BY <1>4
-----------------------------------------------------------------------------
(* The disk.                                                               *)

\* What pictures take, by a list of their sizes.
BlocksBy(s, F) == UNION {{f} \X (1 .. s[f]) : f \in F}

LEMMA ImageBounds ==
  /\ MaxCount \in Nat /\ MaxFiles \in Nat /\ MaxFiles >= 1 /\ DiskLimit \in Nat
  /\ MaxImage \in Nat /\ Sizes \subseteq 1 .. DiskLimit
BY ImageAssumption

\* A picture and its size: what a list of pictures takes is finite.
LEMMA BlocksFinite ==
  ASSUME NEW s \in Seq(Sizes), NEW F, F \subseteq 1 .. Len(s)
  PROVE  IsFiniteSet(F) /\ IsFiniteSet(BlocksBy(s, F)) /\ Cardinality(BlocksBy(s, F)) \in Nat
<1>1. IsFiniteSet(F)
  <2>1. Len(s) \in Int /\ 1 \in Int
    OBVIOUS
  <2>2. IsFiniteSet(1 .. Len(s))
    BY <2>1, FS_Interval
  <2>. QED
    BY <2>2, FS_Subset
<1>2. IsFiniteSet(F \X (1 .. DiskLimit))
  <2>1. DiskLimit \in Int /\ 1 \in Int
    BY ImageBounds
  <2>2. IsFiniteSet(1 .. DiskLimit)
    BY <2>1, FS_Interval
  <2>. QED
    BY <1>1, <2>2, FS_Product
<1>3. \A f \in F : s[f] \in Sizes
  OBVIOUS
<1>4. ASSUME NEW f \in F PROVE 1 .. s[f] \subseteq 1 .. DiskLimit
  <2>1. s[f] \in 1 .. DiskLimit
    BY <1>3, ImageBounds
  <2>. QED
    BY <2>1, ImageBounds
<1>5. IsFiniteSet(BlocksBy(s, F))
  <2>1. BlocksBy(s, F) \subseteq F \X (1 .. DiskLimit)
    BY <1>4 DEF BlocksBy
  <2>. QED
    BY <1>2, <2>1, FS_Subset
<1>. QED
  BY <1>1, <1>5, FS_CardinalityType

\* More pictures take as much or more.
LEMMA BlocksGrow ==
  ASSUME NEW s \in Seq(Sizes), NEW F, NEW G, G \subseteq F, F \subseteq 1 .. Len(s)
  PROVE  Cardinality(BlocksBy(s, G)) <= Cardinality(BlocksBy(s, F))
<1>1. BlocksBy(s, G) \subseteq BlocksBy(s, F)
  BY DEF BlocksBy
<1>. QED
  BY <1>1, BlocksFinite, FS_Subset

\* A new picture adds its size.
LEMMA BlocksAdd ==
  ASSUME NEW s \in Seq(Sizes), NEW z \in Sizes, NEW F, F \subseteq 1 .. Len(s)
  PROVE  LET t == Append(s, z)
             G == F \cup {Len(s) + 1}
         IN  /\ t \in Seq(Sizes) /\ Len(t) = Len(s) + 1
             /\ F \subseteq 1 .. Len(t) /\ G \subseteq 1 .. Len(t)
             /\ BlocksBy(t, F) = BlocksBy(s, F)
             /\ Cardinality(BlocksBy(t, G)) = Cardinality(BlocksBy(s, F)) + z
<1>. DEFINE t == Append(s, z)
            n == Len(s) + 1
            G == F \cup {n}
<1>0. z \in Nat /\ z >= 1
  BY ImageBounds
<1>1. t \in Seq(Sizes) /\ Len(t) = n /\ t[n] = z /\ \A i \in 1 .. Len(s) : t[i] = s[i]
  OBVIOUS
<1>. HIDE DEF t
<1>2. F \subseteq 1 .. Len(t) /\ G \subseteq 1 .. Len(t) /\ n \notin F
  <2>. DEFINE m == Len(s)
  <2>1. m \in Nat /\ n = m + 1 /\ Len(t) = n /\ F \subseteq 1 .. m
    BY <1>1
  <2>. HIDE DEF m, n
  <2>2. 1 .. m \subseteq 1 .. n /\ n \in 1 .. n /\ n \notin 1 .. m
    BY <2>1
  <2>. QED
    BY <2>1, <2>2
<1>3. BlocksBy(t, F) = BlocksBy(s, F)
  <2>1. \A f \in F : t[f] = s[f]
    BY <1>1
  <2>. QED
    BY <2>1 DEF BlocksBy
<1>4. BlocksBy(t, G) = BlocksBy(s, F) \cup ({n} \X (1 .. z))
  <2>1. BlocksBy(t, G) = BlocksBy(t, F) \cup ({n} \X (1 .. t[n]))
    BY DEF BlocksBy
  <2>. QED
    BY <2>1, <1>1, <1>3
<1>5. BlocksBy(s, F) \cap ({n} \X (1 .. z)) = {}
  BY <1>2 DEF BlocksBy
<1>6. IsFiniteSet({n} \X (1 .. z)) /\ Cardinality({n} \X (1 .. z)) = z
  <2>1. IsFiniteSet(1 .. z) /\ Cardinality(1 .. z) = z
    <3>1. IsFiniteSet(1 .. z) /\ Cardinality(1 .. z) = IF 1 > z THEN 0 ELSE z - 1 + 1
      BY <1>0, FS_Interval
    <3>. QED
      BY <1>0, <3>1
  <2>2. IsFiniteSet({n}) /\ Cardinality({n}) = 1
    BY FS_Singleton
  <2>3. /\ IsFiniteSet({n} \X (1 .. z))
        /\ Cardinality({n} \X (1 .. z)) = Cardinality({n}) * Cardinality(1 .. z)
    BY <2>1, <2>2, FS_Product
  <2>. QED
    BY <1>0, <2>1, <2>2, <2>3
<1>7. IsFiniteSet(BlocksBy(s, F)) /\ Cardinality(BlocksBy(s, F)) \in Nat
  BY BlocksFinite
<1>8. Cardinality(BlocksBy(t, G)) = Cardinality(BlocksBy(s, F)) + z
  <2>. DEFINE B == BlocksBy(s, F)
              N == {n} \X (1 .. z)
  <2>0. BlocksBy(t, G) = B \cup N
    BY <1>4
  <2>1. IsFiniteSet(B) /\ IsFiniteSet(N) /\ B \cap N = {} /\ Cardinality(N) = z /\ Cardinality(B) \in Nat
    BY <1>5, <1>6, <1>7
  <2>. HIDE DEF B, N
  <2>2. Cardinality(B \cup N) = Cardinality(B) + Cardinality(N) - Cardinality(B \cap N)
    BY <2>1, FS_Union
  <2>3. Cardinality({}) = 0
    BY FS_EmptySet
  <2>4. Cardinality(B \cup N) = Cardinality(B) + z - 0
    BY <2>1, <2>2, <2>3, Zenon
  <2>5. Cardinality(B) + z - 0 = Cardinality(B) + z
    BY <1>0, <2>1
  <2>. QED
    BY <2>0, <2>4, <2>5 DEF B
<1>. QED
  BY <1>1, <1>2, <1>3, <1>8 DEF t

LEMMA BlocksAre == Blocks(files) = BlocksBy(sizes, files) /\ \A F : Blocks(F) = BlocksBy(sizes, F)
BY DEF Blocks, BlocksBy

\* What is retained fits, with the new picture, and holds every file that is not
\* expired and that as many, or as much, was not stored after.
LEMMA RetainedFits ==
  ASSUME DiskTyped, NEW z \in Sizes
  PROVE  LET K == Retained(z)
         IN  /\ K \subseteq Fresh /\ Cardinality(K) < MaxFiles
             /\ Cardinality(Blocks(K)) + z <= DiskLimit
<1>. DEFINE K == Retained(z)
<1>0. /\ sizes \in Seq(Sizes) /\ Drawings \in Nat /\ files \subseteq 1 .. Drawings
      /\ z \in Nat /\ z <= DiskLimit
  BY ImageBounds DEF DiskTyped, Drawings
<1>1. K \subseteq Fresh /\ K \subseteq 1 .. Drawings /\ K \in SUBSET Nat
  <2>1. K \subseteq Fresh /\ Fresh \subseteq files
    BY DEF Retained, Fresh
  <2>2. 1 .. Drawings \subseteq Nat
    BY <1>0
  <2>. QED
    BY <1>0, <2>1, <2>2
<1>2. CASE K = {}
  <2>1. Blocks({}) = {}
    BY DEF Blocks
  <2>2. Cardinality(K) = 0 /\ Cardinality(Blocks(K)) = 0
    BY <1>2, <2>1, FS_EmptySet
  <2>. QED
    BY <1>0, <1>1, <2>2, ImageBounds
<1>3. CASE K # {}
  <2>1. PICK least \in K : \A k \in K : least <= k
    <3>. HIDE DEF K
    <3>. QED
      BY <1>1, <1>3, LeastNumber
  <2>2. Fits(Newer(least), z) /\ K \subseteq Newer(least)
    BY <1>1, <2>1 DEF Retained, Newer
  <2>. DEFINE M == Newer(least)
  <2>3. M \subseteq 1 .. Drawings /\ K \subseteq M
    BY <1>0, <2>2 DEF Newer, Fresh
  <2>4. Cardinality(M) < MaxFiles /\ Cardinality(Blocks(M)) + z <= DiskLimit
    BY <2>2 DEF Fits
  <2>. HIDE DEF M, K
  <2>5. IsFiniteSet(M) /\ Cardinality(Blocks(M)) \in Nat
    BY <1>0, <2>3, BlocksFinite, BlocksAre DEF Drawings
  <2>6. IsFiniteSet(K) /\ Cardinality(Blocks(K)) \in Nat
    BY <1>0, <1>1, BlocksFinite, BlocksAre DEF Drawings
  <2>7. Cardinality(Blocks(K)) <= Cardinality(Blocks(M))
    BY <1>0, <2>3, BlocksGrow, BlocksAre DEF Drawings
  <2>8. Cardinality(K) <= Cardinality(M) /\ Cardinality(K) \in Nat /\ Cardinality(M) \in Nat
    BY <2>3, <2>5, <2>6, FS_Subset, FS_CardinalityType
  <2>9. Cardinality(K) < MaxFiles /\ Cardinality(Blocks(K)) + z <= DiskLimit
    <3>. DEFINE bk == Cardinality(Blocks(K))
                bm == Cardinality(Blocks(M))
                ck == Cardinality(K)
                cm == Cardinality(M)
    <3>1. /\ bk \in Nat /\ bm \in Nat /\ ck \in Nat /\ cm \in Nat /\ bk <= bm /\ ck <= cm
          /\ cm < MaxFiles /\ bm + z <= DiskLimit
      BY <2>4, <2>5, <2>6, <2>7, <2>8
    <3>. HIDE DEF bk, bm, ck, cm
    <3>2. ck < MaxFiles /\ bk + z <= DiskLimit
      BY <1>0, <3>1, ImageBounds
    <3>. QED
      BY <3>2 DEF bk, ck
  <2>. QED
    BY <1>1, <2>9 DEF K
<1>. QED
  BY <1>2, <1>3

\* Storing a picture keeps the disk within its limits, and every picture that was
\* stored: what makes room is older.
LEMMA Storing ==
  ASSUME DiskTyped, NEW z \in Sizes, Drawings < MaxImage, UNCHANGED expired,
         NEW n \in Nat, n = Drawings + 1, sizes' = Append(sizes, z),
         files' = Retained(z) \/ files' = Retained(z) \cup {n}
  PROVE  /\ DiskTyped' /\ \A p : WasStored(p) => WasStored(p)'
         /\ n \in files' => WasStored(n)'
<1>. DEFINE K == Retained(z)
<1>0. /\ sizes \in Seq(Sizes) /\ Drawings \in Nat /\ files \subseteq 1 .. Drawings
      /\ Fresh \subseteq 1 .. Drawings /\ z \in Nat /\ z <= DiskLimit /\ K \subseteq 1 .. Drawings
  <2>1. sizes \in Seq(Sizes) /\ Drawings \in Nat /\ files \subseteq 1 .. Drawings
    BY DEF DiskTyped, Drawings
  <2>2. z \in Nat /\ z <= DiskLimit
    BY ImageBounds
  <2>3. K \subseteq Fresh /\ Fresh \subseteq files
    BY DEF Retained, Fresh
  <2>. QED
    BY <2>1, <2>2, <2>3
<1>1. K \subseteq Fresh /\ Cardinality(K) < MaxFiles /\ Cardinality(Blocks(K)) + z <= DiskLimit
  BY RetainedFits
<1>2. /\ sizes' \in Seq(Sizes) /\ Len(sizes') = n
      /\ K \subseteq 1 .. n /\ K \cup {n} \subseteq 1 .. n
      /\ BlocksBy(sizes', K) = Blocks(K)
      /\ Cardinality(BlocksBy(sizes', K \cup {n})) = Cardinality(Blocks(K)) + z
  BY <1>0, BlocksAdd, BlocksAre DEF Drawings
<1>3. files' \subseteq K \cup {n} /\ files' \subseteq 1 .. n
  BY <1>2
<1>4. DiskTyped'
  <2>1. IsFiniteSet(K) /\ Cardinality(K) \in Nat
    BY <1>0, BlocksFinite, FS_CardinalityType DEF Drawings
  <2>2. IsFiniteSet(K \cup {n}) /\ Cardinality(K \cup {n}) <= Cardinality(K) + 1 /\ Cardinality(K \cup {n}) \in Nat
    <3>. HIDE DEF K
    <3>1. /\ IsFiniteSet(K \cup {n})
          /\ Cardinality(K \cup {n}) = IF n \in K THEN Cardinality(K) ELSE Cardinality(K) + 1
      BY <2>1, FS_AddElement
    <3>. QED
      BY <2>1, <3>1
  <2>3. Cardinality(files') <= Cardinality(K \cup {n}) /\ Cardinality(files') \in Nat
    <3>1. files' \in SUBSET (K \cup {n})
      BY <1>3
    <3>. HIDE DEF K
    <3>2. IsFiniteSet(files') /\ Cardinality(files') <= Cardinality(K \cup {n})
      BY <2>2, <3>1, FS_Subset
    <3>. QED
      BY <3>2, FS_CardinalityType
  <2>4. Cardinality(files') <= MaxFiles
    <3>. DEFINE c == Cardinality(K)
                d == Cardinality(K \cup {n})
                e == Cardinality(files')
    <3>1. c \in Nat /\ d \in Nat /\ e \in Nat /\ c < MaxFiles /\ d <= c + 1 /\ e <= d
      BY <1>1, <2>1, <2>2, <2>3
    <3>. HIDE DEF c, d, e
    <3>2. e <= MaxFiles
      BY <3>1, ImageBounds
    <3>. QED
      BY <3>2 DEF e
  <2>5. Cardinality(BlocksBy(sizes', files')) <= DiskLimit
    <3>1. Cardinality(BlocksBy(sizes', files')) <= Cardinality(BlocksBy(sizes', K \cup {n}))
      BY <1>2, <1>3, BlocksGrow
    <3>2. Cardinality(BlocksBy(sizes', files')) \in Nat
      BY <1>2, <1>3, BlocksFinite
    <3>3. Cardinality(Blocks(K)) \in Nat
      BY <1>0, BlocksAre, BlocksFinite DEF Drawings
    <3>. DEFINE c == Cardinality(Blocks(K))
                d == Cardinality(BlocksBy(sizes', K \cup {n}))
                e == Cardinality(BlocksBy(sizes', files'))
    <3>4. c \in Nat /\ d = c + z /\ e \in Nat /\ c + z <= DiskLimit /\ e <= d
      BY <1>1, <1>2, <3>1, <3>2, <3>3
    <3>. HIDE DEF c, d, e
    <3>5. e <= DiskLimit
      BY <1>0, <3>4, ImageBounds
    <3>. QED
      BY <3>5 DEF e
  <2>6. Len(sizes') <= MaxImage /\ files' \subseteq 1 .. Len(sizes')
    BY <1>0, <1>2, <1>3, ImageBounds
  <2>7. Blocks(files)' = BlocksBy(sizes', files')
    BY DEF Blocks, BlocksBy
  <2>. QED
    BY <1>2, <2>4, <2>5, <2>6, <2>7 DEF DiskTyped, Drawings
<1>5. ASSUME NEW p, WasStored(p) PROVE WasStored(p)'
  <2>1. p \in 1 .. Drawings /\ p \in Nat /\ p \in 1 .. n /\ (p \in files \cup expired.pictures \/ PushedOut(p))
    BY <1>0, <1>5 DEF WasStored
  <2>2. Drawings' = n
    BY <1>2 DEF Drawings
  <2>3. p .. Drawings \subseteq 1 .. Drawings /\ p .. n \subseteq 1 .. n
        /\ p .. n = (p .. Drawings) \cup {n}
    BY <1>0, <2>1
  <2>4. /\ Cardinality(BlocksBy(sizes', p .. n)) = Cardinality(Blocks(p .. Drawings)) + z
        /\ Cardinality(Blocks(p .. Drawings)) \in Nat
    <3>. DEFINE F == p .. Drawings
    <3>1. F \subseteq 1 .. Len(sizes) /\ p .. n = F \cup {n} /\ n = Len(sizes) + 1
      BY <2>3 DEF Drawings
    <3>. HIDE DEF F
    <3>2. Cardinality(BlocksBy(sizes', F \cup {n})) = Cardinality(BlocksBy(sizes, F)) + z
      BY <1>0, <3>1, BlocksAdd
    <3>3. Cardinality(BlocksBy(sizes, F)) \in Nat /\ Blocks(F) = BlocksBy(sizes, F)
      BY <1>0, <3>1, BlocksFinite, BlocksAre
    <3>4. Cardinality(BlocksBy(sizes', p .. n)) = Cardinality(Blocks(F)) + z
      BY <3>1, <3>2, <3>3
    <3>. QED
      BY <3>3, <3>4 DEF F
  <2>5. PushedOut(p)' <=> n - p >= MaxFiles \/ Cardinality(BlocksBy(sizes', p .. n)) > DiskLimit
    BY <2>2 DEF PushedOut, Blocks, BlocksBy
  <2>6. CASE PushedOut(p)
    <3>. DEFINE c == Cardinality(Blocks(p .. Drawings))
                d == Cardinality(BlocksBy(sizes', p .. n))
    <3>1. /\ Drawings - p >= MaxFiles \/ c > DiskLimit
          /\ PushedOut(p)' <=> n - p >= MaxFiles \/ d > DiskLimit
      BY <2>4, <2>5, <2>6 DEF PushedOut
    <3>2. c \in Nat /\ d = c + z
      BY <2>4
    <3>. HIDE DEF c, d
    <3>3. n - p >= MaxFiles \/ d > DiskLimit
      BY <1>0, <2>1, <3>1, <3>2, ImageBounds
    <3>. QED
      BY <2>1, <2>2, <3>1, <3>3 DEF WasStored
  <2>7. CASE p \in expired.pictures
    BY <2>1, <2>2, <2>7 DEF WasStored
  <2>8. CASE p \in Fresh /\ p \in K
    BY <2>1, <2>2, <2>8 DEF WasStored
  <2>9. CASE p \in Fresh /\ p \notin K
    <3>1. ~ Fits(Newer(p), z)
      BY <2>9 DEF Retained
    <3>. DEFINE N == Newer(p)
    <3>2. N \subseteq p .. Drawings
      <4>1. ASSUME NEW g \in Fresh, g >= p PROVE g \in p .. Drawings
        BY <1>0, <2>1, <4>1
      <4>. QED
        BY <4>1 DEF Newer
    <3>3. Cardinality(N) >= MaxFiles \/ Cardinality(Blocks(N)) + z > DiskLimit
      <4>1. Cardinality(N) \in Nat /\ Cardinality(Blocks(N)) \in Nat
        <5>1. N \subseteq 1 .. Drawings
          BY <2>3, <3>2
        <5>. HIDE DEF N
        <5>. QED
          BY <1>0, <5>1, BlocksAre, BlocksFinite, FS_CardinalityType DEF Drawings
      <4>2. ~ (Cardinality(N) < MaxFiles /\ Cardinality(Blocks(N)) + z <= DiskLimit)
        BY <3>1 DEF Fits
      <4>. HIDE DEF N
      <4>. QED
        BY <1>0, <4>1, <4>2, ImageBounds
    <3>. HIDE DEF N
    <3>4. CASE Cardinality(N) >= MaxFiles
      <4>1. IsFiniteSet(p .. Drawings) /\ Cardinality(p .. Drawings) = Drawings - p + 1
        <5>1. p \in Int /\ Drawings \in Int /\ ~ (p > Drawings)
          BY <1>0, <2>1
        <5>. QED
          BY <5>1, FS_Interval
      <4>2. IsFiniteSet(N) /\ Cardinality(N) <= Cardinality(p .. Drawings)
        BY <3>2, <4>1, FS_Subset
      <4>3. Cardinality(N) \in Nat
        BY <4>2, FS_CardinalityType
      <4>4. n - p >= MaxFiles
        BY <1>0, <2>1, <3>4, <4>1, <4>2, <4>3, ImageBounds
      <4>. QED
        BY <2>1, <2>2, <2>5, <4>4 DEF WasStored
    <3>5. CASE Cardinality(Blocks(N)) + z > DiskLimit
      <4>1. Cardinality(Blocks(N)) <= Cardinality(Blocks(p .. Drawings))
        BY <1>0, <2>3, <3>2, BlocksGrow, BlocksAre DEF Drawings
      <4>2. Cardinality(Blocks(N)) \in Nat
        <5>1. N \subseteq 1 .. Drawings
          BY <2>3, <3>2
        <5>. QED
          BY <1>0, <5>1, BlocksAre, BlocksFinite DEF Drawings
      <4>. DEFINE c == Cardinality(Blocks(N))
                  d == Cardinality(Blocks(p .. Drawings))
                  e == Cardinality(BlocksBy(sizes', p .. n))
      <4>3. c \in Nat /\ d \in Nat /\ e = d + z /\ c <= d /\ c + z > DiskLimit
        BY <2>4, <3>5, <4>1, <4>2
      <4>. HIDE DEF c, d, e
      <4>4. e > DiskLimit
        BY <1>0, <4>3, ImageBounds
      <4>5. Cardinality(BlocksBy(sizes', p .. n)) > DiskLimit
        BY <4>4 DEF e
      <4>. QED
        BY <2>1, <2>2, <2>5, <4>5 DEF WasStored
    <3>. QED
      BY <3>3, <3>4, <3>5
  <2>. QED
    BY <2>1, <2>6, <2>7, <2>8, <2>9 DEF Fresh
<1>6. n \in files' => WasStored(n)'
  <2>1. Drawings' = n /\ n \in 1 .. n
    BY <1>0, <1>2 DEF Drawings
  <2>. QED
    BY <2>1 DEF WasStored
<1>. QED
  BY <1>4, <1>5, <1>6
-----------------------------------------------------------------------------
(* The requests.                                                           *)

\* A request changes into one whose pictures are among these.
MovesTo(j, S) ==
  \E q : job' = [job EXCEPT ![j] = q] /\ JobTyped(q) /\ Pictures(q) \subseteq S

LEMMA JobsMove ==
  ASSUME JobsKept, NEW j \in Jobs, NEW S, MovesTo(j, S),
         \A p : WasStored(p) => WasStored(p)', \A p \in S : WasStored(p)'
  PROVE  JobsKept'
<1>1. PICK q : job' = [job EXCEPT ![j] = q] /\ JobTyped(q) /\ Pictures(q) \subseteq S
  BY DEF MovesTo
<1>2. DOMAIN job' = Jobs /\ job'[j] = q /\ \A i \in Jobs \ {j} : job'[i] = job[i]
  BY <1>1 DEF JobsKept
<1>3. ASSUME NEW i \in Jobs PROVE JobTyped(job'[i]) /\ \A p \in Pictures(job'[i]) : WasStored(p)'
  <2>1. CASE i = j
    BY <1>1, <1>2, <2>1
  <2>2. CASE i # j
    BY <1>2, <2>2 DEF JobsKept
  <2>. QED
    BY <2>1, <2>2
<1>4. \A r : JobTyped(r)' <=> JobTyped(r)
  BY DEF JobTyped
<1>. QED
  BY <1>2, <1>3, <1>4 DEF JobsKept

\* A request at work, by what it is doing.
LEMMA WorkIs ==
  ASSUME NEW r, JobTyped(r), r.at \in {"choose", "draw", "store"}
  PROVE  r \in AtWork /\ Pictures(r) = r.ready \cup r.batch
<1>1. r \notin {NoJob} \cup HasPictures \cup IsOver
  BY DEF NoJob, HasPictures, IsOver
<1>. QED
  BY <1>1 DEF JobTyped, Pictures

LEMMA WorkMoves ==
  ASSUME NEW j \in Jobs, NEW q \in AtWork, NEW S, q.at = "draw" => q.acc \in ImageAccounts,
         job' = [job EXCEPT ![j] = q], q.ready \cup q.batch \subseteq S
  PROVE  MovesTo(j, S)
<1>1. Pictures(q) = q.ready \cup q.batch
  BY DEF Pictures, AtWork
<1>2. JobTyped(q)
  BY DEF JobTyped
<1>. QED
  BY <1>1, <1>2 DEF MovesTo

LEMMA OverMoves ==
  ASSUME NEW j \in Jobs, NEW S \in SUBSET Nat, NEW T, Over(j, S), S \subseteq T
  PROVE  MovesTo(j, T)
<1>. DEFINE q == [at |-> "over", given |-> S]
<1>1. job' = [job EXCEPT ![j] = q]
  BY DEF Over
<1>2. q \in IsOver /\ q.at = "over" /\ q.given = S
  BY DEF IsOver
<1>. HIDE DEF q
<1>3. Pictures(q) = S /\ JobTyped(q)
  BY <1>2 DEF Pictures, JobTyped
<1>. QED
  BY <1>1, <1>3 DEF MovesTo

LEMMA AnsweringMoves ==
  ASSUME NEW j \in Jobs, NEW r \in AtWork, NEW S \in SUBSET Nat, NEW T,
         Answering(j, r, S), S \subseteq T
  PROVE  MovesTo(j, T)
<1>. DEFINE q == [at |-> "count", route |-> r.route, count |-> r.count, ready |-> S]
<1>1. job' = [job EXCEPT ![j] = q]
  BY DEF Answering
<1>2. q \in HasPictures /\ q.at = "count" /\ q.ready = S
  BY DEF HasPictures, AtWork
<1>. HIDE DEF q
<1>3. Pictures(q) = S /\ JobTyped(q)
  BY <1>2 DEF Pictures, JobTyped
<1>. QED
  BY <1>1, <1>3 DEF MovesTo

\* A generation that fails keeps what earlier ones have stored.
LEMMA FailureMoves ==
  ASSUME NEW j \in Jobs, job[j] \in AtWork, GenerationFails(j)
  PROVE  MovesTo(j, job[j].ready)
<1>1. job[j].ready \in SUBSET Nat /\ {} \in SUBSET Nat
  BY DEF AtWork
<1>2. CASE job[j].ready # {}
  <2>1. Answering(j, job[j], job[j].ready)
    BY <1>2 DEF GenerationFails
  <2>. QED
    BY <1>1, <2>1, AnsweringMoves
<1>3. CASE job[j].ready = {}
  <2>1. Over(j, {})
    BY <1>3 DEF GenerationFails
  <2>. QED
    BY <1>1, <2>1, OverMoves
<1>. QED
  BY <1>2, <1>3

LEMMA GoingOnMoves ==
  ASSUME NEW j \in Jobs, NEW r \in AtWork, r.at = "store", GoOnWith(j, r)
  PROVE  MovesTo(j, r.ready \cup r.batch)
<1>. DEFINE S == r.ready \cup r.batch
<1>0. r.rest \in Nat /\ S \in SUBSET Nat /\ r.ready \in SUBSET Nat /\ r.batch \in SUBSET Nat
  BY DEF AtWork
<1>1. CASE r.rest > 1
  <2>. DEFINE q == [r EXCEPT !.rest = @ - 1]
  <2>1. job' = [job EXCEPT ![j] = q]
    BY <1>1 DEF GoOnWith
  <2>2. r.rest - 1 \in Nat
    BY <1>0, <1>1
  <2>3. q \in AtWork /\ q.at = "store" /\ q.ready = r.ready /\ q.batch = r.batch
    BY <2>2 DEF AtWork
  <2>. HIDE DEF q
  <2>. QED
    BY <2>1, <2>3, WorkMoves
<1>2. CASE ~ (r.rest > 1) /\ r.rest = 1 /\ (r.route = "endpoint" \/ r.made = r.count)
  <2>1. Answering(j, r, S)
    BY <1>2 DEF GoOnWith
  <2>. QED
    BY <1>0, <2>1, AnsweringMoves
<1>3. CASE ~ (r.rest > 1) /\ ~ (r.rest = 1 /\ (r.route = "endpoint" \/ r.made = r.count))
  <2>. DEFINE q == [r EXCEPT !.at = "choose", !.rest = 0, !.ready = @ \cup r.batch, !.batch = {}]
  <2>1. job' = [job EXCEPT ![j] = q]
    BY <1>3 DEF GoOnWith
  <2>2. S \in SUBSET Nat /\ q.ready = S /\ q.batch = {} /\ q.at = "choose" /\ q.rest = 0
    BY <1>0 DEF AtWork
  <2>3. q \in AtWork
    BY <1>0 DEF AtWork
  <2>. HIDE DEF q
  <2>. QED
    BY <2>2, <2>1, <2>3, WorkMoves
<1>. QED
  BY <1>1, <1>2, <1>3

\* A step that stores nothing, and after which what had expired still has.
LEMMA DiskKept ==
  ASSUME DiskTyped, UNCHANGED <<files, sizes>>, expired.pictures \subseteq expired'.pictures
  PROVE  DiskTyped' /\ \A p : WasStored(p) => WasStored(p)'
<1>1. files' = files /\ sizes' = sizes
  OBVIOUS
<1>2. DiskTyped'
  BY <1>1 DEF DiskTyped, Drawings, Blocks
<1>3. \A p : PushedOut(p)' <=> PushedOut(p)
  BY <1>1 DEF PushedOut, Drawings, Blocks
<1>. QED
  BY <1>1, <1>2, <1>3 DEF WasStored, Drawings

\* A step of one request that stores nothing and counts nothing.
LEMMA QuietStep ==
  ASSUME ImageInv, NEW j \in Jobs, MovesTo(j, Pictures(job[j])), spentOut' \subseteq ImageAccounts,
         UNCHANGED <<files, sizes>>, Unkept
  PROVE  ImageInv'
<1>1. UNCHANGED <<used, delivered, uncounted, expired>> /\ JobsKept /\ DiskTyped /\ CountTyped
  BY DEF Unkept, ImageInv
<1>2. DiskTyped' /\ \A p : WasStored(p) => WasStored(p)'
  BY <1>1, DiskKept
<1>3. \A p \in Pictures(job[j]) : WasStored(p)'
  BY <1>1, <1>2 DEF JobsKept
<1>4. JobsKept'
  BY <1>1, <1>2, <1>3, JobsMove
<1>5. CountTyped'
  BY <1>1 DEF CountTyped, QuotaIsExact
<1>. QED
  BY <1>1, <1>2, <1>4, <1>5 DEF ImageInv

LEMMA ImageInitial == ImageInit => ImageInv
<1>. SUFFICES ASSUME ImageInit PROVE ImageInv
  OBVIOUS
<1>1. /\ job = [j \in Jobs |-> NoJob] /\ spentOut = {} /\ files = {} /\ sizes = <<>>
      /\ used = 0 /\ delivered = 0 /\ uncounted = 0 /\ expired = [pictures |-> {}, marks |-> 0]
  BY DEF ImageInit
<1>2. NoJob.at = "idle" /\ Pictures(NoJob) = {} /\ JobTyped(NoJob)
  BY DEF NoJob, Pictures, JobTyped
<1>3. JobsKept
  <2>. HIDE DEF NoJob
  <2>. QED
    BY <1>1, <1>2 DEF JobsKept
<1>4. DiskTyped
  <2>1. sizes \in Seq(Sizes) /\ Drawings = 0 /\ Blocks(files) = {}
    BY <1>1 DEF Drawings, Blocks
  <2>2. Cardinality(files) = 0 /\ Cardinality(Blocks(files)) = 0
    BY <1>1, <2>1, FS_EmptySet
  <2>. QED
    BY <1>1, <2>1, <2>2, ImageBounds DEF DiskTyped
<1>5. CountTyped
  BY <1>1 DEF CountTyped, QuotaIsExact
<1>6. expired \in [pictures : SUBSET Nat, marks : Nat]
  BY <1>1
<1>. QED
  BY <1>3, <1>4, <1>5, <1>6 DEF ImageInv

LEMMA AsksForPictures == ASSUME ImageInv, NEW j \in Jobs, Ask(j) PROVE ImageInv'
<1>1. PICK route \in {"chat", "endpoint"}, count \in 1 .. MaxCount, chosen \in ImageAccounts \cup {AutoAccount} :
        job' = [job EXCEPT ![j] =
            [at |-> "choose", route |-> route, count |-> count, chosen |-> chosen,
             tried |-> {}, acc |-> AutoAccount, ready |-> {}, batch |-> {}, made |-> 0, rest |-> 0]]
  BY Zenon DEF Ask
<1>. DEFINE q == [at |-> "choose", route |-> route, count |-> count, chosen |-> chosen,
             tried |-> {}, acc |-> AutoAccount, ready |-> {}, batch |-> {}, made |-> 0, rest |-> 0]
<1>2. q \in AtWork /\ q.at = "choose" /\ q.ready = {} /\ q.batch = {}
  BY DEF AtWork
<1>3. MovesTo(j, Pictures(job[j]))
  <2>. HIDE DEF q
  <2>. QED
    BY <1>1, <1>2, WorkMoves DEF q
<1>4. spentOut' \subseteq ImageAccounts /\ UNCHANGED <<files, sizes>> /\ Unkept
  BY DEF Ask, ImageInv, CountTyped
<1>. QED
  BY <1>3, <1>4, QuietStep

LEMMA Chooses == ASSUME ImageInv, NEW j \in Jobs, Choose(j) PROVE ImageInv'
<1>1. JobTyped(job[j]) /\ job[j].at = "choose"
  BY DEF ImageInv, JobsKept, Choose
<1>2. job[j] \in AtWork /\ Pictures(job[j]) = job[j].ready \cup job[j].batch
  BY <1>1, WorkIs
<1>3. MovesTo(j, Pictures(job[j]))
  <2>1. ASSUME NEW a \in Candidates(job[j]), NEW at \in {"draw", "choose"},
               job' = [job EXCEPT ![j] = [job[j] EXCEPT !.at = at, !.tried = @ \cup {a},
                                                      !.acc = IF at = "draw" THEN a ELSE AutoAccount]]
        PROVE  MovesTo(j, Pictures(job[j]))
    <3>. DEFINE r == job[j]
                q == [r EXCEPT !.at = at, !.tried = @ \cup {a}, !.acc = IF at = "draw" THEN a ELSE AutoAccount]
    <3>1. job' = [job EXCEPT ![j] = q]
      BY <2>1 DEF ImageInv, JobsKept
    <3>2. a \in ImageAccounts
      <4>1. r.chosen \in ImageAccounts \cup {AutoAccount}
        BY <1>2 DEF AtWork
      <4>2. CASE r.chosen # AutoAccount
        BY <4>1, <4>2 DEF Candidates
      <4>3. CASE r.chosen = AutoAccount
        BY <4>3 DEF Candidates
      <4>. QED
        BY <4>2, <4>3
    <3>3. r.tried \cup {a} \in SUBSET ImageAccounts
      BY <1>2, <3>2 DEF AtWork
    <3>4. q \in AtWork /\ q.ready = r.ready /\ q.batch = r.batch /\ (q.at = "draw" => q.acc \in ImageAccounts)
      BY <1>2, <3>2, <3>3 DEF AtWork
    <3>. HIDE DEF q
    <3>. QED
      BY <1>2, <3>1, <3>4, WorkMoves
  <2>2. ASSUME GenerationFails(j) PROVE MovesTo(j, Pictures(job[j]))
    <3>1. MovesTo(j, job[j].ready)
      BY <1>2, <2>2, FailureMoves
    <3>. QED
      BY <1>2, <3>1 DEF MovesTo
  <2>. QED
    BY <2>1, <2>2 DEF Choose
<1>4. spentOut' \subseteq ImageAccounts /\ UNCHANGED <<files, sizes>> /\ Unkept
  BY DEF Choose, ImageInv, CountTyped
<1>. QED
  BY <1>3, <1>4, QuietStep

LEMMA DrawingFails == ASSUME ImageInv, NEW j \in Jobs, DrawFails(j) PROVE ImageInv'
<1>. DEFINE r == job[j]
<1>1. JobTyped(r) /\ r.at = "draw" /\ r.acc \in ImageAccounts
  BY DEF ImageInv, JobsKept, DrawFails, JobTyped
<1>2. r \in AtWork /\ Pictures(r) = r.ready \cup r.batch
  BY <1>1, WorkIs
<1>3. PICK why \in Failures :
        /\ spentOut' = IF Marks(why) /\ (why = "words" => r.chosen = AutoAccount)
                       THEN spentOut \cup {r.acc} ELSE spentOut
        /\ CASE Rotates(r, why) -> job' = [job EXCEPT ![j].at = "choose", ![j].acc = AutoAccount]
             [] why = "gone" -> Over(j, {})
             [] OTHER -> GenerationFails(j)
  BY Zenon DEF DrawFails
<1>4. MovesTo(j, Pictures(r))
  <2>1. CASE Rotates(r, why)
    <3>. DEFINE q == [r EXCEPT !.at = "choose", !.acc = AutoAccount]
    <3>1. job' = [job EXCEPT ![j] = q]
      BY <1>3, <2>1, why # "gone", Zenon DEF Rotates
    <3>2. q \in AtWork /\ q.ready = r.ready /\ q.batch = r.batch /\ q.at = "choose"
      BY <1>2 DEF AtWork
    <3>. HIDE DEF q
    <3>. QED
      BY <1>2, <3>1, <3>2, WorkMoves
  <2>2. CASE ~ Rotates(r, why)
    <3>1. Over(j, {}) \/ GenerationFails(j)
      BY <1>3, <2>2
    <3>2. Over(j, {}) => MovesTo(j, Pictures(r))
      BY OverMoves
    <3>3. GenerationFails(j) => MovesTo(j, r.ready)
      BY <1>2, FailureMoves
    <3>. QED
      BY <1>2, <3>1, <3>2, <3>3 DEF MovesTo
  <2>. QED
    BY <2>1, <2>2
<1>5. spentOut' \subseteq ImageAccounts /\ UNCHANGED <<files, sizes>> /\ Unkept
  <2>1. spentOut \subseteq ImageAccounts
    BY DEF ImageInv, CountTyped
  <2>. QED
    BY <1>1, <1>3, <2>1 DEF DrawFails
<1>. QED
  BY <1>4, <1>5, QuietStep

LEMMA Draws == ASSUME ImageInv, NEW j \in Jobs, NEW n \in 1 .. PerCall, Drawn(j, n) PROVE ImageInv'
<1>. DEFINE r == job[j]
            q == [r EXCEPT !.at = "store", !.acc = AutoAccount, !.tried = {},
                           !.batch = {}, !.rest = n, !.made = @ + 1]
<1>1. JobTyped(r) /\ r.at = "draw"
  BY DEF ImageInv, JobsKept, Drawn
<1>2. r \in AtWork /\ Pictures(r) = r.ready \cup r.batch
  BY <1>1, WorkIs
<1>3. job' = [job EXCEPT ![j] = q]
  BY DEF Drawn, ImageInv, JobsKept
<1>4. r.made + 1 \in Nat /\ n \in Nat
  BY <1>2 DEF AtWork
<1>5. q \in AtWork /\ q.ready = r.ready /\ q.batch = {} /\ q.at = "store"
  BY <1>2, <1>4 DEF AtWork
<1>6. MovesTo(j, Pictures(r))
  <2>. HIDE DEF q
  <2>. QED
    BY <1>2, <1>3, <1>5, WorkMoves
<1>7. spentOut' \subseteq ImageAccounts /\ UNCHANGED <<files, sizes>> /\ Unkept
  BY DEF Drawn, ImageInv, CountTyped
<1>. QED
  BY <1>6, <1>7, QuietStep

LEMMA StoreGoesWrong == ASSUME ImageInv, NEW j \in Jobs, StoreFails(j) PROVE ImageInv'
<1>. DEFINE r == job[j]
<1>1. JobTyped(r) /\ r.at = "store"
  BY DEF ImageInv, JobsKept, StoreFails
<1>2. r \in AtWork /\ Pictures(r) = r.ready \cup r.batch
  BY <1>1, WorkIs
<1>3. MovesTo(j, Pictures(r))
  <2>1. Over(j, {}) \/ GenerationFails(j) \/ GoOnWith(j, r)
    BY DEF StoreFails
  <2>2. Over(j, {}) => MovesTo(j, Pictures(r))
    BY OverMoves
  <2>3. GenerationFails(j) => MovesTo(j, r.ready)
    BY <1>2, FailureMoves
  <2>4. GoOnWith(j, r) => MovesTo(j, Pictures(r))
    BY <1>1, <1>2, GoingOnMoves
  <2>. QED
    BY <1>2, <2>1, <2>2, <2>3, <2>4 DEF MovesTo
<1>4. spentOut' \subseteq ImageAccounts /\ UNCHANGED <<files, sizes>> /\ Unkept
  BY DEF StoreFails, ImageInv, CountTyped
<1>. QED
  BY <1>3, <1>4, QuietStep

\* A request that stores a picture: a failure drops its number, and what room was made.
LEMMA Stores ==
  ASSUME ImageInv, NEW j \in Jobs, Store_(j) \/ WriteFails(j)
  PROVE  ImageInv'
<1>. DEFINE r == job[j]
<1>0. JobsKept /\ DiskTyped /\ CountTyped /\ expired \in [pictures : SUBSET Nat, marks : Nat]
  BY DEF ImageInv
<1>1. JobTyped(r) /\ r.at = "store" /\ Drawings < MaxImage /\ UNCHANGED spentOut
      /\ UNCHANGED <<used, delivered, uncounted, expired>>
  BY <1>0 DEF JobsKept, Store_, WriteFails, Unkept
<1>2. r \in AtWork /\ Pictures(r) = r.ready \cup r.batch
  BY <1>1, WorkIs
<1>3. Drawings \in Nat
  BY <1>0 DEF DiskTyped, Drawings
<1>4. PICK n \in Nat : n = Drawings + 1
  BY <1>3
<1>5. CountTyped'
  BY <1>0, <1>1 DEF CountTyped, QuotaIsExact
<1>6. CASE Store_(j)
  <2>1. PICK z \in Sizes : sizes' = Append(sizes, z) /\ files' = Retained(z) \cup {n}
    BY <1>4, <1>6, Zenon DEF Store_
  <2>2. /\ DiskTyped' /\ \A p : WasStored(p) => WasStored(p)'
        /\ n \in files' => WasStored(n)'
    BY <1>0, <1>1, <1>4, <2>1, Storing
  <2>. DEFINE q == [r EXCEPT !.batch = @ \cup {n}]
  <2>3. GoOnWith(j, q)
    BY <1>4, <1>6, Zenon DEF Store_
  <2>4. r.batch \cup {n} \in SUBSET Nat
    BY <1>2, <1>4 DEF AtWork
  <2>5. q \in AtWork /\ q.at = "store" /\ q.ready = r.ready /\ q.batch = r.batch \cup {n}
    BY <1>1, <1>2, <2>4 DEF AtWork
  <2>. HIDE DEF q
  <2>6. MovesTo(j, q.ready \cup q.batch)
    BY <2>3, <2>5, GoingOnMoves
  <2>7. \A p \in q.ready \cup q.batch : WasStored(p)'
    <3>1. n \in files'
      BY <2>1
    <3>2. \A p \in Pictures(r) : WasStored(p)
      BY <1>0 DEF JobsKept
    <3>. QED
      BY <1>2, <2>2, <2>5, <3>1, <3>2
  <2>8. JobsKept'
    BY <1>0, <2>2, <2>6, <2>7, JobsMove
  <2>. QED
    BY <1>0, <1>1, <1>5, <2>2, <2>8 DEF ImageInv
<1>7. CASE WriteFails(j)
  <2>1. PICK z \in Sizes : sizes' = Append(sizes, z) /\ files' = Retained(z)
    BY <1>7, Zenon DEF WriteFails
  <2>2. DiskTyped' /\ \A p : WasStored(p) => WasStored(p)'
    BY <1>0, <1>1, <1>4, <2>1, Storing
  <2>3. GenerationFails(j) \/ Over(j, {})
    BY <1>7 DEF WriteFails
  <2>4. GenerationFails(j) => MovesTo(j, r.ready)
    BY <1>2, FailureMoves
  <2>5. Over(j, {}) => MovesTo(j, r.ready)
    BY OverMoves
  <2>6. \A p \in r.ready : WasStored(p)'
    BY <1>0, <1>2, <2>2 DEF JobsKept
  <2>7. JobsKept'
    BY <1>0, <2>2, <2>3, <2>4, <2>5, <2>6, JobsMove
  <2>. QED
    BY <1>0, <1>1, <1>5, <2>2, <2>7 DEF ImageInv
<1>. QED
  BY <1>6, <1>7

\* The answer.  Its pictures are finitely many, and are counted where they are given.
LEMMA GivesPictures == ASSUME ImageInv, NEW j \in Jobs, CountAndAnswer(j) PROVE ImageInv'
<1>. DEFINE r == job[j]
            n == Cardinality(Given(r))
<1>0. JobsKept /\ DiskTyped /\ CountTyped /\ expired \in [pictures : SUBSET Nat, marks : Nat]
  BY DEF ImageInv
<1>1. JobTyped(r) /\ r.at = "count"
  BY <1>0 DEF JobsKept, CountAndAnswer
<1>2. r \in HasPictures /\ Pictures(r) = r.ready
  <2>1. r \notin {NoJob} \cup AtWork \cup IsOver
    BY <1>1 DEF NoJob, AtWork, IsOver
  <2>. QED
    BY <1>1, <2>1 DEF JobTyped, Pictures
<1>3. Given(r) \subseteq r.ready /\ Given(r) \in SUBSET Nat
  BY <1>2 DEF Given, HasPictures
<1>4. n \in Nat
  <2>1. r.ready \subseteq 1 .. Drawings /\ Drawings \in Int /\ 1 \in Int
    BY <1>0, <1>2 DEF JobsKept, WasStored, DiskTyped, Drawings
  <2>2. IsFiniteSet(1 .. Drawings)
    BY <2>1, FS_Interval
  <2>3. Given(r) \in SUBSET (1 .. Drawings)
    BY <1>3, <2>1
  <2>4. IsFiniteSet(Given(r))
    BY <2>2, <2>3, FS_Subset
  <2>. QED
    BY <2>4, FS_CardinalityType
<1>5. Over(j, Given(r)) /\ UNCHANGED <<spentOut, files, sizes, expired>>
  BY DEF CountAndAnswer
<1>6. MovesTo(j, Pictures(r))
  BY <1>2, <1>3, <1>5, OverMoves
<1>7. DiskTyped' /\ \A p : WasStored(p) => WasStored(p)'
  BY <1>0, <1>5, DiskKept
<1>8. JobsKept'
  <2>1. \A p \in Pictures(r) : WasStored(p)'
    BY <1>0, <1>7 DEF JobsKept
  <2>. QED
    BY <1>0, <1>6, <1>7, <2>1, JobsMove
<1>9. CountTyped'
  <2>1. \/ used' = used + n /\ uncounted' = uncounted /\ delivered' = delivered + n
        \/ used' = used /\ uncounted' = uncounted + n /\ delivered' = delivered + n
        \/ used' = used /\ uncounted' = uncounted /\ delivered' = delivered
    BY DEF CountAndAnswer, Bumped
  <2>. HIDE DEF n
  <2>. QED
    BY <1>0, <1>4, <1>5, <2>1 DEF CountTyped, QuotaIsExact
<1>. QED
  BY <1>0, <1>5, <1>7, <1>8, <1>9 DEF ImageInv

LEMMA LeavesUnanswered == ASSUME ImageInv, NEW j \in Jobs, GoneBeforeCount(j) PROVE ImageInv'
<1>1. MovesTo(j, Pictures(job[j]))
  BY OverMoves DEF GoneBeforeCount
<1>2. spentOut' \subseteq ImageAccounts /\ UNCHANGED <<files, sizes>> /\ Unkept
  BY DEF GoneBeforeCount, ImageInv, CountTyped
<1>. QED
  BY <1>1, <1>2, QuietStep

\* What expires, and what is removed because it has.
LEMMA TimePasses ==
  ASSUME ImageInv, ExpirePicture \/ \E a \in ImageAccounts : ExpireMark(a)
  PROVE  ImageInv'
<1>0. JobsKept /\ DiskTyped /\ CountTyped /\ expired \in [pictures : SUBSET Nat, marks : Nat]
  BY DEF ImageInv
<1>1. UNCHANGED <<job, files, sizes, used, delivered, uncounted>> /\ spentOut' \subseteq ImageAccounts
  BY <1>0 DEF ExpirePicture, ExpireMark, CountTyped
<1>2. /\ expired' \in [pictures : SUBSET Nat, marks : Nat]
      /\ expired.pictures \subseteq expired'.pictures
  <2>1. CASE ExpirePicture
    <3>1. PICK f \in Fresh : expired' = [expired EXCEPT !.pictures = @ \cup {f}]
      BY <2>1 DEF ExpirePicture
    <3>2. f \in Nat
      BY <1>0 DEF Fresh, DiskTyped, Drawings
    <3>. QED
      BY <1>0, <3>1, <3>2
  <2>2. CASE \E a \in ImageAccounts : ExpireMark(a)
    <3>1. expired' = [expired EXCEPT !.marks = @ + 1]
      BY <2>2 DEF ExpireMark
    <3>. QED
      BY <1>0, <3>1
  <2>. QED
    BY <2>1, <2>2
<1>3. DiskTyped' /\ \A p : WasStored(p) => WasStored(p)'
  BY <1>0, <1>1, <1>2, DiskKept
<1>4. JobsKept'
  BY <1>0, <1>1, <1>3 DEF JobsKept, JobTyped
<1>5. CountTyped'
  BY <1>0, <1>1 DEF CountTyped, QuotaIsExact
<1>. QED
  BY <1>2, <1>3, <1>4, <1>5 DEF ImageInv

LEMMA RemovesExpired == ASSUME ImageInv, LoadExpired PROVE ImageInv'
<1>0. JobsKept /\ DiskTyped /\ CountTyped /\ expired \in [pictures : SUBSET Nat, marks : Nat]
  BY DEF ImageInv
<1>1. PICK f \in files \cap expired.pictures : files' = files \ {f}
  BY DEF LoadExpired
<1>2. UNCHANGED <<job, spentOut, sizes, used, delivered, uncounted, expired>>
  BY DEF LoadExpired, Unkept
<1>3. sizes \in Seq(Sizes) /\ files \subseteq 1 .. Len(sizes) /\ files' \subseteq files
  BY <1>0, <1>1 DEF DiskTyped, Drawings
<1>4. DiskTyped'
  <2>1. IsFiniteSet(files) /\ Cardinality(files) \in Nat /\ Cardinality(BlocksBy(sizes, files)) \in Nat
    BY <1>3, BlocksFinite, FS_CardinalityType
  <2>2. IsFiniteSet(files') /\ Cardinality(files') \in Nat /\ Cardinality(BlocksBy(sizes, files')) \in Nat
    BY <1>3, BlocksFinite, FS_CardinalityType
  <2>3. Cardinality(files') <= Cardinality(files)
    BY <1>3, <2>1, FS_Subset
  <2>4. Cardinality(BlocksBy(sizes, files')) <= Cardinality(BlocksBy(sizes, files))
    BY <1>3, BlocksGrow
  <2>5. Cardinality(files) <= MaxFiles /\ Cardinality(BlocksBy(sizes, files)) <= DiskLimit
    BY <1>0, BlocksAre DEF DiskTyped
  <2>6. Cardinality(files') <= MaxFiles
    BY <2>1, <2>2, <2>3, <2>5, ImageBounds
  <2>7. Cardinality(BlocksBy(sizes, files')) <= DiskLimit
    <3>. DEFINE c == Cardinality(BlocksBy(sizes, files))
                d == Cardinality(BlocksBy(sizes, files'))
    <3>1. c \in Nat /\ d \in Nat /\ d <= c /\ c <= DiskLimit
      BY <2>1, <2>2, <2>4, <2>5
    <3>. HIDE DEF c, d
    <3>2. d <= DiskLimit
      BY <3>1, ImageBounds
    <3>. QED
      BY <3>2 DEF d
  <2>8. Blocks(files)' = BlocksBy(sizes, files')
    BY <1>2 DEF Blocks, BlocksBy
  <2>. QED
    BY <1>0, <1>2, <1>3, <2>6, <2>7, <2>8 DEF DiskTyped, Drawings
<1>5. \A p : WasStored(p) => WasStored(p)'
  <2>1. \A p : PushedOut(p)' <=> PushedOut(p)
    BY <1>2 DEF PushedOut, Drawings, Blocks
  <2>. QED
    BY <1>1, <1>2, <2>1 DEF WasStored, Drawings
<1>6. JobsKept'
  BY <1>0, <1>2, <1>5 DEF JobsKept, JobTyped
<1>7. CountTyped'
  BY <1>0, <1>2 DEF CountTyped, QuotaIsExact
<1>. QED
  BY <1>0, <1>2, <1>4, <1>6, <1>7 DEF ImageInv

LEMMA ImageStep == ImageInv /\ [ImageNext]_imageVars => ImageInv'
<1>. SUFFICES ASSUME ImageInv, [ImageNext]_imageVars PROVE ImageInv'
  OBVIOUS
<1>1. ASSUME NEW j \in Jobs, Ask(j) PROVE ImageInv'
  BY <1>1, AsksForPictures
<1>2. ASSUME NEW j \in Jobs, Choose(j) PROVE ImageInv'
  BY <1>2, Chooses
<1>3. ASSUME NEW j \in Jobs, DrawFails(j) PROVE ImageInv'
  BY <1>3, DrawingFails
<1>4. ASSUME NEW j \in Jobs, NEW n \in 1 .. PerCall, Drawn(j, n) PROVE ImageInv'
  BY <1>4, Draws
<1>5. ASSUME NEW j \in Jobs, Store_(j) \/ WriteFails(j) PROVE ImageInv'
  BY <1>5, Stores
<1>6. ASSUME NEW j \in Jobs, StoreFails(j) PROVE ImageInv'
  BY <1>6, StoreGoesWrong
<1>7. ASSUME NEW j \in Jobs, CountAndAnswer(j) PROVE ImageInv'
  BY <1>7, GivesPictures
<1>8. ASSUME NEW j \in Jobs, GoneBeforeCount(j) PROVE ImageInv'
  BY <1>8, LeavesUnanswered
<1>9. ASSUME ExpirePicture \/ \E a \in ImageAccounts : ExpireMark(a) PROVE ImageInv'
  BY <1>9, TimePasses
<1>10. CASE LoadExpired
  BY <1>10, RemovesExpired
<1>11. CASE UNCHANGED imageVars
  <2>1. UNCHANGED <<job, spentOut, files, sizes, used, delivered, uncounted, expired>>
    BY <1>11 DEF imageVars
  <2>2. DiskTyped' /\ \A p : WasStored(p) => WasStored(p)'
    BY <2>1, DiskKept DEF ImageInv
  <2>3. JobsKept' /\ CountTyped'
    BY <2>1, <2>2 DEF ImageInv, JobsKept, JobTyped, CountTyped, QuotaIsExact
  <2>. QED
    BY <2>1, <2>2, <2>3 DEF ImageInv
<1>. QED
  BY <1>1, <1>2, <1>3, <1>4, <1>5, <1>6, <1>7, <1>8, <1>9, <1>10, <1>11 DEF ImageNext

LEMMA ImageImplied == ImageInv => ImageTypeOK /\ PicturesKept
<1>. SUFFICES ASSUME ImageInv PROVE ImageTypeOK /\ PicturesKept
  OBVIOUS
<1>1. \A j \in Jobs : job[j].at \in {"idle", "choose", "draw", "store", "count", "over"}
  BY DEF ImageInv, JobsKept, JobTyped, NoJob, AtWork, HasPictures, IsOver
<1>2. ImageTypeOK
  BY <1>1 DEF ImageInv, DiskTyped, CountTyped, ImageTypeOK
<1>3. GivenIsStored
  <2>1. ASSUME NEW j \in Jobs, job[j].at = "over" PROVE Pictures(job[j]) = job[j].given
    BY <2>1 DEF Pictures
  <2>. QED
    BY <2>1 DEF ImageInv, JobsKept, WasStored, GivenIsStored
<1>. QED
  BY <1>2, <1>3 DEF ImageInv, CountTyped, PicturesKept

\* What is on disk, counted and given, in every state (images.go,
\* generated_image_store.go).
THEOREM ImageInvariant == ImageSpec => []ImageInv
BY ImageInitial, ImageStep, PTL DEF ImageSpec

\* The pictures on disk are no more, and take no more, than its two limits allow
\* (storeGeneratedImage), whatever the sizes of pictures are.
THEOREM ImageTypeCorrect == ImageSpec => []ImageTypeOK
BY ImageInvariant, ImageImplied, PTL

\* What the chat or the endpoint gave is on disk until as many newer pictures, or as
\* much, were stored, and the counter of the key has every picture of the chat.
THEOREM PicturesKeptCorrect == ImageSpec => []PicturesKept
BY ImageInvariant, ImageImplied, PTL
=============================================================================
