------------------------- MODULE AccountSlotsProofs -------------------------
(***************************************************************************)
(* Proofs about AccountSlots, for any sets of accounts and goroutines (the *)
(* latter finite) and any positive limit: the counter counts the running   *)
(* calls, the limit is kept, no wakeup is lost, and the limiter implements *)
(* SlotPool.  SlotAccounting alone is not inductive: the bound needs the   *)
(* accounting, and a release keeps NoLostWakeup only because it wakes      *)
(* every sleeper.                                                          *)
(***************************************************************************)
EXTENDS AccountSlots, FiniteSetTheorems, TLAPS

SlotsInv == TypeOK /\ SlotAccounting /\ WithinLimit /\ NoLostWakeup

\* The holders of an account are finitely many.
LEMMA HoldersFinite ==
    ASSUME NEW a \in AccountId
    PROVE  IsFiniteSet(Holders(a)) /\ Cardinality(Holders(a)) \in Nat
<1>1. Holders(a) \in SUBSET Request
  BY DEF Holders
<1>2. IsFiniteSet(Holders(a))
  BY <1>1, SlotsAssumption, FS_Subset
<1>. QED
  BY <1>2, FS_CardinalityType

\* A slot that is taken adds exactly one holder, to one account.
LEMMA TakeHolders ==
    ASSUME TypeOK, NEW r \in Request, NEW b \in AccountId, acct[r] = b, Take(r)
    PROVE  /\ r \notin Holders(b)
           /\ Holders(b)' = Holders(b) \cup {r}
           /\ \A a \in AccountId : a # b => Holders(a)' = Holders(a)
<1>1. /\ phase[r] = "acquiring"
      /\ phase' = [phase EXCEPT ![r] = "calling"]
      /\ acct' = acct
  BY DEF Take
<1>. QED
  BY <1>1 DEF TypeOK, Holders

\* A release removes exactly the goroutine that runs it, from its account.
LEMMA ReleaseHolders ==
    ASSUME TypeOK, NEW r \in Request, NEW b \in AccountId, acct[r] = b, Release(r)
    PROVE  /\ r \in Holders(b)
           /\ Holders(b)' = Holders(b) \ {r}
           /\ \A a \in AccountId : a # b => Holders(a)' = Holders(a)
<1>1. /\ phase[r] = "calling"
      /\ phase' = [phase EXCEPT ![r] = "idle"]
      /\ acct' = acct
  BY DEF Release
<1>. QED
  BY <1>1 DEF TypeOK, Holders

\* Every other step leaves the counters and the holders alone.
QuietStep(r) ==
    \/ \E a \in AccountId : Begin(r, a)
    \/ Enqueue(r) \/ Wake(r) \/ GiveUp(r) \/ End(r)

\* Quiet steps keep counters and holders.
LEMMA QuietHolders ==
    ASSUME TypeOK, NEW r \in Request, QuietStep(r)
    PROVE  inflight' = inflight /\ \A a \in AccountId : Holders(a)' = Holders(a)
<1>1. CASE \E a \in AccountId : Begin(r, a)
  BY <1>1 DEF TypeOK, Begin, Holders
<1>2. CASE Enqueue(r)
  BY <1>2 DEF TypeOK, Enqueue, Holders
<1>3. CASE Wake(r)
  BY <1>3 DEF TypeOK, Wake, Holders
<1>4. CASE GiveUp(r)
  BY <1>4 DEF TypeOK, GiveUp, Holders
<1>5. CASE End(r)
  BY <1>5 DEF TypeOK, End, Holders
<1>. QED
  BY <1>1, <1>2, <1>3, <1>4, <1>5 DEF QuietStep

\* A step takes a slot, gives one back, or is quiet.
LEMMA NextCases ==
    ASSUME Next
    PROVE  \E r \in Request : Take(r) \/ Release(r) \/ QuietStep(r)
  BY DEF Next, QuietStep
-----------------------------------------------------------------------------
\* Every step keeps the types.
LEMMA TypeStep == TypeOK /\ [Next]_vars => TypeOK'
<1>. SUFFICES ASSUME TypeOK, [Next]_vars PROVE TypeOK'
  OBVIOUS
<1>. USE DEF TypeOK, Phase
<1>1. CASE UNCHANGED vars
  BY <1>1 DEF vars
<1>2. ASSUME NEW r \in Request, Take(r) PROVE TypeOK'
  BY <1>2 DEF Take
<1>3. ASSUME NEW r \in Request, Release(r) PROVE TypeOK'
  <2>1. inflight' \in [AccountId -> Nat]
    BY <1>3 DEF Release
  <2>2. UNCHANGED <<acct, ended>> /\ phase' \in [Request -> Phase]
    BY <1>3 DEF Release
  <2>3. heard' \in [Request -> BOOLEAN]
    BY <1>3 DEF Release, Broadcast
  <2>. QED
    BY <2>1, <2>2, <2>3
<1>4. ASSUME NEW r \in Request, NEW a \in AccountId, Begin(r, a) PROVE TypeOK'
  BY <1>4 DEF Begin
<1>5. ASSUME NEW r \in Request, Enqueue(r) PROVE TypeOK'
  BY <1>5 DEF Enqueue
<1>6. ASSUME NEW r \in Request, Wake(r) PROVE TypeOK'
  BY <1>6 DEF Wake
<1>7. ASSUME NEW r \in Request, GiveUp(r) PROVE TypeOK'
  BY <1>7 DEF GiveUp
<1>8. ASSUME NEW r \in Request, End(r) PROVE TypeOK'
  BY <1>8 DEF End
<1>. QED
  BY <1>1, <1>2, <1>3, <1>4, <1>5, <1>6, <1>7, <1>8 DEF Next

\* Every step keeps the accounting and the limit.
LEMMA AccountingStep ==
    TypeOK /\ SlotAccounting /\ WithinLimit /\ [Next]_vars
        => SlotAccounting' /\ WithinLimit'
<1>. SUFFICES ASSUME TypeOK, SlotAccounting, WithinLimit, [Next]_vars
              PROVE  SlotAccounting' /\ WithinLimit'
  OBVIOUS
<1>0. Limit \in Nat
  BY SlotsAssumption
<1>1. CASE UNCHANGED vars
  <2>1. \A a \in AccountId : Holders(a)' = Holders(a)
    BY <1>1 DEF vars, Holders
  <2>. QED
    BY <1>1, <2>1 DEF vars, SlotAccounting, WithinLimit
<1>2. ASSUME NEW r \in Request, NEW b \in AccountId, acct[r] = b, Take(r)
      PROVE  SlotAccounting' /\ WithinLimit'
  <2>1. b \in AccountId /\ inflight[b] < Limit
        /\ inflight' = [inflight EXCEPT ![b] = @ + 1]
    BY <1>2 DEF Take, TypeOK
  <2>2. Cardinality(Holders(b) \cup {r}) = Cardinality(Holders(b)) + 1
    BY <1>2, <2>1, TakeHolders, HoldersFinite, FS_AddElement
  <2>3. inflight'[b] = Cardinality(Holders(b)')
    BY <1>2, <2>1, <2>2, TakeHolders DEF SlotAccounting, TypeOK
  <2>4. \A a \in AccountId : a # b => inflight'[a] = Cardinality(Holders(a)')
    BY <1>2, <2>1, TakeHolders DEF SlotAccounting, TypeOK
  <2>5. \A a \in AccountId : inflight'[a] <= Limit
    BY <1>0, <2>1 DEF WithinLimit, TypeOK
  <2>. QED
    BY <2>3, <2>4, <2>5 DEF SlotAccounting, WithinLimit
<1>3. ASSUME NEW r \in Request, NEW b \in AccountId, acct[r] = b, Release(r)
      PROVE  SlotAccounting' /\ WithinLimit'
  <2>1. b \in AccountId
        /\ inflight' = [inflight EXCEPT ![b] = IF @ <= 1 THEN 0 ELSE @ - 1]
    BY <1>3 DEF Release, TypeOK
  <2>2. Cardinality(Holders(b) \ {r}) = Cardinality(Holders(b)) - 1
    BY <1>3, <2>1, ReleaseHolders, HoldersFinite, FS_RemoveElement
  <2>3. Cardinality(Holders(b) \ {r}) \in Nat
    BY <2>1, HoldersFinite, FS_RemoveElement, FS_CardinalityType
  <2>4. inflight[b] = Cardinality(Holders(b)) /\ inflight[b] \in Nat
    BY <2>1 DEF SlotAccounting, TypeOK
  <2>5. inflight'[b] = Cardinality(Holders(b)')
    BY <1>3, <2>1, <2>2, <2>3, <2>4, ReleaseHolders DEF TypeOK
  <2>6. \A a \in AccountId : a # b => inflight'[a] = Cardinality(Holders(a)')
    BY <1>3, <2>1, ReleaseHolders DEF SlotAccounting, TypeOK
  <2>7. \A a \in AccountId : inflight'[a] <= Limit
    BY <1>0, <2>1 DEF WithinLimit, TypeOK
  <2>. QED
    BY <2>5, <2>6, <2>7 DEF SlotAccounting, WithinLimit
<1>4. ASSUME NEW r \in Request, QuietStep(r)
      PROVE  SlotAccounting' /\ WithinLimit'
  BY <1>4, QuietHolders DEF SlotAccounting, WithinLimit
<1>5. \A r \in Request : acct[r] \in AccountId
  BY DEF TypeOK
<1>. QED
  BY <1>1, <1>2, <1>3, <1>4, <1>5, NextCases

\* Every step keeps the sleepers' condition.
LEMMA WakeupStep ==
    TypeOK /\ NoLostWakeup /\ [Next]_vars => NoLostWakeup'
<1>. SUFFICES ASSUME TypeOK, NoLostWakeup, [Next]_vars,
                     NEW w \in Request,
                     phase'[w] = "waiting", ~heard'[w]
              PROVE  inflight'[acct'[w]] >= Limit
  BY DEF NoLostWakeup
<1>. USE DEF TypeOK, NoLostWakeup
<1>0. Limit \in Nat
  BY SlotsAssumption
<1>1. CASE UNCHANGED vars
  BY <1>1 DEF vars
<1>2. ASSUME NEW r \in Request, Take(r) PROVE inflight'[acct'[w]] >= Limit
  BY <1>0, <1>2 DEF Take
<1>3. ASSUME NEW r \in Request, Release(r) PROVE FALSE
  \* The sleeper was asleep before, so the broadcast reached it.
  <2>1. phase[w] = "waiting"
    BY <1>3 DEF Release
  <2>. QED
    BY <1>3, <2>1 DEF Release, Broadcast, Sleepers
<1>4. ASSUME NEW r \in Request, NEW a \in AccountId, Begin(r, a)
      PROVE  inflight'[acct'[w]] >= Limit
  BY <1>4 DEF Begin
<1>5. ASSUME NEW r \in Request, Enqueue(r) PROVE inflight'[acct'[w]] >= Limit
  BY <1>5 DEF Enqueue
<1>6. ASSUME NEW r \in Request, Wake(r) PROVE inflight'[acct'[w]] >= Limit
  BY <1>6 DEF Wake
<1>7. ASSUME NEW r \in Request, GiveUp(r) PROVE inflight'[acct'[w]] >= Limit
  BY <1>7 DEF GiveUp
<1>8. ASSUME NEW r \in Request, End(r) PROVE inflight'[acct'[w]] >= Limit
  BY <1>8 DEF End
<1>. QED
  BY <1>1, <1>2, <1>3, <1>4, <1>5, <1>6, <1>7, <1>8 DEF Next

\* The invariant holds initially.
LEMMA InitInv == Init => SlotsInv
<1>. SUFFICES ASSUME Init PROVE SlotsInv
  OBVIOUS
<1>1. TypeOK
  BY DEF Init, TypeOK, Phase
<1>2. \A a \in AccountId : Holders(a) = {}
  BY DEF Init, Holders
<1>3. SlotAccounting /\ WithinLimit
  BY <1>2, FS_EmptySet, SlotsAssumption DEF Init, SlotAccounting, WithinLimit
<1>4. NoLostWakeup
  BY DEF Init, NoLostWakeup
<1>. QED
  BY <1>1, <1>3, <1>4 DEF SlotsInv

\* Every step keeps the invariant.
LEMMA InvStep == SlotsInv /\ [Next]_vars => SlotsInv'
  BY TypeStep, AccountingStep, WakeupStep DEF SlotsInv

\* The inductive invariant holds in every reachable state.
THEOREM SlotsInvariant == Spec => []SlotsInv
  BY InitInv, InvStep, PTL DEF Spec

\* Type correctness of the limiter.
THEOREM TypeCorrect == Spec => []TypeOK
<1>1. SlotsInv => TypeOK
  BY DEF SlotsInv
<1>. QED
  BY <1>1, SlotsInvariant, PTL

\* The counter of an account is the number of calls running on it and stays
\* within the limit (account_concurrency.go:38-52).
THEOREM AccountingCorrect == Spec => [](SlotAccounting /\ WithinLimit)
<1>1. SlotsInv => SlotAccounting /\ WithinLimit
  BY DEF SlotsInv
<1>. QED
  BY <1>1, SlotsInvariant, PTL

\* A sleeper whose channel is open sleeps on a full account
\* (account_concurrency.go:56-61).
THEOREM WakeupCorrect == Spec => []NoLostWakeup
<1>1. SlotsInv => NoLostWakeup
  BY DEF SlotsInv
<1>. QED
  BY <1>1, SlotsInvariant, PTL
-----------------------------------------------------------------------------
\* Every step of the limiter is a Grant, a Return or a stutter of SlotPool.
LEMMA StepRefines ==
    SlotsInv /\ [Next]_vars
        => [Pool!Next]_([a \in AccountId |-> Holders(a)])
<1>. SUFFICES ASSUME SlotsInv, [Next]_vars
              PROVE  [Pool!Next]_([a \in AccountId |-> Holders(a)])
  OBVIOUS
<1>. DEFINE serving == [a \in AccountId |-> Holders(a)]
<1>. USE DEF SlotsInv
<1>1. CASE UNCHANGED vars
  <2>1. \A a \in AccountId : Holders(a)' = Holders(a)
    BY <1>1 DEF vars, Holders
  <2>. QED
    BY <2>1
<1>2. ASSUME NEW r \in Request, NEW b \in AccountId, acct[r] = b, Take(r)
      PROVE  Pool!Grant(b, r)
  <2>1. Cardinality(Holders(b)) < Limit
    BY <1>2 DEF Take, TypeOK, SlotAccounting
  <2>2. \A a \in AccountId : r \notin Holders(a)
    BY <1>2 DEF Take, Holders
  <2>3. serving' = [serving EXCEPT ![b] = @ \cup {r}]
    BY <1>2, <2>1, TakeHolders
  <2>4. Pool!Cardinality(Holders(b)) = Cardinality(Holders(b))
    BY DEF Cardinality, Pool!Cardinality
  <2>. QED
    BY <2>1, <2>2, <2>3, <2>4 DEF Pool!Grant
<1>3. ASSUME NEW r \in Request, NEW b \in AccountId, acct[r] = b, Release(r)
      PROVE  Pool!Return(b, r)
  <2>1. r \in Holders(b)
    BY <1>3, ReleaseHolders
  <2>2. serving' = [serving EXCEPT ![b] = @ \ {r}]
    BY <1>3, <2>1, ReleaseHolders
  <2>. QED
    BY <2>1, <2>2 DEF Pool!Return
<1>4. ASSUME NEW r \in Request, QuietStep(r)
      PROVE  UNCHANGED serving
  BY <1>4, QuietHolders
<1>5. \A r \in Request : acct[r] \in AccountId
  BY DEF TypeOK
<1>. QED
  BY <1>1, <1>2, <1>3, <1>4, <1>5, NextCases DEF Pool!Next

\* The limiter implements the bounded pool: no interleaving of Acquire and
\* release is visible to its users as anything but grants and returns.
THEOREM ImplementsPool == Spec => PoolSpec
<1>1. Init => Pool!Init
  BY DEF Init, Pool!Init, Holders
<1>. QED
  BY <1>1, StepRefines, SlotsInvariant, PTL DEF Spec, PoolSpec, Pool!Spec
=============================================================================
