----------------------- MODULE AccountDispatchProofs ------------------------
(***************************************************************************)
(* Proofs about AccountHealth, for any accounts, any subset of the error   *)
(* kinds, any durations and any circuit thresholds, and about              *)
(* AccountDispatch, for any accounts, any number of requests, any limit,   *)
(* probe bound and durations.                                              *)
(*                                                                         *)
(* The health book's type invariant and MarksExpire are proved together:   *)
(* that a failure leaves a cooldown entry rests on every duration being a  *)
(* natural number, hence not Absent.  A step of the gateway is a step or a *)
(* stutter of each component it shares, so what is proved of the limiter   *)
(* (AccountSlotsProofs) and of the health book alone holds of them inside  *)
(* the gateway.  FailoverElsewhere and NoHoldAndWait are not inductive:    *)
(* they rest on what the handler's program counter says about its          *)
(* candidate (Candidates, SecondSearch).                                   *)
(***************************************************************************)
EXTENDS AccountDispatch, TLAPS

Category == FixedCooldown \cup {"QUOTA_429", "RETRY_AFTER_429", "CLIENT_CANCELED"}

HealthInv == HealthTypeOK /\ MarksExpire

\* ClassifyError gives every error a category.
LEMMA ClassifyType ==
    ASSUME NEW e \in Error
    PROVE  Classify(e) \in Category
  BY HealthAssumption
     DEF Classify, Category, AllErrors, PlainErrors, FixedCooldown

\* Every category but a cancelled client gives a natural number of ticks.
LEMMA CooldownType ==
    ASSUME NEW a \in Account, NEW cat \in Category, cat # "CLIENT_CANCELED",
           HealthTypeOK, NEW d \in CooldownFor(a, cat)
    PROVE  d \in Nat
<1>1. NextAttempt(a) \in 1..AttemptCap
  BY HealthAssumption DEF HealthTypeOK, NextAttempt
<1>2. CASE cat = "QUOTA_429"
  BY <1>1, <1>2, HealthAssumption DEF CooldownFor
<1>3. CASE cat = "RETRY_AFTER_429"
  BY <1>3, HealthAssumption DEF CooldownFor
<1>4. CASE cat \in FixedCooldown
  BY <1>4, HealthAssumption DEF CooldownFor, FixedCooldown
<1>. QED
  BY <1>2, <1>3, <1>4 DEF Category

\* The circuit's operations keep its types.
LEMMA CircuitTypes ==
    ASSUME CircuitTypeOK,
           RecordSuccess \/ RecordFailure \/ ResetCircuit \/ CircuitTick
               \/ UNCHANGED circuitVars
    PROVE  CircuitTypeOK'
<1>. USE CircuitAssumption DEF CircuitTypeOK, Absent
<1>1. CASE RecordSuccess
  BY <1>1 DEF RecordSuccess, Count, Reopen
<1>2. CASE RecordFailure
  BY <1>2 DEF RecordFailure, Count, Reopen
<1>3. CASE ResetCircuit
  BY <1>3 DEF ResetCircuit
<1>4. CASE CircuitTick
  BY <1>4 DEF CircuitTick
<1>5. CASE UNCHANGED circuitVars
  BY <1>5 DEF circuitVars
<1>. QED
  BY <1>1, <1>2, <1>3, <1>4, <1>5
-----------------------------------------------------------------------------
\* Looking at accounts forgets marks together with the entry.
LEMMA LookStep ==
    ASSUME HealthInv, NEW B \in SUBSET Account, Look(B)
    PROVE  HealthInv'
<1>. USE DEF HealthInv, HealthTypeOK, Look, Lapse, Gone, Expired, Absent
<1>1. CircuitTypeOK'
  BY CircuitTypes
<1>2. HealthTypeOK'
  BY <1>1, HealthAssumption
<1>3. MarksExpire'
  BY DEF MarksExpire
<1>. QED
  BY <1>2, <1>3

\* So does the end of an image limit.
LEMMA LookImageStep ==
    ASSUME HealthInv, NEW a \in Account, LookImage(a)
    PROVE  HealthInv'
<1>. USE DEF HealthInv, HealthTypeOK, LookImage, Lapse, Gone, Expired, Absent
<1>1. CircuitTypeOK'
  BY CircuitTypes
<1>2. HealthTypeOK'
  BY <1>1, HealthAssumption
<1>3. MarksExpire'
  BY DEF MarksExpire
<1>. QED
  BY <1>2, <1>3

\* A failure that is not a cancelled client leaves a cooldown entry.
LEMMA FailureStep ==
    ASSUME HealthInv, NEW a \in Account, NEW cat \in Category,
           MarkFailureAs(a, cat)
    PROVE  HealthInv'
<1>. USE DEF HealthInv
<1>1. CircuitTypeOK'
  BY CircuitTypes DEF HealthTypeOK, MarkFailureAs, RecordOnCircuit
<1>2. CASE cat = "CLIENT_CANCELED"
  <2>1. UNCHANGED mapVars
    BY <1>2 DEF MarkFailureAs
  <2>. QED
    BY <1>1, <2>1 DEF mapVars, HealthTypeOK, MarksExpire
<1>3. CASE cat # "CLIENT_CANCELED"
  <2>1. PICK d \in CooldownFor(a, cat) : cooldown' = [cooldown EXCEPT ![a] = d]
    BY <1>3 DEF MarkFailureAs
  <2>2. d \in Nat
    BY <1>3, CooldownType
  <2>3. /\ authFail' \subseteq authFail \cup {a}
        /\ limited' \subseteq limited \cup {a}
        /\ UNCHANGED <<imageLimited, imageUntil>>
    BY <1>3 DEF MarkFailureAs
  <2>4. /\ attempts' \in [Account -> 0..AttemptCap]
        /\ \A b \in Account : b # a => attempts'[b] = attempts[b]
    <3>1. PICK n : attempts' = [attempts EXCEPT ![a] = n]
                   /\ n \in {0, NextAttempt(a), attempts[a]}
      BY <1>3 DEF MarkFailureAs
    <3>2. n \in 0..AttemptCap
      BY <3>1, HealthAssumption DEF HealthTypeOK, NextAttempt
    <3>. QED
      BY <3>1, <3>2 DEF HealthTypeOK
  <2>5. HealthTypeOK'
    BY <1>1, <2>1, <2>2, <2>3, <2>4 DEF HealthTypeOK
  <2>6. MarksExpire'
    BY <2>1, <2>2, <2>3, <2>4 DEF HealthTypeOK, MarksExpire, Absent
  <2>. QED
    BY <2>5, <2>6
<1>. QED
  BY <1>2, <1>3

\* A success clears the entry together with everything it justified.
LEMMA SuccessStep ==
    ASSUME HealthInv, NEW a \in Account, MarkSuccess(a)
    PROVE  HealthInv'
<1>. USE DEF HealthInv, HealthTypeOK, Absent
<1>1. CircuitTypeOK'
  BY CircuitTypes DEF MarkSuccess
<1>2. CASE ImageRunning(a)
  <2>1. /\ cooldown' = [cooldown EXCEPT ![a] = imageUntil[a]]
        /\ authFail' = authFail \ {a} /\ limited' = limited \ {a}
        /\ attempts' = [attempts EXCEPT ![a] = 0]
        /\ UNCHANGED <<imageLimited, imageUntil>>
    BY <1>2 DEF MarkSuccess
  <2>2. imageUntil[a] > 0
    BY <1>2 DEF ImageRunning
  <2>3. HealthTypeOK'
    BY <1>1, <2>1, HealthAssumption
  <2>4. MarksExpire'
    BY <2>1, <2>2 DEF MarksExpire
  <2>. QED
    BY <2>3, <2>4
<1>3. CASE ~ImageRunning(a)
  <2>1. /\ cooldown' = [cooldown EXCEPT ![a] = -1]
        /\ authFail' = authFail \ {a} /\ limited' = limited \ {a}
        /\ attempts' = [attempts EXCEPT ![a] = 0]
        /\ imageLimited' = imageLimited \ {a}
        /\ imageUntil' = [imageUntil EXCEPT ![a] = -1]
    BY <1>3 DEF MarkSuccess
  <2>2. HealthTypeOK'
    BY <1>1, <2>1, HealthAssumption
  <2>3. MarksExpire'
    BY <2>1 DEF MarksExpire
  <2>. QED
    BY <2>2, <2>3
<1>. QED
  BY <1>2, <1>3

\* An image mark brings an entry of its own.
LEMMA ImageStep ==
    ASSUME HealthInv, NEW a \in Account, MarkImageLimited(a)
    PROVE  HealthInv'
<1>. USE DEF HealthInv, HealthTypeOK, MarkImageLimited, Absent
<1>1. CircuitTypeOK'
  BY CircuitTypes
<1>2. HealthTypeOK'
  BY <1>1, HealthAssumption
<1>3. MarksExpire'
  BY HealthAssumption DEF MarksExpire
<1>. QED
  BY <1>2, <1>3

\* The admin page clears everything.
LEMMA ClearStep == HealthInv /\ ClearAllCooldowns => HealthInv'
<1>. SUFFICES ASSUME HealthInv, ClearAllCooldowns PROVE HealthInv'
  OBVIOUS
<1>1. CircuitTypeOK'
  BY CircuitTypes DEF HealthInv, HealthTypeOK, ClearAllCooldowns
<1>. QED
  BY <1>1, HealthAssumption
     DEF HealthInv, HealthTypeOK, MarksExpire, ClearAllCooldowns, Absent

\* The clock never turns an entry into an absent one.
LEMMA TickStep == HealthInv /\ Tick => HealthInv'
<1>. SUFFICES ASSUME HealthInv, Tick PROVE HealthInv'
  OBVIOUS
<1>. USE DEF HealthInv, HealthTypeOK, Tick, Down, Absent
<1>1. CircuitTypeOK'
  BY CircuitTypes
<1>2. HealthTypeOK'
  BY <1>1
<1>3. MarksExpire'
  BY DEF MarksExpire
<1>. QED
  BY <1>2, <1>3

\* Every step keeps the invariant.
LEMMA HealthStep == HealthInv /\ [HealthNext]_healthVars => HealthInv'
<1>. SUFFICES ASSUME HealthInv, [HealthNext]_healthVars PROVE HealthInv'
  OBVIOUS
<1>1. CASE UNCHANGED healthVars
  BY <1>1 DEF healthVars, mapVars, circuitVars, HealthInv, HealthTypeOK,
              CircuitTypeOK, MarksExpire
<1>2. ASSUME NEW a \in Account, NEW e \in Error, MarkFailure(a, e)
      PROVE  HealthInv'
  BY <1>2, ClassifyType, FailureStep DEF MarkFailure
<1>3. ASSUME NEW a \in Account, Result(a) PROVE HealthInv'
  BY <1>2, <1>3, SuccessStep DEF Result
<1>. QED
  BY <1>1, <1>3, LookStep, LookImageStep, ImageStep, ClearStep, TickStep
     DEF HealthNext

\* The invariant holds initially.
LEMMA HealthInitInv == HealthInit => HealthInv
  BY HealthAssumption
     DEF HealthInit, CircuitInit, HealthInv, HealthTypeOK, CircuitTypeOK,
         MarksExpire, Absent

\* The inductive invariant holds in every reachable state.
THEOREM HealthInvariant == HealthSpec => []HealthInv
  BY HealthInitInv, HealthStep, PTL DEF HealthSpec

\* Type correctness of the health pool.
THEOREM HealthTypeCorrect == HealthSpec => []HealthTypeOK
<1>1. HealthInv => HealthTypeOK
  BY DEF HealthInv
<1>. QED
  BY <1>1, HealthInvariant, PTL

\* No account stays blocked for ever: whatever is held against it comes with
\* a cooldown entry, whose expiry clears it (account_health.go:442-463).
THEOREM MarksExpireCorrect == HealthSpec => []MarksExpire
<1>1. HealthInv => MarksExpire
  BY DEF HealthInv
<1>. QED
  BY <1>1, HealthInvariant, PTL
-----------------------------------------------------------------------------
\* Every operation of the circuit keeps its window sane.
LEMMA WindowStep ==
    ASSUME CircuitTypeOK, WindowSane,
           RecordSuccess \/ RecordFailure \/ ResetCircuit \/ CircuitTick
               \/ UNCHANGED circuitVars
    PROVE  WindowSane'
<1>. USE CircuitAssumption DEF CircuitTypeOK, WindowSane, Absent
<1>1. CASE RecordSuccess
  BY <1>1 DEF RecordSuccess, Count, Stale, Full
<1>2. CASE RecordFailure
  BY <1>2 DEF RecordFailure, Count, Stale, Full
<1>3. CASE ResetCircuit
  BY <1>3 DEF ResetCircuit
<1>4. CASE CircuitTick
  BY <1>4 DEF CircuitTick
<1>5. CASE UNCHANGED circuitVars
  BY <1>5 DEF circuitVars
<1>. QED
  BY <1>1, <1>2, <1>3, <1>4, <1>5

\* Whatever the pool does, the circuit sees one of its own operations.
LEMMA CircuitOperation ==
    HealthNext => \/ RecordSuccess \/ RecordFailure \/ ResetCircuit
                  \/ CircuitTick \/ UNCHANGED circuitVars
<1>1. ASSUME NEW a \in Account, Result(a)
      PROVE  RecordSuccess \/ RecordFailure \/ UNCHANGED circuitVars
  BY <1>1 DEF Result, MarkSuccess, MarkFailure, MarkFailureAs, RecordOnCircuit
<1>. QED
  BY <1>1 DEF HealthNext, Look, LookImage, MarkImageLimited,
              ClearAllCooldowns, Tick

\* The circuit's counters describe its window: never more failures than
\* results, never more results than the cap (account_health.go:337-389).
THEOREM WindowCorrect == HealthSpec => []WindowSane
<1>1. HealthInit => WindowSane
  BY CircuitAssumption DEF HealthInit, CircuitInit, WindowSane, Absent
<1>2. HealthInv /\ WindowSane /\ [HealthNext]_healthVars => WindowSane'
  <2>. SUFFICES ASSUME HealthInv, WindowSane, [HealthNext]_healthVars
                PROVE  WindowSane'
    OBVIOUS
  <2>1. \/ RecordSuccess \/ RecordFailure \/ ResetCircuit
        \/ CircuitTick \/ UNCHANGED circuitVars
    BY CircuitOperation DEF healthVars
  <2>. QED
    BY <2>1, WindowStep DEF HealthInv, HealthTypeOK
<1>. QED
  BY <1>1, <1>2, HealthInvariant, PTL DEF HealthSpec
-----------------------------------------------------------------------------
P == INSTANCE AccountSlotsProofs WITH AccountId <- Account

\* The gateway meets what the limiter assumes of its constants.
LEMMA SlotsConstants == P!SlotsAssumption
  BY DispatchAssumption DEF P!SlotsAssumption, IsFiniteSet, P!IsFiniteSet

Searching == {"health", "slot", "next", "token"}

\* A request that searches has a candidate, and its call has an account.
Candidates == \A r \in Request : step[r] \in Searching => cand[r] \in Account

\* Once a request failed over, all it searches for is a second account.
SecondSearch ==
    \A r \in Request :
        /\ step[r] = "start" => first[r] = None
        /\ step[r] \in Searching /\ first[r] # None => why[r] = "failover"

HandlerTypeOK ==
    /\ step \in [Request -> Step]
    /\ kind \in [Request -> Body]
    /\ why \in [Request -> Purpose]
    /\ cand \in [Request -> Account \cup {None}]
    /\ probes \in [Request -> 0..MaxProbe]
    /\ first \in [Request -> Account \cup {None}]
    /\ outcome \in [Request -> Answer \cup {None}]
    /\ cursor \in 1..Len(Order)
    /\ lastHealthy \in Account \cup {None}

Typed == HandlerTypeOK /\ S!TypeOK

HandlerInv ==
    /\ HandlerTypeOK /\ Candidates /\ SecondSearch
    /\ NoHoldAndWait /\ FailoverElsewhere

DispatchInv == HealthInv /\ S!TypeOK /\ HandlerInv

\* The round robin always names an account.
LEMMA PickType ==
    ASSUME HandlerTypeOK
    PROVE  Order[cursor] \in Account /\ NextCursor \in 1..Len(Order)
  BY DispatchAssumption DEF HandlerTypeOK, NextCursor
-----------------------------------------------------------------------------
(* Steps of the limiter.                                                   *)

\* A step of a request, as the limiter sees it.
SlotStep ==
    \/ UNCHANGED slotVars
    \/ \E r \in Request :
          \/ \E a \in Account : P!Begin(r, a)
          \/ P!Take(r) \/ P!Enqueue(r) \/ P!Wake(r)
          \/ P!GiveUp(r) \/ P!End(r) \/ P!Release(r)

\* What the limiter sees is a step of its specification.
LEMMA SlotNext == SlotStep => [P!Next]_P!vars
  BY DEF SlotStep, P!Next, P!vars, slotVars

\* Every step of the gateway is a step or a stutter of the limiter.
LEMMA StepOfSlots ==
    ASSUME Candidates, [DispatchNext]_dispatchVars
    PROVE  [P!Next]_P!vars
<1>1. SlotStep
  <2>1. CASE UNCHANGED dispatchVars \/ Others
    BY <2>1 DEF dispatchVars, Others, SlotStep
  <2>2. ASSUME NEW r \in Request,
               \/ StartExplicit(r) \/ StartPreferred(r) \/ StartProbe(r)
               \/ CheckHealth(r) \/ CheckSlot(r) \/ PassOver(r)
               \/ TokenInvalid(r) \/ CallStarts(r) \/ CallEnds(r)
               \/ FailOver(r) \/ Conclude(r) \/ BlameSecond(r) \/ BlameAcc(r)
        PROVE  UNCHANGED slotVars
    BY <2>2 DEF StartExplicit, StartPreferred, StartProbe, CheckHealth, CheckSlot,
                PassOver, TokenInvalid, CallStarts, CallEnds, FailOver, Conclude,
                BlameSecond, BlameAcc
  <2>3. ASSUME NEW r \in Request, TokenValid(r) PROVE SlotStep
    BY <2>3 DEF TokenValid, S!Begin, P!Begin, SlotStep, Candidates, Searching
  <2>4. ASSUME NEW r \in Request, Acquire(r) PROVE SlotStep
    BY <2>4 DEF Acquire, S!Take, S!Enqueue, S!Wake, P!Take, P!Enqueue, P!Wake,
                SlotStep
  <2>5. ASSUME NEW r \in Request, AcquireFails(r) PROVE SlotStep
    BY <2>5 DEF AcquireFails, S!GiveUp, P!GiveUp, SlotStep
  <2>6. ASSUME NEW r \in Request, ContextEnds(r) PROVE SlotStep
    BY <2>6 DEF ContextEnds, S!End, P!End, SlotStep
  <2>7. ASSUME NEW r \in Request, Leave(r) PROVE SlotStep
    BY <2>7 DEF Leave, S!Release, P!Release, S!Broadcast, P!Broadcast,
                S!Sleepers, P!Sleepers, SlotStep
  <2>. QED
    BY <2>1, <2>2, <2>3, <2>4, <2>5, <2>6, <2>7
       DEF DispatchNext, Handle, SlotStep
<1>. QED
  BY <1>1, SlotNext
-----------------------------------------------------------------------------
(* Steps of the health book.                                               *)

\* Every step of the gateway is a step or a stutter of the health book.
LEMMA StepOfHealth ==
    ASSUME Typed, Candidates, [DispatchNext]_dispatchVars
    PROVE  [HealthNext]_healthVars
<1>0. /\ \A r \in Request : acct[r] \in Account
      /\ \A r \in Request : first[r] \in Account \cup {None}
  BY DEF Typed, HandlerTypeOK, S!TypeOK
<1>1. CASE UNCHANGED dispatchVars
  BY <1>1 DEF dispatchVars
<1>2. CASE Others
  BY <1>2 DEF Others, HealthNext
<1>3. ASSUME NEW r \in Request,
             \/ StartExplicit(r) \/ StartPreferred(r) \/ StartProbe(r)
             \/ CheckSlot(r) \/ PassOver(r) \/ TokenValid(r) \/ TokenInvalid(r)
             \/ Acquire(r) \/ AcquireFails(r) \/ ContextEnds(r) \/ Leave(r)
             \/ FailOver(r) \/ Conclude(r)
      PROVE  UNCHANGED healthVars
  BY <1>3 DEF StartExplicit, StartPreferred, StartProbe, CheckSlot, PassOver,
              TokenValid, TokenInvalid, Acquire, AcquireFails, ContextEnds, Leave,
              FailOver, Conclude
<1>4. ASSUME NEW r \in Request, CheckHealth(r) PROVE HealthNext
  <2>1. cand[r] \in Account /\ Look({cand[r]})
    BY <1>4 DEF CheckHealth, Candidates, Searching
  <2>. QED
    BY <2>1 DEF HealthNext
<1>5. ASSUME NEW r \in Request, CallStarts(r) PROVE HealthNext
  <2>1. Look({acct[r]})
    BY <1>5 DEF CallStarts
  <2>. QED
    BY <1>0, <2>1 DEF HealthNext
<1>6. ASSUME NEW r \in Request, CallEnds(r) PROVE HealthNext
  <2>1. CASE MarkSuccess(acct[r])
    BY <1>0, <2>1 DEF HealthNext, Result
  <2>2. CASE \E e \in Error : MarkFailure(acct[r], e)
    BY <1>0, <2>2 DEF HealthNext, Result
  <2>3. CASE MarkFailure(acct[r], "UPSTREAM_STRUCTURED")
    BY <1>0, <2>3, DispatchAssumption DEF HealthNext, Result
  <2>. QED
    BY <1>6, <2>1, <2>2, <2>3 DEF CallEnds, Called
<1>7. ASSUME NEW r \in Request, BlameSecond(r) \/ BlameAcc(r) PROVE HealthNext
  <2>1. \E a \in Account : MarkImageLimited(a)
    BY <1>0, <1>7 DEF BlameSecond, BlameAcc
  <2>. QED
    BY <2>1 DEF HealthNext
<1>. QED
  BY <1>1, <1>2, <1>3, <1>4, <1>5, <1>6, <1>7 DEF DispatchNext, Handle
-----------------------------------------------------------------------------
(* Steps of the handlers.                                                  *)

\* What the steps of a search do: go on with the same candidate, end the
\* search with an answer, or pick another candidate.
Untouched == UNCHANGED <<kind, first, phase, acct>>

Advance(r, s, w) ==
    /\ step[r] \in Searching
    /\ s = "next" \/ step[r] # "next" \/ w = "final"
    /\ \/ w = why[r] /\ UNCHANGED why
       \/ w = "final" /\ why[r] = "probe" /\ why' = [why EXCEPT ![r] = w]
    /\ Goto(r, s)
    /\ UNCHANGED <<cand, probes, outcome, cursor, lastHealthy>>
    /\ Untouched

Finish(r, o) ==
    /\ step[r] \in Searching
    /\ Reply(r, o)
    /\ SearchOver(r)
    /\ UNCHANGED <<cursor, lastHealthy>>
    /\ Untouched

Repick(r, w, n, s) ==
    /\ step[r] \in Searching
    /\ w = "failover" \/ why[r] # "failover"
    /\ s = "next" \/ w # "failover" \/ Order[cursor] # first[r]
    /\ Pick(r, w, n)
    /\ Goto(r, s)
    /\ UNCHANGED outcome
    /\ Untouched

\* Going on with the same candidate keeps the handler's invariant.
LEMMA AdvanceStep ==
    ASSUME Typed, HandlerInv, NEW r \in Request,
           NEW s \in Searching, NEW w \in Purpose, Advance(r, s, w)
    PROVE  HandlerInv'
<1>. USE DispatchAssumption, PickType
     DEF HandlerInv, Typed, HandlerTypeOK, S!TypeOK, Searching, Step, Purpose,
         Advance, Goto, Untouched
<1>1. HandlerTypeOK'
  <2>1. step' \in [Request -> Step]
    OBVIOUS
  <2>2. why' \in [Request -> Purpose]
    <3>1. why \in [Request -> Purpose] /\ "final" \in Purpose
      OBVIOUS
    <3>2. why' = why \/ why' = [why EXCEPT ![r] = "final"]
      OBVIOUS
    <3>. QED
      BY ONLY <3>1, <3>2
  <2>3. cand' \in [Request -> Account \cup {None}] /\ cursor' \in 1 .. Len(Order)
    OBVIOUS
  <2>. QED
    BY <2>1, <2>2, <2>3
<1>2. Candidates'
  BY DEF Candidates
<1>3. SecondSearch'
  BY DEF SecondSearch
<1>4. NoHoldAndWait'
  BY DEF NoHoldAndWait
<1>5. FailoverElsewhere'
  BY DEF FailoverElsewhere, SecondSearch
<1>. QED
  BY <1>1, <1>2, <1>3, <1>4, <1>5

\* Ending the search keeps the handler's invariant.
LEMMA FinishStep ==
    ASSUME Typed, HandlerInv, NEW r \in Request,
           NEW o \in Answer \cup {None}, Finish(r, o)
    PROVE  HandlerInv'
<1>. USE DispatchAssumption, PickType
     DEF HandlerInv, Typed, HandlerTypeOK, S!TypeOK, Searching, Step, Purpose,
         Finish, Reply, SearchOver, Goto, Untouched
<1>1. HandlerTypeOK'
  <2>1. cand' \in [Request -> Account \cup {None}]
    OBVIOUS
  <2>2. why' \in [Request -> Purpose] /\ probes' \in [Request -> 0..MaxProbe]
    OBVIOUS
  <2>3. step' \in [Request -> Step] /\ outcome' \in [Request -> Answer \cup {None}]
    OBVIOUS
  <2>. QED
    BY <2>1, <2>2, <2>3
<1>2. Candidates'
  BY DEF Candidates
<1>3. SecondSearch'
  BY DEF SecondSearch
<1>4. NoHoldAndWait'
  BY DEF NoHoldAndWait
<1>5. FailoverElsewhere'
  BY DEF FailoverElsewhere, SecondSearch
<1>. QED
  BY <1>1, <1>2, <1>3, <1>4, <1>5

\* Another pick keeps the handler's invariant: a second search tests what
\* the cursor gave it against the account that failed.
LEMMA RepickStep ==
    ASSUME Typed, HandlerInv, NEW r \in Request,
           NEW w \in Purpose, NEW n \in 0..MaxProbe,
           NEW s \in {"health", "next"}, Repick(r, w, n, s)
    PROVE  HandlerInv'
<1>. USE DispatchAssumption, PickType
     DEF HandlerInv, Typed, HandlerTypeOK, S!TypeOK, Searching, Step, Purpose,
         Repick, Pick, Goto, Untouched
<1>1. HandlerTypeOK'
  <2>1. step' \in [Request -> Step]
    OBVIOUS
  <2>2. why' \in [Request -> Purpose] /\ probes' \in [Request -> 0 .. MaxProbe]
    OBVIOUS
  <2>3. cand' \in [Request -> Account \cup {None}] /\ cursor' \in 1 .. Len(Order)
    OBVIOUS
  <2>. QED
    BY <2>1, <2>2, <2>3
<1>2. Candidates'
  BY DEF Candidates
<1>3. SecondSearch'
  BY DEF SecondSearch
<1>4. NoHoldAndWait'
  BY DEF NoHoldAndWait
<1>5. FailoverElsewhere'
  BY DEF FailoverElsewhere, SecondSearch
<1>. QED
  BY <1>1, <1>2, <1>3, <1>4, <1>5

\* accountPool.Available keeps the handler's invariant.
LEMMA CheckHealthStep ==
    ASSUME Typed, HandlerInv, NEW r \in Request, CheckHealth(r)
    PROVE  HandlerInv'
<1>0. /\ step[r] \in Searching /\ why[r] \in Purpose
      /\ outcome[r] \in Answer \cup {None} /\ probes[r] \in 0..MaxProbe
      /\ outcome = [outcome EXCEPT ![r] = outcome[r]]
  BY DEF CheckHealth, Typed, HandlerTypeOK, Searching
<1>1. CASE Usable(cand[r])
  <2>1. Advance(r, "slot", why[r])
    BY <1>0, <1>1 DEF CheckHealth, Advance, Keep, Goto, Untouched,
                      slotVars, pickVars
  <2>. QED
    BY <1>1, <2>1, <1>0, AdvanceStep DEF Searching, Purpose
<1>2. CASE ~Usable(cand[r]) /\ why[r] # "final"
  <2>1. Advance(r, "next", why[r])
    BY <1>0, <1>2 DEF CheckHealth, Advance, Keep, Goto, Untouched,
                      slotVars, pickVars
  <2>. QED
    BY <1>2, <2>1, <1>0, AdvanceStep DEF Searching, Purpose
<1>3. CASE ~Usable(cand[r]) /\ why[r] = "final"
  <2>1. Finish(r, "COOLING")
    BY <1>0, <1>3 DEF CheckHealth, Finish, SearchOver, Reply, Goto, Untouched,
                      slotVars, pickVars
  <2>. QED
    BY <1>3, <2>1, <1>0, FinishStep DEF Answer
<1>. QED
  BY <1>1, <1>2, <1>3 DEF CheckHealth

\* accountConcurrency.Available keeps the handler's invariant.
LEMMA CheckSlotStep ==
    ASSUME Typed, HandlerInv, NEW r \in Request, CheckSlot(r)
    PROVE  HandlerInv'
<1>0. /\ step[r] \in Searching /\ why[r] \in Purpose
      /\ outcome[r] \in Answer \cup {None} /\ probes[r] \in 0..MaxProbe
      /\ outcome = [outcome EXCEPT ![r] = outcome[r]]
  BY DEF CheckSlot, Typed, HandlerTypeOK, Searching
<1>1. CASE HasSlot(cand[r]) /\ why[r] # "probe"
  <2>1. Advance(r, "token", why[r])
    BY <1>0, <1>1 DEF CheckSlot, Advance, Keep, Goto, Untouched,
                      slotVars, pickVars
  <2>. QED
    BY <1>1, <2>1, <1>0, AdvanceStep DEF Searching, Purpose
<1>2. CASE HasSlot(cand[r]) /\ why[r] = "probe"
  <2>1. Advance(r, "health", "final")
    BY <1>0, <1>2 DEF CheckSlot, Advance, Keep, Goto, Untouched,
                      slotVars, pickVars
  <2>. QED
    BY <1>2, <2>1, <1>0, AdvanceStep DEF Searching, Purpose
<1>3. CASE ~HasSlot(cand[r]) /\ why[r] # "final"
  <2>1. Advance(r, "next", why[r])
    BY <1>0, <1>3 DEF CheckSlot, Advance, Keep, Goto, Untouched,
                      slotVars, pickVars
  <2>. QED
    BY <1>3, <2>1, <1>0, AdvanceStep DEF Searching, Purpose
<1>4. CASE ~HasSlot(cand[r]) /\ why[r] = "final"
  <2>1. Finish(r, "FULL")
    BY <1>0, <1>4 DEF CheckSlot, Finish, SearchOver, Reply, Goto, Untouched,
                      slotVars, pickVars
  <2>. QED
    BY <1>4, <2>1, <1>0, FinishStep DEF Answer
<1>. QED
  BY <1>1, <1>2, <1>3, <1>4 DEF CheckSlot

\* A rejected candidate keeps the handler's invariant.
LEMMA PassOverStep ==
    ASSUME Typed, HandlerInv, NEW r \in Request, PassOver(r)
    PROVE  HandlerInv'
<1>0. /\ step[r] \in Searching /\ why[r] \in Purpose
      /\ outcome[r] \in Answer \cup {None} /\ probes[r] \in 0..MaxProbe
      /\ outcome = [outcome EXCEPT ![r] = outcome[r]]
  BY DEF PassOver, Typed, HandlerTypeOK, Searching
<1>1. CASE why[r] = "preferred"
  <2>1. Repick(r, "probe", 0, "health")
    BY <1>0, <1>1 DEF PassOver, Repick, PickSecond, Avoided, Untouched, slotVars
  <2>. QED
    BY <1>1, <2>1, <1>0, DispatchAssumption, RepickStep DEF Purpose
<1>2. CASE why[r] = "probe" /\ probes[r] < MaxProbe
  <2>1. Repick(r, "probe", probes[r] + 1, "health")
    BY <1>0, <1>2 DEF PassOver, Repick, PickSecond, Avoided, Untouched, slotVars
  <2>. QED
    BY <1>2, <2>1, <1>0, DispatchAssumption, RepickStep DEF Purpose
<1>3. CASE why[r] = "probe" /\ probes[r] = MaxProbe
  <2>1. Advance(r, "health", "final")
    BY <1>0, <1>3 DEF PassOver, Advance, Keep, Goto, Untouched,
                      slotVars, pickVars
  <2>. QED
    BY <1>3, <2>1, <1>0, AdvanceStep DEF Searching, Purpose
<1>4. CASE why[r] = "failover" /\ probes[r] < MaxProbe
  <2>1. Repick(r, "failover", probes[r] + 1,
               IF Avoided(first[r]) THEN "next" ELSE "health")
    BY <1>0, <1>4 DEF PassOver, Repick, PickSecond, Avoided, Untouched, slotVars
  <2>. QED
    BY <1>4, <2>1, <1>0, DispatchAssumption, RepickStep DEF Purpose
<1>5. CASE why[r] = "failover" /\ probes[r] = MaxProbe
  <2>1. Finish(r, outcome[r])
    BY <1>0, <1>5 DEF PassOver, Finish, SearchOver, Reply, Goto, Untouched,
                      slotVars, pickVars
  <2>. QED
    BY <1>5, <2>1, <1>0, FinishStep DEF Answer
<1>. QED
  BY <1>1, <1>2, <1>3, <1>4, <1>5 DEF PassOver

\* A token that cannot be had keeps the handler's invariant.
LEMMA TokenInvalidStep ==
    ASSUME Typed, HandlerInv, NEW r \in Request, TokenInvalid(r)
    PROVE  HandlerInv'
<1>0. /\ step[r] \in Searching /\ why[r] \in Purpose
      /\ outcome[r] \in Answer \cup {None} /\ probes[r] \in 0..MaxProbe
      /\ outcome = [outcome EXCEPT ![r] = outcome[r]]
  BY DEF TokenInvalid, Typed, HandlerTypeOK, Searching
<1>1. CASE why[r] = "preferred"
  <2>1. Advance(r, "next", why[r])
    BY <1>0, <1>1 DEF TokenInvalid, Advance, Keep, Goto, Untouched,
                      slotVars, pickVars
  <2>. QED
    BY <1>1, <2>1, <1>0, AdvanceStep DEF Searching, Purpose
<1>2. CASE why[r] = "failover"
  <2>1. Finish(r, outcome[r])
    BY <1>0, <1>2 DEF TokenInvalid, Finish, SearchOver, Reply, Goto, Untouched,
                      slotVars, pickVars
  <2>. QED
    BY <1>2, <2>1, <1>0, FinishStep DEF Answer
<1>3. CASE why[r] \in {"final", "explicit"}
  <2>1. Finish(r, "REFUSED")
    BY <1>0, <1>3 DEF TokenInvalid, Finish, SearchOver, Reply, Goto, Untouched,
                      slotVars, pickVars
  <2>. QED
    BY <1>3, <2>1, <1>0, FinishStep DEF Answer
<1>. QED
  BY <1>1, <1>2, <1>3 DEF TokenInvalid

\* What the steps around a call do: they move on, set the outcome, and change
\* the request's own place in the limiter.
Calling == {"call", "chat", "leave"}

CallMove(r, s, o, p) ==
    /\ step[r] \in Calling \cup {"judge", "blame"}
    /\ s \in Calling => step[r] \in Calling
    /\ s \in {"chat", "leave"} => p = "calling"
    /\ s \notin Calling => p = "idle"
    /\ Goto(r, s)
    /\ outcome' = [outcome EXCEPT ![r] = o]
    /\ phase' = [phase EXCEPT ![r] = p]
    /\ UNCHANGED <<kind, why, cand, probes, first, acct, cursor, lastHealthy>>

\* A step around a call keeps the handler's invariant.
LEMMA CallMoveStep ==
    ASSUME Typed, HandlerInv, NEW r \in Request,
           NEW s \in Calling \cup {"judge", "blame", "done"},
           NEW o \in Answer \cup {None}, NEW p \in S!Phase, CallMove(r, s, o, p)
    PROVE  HandlerInv'
<1>. USE DEF HandlerInv, Typed, HandlerTypeOK, S!TypeOK, Searching, Step, Calling,
             CallMove, Goto
<1>1. HandlerTypeOK'
  <2>1. step' \in [Request -> Step]
    OBVIOUS
  <2>2. why' \in [Request -> Purpose] /\ probes' \in [Request -> 0 .. MaxProbe]
    OBVIOUS
  <2>3. cand' \in [Request -> Account \cup {None}] /\ cursor' \in 1 .. Len(Order)
    OBVIOUS
  <2>. QED
    BY <2>1, <2>2, <2>3
<1>2. Candidates'
  BY DEF Candidates
<1>3. SecondSearch'
  BY DEF SecondSearch
<1>4. NoHoldAndWait'
  BY DEF NoHoldAndWait
<1>5. FailoverElsewhere'
  BY DEF FailoverElsewhere, SecondSearch
<1>. QED
  BY <1>1, <1>2, <1>3, <1>4, <1>5

\* The steps of chatWithAccount and of the error handling after it.
LEMMA CallStep ==
    ASSUME Typed, HandlerInv, NEW r \in Request,
           \/ Acquire(r) \/ AcquireFails(r) \/ ContextEnds(r) \/ CallStarts(r)
           \/ CallEnds(r) \/ Leave(r) \/ Conclude(r) \/ BlameSecond(r) \/ BlameAcc(r)
    PROVE  HandlerInv'
<1>0. /\ outcome[r] \in Answer \cup {None} /\ phase[r] \in S!Phase
      /\ outcome = [outcome EXCEPT ![r] = outcome[r]]
      /\ phase = [phase EXCEPT ![r] = phase[r]]
      /\ step[r] = "call" => step = [step EXCEPT ![r] = "call"]
      /\ step[r] \in {"chat", "leave"} => phase[r] = "calling"
      /\ step[r] \notin Calling => phase[r] = "idle"
  BY DEF Typed, HandlerTypeOK, S!TypeOK, HandlerInv, NoHoldAndWait, Calling
<1>. USE DEF CallMove, Calling, Goto, slotVars, pickVars, handlerVars
<1>1. CASE Acquire(r) /\ S!Take(r)
  <2>1. CallMove(r, "call", outcome[r], "calling")
    BY <1>0, <1>1 DEF Acquire, S!Take
  <2>. QED
    BY <1>0, <1>1, <2>1, CallMoveStep DEF S!Phase, Answer
<1>2. CASE Acquire(r) /\ S!Enqueue(r)
  <2>1. CallMove(r, "call", outcome[r], "waiting")
    BY <1>0, <1>2 DEF Acquire, S!Enqueue
  <2>. QED
    BY <1>0, <1>2, <2>1, CallMoveStep DEF S!Phase, Answer
<1>3. CASE Acquire(r) /\ S!Wake(r)
  <2>1. CallMove(r, "call", outcome[r], "acquiring")
    BY <1>0, <1>3 DEF Acquire, S!Wake
  <2>. QED
    BY <1>0, <1>3, <2>1, CallMoveStep DEF S!Phase, Answer
<1>4. CASE AcquireFails(r)
  <2>1. CallMove(r, "judge", "ENDED", "idle")
    BY <1>0, <1>4 DEF AcquireFails, S!GiveUp
  <2>. QED
    BY <1>0, <1>4, <2>1, CallMoveStep DEF S!Phase, Answer
<1>5. CASE ContextEnds(r)
  BY <1>5 DEF ContextEnds, S!End, HandlerInv, HandlerTypeOK, Candidates, SecondSearch,
              NoHoldAndWait, FailoverElsewhere
<1>6. CASE CallStarts(r)
  <2>1. CallMove(r, "chat", outcome[r], "calling")
    BY <1>0, <1>6 DEF CallStarts
  <2>. QED
    BY <1>0, <1>6, <2>1, CallMoveStep DEF S!Phase, Answer
<1>7. CASE Leave(r)
  <2>1. CallMove(r, "judge", outcome[r], "idle")
    BY <1>0, <1>7 DEF Leave, S!Release
  <2>. QED
    BY <1>0, <1>7, <2>1, CallMoveStep DEF S!Phase, Answer
<1>8. CASE Conclude(r)
  <2>1. CallMove(r, "done", outcome[r], "idle")
    BY <1>0, <1>8 DEF Conclude
  <2>. QED
    BY <1>0, <1>8, <2>1, CallMoveStep DEF S!Phase, Answer
<1>9. CASE BlameSecond(r)
  <2>1. CallMove(r, "blame", outcome[r], "idle")
    BY <1>0, <1>9 DEF BlameSecond
  <2>. QED
    BY <1>0, <1>9, <2>1, CallMoveStep DEF S!Phase, Answer
<1>10. CASE BlameAcc(r)
  <2>1. CallMove(r, "done", outcome[r], "idle")
    BY <1>0, <1>10 DEF BlameAcc
  <2>. QED
    BY <1>0, <1>10, <2>1, CallMoveStep DEF S!Phase, Answer
<1>11. CASE CallEnds(r)
  <2>1. PICK o \in Outcome : outcome' = [outcome EXCEPT ![r] = o]
    BY <1>11 DEF CallEnds
  <2>2. CallMove(r, "leave", o, "calling")
    BY <1>0, <1>11, <2>1 DEF CallEnds
  <2>. QED
    BY <2>1, <2>2, CallMoveStep DEF S!Phase, Answer
<1>. QED
  BY <1>1, <1>2, <1>3, <1>4, <1>5, <1>6, <1>7, <1>8, <1>9, <1>10, <1>11 DEF Acquire

\* A request that names its account keeps the handler's invariant.
LEMMA StartExplicitStep ==
    ASSUME Typed, HandlerInv, NEW r \in Request, StartExplicit(r)
    PROVE  HandlerInv'
<1>. USE DispatchAssumption, PickType
     DEF HandlerInv, Typed, HandlerTypeOK, S!TypeOK, Searching, Step, Purpose,
         Goto, slotVars, pickVars, StartExplicit
<1>1. HandlerTypeOK'
  <2>1. step' \in [Request -> Step]
    OBVIOUS
  <2>2. why' \in [Request -> Purpose] /\ probes' \in [Request -> 0 .. MaxProbe]
    OBVIOUS
  <2>3. cand' \in [Request -> Account \cup {None}] /\ cursor' \in 1 .. Len(Order)
    OBVIOUS
  <2>. QED
    BY <2>1, <2>2, <2>3
<1>2. Candidates'
  BY DEF Candidates
<1>3. SecondSearch'
  BY DEF SecondSearch
<1>4. NoHoldAndWait'
  BY DEF NoHoldAndWait
<1>5. FailoverElsewhere'
  BY DEF FailoverElsewhere, SecondSearch
<1>. QED
  BY <1>1, <1>2, <1>3, <1>4, <1>5

\* The sticky account keeps the handler's invariant.
LEMMA StartPreferredStep ==
    ASSUME Typed, HandlerInv, NEW r \in Request, StartPreferred(r)
    PROVE  HandlerInv'
<1>. USE DispatchAssumption, PickType
     DEF HandlerInv, Typed, HandlerTypeOK, S!TypeOK, Searching, Step, Purpose,
         Goto, slotVars, pickVars, StartPreferred
<1>1. HandlerTypeOK'
  <2>1. step' \in [Request -> Step]
    OBVIOUS
  <2>2. why' \in [Request -> Purpose] /\ probes' \in [Request -> 0 .. MaxProbe]
    OBVIOUS
  <2>3. cand' \in [Request -> Account \cup {None}] /\ cursor' \in 1 .. Len(Order)
    OBVIOUS
  <2>. QED
    BY <2>1, <2>2, <2>3
<1>2. Candidates'
  BY DEF Candidates
<1>3. SecondSearch'
  BY DEF SecondSearch
<1>4. NoHoldAndWait'
  BY DEF NoHoldAndWait
<1>5. FailoverElsewhere'
  BY DEF FailoverElsewhere, SecondSearch
<1>. QED
  BY <1>1, <1>2, <1>3, <1>4, <1>5

\* The first pick keeps the handler's invariant.
LEMMA StartProbeStep ==
    ASSUME Typed, HandlerInv, NEW r \in Request, StartProbe(r)
    PROVE  HandlerInv'
<1>. USE DispatchAssumption, PickType
     DEF HandlerInv, Typed, HandlerTypeOK, S!TypeOK, Searching, Step, Purpose,
         Goto, slotVars, pickVars, StartProbe, Pick
<1>1. HandlerTypeOK'
  <2>1. step' \in [Request -> Step]
    OBVIOUS
  <2>2. why' \in [Request -> Purpose] /\ probes' \in [Request -> 0 .. MaxProbe]
    OBVIOUS
  <2>3. cand' \in [Request -> Account \cup {None}] /\ cursor' \in 1 .. Len(Order)
    OBVIOUS
  <2>. QED
    BY <2>1, <2>2, <2>3
<1>2. Candidates'
  BY DEF Candidates
<1>3. SecondSearch'
  BY DEF SecondSearch
<1>4. NoHoldAndWait'
  BY DEF NoHoldAndWait
<1>5. FailoverElsewhere'
  BY DEF FailoverElsewhere, SecondSearch
<1>. QED
  BY <1>1, <1>2, <1>3, <1>4, <1>5

\* The failover starts a second search that avoids the account that failed.
LEMMA FailOverStep ==
    ASSUME Typed, HandlerInv, NEW r \in Request, FailOver(r)
    PROVE  HandlerInv'
<1>. USE DispatchAssumption, PickType
     DEF HandlerInv, Typed, HandlerTypeOK, S!TypeOK, Searching, Step, Purpose,
         Goto, slotVars, pickVars, FailOver, Pick,
         PickSecond, Avoided
<1>1. HandlerTypeOK'
  <2>1. cand' \in [Request -> Account \cup {None}]
    OBVIOUS
  <2>2. why' \in [Request -> Purpose] /\ probes' \in [Request -> 0..MaxProbe]
    OBVIOUS
  <2>3. step' \in [Request -> Step] /\ first' \in [Request -> Account \cup {None}]
    OBVIOUS
  <2>4. cursor' \in 1..Len(Order) /\ lastHealthy' \in Account \cup {None}
    OBVIOUS
  <2>. QED
    BY <2>1, <2>2, <2>3, <2>4
<1>2. Candidates'
  BY DEF Candidates
<1>3. SecondSearch'
  BY DEF SecondSearch
<1>4. NoHoldAndWait'
  BY DEF NoHoldAndWait
<1>5. FailoverElsewhere'
  BY DEF FailoverElsewhere, SecondSearch
<1>. QED
  BY <1>1, <1>2, <1>3, <1>4, <1>5

\* A candidate that avoids the first account is called.
LEMMA TokenValidStep ==
    ASSUME Typed, HandlerInv, NEW r \in Request, TokenValid(r)
    PROVE  HandlerInv'
<1>. USE DispatchAssumption, PickType
     DEF HandlerInv, Typed, HandlerTypeOK, S!TypeOK, Searching, Step, Purpose,
         Goto, slotVars, pickVars, TokenValid, S!Begin,
         SearchOver
<1>1. HandlerTypeOK'
  <2>1. cand' \in [Request -> Account \cup {None}]
    OBVIOUS
  <2>2. why' \in [Request -> Purpose] /\ probes' \in [Request -> 0..MaxProbe]
    OBVIOUS
  <2>3. step' \in [Request -> Step] /\ first' \in [Request -> Account \cup {None}]
    OBVIOUS
  <2>4. cursor' \in 1..Len(Order) /\ lastHealthy' \in Account \cup {None}
    OBVIOUS
  <2>. QED
    BY <2>1, <2>2, <2>3, <2>4
<1>2. Candidates'
  BY DEF Candidates
<1>3. SecondSearch'
  BY DEF SecondSearch
<1>4. NoHoldAndWait'
  BY DEF NoHoldAndWait
<1>5. FailoverElsewhere'
  BY DEF FailoverElsewhere, SecondSearch
<1>. QED
  BY <1>1, <1>2, <1>3, <1>4, <1>5

\* Every step of the gateway keeps the handler's invariant.
LEMMA HandlerStep ==
    ASSUME Typed, HandlerInv, [DispatchNext]_dispatchVars
    PROVE  HandlerInv'
<1>1. CASE UNCHANGED dispatchVars \/ Others
  BY <1>1 DEF dispatchVars, Others, slotVars, handlerVars, pickVars, HandlerInv,
              HandlerTypeOK, Candidates, SecondSearch, NoHoldAndWait, FailoverElsewhere
<1>2. ASSUME NEW r \in Request, Handle(r) \/ AcquireFails(r) \/ ContextEnds(r)
      PROVE  HandlerInv'
  BY <1>2, StartExplicitStep, StartPreferredStep, StartProbeStep, CheckHealthStep,
     CheckSlotStep, PassOverStep, TokenValidStep, TokenInvalidStep, CallStep,
     FailOverStep DEF Handle
<1>. QED
  BY <1>1, <1>2 DEF DispatchNext
-----------------------------------------------------------------------------
(* The invariant.                                                          *)

\* The invariant holds initially.
LEMMA DispatchInitInv == DispatchInit => DispatchInv
<1>. SUFFICES ASSUME DispatchInit PROVE DispatchInv
  OBVIOUS
<1>1. HealthInv
  BY HealthInitInv DEF DispatchInit
<1>2. S!TypeOK
  BY DEF DispatchInit, S!Init, S!TypeOK, S!Phase
<1>3. HandlerTypeOK
  <2>1. 1 \in 1..Len(Order)
    BY DispatchAssumption
  <2>2. 0 \in 0..MaxProbe
    BY DispatchAssumption
  <2>. QED
    BY <2>1, <2>2 DEF DispatchInit, HandlerTypeOK, Step, Purpose
<1>4. Candidates /\ SecondSearch /\ NoHoldAndWait /\ FailoverElsewhere
  BY DEF DispatchInit, S!Init, Candidates, SecondSearch, NoHoldAndWait,
         FailoverElsewhere, Searching
<1>. QED
  BY <1>1, <1>2, <1>3, <1>4 DEF DispatchInv, HandlerInv

\* Every step keeps the invariant.
LEMMA DispatchStep == DispatchInv /\ [DispatchNext]_dispatchVars => DispatchInv'
<1>. SUFFICES ASSUME DispatchInv, [DispatchNext]_dispatchVars PROVE DispatchInv'
  OBVIOUS
<1>1. Typed /\ Candidates
  BY DEF DispatchInv, HandlerInv, Typed
<1>2. HealthInv'
  BY <1>1, StepOfHealth, HealthStep DEF DispatchInv
<1>3. S!TypeOK'
  BY <1>1, StepOfSlots, SlotsConstants, P!TypeStep
     DEF Typed, S!TypeOK, P!TypeOK, S!Phase, P!Phase
<1>4. HandlerInv'
  BY <1>1, HandlerStep DEF DispatchInv
<1>. QED
  BY <1>2, <1>3, <1>4 DEF DispatchInv

\* The inductive invariant holds in every reachable state.
THEOREM DispatchInvariant == DispatchSpec => []DispatchInv
  BY DispatchInitInv, DispatchStep, PTL DEF DispatchSpec

\* Type correctness of the whole gateway.
THEOREM DispatchTypeCorrect == DispatchSpec => []DispatchTypeOK
<1>1. DispatchInv => DispatchTypeOK
  BY DEF DispatchInv, HandlerInv, HealthInv, HandlerTypeOK, DispatchTypeOK
<1>. QED
  BY <1>1, DispatchInvariant, PTL

\* No request holds a slot while it looks for another one, or after its
\* answer: requests that fail over towards each other's accounts cannot
\* deadlock (account_concurrency.go:114).
THEOREM NoHoldAndWaitCorrect == DispatchSpec => []NoHoldAndWait
<1>1. DispatchInv => NoHoldAndWait
  BY DEF DispatchInv, HandlerInv
<1>. QED
  BY <1>1, DispatchInvariant, PTL

\* However the shared cursor is moved by others, a failover never returns to
\* the account that failed (server.go:1693).
THEOREM FailoverElsewhereCorrect == DispatchSpec => []FailoverElsewhere
<1>1. DispatchInv => FailoverElsewhere
  BY DEF DispatchInv, HandlerInv
<1>. QED
  BY <1>1, DispatchInvariant, PTL
-----------------------------------------------------------------------------
(* What holds of a component alone holds of it inside the gateway.         *)

\* The handlers use the limiter as AccountSlots says it is used.
THEOREM SlotsInDispatch == DispatchSpec => P!Spec
<1>1. DispatchInit => P!Init
  BY DEF DispatchInit, S!Init, P!Init
<1>2. DispatchInv /\ [DispatchNext]_dispatchVars => [P!Next]_P!vars
  BY StepOfSlots DEF DispatchInv, HandlerInv
<1>. QED
  BY <1>1, <1>2, DispatchInvariant, PTL DEF DispatchSpec, P!Spec

\* An account's counter is the number of chatOnce calls running on it, no
\* account runs more than Limit of them, and no request sleeps beside a free
\* slot (account_concurrency.go:38-61).
THEOREM LimiterInDispatch ==
    DispatchSpec => [](P!SlotAccounting /\ P!WithinLimit /\ P!NoLostWakeup)
<1>1. P!Spec => [](P!SlotAccounting /\ P!WithinLimit)
  BY SlotsConstants, P!AccountingCorrect
<1>2. P!Spec => []P!NoLostWakeup
  BY SlotsConstants, P!WakeupCorrect
<1>. QED
  BY <1>1, <1>2, SlotsInDispatch, PTL

\* Seen from outside, the gateway's calls are grants and returns of a bounded
\* pool of slots per account (SlotPool).
THEOREM PoolInDispatch == DispatchSpec => P!PoolSpec
<1>1. P!Spec => P!PoolSpec
  BY SlotsConstants, P!ImplementsPool
<1>. QED
  BY <1>1, SlotsInDispatch, PTL

\* The handlers use the health book as AccountHealth says it is used.
THEOREM HealthInDispatch == DispatchSpec => HealthSpec
<1>1. DispatchInit => HealthInit
  BY DEF DispatchInit
<1>2. DispatchInv /\ [DispatchNext]_dispatchVars => [HealthNext]_healthVars
  BY StepOfHealth DEF DispatchInv, HandlerInv, Typed
<1>. QED
  BY <1>1, <1>2, DispatchInvariant, PTL DEF DispatchSpec, HealthSpec

\* In the running gateway too, whatever is held against an account has a
\* cooldown entry that will clear it, and the circuit's window is sane.
THEOREM MarksExpireInDispatch == DispatchSpec => [](MarksExpire /\ WindowSane)
  BY HealthInDispatch, MarksExpireCorrect, WindowCorrect, PTL
-----------------------------------------------------------------------------
(* Who is held responsible for a failure.                                  *)

\* A step holds something against account a, image marks excepted.
Blamed(a) ==
    \/ a \in (authFail' \ authFail) \cup (limited' \ limited)
    \/ attempts'[a] > attempts[a]
    \/ cooldown'[a] > cooldown[a] /\ cooldown'[a] # imageUntil'[a]

\* Looking only forgets.
LEMMA LookBlamesNobody ==
    ASSUME HealthTypeOK, NEW T \in SUBSET Account, Look(T)
    PROVE  \A a \in Account : ~Blamed(a)
<1>. USE DEF Look, Lapse, Gone, Expired, Absent, HealthTypeOK
<1>1. authFail' \subseteq authFail /\ limited' \subseteq limited
  OBVIOUS
<1>2. \A a \in Account : ~(attempts'[a] > attempts[a])
  BY HealthAssumption
<1>3. \A a \in Account : ~(cooldown'[a] > cooldown[a])
  OBVIOUS
<1>. QED
  BY <1>1, <1>2, <1>3 DEF Blamed

\* Neither does the clock, nor the admin page, hold anything against anybody.
LEMMA OthersBlameNobody ==
    ASSUME HealthTypeOK, Others
    PROVE  \A a \in Account : ~Blamed(a)
<1>. USE HealthAssumption DEF HealthTypeOK, Absent
<1>1. CASE Look(Account)
  BY <1>1, LookBlamesNobody
<1>2. CASE Tick
  <2>1. \A a \in Account : ~(cooldown'[a] > cooldown[a])
    BY <1>2 DEF Tick, Down
  <2>. QED
    BY <1>2, <2>1 DEF Tick, Blamed
<1>3. CASE ClearAllCooldowns
  <2>1. \A a \in Account : cooldown'[a] = Absent /\ attempts'[a] = 0
    BY <1>3 DEF ClearAllCooldowns
  <2>2. \A a \in Account : cooldown[a] \in Nat \cup {Absent} /\ attempts[a] \in Nat
    OBVIOUS
  <2>3. \A a \in Account : /\ ~(cooldown'[a] > cooldown[a])
                            /\ ~(attempts'[a] > attempts[a])
    <3>. TAKE a \in Account
    <3>1. ~(cooldown'[a] > cooldown[a])
      BY <2>1, <2>2
    <3>2. ~(attempts'[a] > attempts[a])
      <4>1. attempts'[a] = 0 /\ attempts[a] \in Nat
        BY <2>1, <2>2
      <4>. QED
        BY <4>1
    <3>. QED
      BY <3>1, <3>2
  <2>. QED
    BY <1>3, <2>3 DEF ClearAllCooldowns, Blamed
<1>. QED
  BY <1>1, <1>2, <1>3 DEF Others

\* An image mark moves no more than the cooldown, to the end of the mark.
LEMMA ImageMarkBlamesNobody ==
    ASSUME HealthTypeOK, NEW b \in Account, MarkImageLimited(b)
    PROVE  \A a \in Account : ~Blamed(a)
<1>1. \A a \in Account : attempts'[a] = attempts[a]
  BY DEF MarkImageLimited
<1>2. \A a \in Account : cooldown'[a] = cooldown[a] \/ cooldown'[a] = imageUntil'[a]
  BY DEF MarkImageLimited, HealthTypeOK
<1>3. \A a \in Account : cooldown[a] \in Int /\ attempts[a] \in Int
  BY HealthAssumption DEF HealthTypeOK, Absent
<1>. QED
  BY <1>1, <1>2, <1>3 DEF MarkImageLimited, Blamed

\* A recorded result concerns one account.
LEMMA ResultBlamesOne ==
    ASSUME HealthTypeOK, NEW b \in Account,
           MarkSuccess(b) \/ \E e \in Error : MarkFailure(b, e)
    PROVE  \A a \in Account : a # b => ~Blamed(a)
<1>0. \A a \in Account : cooldown[a] \in Int /\ attempts[a] \in Int
  BY HealthAssumption DEF HealthTypeOK, Absent
<1>. SUFFICES ASSUME NEW a \in Account, a # b PROVE ~Blamed(a)
  OBVIOUS
<1>1. /\ a \in authFail' => a \in authFail
      /\ a \in limited' => a \in limited
      /\ attempts'[a] = attempts[a] /\ cooldown'[a] = cooldown[a]
  <2>1. CASE MarkSuccess(b)
    BY <2>1 DEF MarkSuccess, HealthTypeOK
  <2>2. ASSUME NEW e \in Error, MarkFailure(b, e)
        PROVE  /\ a \in authFail' => a \in authFail
               /\ a \in limited' => a \in limited
               /\ attempts'[a] = attempts[a] /\ cooldown'[a] = cooldown[a]
    BY <2>2 DEF MarkFailure, MarkFailureAs, HealthTypeOK, mapVars
  <2>. QED
    BY <2>1, <2>2
<1>. QED
  BY <1>0, <1>1 DEF Blamed

\* Only the end of a call on account a holds something against a.
LEMMA BlameStep ==
    ASSUME DispatchInv, [DispatchNext]_dispatchVars, NEW a \in Account, Blamed(a)
    PROVE  \E r \in Request :
              /\ step[r] = "chat" /\ step'[r] = "leave"
              /\ phase[r] = "calling" /\ acct[r] = a
<1>0. /\ HealthTypeOK /\ step \in [Request -> Step]
      /\ \A r \in Request : acct[r] \in Account
      /\ \A r \in Request : first[r] \in Account \cup {None}
      /\ \A r \in Request : step[r] = "chat" => phase[r] = "calling"
      /\ \A r \in Request : step[r] = "health" => cand[r] \in Account
  BY DEF DispatchInv, HealthInv, HandlerInv, HandlerTypeOK, S!TypeOK, NoHoldAndWait,
         Candidates, Searching
<1>1. ~UNCHANGED healthVars
  <2>1. cooldown[a] \in Int /\ attempts[a] \in Int
    BY <1>0, HealthAssumption DEF HealthTypeOK, Absent
  <2>. QED
    BY <2>1 DEF healthVars, mapVars, Blamed
<1>2. ~Others
  BY <1>0, OthersBlameNobody
<1>3. PICK r \in Request :
         \/ CheckHealth(r) \/ CallStarts(r) \/ CallEnds(r)
         \/ BlameSecond(r) \/ BlameAcc(r)
  BY <1>1, <1>2
     DEF DispatchNext, dispatchVars, Handle, StartExplicit, StartPreferred, StartProbe,
         CheckSlot, PassOver, TokenValid, TokenInvalid, Acquire, AcquireFails, ContextEnds, Leave,
         FailOver, Conclude
<1>4. ~CheckHealth(r)
  BY <1>0, LookBlamesNobody DEF CheckHealth
<1>5. ~CallStarts(r)
  BY <1>0, LookBlamesNobody DEF CallStarts
<1>6. ~BlameSecond(r) /\ ~BlameAcc(r)
  <2>1. BlameSecond(r) \/ BlameAcc(r) => \E b \in Account : MarkImageLimited(b)
    BY <1>0 DEF BlameSecond, BlameAcc
  <2>. QED
    BY <1>0, <2>1, ImageMarkBlamesNobody
<1>7. CallEnds(r)
  BY <1>3, <1>4, <1>5, <1>6
<1>8. acct[r] = a
  <2>1. MarkSuccess(acct[r]) \/ \E e \in Error : MarkFailure(acct[r], e)
    BY <1>7, DispatchAssumption DEF CallEnds, Called
  <2>. QED
    BY <1>0, <2>1, ResultBlamesOne
<1>. QED
  BY <1>0, <1>7, <1>8 DEF CallEnds, Goto

\* An account is only locked out, marked limited or cooled down by a call that
\* ran on it, whichever requests share it (account_concurrency.go:119).
THEOREM BlamesTheCalledCorrect == DispatchSpec => BlamesTheCalled
<1>1. DispatchInv /\ [DispatchNext]_dispatchVars
          => [\A a \in Account :
                 \/ a \in (authFail' \ authFail) \cup (limited' \ limited)
                 \/ attempts'[a] > attempts[a]
                 \/ cooldown'[a] > cooldown[a] /\ cooldown'[a] # imageUntil'[a]
                 => \E r \in Request :
                       /\ step[r] = "chat" /\ step'[r] = "leave"
                       /\ phase[r] = "calling" /\ acct[r] = a]_dispatchVars
  BY BlameStep DEF Blamed
<1>. QED
  BY <1>1, DispatchInvariant, PTL DEF DispatchSpec, BlamesTheCalled
=============================================================================
