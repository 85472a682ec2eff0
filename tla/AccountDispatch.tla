-------------------------- MODULE AccountDispatch ---------------------------
(***************************************************************************)
(* src/internal/web/server.go, chatOnce: how one chat request finds an     *)
(* account, calls it through the limiter, and fails over once.  Every      *)
(* request runs in its own goroutine; they share the limiter (AccountSlots)*)
(* the health book (AccountHealth), the round-robin cursor of the token    *)
(* store and the sticky account.  Each of these has its own lock, so a     *)
(* request decides on what it saw several steps ago.                       *)
(*                                                                         *)
(* A burst of requests is modelled: each one runs once.  Every account is  *)
(* enabled for scheduling and carries an oid and a tid.  The repetition of *)
(* the two checks for the preferred account (server.go:1641 tests          *)
(* accountAvailable and then its two parts again) is one check.            *)
(***************************************************************************)
EXTENDS AccountHealth, Sequences, FiniteSets

CONSTANTS
    Request, Limit,  \* of AccountSlots
    Order,           \* the accounts as the token store lists them
    MaxProbe,        \* maxAccountProbe (16)
    Body,            \* what the bodies of the burst name: an account (explicit), only
                     \* a conversation (bound), or neither (auto)
    None

\* An image limit is filed as UPSTREAM_STRUCTURED.
ASSUME DispatchAssumption ==
    /\ "UPSTREAM_STRUCTURED" \in Error
    /\ IsFiniteSet(Request)
    /\ Limit \in Nat \ {0}
    /\ Order \in Seq(Account) /\ Order # <<>>
    /\ MaxProbe \in Nat \ {0}
    /\ None \notin Account
    /\ Body \subseteq {"auto", "bound", "explicit"}

VARIABLES
    inflight, phase, acct, heard, ended,  \* of AccountSlots
    step,         \* where the handler is
    kind,         \* what its body names
    why,          \* what the candidate is being checked for
    cand,         \* the candidate account
    probes,       \* round-robin picks made in the running search
    first,        \* the account of the first call, once it failed over
    outcome,      \* how its last call ended
    cursor,       \* nextIdx of the token store, counted from 1
    lastHealthy   \* lastHealthyAccount, guarded by s.mu

slotVars == <<inflight, phase, acct, heard, ended>>
handlerVars == <<step, kind, why, cand, probes, first, outcome>>
pickVars == <<cursor, lastHealthy>>
dispatchVars == <<healthVars, slotVars, handlerVars, pickVars>>

S == INSTANCE AccountSlots WITH AccountId <- Account

Step == {"start", "health", "slot", "next", "token", "call", "chat", "leave",
         "judge", "blame", "done"}

Purpose == {"preferred", "probe", "final", "explicit", "failover"}

\* What Chat returns.  The health book files IMAGE_LIMIT under
\* UPSTREAM_STRUCTURED; ENDED is the limiter's context error and REFUSED,
\* COOLING and FULL are answers given without a call.
Outcome == Error \cup {"OK", "IMAGE_LIMIT"}
Answer == Outcome \cup {"ENDED", "REFUSED", "COOLING", "FULL"}

DispatchInit ==
    /\ HealthInit
    /\ S!Init
    /\ acct = [r \in Request |-> Order[1]]
    /\ step = [r \in Request |-> "start"]
    /\ kind \in [Request -> Body]
    /\ why = [r \in Request |-> "preferred"]
    /\ cand = [r \in Request |-> None]
    /\ probes = [r \in Request |-> 0]
    /\ first = [r \in Request |-> None]
    /\ outcome = [r \in Request |-> None]
    /\ cursor = 1
    /\ lastHealthy = None
-----------------------------------------------------------------------------
Goto(r, s) == step' = [step EXCEPT ![r] = s]

Reply(r, o) == Goto(r, "done") /\ outcome' = [outcome EXCEPT ![r] = o]

\* A mutant of NextCursor: it does not wrap around.
NextCursorUnwrapped == cursor + 1

NextCursor == (cursor % Len(Order)) + 1

\* tokens.Next(): the candidate is the account under the shared cursor.
Pick(r, purpose, n) ==
    /\ cand' = [cand EXCEPT ![r] = Order[cursor]]
    /\ cursor' = NextCursor
    /\ why' = [why EXCEPT ![r] = purpose]
    /\ probes' = [probes EXCEPT ![r] = n]
    /\ UNCHANGED lastHealthy

Keep == UNCHANGED <<cand, why, probes>>

\* The search returns: its variables go out of scope.
SearchOver(r) ==
    /\ cand' = [cand EXCEPT ![r] = None]
    /\ why' = [why EXCEPT ![r] = "preferred"]
    /\ probes' = [probes EXCEPT ![r] = 0]

\* The body names an account: no check at all before the token.
StartExplicit(r) ==
    /\ step[r] = "start"
    /\ kind[r] = "explicit"
    /\ \E a \in Account : cand' = [cand EXCEPT ![r] = a]
    /\ why' = [why EXCEPT ![r] = "explicit"]
    /\ Goto(r, "token")
    /\ UNCHANGED <<healthVars, slotVars, pickVars, kind, probes, first, outcome>>

\* resolveAccount reads the sticky account, which it checks later.
StartPreferred(r) ==
    /\ step[r] = "start"
    /\ kind[r] # "explicit"
    /\ lastHealthy # None
    /\ cand' = [cand EXCEPT ![r] = lastHealthy]
    /\ Goto(r, "health")
    /\ UNCHANGED <<healthVars, slotVars, pickVars, kind, why, probes, first, outcome>>

\* There is no sticky account yet.
StartProbe(r) ==
    /\ step[r] = "start"
    /\ kind[r] # "explicit"
    /\ lastHealthy = None
    /\ Pick(r, "probe", 0)
    /\ Goto(r, "health")
    /\ UNCHANGED <<healthVars, slotVars, kind, first, outcome>>
-----------------------------------------------------------------------------
\* accountPool.Available(candidate).
CheckHealth(r) ==
    /\ step[r] = "health"
    /\ Look({cand[r]})
    /\ \/ /\ Usable(cand[r])
          /\ Goto(r, "slot")
          /\ Keep
          /\ UNCHANGED outcome
       \/ /\ ~Usable(cand[r])
          /\ why[r] # "final"
          /\ Goto(r, "next")
          /\ Keep
          /\ UNCHANGED outcome
       \/ /\ ~Usable(cand[r])
          /\ why[r] = "final"
          /\ Reply(r, "COOLING")
          /\ SearchOver(r)
    /\ UNCHANGED <<slotVars, pickVars, kind, first>>

HasSlot(a) == inflight[a] < Limit

\* accountConcurrency.Available(candidate).  The search of resolveAccount
\* checks the account it settled on once more before it takes its token.
CheckSlot(r) ==
    /\ step[r] = "slot"
    /\ \/ /\ HasSlot(cand[r])
          /\ why[r] # "probe"
          /\ Goto(r, "token")
          /\ Keep
          /\ UNCHANGED outcome
       \/ /\ HasSlot(cand[r])
          /\ why[r] = "probe"
          /\ why' = [why EXCEPT ![r] = "final"]
          /\ Goto(r, "health")
          /\ UNCHANGED <<cand, probes, outcome>>
       \/ /\ ~HasSlot(cand[r])
          /\ why[r] # "final"
          /\ Goto(r, "next")
          /\ Keep
          /\ UNCHANGED outcome
       \/ /\ ~HasSlot(cand[r])
          /\ why[r] = "final"
          /\ Reply(r, "FULL")
          /\ SearchOver(r)
    /\ UNCHANGED <<healthVars, slotVars, pickVars, kind, first>>

\* A mutant of Avoided: the search for a second account accepts the first.
NothingAvoided(failed) == FALSE

\* nextHealthyAccount passes over the account that just failed.
Avoided(failed) == Order[cursor] = failed

PickSecond(r, failed, n) ==
    /\ Pick(r, "failover", n)
    /\ Goto(r, IF Avoided(failed) THEN "next" ELSE "health")

\* The candidate was rejected: go on, or stop after MaxProbe picks.  The
\* search of resolveAccount then checks its last candidate as if it had been
\* accepted; the failover gives up and answers with the first call's error.
PassOver(r) ==
    /\ step[r] = "next"
    /\ \/ /\ why[r] = "preferred"
          /\ Pick(r, "probe", 0)
          /\ Goto(r, "health")
       \/ /\ why[r] = "probe"
          /\ probes[r] < MaxProbe
          /\ Pick(r, "probe", probes[r] + 1)
          /\ Goto(r, "health")
       \/ /\ why[r] = "probe"
          /\ probes[r] = MaxProbe
          /\ why' = [why EXCEPT ![r] = "final"]
          /\ Goto(r, "health")
          /\ UNCHANGED <<pickVars, cand, probes>>
       \/ /\ why[r] = "failover"
          /\ probes[r] < MaxProbe
          /\ PickSecond(r, first[r], probes[r] + 1)
       \/ /\ why[r] = "failover"
          /\ probes[r] = MaxProbe
          /\ Goto(r, "done")
          /\ SearchOver(r)
          /\ UNCHANGED pickVars
    /\ UNCHANGED <<healthVars, slotVars, kind, first, outcome>>

\* tokens.EnsureValid succeeds: chatWithAccount is entered.  Only the round
\* robin and an explicit choice make the account sticky.
TokenValid(r) ==
    /\ step[r] = "token"
    /\ lastHealthy' = IF why[r] \in {"final", "explicit"} THEN cand[r] ELSE lastHealthy
    /\ S!Begin(r, cand[r])
    /\ Goto(r, "call")
    /\ SearchOver(r)
    /\ UNCHANGED <<healthVars, kind, first, outcome, cursor>>

\* tokens.EnsureValid fails (TokenStore's matter): a preferred account is
\* passed over, a failover is abandoned, anything else is an answer.
TokenInvalid(r) ==
    /\ step[r] = "token"
    /\ \/ /\ why[r] = "preferred"
          /\ Goto(r, "next")
          /\ Keep
          /\ UNCHANGED outcome
       \/ /\ why[r] = "failover"
          /\ Goto(r, "done")
          /\ SearchOver(r)
          /\ UNCHANGED outcome
       \/ /\ why[r] \in {"final", "explicit"}
          /\ Reply(r, "REFUSED")
          /\ SearchOver(r)
    /\ UNCHANGED <<healthVars, slotVars, pickVars, kind, first>>
-----------------------------------------------------------------------------
\* Acquire inside chatWithAccount.
Acquire(r) ==
    /\ step[r] = "call"
    /\ S!Take(r) \/ S!Enqueue(r) \/ S!Wake(r)
    /\ UNCHANGED <<healthVars, handlerVars, pickVars>>

\* Acquire fails: chatWithAccount returns without recording anything.
AcquireFails(r) ==
    /\ step[r] = "call"
    /\ S!GiveUp(r)
    /\ outcome' = [outcome EXCEPT ![r] = "ENDED"]
    /\ Goto(r, "judge")
    /\ UNCHANGED <<healthVars, pickVars, kind, why, cand, probes, first>>

\* MarkCall, then the upstream call begins.
CallStarts(r) ==
    /\ step[r] = "call"
    /\ phase[r] = "calling"
    /\ Look({acct[r]})
    /\ Goto(r, "chat")
    /\ UNCHANGED <<slotVars, pickVars, kind, why, cand, probes, first, outcome>>

\* A mutant of Called: the handler's acc, not the account of this call.
CalledFirst(r) == IF first[r] = None THEN acct[r] ELSE first[r]

Called(r) == acct[r]

\* Chat returns and recordAccountChatResult files the result while the slot
\* is still held.
CallEnds(r) ==
    /\ step[r] = "chat"
    /\ \E o \in Outcome :
          /\ outcome' = [outcome EXCEPT ![r] = o]
          /\ \/ o = "OK" /\ MarkSuccess(Called(r))
             \/ o = "IMAGE_LIMIT" /\ MarkFailure(Called(r), "UPSTREAM_STRUCTURED")
             \/ o \in Error /\ MarkFailure(Called(r), o)
    /\ Goto(r, "leave")
    /\ UNCHANGED <<slotVars, pickVars, kind, why, cand, probes, first>>

\* A mutant of Leave: a failed call is not released before the handler goes on.
LeaveOnSuccess(r) ==
    /\ step[r] = "leave"
    /\ Goto(r, "judge")
    /\ \/ outcome[r] = "OK" /\ S!Release(r)
       \/ outcome[r] # "OK" /\ UNCHANGED slotVars
    /\ UNCHANGED <<healthVars, pickVars, kind, why, cand, probes, first, outcome>>

\* The deferred release of chatWithAccount.
Leave(r) ==
    /\ step[r] = "leave"
    /\ S!Release(r)
    /\ Goto(r, "judge")
    /\ UNCHANGED <<healthVars, pickVars, kind, why, cand, probes, first, outcome>>

\* The client goes away or the handler's timeout fires.
ContextEnds(r) ==
    /\ step[r] \in {"call", "chat"}
    /\ S!End(r)
    /\ UNCHANGED <<healthVars, handlerVars, pickVars>>
-----------------------------------------------------------------------------
RateLimited == {"QUOTA_429", "RETRY_AFTER_429", "METERING_429", "OVERLOAD_503"}

\* isUpstreamConnectionDrop reads the wording of an error; whether one of
\* these is a drop is left open.
MayBeDrop == {"TRANSPORT", "PLAIN_TRANSPORT", "PLAIN_UNKNOWN"}

\* Whether chatOnce may, and whether it must, try a second account.
MayFailOver(r) ==
    /\ first[r] = None
    /\ kind[r] # "explicit"
    /\ \/ outcome[r] \in RateLimited
       \/ outcome[r] \in LocksOut \cup MayBeDrop /\ kind[r] # "bound"

MustFailOver(r) == MayFailOver(r) /\ outcome[r] \notin MayBeDrop

FailOver(r) ==
    /\ step[r] = "judge"
    /\ MayFailOver(r)
    /\ first' = [first EXCEPT ![r] = acct[r]]
    /\ PickSecond(r, acct[r], 1)
    /\ UNCHANGED <<healthVars, slotVars, kind, outcome>>

\* The result of the last call, good or bad, is the answer.
Conclude(r) ==
    /\ step[r] = "judge"
    /\ outcome[r] # "IMAGE_LIMIT"
    /\ ~MustFailOver(r)
    /\ Goto(r, "done")
    /\ UNCHANGED <<healthVars, slotVars, pickVars, kind, why, cand, probes, first, outcome>>

\* The second call hit the image limit: next.ID is marked ...
BlameSecond(r) ==
    /\ step[r] = "judge"
    /\ outcome[r] = "IMAGE_LIMIT"
    /\ first[r] # None
    /\ MarkImageLimited(acct[r])
    /\ Goto(r, "blame")
    /\ UNCHANGED <<slotVars, pickVars, kind, why, cand, probes, first, outcome>>

\* ... and then err = err2 reaches the common error path, which marks acc.ID,
\* still the first account.
BlameAcc(r) ==
    /\ \/ step[r] = "judge" /\ first[r] = None
       \/ step[r] = "blame"
    /\ outcome[r] = "IMAGE_LIMIT"
    /\ MarkImageLimited(IF first[r] = None THEN acct[r] ELSE first[r])
    /\ Goto(r, "done")
    /\ UNCHANGED <<slotVars, pickVars, kind, why, cand, probes, first, outcome>>
-----------------------------------------------------------------------------
\* Steps of the handler's own goroutine, waiting included.
Handle(r) ==
    \/ StartExplicit(r) \/ StartPreferred(r) \/ StartProbe(r)
    \/ CheckHealth(r) \/ CheckSlot(r) \/ PassOver(r)
    \/ TokenValid(r) \/ TokenInvalid(r)
    \/ Acquire(r) \/ CallStarts(r) \/ CallEnds(r) \/ Leave(r)
    \/ FailOver(r) \/ Conclude(r) \/ BlameSecond(r) \/ BlameAcc(r)

\* The clock, the admin page's list and its button to clear all cooldowns.
Others ==
    /\ Tick \/ Look(Account) \/ ClearAllCooldowns
    /\ UNCHANGED <<slotVars, handlerVars, pickVars>>

DispatchNext ==
    \/ \E r \in Request : Handle(r) \/ AcquireFails(r) \/ ContextEnds(r)
    \/ Others

DispatchSpec == DispatchInit /\ [][DispatchNext]_dispatchVars

\* Every goroutine runs and every call returns.  Nothing is asked of the
\* contexts: no request needs its timeout to get an answer.
FairDispatchSpec ==
    DispatchSpec /\ \A r \in Request : WF_dispatchVars(Handle(r))
-----------------------------------------------------------------------------
\* Every variable holds a value of its type.
DispatchTypeOK ==
    /\ HealthTypeOK
    /\ S!TypeOK
    /\ step \in [Request -> Step]
    /\ kind \in [Request -> Body]
    /\ why \in [Request -> Purpose]
    /\ cand \in [Request -> Account \cup {None}]
    /\ probes \in [Request -> 0..MaxProbe]
    /\ first \in [Request -> Account \cup {None}]
    /\ outcome \in [Request -> Answer \cup {None}]
    /\ cursor \in 1..Len(Order)
    /\ lastHealthy \in Account \cup {None}

\* A request holds a slot only while its own call runs: never while it looks
\* for a second account (chatWithAccount's deferred release comes first,
\* account_concurrency.go:114) and never after its answer.
NoHoldAndWait ==
    \A r \in Request :
        /\ step[r] \in {"chat", "leave"} => phase[r] = "calling"
        /\ step[r] \notin {"call", "chat", "leave"} => phase[r] = "idle"

\* A failover leaves the account that failed, whatever other requests do to
\* the shared cursor meanwhile (server.go:1693).
FailoverElsewhere ==
    \A r \in Request :
        first[r] # None =>
            /\ step[r] \in {"health", "slot", "token"} => cand[r] # first[r]
            /\ step[r] \in {"call", "chat", "leave"} => acct[r] # first[r]

\* An account is only locked out, marked limited or cooled down for a call
\* that ran on it: a second call never blames the first account for its
\* failure, nor does one request another's account (chatWithAccount files
\* under accountID, account_concurrency.go:119).  Image marks are excepted,
\* see ImageMarksEarned.
BlamesTheCalled ==
    [][\A a \in Account :
          \/ a \in (authFail' \ authFail) \cup (limited' \ limited)
          \/ attempts'[a] > attempts[a]
          \/ cooldown'[a] > cooldown[a] /\ cooldown'[a] # imageUntil'[a]
          => \E r \in Request :
                /\ step[r] = "chat" /\ step'[r] = "leave"
                /\ phase[r] = "calling" /\ acct[r] = a]_dispatchVars

\* Every request is answered, with no help from its timeout: no set of
\* requests that fail over at the same time waits for one another's slots.
RequestAnswered == \A r \in Request : <>(step[r] = "done")
-----------------------------------------------------------------------------
(* What comments and texts of the repository claim and this code does not  *)
(* do.                                                                     *)

\* "a conversation-bound chat stays on its account" (server.go:1849).
BoundStays ==
    \A r \in Request : kind[r] = "bound" => first[r] = None

\* The image quota belongs to one account (images.go:126), so an account gets
\* the image mark from a request whose own call on it met the limit.
ImageMarksEarned ==
    [][\A a \in Account :
          imageUntil'[a] > imageUntil[a]
              => \E r \in Request : acct[r] = a /\ outcome[r] = "IMAGE_LIMIT"]_dispatchVars
=============================================================================
