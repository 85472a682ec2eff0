---------------------------- MODULE AccountSlots ----------------------------
(***************************************************************************)
(* src/internal/web/account_concurrency.go: the counting limiter every     *)
(* upstream chat goes through.  One mutex guards a counter per account and *)
(* the current "changed" channel.  A goroutine that finds its account full *)
(* remembers the channel it saw under the lock, unlocks, and sleeps until  *)
(* that channel is closed or its context ends.  A release closes the       *)
(* channel of EVERY sleeper, whatever account it waits for, and installs a *)
(* new one.                                                                *)
(***************************************************************************)
EXTENDS Naturals, FiniteSets

CONSTANTS AccountId, Request, Limit

\* accountDefaultConcurrency() only returns limits from 1 to 64.
ASSUME SlotsAssumption == Limit \in Nat \ {0} /\ IsFiniteSet(Request)

VARIABLES
    inflight,  \* c.inflight; an absent key counts 0
    phase,     \* where each goroutine is in chatWithAccount
    acct,      \* the account it asked for
    heard,     \* the channel it sleeps on has been closed
    ended      \* its context is done (client gone, or ChatTimeoutSeconds over)

vars == <<inflight, phase, acct, heard, ended>>

Phase == {"idle", "acquiring", "waiting", "calling"}

Init ==
    /\ inflight = [a \in AccountId |-> 0]
    /\ phase = [r \in Request |-> "idle"]
    /\ acct \in [Request -> AccountId]
    /\ heard = [r \in Request |-> FALSE]
    /\ ended = [r \in Request |-> FALSE]
-----------------------------------------------------------------------------
\* A handler picked account a and enters chatWithAccount.
Begin(r, a) ==
    /\ phase[r] = "idle"
    /\ phase' = [phase EXCEPT ![r] = "acquiring"]
    /\ acct' = [acct EXCEPT ![r] = a]
    /\ ended' = [ended EXCEPT ![r] = FALSE]
    /\ UNCHANGED <<inflight, heard>>

\* A mutant of Take: the test accepts a full account.
TakeOneTooMany(r) ==
    /\ phase[r] = "acquiring"
    /\ inflight[acct[r]] <= Limit
    /\ inflight' = [inflight EXCEPT ![acct[r]] = @ + 1]
    /\ phase' = [phase EXCEPT ![r] = "calling"]
    /\ UNCHANGED <<acct, heard, ended>>

\* Acquire finds a free slot.
Take(r) ==
    /\ phase[r] = "acquiring"
    /\ inflight[acct[r]] < Limit
    /\ inflight' = [inflight EXCEPT ![acct[r]] = @ + 1]
    /\ phase' = [phase EXCEPT ![r] = "calling"]
    /\ UNCHANGED <<acct, heard, ended>>

\* Acquire finds the account full: it reads c.changed before it unlocks.
Enqueue(r) ==
    /\ phase[r] = "acquiring"
    /\ inflight[acct[r]] >= Limit
    /\ phase' = [phase EXCEPT ![r] = "waiting"]
    /\ UNCHANGED <<inflight, acct, heard, ended>>

\* The select of Acquire takes the closed channel: try again from the top.
Wake(r) ==
    /\ phase[r] = "waiting"
    /\ heard[r]
    /\ phase' = [phase EXCEPT ![r] = "acquiring"]
    /\ heard' = [heard EXCEPT ![r] = FALSE]
    /\ UNCHANGED <<inflight, acct, ended>>

\* A mutant of GiveUp: the error path also runs the release.
GiveUpAndRelease(r) ==
    /\ phase[r] = "waiting"
    /\ ended[r]
    /\ phase' = [phase EXCEPT ![r] = "idle"]
    /\ inflight' = [inflight EXCEPT ![acct[r]] = IF @ <= 1 THEN 0 ELSE @ - 1]
    /\ heard' = [heard EXCEPT ![r] = FALSE]
    /\ UNCHANGED <<acct, ended>>

\* A mutant of GiveUp: the select has no ctx.Done case.
IgnoreContext(r) == phase[r] = "waiting" /\ FALSE /\ UNCHANGED vars

\* The select takes ctx.Done: chatWithAccount returns the context's error,
\* with nothing counted and nothing recorded.
GiveUp(r) ==
    /\ phase[r] = "waiting"
    /\ ended[r]
    /\ phase' = [phase EXCEPT ![r] = "idle"]
    /\ heard' = [heard EXCEPT ![r] = FALSE]
    /\ UNCHANGED <<inflight, acct, ended>>

\* The client disconnects or the handler's timeout fires.
End(r) ==
    /\ phase[r] # "idle"
    /\ ~ended[r]
    /\ ended' = [ended EXCEPT ![r] = TRUE]
    /\ UNCHANGED <<inflight, phase, acct, heard>>
-----------------------------------------------------------------------------
Sleepers == {r \in Request : phase[r] = "waiting"}

\* A mutant of Broadcast: only one sleeper is woken, as a sync.Cond.Signal
\* shared by all accounts would.
SignalOne ==
    \/ Sleepers = {} /\ UNCHANGED heard
    \/ \E w \in Sleepers : heard' = [heard EXCEPT ![w] = TRUE]

\* close(c.changed); c.changed = make(chan struct{}).
Broadcast == heard' = [w \in Request |-> heard[w] \/ w \in Sleepers]

\* A mutant of Release: neither sync.Once nor the clamp, and the function runs
\* once more than it should.
ReleaseTwice(r) ==
    /\ phase[r] = "calling"
    /\ inflight' = [inflight EXCEPT ![acct[r]] = @ - 2]
    /\ phase' = [phase EXCEPT ![r] = "idle"]
    /\ Broadcast
    /\ UNCHANGED <<acct, ended>>

\* The deferred release.  sync.Once makes it run once per acquired slot.
Release(r) ==
    /\ phase[r] = "calling"
    /\ inflight' = [inflight EXCEPT ![acct[r]] = IF @ <= 1 THEN 0 ELSE @ - 1]
    /\ phase' = [phase EXCEPT ![r] = "idle"]
    /\ Broadcast
    /\ UNCHANGED <<acct, ended>>

Next ==
    \E r \in Request :
        \/ \E a \in AccountId : Begin(r, a)
        \/ Take(r)
        \/ Enqueue(r)
        \/ Wake(r)
        \/ GiveUp(r)
        \/ End(r)
        \/ Release(r)

\* The scheduler runs every runnable goroutine; an upstream call ends (reads
\* have a deadline); every context ends (each caller of chatWithAccount wraps
\* the request's context in a timeout); and Go's select chooses uniformly, so
\* a context that is done is not passed over for ever.
Fairness ==
    \A r \in Request :
        /\ WF_vars(Take(r) \/ Enqueue(r))
        /\ WF_vars(Wake(r))
        /\ SF_vars(GiveUp(r))
        /\ WF_vars(End(r))
        /\ WF_vars(Release(r))

Spec == Init /\ [][Next]_vars

FairSpec == Spec /\ Fairness
-----------------------------------------------------------------------------
\* The requests that hold a slot of account a.
Holders(a) == {r \in Request : phase[r] = "calling" /\ acct[r] = a}

\* Every variable holds a value of its type.
TypeOK ==
    /\ inflight \in [AccountId -> Nat]
    /\ phase \in [Request -> Phase]
    /\ acct \in [Request -> AccountId]
    /\ heard \in [Request -> BOOLEAN]
    /\ ended \in [Request -> BOOLEAN]

\* The counter of an account is exactly the number of calls running on it: no
\* path (success, error, cancelled wait) loses a slot or frees one twice, and
\* the clamp at zero in the release (account_concurrency.go:45) never hides
\* a double release.
SlotAccounting == \A a \in AccountId : inflight[a] = Cardinality(Holders(a))

\* An account never runs more than Limit calls.
WithinLimit == \A a \in AccountId : inflight[a] <= Limit

\* No lost wakeup: a goroutine whose captured channel is still open sleeps on
\* an account that is still full.  It holds because the channel is read under
\* the lock that guards the counter (account_concurrency.go:56).
NoLostWakeup ==
    \A r \in Request :
        phase[r] = "waiting" /\ ~heard[r] => inflight[acct[r]] >= Limit

\* Acquire returns, with a slot or with the context's error, however the
\* other goroutines overtake it (the limiter is not first come, first served).
AcquireReturns ==
    \A r \in Request :
        phase[r] \in {"acquiring", "waiting"} ~> phase[r] \in {"calling", "idle"}

\* The limiter implements the bounded pool of SlotPool.
Pool == INSTANCE SlotPool WITH serving <- [a \in AccountId |-> Holders(a)]

PoolSpec == Pool!Spec
=============================================================================
