--------------------------- MODULE GlobalCircuit ----------------------------
(***************************************************************************)
(* src/internal/web/account_health.go, globalCircuitState: one circuit     *)
(* breaker for the whole gateway.  Results are counted in a window that a  *)
(* new result restarts once it is too old; when enough of them failed the  *)
(* circuit opens for a fixed time.  There is no half-open state: it closes *)
(* by the clock.  Times are counted in ticks; the module has no Spec of    *)
(* its own, AccountHealth composes it with the per-account state.          *)
(***************************************************************************)
EXTENDS Integers

CONSTANTS
    MinResults,   \* results a window needs before it can open the circuit (10)
    MaxResults,   \* results after which a window restarts anyway (1000)
    WindowTicks,  \* a window older than this restarts (30 s)
    OpenTicks     \* how long the circuit stays open (30 s)

ASSUME CircuitAssumption ==
    /\ MinResults \in Nat \ {0} /\ MaxResults \in Nat \ {0}
    /\ WindowTicks \in Nat /\ OpenTicks \in Nat

\* An absent map entry or a zero time.Time.
Absent == -1

VARIABLES
    windowAge,  \* ticks since windowStart, Absent while it is the zero time
    total,      \* results in the window
    failures,   \* how many of them are infrastructure failures
    openLeft    \* ticks until openUntil, 0 when it is zero or past

circuitVars == <<windowAge, total, failures, openLeft>>

CircuitInit ==
    /\ windowAge = Absent
    /\ total = 0
    /\ failures = 0
    /\ openLeft = 0

CircuitTypeOK ==
    /\ windowAge \in Nat \cup {Absent}
    /\ total \in Nat
    /\ failures \in Nat
    /\ openLeft \in Nat

CircuitOpen == openLeft > 0
-----------------------------------------------------------------------------
\* A result restarts the window if there is none or it is over.
Stale == windowAge = Absent \/ windowAge > WindowTicks

\* At least MinResults results, at least half of them failures.
Trips(f, t) == t >= MinResults /\ f * 2 >= t

Count(f, t) == failures' = f /\ total' = t

Reopen(f, t) == openLeft' = IF Trips(f, t) THEN OpenTicks ELSE openLeft

\* A mutant of Full: the window is never cut.
NeverFull(t) == FALSE

Full(t) == t > MaxResults

\* Record(nil): a full window restarts before the test.
RecordSuccess ==
    LET f == IF Stale THEN 0 ELSE failures
        t == IF Stale THEN 1 ELSE total + 1
        full == Full(t)
    IN  /\ windowAge' = IF Stale \/ full THEN 0 ELSE windowAge
        /\ Count(IF full THEN 0 ELSE f, IF full THEN 1 ELSE t)
        /\ Reopen(IF full THEN 0 ELSE f, IF full THEN 1 ELSE t)

\* Record(err) of an infrastructure failure: a full window restarts after it.
RecordFailure ==
    LET f == IF Stale THEN 1 ELSE failures + 1
        t == IF Stale THEN 1 ELSE total + 1
        full == Full(t)
    IN  /\ windowAge' = IF Stale \/ full THEN 0 ELSE windowAge
        /\ Count(IF full THEN 1 ELSE f, IF full THEN 1 ELSE t)
        /\ Reopen(f, t)

\* ResetGlobalCircuit.
ResetCircuit ==
    /\ windowAge' = Absent
    /\ total' = 0
    /\ failures' = 0
    /\ openLeft' = 0

\* The age saturates one tick past the window: older ages are not told apart.
CircuitTick ==
    /\ windowAge' = IF windowAge \in 0..WindowTicks THEN windowAge + 1 ELSE windowAge
    /\ openLeft' = IF openLeft > 0 THEN openLeft - 1 ELSE 0
    /\ UNCHANGED <<total, failures>>
-----------------------------------------------------------------------------
\* The counters of a window describe its results: no more failures than
\* results, no more results than the cap.
WindowSane ==
    /\ failures <= total
    /\ total <= MaxResults
    /\ windowAge = Absent => total = 0
=============================================================================
