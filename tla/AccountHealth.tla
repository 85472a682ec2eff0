--------------------------- MODULE AccountHealth ----------------------------
(***************************************************************************)
(* src/internal/web/account_health.go: what the gateway believes about     *)
(* each account.  The maps of accountHealth share one mutex that every     *)
(* method takes once.  An entry is only cleaned up when somebody looks at  *)
(* the account after its cooldown, so "expired" and "absent" differ.       *)
(*                                                                         *)
(* Several calls run on an account at once, so results arrive in any order *)
(* and a success may be recorded after the failure of a call that began    *)
(* later.  Nothing here restricts the order.                               *)
(*                                                                         *)
(* MarkFailure records on the circuit, unlocks it, and then updates the    *)
(* maps.  The only reader of both is Available, which refuses while the    *)
(* circuit is open and reads none of its counters: what it sees between    *)
(* the two is what it sees before or after both, so the model takes one    *)
(* step.  Call counts, fail reasons, metering figures and the two          *)
(* image-generation timers, which no scheduling test reads, are left out.  *)
(***************************************************************************)
EXTENDS GlobalCircuit

CONSTANTS
    Account,
    Error,        \* the kinds of error that upstream calls return
    Cooldown,     \* [FixedCooldown -> ticks]: CooldownForCategory
    RateLimitCooldown,  \* the setting: the longest cooldown of an unknown error
    RetryAfter,   \* the Retry-After values an upstream sends, in ticks
    AttemptCap,   \* attempts past which the backoff no longer grows (7)
    Backoff,      \* [1..AttemptCap -> ticks]: 30 s, 1 m, 2 m ... 30 m
    ImageTicks    \* how long an image limit blocks an account (24 h)

\* The errors chathub's Chat returns.  TRANSPORT stands for a DialError of
\* any of the six kinds SOCKS5 ... WS_READ_TIMEOUT, METERING_429 for
\* ErrMeteringThrottled; a PLAIN error has no type and is classified by its
\* text, after the circuit is consulted.  The categories that only an
\* UpstreamHTTPError with an ErrorCode has (banned, throttled, tokens,
\* designer) are left out: nothing in src/ builds such an error.
PlainErrors == {"PLAIN_TRANSPORT", "PLAIN_UNKNOWN"}

AllErrors ==
    {"QUOTA_429", "RETRY_AFTER_429", "METERING_429", "OVERLOAD_503",
     "AUTH_EXPIRED_401", "FORBIDDEN_403", "TRANSPORT", "UPSTREAM_STRUCTURED",
     "CLIENT_CANCELED"} \cup PlainErrors

FixedCooldown ==
    {"METERING_429", "OVERLOAD_503", "AUTH_EXPIRED_401", "FORBIDDEN_403",
     "TRANSPORT", "UPSTREAM_STRUCTURED", "GLOBAL_UNAVAILABLE", "UNKNOWN"}

ASSUME HealthAssumption ==
    /\ Error \subseteq AllErrors
    /\ Cooldown \in [FixedCooldown -> Nat]
    /\ RateLimitCooldown \in Nat
    /\ RetryAfter \subseteq Nat
    /\ AttemptCap \in Nat \ {0}
    /\ Backoff \in [1..AttemptCap -> Nat]
    /\ ImageTicks \in Nat

VARIABLES
    cooldown,      \* ticks until an account's cooldown ends, Absent: no entry
    authFail,      \* accounts believed to be locked out
    limited,       \* accounts believed to be rate limited
    attempts,      \* quotaAttempts: 429s in a row, saturated at AttemptCap
    imageLimited,  \* accounts that ran out of images for the day
    imageUntil     \* ticks until imageLimitUntil, Absent: no entry

mapVars == <<cooldown, authFail, limited, attempts, imageLimited, imageUntil>>
healthVars == <<mapVars, circuitVars>>

HealthInit ==
    /\ cooldown = [a \in Account |-> Absent]
    /\ authFail = {}
    /\ limited = {}
    /\ attempts = [a \in Account |-> 0]
    /\ imageLimited = {}
    /\ imageUntil = [a \in Account |-> Absent]
    /\ CircuitInit
-----------------------------------------------------------------------------
Expired(a) == cooldown[a] = 0

\* Available(a) returns true.  It cleans up first, so an expired lock-out
\* does not count.
Usable(a) ==
    /\ ~CircuitOpen
    /\ a \notin authFail \/ Expired(a)
    /\ cooldown[a] <= 0

Gone(S) == {a \in S : Expired(a)}

\* A mutant of Lapse: the lock-out survives the cooldown.
LapseKeepsAuthFail(S) ==
    /\ cooldown' = [a \in Account |-> IF a \in Gone(S) THEN Absent ELSE cooldown[a]]
    /\ attempts' = [a \in Account |-> IF a \in Gone(S) THEN 0 ELSE attempts[a]]
    /\ limited' = limited \ Gone(S)
    /\ UNCHANGED authFail

\* cleanupExpiredCooldownLocked, for the accounts of S: what was recorded
\* with the cooldown is forgotten with it (and so is the image mark).
Lapse(S) ==
    /\ cooldown' = [a \in Account |-> IF a \in Gone(S) THEN Absent ELSE cooldown[a]]
    /\ attempts' = [a \in Account |-> IF a \in Gone(S) THEN 0 ELSE attempts[a]]
    /\ limited' = limited \ Gone(S)
    /\ authFail' = authFail \ Gone(S)

\* Available, MarkCall, CallCount, RateLimited and CooldownUntil look at one
\* account, Snapshot at all of them.
Look(S) ==
    /\ Lapse(S)
    /\ imageLimited' = imageLimited \ Gone(S)
    /\ UNCHANGED <<imageUntil, circuitVars>>

\* ImageLimited, when it finds the image limit over: it drops the mark and
\* its end, then cleans up.  Otherwise it is Look({a}).
LookImage(a) ==
    /\ a \in imageLimited
    /\ imageUntil[a] = 0
    /\ Lapse({a})
    /\ imageLimited' = imageLimited \ {a}
    /\ imageUntil' = [imageUntil EXCEPT ![a] = Absent]
    /\ UNCHANGED circuitVars
-----------------------------------------------------------------------------
\* ClassifyError.
Classify(e) ==
    CASE e \in PlainErrors /\ CircuitOpen -> "GLOBAL_UNAVAILABLE"
      [] e = "PLAIN_TRANSPORT" /\ ~CircuitOpen -> "TRANSPORT"
      [] e = "PLAIN_UNKNOWN" /\ ~CircuitOpen -> "UNKNOWN"
      [] OTHER -> e

\* The categories that lock an account out, that mark it rate limited, and
\* that withdraw a lock-out recorded earlier.  The two categories left,
\* UPSTREAM_STRUCTURED and GLOBAL_UNAVAILABLE, touch only the cooldown.
LocksOut == {"AUTH_EXPIRED_401", "FORBIDDEN_403"}
Limits == {"QUOTA_429", "RETRY_AFTER_429", "METERING_429"}
Withdraws == Limits \cup {"OVERLOAD_503", "TRANSPORT", "UNKNOWN"}

NextAttempt(a) == IF attempts[a] < AttemptCap THEN attempts[a] + 1 ELSE AttemptCap

\* The cooldowns MarkFailure may give account a for category cat.
CooldownFor(a, cat) ==
    CASE cat = "QUOTA_429" -> {Backoff[NextAttempt(a)]}
      [] cat = "RETRY_AFTER_429" -> RetryAfter
      [] cat = "UNKNOWN" /\ RateLimitCooldown < Cooldown[cat] -> {RateLimitCooldown}
      [] OTHER -> {Cooldown[cat]}

\* A mutant of RecordOnCircuit: failures seen while the circuit is open count.
RecordRejections(cat) ==
    IF cat \in {"TRANSPORT", "GLOBAL_UNAVAILABLE"}
    THEN RecordFailure ELSE UNCHANGED circuitVars

\* Record(err): only infrastructure failures count.
RecordOnCircuit(cat) ==
    IF cat = "TRANSPORT" THEN RecordFailure ELSE UNCHANGED circuitVars

\* MarkFailure.  The new cooldown replaces the old one, longer or not.
MarkFailureAs(a, cat) ==
    /\ RecordOnCircuit(cat)
    /\ IF cat = "CLIENT_CANCELED"
       THEN UNCHANGED mapVars
       ELSE /\ \E d \in CooldownFor(a, cat) :
                  cooldown' = [cooldown EXCEPT ![a] = d]
            /\ authFail' = IF cat \in LocksOut THEN authFail \cup {a}
                           ELSE IF cat \in Withdraws THEN authFail \ {a}
                           ELSE authFail
            /\ limited' = IF cat \in Limits THEN limited \cup {a}
                          ELSE IF cat \in LocksOut THEN limited \ {a}
                          ELSE limited
            /\ attempts' = [attempts EXCEPT ![a] =
                              IF cat = "METERING_429" THEN 0
                              ELSE IF cat \in Limits THEN NextAttempt(a)
                              ELSE @]
            /\ UNCHANGED <<imageLimited, imageUntil>>

MarkFailure(a, e) == MarkFailureAs(a, Classify(e))

\* An image limit that is still running.
ImageRunning(a) == a \in imageLimited /\ imageUntil[a] > 0

\* MarkSuccess: the account is well again, except for its image limit.
MarkSuccess(a) ==
    /\ RecordSuccess
    /\ authFail' = authFail \ {a}
    /\ limited' = limited \ {a}
    /\ attempts' = [attempts EXCEPT ![a] = 0]
    /\ \/ /\ ImageRunning(a)
          /\ cooldown' = [cooldown EXCEPT ![a] = imageUntil[a]]
          /\ UNCHANGED <<imageLimited, imageUntil>>
       \/ /\ ~ImageRunning(a)
          /\ cooldown' = [cooldown EXCEPT ![a] = Absent]
          /\ imageLimited' = imageLimited \ {a}
          /\ imageUntil' = [imageUntil EXCEPT ![a] = Absent]

\* MarkImageLimited, called by a handler after the call's own result was
\* recorded.
MarkImageLimited(a) ==
    /\ imageLimited' = imageLimited \cup {a}
    /\ imageUntil' = [imageUntil EXCEPT ![a] = ImageTicks]
    /\ cooldown' = [cooldown EXCEPT ![a] = ImageTicks]
    /\ UNCHANGED <<authFail, limited, attempts, circuitVars>>

\* ClearAllCooldowns, from the admin page.
ClearAllCooldowns ==
    /\ cooldown' = [a \in Account |-> Absent]
    /\ authFail' = {}
    /\ limited' = {}
    /\ attempts' = [a \in Account |-> 0]
    /\ imageLimited' = {}
    /\ imageUntil' = [a \in Account |-> Absent]
    /\ ResetCircuit

\* A mutant of Down: it counts past the end.
DownForever(t) == t - 1

\* The clock.
Down(t) == IF t > 0 THEN t - 1 ELSE t

Tick ==
    /\ cooldown' = [a \in Account |-> Down(cooldown[a])]
    /\ imageUntil' = [a \in Account |-> Down(imageUntil[a])]
    /\ CircuitTick
    /\ UNCHANGED <<authFail, limited, attempts, imageLimited>>

Result(a) == MarkSuccess(a) \/ \E e \in Error : MarkFailure(a, e)

HealthNext ==
    \/ \E a \in Account : Look({a}) \/ LookImage(a) \/ Result(a) \/ MarkImageLimited(a)
    \/ Look(Account)
    \/ ClearAllCooldowns
    \/ Tick

HealthSpec == HealthInit /\ [][HealthNext]_healthVars

\* The clock does not stop.
FairHealthSpec == HealthSpec /\ WF_healthVars(Tick)
-----------------------------------------------------------------------------
\* Every variable holds a value of its type.
HealthTypeOK ==
    /\ cooldown \in [Account -> Nat \cup {Absent}]
    /\ authFail \subseteq Account
    /\ limited \subseteq Account
    /\ attempts \in [Account -> 0..AttemptCap]
    /\ imageLimited \subseteq Account
    /\ imageUntil \in [Account -> Nat \cup {Absent}]
    /\ CircuitTypeOK

\* Whatever is held against an account has an end: a lock-out, a rate-limit
\* mark, an image mark or a backoff step always comes with a cooldown entry,
\* whose expiry clears it (account_health.go:442-463).  Were one to outlive
\* the entry, Available() would refuse the account until a restart.
MarksExpire ==
    \A a \in Account :
        (a \in authFail \cup limited \cup imageLimited \/ attempts[a] > 0)
            => cooldown[a] # Absent

\* When results stop arriving, the clock alone brings every account back.
AccountsRecover ==
    <>[][\A a \in Account : ~Result(a) /\ ~MarkImageLimited(a)]_healthVars
        => <>[](\A a \in Account : Usable(a))

\* Failures that untyped errors report while the circuit is open cannot keep
\* it open (account_health.go:365-368): if from some time on no typed
\* transport failure and no success is recorded, an open circuit closes.
CircuitCloses ==
    <>[][\A a \in Account : ~MarkSuccess(a) /\ ~MarkFailure(a, "TRANSPORT")]_healthVars
        => []<>~CircuitOpen
=============================================================================
