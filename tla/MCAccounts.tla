----------------------------- MODULE MCAccounts ----------------------------
(* The limiter of the accounts and their health book, for TLC: side by side *)
(* here, and together in AccountDispatch.  One of the two is chosen at the  *)
(* start and runs alone.  The limiter has two accounts of one slot and      *)
(* three goroutines, so that two can sleep on one account while the third   *)
(* runs on it, or while slots of the other are taken and freed.  The book   *)
(* has one account, and durations scaled to a few ticks in the order the    *)
(* code gives them: a 503, a dropped connection and a refused reply are     *)
(* short, an expired token longer, a forbidden account and an image limit   *)
(* longest; the backoff doubles once.                                       *)
EXTENDS AccountSlots, AccountHealth

MCBackoff == <<1, 2>>

MCCooldown ==
    [c \in FixedCooldown |->
        CASE c \in {"AUTH_EXPIRED_401", "METERING_429"} -> 2
          [] c = "FORBIDDEN_403" -> 3
          [] OTHER -> 1]

VARIABLE part

AccountsInit ==
    /\ part \in {"slots", "health"}
    /\ Init /\ HealthInit
    /\ part # "slots" => acct = [r \in Request |-> CHOOSE a \in AccountId : TRUE]

AccountsNext ==
    \/ part = "slots" /\ Next /\ UNCHANGED <<part, healthVars>>
    \/ part = "health" /\ HealthNext /\ UNCHANGED <<part, vars>>

\* Neither part has a step of its own to take before something is asked of it.
FairAccountsSpec ==
    /\ AccountsInit /\ [][AccountsNext]_<<part, vars, healthVars>>
    /\ Fairness
    /\ WF_healthVars(Tick)
=============================================================================
