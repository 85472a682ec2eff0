---------------------------- MODULE MCTokenStore ----------------------------
(* TokenStore for TLC: two goroutines, the administrator and one user.      *)
EXTENDS TokenStore

MCIdentity == {[id |-> "x", email |-> "x@"]}

\* One account whose access token is due, and only goroutines that refresh it:
\* the moment docs/audit-2026-08-07-robustness.md calls the stampede.
StampedeInit ==
    /\ data = {Account(Owner("x"), 1)}
    /\ disk = data /\ saved = TRUE
    /\ age = [i \in Id |-> "due"]
    /\ inflight = [i \in Id |-> None]
    /\ pc = [p \in Proc |-> "idle"]
    /\ snap = [p \in Proc |-> Blank]
    /\ reply = [p \in Proc |-> Failed]
    /\ ok = [p \in Proc |-> FALSE]
    /\ live = {1} /\ issued = 1
    /\ faults = 0 /\ crashed = FALSE

StampedeSpec == StampedeInit /\ [][\E p \in Proc : Handler(p)]_storeVars
=============================================================================
