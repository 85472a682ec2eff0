------------------------------ MODULE SlotPool ------------------------------
(***************************************************************************)
(* What the per-account concurrency limiter promises to the handlers that  *)
(* share it, with none of the locking it is made of: an account serves at  *)
(* most Limit requests at a time, a request is served by at most one       *)
(* account, and a slot is only given back by the request that holds it.    *)
(***************************************************************************)
EXTENDS Naturals, FiniteSets

CONSTANTS AccountId,   \* account ids
          Request,   \* the goroutines that send a chat
          Limit      \* slots of one account

VARIABLE serving     \* the requests each account is serving

Init == serving = [a \in AccountId |-> {}]

Grant(a, r) ==
    /\ \A b \in AccountId : r \notin serving[b]
    /\ Cardinality(serving[a]) < Limit
    /\ serving' = [serving EXCEPT ![a] = @ \cup {r}]

Return(a, r) ==
    /\ r \in serving[a]
    /\ serving' = [serving EXCEPT ![a] = @ \ {r}]

Next == \E a \in AccountId, r \in Request : Grant(a, r) \/ Return(a, r)

Spec == Init /\ [][Next]_serving
=============================================================================
