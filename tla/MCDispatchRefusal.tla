------------------------- MODULE MCDispatchRefusal --------------------------
(* AccountDispatch with a history variable: which accounts a search could   *)
(* have used all the time it ran.                                           *)
EXTENDS MCAccountDispatch

VARIABLE open

Ready(a) == Usable(a) /\ HasSlot(a)

RefusalInit ==
    /\ DispatchInit
    /\ open = [r \in Request |-> Account]

RefusalNext ==
    /\ DispatchNext
    /\ open' = [r \in Request |->
                  {a \in IF step[r] = "start" THEN Account ELSE open[r] : Ready(a)'}]

RefusalSpec == RefusalInit /\ [][RefusalNext]_<<dispatchVars, open>>

\* "all accounts are cooling down; try again later" (server.go:1669) is only
\* answered when no account was usable, with a slot free, during the whole
\* search.
CoolingIsTrue ==
    \A r \in Request : outcome[r] = "COOLING" => open[r] = {}
=============================================================================
