------------------------- MODULE MCAccountDispatch --------------------------
(* AccountDispatch for TLC: two accounts listed in a fixed order, two       *)
(* requests, and durations of one or two ticks.  The requests are           *)
(* interchangeable, the accounts are not.                                   *)
EXTENDS AccountDispatch, TLC

CONSTANTS a1, a2

MCOrder == <<a1, a2>>

MCCooldown ==
    [c \in FixedCooldown |-> IF c = "FORBIDDEN_403" THEN 2 ELSE 1]

MCBackoff == <<1>>

Symmetry == Permutations(Request)
=============================================================================
