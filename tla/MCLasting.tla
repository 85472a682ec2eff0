----------------------------- MODULE MCLasting -----------------------------
(* The token store with the goroutines that share its refreshes, and a turn *)
(* of the ChatHub client with its reader, for TLC.  They share no variable; *)
(* one is chosen at the start and runs alone, so that one run explores the  *)
(* sum of their states.                                                     *)
EXTENDS MCTokenStore, ChatTurn

\* An ordinary text: the notices that may also end a turn are in MCService.
MCAnswers == {<<"a">>}

VARIABLE part

LastingInit ==
    /\ part \in {"tokens", "turn"}
    /\ StoreInit /\ TurnInit

LastingNext ==
    \/ part = "tokens" /\ StoreNext /\ UNCHANGED <<part, turnVars>>
    \/ part = "turn" /\ TurnNext /\ UNCHANGED <<part, storeVars>>

\* The turn's part of TurnFairness, asked only where the turn runs; no goroutine
\* has a step of its own in the token store before a first call comes, so its
\* fairness asks nothing of a turn.
Turning(A) == part = "turn" /\ A

FairLastingSpec ==
    /\ LastingInit /\ [][LastingNext]_<<part, storeVars, turnVars>>
    /\ \A p \in Proc : WF_storeVars(\E done \in BOOLEAN : Step(p, done))
    /\ WF_turnVars(Turning(Opening)) /\ WF_turnVars(Turning(LoopTurns))
    /\ WF_turnVars(Turning(Put)) /\ WF_turnVars(Turning(Abandon))
    /\ WF_turnVars(Turning(~turn.reused /\ ReadFrame))
    /\ WF_turnVars(Turning(TimerFires))
=============================================================================
