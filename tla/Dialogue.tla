------------------------------ MODULE Dialogue ------------------------------
(***************************************************************************)
(* What the gateway promises about the conversations that its users' chats *)
(* are kept in, with no sessions, caches, names and clean-up rounds: a     *)
(* conversation belongs to one chat from its first message on, holds the   *)
(* chat from its beginning up to an answer, and grows only by whole turns  *)
(* of that chat, and only until it is deleted.  What is Lost is promised   *)
(* nothing more.                                                           *)
(***************************************************************************)
EXTENDS Naturals

CONSTANTS Chat, Conv,
          MaxTurns,    \* turns of a chat
          Lost         \* what a conversation of unknown contents is taken for

VARIABLES log,      \* what each conversation holds
          deleted   \* conversations that are deleted

vars == <<log, deleted>>

Transcript(c, k) == [i \in 1 .. 2 * k |-> <<c, i>>]

Init == log = [v \in {} |-> Lost] /\ deleted = {}

\* A chat, with all its turns so far, goes to a new conversation.
Open(v, c, k) ==
    /\ v \notin DOMAIN log
    /\ log' = [w \in DOMAIN log \cup {v} |-> IF w = v THEN Transcript(c, k) ELSE log[w]]
    /\ UNCHANGED deleted

\* The turns that the conversation has not seen are added.
Continue(v, c, j, k) ==
    /\ v \in DOMAIN log \ deleted
    /\ j < k /\ log[v] = Transcript(c, j)
    /\ log' = [log EXCEPT ![v] = Transcript(c, k)]
    /\ UNCHANGED deleted

Lose(v) ==
    /\ v \in DOMAIN log
    /\ log' = [log EXCEPT ![v] = Lost]
    /\ UNCHANGED deleted

Delete(v) ==
    /\ v \in DOMAIN log \ deleted
    /\ deleted' = deleted \cup {v}
    /\ UNCHANGED log

Speak(v) ==
    \E c \in Chat, k \in 1 .. MaxTurns :
        Open(v, c, k) \/ \E j \in 1 .. MaxTurns : Continue(v, c, j, k)

\* Steps that change nothing are stuttering.
Next ==
    \/ log' # log /\ \E v \in Conv : Speak(v) \/ Lose(v)
    \/ deleted' # deleted /\ \E v \in Conv : Delete(v)

Spec == Init /\ [][Next]_vars
=============================================================================
