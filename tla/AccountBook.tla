---------------------------- MODULE AccountBook ----------------------------
(***************************************************************************)
(* What the token store promises to those who only look at its list, with  *)
(* no goroutines, refreshes or clocks: a book with one entry per account,  *)
(* and a file that is replaced as a whole or not at all.  Every change is  *)
(* one of four: an account enters with the default settings, leaves, has   *)
(* its settings changed, or has its refresh token replaced.  The last two  *)
(* touch nothing else, a token is never erased, and none is written that   *)
(* an account has already.                                                 *)
(***************************************************************************)
CONSTANTS Id, Setting, Default, Token,
          NoToken      \* a member of Token: the account has none

VARIABLES book,    \* the accounts: their settings and refresh tokens
          file,    \* the same, as it was last written
          saved    \* the last write succeeded

vars == <<book, file, saved>>

Init == book = [i \in {} |-> Default] /\ file = book /\ saved = TRUE

Write(b) ==
    /\ book' = b
    /\ saved' \in BOOLEAN
    /\ file' = IF saved' THEN b ELSE file

\* A token, and one that nobody has yet.
Unused(t) == t # NoToken /\ \A i \in DOMAIN book : book[i].token # t

Enter(id, t) ==
    /\ id \notin DOMAIN book
    /\ t = NoToken \/ Unused(t)
    /\ Write([i \in DOMAIN book \cup {id} |->
                 IF i = id THEN [settings |-> Default, token |-> t] ELSE book[i]])

Remove(id) == Write([i \in DOMAIN book \ {id} |-> book[i]])

Change(id, v) ==
    /\ id \in DOMAIN book
    /\ Write([book EXCEPT ![id] = [settings |-> v, token |-> book[id].token]])

Renew(id, t) ==
    /\ id \in DOMAIN book
    /\ Unused(t)
    /\ Write([book EXCEPT ![id] = [settings |-> book[id].settings, token |-> t]])

\* Something else of an entry has changed, such as its status.
Resave == Write(book)

\* The process starts again from its file.
Recover == book' = file /\ saved' = TRUE /\ UNCHANGED file

Next ==
    \/ \E id \in Id :
           \/ \E t \in Token : Enter(id, t) \/ Renew(id, t)
           \/ \E v \in Setting : Change(id, v)
           \/ Remove(id)
    \/ Resave
    \/ Recover

Spec == Init /\ [][Next]_vars
=============================================================================
