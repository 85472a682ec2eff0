----------------------------- MODULE ProxyPool ------------------------------
(***************************************************************************)
(* The pool of outbound proxies (internal/outbound/pool.go and health.go): *)
(* how a proxy is picked, set aside after an error of its own and tried    *)
(* again, and how a request moves on to another one.                       *)
(*                                                                         *)
(* How long a proxy is set aside is left open; the clock frees it at some  *)
(* time.  The pool is the one of RuntimeSettings between two changes: a    *)
(* changed list is a new pool, to which no request in flight belongs.      *)
(***************************************************************************)
EXTENDS Naturals, Sequences

CONSTANTS
  Senders, \* requests and dials that use the pool at the same time
  Entries, \* the proxies of the pool, in the order of the list
  MaxTries \* replays of one request (3 in the code)

ASSUME PoolAssumption == MaxTries \in Nat /\ Entries \in Seq(STRING) \ {<<>>}

VARIABLES
  next,    \* the place from which the next pick looks
  cooling, \* places of the proxies set aside
  sender,  \* what every user of the pool is doing
  passed   \* for every place, the picks that passed it while it was ready

proxyVars == <<next, cooling, sender, passed>>

Place == DOMAIN Entries
Size == Len(Entries)
NoSender == [at |-> "idle"]

ProxyPoolInit ==
  /\ next = 1 /\ cooling = {}
  /\ sender = [s \in Senders |-> NoSender]
  /\ passed = [p \in Place |-> 0]

\* The place that many after this one, round the list.
After(p, many) == ((p - 1 + many) % Size) + 1
-----------------------------------------------------------------------------
Ready(many) == After(next, many) \notin cooling

\* Variant: the pick after a detour begins where the detour did.
FirstReadyStays ==
  IF \E many \in 0 .. Size - 1 : Ready(many)
  THEN LET detour == CHOOSE many \in 0 .. Size - 1 : Ready(many) /\ \A less \in 0 .. many - 1 : ~Ready(less)
       IN  <<After(next, detour), IF detour = 0 THEN After(next, 1) ELSE next>>
  ELSE <<next, After(next, 1)>>

\* The first that is ready, looking once round; when none is, the next of all.  With
\* it the place at which the next pick begins.
FirstReady ==
  IF \E many \in 0 .. Size - 1 : Ready(many)
  THEN LET detour == CHOOSE many \in 0 .. Size - 1 : Ready(many) /\ \A less \in 0 .. many - 1 : ~Ready(less)
       IN  <<After(next, detour), After(next, detour + 1)>>
  ELSE <<next, After(next, 1)>>

Picked(p) ==
  passed' = [q \in Place |-> IF q = p \/ q \in cooling THEN 0 ELSE passed[q] + 1]

\* What a result says of a proxy: it is ready again after any success, set aside
\* after an error of its own, and as it was after an error of the target.
Marked(p, result) ==
  CASE result = "ok" -> cooling \ {p}
    [] result = "proxyError" -> cooling \union {p}
    [] result = "targetError" -> cooling

-----------------------------------------------------------------------------
Set(s, state) == sender' = [sender EXCEPT ![s] = state]

\* HTTPClient, with the round trip that follows; a request has no body, one that can
\* be had again, or one that cannot.
SendHTTP(s) ==
  LET p == FirstReady[1]
  IN  /\ sender[s] = NoSender
      /\ next' = FirstReady[2] /\ Picked(p)
      /\ \E body \in {"none", "again", "once"} :
           Set(s, [at |-> "sent", on |-> p, first |-> p, body |-> body, tries |-> 0])
      /\ UNCHANGED cooling

\* WebSocketDialer, which a turn uses for one dial.
DialWebSocket(s) ==
  LET p == FirstReady[1]
  IN  /\ sender[s] = NoSender
      /\ next' = FirstReady[2] /\ Picked(p)
      /\ Set(s, [at |-> "sent", on |-> p, first |-> p, body |-> "once", tries |-> 0])
      /\ UNCHANGED cooling

\* One more than there are proxies, and not more than the bound.
Replays == IF Size + 1 < MaxTries THEN Size + 1 ELSE MaxTries

RoundTrip(s, result) ==
  /\ sender[s].at = "sent"
  /\ cooling' = Marked(sender[s].on, result)
  /\ IF result # "ok" /\ sender[s].body # "once" /\ sender[s].tries < Replays
     THEN Set(s, [sender[s] EXCEPT !.at = "failed", !.tries = @ + 1])
     ELSE Set(s, NoSender)
  /\ UNCHANGED <<next, passed>>

\* The next try, unless the pick comes back to the first proxy.  For a request without
\* a body the pick is made and the handler then panics (pool.go:245).
Replay(s) ==
  LET p == FirstReady[1]
  IN  /\ sender[s].at = "failed"
      /\ next' = FirstReady[2] /\ Picked(p)
      /\ Set(s, IF p = sender[s].first \/ sender[s].body = "none"
                THEN NoSender ELSE [sender[s] EXCEPT !.at = "sent", !.on = p])
      /\ UNCHANGED cooling

\* CheckAll, which the administrator asks for, tries a proxy as a request does.
Check(p, result) ==
  /\ cooling' = Marked(p, result)
  /\ UNCHANGED <<next, sender, passed>>

\* The clock passes the end of a cooldown.
Warms(p) ==
  /\ p \in cooling
  /\ cooling' = cooling \ {p}
  /\ UNCHANGED <<next, sender, passed>>
-----------------------------------------------------------------------------
ProxyPoolNext ==
  \/ \E s \in Senders : SendHTTP(s) \/ DialWebSocket(s) \/ Replay(s)
  \/ \E result \in {"ok", "proxyError", "targetError"} :
       \/ \E s \in Senders : RoundTrip(s, result)
       \/ \E p \in Place : Check(p, result)
  \/ \E p \in Place : Warms(p)

ProxyPoolSpec == ProxyPoolInit /\ [][ProxyPoolNext]_proxyVars
-----------------------------------------------------------------------------
ProxyPoolTypeOK ==
  /\ next \in Place /\ cooling \subseteq Place /\ passed \in [Place -> 0 .. Size]
  /\ \A s \in Senders :
       sender[s] = NoSender \/ /\ sender[s].on \in Place /\ sender[s].first \in Place
                               /\ sender[s].tries <= Replays

\* No proxy that is ready is passed by as many picks as there are proxies, whoever
\* picks, replays, fails or checks meanwhile: the load goes round though others are
\* set aside and come back at any time.
RotationFair == \A p \in Place \ cooling : passed[p] < Size
=============================================================================
