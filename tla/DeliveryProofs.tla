--------------------------- MODULE DeliveryProofs ---------------------------
(***************************************************************************)
(* Theorems about the parts that carry requests and answers: the rotation  *)
(* of the proxies (ProxyPool), the pool of connections to ChatHub          *)
(* (ConnPool), the streamed and stored answers (Responses), one request    *)
(* for an answer (Completion) and one turn of the ChatHub client           *)
(* (ChatTurn), for any number of proxies, connections, requests,           *)
(* responses, accounts, frames and words.                                  *)
(*                                                                         *)
(* A fact needed in most of them is that a set of numbers that is not      *)
(* empty has a least one: the first ready place a pick finds, the first    *)
(* connection a request takes, the oldest answer that is evicted, what is  *)
(* missing from the longest beginning two texts have in common.            *)
(***************************************************************************)
EXTENDS ProxyPool, ConnPool, Responses, Completion, ChatTurn,
        SequenceTheorems, FiniteSetTheorems, WellFoundedInduction, TLAPS

\* A set of numbers that is not empty has a least one.
LEMMA Smallest ==
  ASSUME NEW S \in SUBSET Nat, S # {}
  PROVE  \E m \in S : \A k \in S : m <= k
<1>. DEFINE R == {ss \in Nat \X Nat : ss[1] < ss[2]}
<1>1. IsWellFoundedOn(R, Nat)
  BY NatLessThanWellFounded DEF OpToRel
<1>2. \A x, y \in Nat : <<y, x>> \in R <=> y < x
  OBVIOUS
<1>. HIDE DEF R
<1>3. PICK m \in S : \A y \in S : ~ (<<y, m>> \in R)
  BY <1>1, WFMin, Zenon
<1>4. ASSUME NEW k \in S PROVE m <= k
  <2>1. m \in Nat /\ k \in Nat
    OBVIOUS
  <2>2. ~(k < m)
    BY <1>2, <1>3, <2>1
  <2>. QED
    BY <2>1, <2>2
<1>. QED
  BY <1>4
-----------------------------------------------------------------------------
\* How many places lie before p, from the one at which the next pick begins.
Distance(p) == IF p >= next THEN p - next ELSE p - next + Size

\* The strengthening of RotationFair: what a place has been passed by leaves room
\* for the places that lie before it.
RoomAhead == \A p \in Place : passed[p] + Distance(p) < Size

Sending == [at : {"sent", "failed"}, on : Place, first : Place,
            body : {"none", "again", "once"}, tries : 0 .. Replays]

ProxyPoolInv ==
  /\ next \in Place /\ cooling \subseteq Place /\ passed \in [Place -> Nat]
  /\ sender \in [Senders -> Sending \cup {NoSender}]
  /\ RoomAhead

\* The places are the numbers to Size, of which there is one.
LEMMA PlaceIs == Size \in Nat \ {0} /\ Place = 1 .. Size
BY PoolAssumption DEF Size, Place

\* The remainder of a number that is less than two rounds.
LEMMA OneRound ==
  ASSUME NEW n \in Nat \ {0}, NEW a \in Nat, a < 2 * n
  PROVE  a % n = IF a < n THEN a ELSE a - n
<1>1. CASE a < n
  BY <1>1
<1>2. CASE a >= n
  BY <1>2
<1>. QED
  BY <1>1, <1>2

\* The place after some, at most a round of them.
LEMMA AfterIs ==
  ASSUME NEW p \in Place, NEW many \in 0 .. Size
  PROVE  /\ After(p, many) \in Place
         /\ After(p, many) = IF p + many <= Size THEN p + many ELSE p + many - Size
<1>. DEFINE a == p - 1 + many
<1>1. a \in Nat /\ a < 2 * Size /\ Size \in Nat \ {0}
  BY PlaceIs
<1>2. a % Size = IF a < Size THEN a ELSE a - Size
  <2>. HIDE DEF a
  <2>. QED
    BY <1>1, OneRound
<1>. QED
  BY <1>1, <1>2, PlaceIs DEF After

\* The place at that distance is the place itself.
LEMMA DistanceLeads ==
  ASSUME next \in Place, NEW p \in Place
  PROVE  Distance(p) \in 0 .. Size - 1 /\ After(next, Distance(p)) = p
<1>0. Size \in Nat \ {0} /\ Place = 1 .. Size
  BY PlaceIs
<1>1. Distance(p) \in 0 .. Size - 1 /\ Distance(p) \in 0 .. Size
  BY <1>0 DEF Distance
<1>2. After(next, Distance(p)) = IF next + Distance(p) <= Size THEN next + Distance(p)
                                 ELSE next + Distance(p) - Size
  BY <1>1, AfterIs, Zenon
<1>. QED
  BY <1>0, <1>1, <1>2 DEF Distance

\* The pick takes the first ready place from next on, and the next pick begins
\* behind it; if no place is ready, the pick takes next itself.
LEMMA FirstReadyIs ==
  ASSUME next \in Place
  PROVE  \E detour \in 0 .. Size - 1 :
           /\ FirstReady = <<After(next, detour), After(next, detour + 1)>>
           /\ \A less \in 0 .. detour - 1 : After(next, less) \in cooling
           /\ After(next, detour) \in cooling => Place \subseteq cooling
<1>0. Size \in Nat \ {0} /\ Place = 1 .. Size
  BY PlaceIs
<1>1. CASE \E many \in 0 .. Size - 1 : Ready(many)
  <2>. DEFINE S == {many \in 0 .. Size - 1 : Ready(many)}
              First == CHOOSE many \in 0 .. Size - 1 :
                         Ready(many) /\ \A less \in 0 .. many - 1 : ~Ready(less)
  <2>1. PICK m \in S : \A k \in S : m <= k
    <3>1. S \in SUBSET Nat /\ S # {}
      BY <1>0, <1>1
    <3>. HIDE DEF S
    <3>. QED
      BY <3>1, Smallest
  <2>2. m \in 0 .. Size - 1 /\ Ready(m)
    OBVIOUS
  <2>3. ASSUME NEW less \in 0 .. m - 1 PROVE ~Ready(less)
    <3>1. less \in 0 .. Size - 1 /\ ~ (m <= less)
      BY <1>0, <2>2
    <3>. QED
      BY <2>1, <3>1
  <2>4. /\ First \in 0 .. Size - 1 /\ Ready(First)
        /\ \A less \in 0 .. First - 1 : ~Ready(less)
    BY <2>2, <2>3
  <2>5. FirstReady = <<After(next, First), After(next, First + 1)>>
    BY <1>1 DEF FirstReady
  <2>. HIDE DEF First
  <2>. QED
    BY <2>4, <2>5 DEF Ready
<1>2. CASE ~ \E many \in 0 .. Size - 1 : Ready(many)
  <2>1. FirstReady = <<next, After(next, 1)>>
    BY <1>2 DEF FirstReady
  <2>2. After(next, 0) = next
    BY <1>0, AfterIs
  <2>3. ASSUME NEW p \in Place PROVE p \in cooling
    <3>1. Distance(p) \in 0 .. Size - 1
      BY DistanceLeads
    <3>2. After(next, Distance(p)) = p
      BY <3>1, DistanceLeads
    <3>. QED
      BY <1>2, <3>1, <3>2 DEF Ready
  <2>. QED
    BY <1>0, <2>1, <2>2, <2>3
<1>. QED
  BY <1>1, <1>2

\* A pick keeps the room of every place: those that are ready and passed by move as
\* many places forward as the pick went, the one it takes goes to the end of the
\* round.
LEMMA PickKeepsRoom ==
  ASSUME ProxyPoolInv, next' = FirstReady[2], Picked(FirstReady[1])
  PROVE  /\ FirstReady[1] \in Place /\ next' \in Place
         /\ passed' \in [Place -> Nat] /\ RoomAhead'
<1>0. next \in Place /\ Size \in Nat \ {0} /\ Place = 1 .. Size /\ passed \in [Place -> Nat]
  BY PlaceIs DEF ProxyPoolInv
<1>1. PICK detour \in 0 .. Size - 1 :
        /\ FirstReady = <<After(next, detour), After(next, detour + 1)>>
        /\ \A less \in 0 .. detour - 1 : After(next, less) \in cooling
        /\ After(next, detour) \in cooling => Place \subseteq cooling
  BY <1>0, FirstReadyIs
<1>2. /\ After(next, detour) \in Place
      /\ After(next, detour) = IF next + detour <= Size THEN next + detour ELSE next + detour - Size
  <2>1. detour \in 0 .. Size
    BY <1>0
  <2>. QED
    BY <1>0, <2>1, AfterIs, Zenon
<1>3. /\ After(next, detour + 1) \in Place
      /\ After(next, detour + 1) = IF next + (detour + 1) <= Size THEN next + (detour + 1)
                                   ELSE next + (detour + 1) - Size
  <2>1. detour + 1 \in 0 .. Size
    BY <1>0
  <2>. QED
    BY <1>0, <2>1, AfterIs, Zenon
<1>4. next' = After(next, detour + 1) /\ FirstReady[1] = After(next, detour)
  BY <1>1
<1>5. passed' \in [Place -> Nat]
  BY <1>0 DEF Picked
<1>6. ASSUME NEW p \in Place PROVE passed'[p] + Distance(p)' < Size
  <2>. DEFINE far == IF p >= next' THEN p - next' ELSE p - next' + Size
  <2>0. Distance(p)' = far /\ far \in 0 .. Size - 1
    BY <1>0, <1>3, <1>4 DEF Distance, Size
  <2>1. CASE p = FirstReady[1] \/ p \in cooling
    <3>1. passed'[p] = 0
      BY <2>1 DEF Picked
    <3>. QED
      BY <1>0, <2>0, <3>1
  <2>2. CASE ~(p = FirstReady[1] \/ p \in cooling)
    <3>1. passed'[p] = passed[p] + 1
      BY <2>2 DEF Picked
    <3>2. Distance(p) \in 0 .. Size - 1 /\ After(next, Distance(p)) = p
      BY <1>0, DistanceLeads
    <3>3. Distance(p) > detour
      <4>1. Distance(p) # detour
        BY <1>4, <2>2, <3>2
      <4>2. ~ (Distance(p) \in 0 .. detour - 1)
        BY <1>1, <2>2, <3>2
      <4>. QED
        BY <3>2, <4>1, <4>2
    <3>4. far <= Distance(p) - 1
      <4>1. next' = IF next + (detour + 1) <= Size THEN next + (detour + 1)
                    ELSE next + (detour + 1) - Size
        BY <1>3, <1>4
      <4>. QED
        BY <1>0, <3>3, <4>1 DEF Distance
    <3>5. passed[p] + Distance(p) < Size /\ passed[p] \in Nat
      BY <1>0 DEF ProxyPoolInv, RoomAhead
    <3>. QED
      BY <1>0, <2>0, <3>1, <3>2, <3>4, <3>5
  <2>. QED
    BY <2>1, <2>2
<1>7. RoomAhead'
  BY <1>6 DEF RoomAhead, Place
<1>. QED
  BY <1>2, <1>3, <1>4, <1>5, <1>7

\* The first state has it.
LEMMA ProxyPoolInitial == ProxyPoolInit => ProxyPoolInv
<1>. SUFFICES ASSUME ProxyPoolInit PROVE ProxyPoolInv
  OBVIOUS
<1>1. next = 1 /\ next \in Place /\ passed = [p \in Place |-> 0]
  BY PlaceIs DEF ProxyPoolInit
<1>2. RoomAhead
  BY <1>1, PlaceIs DEF RoomAhead, Distance
<1>. QED
  BY <1>1, <1>2 DEF ProxyPoolInit, ProxyPoolInv

\* Every step of a sender, of the check and of the clock keeps it.
LEMMA ProxyPoolStep == ProxyPoolInv /\ [ProxyPoolNext]_proxyVars => ProxyPoolInv'
<1>. SUFFICES ASSUME ProxyPoolInv, [ProxyPoolNext]_proxyVars PROVE ProxyPoolInv'
  OBVIOUS
<1>0. Replays \in Nat /\ Place' = Place /\ Sending' = Sending /\ NoSender' = NoSender
  BY PlaceIs, PoolAssumption DEF Replays, Place, Size, Sending, NoSender
\* Only a pick moves next and passes places by.
<1>1. ASSUME UNCHANGED <<next, passed>> PROVE RoomAhead'
  BY <1>1 DEF ProxyPoolInv, RoomAhead, Distance, Place, Size
<1>2. ASSUME NEW s \in Senders, SendHTTP(s) \/ DialWebSocket(s) PROVE ProxyPoolInv'
  <2>1. /\ FirstReady[1] \in Place /\ next' \in Place
        /\ passed' \in [Place -> Nat] /\ RoomAhead'
    BY <1>2, PickKeepsRoom DEF SendHTTP, DialWebSocket
  <2>2. PICK body \in {"none", "again", "once"} : sender' = [sender EXCEPT ![s] =
                       [at |-> "sent", on |-> FirstReady[1], first |-> FirstReady[1],
                        body |-> body, tries |-> 0]]
    BY <1>2 DEF SendHTTP, DialWebSocket, Set
  <2>3. sender' \in [Senders -> Sending \cup {NoSender}]
    BY <1>0, <2>1, <2>2 DEF ProxyPoolInv, Sending
  <2>. QED
    BY <1>0, <1>2, <2>1, <2>3 DEF ProxyPoolInv, SendHTTP, DialWebSocket
<1>3. ASSUME NEW s \in Senders, Replay(s) PROVE ProxyPoolInv'
  <2>1. /\ FirstReady[1] \in Place /\ next' \in Place
        /\ passed' \in [Place -> Nat] /\ RoomAhead'
    BY <1>3, PickKeepsRoom DEF Replay
  <2>2. sender[s].at = "failed" /\ sender[s] # NoSender
    BY <1>3 DEF Replay, NoSender
  <2>3. \/ sender' = [sender EXCEPT ![s] = NoSender]
        \/ sender' = [sender EXCEPT ![s] = [sender[s] EXCEPT !.at = "sent", !.on = FirstReady[1]]]
    BY <1>3 DEF Replay, Set
  <2>4. sender[s] \in Sending
    BY <2>2 DEF ProxyPoolInv
  <2>5. [sender[s] EXCEPT !.at = "sent", !.on = FirstReady[1]] \in Sending
    BY <2>1, <2>4 DEF Sending
  <2>6. sender' \in [Senders -> Sending \cup {NoSender}]
    BY <2>3, <2>5 DEF ProxyPoolInv
  <2>. QED
    BY <1>0, <1>3, <2>1, <2>6 DEF ProxyPoolInv, Replay
<1>4. ASSUME NEW s \in Senders, NEW result \in {"ok", "proxyError", "targetError"},
             RoundTrip(s, result)
      PROVE  ProxyPoolInv'
  <2>0. sender[s].at = "sent"
    BY <1>4 DEF RoundTrip
  <2>1. sender[s] # NoSender
    BY <2>0 DEF NoSender
  <2>2. sender[s] \in Sending /\ sender[s].on \in Place
    BY <2>1 DEF ProxyPoolInv, Sending
  <2>3. \/ sender' = [sender EXCEPT ![s] = NoSender]
        \/ /\ sender[s].tries < Replays
           /\ sender' = [sender EXCEPT ![s] = [sender[s] EXCEPT !.at = "failed",
                                                               !.tries = sender[s].tries + 1]]
    BY <1>4 DEF RoundTrip, Set
  <2>4. UNCHANGED <<next, passed>> /\ RoomAhead'
    BY <1>1, <1>4 DEF RoundTrip
  <2>5. cooling' \subseteq Place
    BY <1>4, <2>2 DEF RoundTrip, Marked, ProxyPoolInv
  <2>6. ASSUME sender[s].tries < Replays
        PROVE  [sender[s] EXCEPT !.at = "failed", !.tries = sender[s].tries + 1] \in Sending
    <3>1. sender[s].tries + 1 \in 0 .. Replays
      BY <1>0, <2>2, <2>6 DEF Sending
    <3>. QED
      BY <2>2, <3>1 DEF Sending
  <2>7. sender' \in [Senders -> Sending \cup {NoSender}]
    BY <2>3, <2>6 DEF ProxyPoolInv
  <2>. QED
    BY <1>0, <2>4, <2>5, <2>7 DEF ProxyPoolInv
<1>5. ASSUME NEW p \in Place, NEW result \in {"ok", "proxyError", "targetError"},
             Check(p, result)
      PROVE  ProxyPoolInv'
  <2>1. cooling' \subseteq Place
    BY <1>5 DEF Check, Marked, ProxyPoolInv
  <2>. QED
    BY <1>0, <1>1, <1>5, <2>1 DEF ProxyPoolInv, Check
<1>6. ASSUME NEW p \in Place, Warms(p) PROVE ProxyPoolInv'
  BY <1>0, <1>1, <1>6 DEF ProxyPoolInv, Warms
<1>7. CASE UNCHANGED proxyVars
  BY <1>0, <1>1, <1>7 DEF ProxyPoolInv, proxyVars
<1>. QED
  BY <1>2, <1>3, <1>4, <1>5, <1>6, <1>7 DEF ProxyPoolNext

\* What the types and the fairness of the rotation follow from.
LEMMA ProxyPoolImplied == ProxyPoolInv => ProxyPoolTypeOK /\ RotationFair
<1>. SUFFICES ASSUME ProxyPoolInv PROVE ProxyPoolTypeOK /\ RotationFair
  OBVIOUS
<1>1. ASSUME NEW p \in Place PROVE passed[p] < Size /\ passed[p] \in 0 .. Size
  <2>1. Distance(p) \in 0 .. Size - 1 /\ Size \in Nat
    BY DistanceLeads, PlaceIs DEF ProxyPoolInv
  <2>. QED
    BY <2>1 DEF ProxyPoolInv, RoomAhead
<1>2. passed \in [Place -> 0 .. Size]
  BY <1>1 DEF ProxyPoolInv
<1>3. Replays \in Nat
  BY PlaceIs, PoolAssumption DEF Replays
<1>4. ASSUME NEW s \in Senders, sender[s] # NoSender
      PROVE  sender[s].on \in Place /\ sender[s].first \in Place /\ sender[s].tries <= Replays
  BY <1>3, <1>4 DEF ProxyPoolInv, Sending
<1>. QED
  BY <1>1, <1>2, <1>4 DEF ProxyPoolInv, ProxyPoolTypeOK, RotationFair

\* What the pool, the senders and the clock know of every proxy, in every state (pool.go).
THEOREM ProxyPoolInvariant == ProxyPoolSpec => []ProxyPoolInv
BY ProxyPoolInitial, ProxyPoolStep, PTL DEF ProxyPoolSpec

\* The pool of proxies keeps its types.
THEOREM ProxyPoolTypeCorrect == ProxyPoolSpec => []ProxyPoolTypeOK
BY ProxyPoolInvariant, ProxyPoolImplied, PTL

\* However requests, replays, dials, checks and the clock interleave, no ready proxy
\* is passed by a whole round of picks (pool.go:59).
THEOREM RotationFairCorrect == ProxyPoolSpec => []RotationFair
BY ProxyPoolInvariant, ProxyPoolImplied, PTL
-----------------------------------------------------------------------------
ConnState ==
  [socket : {"ok", "broken", "closed"}, old : BOOLEAN, taken : BOOLEAN,
   reader : {"none", "read", "put", "evict", "close", "gone"},
   frames : {"nil", "open", "closed"}, waiting : Nat, error : BOOLEAN]

\* A connection with a reader has its channels, and a reader that goes closes them.
Sound(conn) ==
  /\ conn.reader # "none" => conn.frames # "nil"
  /\ conn.reader = "gone" => conn.frames = "closed"

Dialled == 1 .. Len(conns)

ConnPoolTyped ==
  /\ conns \in Seq(ConnState) /\ Len(conns) <= MaxDialled
  /\ pooled \subseteq Dialled /\ IsFiniteSet(pooled) /\ Cardinality(pooled) <= MaxPerKey
  /\ shut \in BOOLEAN /\ collector \subseteq Dialled
  /\ taker \in [Takers -> [at : {"idle", "pick", "mark", "use"}, conn : Dialled \cup {NoConnection},
                           stale : SUBSET Dialled, frames : {"nil", "open", "closed"}]]
  /\ warmer \in [Warmers -> [at : {"idle", "dial", "park"}, conn : Dialled \cup {NoConnection}]]

Parking == \A w \in Warmers : warmer[w].at = "park" => warmer[w].conn # NoConnection

\* A request that has a connection is the only one to have it, and what is listed
\* is not about to be closed.
Owned ==
  /\ pooled \cap collector = {}
  /\ \A t \in Takers :
       /\ taker[t].at \in {"idle", "pick"} => taker[t].conn = NoConnection
       /\ taker[t].at = "use" => taker[t].conn # NoConnection
       /\ taker[t].conn # NoConnection =>
            /\ taker[t].conn \notin pooled \cup collector
            /\ \A u \in Takers \ {t} : taker[u].conn # taker[t].conn

PoolInv == ConnPoolTyped /\ Parking /\ (\A c \in Dialled : Sound(conns[c])) /\ Owned

\* The bounds are numbers, and those that must be are positive.
LEMMA PoolBounds == MaxPerKey \in Nat \ {0} /\ FrameRoom \in Nat \ {0} /\ MaxDialled \in Nat
BY ConnPoolAssumption

\* The connections, as a function.
LEMMA ConnsAre ==
  ASSUME NEW s \in Seq(ConnState)
  PROVE  /\ Len(s) \in Nat /\ DOMAIN s = 1 .. Len(s) /\ s \in [1 .. Len(s) -> ConnState]
         /\ \A f \in [1 .. Len(s) -> ConnState] : f \in Seq(ConnState) /\ Len(f) = Len(s)
OBVIOUS

\* Connections change, and none is added.
LEMMA ConnsChange ==
  ASSUME PoolInv, NEW f \in [Dialled -> ConnState], conns' = f, \A c \in Dialled : Sound(f[c])
  PROVE  /\ conns' \in Seq(ConnState) /\ Len(conns') = Len(conns) /\ Dialled' = Dialled
         /\ \A c \in Dialled' : Sound(conns'[c])
<1>1. conns \in Seq(ConnState)
  BY DEF PoolInv, ConnPoolTyped
<1>2. conns' \in Seq(ConnState) /\ Len(conns') = Len(conns)
  BY <1>1, ConnsAre DEF Dialled
<1>3. Dialled' = Dialled
  BY <1>2 DEF Dialled
<1>. QED
  BY <1>2, <1>3

\* A step that touches the connections only.
LEMMA OnlyConns ==
  ASSUME PoolInv, NEW f \in [Dialled -> ConnState], conns' = f, \A c \in Dialled : Sound(f[c]),
         UNCHANGED <<pooled, shut, taker, warmer, collector>>
  PROVE  PoolInv'
<1>1. /\ conns' \in Seq(ConnState) /\ Len(conns') = Len(conns) /\ Dialled' = Dialled
      /\ \A c \in Dialled' : Sound(conns'[c])
  BY ConnsChange
<1>2. ConnPoolTyped' /\ Parking' /\ Owned'
  BY <1>1 DEF PoolInv, ConnPoolTyped, Parking, Owned
<1>. QED
  BY <1>1, <1>2 DEF PoolInv

\* One connection changes.
LEMMA SetsConn ==
  ASSUME PoolInv, NEW c \in Dialled, NEW conn \in ConnState, Sound(conn), SetConn(c, conn)
  PROVE  PoolInv'
<1>. DEFINE f == [conns EXCEPT ![c] = conn]
<1>1. conns \in [Dialled -> ConnState]
  BY ConnsAre DEF PoolInv, ConnPoolTyped, Dialled
<1>2. f \in [Dialled -> ConnState] /\ \A d \in Dialled : Sound(f[d])
  BY <1>1 DEF PoolInv
<1>. QED
  BY <1>2, OnlyConns DEF SetConn

\* Every connection is sound, and so is what becomes of it.
LEMMA ConnIs ==
  ASSUME PoolInv, NEW c \in Dialled
  PROVE  conns[c] \in ConnState /\ Sound(conns[c])
BY ConnsAre DEF PoolInv, ConnPoolTyped, Dialled

\* What happens to one connection keeps it sound.
LEMMA Changes ==
  ASSUME NEW conn \in ConnState, Sound(conn)
  PROVE  /\ Closed(conn) \in ConnState /\ Sound(Closed(conn)) /\ Closed(conn).reader = conn.reader
         /\ conn.reader # "none" => Closed(conn).frames = "closed"
         /\ Dropped(conn) \in ConnState /\ Sound(Dropped(conn)) /\ Dropped(conn).reader = conn.reader
         /\ conn.reader # "none" => Dropped(conn).frames = "closed"
         /\ \A v \in {"ok", "broken", "closed"} :
              [conn EXCEPT !.socket = v] \in ConnState /\ Sound([conn EXCEPT !.socket = v])
         /\ [conn EXCEPT !.taken = TRUE] \in ConnState /\ Sound([conn EXCEPT !.taken = TRUE])
         /\ [conn EXCEPT !.old = TRUE] \in ConnState /\ Sound([conn EXCEPT !.old = TRUE])
         /\ \A n \in Nat : [conn EXCEPT !.waiting = n] \in ConnState /\ Sound([conn EXCEPT !.waiting = n])
<1>1. /\ Closed(conn) \in ConnState /\ Closed(conn).reader = conn.reader
      /\ conn.frames # "nil" => Closed(conn).frames = "closed"
      /\ conn.frames = "nil" => Closed(conn).frames = "nil"
  BY DEF ConnState, Closed
<1>2. /\ Dropped(conn) \in ConnState /\ Dropped(conn).reader = Closed(conn).reader
      /\ Dropped(conn).frames = Closed(conn).frames
  BY <1>1 DEF ConnState, Dropped
<1>3. /\ \A v \in {"ok", "broken", "closed"} :
           [conn EXCEPT !.socket = v] \in ConnState /\ Sound([conn EXCEPT !.socket = v])
  BY DEF ConnState, Sound
<1>4. [conn EXCEPT !.taken = TRUE] \in ConnState /\ Sound([conn EXCEPT !.taken = TRUE])
  BY DEF ConnState, Sound
<1>5. [conn EXCEPT !.old = TRUE] \in ConnState /\ Sound([conn EXCEPT !.old = TRUE])
  BY DEF ConnState, Sound
<1>6. \A n \in Nat : [conn EXCEPT !.waiting = n] \in ConnState /\ Sound([conn EXCEPT !.waiting = n])
  BY DEF ConnState, Sound
<1>7. /\ Sound(Closed(conn)) /\ Sound(Dropped(conn))
      /\ conn.reader # "none" => Closed(conn).frames = "closed"
      /\ conn.reader # "none" => Dropped(conn).frames = "closed"
  BY <1>1, <1>2 DEF Sound
<1>. QED
  BY <1>1, <1>2, <1>3, <1>4, <1>5, <1>6, <1>7

\* What a warming goroutine does.
LEMMA PoolWarmed ==
  ASSUME PoolInv, NEW w \in Warmers, WarmLooks(w) \/ WarmFails(w) \/ WarmLists(w) \/ StartPark(w)
  PROVE  PoolInv'
<1>. DEFINE WarmerState == [at : {"idle", "dial", "park"}, conn : Dialled \cup {NoConnection}]
            n == Len(conns) + 1
<1>0. /\ warmer \in [Warmers -> WarmerState] /\ warmer[w] \in WarmerState
      /\ conns \in Seq(ConnState) /\ Len(conns) \in Nat
  BY ConnsAre DEF PoolInv, ConnPoolTyped
<1>1. ASSUME NEW at \in {"idle", "dial"}, warmer' = [warmer EXCEPT ![w].at = at],
             UNCHANGED <<conns, pooled, shut, taker, collector>>
      PROVE  PoolInv'
  <2>1. [warmer[w] EXCEPT !.at = at] \in WarmerState
    BY <1>0
  <2>2. warmer' = [warmer EXCEPT ![w] = [warmer[w] EXCEPT !.at = at]]
    BY <1>1
  <2>3. warmer' \in [Warmers -> WarmerState]
    BY <1>0, <2>1, <2>2
  <2>4. ConnPoolTyped'
    BY <1>1, <2>3 DEF PoolInv, ConnPoolTyped, Dialled
  <2>5. Parking'
    BY <1>0, <1>1 DEF PoolInv, Parking
  <2>6. Owned' /\ \A c \in Dialled' : Sound(conns'[c])
    BY <1>1 DEF PoolInv, Owned, Dialled
  <2>. QED
    BY <2>4, <2>5, <2>6 DEF PoolInv
<1>2. CASE WarmLooks(w)
  BY <1>1, <1>2 DEF WarmLooks
<1>3. CASE WarmFails(w)
  BY <1>1, <1>3 DEF WarmFails
<1>4. CASE WarmLists(w)
  <2>1. CASE ~RoomLeft
    BY <1>1, <1>4, <2>1 DEF WarmLists
  <2>2. CASE RoomLeft
    <3>1. /\ conns' = Append(conns, NewConn) /\ pooled' = pooled \cup {n}
          /\ warmer' = [warmer EXCEPT ![w] = [at |-> "park", conn |-> n]]
          /\ UNCHANGED <<shut, taker, collector>> /\ Len(conns) < MaxDialled
          /\ Cardinality(pooled) < MaxPerKey
      BY <1>4, <2>2 DEF WarmLists, RoomLeft
    <3>2. NewConn \in ConnState /\ Sound(NewConn)
      BY DEF NewConn, ConnState, Sound
    <3>3. /\ conns' \in Seq(ConnState) /\ Len(conns') = n
          /\ \A c \in Dialled : conns'[c] = conns[c]
          /\ conns'[n] = NewConn
      BY <1>0, <3>1, <3>2 DEF Dialled
    <3>4. n \in Nat /\ n # NoConnection /\ Dialled' = Dialled \cup {n} /\ n \notin Dialled /\ n <= MaxDialled
      BY <1>0, <3>1, <3>3, PoolBounds DEF Dialled, NoConnection
    <3>. HIDE DEF n
    <3>5. /\ IsFiniteSet(pooled') /\ Cardinality(pooled') <= MaxPerKey
      <4>1. IsFiniteSet(pooled) /\ Cardinality(pooled) \in Nat /\ n \notin pooled
        BY <3>4, FS_CardinalityType DEF PoolInv, ConnPoolTyped
      <4>2. IsFiniteSet(pooled \cup {n}) /\ Cardinality(pooled \cup {n}) = Cardinality(pooled) + 1
        BY <4>1, FS_AddElement
      <4>. QED
        BY <3>1, <4>1, <4>2, PoolBounds
    <3>6. warmer' \in [Warmers -> [at : {"idle", "dial", "park"}, conn : Dialled' \cup {NoConnection}]]
      <4>1. [at |-> "park", conn |-> n] \in [at : {"idle", "dial", "park"}, conn : Dialled' \cup {NoConnection}]
        BY <3>4
      <4>2. warmer \in [Warmers -> [at : {"idle", "dial", "park"}, conn : Dialled' \cup {NoConnection}]]
        BY <1>0, <3>4
      <4>. QED
        BY <3>1, <4>1, <4>2
    <3>7. taker' \in [Takers -> [at : {"idle", "pick", "mark", "use"}, conn : Dialled' \cup {NoConnection},
                                 stale : SUBSET Dialled', frames : {"nil", "open", "closed"}]]
      <4>1. taker \in [Takers -> [at : {"idle", "pick", "mark", "use"}, conn : Dialled \cup {NoConnection},
                                  stale : SUBSET Dialled, frames : {"nil", "open", "closed"}]]
        BY DEF PoolInv, ConnPoolTyped
      <4>2. Dialled \cup {NoConnection} \subseteq Dialled' \cup {NoConnection} /\ SUBSET Dialled \subseteq SUBSET Dialled'
        BY <3>4
      <4>. QED
        BY <3>1, <4>1, <4>2
    <3>8. ConnPoolTyped'
      BY <3>1, <3>3, <3>4, <3>5, <3>6, <3>7 DEF PoolInv, ConnPoolTyped
    <3>9. Parking'
      BY <1>0, <3>1, <3>4 DEF PoolInv, Parking
    <3>10. \A c \in Dialled' : Sound(conns'[c])
      BY <3>2, <3>3, <3>4 DEF PoolInv
    <3>11. Owned'
      <4>1. \A t \in Takers : taker[t].conn # n
        BY <3>4 DEF PoolInv, ConnPoolTyped
      <4>2. n \notin collector
        BY <3>4 DEF PoolInv, ConnPoolTyped
      <4>. QED
        BY <3>1, <4>1, <4>2 DEF PoolInv, Owned
    <3>. QED
      BY <3>8, <3>9, <3>10, <3>11 DEF PoolInv
  <2>. QED
    BY <2>1, <2>2
<1>5. CASE StartPark(w)
  <2>. DEFINE c == warmer[w].conn
              r == [conns[c] EXCEPT !.frames = "open", !.reader = "read"]
              f == [conns EXCEPT ![c] = r]
  <2>1. /\ warmer[w].at = "park" /\ conns' = f
        /\ warmer' = [warmer EXCEPT ![w] = [at |-> "idle", conn |-> NoConnection]]
        /\ UNCHANGED <<pooled, shut, taker, collector>>
    BY <1>5 DEF StartPark
  <2>2. c \in Dialled
    BY <1>0, <2>1 DEF PoolInv, Parking
  <2>. HIDE DEF c
  <2>3. conns[c] \in ConnState
    BY <2>2, ConnIs
  <2>4. r \in ConnState /\ Sound(r)
    BY <2>3 DEF ConnState, Sound
  <2>. HIDE DEF r
  <2>5. f \in [Dialled -> ConnState] /\ \A d \in Dialled : Sound(f[d])
    <3>1. conns \in [Dialled -> ConnState]
      BY ConnsAre DEF PoolInv, ConnPoolTyped, Dialled
    <3>. QED
      BY <2>2, <2>4, <3>1 DEF PoolInv
  <2>. HIDE DEF f
  <2>6. /\ conns' \in Seq(ConnState) /\ Len(conns') = Len(conns) /\ Dialled' = Dialled
        /\ \A d \in Dialled' : Sound(conns'[d])
    BY <2>1, <2>5, ConnsChange
  <2>7. warmer' \in [Warmers -> WarmerState]
    BY <1>0, <2>1
  <2>8. ConnPoolTyped'
    BY <2>1, <2>6, <2>7 DEF PoolInv, ConnPoolTyped
  <2>9. Parking' /\ Owned'
    BY <1>0, <2>1 DEF PoolInv, Parking, Owned
  <2>. QED
    BY <2>6, <2>8, <2>9 DEF PoolInv
<1>. QED
  BY <1>2, <1>3, <1>4, <1>5

TakerState ==
  [at : {"idle", "pick", "mark", "use"}, conn : Dialled \cup {NoConnection},
   stale : SUBSET Dialled, frames : {"nil", "open", "closed"}]

\* A request goes on; what it has, it has had before or takes out of the list.
LEMMA TakerGoes ==
  ASSUME PoolInv, NEW t \in Takers, NEW r \in TakerState, taker' = [taker EXCEPT ![t] = r],
         UNCHANGED <<shut, warmer, collector>>,
         NEW f \in [Dialled -> ConnState], conns' = f, \A c \in Dialled : Sound(f[c]),
         pooled' \subseteq pooled,
         r.at \in {"idle", "pick"} => r.conn = NoConnection,
         r.at = "use" => r.conn # NoConnection,
         \/ r.conn = NoConnection
         \/ r.conn = taker[t].conn
         \/ r.conn \in pooled \ pooled' /\ r.conn \notin collector
  PROVE  PoolInv'
<1>1. /\ conns' \in Seq(ConnState) /\ Len(conns') = Len(conns) /\ Dialled' = Dialled
      /\ \A c \in Dialled' : Sound(conns'[c])
  BY ConnsChange
<1>2. taker \in [Takers -> TakerState] /\ taker' \in [Takers -> TakerState]
  BY DEF PoolInv, ConnPoolTyped, TakerState
<1>3. IsFiniteSet(pooled') /\ Cardinality(pooled') <= MaxPerKey
  <2>1. IsFiniteSet(pooled) /\ Cardinality(pooled) \in Nat /\ Cardinality(pooled) <= MaxPerKey
    BY FS_CardinalityType DEF PoolInv, ConnPoolTyped
  <2>2. IsFiniteSet(pooled') /\ Cardinality(pooled') <= Cardinality(pooled) /\ Cardinality(pooled') \in Nat
    BY <2>1, FS_Subset, FS_CardinalityType
  <2>. QED
    BY <2>1, <2>2, PoolBounds
<1>4. ConnPoolTyped'
  BY <1>1, <1>2, <1>3 DEF PoolInv, ConnPoolTyped, TakerState
<1>5. Parking'
  BY DEF PoolInv, Parking
<1>6. Owned'
  <2>0. pooled' \cap collector' = {}
    BY DEF PoolInv, Owned
  <2>. SUFFICES ASSUME NEW u \in Takers
                PROVE  /\ taker'[u].at \in {"idle", "pick"} => taker'[u].conn = NoConnection
                       /\ taker'[u].at = "use" => taker'[u].conn # NoConnection
                       /\ taker'[u].conn # NoConnection =>
                            /\ taker'[u].conn \notin pooled' \cup collector
                            /\ \A v \in Takers \ {u} : taker'[v].conn # taker'[u].conn
    BY <2>0 DEF Owned
  <2>1. /\ taker'[t] = r /\ \A v \in Takers \ {t} : taker'[v] = taker[v]
    BY <1>2
  <2>2. CASE u = t
    BY <2>1, <2>2 DEF PoolInv, Owned
  <2>3. CASE u # t
    BY <2>1, <2>3 DEF PoolInv, Owned
  <2>. QED
    BY <2>2, <2>3
<1>. QED
  BY <1>1, <1>4, <1>5, <1>6 DEF PoolInv

\* What a request does.
LEMMA Takes ==
  ASSUME PoolInv, NEW t \in Takers,
         TakeLooks(t) \/ TakePicks(t) \/ TakeMarks(t) \/ TakeFrame(t) \/ EndUse(t)
  PROVE  PoolInv'
<1>0. taker \in [Takers -> TakerState] /\ taker[t] \in TakerState
  BY DEF PoolInv, ConnPoolTyped, TakerState
<1>1. conns \in [Dialled -> ConnState] /\ \A c \in Dialled : Sound(conns[c])
  BY ConnsAre DEF PoolInv, ConnPoolTyped, Dialled
<1>1a. /\ taker[t].at \in {"idle", "pick"} => taker[t].conn = NoConnection
       /\ taker[t].at = "use" => taker[t].conn # NoConnection
  BY DEF PoolInv, Owned
<1>2. CASE TakeLooks(t)
  <2>. DEFINE r == [taker[t] EXCEPT !.at = "pick"]
  <2>1. taker' = [taker EXCEPT ![t] = r] /\ taker[t].at = "idle"
        /\ UNCHANGED <<conns, pooled, shut, warmer, collector>>
    BY <1>0, <1>2 DEF TakeLooks
  <2>2. r \in TakerState /\ r.at = "pick" /\ r.conn = taker[t].conn
    BY <1>0 DEF TakerState
  <2>. HIDE DEF r
  <2>. QED
    BY <1>1, <1>1a, <2>1, <2>2, TakerGoes
<1>3. CASE TakePicks(t)
  <2>. DEFINE young == {c \in pooled : ~conns[c].old}
              pick  == IF young = {} THEN NoConnection ELSE CHOOSE c \in young : \A d \in young : c <= d
              stale == {c \in pooled : conns[c].old}
              r == [taker[t] EXCEPT !.at = "mark", !.conn = pick, !.stale = stale]
  <2>1. /\ taker' = [taker EXCEPT ![t] = r] /\ taker[t].at = "pick"
        /\ pooled' = pooled \ (stale \cup {pick})
        /\ UNCHANGED <<conns, shut, warmer, collector>>
    BY <1>0, <1>3 DEF TakePicks
  <2>2. pooled \subseteq Dialled /\ pooled \subseteq Nat
    BY DEF PoolInv, ConnPoolTyped, Dialled
  <2>3. pick = NoConnection \/ pick \in young
    <3>1. CASE young = {}
      BY <3>1
    <3>2. CASE young # {}
      <4>1. \E c \in young : \A d \in young : c <= d
        BY <2>2, <3>2, Smallest
      <4>. QED
        BY <3>2, <4>1
    <3>. QED
      BY <3>1, <3>2
  <2>4. pick = NoConnection \/ (pick \in pooled /\ pick \in Dialled)
    BY <2>2, <2>3
  <2>5. stale \subseteq Dialled /\ pooled' \subseteq pooled
    BY <2>1, <2>2
  <2>. HIDE DEF young, pick, stale
  <2>6. r \in TakerState /\ r.at = "mark" /\ r.conn = pick
    BY <1>0, <2>4, <2>5 DEF TakerState
  <2>. HIDE DEF r
  <2>7. \A c \in pooled : c \notin collector
    BY DEF PoolInv, Owned
  <2>. QED
    BY <1>1, <2>1, <2>4, <2>5, <2>6, <2>7, TakerGoes
<1>4. CASE TakeMarks(t)
  <2>. DEFINE o == taker[t]
              f == [c \in DOMAIN conns |->
                      CASE c \in o.stale -> [conns[c] EXCEPT !.taken = TRUE, !.socket = "closed"]
                        [] c = o.conn    -> [conns[c] EXCEPT !.taken = TRUE]
                        [] OTHER         -> conns[c]]
              r == IF o.conn = NoConnection THEN [o EXCEPT !.at = "idle", !.stale = {}]
                   ELSE [o EXCEPT !.at = "use", !.stale = {}, !.frames = conns[o.conn].frames]
  <2>1. /\ taker' = [taker EXCEPT ![t] = r] /\ conns' = f
        /\ UNCHANGED <<pooled, shut, warmer, collector>>
    BY <1>0, <1>4 DEF TakeMarks
  <2>2. f \in [Dialled -> ConnState] /\ \A c \in Dialled : Sound(f[c])
    <3>0. DOMAIN conns = Dialled
      BY <1>1
    <3>1. ASSUME NEW c \in Dialled PROVE f[c] \in ConnState /\ Sound(f[c])
      <4>1. conns[c] \in ConnState /\ Sound(conns[c])
        BY <1>1
      <4>2. /\ [conns[c] EXCEPT !.taken = TRUE] \in ConnState /\ Sound([conns[c] EXCEPT !.taken = TRUE])
        BY <4>1, Changes
      <4>3. /\ [conns[c] EXCEPT !.taken = TRUE, !.socket = "closed"] \in ConnState
            /\ Sound([conns[c] EXCEPT !.taken = TRUE, !.socket = "closed"])
        BY <4>1 DEF ConnState, Sound
      <4>4. \/ f[c] = [conns[c] EXCEPT !.taken = TRUE, !.socket = "closed"]
            \/ f[c] = [conns[c] EXCEPT !.taken = TRUE]
            \/ f[c] = conns[c]
        BY <3>0
      <4>. HIDE DEF f
      <4>. QED
        BY <4>1, <4>2, <4>3, <4>4
    <3>. QED
      BY <3>0, <3>1
  <2>. HIDE DEF f
  <2>3. r \in TakerState /\ r.conn = o.conn /\ r.at \in {"idle", "use"} /\ (r.at = "idle" <=> r.conn = NoConnection)
    <3>1. CASE o.conn = NoConnection
      BY <1>0, <3>1 DEF TakerState
    <3>2. CASE o.conn # NoConnection
      <4>1. o.conn \in Dialled
        BY <1>0, <3>2 DEF TakerState
      <4>2. conns[o.conn].frames \in {"nil", "open", "closed"}
        BY <1>1, <4>1 DEF ConnState
      <4>. QED
        BY <1>0, <3>2, <4>2 DEF TakerState
    <3>. QED
      BY <3>1, <3>2
  <2>. HIDE DEF r
  <2>. QED
    BY <2>1, <2>2, <2>3, TakerGoes
<1>5. CASE TakeFrame(t)
  <2>. DEFINE c == taker[t].conn
              conn == [conns[c] EXCEPT !.waiting = conns[c].waiting - 1]
  <2>1. /\ conns' = [conns EXCEPT ![c] = conn] /\ taker[t].at = "use" /\ conns[c].waiting > 0
        /\ UNCHANGED <<pooled, shut, taker, warmer, collector>>
    BY <1>5 DEF TakeFrame
  <2>2. c \in Dialled
    BY <1>0, <1>1a, <2>1 DEF TakerState
  <2>. HIDE DEF c
  <2>3. conns[c] \in ConnState /\ Sound(conns[c]) /\ conns[c].waiting \in Nat
    BY <1>1, <2>2 DEF ConnState
  <2>4. conns[c].waiting - 1 \in Nat
    BY <2>1, <2>3
  <2>5. conn \in ConnState /\ Sound(conn)
    BY <2>3, <2>4, Changes
  <2>. HIDE DEF conn
  <2>. QED
    BY <2>1, <2>2, <2>5, SetsConn DEF SetConn
<1>6. CASE EndUse(t)
  <2>. DEFINE c == taker[t].conn
              conn == [conns[c] EXCEPT !.socket = "closed"]
              f == [conns EXCEPT ![c] = conn]
              r == [at |-> "idle", conn |-> NoConnection, stale |-> {}, frames |-> "nil"]
  <2>1. /\ conns' = f /\ taker[t].at = "use" /\ taker' = [taker EXCEPT ![t] = r]
        /\ UNCHANGED <<pooled, shut, warmer, collector>>
    BY <1>6 DEF EndUse
  <2>2. c \in Dialled
    BY <1>0, <1>1a, <2>1 DEF TakerState
  <2>. HIDE DEF c
  <2>3. conn \in ConnState /\ Sound(conn)
    BY <1>1, <2>2, Changes
  <2>. HIDE DEF conn
  <2>4. f \in [Dialled -> ConnState] /\ \A d \in Dialled : Sound(f[d])
    BY <1>1, <2>2, <2>3
  <2>5. r \in TakerState /\ r.at = "idle" /\ r.conn = NoConnection
    BY DEF TakerState
  <2>. HIDE DEF f, r
  <2>. QED
    BY <2>1, <2>4, <2>5, TakerGoes
<1>. QED
  BY <1>2, <1>3, <1>4, <1>5, <1>6

\* What the reader of a connection and the network do.
LEMMA ReaderGoes ==
  ASSUME PoolInv, NEW c \in Dialled,
         \/ ReadFails(c) \/ EvictCloses(c) \/ FrameArrives(c) \/ PutEnds(c) \/ Breaks(c) \/ GrowsOld(c)
  PROVE  PoolInv'
<1>. DEFINE conn == conns[c]
            gone(e) == [e EXCEPT !.reader = "gone", !.error = TRUE]
<1>0. conn \in ConnState /\ Sound(conn)
  BY ConnIs
<1>1. ASSUME NEW new \in ConnState, Sound(new), SetConn(c, new) PROVE PoolInv'
  BY <1>1, SetsConn
<1>. HIDE DEF conn
<1>2. ASSUME NEW e \in ConnState, e.frames = "closed"
      PROVE  /\ [e EXCEPT !.reader = "gone", !.error = TRUE] \in ConnState
             /\ Sound([e EXCEPT !.reader = "gone", !.error = TRUE])
             /\ [e EXCEPT !.reader = "gone"] \in ConnState /\ Sound([e EXCEPT !.reader = "gone"])
  BY <1>2 DEF ConnState, Sound
<1>3. ASSUME NEW at \in {"read", "put", "evict", "close"}, conn.reader # "none"
      PROVE  [conn EXCEPT !.reader = at] \in ConnState /\ Sound([conn EXCEPT !.reader = at])
  BY <1>0, <1>3 DEF ConnState, Sound
<1>4. conn.reader # "none" =>
        /\ Closed(conn) \in ConnState /\ Closed(conn).frames = "closed"
        /\ Dropped(conn) \in ConnState /\ Dropped(conn).frames = "closed"
  BY <1>0, Changes
<1>5. CASE ReadFails(c)
  <2>1. conn.reader = "read"
        /\ SetConn(c, IF conn.taken THEN [Closed(conn) EXCEPT !.reader = "gone", !.error = TRUE]
                      ELSE [conn EXCEPT !.reader = "evict"])
    BY <1>5 DEF ReadFails, conn
  <2>2. CASE conn.taken
    BY <1>1, <1>2, <1>4, <2>1, <2>2
  <2>3. CASE ~conn.taken
    BY <1>1, <1>3, <2>1, <2>3
  <2>. QED
    BY <2>2, <2>3
<1>6. CASE EvictCloses(c)
  <2>1. conn.reader = "close" /\ SetConn(c, [Dropped(conn) EXCEPT !.reader = "gone"])
    BY <1>6 DEF EvictCloses, EvictedReader, conn
  <2>. QED
    BY <1>1, <1>2, <1>4, <2>1
<1>7. CASE FrameArrives(c)
  <2>1. /\ conn.reader = "read"
        /\ SetConn(c, CASE conn.frames = "closed" ->
                             [Dropped(conn) EXCEPT !.reader = "gone", !.error = TRUE]
                        [] conn.frames # "closed" /\ conn.waiting < FrameRoom ->
                             [conn EXCEPT !.waiting = conn.waiting + 1]
                        [] OTHER -> [conn EXCEPT !.reader = "put"])
    BY <1>7 DEF FrameArrives, conn
  <2>2. CASE conn.frames = "closed"
    BY <1>1, <1>2, <1>4, <2>1, <2>2
  <2>3. CASE conn.frames # "closed" /\ conn.waiting < FrameRoom
    <3>1. conn.waiting + 1 \in Nat
      BY <1>0 DEF ConnState
    <3>2. [conn EXCEPT !.waiting = conn.waiting + 1] \in ConnState /\ Sound([conn EXCEPT !.waiting = conn.waiting + 1])
      BY <1>0, <3>1, Changes
    <3>. QED
      BY <1>1, <2>1, <2>3, <3>2
  <2>4. CASE conn.frames # "closed" /\ ~(conn.waiting < FrameRoom)
    BY <1>1, <1>3, <2>1, <2>4
  <2>. QED
    BY <2>2, <2>3, <2>4
<1>8. CASE PutEnds(c)
  <2>1. /\ conn.reader = "put"
        /\ \/ SetConn(c, [Dropped(conn) EXCEPT !.reader = "gone", !.error = TRUE])
           \/ conn.frames = "open" /\ SetConn(c, [conn EXCEPT !.waiting = conn.waiting + 1, !.reader = "read"])
    BY <1>8 DEF PutEnds, conn
  <2>2. CASE SetConn(c, [Dropped(conn) EXCEPT !.reader = "gone", !.error = TRUE])
    BY <1>1, <1>2, <1>4, <2>1, <2>2
  <2>3. CASE conn.frames = "open" /\ SetConn(c, [conn EXCEPT !.waiting = conn.waiting + 1, !.reader = "read"])
    <3>. DEFINE new == [conn EXCEPT !.waiting = conn.waiting + 1, !.reader = "read"]
    <3>1. conn.waiting + 1 \in Nat
      BY <1>0 DEF ConnState
    <3>2. new \in ConnState /\ Sound(new)
      BY <1>0, <2>3, <3>1 DEF ConnState, Sound
    <3>. HIDE DEF new
    <3>. QED
      BY <1>1, <2>3, <3>2 DEF new
  <2>. QED
    BY <2>1, <2>2, <2>3
<1>9. CASE Breaks(c)
  <2>1. SetConn(c, [conn EXCEPT !.socket = "broken"])
    BY <1>9 DEF Breaks, conn
  <2>2. [conn EXCEPT !.socket = "broken"] \in ConnState /\ Sound([conn EXCEPT !.socket = "broken"])
    BY <1>0, Changes
  <2>. QED
    BY <1>1, <2>1, <2>2
<1>10. CASE GrowsOld(c)
  <2>1. SetConn(c, [conn EXCEPT !.old = TRUE])
    BY <1>10 DEF GrowsOld, conn
  <2>2. [conn EXCEPT !.old = TRUE] \in ConnState /\ Sound([conn EXCEPT !.old = TRUE])
    BY <1>0, Changes
  <2>. QED
    BY <1>1, <2>1, <2>2
<1>. QED
  BY <1>5, <1>6, <1>7, <1>8, <1>9, <1>10

\* The list gets shorter, and those taken out may have to be closed.
LEMMA ListShrinks ==
  ASSUME PoolInv, NEW S \in SUBSET pooled, pooled' = pooled \ S,
         collector' \subseteq collector \cup S, shut' \in BOOLEAN, UNCHANGED <<taker, warmer>>,
         NEW f \in [Dialled -> ConnState], conns' = f, \A c \in Dialled : Sound(f[c])
  PROVE  PoolInv'
<1>1. /\ conns' \in Seq(ConnState) /\ Len(conns') = Len(conns) /\ Dialled' = Dialled
      /\ \A c \in Dialled' : Sound(conns'[c])
  BY ConnsChange
<1>2. IsFiniteSet(pooled') /\ Cardinality(pooled') <= MaxPerKey
  <2>1. IsFiniteSet(pooled) /\ Cardinality(pooled) \in Nat /\ Cardinality(pooled) <= MaxPerKey
    BY FS_CardinalityType DEF PoolInv, ConnPoolTyped
  <2>2. IsFiniteSet(pooled') /\ Cardinality(pooled') <= Cardinality(pooled) /\ Cardinality(pooled') \in Nat
    BY <2>1, FS_Subset, FS_CardinalityType
  <2>. QED
    BY <2>1, <2>2, PoolBounds
<1>3. collector' \subseteq Dialled /\ pooled' \subseteq Dialled
  BY DEF PoolInv, ConnPoolTyped
<1>4. ConnPoolTyped'
  BY <1>1, <1>2, <1>3 DEF PoolInv, ConnPoolTyped
<1>5. Parking'
  BY DEF PoolInv, Parking
<1>6. Owned'
  BY DEF PoolInv, Owned
<1>. QED
  BY <1>1, <1>4, <1>5, <1>6 DEF PoolInv

\* GC, Close and the reader that evicts take connections out of the list.
LEMMA Unlists ==
  ASSUME PoolInv, GC \/ ClosePool \/ \E c \in Dialled : CloseVictim(c) \/ EvictUnlists(c)
  PROVE  PoolInv'
<1>0. /\ conns \in [Dialled -> ConnState] /\ \A c \in Dialled : conns[c] \in ConnState /\ Sound(conns[c])
      /\ DOMAIN conns = Dialled /\ shut \in BOOLEAN
  BY ConnsAre, ConnIs DEF PoolInv, ConnPoolTyped, Dialled
<1>1. ASSUME NEW S \in SUBSET pooled, Collect(S), shut' \in BOOLEAN PROVE PoolInv'
  <2>. DEFINE f == [c \in DOMAIN conns |-> IF c \in S THEN [conns[c] EXCEPT !.taken = TRUE] ELSE conns[c]]
  <2>1. f \in [Dialled -> ConnState] /\ \A c \in Dialled : Sound(f[c])
    <3>1. ASSUME NEW c \in Dialled PROVE f[c] \in ConnState /\ Sound(f[c])
      <4>1. [conns[c] EXCEPT !.taken = TRUE] \in ConnState /\ Sound([conns[c] EXCEPT !.taken = TRUE])
        BY <1>0, Changes
      <4>2. f[c] = [conns[c] EXCEPT !.taken = TRUE] \/ f[c] = conns[c]
        BY <1>0
      <4>. HIDE DEF f
      <4>. QED
        BY <1>0, <4>1, <4>2
    <3>. QED
      BY <1>0, <3>1
  <2>2. /\ conns' = f /\ pooled' = pooled \ S /\ collector' = collector \cup S
        /\ UNCHANGED <<taker, warmer>>
    BY <1>1 DEF Collect
  <2>. HIDE DEF f
  <2>. QED
    BY <1>1, <2>1, <2>2, ListShrinks
<1>2. CASE GC
  <2>. DEFINE old == {c \in pooled : conns[c].old}
  <2>1. Collect(old) /\ shut' = shut /\ old \in SUBSET pooled
    BY <1>2 DEF GC
  <2>. HIDE DEF old
  <2>. QED
    BY <1>0, <1>1, <2>1
<1>3. CASE ClosePool
  BY <1>1, <1>3 DEF ClosePool
<1>4. ASSUME NEW c \in Dialled, CloseVictim(c) PROVE PoolInv'
  <2>1. /\ conns' = [conns EXCEPT ![c] = Dropped(conns[c])] /\ collector' = collector \ {c}
        /\ UNCHANGED <<pooled, shut, taker, warmer>>
    BY <1>4 DEF CloseVictim
  <2>2. Dropped(conns[c]) \in ConnState /\ Sound(Dropped(conns[c]))
    BY <1>0, Changes
  <2>3. /\ [conns EXCEPT ![c] = Dropped(conns[c])] \in [Dialled -> ConnState]
        /\ \A d \in Dialled : Sound([conns EXCEPT ![c] = Dropped(conns[c])][d])
    BY <1>0, <2>2
  <2>4. {} \in SUBSET pooled /\ pooled' = pooled \ {} /\ collector' \subseteq collector \cup {} /\ shut' \in BOOLEAN
    BY <1>0, <2>1
  <2>. QED
    BY <2>1, <2>3, <2>4, ListShrinks
<1>5. ASSUME NEW c \in Dialled, EvictUnlists(c) PROVE PoolInv'
  <2>. DEFINE new == [conns[c] EXCEPT !.reader = "close"]
              f == [conns EXCEPT ![c] = new]
              S == pooled \cap {c}
  <2>1. /\ conns[c].reader = "evict" /\ conns' = f /\ pooled' = pooled \ S
        /\ UNCHANGED <<shut, taker, warmer, collector>>
    BY <1>5 DEF EvictUnlists
  <2>2. new \in ConnState /\ Sound(new)
    <3>1. conns[c] \in ConnState /\ Sound(conns[c])
      BY <1>0
    <3>. QED
      BY <2>1, <3>1 DEF ConnState, Sound
  <2>. HIDE DEF new
  <2>3. f \in [Dialled -> ConnState] /\ \A d \in Dialled : Sound(f[d])
    BY <1>0, <2>2
  <2>4. S \in SUBSET pooled /\ collector' \subseteq collector \cup S /\ shut' \in BOOLEAN
    BY <1>0, <2>1
  <2>. HIDE DEF f, S
  <2>. QED
    BY <2>1, <2>3, <2>4, ListShrinks
<1>. QED
  BY <1>2, <1>3, <1>4, <1>5

\* At first there is no connection.
LEMMA PoolInitial == ConnPoolInit => PoolInv
<1>. SUFFICES ASSUME ConnPoolInit PROVE PoolInv
  OBVIOUS
<1>1. conns = <<>> /\ pooled = {} /\ shut = FALSE /\ collector = {} /\ Dialled = {} /\ Len(conns) = 0
  BY DEF ConnPoolInit, Dialled
<1>2. /\ taker = [t \in Takers |-> [at |-> "idle", conn |-> NoConnection, stale |-> {}, frames |-> "nil"]]
      /\ warmer = [w \in Warmers |-> [at |-> "idle", conn |-> NoConnection]]
  BY DEF ConnPoolInit
<1>3. /\ taker \in [Takers -> TakerState]
      /\ \A t \in Takers : taker[t].at = "idle" /\ taker[t].conn = NoConnection
  BY <1>2 DEF TakerState
<1>4. /\ warmer \in [Warmers -> [at : {"idle", "dial", "park"}, conn : Dialled \cup {NoConnection}]]
      /\ \A w \in Warmers : warmer[w].at = "idle"
  BY <1>2
<1>5. conns \in Seq(ConnState) /\ Len(conns) <= MaxDialled
  BY <1>1, PoolBounds
<1>6. IsFiniteSet(pooled) /\ Cardinality(pooled) <= MaxPerKey
  <2>1. IsFiniteSet(pooled) /\ Cardinality(pooled) = 0
    BY <1>1, FS_EmptySet
  <2>. QED
    BY <2>1, PoolBounds
<1>7. ConnPoolTyped
  BY <1>1, <1>3, <1>4, <1>5, <1>6 DEF ConnPoolTyped, TakerState
<1>. QED
  BY <1>1, <1>3, <1>4, <1>7 DEF PoolInv, Parking, Owned

\* Every step keeps the connections sound and owned once.
LEMMA PoolStep == PoolInv /\ [ConnPoolNext]_poolVars => PoolInv'
<1>. SUFFICES ASSUME PoolInv, [ConnPoolNext]_poolVars PROVE PoolInv'
  OBVIOUS
<1>0. DOMAIN conns = Dialled
  BY ConnsAre DEF PoolInv, ConnPoolTyped, Dialled
<1>1. CASE UNCHANGED poolVars
  <2>1. UNCHANGED <<conns, pooled, shut, taker, warmer, collector>>
    BY <1>1 DEF poolVars
  <2>. QED
    BY <2>1 DEF PoolInv, ConnPoolTyped, Parking, Owned, Dialled
<1>2. ASSUME NEW c \in Dialled,
             \/ ReadFails(c) \/ EvictUnlists(c) \/ EvictCloses(c) \/ FrameArrives(c)
             \/ PutEnds(c) \/ CloseVictim(c) \/ Breaks(c) \/ GrowsOld(c)
      PROVE  PoolInv'
  BY <1>2, ReaderGoes, Unlists
<1>. QED
  BY <1>0, <1>1, <1>2, PoolWarmed, Takes, Unlists DEF ConnPoolNext

\* A sound connection whose reader has gone has told the request that has it.
LEMMA PoolImplied == PoolInv => ConnPoolTypeOK /\ NoStrandedTaker
<1>. SUFFICES ASSUME PoolInv PROVE ConnPoolTypeOK /\ NoStrandedTaker
  OBVIOUS
<1>1. /\ taker \in [Takers -> TakerState] /\ DOMAIN conns = Dialled /\ Len(conns) \in Nat
      /\ \A c \in Dialled : conns[c] \in ConnState /\ Sound(conns[c])
  BY ConnsAre, ConnIs DEF PoolInv, ConnPoolTyped, TakerState, Dialled
<1>2. ConnPoolTypeOK
  <2>1. \A c \in DOMAIN conns : conns[c].reader \in {"none", "read", "put", "evict", "close", "gone"}
    BY <1>1 DEF ConnState
  <2>2. \A t \in Takers : taker[t].conn \in 0 .. Len(conns)
    BY <1>1 DEF TakerState, Dialled, NoConnection
  <2>. QED
    BY <2>1, <2>2 DEF PoolInv, ConnPoolTyped, ConnPoolTypeOK
<1>3. NoStrandedTaker
  <2>. SUFFICES ASSUME NEW t \in Takers, taker[t].at = "use"
                PROVE  /\ taker[t].frames # "nil" /\ conns[taker[t].conn].reader = "gone" =>
                            conns[taker[t].conn].frames = "closed"
                       /\ taker[t].conn \notin pooled \cup collector
                       /\ \A u \in Takers \ {t} : taker[u].conn # taker[t].conn
    BY DEF NoStrandedTaker
  <2>1. taker[t].conn # NoConnection
    BY DEF PoolInv, Owned
  <2>2. taker[t].conn \in Dialled
    BY <1>1, <2>1 DEF TakerState
  <2>3. conns[taker[t].conn].reader = "gone" => conns[taker[t].conn].frames = "closed"
    BY <1>1, <2>2 DEF Sound
  <2>. QED
    BY <2>1, <2>3 DEF PoolInv, Owned
<1>. QED
  BY <1>2, <1>3

\* The connections, who has them and who is about to close them, in every state
\* (connpool.go: Warm, Take, park, evict, GC and Close).
THEOREM PoolInvariant == ConnPoolSpec => []PoolInv
BY PoolInitial, PoolStep, PTL DEF ConnPoolSpec

\* The variables hold values of their types, and the list keeps its limit.
THEOREM PoolTypeCorrect == ConnPoolSpec => []ConnPoolTypeOK
BY PoolInvariant, PoolImplied, PTL

\* A request that was given a connection is its only owner and learns when the reader of
\* it has gone (connpool.go).
THEOREM NoStrandedTakerCorrect == ConnPoolSpec => []NoStrandedTaker
BY PoolInvariant, PoolImplied, PTL
-----------------------------------------------------------------------------
-----------------------------------------------------------------------------
InnerState == [at : {"off", "runs", "writes", "done"}, line : Line \cup {"none"},
               status : {0, 200, 400}, wrote : 0 .. MaxLines, content : SUBSET Content]
OuterState == [at : {"off", "scans", "waits", "left"}, line : Line \cup {"none"},
               tooLong : BOOLEAN, gathered : SUBSET Content,
               said : {"nothing", "created", "completed", "failed"}]

BucketTyped ==
  /\ newest \in 0 .. MaxRemembered /\ outdated \in 0 .. newest
  /\ DOMAIN bucket \subseteq 1 .. newest /\ bucket \in [DOMAIN bucket -> Remembered]
  /\ branches \in [1 .. MaxRemembered -> Nat]

StreamTyped == inner \in InnerState /\ outer \in OuterState /\ departed \in BOOLEAN

ResponsesTyped == BucketTyped /\ calling \subseteq Readers /\ StreamTyped

\* An answer is continued at most once, and it shows when it was; what is not
\* remembered yet has not been.
OnceContinued ==
  \A n \in 1 .. MaxRemembered :
    /\ branches[n] <= 1
    /\ n > newest => branches[n] = 0
    /\ branches[n] = 1 /\ n \in DOMAIN bucket => bucket[n].consumed

\* The bucket keeps its limit, and what is recent.
RecentKept ==
  /\ Cardinality(DOMAIN bucket) <= PerTenant
  /\ \A n \in 1 .. newest : n > outdated /\ n + PerTenant > newest => n \in DOMAIN bucket

\* Where the two goroutines of a stream are at the same time.
Together ==
  /\ (inner.at = "off") <=> (outer.at = "off")
  /\ inner.at = "off" => inner = NoInner /\ outer = NoOuter /\ ~departed
  /\ outer.at # "scans" => outer.line = "none"
  /\ inner.at # "writes" => inner.line = "none"
  /\ outer.tooLong <=> outer.at = "waits"
  /\ outer.at = "waits" => inner.at = "writes"
  /\ outer.at = "left" => departed \/ (inner.at = "done" /\ outer.said \in {"completed", "failed"})
  /\ outer.said \in {"completed", "failed"} => outer.at = "left" /\ inner.at = "done"

\* What was written is gathered, in the handler's hand or in the pipe, and an error is
\* the only thing that is written before the status.
Told ==
  /\ inner.status = 0 => inner.content = {}
  /\ ~departed => inner.content = outer.gathered \cup ({outer.line, inner.line} \cap Content)
  /\ outer.said = "completed" =>
       inner.status = 200 /\ outer.gathered = inner.content /\ ~ inner.content \subseteq {"blank"}
  /\ outer.said = "failed" => inner.status = 400 \/ inner.content \subseteq {"blank"}

BucketInv == BucketTyped /\ OnceContinued /\ RecentKept
StreamInv == StreamTyped /\ Together /\ Told
ResponsesInv == BucketInv /\ calling \subseteq Readers /\ StreamInv

\* The constants and the state are numbers.
LEMMA ResponsesBounds ==
  PerTenant \in Nat \ {0} /\ MaxRemembered \in Nat /\ MaxLines \in Nat
BY ResponsesAssumption

\* The bucket is finite, as every part of it.
LEMMA BucketFinite ==
  ASSUME BucketTyped, NEW B \in SUBSET DOMAIN bucket
  PROVE  /\ IsFiniteSet(B) /\ Cardinality(B) \in Nat /\ B \subseteq 1 .. newest
         /\ Cardinality(B) <= Cardinality(DOMAIN bucket)
<1>1. newest \in Nat /\ DOMAIN bucket \subseteq 1 .. newest
  BY ResponsesBounds DEF BucketTyped
<1>2. IsFiniteSet(1 .. newest)
  BY <1>1, FS_Interval
<1>3. IsFiniteSet(DOMAIN bucket)
  BY <1>1, <1>2, FS_Subset
<1>. QED
  BY <1>1, <1>3, FS_Subset, FS_CardinalityType

\* A request that continues an answer is the first to do so.
LEMMA Consumes ==
  ASSUME BucketInv, NEW n \in 0 .. newest, Consume(n)
  PROVE  BucketInv'
<1>. USE DEF BucketInv
<1>1. CASE UNCHANGED rememberedVars
  BY <1>1 DEF rememberedVars, BucketTyped, OnceContinued, RecentKept
<1>2. ASSUME NEW outputs \in BOOLEAN, Continues(n, outputs),
             bucket' = [bucket EXCEPT ![n].consumed = TRUE],
             branches' = [branches EXCEPT ![n] = @ + 1],
             UNCHANGED <<newest, outdated>>
      PROVE  BucketInv'
  <2>1. n \in DOMAIN bucket /\ ~bucket[n].consumed
    BY <1>2 DEF Continues
  <2>2. n \in 1 .. MaxRemembered /\ branches[n] = 0
    <3>1. n \in 1 .. MaxRemembered
      BY <2>1, ResponsesBounds DEF BucketTyped
    <3>2. branches[n] \in Nat /\ branches[n] <= 1 /\ branches[n] # 1
      BY <2>1, <3>1 DEF BucketTyped, OnceContinued
    <3>. QED
      BY <3>1, <3>2
  <2>3. /\ DOMAIN bucket' = DOMAIN bucket /\ bucket' \in [DOMAIN bucket -> Remembered]
        /\ bucket'[n].consumed
        /\ \A k \in DOMAIN bucket : k # n => bucket'[k] = bucket[k]
    BY <1>2, <2>1 DEF BucketTyped, Remembered
  <2>4. branches' = [branches EXCEPT ![n] = 1]
    BY <1>2, <2>2 DEF BucketTyped
  <2>5. BucketTyped'
    BY <1>2, <2>2, <2>3, <2>4 DEF BucketTyped
  <2>6. OnceContinued'
    <3>. SUFFICES ASSUME NEW k \in 1 .. MaxRemembered
                  PROVE  /\ branches'[k] <= 1
                         /\ k > newest' => branches'[k] = 0
                         /\ branches'[k] = 1 /\ k \in DOMAIN bucket' => bucket'[k].consumed
      BY DEF OnceContinued
    <3>1. CASE k = n
      BY <1>2, <2>1, <2>2, <2>3, <2>4, <3>1, ResponsesBounds DEF BucketTyped
    <3>2. CASE k # n
      BY <1>2, <2>2, <2>3, <2>4, <3>2 DEF BucketTyped, OnceContinued
    <3>. QED
      BY <3>1, <3>2
  <2>7. RecentKept'
    BY <1>2, <2>3 DEF RecentKept
  <2>. QED
    BY <2>5, <2>6, <2>7
<1>. QED
  BY <1>1, <1>2 DEF Consume

\* What makes room: one answer of a full bucket, never one of the recent ones.
LEMMA MakesRoom ==
  ASSUME BucketInv, NEW B \in SUBSET DOMAIN bucket
  PROVE  /\ IsFiniteSet(B \ Leaving(B)) /\ Cardinality(B \ Leaving(B)) < PerTenant
         /\ \A n \in Leaving(B) : n + PerTenant <= newest + 1
<1>. DEFINE kept == B \ Leaving(B)
<1>1. /\ IsFiniteSet(B) /\ Cardinality(B) \in Nat /\ B \subseteq 1 .. newest
      /\ Cardinality(B) <= PerTenant /\ newest \in Nat /\ PerTenant \in Nat \ {0}
  <2>1. DOMAIN bucket \in SUBSET DOMAIN bucket /\ Cardinality(DOMAIN bucket) <= PerTenant
    BY DEF BucketInv, RecentKept
  <2>2. BucketTyped /\ newest \in Nat
    BY ResponsesBounds DEF BucketInv, BucketTyped
  <2>3. Cardinality(DOMAIN bucket) \in Nat
    BY <2>1, <2>2, BucketFinite
  <2>. QED
    BY <2>1, <2>2, <2>3, BucketFinite, ResponsesBounds
<1>2. IsFiniteSet(kept)
  BY <1>1, FS_Subset
<1>3. CASE Cardinality(B) < PerTenant
  <2>1. Leaving(B) = {}
    BY <1>1, <1>3 DEF Leaving
  <2>2. kept = B
    BY <2>1
  <2>. QED
    BY <1>1, <1>2, <1>3, <2>1, <2>2
<1>4. CASE Cardinality(B) = PerTenant
  <2>1. Leaving(B) = {n \in B : \A k \in B : n <= k}
    BY <1>1, <1>4 DEF Leaving
  <2>2. B # {} /\ B \in SUBSET Nat
    BY <1>1, <1>4, FS_EmptySet
  <2>3. PICK m \in B : \A k \in B : m <= k
    BY <2>2, Smallest
  <2>4. IsFiniteSet(B \ {m}) /\ Cardinality(B \ {m}) = PerTenant - 1
    BY <1>1, <1>4, <2>3, FS_RemoveElement
  <2>5. kept \subseteq B \ {m}
    BY <2>1, <2>3
  <2>6. Cardinality(kept) <= PerTenant - 1 /\ Cardinality(kept) \in Nat
    BY <1>2, <2>4, <2>5, FS_Subset, FS_CardinalityType
  <2>7. ASSUME NEW n \in Leaving(B) PROVE n + PerTenant <= newest + 1
    <3>1. n \in 1 .. newest /\ B \subseteq n .. newest
      BY <1>1, <2>1, <2>7
    <3>2. IsFiniteSet(n .. newest) /\ Cardinality(n .. newest) = newest - n + 1
      BY <1>1, <3>1, FS_Interval
    <3>3. Cardinality(B) <= newest - n + 1
      BY <3>1, <3>2, FS_Subset
    <3>. QED
      BY <1>1, <1>4, <3>1, <3>3
  <2>. QED
    BY <1>1, <1>2, <2>6, <2>7
<1>. QED
  BY <1>1, <1>3, <1>4

\* An answer is remembered.
LEMMA Remembers ==
  ASSUME BucketInv, NEW r \in Readers, RememberAnswer(r)
  PROVE  BucketInv'
<1>. DEFINE recent == {n \in DOMAIN bucket : n > outdated}
            kept == recent \ Leaving(recent)
            new == newest + 1
<1>1. PICK calls \in BOOLEAN :
        bucket' = [n \in kept \cup {newest'} |->
                     IF n \in kept THEN bucket[n] ELSE [pending |-> calls, consumed |-> FALSE]]
  BY DEF RememberAnswer
<1>2. newest' = new /\ UNCHANGED <<outdated, branches>> /\ newest < MaxRemembered
  BY DEF RememberAnswer
<1>3. /\ newest \in Nat /\ outdated \in 0 .. newest /\ DOMAIN bucket \subseteq 1 .. newest
      /\ \A n \in DOMAIN bucket : bucket[n] \in Remembered
      /\ branches \in [1 .. MaxRemembered -> Nat]
  BY ResponsesBounds DEF BucketInv, BucketTyped
<1>4. /\ IsFiniteSet(kept) /\ Cardinality(kept) < PerTenant
      /\ \A n \in Leaving(recent) : n + PerTenant <= newest + 1
  <2>1. recent \in SUBSET DOMAIN bucket
    OBVIOUS
  <2>. QED
    BY <2>1, MakesRoom
<1>5. kept \subseteq DOMAIN bucket /\ \A n \in recent : n \notin Leaving(recent) => n \in kept
  OBVIOUS
<1>6. \A n \in DOMAIN bucket : n > outdated => n \in recent
  OBVIOUS
<1>. HIDE DEF recent, kept
<1>7. /\ DOMAIN bucket' = kept \cup {new} /\ new \notin kept /\ new \in Nat
      /\ bucket' \in [kept \cup {new} -> Remembered]
      /\ \A n \in kept : bucket'[n] = bucket[n]
      /\ ~bucket'[new].consumed
  BY <1>1, <1>2, <1>3, <1>5 DEF Remembered
<1>8. BucketTyped'
  BY <1>2, <1>3, <1>5, <1>7, ResponsesBounds DEF BucketTyped
<1>9. OnceContinued'
  <2>. SUFFICES ASSUME NEW k \in 1 .. MaxRemembered
                PROVE  /\ branches'[k] <= 1
                       /\ k > newest' => branches'[k] = 0
                       /\ branches'[k] = 1 /\ k \in DOMAIN bucket' => bucket'[k].consumed
    BY DEF OnceContinued
  <2>1. /\ branches[k] <= 1 /\ (k > newest => branches[k] = 0)
        /\ (branches[k] = 1 /\ k \in DOMAIN bucket => bucket[k].consumed)
    BY DEF BucketInv, OnceContinued
  <2>2. CASE k = new
    BY <1>2, <1>3, <2>1, <2>2
  <2>3. CASE k # new
    BY <1>2, <1>3, <1>5, <1>7, <2>1, <2>3
  <2>. QED
    BY <2>2, <2>3
<1>10. RecentKept'
  <2>1. Cardinality(kept \cup {new}) <= PerTenant
    <3>1. IsFiniteSet(kept) /\ Cardinality(kept) \in Nat /\ Cardinality(kept) < PerTenant
      BY <1>4, FS_CardinalityType
    <3>2. Cardinality(kept \cup {new}) = Cardinality(kept) + 1
      BY <1>7, <3>1, FS_AddElement
    <3>. QED
      BY <3>1, <3>2, ResponsesBounds
  <2>2. ASSUME NEW n \in 1 .. new, n > outdated, n + PerTenant > new PROVE n \in kept \cup {new}
    <3>1. CASE n = new
      BY <3>1
    <3>2. CASE n # new
      <4>1. n \in 1 .. newest /\ n + PerTenant > newest /\ ~(n + PerTenant <= newest + 1)
        BY <1>3, <2>2, <3>2, ResponsesBounds
      <4>2. n \in DOMAIN bucket
        BY <2>2, <4>1 DEF BucketInv, RecentKept
      <4>. QED
        BY <1>4, <1>5, <1>6, <2>2, <4>1, <4>2
    <3>. QED
      BY <3>1, <3>2
  <2>. QED
    BY <1>2, <1>7, <2>1, <2>2 DEF RecentKept
<1>. QED
  BY <1>8, <1>9, <1>10 DEF BucketInv

\* The stream begins when none is followed.
LEMMA StreamBegins == ASSUME StreamInv, BeginStream PROVE StreamInv'
<1>. USE DEF StreamInv, NoInner, NoOuter, StreamTyped, InnerState, OuterState
<1>1. /\ inner' = [NoInner EXCEPT !.at = "runs"] /\ departed' = departed /\ outer.at = "off"
      /\ outer' = [NoOuter EXCEPT !.at = "scans", !.said = "created"]
  BY DEF BeginStream
<1>2. ~departed
  BY <1>1 DEF Together
<1>3. StreamTyped'
  <2>1. inner' = [at |-> "runs", line |-> "none", status |-> 0, wrote |-> 0, content |-> {}]
    BY <1>1
  <2>2. outer' = [at |-> "scans", line |-> "none", tooLong |-> FALSE, gathered |-> {}, said |-> "created"]
    BY <1>1
  <2>3. 0 \in 0 .. MaxLines
    BY ResponsesBounds
  <2>. HIDE DEF NoInner, NoOuter
  <2>4. inner' \in InnerState
    BY <2>1, <2>3
  <2>5. outer' \in OuterState
    BY <2>2
  <2>. QED
    BY <1>1, <1>2, <2>4, <2>5
<1>4. Together'
  BY <1>1, <1>2 DEF Together
<1>5. Told'
  BY <1>1, <1>2 DEF Told, Content
<1>. QED
  BY <1>3, <1>4, <1>5

\* A line is on its way to be gathered from the moment it is written.
LEMMA LineWritten == ASSUME StreamInv, WriteLine PROVE StreamInv'
<1>. USE DEF StreamInv, StreamTyped
<1>1. PICK line \in Line :
        /\ line = "refusal" => inner.status = 0
        /\ departed => line = "refusal"
        /\ inner' = [at |-> "writes", line |-> line, wrote |-> inner.wrote + 1,
                     status |-> IF line = "refusal" THEN 400 ELSE 200,
                     content |-> inner.content \cup ({line} \cap Content)]
  BY DEF WriteLine
<1>2. inner.at = "runs" /\ inner.wrote < MaxLines /\ inner.status # 400 /\ UNCHANGED <<outer, departed>>
  BY DEF WriteLine
<1>3. inner.wrote + 1 \in 0 .. MaxLines /\ inner.content \cup ({line} \cap Content) \in SUBSET Content
  BY <1>2, ResponsesBounds DEF InnerState
<1>4. StreamTyped'
  BY <1>1, <1>2, <1>3 DEF InnerState
<1>5. Together'
  BY <1>1, <1>2 DEF Together
<1>6. Told'
  BY <1>1, <1>2 DEF Told, Together, Content, Line, InnerState
<1>. QED
  BY <1>4, <1>5, <1>6

\* The handler inside has ended.
LEMMA WriterEnds == ASSUME StreamInv, InnerEnds PROVE StreamInv'
<1>. USE DEF StreamInv, StreamTyped
<1>1. inner.at = "runs" /\ inner' = [inner EXCEPT !.at = "done"] /\ UNCHANGED <<outer, departed>>
  BY DEF InnerEnds
<1>2. /\ inner' \in InnerState /\ inner'.at = "done" /\ inner'.line = inner.line
      /\ inner'.status = inner.status /\ inner'.content = inner.content
  BY <1>1 DEF InnerState
<1>3. StreamTyped'
  BY <1>1, <1>2
<1>4. Together'
  BY <1>1, <1>2 DEF Together
<1>5. Told'
  BY <1>1, <1>2 DEF Told
<1>. QED
  BY <1>3, <1>4, <1>5

\* A line is read, unless it is longer than the scanner takes.
LEMMA LineScanned == ASSUME StreamInv, ScanLine PROVE StreamInv'
<1>. USE DEF StreamInv, StreamTyped
<1>1. outer.at = "scans" /\ outer.line = "none" /\ inner.at = "writes" /\ UNCHANGED departed
  BY DEF ScanLine
<1>2. CASE inner.line = "huge" /\ outer' = [outer EXCEPT !.tooLong = TRUE, !.at = "waits"] /\ UNCHANGED inner
  <2>1. /\ outer' \in OuterState /\ outer'.at = "waits" /\ outer'.tooLong /\ outer'.line = outer.line
        /\ outer'.gathered = outer.gathered /\ outer'.said = outer.said
    BY <1>2 DEF OuterState
  <2>2. StreamTyped'
    BY <1>1, <1>2, <2>1
  <2>3. Together'
    BY <1>1, <1>2, <2>1 DEF Together
  <2>4. Told'
    BY <1>1, <1>2, <2>1 DEF Told
  <2>. QED
    BY <2>2, <2>3, <2>4
<1>3. CASE /\ outer' = [outer EXCEPT !.line = inner.line]
           /\ inner' = [inner EXCEPT !.at = "runs", !.line = "none"]
  <2>1. /\ outer' \in OuterState /\ outer'.at = outer.at /\ outer'.tooLong = outer.tooLong
        /\ outer'.line = inner.line
        /\ outer'.gathered = outer.gathered /\ outer'.said = outer.said
    BY <1>3 DEF OuterState, InnerState
  <2>2. /\ inner' \in InnerState /\ inner'.at = "runs" /\ inner'.line = "none"
        /\ inner'.status = inner.status /\ inner'.content = inner.content
    BY <1>3 DEF InnerState
  <2>3. StreamTyped'
    BY <1>1, <2>1, <2>2
  <2>4. Together'
    BY <1>1, <2>1, <2>2 DEF Together
  <2>5. Told'
    BY <1>1, <2>1, <2>2 DEF Told
  <2>. QED
    BY <2>3, <2>4, <2>5
<1>. QED
  BY <1>2, <1>3 DEF ScanLine

\* A line is turned into events of the answer.
LEMMA LineHandled == ASSUME StreamInv, HandleLine PROVE StreamInv'
<1>. USE DEF StreamInv, StreamTyped
<1>1. outer.line # "none" /\ UNCHANGED <<inner, departed>>
  BY DEF HandleLine
<1>2. outer.at = "scans" /\ outer.said \notin {"completed", "failed"}
  BY <1>1 DEF Together
<1>3. CASE departed /\ outer' = [outer EXCEPT !.line = "none", !.at = "left"]
  <2>1. /\ outer' \in OuterState /\ outer'.at = "left" /\ outer'.tooLong = outer.tooLong
        /\ outer'.line = "none" /\ outer'.gathered = outer.gathered /\ outer'.said = outer.said
    BY <1>3 DEF OuterState
  <2>2. StreamTyped'
    BY <1>1, <2>1
  <2>3. Together'
    BY <1>1, <1>2, <1>3, <2>1 DEF Together
  <2>4. Told'
    BY <1>1, <1>3, <2>1 DEF Told
  <2>. QED
    BY <2>2, <2>3, <2>4
<1>4. CASE /\ ~departed
           /\ outer' = [outer EXCEPT !.line = "none", !.gathered = @ \cup ({outer.line} \cap Content)]
  <2>0. outer.gathered \cup ({outer.line} \cap Content) \in SUBSET Content
    BY DEF OuterState
  <2>1. /\ outer' \in OuterState /\ outer'.at = outer.at /\ outer'.tooLong = outer.tooLong
        /\ outer'.line = "none" /\ outer'.said = outer.said
        /\ outer'.gathered = outer.gathered \cup ({outer.line} \cap Content)
    BY <1>4, <2>0 DEF OuterState
  <2>2. StreamTyped'
    BY <1>1, <2>1
  <2>3. Together'
    BY <1>1, <1>2, <1>4, <2>1 DEF Together
  <2>4. Told'
    BY <1>1, <1>2, <1>4, <2>1 DEF Told, Content
  <2>. QED
    BY <2>2, <2>3, <2>4
<1>. QED
  BY <1>3, <1>4 DEF HandleLine

\* The terminal event is given when everything written has been gathered.
LEMMA LastWord == ASSUME StreamInv, Terminate PROVE StreamInv'
<1>. USE DEF StreamInv, StreamTyped
<1>1. outer.at \in {"scans", "waits"} /\ outer.line = "none" /\ inner.at = "done" /\ UNCHANGED <<inner, departed>>
  BY DEF Terminate
<1>2. outer.at = "scans" /\ ~outer.tooLong /\ inner.line = "none" /\ outer.said \notin {"completed", "failed"}
  BY <1>1 DEF Together, OuterState
<1>3. CASE departed
  <2>1. outer' = [outer EXCEPT !.at = "left", !.said = outer.said]
    BY <1>3 DEF Terminate
  <2>2. /\ outer' \in OuterState /\ outer'.at = "left" /\ outer'.tooLong = outer.tooLong
        /\ outer'.line = outer.line /\ outer'.gathered = outer.gathered /\ outer'.said = outer.said
    BY <2>1 DEF OuterState
  <2>3. StreamTyped'
    BY <1>1, <2>2
  <2>4. Together'
    BY <1>1, <1>2, <1>3, <2>2 DEF Together
  <2>5. Told'
    BY <1>1, <1>3, <2>2 DEF Told
  <2>. QED
    BY <2>3, <2>4, <2>5
<1>4. CASE ~departed
  <2>1. outer' = [outer EXCEPT !.at = "left", !.said = Verdict]
    BY <1>4 DEF Terminate
  <2>2. /\ Verdict \in {"failed", "completed"}
        /\ Verdict = "completed" <=> inner.status # 400 /\ ~ outer.gathered \subseteq {"blank"}
    BY <1>2 DEF Verdict
  <2>3. /\ outer' \in OuterState /\ outer'.at = "left" /\ outer'.tooLong = outer.tooLong
        /\ outer'.line = outer.line /\ outer'.gathered = outer.gathered /\ outer'.said = Verdict
    <3>1. Verdict \in {"failed", "completed"} /\ outer \in OuterState
      BY <2>2
    <3>. HIDE DEF StreamInv, StreamTyped
    <3>. QED
      BY <2>1, <3>1 DEF OuterState
  <2>4. inner.content = outer.gathered
    BY <1>1, <1>2, <1>4 DEF Told, Content
  <2>5. inner.status \in {0, 200, 400} /\ (inner.status = 0 => inner.content = {})
    BY DEF InnerState, Told
  <2>6. StreamTyped'
    BY <1>1, <2>3
  <2>7. Together'
    BY <1>1, <1>2, <2>2, <2>3 DEF Together
  <2>8. Told'
    BY <1>1, <1>2, <2>2, <2>3, <2>4, <2>5 DEF Told, Content
  <2>. QED
    BY <2>6, <2>7, <2>8
<1>. QED
  BY <1>3, <1>4

\* The client goes away.
LEMMA ClientGone == ASSUME StreamInv, Disconnect PROVE StreamInv'
<1>1. outer.at \in {"scans", "waits"} /\ departed' = TRUE /\ UNCHANGED <<inner, outer>>
  BY DEF Disconnect
<1>2. StreamTyped'
  BY <1>1 DEF StreamInv, StreamTyped
<1>3. Together'
  BY <1>1 DEF StreamInv, Together
<1>4. Told'
  BY <1>1 DEF StreamInv, Told
<1>. QED
  BY <1>2, <1>3, <1>4 DEF StreamInv

\* A request without a stream has nothing to keep.
LEMMA NoStream ==
  /\ inner = NoInner /\ outer = NoOuter /\ departed = FALSE => StreamInv
  /\ inner' = NoInner /\ outer' = NoOuter /\ departed' = FALSE => StreamInv'
<1>1. NoInner \in InnerState /\ NoOuter \in OuterState
  <2>1. 0 \in 0 .. MaxLines
    BY ResponsesBounds
  <2>. QED
    BY <2>1 DEF NoInner, NoOuter, InnerState, OuterState
<1>2. /\ NoInner.at = "off" /\ NoInner.line = "none" /\ NoInner.content = {} /\ NoInner.status = 0
      /\ NoOuter.at = "off" /\ NoOuter.line = "none" /\ NoOuter.gathered = {}
      /\ NoOuter.said = "nothing" /\ NoOuter.tooLong = FALSE
  BY DEF NoInner, NoOuter
<1>3. ASSUME inner = NoInner, outer = NoOuter, departed = FALSE PROVE StreamInv
  <2>1. StreamTyped
    BY <1>1, <1>3 DEF StreamTyped
  <2>2. Together
    BY <1>2, <1>3 DEF Together
  <2>3. Told
    BY <1>2, <1>3 DEF Told, Content
  <2>. QED
    BY <2>1, <2>2, <2>3 DEF StreamInv
<1>4. ASSUME inner' = NoInner, outer' = NoOuter, departed' = FALSE PROVE StreamInv'
  <2>1. StreamTyped'
    BY <1>1, <1>4 DEF StreamTyped
  <2>2. Together'
    BY <1>2, <1>4 DEF Together
  <2>3. Told'
    BY <1>2, <1>4 DEF Told, Content
  <2>. QED
    BY <2>1, <2>2, <2>3 DEF StreamInv
<1>. QED
  BY <1>3, <1>4

\* The first state has it.
LEMMA ResponsesInitial == ResponsesInit => ResponsesInv
<1>. SUFFICES ASSUME ResponsesInit PROVE ResponsesInv
  OBVIOUS
<1>1. StreamInv
  BY NoStream DEF ResponsesInit
<1>2. BucketTyped
  BY ResponsesBounds DEF ResponsesInit, BucketTyped
<1>3. OnceContinued
  BY DEF ResponsesInit, OnceContinued
<1>4. RecentKept
  <2>1. DOMAIN bucket = {} /\ newest = 0
    BY DEF ResponsesInit
  <2>2. Cardinality(DOMAIN bucket) = 0
    BY <2>1, FS_EmptySet
  <2>. QED
    BY <2>1, <2>2, ResponsesBounds DEF RecentKept
<1>. QED
  BY <1>1, <1>2, <1>3, <1>4 DEF ResponsesInit, ResponsesInv, BucketInv

\* Every step of a request, of its stream and of the store keeps it.
LEMMA ResponsesStep == ResponsesInv /\ [ResponsesNext]_responsesVars => ResponsesInv'
<1>. SUFFICES ASSUME ResponsesInv, [ResponsesNext]_responsesVars PROVE ResponsesInv'
  OBVIOUS
<1>0. BucketInv /\ calling \subseteq Readers /\ StreamInv
  BY DEF ResponsesInv
<1>1. UNCHANGED rememberedVars => BucketInv'
  BY <1>0 DEF BucketInv, rememberedVars, BucketTyped, OnceContinued, RecentKept
<1>2. UNCHANGED streamVars => StreamInv'
  BY <1>0 DEF StreamInv, streamVars, StreamTyped, Together, Told
<1>3. ASSUME NEW r \in Readers, BeginCall(r) PROVE ResponsesInv'
  BY <1>0, <1>2, <1>3, Consumes DEF BeginCall, ResponsesInv
<1>4. ASSUME NEW r \in Readers, AnswerFails(r) PROVE ResponsesInv'
  BY <1>0, <1>1, <1>2, <1>4 DEF AnswerFails, ResponsesInv
<1>5. ASSUME NEW r \in Readers, RememberAnswer(r) PROVE ResponsesInv'
  <2>1. BucketInv'
    BY <1>0, <1>5, Remembers
  <2>. QED
    BY <1>0, <1>2, <1>5, <2>1 DEF RememberAnswer, ResponsesInv
<1>6. CASE HourPasses
  <2>1. outdated' = newest /\ UNCHANGED <<bucket, newest, branches, calling, streamVars>>
    BY <1>6 DEF HourPasses
  <2>2. BucketInv'
    BY <1>0, <2>1, ResponsesBounds DEF BucketInv, BucketTyped, OnceContinued, RecentKept
  <2>. QED
    BY <1>0, <1>2, <2>1, <2>2 DEF ResponsesInv
<1>7. CASE Stream
  <2>1. CASE BeginStream
    <3>1. BucketInv'
      BY <1>0, <2>1, Consumes DEF BeginStream
    <3>. QED
      BY <1>0, <2>1, <3>1, StreamBegins DEF BeginStream, ResponsesInv
  <2>2. CASE WriteLine
    BY <1>0, <1>1, <2>2, LineWritten DEF WriteLine, ResponsesInv
  <2>3. CASE InnerEnds
    BY <1>0, <1>1, <2>3, WriterEnds DEF InnerEnds, ResponsesInv
  <2>4. CASE ScanLine
    BY <1>0, <1>1, <2>4, LineScanned DEF ScanLine, ResponsesInv
  <2>5. CASE HandleLine
    BY <1>0, <1>1, <2>5, LineHandled DEF HandleLine, ResponsesInv
  <2>6. CASE Terminate
    BY <1>0, <1>1, <2>6, LastWord DEF Terminate, ResponsesInv
  <2>7. CASE Disconnect
    BY <1>0, <1>1, <2>7, ClientGone DEF Disconnect, ResponsesInv
  <2>8. CASE FollowAnother
    BY <1>0, <1>1, <2>8, NoStream DEF FollowAnother, ResponsesInv
  <2>. QED
    BY <1>7, <2>1, <2>2, <2>3, <2>4, <2>5, <2>6, <2>7, <2>8 DEF Stream
<1>8. CASE UNCHANGED responsesVars
  BY <1>0, <1>1, <1>2, <1>8 DEF responsesVars, rememberedVars, streamVars, ResponsesInv
<1>. QED
  BY <1>3, <1>4, <1>5, <1>6, <1>7, <1>8 DEF ResponsesNext

\* What the types and the true answers follow from.
LEMMA ResponsesImplied == ResponsesInv => ResponsesTypeOK /\ ResponsesTrue
<1>. SUFFICES ASSUME ResponsesInv PROVE ResponsesTypeOK /\ ResponsesTrue
  OBVIOUS
<1>. USE DEF ResponsesInv, BucketInv, StreamInv
<1>1. ResponsesTypeOK
  BY DEF ResponsesTypeOK, BucketTyped, StreamTyped, InnerState, OuterState
<1>2. AnswersKept
  <2>1. DOMAIN branches = 1 .. MaxRemembered
    BY DEF BucketTyped
  <2>. QED
    BY <2>1 DEF AnswersKept, OnceContinued, RecentKept
<1>3. StreamToldTruly
  BY DEF StreamToldTruly, Together, Told, StreamTyped, InnerState, OuterState
<1>. QED
  BY <1>1, <1>2, <1>3 DEF ResponsesTrue

\* What the stored answers and the stream that is being written tell, in every state
\* (protocol_handlers.go).
THEOREM ResponsesInvariant == ResponsesSpec => []ResponsesInv
BY ResponsesInitial, ResponsesStep, PTL DEF ResponsesSpec

\* The variables hold values of their types.
THEOREM ResponsesTypeCorrect == ResponsesSpec => []ResponsesTypeOK
BY ResponsesInvariant, ResponsesImplied, PTL

\* A stored answer is continued at most once and pushed out only by newer ones, and a
\* stream that ends with its client there ends with the truth (protocol_handlers.go).
THEOREM ResponsesTrueCorrect == ResponsesSpec => []ResponsesTrue
BY ResponsesInvariant, ResponsesImplied, PTL
-----------------------------------------------------------------------------
First == {"answer", "magic", "failover"}
Stage == First \cup {"denial", "unsafe", "artifact", "route", "repair"}

Chatting == [at : {"calling"}, stage : Stage, tries : Nat, stream : BOOLEAN, tools : BOOLEAN,
             routes : BOOLEAN, files : BOOLEAN, origin : Origins, pinned : BOOLEAN,
             acc : Accounts, token : Accounts, conv : HeldConvs, full : BOOLEAN,
             outcome : {"none"}]

UpstreamCall == [n : Nat \ {0}, acc : Accounts, token : Accounts, conv : HeldConvs,
                 full : BOOLEAN, said : Nat]

Reply == [kind : Kinds, call : Nat \ {0}, token : Accounts, conv : HeldConvs, full : BOOLEAN]

Binding == [conv : HeldConvs \ {Nothing}, acc : Accounts, call : Nat \ {0}]

\* The answer of a call is given with the whole history before it.
Informed(c) == c.full \/ (c.conv # Nothing /\ c.conv.owner = c.token)

\* How many calls a request has made at most when it is at this stage.
Budget(stage, tries) ==
  CASE stage = "answer" -> 1
    [] stage \in {"magic", "failover"} -> 2
    [] stage = "denial" -> 2 + tries
    [] stage = "unsafe" -> 3 + tries
    [] stage = "artifact" -> 5 + tries
    [] stage = "route" -> 9
    [] stage = "repair" -> 10

SaidBy(words, n) == words \in Seq(Nat) /\ \A i \in DOMAIN words : words[i] = n

Silent == text = <<>> /\ held = <<>> /\ shown = <<>>

\* A request that is being served, and what its call will be told.
CallingInv ==
  chat.at = "calling" =>
    /\ chat \in Chatting /\ call \in UpstreamCall
    /\ chat.origin \in {"session", "known"} \/ (chat.origin = "client" /\ ~strayed) => chat.pinned
    /\ chat.origin \notin {"known", "cached"} => chat.full
    /\ chat.origin = "fresh" => chat.conv = Nothing
    /\ strayed \/ Informed(call)
    /\ call.n <= Budget(chat.stage, chat.tries)
    /\ chat.stage \in DOMAIN Tries => chat.tries \in 1 .. Tries[chat.stage]
    /\ chat.stage \in First =>
         /\ res = Nothing /\ bound = Nothing
         /\ chat.token = chat.acc /\ call.token = call.acc
         /\ chat.stage # "failover" => chat.acc = call.acc /\ chat.conv = call.conv /\ chat.full = call.full
         /\ ~strayed /\ call.conv # Nothing => call.conv.owner = call.acc
         /\ ~strayed /\ chat.conv # Nothing => chat.conv.owner = chat.acc
    /\ chat.stage \notin First => ~chat.stream /\ res \in Reply /\ bound \in Binding
    /\ IF chat.stream
       THEN /\ SaidBy(text, call.n) /\ SaidBy(held, call.n) /\ SaidBy(shown, call.n)
            /\ text = <<>> => Silent
       ELSE Silent

\* What was said and bound.
Ended ==
  /\ res \in Reply \cup {Nothing} /\ bound \in Binding \cup {Nothing}
  /\ res # Nothing => strayed \/ Informed(res)
  /\ bound # Nothing => strayed \/ bound.conv.owner = bound.acc
  /\ \E n \in Nat : SaidBy(held, n) /\ SaidBy(shown, n) /\ (bound # Nothing => Silent \/ bound.call = n)
  /\ Len(held) <= HoldBack
  /\ marked.image \subseteq Accounts /\ marked.dropped \in BOOLEAN

Beginning ==
  chat.at = "new" => call = Nothing /\ res = Nothing /\ bound = Nothing /\ Silent

\* What the earlier requests bound.
Bindings ==
  /\ bindings \subseteq [owner : Accounts, acc : Accounts] /\ strayed \in BOOLEAN
  /\ ~strayed => \A b \in bindings : b.owner = b.acc

CompletionInv ==
  /\ chat.at \in {"new", "calling", "over"}
  /\ Beginning /\ CallingInv /\ Ended

\* Records are told from the absence of one.
LEMMA SomethingIs ==
  /\ \A r \in UpstreamCall \cup Reply \cup Binding \cup [owner : Accounts, call : 0 .. MaxCalls] : r # Nothing
  /\ Nothing \in HeldConvs
  /\ \A a \in Accounts, n \in 0 .. MaxCalls : [owner |-> a, call |-> n] \in HeldConvs \ {Nothing}
<1>1. DOMAIN Nothing = {"none"}
  BY DEF Nothing
<1>2. \A r \in UpstreamCall : "acc" \in DOMAIN r
  BY DEF UpstreamCall
<1>3. \A r \in Reply : "kind" \in DOMAIN r
  BY DEF Reply
<1>4. \A r \in Binding : "acc" \in DOMAIN r
  BY DEF Binding
<1>5. \A r \in [owner : Accounts, call : 0 .. MaxCalls] : "owner" \in DOMAIN r
  OBVIOUS
<1>. QED
  BY <1>1, <1>2, <1>3, <1>4, <1>5 DEF HeldConvs

\* The tries of the stages that eject an answer.
LEMMA TriesAre ==
  /\ DOMAIN Tries = {"denial", "unsafe", "artifact"}
  /\ Tries["denial"] = 1 /\ Tries["unsafe"] = 2 /\ Tries["artifact"] = 3
BY DEF Tries

\* What is said of words.
LEMMA Words ==
  ASSUME NEW n \in Nat, NEW s, SaidBy(s, n)
  PROVE  /\ SaidBy(Append(s, n), n) /\ Append(s, n) # <<>>
         /\ \A t : SaidBy(t, n) => SaidBy(s \o t, n)
<1>1. s \in Seq(Nat) /\ Len(s) \in Nat /\ DOMAIN s = 1 .. Len(s)
  BY DEF SaidBy
<1>2. SaidBy(Append(s, n), n) /\ Append(s, n) # <<>>
  <2>1. /\ Append(s, n) \in Seq(Nat) /\ Append(s, n) # <<>> /\ Len(Append(s, n)) = Len(s) + 1
        /\ \A i \in 1 .. Len(s) : Append(s, n)[i] = s[i]
        /\ Append(s, n)[Len(s) + 1] = n
    BY <1>1, AppendProperties
  <2>2. DOMAIN Append(s, n) = 1 .. Len(s) + 1
    BY <2>1
  <2>. QED
    BY <1>1, <2>1, <2>2 DEF SaidBy
<1>3. ASSUME NEW t, SaidBy(t, n) PROVE SaidBy(s \o t, n)
  <2>1. t \in Seq(Nat) /\ Len(t) \in Nat /\ DOMAIN t = 1 .. Len(t)
    BY <1>3 DEF SaidBy
  <2>2. /\ s \o t \in Seq(Nat) /\ Len(s \o t) = Len(s) + Len(t)
        /\ \A i \in 1 .. Len(s) + Len(t) : (s \o t)[i] = IF i <= Len(s) THEN s[i] ELSE t[i - Len(s)]
    BY <1>1, <2>1, ConcatProperties
  <2>3. DOMAIN (s \o t) = 1 .. Len(s) + Len(t)
    BY <2>2
  <2>4. \A i \in 1 .. Len(s) + Len(t) : ~(i <= Len(s)) => i - Len(s) \in 1 .. Len(t)
    BY <1>1, <2>1
  <2>. QED
    BY <1>1, <1>3, <2>1, <2>2, <2>3, <2>4 DEF SaidBy
<1>. QED
  BY <1>2, <1>3

\* What the filter keeps and passes was said by the same call.
LEMMA Filtered ==
  ASSUME NEW n \in Nat, NEW s, SaidBy(s, n)
  PROVE  SaidBy(Kept(s), n) /\ Len(Kept(s)) <= HoldBack /\ SaidBy(Passed(s), n)
<1>1. s \in Seq(Nat) /\ Len(s) \in Nat /\ DOMAIN s = 1 .. Len(s) /\ HoldBack \in Nat
      /\ \A i \in 1 .. Len(s) : s[i] = n /\ s[i] \in Nat
  BY CompletionAssumption DEF SaidBy
<1>2. CASE ~(Len(s) > HoldBack)
  <2>1. SaidBy(<<>>, n)
    BY DEF SaidBy
  <2>. QED
    BY <1>1, <1>2, <2>1 DEF Kept, Passed
<1>3. CASE Len(s) > HoldBack
  <2>. DEFINE k == SubSeq(s, Len(s) - HoldBack + 1, Len(s))
              p == SubSeq(s, 1, Len(s) - HoldBack)
  <2>1. Kept(s) = k /\ Passed(s) = p
    BY <1>3 DEF Kept, Passed
  <2>16. /\ Len(s) \in Int /\ Len(s) - HoldBack + 1 \in Int /\ Len(s) - HoldBack \in Int /\ 1 \in Int
         /\ \A i \in Len(s) - HoldBack + 1 .. Len(s) : s[i] \in Nat
         /\ \A i \in 1 .. Len(s) - HoldBack : s[i] \in Nat
    BY <1>1, <1>3
  <2>2. /\ k \in Seq(Nat)
        /\ Len(k) = IF Len(s) - HoldBack + 1 <= Len(s) THEN Len(s) - (Len(s) - HoldBack + 1) + 1 ELSE 0
        /\ \A i \in 1 .. Len(s) - (Len(s) - HoldBack + 1) + 1 : k[i] = s[(Len(s) - HoldBack + 1) + i - 1]
    BY <2>16, SubSeqProperties
  <2>3. /\ p \in Seq(Nat)
        /\ Len(p) = IF 1 <= Len(s) - HoldBack THEN Len(s) - HoldBack - 1 + 1 ELSE 0
        /\ \A i \in 1 .. Len(s) - HoldBack - 1 + 1 : p[i] = s[1 + i - 1]
    BY <2>16, SubSeqProperties
  <2>. HIDE DEF k, p
  <2>4. DOMAIN k = 1 .. HoldBack /\ Len(k) = HoldBack
    BY <1>1, <2>2
  <2>12. Len(s) \in Nat /\ HoldBack \in Nat
    BY <1>1
  <2>13. 1 <= Len(s) - HoldBack /\ Len(s) - HoldBack - 1 + 1 = Len(s) - HoldBack
    BY <1>3, <2>12
  <2>5. Len(p) = Len(s) - HoldBack /\ Len(s) - HoldBack - 1 + 1 = Len(s) - HoldBack
    BY <2>3, <2>13
  <2>8. DOMAIN p = 1 .. Len(s) - HoldBack
    BY <2>3, <2>5
  <2>6. \A i \in DOMAIN k : k[i] = n
    BY <1>1, <1>3, <2>2, <2>4
  <2>14. \A i \in 1 .. Len(s) - HoldBack : p[i] = s[1 + i - 1]
    BY <2>3, <2>5
  <2>15. \A i \in 1 .. Len(s) - HoldBack : 1 + i - 1 = i /\ i \in 1 .. Len(s)
    BY <2>12
  <2>9. \A i \in 1 .. Len(s) - HoldBack : p[i] = s[1 + i - 1] /\ 1 + i - 1 = i /\ i \in 1 .. Len(s)
    BY <2>14, <2>15
  <2>7. \A i \in DOMAIN p : p[i] = n
    BY <1>1, <2>8, <2>9
  <2>10. SaidBy(k, n)
    BY <2>2, <2>6 DEF SaidBy
  <2>11. SaidBy(p, n)
    BY <2>3, <2>7 DEF SaidBy
  <2>. QED
    BY <1>1, <2>1, <2>4, <2>10, <2>11
<1>. QED
  BY <1>2, <1>3

\* Words that go through the filter.
LEMMA Emitted ==
  ASSUME NEW n \in Nat, NEW words, SaidBy(words, n), SaidBy(held, n), SaidBy(shown, n), EmitText(words)
  PROVE  SaidBy(held', n) /\ SaidBy(shown', n) /\ Len(held') <= HoldBack
BY Words, Filtered DEF EmitText

\* No word was said by anyone.
LEMMA NobodySpoke == \A n \in Nat : SaidBy(<<>>, n)
BY DEF SaidBy

\* The retry an answer calls for, and the calls made by then.
LEMMA NextStage ==
  ASSUME NEW stage \in Stage, NEW tries \in Nat, NEW kind \in Kinds, NEW n \in Nat,
         Rank(stage) = 0 => n <= 2,
         stage \in DOMAIN Tries =>
           /\ n <= Budget(stage, Tries[stage])
           /\ tries < Tries[stage] => n <= Budget(stage, tries),
         Retry(stage, tries, kind) # "none"
  PROVE  LET t == Retry(stage, tries, kind)
             k == IF t = stage THEN tries + 1 ELSE 1
         IN  /\ t \in Stage \ First /\ k \in Nat
             /\ n + 1 <= Budget(t, k)
             /\ t \in DOMAIN Tries => k \in 1 .. Tries[t]
<1>. DEFINE t == Retry(stage, tries, kind)
            k == IF t = stage THEN tries + 1 ELSE 1
<1>1. \/ t \in {"denial", "unsafe", "artifact"} /\ Rank(t) > Rank(stage)
      \/ t \in {"denial", "unsafe", "artifact"} /\ t = stage /\ tries < Tries[t]
      \/ t = "route" /\ Rank(stage) < 4
  BY TriesAre DEF Retry
<1>. HIDE DEF t
<1>2. t \in Stage \ First /\ k \in Nat
  BY <1>1 DEF Stage, First
<1>3. n + 1 <= Budget(t, k)
  BY <1>1, TriesAre DEF Rank, Stage, First, Budget
<1>4. t \in DOMAIN Tries => k \in 1 .. Tries[t]
  BY <1>1, TriesAre DEF Rank, Stage, First
<1>. QED
  BY <1>2, <1>3, <1>4 DEF t

\* What is to be shown of a request that goes on.
LEMMA CallingNext ==
  ASSUME chat' \in Chatting, call' \in UpstreamCall,
         chat'.origin \in {"session", "known"} \/ (chat'.origin = "client" /\ ~strayed') => chat'.pinned,
         chat'.origin \notin {"known", "cached"} => chat'.full,
         chat'.origin = "fresh" => chat'.conv = Nothing,
         strayed' \/ Informed(call'),
         call'.n <= Budget(chat'.stage, chat'.tries),
         chat'.stage \in DOMAIN Tries => chat'.tries \in 1 .. Tries[chat'.stage],
         chat'.stage \in First =>
           /\ res' = Nothing /\ bound' = Nothing
           /\ chat'.token = chat'.acc /\ call'.token = call'.acc
           /\ chat'.stage # "failover" =>
                chat'.acc = call'.acc /\ chat'.conv = call'.conv /\ chat'.full = call'.full
           /\ ~strayed' /\ call'.conv # Nothing => call'.conv.owner = call'.acc
           /\ ~strayed' /\ chat'.conv # Nothing => chat'.conv.owner = chat'.acc,
         chat'.stage \notin First => ~chat'.stream /\ res' \in Reply /\ bound' \in Binding,
         IF chat'.stream
         THEN /\ SaidBy(text', call'.n) /\ SaidBy(held', call'.n) /\ SaidBy(shown', call'.n)
              /\ text' = <<>> => held' = <<>> /\ shown' = <<>>
         ELSE text' = <<>> /\ held' = <<>> /\ shown' = <<>>
  PROVE  CallingInv'
BY DEF CallingInv, Budget, Informed, SaidBy, Silent

\* What is to be shown of what was said and bound.
LEMMA EndedNext ==
  ASSUME res' \in Reply \cup {Nothing}, bound' \in Binding \cup {Nothing},
         res' # Nothing => strayed' \/ Informed(res'),
         bound' # Nothing => strayed' \/ bound'.conv.owner = bound'.acc,
         NEW n \in Nat, SaidBy(held', n), SaidBy(shown', n),
         bound' # Nothing =>
           (text' = <<>> /\ held' = <<>> /\ shown' = <<>>) \/ bound'.call = n,
         Len(held') <= HoldBack,
         marked'.image \subseteq Accounts, marked'.dropped \in BOOLEAN
  PROVE  Ended'
BY DEF Ended, Informed, SaidBy, Silent

\* The handler goes on with an answer: another retry, or the reply.
LEMMA GoOnKeeps ==
  ASSUME CompletionInv, strayed' = strayed, chat.at = "calling", ~chat.stream,
         NEW stage \in Stage, NEW tries \in Nat, NEW acc \in Accounts, NEW r \in Reply, strayed \/ Informed(r),
         Rank(stage) = 0 => call.n <= 2,
         stage \in DOMAIN Tries =>
           /\ call.n <= Budget(stage, Tries[stage])
           /\ tries < Tries[stage] => call.n <= Budget(stage, tries),
         bound' \in Binding, strayed \/ bound'.conv.owner = bound'.acc,
         GoOn(stage, tries, acc, r)
  PROVE  CompletionInv'
<1>. DEFINE retry == Retry(stage, tries, r.kind)
            k == IF retry = stage THEN tries + 1 ELSE 1
<1>1. /\ chat \in Chatting /\ call \in UpstreamCall /\ Silent
      /\ chat.origin \in {"session", "known"} \/ (chat.origin = "client" /\ ~strayed) => chat.pinned
      /\ chat.origin \notin {"known", "cached"} => chat.full
      /\ chat.origin = "fresh" => chat.conv = Nothing
      /\ marked.image \subseteq Accounts /\ marked.dropped \in BOOLEAN
  BY DEF CompletionInv, CallingInv, Ended
<1>2. text' = <<>> /\ held' = <<>> /\ shown' = <<>> /\ res' = r
  BY <1>1 DEF GoOn, Silent
<1>3. r.kind \in Kinds /\ call.n \in Nat /\ call # Nothing
  BY <1>1, SomethingIs DEF Reply, UpstreamCall
<1>4. ASSUME chat'.origin = chat.origin, marked'.image \subseteq Accounts, marked'.dropped \in BOOLEAN
      PROVE  Ended'
  <2>1. res' \in Reply \cup {Nothing} /\ bound' \in Binding \cup {Nothing} /\ (strayed \/ Informed(res'))
    BY <1>2
  <2>2. SaidBy(held', 0) /\ SaidBy(shown', 0) /\ Len(held') <= HoldBack
    BY <1>2, NobodySpoke, CompletionAssumption
  <2>. QED
    BY <1>2, <1>4, <2>1, <2>2, EndedNext
<1>. HIDE DEF retry
<1>5. CASE retry = "none"
  <2>1. /\ chat' = [chat EXCEPT !.at = "over", !.acc = acc,
                                !.outcome = IF r.kind = "blocked" THEN "blocked" ELSE "ok"]
        /\ MarkImage(IF r.kind = "imagelimit" THEN {acc} ELSE {})
    BY <1>5 DEF GoOn, retry
  <2>2. chat'.at = "over" /\ chat'.origin = chat.origin
    BY <1>1, <2>1 DEF Chatting
  <2>3. marked'.image \subseteq Accounts /\ marked'.dropped \in BOOLEAN
    BY <1>1, <2>1 DEF MarkImage, CompletionInv, Ended
  <2>4. Ended'
    BY <1>4, <2>2, <2>3
  <2>. QED
    BY <2>2, <2>4 DEF CompletionInv, Beginning, CallingInv
<1>6. CASE retry # "none"
  <2>1. /\ chat' = [chat EXCEPT !.stage = retry, !.acc = acc, !.tries = k]
        /\ call' = Calling(acc, chat.token, Nothing, TRUE)
        /\ marked' = marked
    BY <1>6 DEF GoOn, retry
  <2>2. /\ retry \in Stage \ First /\ k \in Nat
        /\ call.n + 1 <= Budget(retry, k)
        /\ retry \in DOMAIN Tries => k \in 1 .. Tries[retry]
    BY <1>3, <1>6, NextStage DEF retry
  <2>. HIDE DEF k
  <2>3. /\ chat' \in Chatting /\ chat'.at = "calling" /\ chat'.origin = chat.origin
        /\ chat'.pinned = chat.pinned /\ chat'.full = chat.full /\ chat'.conv = chat.conv
        /\ chat'.stage = retry /\ chat'.tries = k /\ chat'.stream = chat.stream
    BY <1>1, <2>1, <2>2 DEF Chatting
  <2>4. /\ call' \in UpstreamCall /\ call'.n = call.n + 1 /\ call'.full
    BY <1>1, <1>3, <2>1, SomethingIs DEF Chatting, UpstreamCall, Calling
  <2>5. Ended'
    BY <1>1, <1>4, <2>1, <2>3
  <2>6. CallingInv'
    <3>1. Informed(call')
      BY <2>4 DEF Informed
    <3>. QED
      BY <1>1, <1>2, <2>2, <2>3, <2>4, <3>1, CallingNext
  <2>. QED
    BY <2>3, <2>5, <2>6 DEF CompletionInv, Beginning
<1>. QED
  BY <1>5, <1>6

\* The request is over and nothing was said since.
LEMMA OverNext ==
  ASSUME CompletionInv, strayed' = strayed, chat'.at = "over", chat'.origin = chat.origin,
         UNCHANGED <<text, held, shown, res, bound>>,
         marked'.image \subseteq Accounts, marked'.dropped \in BOOLEAN
  PROVE  CompletionInv'
<1>1. Ended'
  BY DEF CompletionInv, Ended, Informed, SaidBy, Silent
<1>. QED
  BY <1>1 DEF CompletionInv, Beginning, CallingInv

\* A call that answers, as the handler has it.
LEMMA Answer ==
  ASSUME CompletionInv, chat.at = "calling", NEW kind \in Kinds
  PROVE  UpstreamAnswer(kind) \in Reply /\ (strayed \/ Informed(UpstreamAnswer(kind)))
BY DEF CompletionInv, CallingInv, UpstreamAnswer, UpstreamCall, Reply, Informed

\* What is bound when the first answer comes.
LEMMA Stored ==
  ASSUME CompletionInv, strayed' = strayed, chat.at = "calling", chat.stage \in First, StoreTurn
  PROVE  /\ bound' \in Binding /\ bound'.call = call.n
         /\ strayed \/ bound'.conv.owner = bound'.acc
<1>1. /\ chat \in Chatting /\ call \in UpstreamCall /\ call.token = call.acc
      /\ ~strayed /\ call.conv # Nothing => call.conv.owner = call.acc
  BY DEF CompletionInv, CallingInv
<1>4. call.n <= 2
  <2>1. call.n <= Budget(chat.stage, chat.tries) /\ call.n \in Nat
    BY DEF CompletionInv, CallingInv, UpstreamCall
  <2>2. Budget(chat.stage, chat.tries) <= 2
    BY DEF Budget, First
  <2>. QED
    BY <2>1, <2>2 DEF Budget, First
<1>2. call.n \in 0 .. MaxCalls /\ call.n \in Nat \ {0} /\ call.acc \in Accounts /\ call.conv \in HeldConvs
  BY <1>1, <1>4 DEF UpstreamCall, MaxCalls
<1>3. Named \in HeldConvs \ {Nothing} /\ (strayed \/ Named.owner = call.acc)
  BY <1>1, <1>2, SomethingIs DEF Named
<1>. QED
  BY <1>2, <1>3 DEF StoreTurn, Binding

\* A stream that has its answer.
LEMMA StreamKeeps ==
  ASSUME CompletionInv, strayed' = strayed, chat.at = "calling", chat.stage \in First, chat.stream,
         NEW kind \in Kinds, NEW images, StreamAnswered(kind, images)
  PROVE  CompletionInv'
<1>. DEFINE n == call.n
            whole == IF text = <<>> THEN <<n>> ELSE text
            pictures == IF images = "sent" THEN [i \in 1 .. HoldBack + 1 |-> n] ELSE <<>>
            rest == (IF shown = <<>> THEN whole ELSE <<>>) \o pictures
<1>1. /\ chat \in Chatting /\ call \in UpstreamCall /\ res = Nothing /\ bound = Nothing
      /\ SaidBy(text, n) /\ SaidBy(held, n) /\ SaidBy(shown, n)
      /\ marked.image \subseteq Accounts /\ marked.dropped \in BOOLEAN /\ Len(held) <= HoldBack
  BY DEF CompletionInv, CallingInv, Ended
<1>2. n \in Nat \ {0} /\ call.acc \in Accounts
  BY <1>1 DEF UpstreamCall
<1>3. /\ chat'.at = "over" /\ chat'.origin = chat.origin
  BY <1>1 DEF StreamAnswered, Chatting
<1>4. marked'.image \subseteq Accounts /\ marked'.dropped \in BOOLEAN
  BY <1>1, <1>2 DEF StreamAnswered, MarkImage, CompletionInv, Ended
<1>5. res' \in Reply /\ (strayed \/ Informed(res'))
  BY Answer DEF StreamAnswered
<1>6. /\ bound' \in Binding \cup {Nothing}
      /\ bound' # Nothing => bound'.call = n /\ (strayed \/ bound'.conv.owner = bound'.acc)
  BY <1>1, Stored DEF StreamAnswered
<1>7. SaidBy(held', n) /\ SaidBy(shown', n) /\ Len(held') <= HoldBack
  <2>1. CASE kind = "blocked"
    BY <1>1, <2>1 DEF StreamAnswered
  <2>2. CASE kind # "blocked"
    <3>1. EmitText(rest)
      BY <2>2 DEF StreamAnswered
    <3>2. SaidBy(<<>>, n) /\ SaidBy(<<n>>, n)
      BY <1>2 DEF SaidBy
    <3>3. SaidBy(pictures, n)
      <4>1. SaidBy([i \in 1 .. HoldBack + 1 |-> n], n)
        BY <1>2, CompletionAssumption DEF SaidBy
      <4>. QED
        BY <3>2, <4>1
    <3>4. SaidBy(IF shown = <<>> THEN whole ELSE <<>>, n)
      BY <1>1, <3>2
    <3>. HIDE DEF pictures, whole
    <3>5. SaidBy(rest, n)
      BY <1>2, <3>3, <3>4, Words
    <3>. HIDE DEF rest
    <3>. QED
      BY <1>1, <1>2, <3>1, <3>5, Emitted
  <2>. QED
    BY <2>1, <2>2
<1>8. Ended'
  BY <1>2, <1>3, <1>4, <1>5, <1>6, <1>7, EndedNext
<1>. QED
  BY <1>3, <1>8 DEF CompletionInv, Beginning, CallingInv

\* The request is given an account and a conversation.
LEMMA AdmitKeeps == CompletionInv /\ Bindings /\ Admit => CompletionInv' /\ Bindings'
<1>. SUFFICES ASSUME CompletionInv, Bindings, Admit PROVE CompletionInv' /\ Bindings'
  OBVIOUS
<1>1. PICK stream, tools, routes, files, named, pinned, full \in BOOLEAN, origin \in Origins,
           acc, owner \in Accounts :
        /\ named \/ origin \in {"session", "known"} => pinned
        /\ Offered(origin, named, owner, acc)
        /\ origin # "known" => (full <=> origin # "cached")
        /\ tools => ~stream
        /\ routes => tools
        /\ LET conv == IF origin = "fresh" THEN Nothing ELSE [owner |-> owner, call |-> 0]
           IN  /\ chat' = [at |-> "calling", stage |-> "answer", tries |-> 0,
                           stream |-> stream, tools |-> tools, routes |-> routes, files |-> files,
                           origin |-> origin, pinned |-> pinned,
                           acc |-> acc, token |-> acc, conv |-> conv, full |-> full,
                           outcome |-> "none"]
               /\ call' = Calling(acc, acc, conv, full)
        /\ strayed' = (strayed \/ Strays(origin, named, owner, acc))
  BY Zenon DEF Admit
<1>. DEFINE conv == IF origin = "fresh" THEN Nothing ELSE [owner |-> owner, call |-> 0]
<1>2. /\ call = Nothing /\ res = Nothing /\ bound = Nothing /\ Silent
      /\ marked.image \subseteq Accounts /\ marked.dropped \in BOOLEAN
  BY DEF CompletionInv, Beginning, Ended, Admit
<1>3. UNCHANGED <<text, held, shown, res, bound, marked, bindings>>
  BY DEF Admit
<1>11. (strayed => strayed') /\ strayed' \in BOOLEAN /\ Bindings'
  <2>1. strayed \in BOOLEAN /\ Strays(origin, named, owner, acc) \in BOOLEAN
    BY DEF Bindings, Strays
  <2>2. (strayed => strayed') /\ strayed' \in BOOLEAN
    BY <1>1, <2>1
  <2>. QED
    BY <1>3, <2>2 DEF Bindings
\* Without a client that names what is not the other's, the stores agree.
<1>12. ~strayed' => /\ origin # "fresh" => owner = acc
                    /\ origin = "client" => pinned
  <2>. SUFFICES ASSUME ~strayed' PROVE /\ origin # "fresh" => owner = acc
                                       /\ origin = "client" => pinned
    OBVIOUS
  <2>1. ~strayed /\ ~Strays(origin, named, owner, acc)
    BY <1>1
  <2>2. origin = "client" => named /\ pinned /\ owner = acc
    BY <1>1, <2>1 DEF Strays
  <2>3. origin \in {"session", "known", "cached"} => owner = acc
    <3>1. CASE origin \in {"session", "known"} /\ named
      BY <2>1, <3>1 DEF Strays
    <3>2. CASE origin = "cached" \/ (origin \in {"session", "known"} /\ ~named)
      <4>1. [owner |-> owner, acc |-> acc] \in bindings
        BY <1>1, <3>2 DEF Offered
      <4>. QED
        BY <2>1, <4>1 DEF Bindings
    <3>. QED
      BY <3>1, <3>2
  <2>. QED
    BY <2>2, <2>3 DEF Origins
<1>4. /\ conv \in HeldConvs
      /\ conv # Nothing => conv.owner = owner /\ origin # "fresh"
      /\ origin = "fresh" => conv = Nothing
      /\ origin \notin {"known", "cached"} => full
      /\ ~strayed' => full \/ (conv # Nothing /\ conv.owner = acc)
  <2>1. 0 \in 0 .. MaxCalls
    BY DEF MaxCalls
  <2>2. [owner |-> owner, call |-> 0] \in HeldConvs \ {Nothing}
    BY <1>1, <2>1, SomethingIs
  <2>3. conv \in HeldConvs
    BY <2>2, SomethingIs
  <2>5. conv # Nothing => conv.owner = owner /\ origin # "fresh"
    OBVIOUS
  <2>6. origin \notin {"known", "cached"} => full
    BY <1>1
  <2>7. ~strayed' => full \/ (conv # Nothing /\ conv.owner = acc)
    BY <1>12, <2>2, <2>6
  <2>. QED
    BY <2>3, <2>5, <2>6, <2>7
<1>. HIDE DEF conv
<1>5. /\ chat' = [at |-> "calling", stage |-> "answer", tries |-> 0,
                  stream |-> stream, tools |-> tools, routes |-> routes, files |-> files,
                  origin |-> origin, pinned |-> pinned,
                  acc |-> acc, token |-> acc, conv |-> conv, full |-> full,
                  outcome |-> "none"]
      /\ call' = [n |-> 1, acc |-> acc, token |-> acc, conv |-> conv, full |-> full, said |-> 0]
  BY <1>1, <1>2 DEF conv, Calling
<1>6. chat' \in Chatting /\ call' \in UpstreamCall
  <2>5. "answer" \in Stage
    BY DEF Stage, First
  <2>6. 0 \in Nat /\ 1 \in Nat \ {0}
    OBVIOUS
  <2>1. 0 \in Nat /\ 1 \in Nat \ {0} /\ "answer" \in Stage
    BY <2>5, <2>6
  <2>2. chat' \in Chatting
    BY <1>1, <1>4, <1>5, <2>1 DEF Chatting
  <2>3. call' \in UpstreamCall
    BY <1>1, <1>4, <1>5, <2>1 DEF UpstreamCall
  <2>. QED
    BY <2>2, <2>3
<1>7. Budget(chat'.stage, chat'.tries) = 1
  BY <1>5 DEF Budget
<1>8. strayed' \/ Informed(call')
  BY <1>4, <1>5 DEF Informed
<1>9. CallingInv'
  <2>1. SaidBy(<<>>, 1)
    BY NobodySpoke
  <2>2. text' = <<>> /\ held' = <<>> /\ shown' = <<>> /\ res' = Nothing /\ bound' = Nothing
    BY <1>2, <1>3 DEF Silent
  <2>3. /\ chat'.stage = "answer" /\ chat'.stage \in First /\ chat'.stage \notin DOMAIN Tries
        /\ call'.n = 1 /\ chat'.origin = origin /\ chat'.pinned = pinned /\ chat'.full = full
        /\ chat'.conv = conv /\ chat'.acc = acc /\ chat'.token = acc
        /\ call'.acc = acc /\ call'.token = acc /\ call'.conv = conv /\ call'.full = full
    BY <1>5, TriesAre DEF First
  <2>. QED
    BY <1>1, <1>4, <1>6, <1>7, <1>8, <1>12, <2>1, <2>2, <2>3, CallingNext
<1>10. Ended'
  <2>1. SaidBy(held', 0) /\ SaidBy(shown', 0) /\ Len(held') <= HoldBack
    BY <1>2, <1>3, NobodySpoke, CompletionAssumption DEF Silent
  <2>. QED
    BY <1>2, <1>3, <2>1, EndedNext
<1>. QED
  BY <1>5, <1>9, <1>10, <1>11 DEF CompletionInv, Beginning

\* The next request comes, and finds what this one bound.
LEMMA NextRequestKeeps == CompletionInv /\ Bindings /\ NextRequest => CompletionInv' /\ Bindings'
<1>. SUFFICES ASSUME CompletionInv, Bindings, NextRequest PROVE CompletionInv' /\ Bindings'
  OBVIOUS
<1>1. /\ chat'.at = "new" /\ call' = Nothing /\ res' = Nothing /\ bound' = Nothing
      /\ text' = <<>> /\ held' = <<>> /\ shown' = <<>>
      /\ marked'.image \subseteq Accounts /\ marked'.dropped \in BOOLEAN
      /\ bindings' = bindings \union {[owner |-> b.conv.owner, acc |-> b.acc] : b \in {bound} \ {Nothing}}
      /\ strayed' = strayed
  BY DEF NextRequest
<1>2. CompletionInv'
  <2>1. SaidBy(held', 0) /\ SaidBy(shown', 0) /\ Len(held') <= HoldBack
    BY <1>1, NobodySpoke, CompletionAssumption
  <2>2. Ended'
    BY <1>1, <2>1, EndedNext
  <2>. QED
    BY <1>1, <2>2 DEF CompletionInv, Beginning, CallingInv, Silent
<1>3. Bindings'
  <2>1. ASSUME bound # Nothing
        PROVE  /\ bound.conv.owner \in Accounts /\ bound.acc \in Accounts
               /\ strayed \/ bound.conv.owner = bound.acc
    BY <2>1 DEF CompletionInv, Ended, Binding, HeldConvs
  <2>2. ASSUME NEW b \in bindings'
        PROVE  b \in [owner : Accounts, acc : Accounts] /\ (strayed \/ b.owner = b.acc)
    <3>1. CASE b \in bindings
      BY <3>1 DEF Bindings
    <3>2. CASE bound # Nothing /\ b = [owner |-> bound.conv.owner, acc |-> bound.acc]
      BY <2>1, <3>2
    <3>. QED
      BY <1>1, <2>2, <3>1, <3>2
  <2>. QED
    BY <1>1, <2>2 DEF Bindings
<1>. QED
  BY <1>2, <1>3

\* A word of a stream.
LEMMA DeltaKeeps == CompletionInv /\ strayed' = strayed /\ Delta => CompletionInv'
<1>. SUFFICES ASSUME CompletionInv, strayed' = strayed, Delta PROVE CompletionInv'
  OBVIOUS
<1>. DEFINE n == call.n
<1>1. /\ chat.at = "calling" /\ chat.stream /\ chat' = chat /\ res' = res /\ bound' = bound /\ marked' = marked
      /\ call' = [call EXCEPT !.said = @ + 1] /\ text' = Append(text, n) /\ EmitText(<<n>>)
  BY DEF Delta
<1>2. CallingInv /\ Ended /\ chat \in Chatting /\ call \in UpstreamCall
  BY <1>1 DEF CompletionInv, CallingInv
<1>3. /\ chat.stage \in First /\ res = Nothing /\ bound = Nothing
      /\ SaidBy(text, n) /\ SaidBy(held, n) /\ SaidBy(shown, n)
  BY <1>1, <1>2 DEF CallingInv
<1>4. /\ call' \in UpstreamCall /\ call'.n = n /\ call'.acc = call.acc /\ call'.token = call.token
      /\ call'.conv = call.conv /\ call'.full = call.full /\ n \in Nat
  BY <1>1, <1>2 DEF UpstreamCall
<1>5. SaidBy(<<n>>, n)
  BY <1>4 DEF SaidBy
<1>6. SaidBy(text', n) /\ text' # <<>> /\ SaidBy(held', n) /\ SaidBy(shown', n) /\ Len(held') <= HoldBack
  BY <1>1, <1>3, <1>4, <1>5, Words, Emitted
<1>7. Ended'
  BY <1>1, <1>2, <1>3, <1>4, <1>6, EndedNext DEF Ended
<1>8. CallingInv'
  <2>1. strayed' \/ Informed(call')
    BY <1>1, <1>2, <1>4 DEF CallingInv, Informed
  <2>. QED
    BY <1>1, <1>2, <1>3, <1>4, <1>6, <2>1, CallingNext DEF CallingInv
<1>. QED
  BY <1>1, <1>7, <1>8 DEF CompletionInv, Beginning

\* A request that is refused, or answered without a call.
LEMMA RefusalKeeps == CompletionInv /\ strayed' = strayed /\ (Refuse \/ AnswerLocally) => CompletionInv'
<1>. SUFFICES ASSUME CompletionInv, strayed' = strayed, Refuse \/ AnswerLocally PROVE CompletionInv'
  OBVIOUS
<1>1. /\ chat.at = "new" /\ chat'.at = "over" /\ UNCHANGED <<call, text, held, shown, res, bound, marked>>
  BY DEF Refuse, AnswerLocally
<1>2. bound = Nothing
  BY <1>1 DEF CompletionInv, Beginning
<1>3. Ended'
  BY <1>1, <1>2 DEF CompletionInv, Ended, Informed, SaidBy, Silent
<1>. QED
  BY <1>1, <1>3 DEF CompletionInv, Beginning, CallingInv

\* The request ends with an error.
LEMMA GiveUpKeeps ==
  ASSUME CompletionInv, strayed' = strayed, chat.at = "calling", NEW why, GiveUp(why)
  PROVE  CompletionInv'
<1>1. chat \in Chatting /\ call \in UpstreamCall /\ marked.image \subseteq Accounts /\ marked.dropped \in BOOLEAN
  BY DEF CompletionInv, CallingInv, Ended
<1>2. chat'.at = "over" /\ chat'.origin = chat.origin
  BY <1>1 DEF GiveUp, Close, Chatting
<1>3. marked'.image \subseteq Accounts /\ marked'.dropped \in BOOLEAN
  BY <1>1 DEF GiveUp, Chatting, UpstreamCall
<1>. QED
  BY <1>2, <1>3, OverNext DEF GiveUp

\* The first call fails.
LEMMA FirstFailsKeeps ==
  ASSUME CompletionInv, strayed' = strayed, chat.at = "calling", chat.stage = "answer", NEW why \in Errors, FirstFails(why)
  PROVE  CompletionInv'
<1>. DEFINE conv == IF chat.origin = "known" THEN Nothing ELSE chat.conv
            moves(stage, c) == /\ chat' = [chat EXCEPT !.stage = stage] /\ call' = c
                              /\ UNCHANGED <<text, held, shown, res, bound, marked>>
<1>1. \/ /\ why = "empty" /\ ~chat.stream
         /\ moves("magic", Calling(chat.acc, chat.token, chat.conv, chat.full))
      \/ /\ FailsOver(why)
         /\ \E other \in Accounts \ {chat.acc} :
              moves("failover", Calling(other, other, conv, chat.full))
      \/ GiveUp(why)
  BY DEF FirstFails
<1>2. /\ chat \in Chatting /\ call \in UpstreamCall /\ res = Nothing /\ bound = Nothing
      /\ chat.origin \in {"session", "known"} \/ (chat.origin = "client" /\ ~strayed) => chat.pinned
      /\ chat.origin \notin {"known", "cached"} => chat.full
      /\ chat.origin = "fresh" => chat.conv = Nothing
      /\ (strayed \/ Informed(call)) /\ chat.token = chat.acc /\ call.token = call.acc
      /\ chat.acc = call.acc /\ chat.conv = call.conv /\ chat.full = call.full
      /\ call.n <= 1
      /\ ~strayed /\ chat.conv # Nothing => chat.conv.owner = chat.acc
      /\ IF chat.stream
         THEN /\ SaidBy(text, call.n) /\ SaidBy(held, call.n) /\ SaidBy(shown, call.n)
              /\ text = <<>> => Silent
         ELSE Silent
  BY DEF CompletionInv, CallingInv, First, Budget
<1>3. call.n = 1 /\ call # Nothing
  BY <1>2, SomethingIs DEF UpstreamCall
<1>4. ASSUME NEW stage \in {"magic", "failover"}, NEW acc \in Accounts,
             NEW c \in HeldConvs, strayed \/ chat.full \/ (c # Nothing /\ c.owner = acc),
             ~strayed /\ c # Nothing => c.owner = acc,
             Silent,
             stage = "magic" => acc = chat.acc /\ c = chat.conv,
             moves(stage, Calling(acc, acc, c, chat.full))
      PROVE  CompletionInv'
  <2>1. /\ chat' = [chat EXCEPT !.stage = stage]
        /\ call' = [n |-> 2, acc |-> acc, token |-> acc, conv |-> c, full |-> chat.full, said |-> 0]
        /\ text' = text /\ held' = held /\ shown' = shown /\ res' = res /\ bound' = bound /\ marked' = marked
    BY <1>3, <1>4 DEF Calling
  <2>. HIDE DEF moves
  <2>2. /\ chat' \in Chatting /\ chat'.stage = stage /\ chat'.at = "calling"
        /\ chat'.origin = chat.origin /\ chat'.pinned = chat.pinned /\ chat'.full = chat.full
        /\ chat'.conv = chat.conv /\ chat'.acc = chat.acc /\ chat'.token = chat.token
        /\ chat'.stream = chat.stream
    BY <1>2, <1>4, <2>1 DEF Chatting, Stage, First
  <2>3. call' \in UpstreamCall
    BY <1>2, <1>4, <2>1 DEF UpstreamCall, Chatting
  <2>4. /\ call'.n = 2 /\ call'.acc = acc /\ call'.token = acc /\ call'.conv = c /\ call'.full = chat.full
    BY <2>1
  <2>5. strayed' \/ Informed(call')
    BY <1>4, <2>4 DEF Informed
  <2>6. Budget(chat'.stage, chat'.tries) = 2
    BY <1>4, <2>2 DEF Budget
  <2>7. chat'.stage \in First /\ chat'.stage \notin DOMAIN Tries
    BY <1>4, <2>2, TriesAre DEF First
  <2>8. SaidBy(<<>>, 2) /\ text' = <<>> /\ held' = <<>> /\ shown' = <<>>
    BY <1>4, <2>1, NobodySpoke DEF Silent
  <2>9. CallingInv'
    BY <1>2, <1>4, <2>1, <2>2, <2>3, <2>4, <2>5, <2>6, <2>7, <2>8, CallingNext
  <2>10. Ended'
    BY <2>1, <2>2 DEF CompletionInv, Ended, Informed, SaidBy, Silent
  <2>. QED
    BY <2>2, <2>9, <2>10 DEF CompletionInv, Beginning
<1>5. chat.acc \in Accounts /\ chat.conv \in HeldConvs /\ chat.full \in BOOLEAN /\ chat.origin \in Origins
  BY <1>2 DEF Chatting
<1>6. CASE /\ why = "empty" /\ ~chat.stream
           /\ moves("magic", Calling(chat.acc, chat.token, chat.conv, chat.full))
  <2>1. strayed \/ chat.full \/ (chat.conv # Nothing /\ chat.conv.owner = chat.acc)
    BY <1>2 DEF Informed
  <2>. HIDE DEF moves
  <2>. QED
    BY <1>2, <1>4, <1>5, <1>6, <2>1
<1>7. CASE /\ FailsOver(why)
           /\ \E other \in Accounts \ {chat.acc} :
                moves("failover", Calling(other, other, conv, chat.full))
  <2>1. /\ chat.origin # "cached" /\ ~chat.pinned
        /\ chat.stream => text = <<>>
    BY <1>7 DEF FailsOver
  <2>2. PICK other \in Accounts : moves("failover", Calling(other, other, conv, chat.full))
    BY <1>7
  <2>3. chat.origin \in {"fresh", "client"} /\ chat.full /\ conv = chat.conv /\ Silent
    BY <1>2, <1>5, <2>1 DEF Origins
  <2>4. strayed \/ chat.conv = Nothing
    BY <1>2, <2>1, <2>3
  <2>. HIDE DEF moves, conv
  <2>. QED
    BY <1>4, <1>5, <2>2, <2>3, <2>4
<1>8. CASE GiveUp(why)
  BY <1>8, GiveUpKeeps
<1>. QED
  BY <1>1, <1>6, <1>7, <1>8

\* The model that routes to a tool has spoken.
LEMMA RoutedKeeps ==
  ASSUME CompletionInv, strayed' = strayed, chat.at = "calling", chat.stage \in {"route", "repair"}, NEW kind \in Kinds, Routed(kind)
  PROVE  CompletionInv'
<1>1. /\ chat \in Chatting /\ call \in UpstreamCall /\ ~chat.stream /\ res \in Reply /\ bound \in Binding
      /\ Silent /\ (strayed \/ Informed(res)) /\ bound # Nothing
      /\ strayed \/ bound.conv.owner = bound.acc
      /\ marked.image \subseteq Accounts /\ marked.dropped \in BOOLEAN
      /\ chat.origin \in {"session", "known"} \/ (chat.origin = "client" /\ ~strayed) => chat.pinned
      /\ chat.origin \notin {"known", "cached"} => chat.full
      /\ chat.origin = "fresh" => chat.conv = Nothing
      /\ chat.stage = "route" => call.n <= 9
  <2>1. chat \in Chatting /\ call \in UpstreamCall /\ ~chat.stream /\ res \in Reply /\ bound \in Binding /\ Silent
    BY DEF CompletionInv, CallingInv, First
  <2>2. bound # Nothing /\ res # Nothing
    BY <2>1, SomethingIs
  <2>3. chat.stage = "route" => call.n <= 9
    BY DEF CompletionInv, CallingInv, Budget
  <2>. QED
    BY <2>1, <2>2, <2>3 DEF CompletionInv, CallingInv, Ended
<1>2. CASE /\ kind = "calls" /\ Close("ok") /\ res' = UpstreamAnswer(kind)
           /\ UNCHANGED <<call, text, held, shown, marked, bound>>
  <2>1. chat'.at = "over" /\ chat'.origin = chat.origin
    BY <1>1, <1>2 DEF Close, Chatting
  <2>2. res' \in Reply /\ (strayed \/ Informed(res'))
    BY <1>2, Answer
  <2>3. SaidBy(held', 0) /\ SaidBy(shown', 0) /\ Len(held') <= HoldBack
        /\ text' = <<>> /\ held' = <<>> /\ shown' = <<>>
    BY <1>1, <1>2, NobodySpoke, CompletionAssumption DEF Silent
  <2>4. Ended'
    BY <1>1, <1>2, <2>1, <2>2, <2>3, EndedNext
  <2>. QED
    BY <2>1, <2>4 DEF CompletionInv, Beginning, CallingInv
<1>3. CASE /\ kind # "calls" /\ chat.stage = "route"
           /\ chat' = [chat EXCEPT !.stage = "repair"]
           /\ call' = Calling(chat.acc, chat.token, Nothing, TRUE)
           /\ UNCHANGED <<text, held, shown, res, marked, bound>>
  <2>1. /\ chat' \in Chatting /\ chat'.stage = "repair" /\ chat'.at = "calling"
        /\ chat'.origin = chat.origin /\ chat'.pinned = chat.pinned /\ chat'.full = chat.full
        /\ chat'.conv = chat.conv /\ chat'.stream = chat.stream
    BY <1>1, <1>3 DEF Chatting, Stage
  <2>2. call # Nothing
    BY <1>1, SomethingIs
  <2>3. /\ call' \in UpstreamCall /\ call'.n = call.n + 1 /\ call'.full
    BY <1>1, <1>3, <2>2, SomethingIs DEF Chatting, UpstreamCall, Calling
  <2>4. call'.n <= 10 /\ Informed(call')
    <3>1. call.n <= 9 /\ call.n \in Nat
      BY <1>1, <1>3 DEF UpstreamCall
    <3>2. Informed(call')
      BY <2>3 DEF Informed
    <3>. QED
      BY <2>3, <3>1, <3>2
  <2>5. Budget(chat'.stage, chat'.tries) = 10 /\ chat'.stage \notin First /\ chat'.stage \notin DOMAIN Tries
    BY <2>1, TriesAre DEF Budget, First
  <2>6. CallingInv'
    BY <1>1, <1>3, <2>1, <2>3, <2>4, <2>5, CallingNext DEF Silent
  <2>7. Ended'
    BY <1>3, <2>1 DEF CompletionInv, Ended, Informed, SaidBy, Silent
  <2>. QED
    BY <2>1, <2>6, <2>7 DEF CompletionInv, Beginning
<1>4. CASE kind # "calls" /\ GoOn("repair", 0, chat.acc, res) /\ bound' = bound
  <2>1. "repair" \in Stage /\ Rank("repair") = 5 /\ "repair" \notin DOMAIN Tries /\ chat.acc \in Accounts
    BY <1>1, TriesAre DEF Stage, Rank, Chatting
  <2>2. 0 \in Nat /\ Rank("repair") # 0
    BY <2>1
  <2>. QED
    BY <1>1, <1>4, <2>1, <2>2, GoOnKeeps
<1>. QED
  BY <1>2, <1>3, <1>4 DEF Routed

\* The call answers.
LEMMA CallAnswersKeeps == CompletionInv /\ strayed' = strayed /\ CallAnswers => CompletionInv'
<1>. SUFFICES ASSUME CompletionInv, strayed' = strayed, CallAnswers PROVE CompletionInv'
  OBVIOUS
<1>1. /\ chat.at = "calling" /\ chat \in Chatting /\ call \in UpstreamCall
      /\ chat.stage \in Stage /\ chat.tries \in Nat /\ chat.acc \in Accounts /\ call.acc \in Accounts
  BY DEF CallAnswers, CompletionInv, CallingInv, Chatting, UpstreamCall
<1>2. PICK kind \in Kinds, images \in {"none", "sent", "lost"} :
        CASE Rank(chat.stage) = 0 -> FirstAnswered(kind, images)
          [] Rank(chat.stage) \in 1 .. 3 -> RetryAnswered(kind)
          [] OTHER -> Routed(kind)
  BY DEF CallAnswers
<1>3. /\ Rank(chat.stage) = 0 <=> chat.stage \in First
      /\ Rank(chat.stage) \in 1 .. 3 <=> chat.stage \in DOMAIN Tries
      /\ Rank(chat.stage) = 0 => ~(Rank(chat.stage) \in 1 .. 3)
  BY <1>1, TriesAre DEF Stage, First, Rank
<1>4. CASE chat.stage \in First
  <2>1. FirstAnswered(kind, images)
    BY <1>2, <1>3, <1>4
  <2>2. CASE chat.stream
    BY <1>1, <1>4, <2>1, <2>2, StreamKeeps DEF FirstAnswered
  <2>3. CASE ~chat.stream
    <3>1. GoOn(chat.stage, 0, call.acc, UpstreamAnswer(kind)) /\ StoreTurn
      BY <2>1, <2>3 DEF FirstAnswered
    <3>2. /\ bound' \in Binding /\ (strayed \/ bound'.conv.owner = bound'.acc)
      BY <1>1, <1>4, <3>1, Stored
    <3>3. UpstreamAnswer(kind) \in Reply /\ (strayed \/ Informed(UpstreamAnswer(kind)))
      BY <1>1, Answer
    <3>4. call.n <= 2
      BY <1>1, <1>4 DEF CompletionInv, CallingInv, Budget, First, UpstreamCall
    <3>5. chat.stage \notin DOMAIN Tries
      BY <1>4, TriesAre DEF First
    <3>. QED
      BY <1>1, <2>3, <3>1, <3>2, <3>3, <3>4, <3>5, GoOnKeeps
  <2>. QED
    BY <2>2, <2>3
<1>5. ASSUME chat.stage \notin First
      PROVE  /\ ~chat.stream /\ res \in Reply /\ (strayed \/ Informed(res)) /\ bound \in Binding
             /\ strayed \/ bound.conv.owner = bound.acc
  <2>1. ~chat.stream /\ res \in Reply /\ bound \in Binding
    BY <1>1, <1>5 DEF CompletionInv, CallingInv
  <2>. QED
    BY <2>1, SomethingIs DEF CompletionInv, Ended
<1>6. CASE chat.stage \in DOMAIN Tries
  <2>1. RetryAnswered(kind) /\ chat.stage \notin First
    BY <1>2, <1>3, <1>6
  <2>. DEFINE r == IF chat.stage = "denial" /\ kind = "denial" THEN res ELSE UpstreamAnswer(kind)
  <2>2. r \in Reply /\ (strayed \/ Informed(r))
    BY <1>1, <1>5, <2>1, Answer
  <2>3. GoOn(chat.stage, chat.tries, chat.acc, r) /\ bound' = bound
    BY <2>1 DEF RetryAnswered
  <2>4. /\ call.n <= Budget(chat.stage, Tries[chat.stage])
        /\ call.n <= Budget(chat.stage, chat.tries)
    <3>1. /\ call.n <= Budget(chat.stage, chat.tries) /\ chat.tries \in 1 .. Tries[chat.stage] /\ call.n \in Nat
      BY <1>1, <1>6 DEF CompletionInv, CallingInv, UpstreamCall
    <3>2. /\ Budget(chat.stage, chat.tries) <= Budget(chat.stage, Tries[chat.stage])
          /\ Budget(chat.stage, chat.tries) \in Nat /\ Budget(chat.stage, Tries[chat.stage]) \in Nat
      BY <1>1, <1>6, <3>1, TriesAre DEF Budget
    <3>. QED
      BY <3>1, <3>2
  <2>5. Rank(chat.stage) # 0
    BY <1>3, <2>1
  <2>. HIDE DEF r
  <2>. QED
    BY <1>1, <1>5, <2>1, <2>2, <2>3, <2>4, <2>5, GoOnKeeps
<1>7. CASE chat.stage \notin First /\ chat.stage \notin DOMAIN Tries
  <2>1. Routed(kind)
    BY <1>2, <1>3, <1>7
  <2>2. chat.stage \in {"route", "repair"}
    BY <1>1, <1>7, TriesAre DEF Stage
  <2>. QED
    BY <1>1, <2>1, <2>2, RoutedKeeps
<1>. QED
  BY <1>4, <1>6, <1>7

\* The call fails.
LEMMA CallFailsKeeps == CompletionInv /\ strayed' = strayed /\ CallFails => CompletionInv'
<1>. SUFFICES ASSUME CompletionInv, strayed' = strayed, CallFails PROVE CompletionInv'
  OBVIOUS
<1>1. /\ chat.at = "calling" /\ chat \in Chatting /\ call \in UpstreamCall
      /\ chat.stage \in Stage /\ chat.tries \in Nat /\ chat.acc \in Accounts
  BY DEF CallFails, CompletionInv, CallingInv, Chatting
<1>2. PICK why \in Errors :
        CASE chat.stage = "answer" -> FirstFails(why)
          [] chat.stage = "magic" -> GiveUp("empty")
          [] chat.stage = "failover" -> GiveUp(why)
          [] OTHER -> GoOn(chat.stage, 3, chat.acc, res) /\ UNCHANGED bound
  BY DEF CallFails
<1>3. CASE chat.stage = "answer"
  <2>1. FirstFails(why)
    BY <1>2, <1>3
  <2>. QED
    BY <1>1, <1>3, <2>1, FirstFailsKeeps
<1>4. CASE chat.stage \in {"magic", "failover"}
  <2>1. \E w : GiveUp(w)
    BY <1>2, <1>4
  <2>. QED
    BY <1>1, <2>1, GiveUpKeeps
<1>5. CASE chat.stage \notin First
  <2>1. GoOn(chat.stage, 3, chat.acc, res) /\ bound' = bound
    BY <1>2, <1>5 DEF First
  <2>2. ~chat.stream /\ res \in Reply /\ bound \in Binding
    BY <1>1, <1>5 DEF CompletionInv, CallingInv
  <2>3. (strayed \/ Informed(res)) /\ (strayed \/ bound.conv.owner = bound.acc)
    BY <2>2, SomethingIs DEF CompletionInv, Ended
  <2>4. Rank(chat.stage) # 0
    BY <1>1, <1>5 DEF Stage, First, Rank
  <2>5. chat.stage \in DOMAIN Tries =>
          /\ call.n <= Budget(chat.stage, Tries[chat.stage])
          /\ ~(3 < Tries[chat.stage])
    <3>. SUFFICES ASSUME chat.stage \in DOMAIN Tries
                  PROVE  /\ call.n <= Budget(chat.stage, Tries[chat.stage])
                         /\ ~(3 < Tries[chat.stage])
      OBVIOUS
    <3>1. /\ call.n <= Budget(chat.stage, chat.tries) /\ chat.tries \in 1 .. Tries[chat.stage] /\ call.n \in Nat
      BY <1>1 DEF CompletionInv, CallingInv, UpstreamCall
    <3>2. /\ Budget(chat.stage, chat.tries) <= Budget(chat.stage, Tries[chat.stage])
          /\ Budget(chat.stage, chat.tries) \in Nat /\ Budget(chat.stage, Tries[chat.stage]) \in Nat
          /\ ~(3 < Tries[chat.stage])
      BY <1>1, <3>1, TriesAre DEF Budget
    <3>. QED
      BY <3>1, <3>2
  <2>6. 3 \in Nat /\ bound' \in Binding /\ (strayed \/ bound'.conv.owner = bound'.acc)
    BY <2>1, <2>2, <2>3
  <2>. QED
    BY <1>1, <2>1, <2>2, <2>3, <2>4, <2>5, <2>6, GoOnKeeps
<1>. QED
  BY <1>1, <1>3, <1>4, <1>5 DEF Stage, First

\* The inductive invariant of a request holds always.
THEOREM CompletionInvCorrect == CompletionSpec => [](CompletionInv /\ Bindings)
<1>1. CompletionInit => CompletionInv /\ Bindings
  <2>. SUFFICES ASSUME CompletionInit PROVE CompletionInv /\ Bindings
    OBVIOUS
  <2>1. chat.at = "new"
    BY DEF CompletionInit
  <2>2. Beginning /\ CallingInv
    BY <2>1 DEF CompletionInit, Beginning, CallingInv, Silent
  <2>3. /\ SaidBy(<<>>, 0) /\ held = <<>> /\ shown = <<>> /\ Len(held) <= HoldBack
        /\ marked.image \subseteq Accounts /\ marked.dropped \in BOOLEAN
        /\ res = Nothing /\ bound = Nothing
    BY NobodySpoke, CompletionAssumption DEF CompletionInit
  <2>4. Ended
    BY <2>3 DEF Ended
  <2>5. Bindings
    BY DEF CompletionInit, Bindings
  <2>. QED
    BY <2>1, <2>2, <2>4, <2>5 DEF CompletionInv
<1>2. CompletionInv /\ Bindings /\ [CompletionNext]_completionVars => CompletionInv' /\ Bindings'
  <2>4. Bindings /\ UNCHANGED <<bindings, strayed>> => Bindings'
    BY DEF Bindings
  <2>1. ASSUME CompletionInv, UNCHANGED completionVars PROVE CompletionInv'
    <3>1. /\ strayed' = strayed /\ chat' = chat /\ call' = call /\ text' = text /\ held' = held /\ shown' = shown
          /\ res' = res /\ bound' = bound /\ marked' = marked
      BY <2>1 DEF completionVars
    <3>2. Ended'
      BY <2>1, <3>1 DEF CompletionInv, Ended, Informed, SaidBy, Silent
    <3>3. Beginning'
      BY <2>1, <3>1 DEF CompletionInv, Beginning, Silent
    <3>4. CASE chat.at = "calling"
      <4>1. CallingInv'
        BY <2>1, <3>1, <3>4, CallingNext DEF CompletionInv, CallingInv, Silent
      <4>. QED
        BY <2>1, <3>1, <3>2, <3>3, <4>1 DEF CompletionInv
    <3>5. CASE chat.at # "calling"
      BY <2>1, <3>1, <3>2, <3>3, <3>5 DEF CompletionInv, CallingInv
    <3>. QED
      BY <3>4, <3>5
  <2>2. ASSUME CompletionInv, strayed' = strayed,
               Refuse \/ AnswerLocally \/ Delta \/ CallAnswers \/ CallFails
        PROVE  CompletionInv'
    BY <2>2, DeltaKeeps, RefusalKeeps, CallAnswersKeeps, CallFailsKeeps
  <2>3. UNCHANGED completionVars => UNCHANGED <<bindings, strayed>>
    BY DEF completionVars
  <2>. QED
    BY <2>1, <2>2, <2>3, <2>4, AdmitKeeps, NextRequestKeeps DEF CompletionNext
<1>. QED
  BY <1>1, <1>2, PTL DEF CompletionSpec

\* A request keeps its types and makes at most ten upstream calls, whatever its
\* answers are like: every stage of openaiChat spends its tries and never comes back.
THEOREM CompletionTypeCorrect == CompletionSpec => []CompletionTypeOK
<1>1. CompletionInv /\ Bindings => CompletionTypeOK
  <2>. SUFFICES ASSUME CompletionInv, Bindings PROVE CompletionTypeOK
    OBVIOUS
  <2>1. ASSUME chat.at = "calling"
        PROVE  /\ chat.acc \in Accounts /\ chat.token \in Accounts /\ chat.conv \in HeldConvs
               /\ call.n \in 1 .. MaxCalls /\ call.conv \in HeldConvs
               /\ Rank(chat.stage) \in 1 .. 3 => chat.tries \in 1 .. Tries[chat.stage]
               /\ Rank(chat.stage) > 0 => res # Nothing /\ bound # Nothing
    <3>1. chat \in Chatting /\ call \in UpstreamCall
      BY <2>1 DEF CompletionInv, CallingInv
    <3>2. /\ chat.acc \in Accounts /\ chat.token \in Accounts /\ chat.conv \in HeldConvs /\ chat.stage \in Stage
          /\ call.conv \in HeldConvs /\ call.n \in Nat \ {0} /\ chat.tries \in Nat
      BY <3>1 DEF Chatting, UpstreamCall
    <3>3. chat.stage \in DOMAIN Tries => chat.tries \in 1 .. Tries[chat.stage]
      BY <2>1 DEF CompletionInv, CallingInv
    <3>4. Budget(chat.stage, chat.tries) <= 10 /\ Budget(chat.stage, chat.tries) \in Nat
      BY <3>2, <3>3, TriesAre DEF Budget, Stage, First
    <3>5. call.n <= Budget(chat.stage, chat.tries)
      BY <2>1 DEF CompletionInv, CallingInv
    <3>6. call.n \in 1 .. MaxCalls
      BY <3>2, <3>4, <3>5 DEF MaxCalls
    <3>7. Rank(chat.stage) \in 1 .. 3 => chat.tries \in 1 .. Tries[chat.stage]
      BY <3>2, <3>3, TriesAre DEF Rank, Stage, First
    <3>8. Rank(chat.stage) > 0 => chat.stage \notin First
      BY <3>2 DEF Rank, First
    <3>9. chat.stage \notin First => res # Nothing /\ bound # Nothing
      BY <2>1, SomethingIs DEF CompletionInv, CallingInv
    <3>. QED
      BY <3>2, <3>6, <3>7, <3>8, <3>9
  <2>. QED
    BY <2>1 DEF CompletionTypeOK, CompletionInv, Ended, Bindings
<1>. QED
  BY <1>1, CompletionInvCorrect, PTL

\* What a client is sent was said by one call, the one whose conversation is bound for
\* its next turn; and as long as no client named an account or a conversation that is not
\* the other's, every call of every request had the whole history before it, however
\* many requests came before and whatever they bound (openaiChat, server.go).
THEOREM OneAnswerCorrect == CompletionSpec => []OneAnswer
<1>1. CompletionInv => OneAnswer
  <2>. SUFFICES ASSUME CompletionInv PROVE OneAnswer
    OBVIOUS
  <2>1. PICK n \in Nat : /\ SaidBy(held, n) /\ SaidBy(shown, n)
                         /\ bound # Nothing => Silent \/ bound.call = n
    BY DEF CompletionInv, Ended
  <2>2. SaidBy(shown \o held, n)
    BY <2>1, Words
  <2>3. \A i, j \in DOMAIN (shown \o held) : (shown \o held)[i] = (shown \o held)[j]
    BY <2>2 DEF SaidBy
  <2>4. ASSUME bound # Nothing, shown # <<>> PROVE shown[1] = bound.call
    <3>1. bound.call = n
      BY <2>1, <2>4 DEF Silent
    <3>2. 1 \in DOMAIN shown
      BY <2>1, <2>4, EmptySeq, LenProperties DEF SaidBy
    <3>. QED
      BY <2>1, <3>1, <3>2 DEF SaidBy
  <2>. QED
    BY <2>3, <2>4 DEF OneAnswer, NoSplice, AnswerHasItsHistory, CompletionInv, Ended, Informed
<1>. QED
  BY <1>1, CompletionInvCorrect, PTL
-----------------------------------------------------------------------------
(* A turn of the ChatHub client.                                           *)

Text == Seq(STRING)

Frame == [kind : {"ping", "update", "result", "completion", "error"},
          verdict : {"Success", "throttled", "failed", "busy", "timeout", "drop"},
          cursor : Text, text : Text, tool : BOOLEAN, offense : BOOLEAN]

\* The frames between the upstream and the loop, the one in the reader's hand last.
Pipe == IF reader.at = "holding" THEN Append(readCh, reader.frame) ELSE readCh

TurnOf == [at : {"dial", "upload", "hello", "send", "loop", "over"}, reused : BOOLEAN,
           uploading : BOOLEAN, conn : {"none", "open", "closed"}, outcome : Outcomes, text : Text]

TurnTyped ==
  /\ turn \in TurnOf
  /\ reader \in [at : {"none", "reading", "holding", "gone"}, frame : Frame \cup {Empty}]
  /\ reader.at = "holding" => reader.frame \in Frame
  /\ readCh \in Seq(Frame) /\ Len(readCh) <= ReadCap
  /\ ctx \in {"live", "canceled", "expired"} /\ late \in {"no", "fired", "seen"}
  /\ said \in [first : Text, streamed : Text, final : Text, offense : BOOLEAN]
  /\ upstream \in [answer : Answers, pos : Nat, resulted : BOOLEAN]
  /\ upstream.pos <= Len(upstream.answer)
  /\ seen \in [broken : BOOLEAN, faithful : BOOLEAN]

\* A turn that has not ended says nothing of its end.
Undecided ==
  IF turn.at = "over" THEN turn.outcome # "none" /\ turn.conn = "closed" ELSE turn.outcome = "none"

\* A turn that is not in its loop has read nothing.
NothingRead ==
  /\ turn.at \in {"dial", "upload", "hello", "send"} => reader.at = "none"
  /\ reader.at = "none" => readCh = Empty /\ upstream.pos = 0 /\ ~upstream.resulted

\* A frame says that the connection was lost only when it was.
Lost(f, broken) ==
  IF f.kind = "error" THEN broken /\ f.verdict \in {"timeout", "drop"} ELSE f.verdict \in {"Success", "throttled", "failed", "busy"}

LossInv ==
  /\ \A i \in 1 .. Len(Pipe) : Lost(Pipe[i], seen.broken)
  /\ reader.at = "gone" => seen.broken \/ ctx # "live" \/ turn.at = "over"
  /\ DropIsReal

\* The final text that is still to be emitted is no notice.
FirstInv ==
  /\ NoticeNeverFirst
  /\ turn.at # "over" /\ said.streamed = Empty => Notice(said.final) = "none"

\* What a frame adds to the a words streamed before it.
Follows(f, a, b, answer) ==
  /\ IF f.kind = "update" /\ f.cursor # Empty
     THEN b = a + 1 /\ b <= Len(answer) /\ f.cursor = <<answer[b]>> /\ ~f.tool
     ELSE b = a
  /\ f.kind = "update" => IsPrefix(f.text, answer) /\ Len(f.text) <= b
  /\ f.kind = "result" => f.text \in {Empty, answer}

\* The whole answer has been said before the i-th frame.
Whole(at, line, i, final, answer) ==
  \/ at[i] = Len(answer)
  \/ final = answer
  \/ \E j \in 1 .. i - 1 : line[j].kind = "result" /\ line[j].text = answer

\* at[i] is how much has been streamed when the loop comes to the i-th frame.
Chained(at, line, sd, up, rd) ==
  /\ at \in [1 .. Len(line) + 1 -> 0 .. Len(up.answer)]
  /\ at[1] = Len(sd.streamed)
  /\ \A i \in 1 .. Len(line) : Follows(line[i], at[i], at[i + 1], up.answer)
  /\ \A i \in 1 .. Len(line) : line[i].kind = "completion" => Whole(at, line, i, sd.final, up.answer)
  /\ rd.at # "gone" =>
       IF up.resulted THEN Whole(at, line, Len(line) + 1, sd.final, up.answer)
       ELSE at[Len(line) + 1] = up.pos

FaithInv ==
  seen.faithful =>
    /\ IsPrefix(said.streamed, upstream.answer)
    /\ said.final \in {Empty, upstream.answer}
    /\ turn.outcome = "ok" => turn.text = upstream.answer /\ said.streamed = upstream.answer
    /\ turn.at # "over" => \E at \in [1 .. Len(Pipe) + 1 -> 0 .. Len(upstream.answer)] :
                             Chained(at, Pipe, said, upstream, reader)

TurnInv == TurnTyped /\ Undecided /\ NothingRead /\ LossInv /\ FirstInv /\ FaithInv
TurnRest == Undecided /\ NothingRead /\ LossInv /\ FirstInv /\ FaithInv

-----------------------------------------------------------------------------
\* A prefix is no longer than what it begins, and agrees with it.
LEMMA PrefixIs ==
  ASSUME NEW S, NEW s \in Seq(S), NEW t \in Seq(S)
  PROVE  IsPrefix(s, t) <=> Len(s) <= Len(t) /\ \A i \in 1 .. Len(s) : s[i] = t[i]
<1>1. SubSeq(s, 1, Len(s)) = s
  BY SubSeqFull
<1>. SUFFICES ASSUME Len(s) <= Len(t)
              PROVE  s = SubSeq(t, 1, Len(s)) <=> \A i \in 1 .. Len(s) : s[i] = t[i]
  BY <1>1 DEF IsPrefix
<1>2. Len(s) \in Nat /\ Len(t) \in Nat /\ \A i \in 1 .. Len(s) : t[i] \in S
  BY LenProperties, ElementOfSeq
<1>3. 1 \in Int /\ Len(s) \in Int
  BY <1>2
<1>4. /\ SubSeq(t, 1, Len(s)) \in Seq(S)
      /\ Len(SubSeq(t, 1, Len(s))) = IF 1 <= Len(s) THEN Len(s) - 1 + 1 ELSE 0
      /\ \A i \in 1 .. Len(s) - 1 + 1 : SubSeq(t, 1, Len(s))[i] = t[1 + i - 1]
  BY <1>2, <1>3, SubSeqProperties
<1>. DEFINE u == SubSeq(t, 1, Len(s))
<1>5. u \in Seq(S) /\ Len(u) = Len(s)
  BY <1>2, <1>4
<1>6. \A i \in 1 .. Len(s) : i \in 1 .. Len(s) - 1 + 1 /\ 1 + i - 1 = i
  BY <1>2
<1>7. \A i \in 1 .. Len(s) : u[i] = t[i]
  BY <1>4, <1>6
<1>. HIDE DEF u
<1>8. ASSUME \A i \in 1 .. Len(s) : s[i] = t[i] PROVE s = u
  BY <1>5, <1>7, <1>8, SeqEqual
<1>. QED
  BY <1>7, <1>8 DEF u

\* The empty text begins every text.
LEMMA EmptyBegins ==
  ASSUME NEW S, NEW t \in Seq(S)
  PROVE  Empty \in Seq(S) /\ Len(Empty) = 0 /\ IsPrefix(Empty, t) /\ IsPrefix(t, t)
<1>1. Empty \in Seq(S) /\ Len(Empty) = 0 /\ Len(t) \in Nat
  BY EmptySeq, LenProperties DEF Empty
<1>2. IsPrefix(t, t)
  BY <1>1, PrefixIs
<1>3. Len(Empty) <= Len(t) /\ \A i \in 1 .. Len(Empty) : Empty[i] = t[i]
  BY <1>1
<1>4. IsPrefix(Empty, t)
  BY <1>1, <1>3, PrefixIs
<1>. QED
  BY <1>1, <1>2, <1>4

\* What two texts have in common; the longest of it, when the one begins the other,
\* is the one.
LEMMA OverlapIs ==
  ASSUME NEW S, NEW s \in Seq(S), NEW t \in Seq(S)
  PROVE  Overlap(s, t) \in Nat /\ (IsPrefix(s, t) => Overlap(s, t) = Len(s))
<1>. DEFINE C == CommonPrefixes({s, t})
            Longest(l) == \A o \in C : Len(o) <= Len(l)
<1>1. ASSUME NEW u \in {s, t}, NEW l \in 0 .. Len(u)
      PROVE  SubSeq(u, 1, l) \in Seq(S)
  <2>1. u \in Seq(S) /\ Len(u) \in Nat
    BY LenProperties
  <2>2. \A i \in 1 .. l : u[i] \in S
    BY <2>1, ElementOfSeq
  <2>3. 1 \in Int /\ l \in Int
    BY <2>1
  <2>. QED
    BY <2>2, <2>3, SubSeqProperties
<1>2. \A c \in C : c \in Seq(S) /\ IsPrefix(c, s) /\ IsPrefix(c, t)
  BY <1>1 DEF CommonPrefixes, Prefixes
<1>3. \A c \in Seq(S) : (\E l \in 0 .. Len(s) : c = SubSeq(s, 1, l)) /\ IsPrefix(c, s) /\ IsPrefix(c, t) => c \in C
  BY DEF CommonPrefixes, Prefixes
<1>. HIDE DEF C
<1>4. Empty \in C
  <2>1. 0 \in 0 .. Len(s) /\ SubSeq(s, 1, 0) = Empty
    BY SubSeqEmpty, LenProperties DEF Empty
  <2>. QED
    BY <1>3, <2>1, EmptyBegins
<1>5. Len(s) \in Nat /\ \A c \in C : Len(c) \in Nat /\ Len(c) <= Len(s)
  BY <1>2, LenProperties, PrefixIs
<1>6. \E l \in C : Longest(l)
  <2>. DEFINE D == {Len(s) - Len(c) : c \in C}
  <2>1. D \in SUBSET Nat
    BY <1>5
  <2>2. D # {}
    BY <1>4
  <2>3. PICK m \in D : \A k \in D : m <= k
    BY <2>1, <2>2, Smallest
  <2>4. PICK l \in C : m = Len(s) - Len(l)
    BY <2>3
  <2>5. ASSUME NEW o \in C PROVE Len(o) <= Len(l)
    <3>1. m <= Len(s) - Len(o)
      BY <2>3
    <3>. QED
      BY <1>5, <2>4, <3>1
  <2>. QED
    BY <2>5
<1>. DEFINE L == CHOOSE l \in C : Longest(l)
<1>7. L \in C /\ Longest(L)
  BY <1>6
<1>8. Overlap(s, t) = Len(L)
  BY DEF Overlap, LongestCommonPrefix, C
<1>. HIDE DEF L
<1>9. ASSUME IsPrefix(s, t) PROVE Len(L) = Len(s)
  <2>1. Len(s) \in 0 .. Len(s) /\ SubSeq(s, 1, Len(s)) = s
    BY <1>5, SubSeqFull
  <2>2. s \in C
    BY <1>3, <1>9, <2>1, EmptyBegins
  <2>. QED
    BY <1>5, <1>7, <2>2
<1>. QED
  BY <1>5, <1>7, <1>8, <1>9

\* What is left of a text.
LEMMA TailIs ==
  ASSUME NEW S, NEW t \in Seq(S), NEW n \in Nat
  PROVE  /\ Tail_(t, n) \in Seq(S)
         /\ n = 0 => Tail_(t, n) = t
         /\ n >= Len(t) => Tail_(t, n) = Empty
         /\ n < Len(t) => /\ Len(Tail_(t, n)) = Len(t) - n
                          /\ \A i \in 1 .. Len(t) - n : Tail_(t, n)[i] = t[n + i]
<1>. DEFINE l == Len(t)
<1>1. l \in Nat /\ n + 1 \in Int /\ l \in Int
  BY LenProperties
<1>2. \A i \in n + 1 .. l : t[i] \in S
  BY <1>1, ElementOfSeq
<1>3. /\ SubSeq(t, n + 1, l) \in Seq(S)
      /\ Len(SubSeq(t, n + 1, l)) = IF n + 1 <= l THEN l - (n + 1) + 1 ELSE 0
      /\ \A i \in 1 .. l - (n + 1) + 1 : SubSeq(t, n + 1, l)[i] = t[n + 1 + i - 1]
  BY <1>1, <1>2, SubSeqProperties
<1>4. n = 0 => SubSeq(t, n + 1, l) = t
  BY SubSeqFull
<1>5. n >= l => SubSeq(t, n + 1, l) = Empty
  BY <1>1, SubSeqEmpty DEF Empty
<1>6. \A i \in 1 .. l - n : i \in 1 .. l - (n + 1) + 1 /\ n + 1 + i - 1 = n + i
  BY <1>1
<1>. DEFINE u == SubSeq(t, n + 1, l)
<1>. HIDE DEF u, l
<1>7. n < l => Len(u) = l - n /\ \A i \in 1 .. l - n : u[i] = t[n + i]
  BY <1>1, <1>3, <1>6 DEF u
<1>. QED
  BY <1>3, <1>4, <1>5, <1>7 DEF Tail_, u, l

\* What runs of the loop body are; a clean one hands over no notice as its first.
FaultOf == {"none", "canceled", "expired", "client", "busy", "image", "policy"}
RunsOf == [first : Text, streamed : Text, fault : FaultOf]
Clean(r) == r \in RunsOf /\ (r.first # Empty => Notice(r.first) = "none")

LEMMA Noticed == \A t : Notice(t) \in {"image", "busy", "policy", "none"} /\ Notice(Empty) = "none"
<1>1. \A t : Notice(t) \in {"image", "busy", "policy", "none"}
  BY DEF Notice
<1>2. Range(Empty) = {}
  BY DEF Empty, Range
<1>3. ~NoImage(Empty) /\ ~BusyNotice(Empty) /\ ~Blocked(Empty)
  BY <1>2 DEF NoImage, BusyNotice, Blocked
<1>4. Notice(Empty) = "none"
  BY <1>3 DEF Notice
<1>. QED
  BY <1>1, <1>4

\* An emission.
LEMMA EmitIs ==
  ASSUME NEW r, Clean(r), NEW d \in Text, NEW takes \in BOOLEAN, ctx \in {"live", "canceled", "expired"},
         r.fault = "none" /\ r.streamed = Empty /\ d # Empty => Notice(d) = "none"
  PROVE  /\ Clean(Emit(r, d, takes))
         /\ r.fault # "none" \/ d = Empty => Emit(r, d, takes) = r
         /\ r.fault = "none" => Emit(r, d, takes).streamed \in {r.streamed, r.streamed \o d}
         /\ Emit(r, d, takes).fault = "none" => Emit(r, d, takes).streamed = r.streamed \o d
         /\ r.streamed # Empty => Emit(r, d, takes).streamed # Empty
         /\ Emit(r, d, takes).fault \in {r.fault, ctx, "client", "none"}
<1>. DEFINE e == Emit(r, d, takes)
<1>1. r \in RunsOf /\ r.streamed \in Text /\ r.first \in Text /\ r.fault \in FaultOf
  BY DEF Clean, RunsOf
<1>2. r.streamed \o d \in Text /\ (d = Empty => r.streamed \o d = r.streamed)
      /\ (r.streamed \o d = Empty => d = Empty /\ r.streamed = Empty)
  BY <1>1, ConcatProperties, ConcatEmptySeq, ConcatEqualIffEmpty DEF Text, Empty
<1>3. CASE r.fault # "none" \/ d = Empty
  <2>1. e = r
    BY <1>3 DEF Emit
  <2>. QED
    BY <1>2, <1>3, <2>1
<1>4. CASE r.fault = "none" /\ d # Empty /\ ctx # "live"
  <2>1. e = [r EXCEPT !.fault = ctx]
    BY <1>4 DEF Emit
  <2>2. e \in RunsOf /\ e.first = r.first /\ e.streamed = r.streamed /\ e.fault = ctx /\ e.fault # "none"
    BY <1>1, <1>4, <2>1 DEF RunsOf, FaultOf
  <2>. QED
    BY <1>4, <2>2 DEF Clean
<1>5. CASE r.fault = "none" /\ d # Empty /\ ctx = "live"
  <2>1. e = [first |-> IF r.streamed = Empty THEN d ELSE r.first,
             streamed |-> r.streamed \o d,
             fault |-> IF takes THEN "none" ELSE "client"]
    BY <1>5 DEF Emit
  <2>2. e \in RunsOf /\ e.streamed = r.streamed \o d /\ e.fault \in {"none", "client"}
        /\ e.first = IF r.streamed = Empty THEN d ELSE r.first
    BY <1>1, <1>2, <2>1 DEF RunsOf, FaultOf
  <2>. QED
    BY <1>2, <1>5, <2>2 DEF Clean
<1>. QED
  BY <1>3, <1>4, <1>5

\* A snapshot.
LEMMA SnapshotIs ==
  ASSUME NEW r, Clean(r), NEW words \in Text, NEW takes \in BOOLEAN, ctx \in {"live", "canceled", "expired"}
  PROVE  /\ Clean(Snapshot(r, words, takes))
         /\ r.streamed # Empty => Snapshot(r, words, takes).streamed # Empty
         /\ Snapshot(r, words, takes).fault \in {r.fault, ctx, "client", "none", "image", "busy", "policy"}
<1>. DEFINE e == Snapshot(r, words, takes)
            d == Tail_(words, Overlap(r.streamed, words))
<1>1. r \in RunsOf /\ r.streamed \in Text
  BY DEF Clean, RunsOf
<1>2. d \in Text /\ (r.streamed = Empty => d = words)
  <2>1. Overlap(r.streamed, words) \in Nat
    BY <1>1, OverlapIs DEF Text
  <2>2. ASSUME r.streamed = Empty PROVE Overlap(r.streamed, words) = 0
    BY <2>2, EmptyBegins, OverlapIs DEF Text
  <2>. QED
    BY <2>1, <2>2, TailIs DEF Text
<1>3. CASE r.fault # "none" \/ words = Empty
  BY <1>3 DEF Snapshot
<1>4. CASE r.fault = "none" /\ words # Empty /\ r.streamed = Empty /\ Notice(words) # "none"
  <2>1. e = [r EXCEPT !.fault = Notice(words)]
    BY <1>4 DEF Snapshot
  <2>2. Notice(words) \in {"image", "busy", "policy"}
    BY <1>4, Noticed
  <2>3. e \in RunsOf /\ e.first = r.first /\ e.streamed = r.streamed /\ e.fault \in {"image", "busy", "policy"}
    BY <1>1, <2>1, <2>2 DEF RunsOf, FaultOf
  <2>. QED
    BY <2>3 DEF Clean
<1>5. CASE r.fault = "none" /\ words # Empty /\ ~(r.streamed = Empty /\ Notice(words) # "none")
  <2>1. e = Emit(r, d, takes) \/ e = r
    BY <1>5 DEF Snapshot
  <2>2. r.fault = "none" /\ r.streamed = Empty /\ d # Empty => Notice(d) = "none"
    BY <1>2, <1>5
  <2>. HIDE DEF d, e
  <2>3. /\ Clean(Emit(r, d, takes))
        /\ r.streamed # Empty => Emit(r, d, takes).streamed # Empty
        /\ Emit(r, d, takes).fault \in {r.fault, ctx, "client", "none"}
    BY <1>2, <2>2, EmitIs
  <2>. QED
    BY <2>1, <2>3 DEF e
<1>. QED
  BY <1>3, <1>4, <1>5

\* The run of the loop body begins with what was said.
LEMMA RunIs ==
  ASSUME TurnTyped, NoticeNeverFirst
  PROVE  /\ Clean(Run) /\ Run.fault = "none" /\ Run.streamed = said.streamed /\ Run.first = said.first
         /\ said.streamed \in Text /\ said.final \in Text /\ said.first \in Text
         /\ ctx \in {"live", "canceled", "expired"}
<1>1. said.streamed \in Text /\ said.final \in Text /\ said.first \in Text
  BY DEF TurnTyped
<1>2. Run \in RunsOf
  BY <1>1 DEF Run, RunsOf, FaultOf
<1>. QED
  BY <1>1, <1>2 DEF Run, Clean, NoticeNeverFirst, TurnTyped

\* What an update does, whatever the upstream sends.
LEMMA UpdatedIs ==
  ASSUME TurnTyped, NoticeNeverFirst, NEW f \in Frame, NEW takes \in BOOLEAN
  PROVE  /\ Clean(Updated(f, takes))
         /\ said.streamed # Empty => Updated(f, takes).streamed # Empty
         /\ Updated(f, takes).fault \in FaultOf
<1>. DEFINE r == IF f.cursor = Empty \/ f.tool THEN Run
                 ELSE IF said.streamed # Empty THEN Emit(Run, f.cursor, takes)
                 ELSE Snapshot(Run, f.cursor, takes)
<1>1. f.cursor \in Text /\ f.text \in Text
  BY DEF Frame
<1>2. said.streamed # Empty =>
        Clean(Emit(Run, f.cursor, takes)) /\ Emit(Run, f.cursor, takes).streamed # Empty
  BY <1>1, RunIs, EmitIs
<1>3. Clean(Snapshot(Run, f.cursor, takes))
  BY <1>1, RunIs, SnapshotIs
<1>4. Clean(r) /\ (said.streamed # Empty => r.streamed # Empty)
  BY <1>2, <1>3, RunIs
<1>5. Updated(f, takes) = Snapshot(r, f.text, takes)
  BY DEF Updated
<1>. HIDE DEF r
<1>6. /\ Clean(Snapshot(r, f.text, takes))
      /\ r.streamed # Empty => Snapshot(r, f.text, takes).streamed # Empty
  BY <1>1, <1>4, RunIs, SnapshotIs
<1>. QED
  BY <1>4, <1>5, <1>6 DEF Clean, RunsOf

\* What the end of a turn emits, whatever the upstream sent.
LEMMA FinalizedIs ==
  ASSUME TurnTyped, FirstInv, turn.at # "over", NEW takes \in BOOLEAN
  PROVE  /\ Clean(Finalized(takes).run) /\ Finalized(takes).text \in Text
         /\ Finalized(takes).run.fault \in {"none", ctx, "client"}
<1>. DEFINE d == Tail_(said.final, Len(said.streamed))
<1>1. NoticeNeverFirst /\ (said.streamed = Empty => Notice(said.final) = "none")
  BY DEF FirstInv
<1>2. Len(said.streamed) \in Nat /\ d \in Text
  BY <1>1, RunIs, LenProperties, TailIs DEF Text
<1>3. said.streamed = Empty => Notice(d) = "none"
  <2>1. said.streamed = Empty => Len(said.streamed) = 0
    BY EmptyBegins, RunIs, <1>1 DEF Text
  <2>. QED
    BY <1>1, <1>2, <2>1, RunIs, TailIs DEF Text
<1>. HIDE DEF d
<1>4. Clean(Emit(Run, d, takes)) /\ Emit(Run, d, takes).fault \in {"none", ctx, "client"}
  BY <1>1, <1>2, <1>3, RunIs, EmitIs
<1>5. Finalized(takes).run \in {Run, Emit(Run, d, takes)} /\ Finalized(takes).text \in {said.final, said.streamed}
  BY DEF Finalized, d
<1>. QED
  BY <1>1, <1>4, <1>5, RunIs

\* Two beginnings of one text are equal when they are equally long.
LEMMA OneBeginning ==
  ASSUME NEW S, NEW a \in Seq(S), NEW s \in Seq(S), NEW t \in Seq(S), IsPrefix(s, a), IsPrefix(t, a)
  PROVE  /\ Len(s) = Len(t) => s = t
         /\ Len(s) <= Len(t) => IsPrefix(s, t)
         /\ Len(s) = Len(a) => s = a
         /\ Len(s) <= Len(a)
<1>1. Len(s) \in Nat /\ Len(t) \in Nat /\ Len(a) \in Nat
  BY LenProperties
<1>2. /\ Len(s) <= Len(a) /\ \A i \in 1 .. Len(s) : s[i] = a[i]
      /\ Len(t) <= Len(a) /\ \A i \in 1 .. Len(t) : t[i] = a[i]
  BY PrefixIs
<1>3. ASSUME Len(s) = Len(t) PROVE s = t
  BY <1>2, <1>3, SeqEqual
<1>4. ASSUME Len(s) <= Len(t) PROVE IsPrefix(s, t)
  <2>1. \A i \in 1 .. Len(s) : s[i] = t[i]
    BY <1>1, <1>2, <1>4
  <2>. QED
    BY <1>4, <2>1, PrefixIs
<1>5. ASSUME Len(s) = Len(a) PROVE s = a
  BY <1>2, <1>5, SeqEqual
<1>. QED
  BY <1>2, <1>3, <1>4, <1>5

\* A beginning of a text, one word longer.
LEMMA LongerBeginning ==
  ASSUME NEW S, NEW a \in Seq(S), NEW s \in Seq(S), IsPrefix(s, a), Len(s) + 1 <= Len(a)
  PROVE  /\ <<a[Len(s) + 1]>> \in Seq(S) /\ <<a[Len(s) + 1]>> # Empty
         /\ Len(s \o <<a[Len(s) + 1]>>) = Len(s) + 1
         /\ IsPrefix(s \o <<a[Len(s) + 1]>>, a)
<1>. DEFINE n == Len(s) + 1
            w == <<a[n]>>
<1>1. Len(s) \in Nat /\ Len(a) \in Nat /\ n \in 1 .. Len(a) /\ a[n] \in S
  <2>1. Len(s) \in Nat /\ Len(a) \in Nat
    BY LenProperties
  <2>2. n \in 1 .. Len(a)
    BY <2>1
  <2>. QED
    BY <2>1, <2>2, ElementOfSeq
<1>2. w \in Seq(S) /\ Len(w) = 1 /\ w[1] = a[n] /\ w # Empty
  BY <1>1 DEF Empty
<1>. HIDE DEF w
<1>7. w \in Seq(S)
  BY <1>2
<1>3. /\ s \o w \in Seq(S) /\ Len(s \o w) = Len(s) + Len(w)
      /\ \A i \in 1 .. Len(s) + Len(w) : (s \o w)[i] = IF i <= Len(s) THEN s[i] ELSE w[i - Len(s)]
  BY ONLY <1>7, s \in Seq(S), ConcatProperties
<1>4. \A i \in 1 .. Len(s) : s[i] = a[i]
  BY PrefixIs
<1>5. ASSUME NEW i \in 1 .. n PROVE (s \o w)[i] = a[i]
  <2>1. CASE i <= Len(s)
    BY <1>1, <1>2, <1>3, <1>4, <2>1
  <2>2. CASE ~(i <= Len(s))
    <3>1. i = n /\ i - Len(s) = 1
      BY <1>1, <2>2
    <3>. QED
      BY <1>1, <1>2, <1>3, <2>2, <3>1
  <2>. QED
    BY <2>1, <2>2
<1>6. IsPrefix(s \o w, a)
  <2>1. /\ s \o w \in Seq(S) /\ Len(s \o w) = n /\ n <= Len(a)
        /\ \A i \in 1 .. Len(s \o w) : (s \o w)[i] = a[i]
    BY <1>1, <1>2, <1>3, <1>5
  <2>. QED
    BY <2>1, PrefixIs, Zenon
<1>. QED
  BY <1>2, <1>3, <1>6 DEF w

\* A beginning of a text and the rest of it.
LEMMA WithTheRest ==
  ASSUME NEW S, NEW a \in Seq(S), NEW s \in Seq(S), IsPrefix(s, a)
  PROVE  s \o Tail_(a, Len(s)) = a
<1>. DEFINE u == Tail_(a, Len(s))
<1>1. Len(s) \in Nat /\ Len(a) \in Nat /\ Len(s) <= Len(a) /\ \A i \in 1 .. Len(s) : s[i] = a[i]
  BY LenProperties, PrefixIs
<1>2. /\ u \in Seq(S)
      /\ Len(s) >= Len(a) => u = Empty
      /\ Len(s) < Len(a) => /\ Len(u) = Len(a) - Len(s)
                            /\ \A i \in 1 .. Len(a) - Len(s) : u[i] = a[Len(s) + i]
  BY <1>1, TailIs
<1>. HIDE DEF u
<1>3. CASE Len(s) >= Len(a)
  <2>1. s = a
    BY <1>1, <1>3, OneBeginning
  <2>2. s \o Empty = s
    BY ConcatEmptySeq DEF Empty
  <2>. QED
    BY <1>2, <1>3, <2>1, <2>2 DEF u
<1>4. CASE Len(s) < Len(a)
  <2>1. /\ s \o u \in Seq(S) /\ Len(s \o u) = Len(s) + Len(u)
        /\ \A i \in 1 .. Len(s) + Len(u) : (s \o u)[i] = IF i <= Len(s) THEN s[i] ELSE u[i - Len(s)]
    BY <1>2, ConcatProperties
  <2>2. Len(s) + Len(u) = Len(a)
    BY <1>1, <1>2, <1>4
  <2>3. ASSUME NEW i \in 1 .. Len(a) PROVE (s \o u)[i] = a[i]
    <3>1. CASE i <= Len(s)
      BY <1>1, <2>1, <2>2, <3>1
    <3>2. CASE ~(i <= Len(s))
      <4>1. i - Len(s) \in 1 .. Len(a) - Len(s) /\ Len(s) + (i - Len(s)) = i
        BY <1>1, <3>2
      <4>. QED
        BY <1>2, <1>4, <2>1, <2>2, <3>2, <4>1
    <3>. QED
      BY <3>1, <3>2
  <2>4. s \o u = a
    BY <2>1, <2>2, <2>3, SeqEqual
  <2>. QED
    BY <2>4 DEF u
<1>. QED
  BY <1>1, <1>3, <1>4

\* What the upstream means to say is a text.
LEMMA AnswerIs ==
  ASSUME TurnTyped
  PROVE  upstream.answer \in Text /\ Len(upstream.answer) \in Nat /\ upstream.pos \in Nat
<1>1. upstream.answer \in Text /\ upstream.pos \in Nat
  BY TurnAssumption DEF TurnTyped, Text
<1>. QED
  BY <1>1, LenProperties DEF Text

\* The first snapshot is looked at, and handed over as it is.
LEMMA FirstSnapshot ==
  ASSUME NEW r, Clean(r), r.fault = "none", r.streamed = Empty, NEW words \in Text, words # Empty,
         NEW takes \in BOOLEAN
  PROVE  \/ Notice(words) = "none" /\ Snapshot(r, words, takes) = Emit(r, words, takes)
         \/ Notice(words) # "none" /\ Snapshot(r, words, takes) = [r EXCEPT !.fault = Notice(words)]
<1>1. IsPrefix(Empty, words) /\ Overlap(Empty, words) = 0
  BY EmptyBegins, OverlapIs DEF Text
<1>2. Tail_(words, 0) = words
  BY TailIs DEF Text
<1>. QED
  BY <1>1, <1>2 DEF Snapshot

\* A snapshot of nothing new.
LEMMA OldSnapshot ==
  ASSUME NEW r, Clean(r), NEW a \in Text, NEW words \in Text, NEW takes \in BOOLEAN,
         ctx \in {"live", "canceled", "expired"},
         IsPrefix(r.streamed, a), IsPrefix(words, a),
         r.fault = "none" => Len(words) <= Len(r.streamed)
  PROVE  Snapshot(r, words, takes) = r
<1>1. r.streamed \in Text /\ Len(r.streamed) \in Nat /\ Len(words) \in Nat
  <2>1. r.streamed \in Text
    BY DEF Clean, RunsOf
  <2>. QED
    BY <2>1, LenProperties DEF Text
<1>2. CASE r.fault # "none" \/ words = Empty
  BY <1>2 DEF Snapshot
<1>3. CASE r.fault = "none" /\ words # Empty
  <2>1. r.streamed # Empty
    <3>1. Len(words) # 0
      BY <1>3, EmptySeq, LenProperties DEF Empty, Text
    <3>2. Len(Empty) = 0
      BY EmptyBegins DEF Text
    <3>. QED
      BY <1>1, <1>3, <3>1, <3>2
  <2>2. ASSUME IsPrefix(r.streamed, words) PROVE Tail_(words, Overlap(r.streamed, words)) = Empty
    <3>1. Overlap(r.streamed, words) = Len(r.streamed)
      BY <1>1, <2>2, OverlapIs DEF Text
    <3>2. Len(r.streamed) >= Len(words) /\ words \in Seq(STRING)
      BY <1>1, <1>3 DEF Text
    <3>3. Tail_(words, Len(r.streamed)) = Empty
      BY <1>1, <3>2, TailIs
    <3>. QED
      BY <3>1, <3>3
  <2>3. Emit(r, Empty, takes) = r
    BY DEF Emit
  <2>4. ~(Len(words) > Len(r.streamed))
    BY <1>1, <1>3
  <2>. QED
    BY <1>3, <2>1, <2>2, <2>3, <2>4 DEF Snapshot
<1>. QED
  BY <1>2, <1>3

\* A frame of a faithful upstream brings the next word, or none.
LEMMA UpdatedFaithfully ==
  ASSUME TurnTyped, NoticeNeverFirst, NEW f \in Frame, NEW takes \in BOOLEAN, f.kind = "update",
         IsPrefix(said.streamed, upstream.answer), NEW b, Follows(f, Len(said.streamed), b, upstream.answer)
  PROVE  /\ IsPrefix(Updated(f, takes).streamed, upstream.answer)
         /\ Updated(f, takes).fault = "none" => Len(Updated(f, takes).streamed) = b
<1>. DEFINE r == IF f.cursor = Empty \/ f.tool THEN Run
                 ELSE IF said.streamed # Empty THEN Emit(Run, f.cursor, takes)
                 ELSE Snapshot(Run, f.cursor, takes)
            answer == upstream.answer
<1>1. /\ f.cursor \in Text /\ f.text \in Text /\ answer \in Text /\ said.streamed \in Text
      /\ Len(said.streamed) \in Nat /\ Len(answer) \in Nat
      /\ IsPrefix(f.text, answer) /\ Len(f.text) <= b
  BY AnswerIs, RunIs, LenProperties DEF Frame, Text, Follows
<1>2. Updated(f, takes) = Snapshot(r, f.text, takes)
  BY DEF Updated
<1>3. /\ Clean(r) /\ IsPrefix(r.streamed, answer)
      /\ r.fault = "none" => Len(r.streamed) = b
  <2>1. CASE f.cursor = Empty
    <3>1. b = Len(said.streamed) /\ r = Run
      BY <2>1 DEF Follows
    <3>. QED
      BY <3>1, RunIs
  <2>2. CASE f.cursor # Empty
    <3>1. b = Len(said.streamed) + 1 /\ b <= Len(answer) /\ f.cursor = <<answer[b]>> /\ ~f.tool
      BY <2>2 DEF Follows
    <3>2. /\ Len(said.streamed \o f.cursor) = b /\ IsPrefix(said.streamed \o f.cursor, answer)
      BY <1>1, <3>1, LongerBeginning DEF Text
    <3>3. ASSUME said.streamed = Empty => Notice(f.cursor) = "none",
                 r = Emit(Run, f.cursor, takes)
          PROVE  /\ Clean(r) /\ IsPrefix(r.streamed, answer)
                 /\ r.fault = "none" => Len(r.streamed) = b
      <4>. HIDE DEF r
      <4>1. /\ Clean(Emit(Run, f.cursor, takes))
            /\ Emit(Run, f.cursor, takes).streamed \in {said.streamed, said.streamed \o f.cursor}
            /\ Emit(Run, f.cursor, takes).fault = "none" =>
                 Emit(Run, f.cursor, takes).streamed = said.streamed \o f.cursor
        <5>1. Run.fault = "none" /\ Run.streamed = Empty /\ f.cursor # Empty => Notice(f.cursor) = "none"
          BY <3>3, RunIs
        <5>2. /\ Clean(Run) /\ Run.fault = "none" /\ Run.streamed = said.streamed /\ f.cursor \in Text
              /\ ctx \in {"live", "canceled", "expired"}
          BY <1>1, RunIs
        <5>. DEFINE ee == Emit(Run, f.cursor, takes)
        <5>3. /\ Clean(ee)
              /\ Run.fault = "none" => ee.streamed \in {Run.streamed, Run.streamed \o f.cursor}
              /\ ee.fault = "none" => ee.streamed = Run.streamed \o f.cursor
          BY <5>1, <5>2, EmitIs
        <5>. HIDE DEF ee
        <5>4. /\ Clean(ee) /\ ee.streamed \in {said.streamed, said.streamed \o f.cursor}
              /\ ee.fault = "none" => ee.streamed = said.streamed \o f.cursor
          BY <5>2, <5>3
        <5>. QED
          BY <5>4 DEF ee
      <4>. QED
        BY <3>2, <3>3, <4>1
    <3>4. CASE said.streamed # Empty
      BY <2>2, <3>1, <3>3, <3>4
    <3>5. CASE said.streamed = Empty
      <4>1. r = Snapshot(Run, f.cursor, takes)
        BY <2>2, <3>1, <3>5
      <4>2. CASE Notice(f.cursor) = "none"
        <5>1. r = Emit(Run, f.cursor, takes)
          BY <1>1, <2>2, <3>5, <4>1, <4>2, FirstSnapshot, RunIs
        <5>. QED
          BY <3>3, <4>2, <5>1
      <4>3. CASE Notice(f.cursor) # "none"
        <5>1. r = [Run EXCEPT !.fault = Notice(f.cursor)]
          BY <1>1, <2>2, <3>5, <4>1, <4>3, FirstSnapshot, RunIs
        <5>. HIDE DEF r
        <5>2. Run \in RunsOf /\ Notice(f.cursor) \in {"image", "busy", "policy"}
          BY <4>3, Noticed, RunIs DEF Clean
        <5>3. r \in RunsOf /\ r.streamed = said.streamed /\ r.first = said.first /\ r.fault # "none"
          BY <5>1, <5>2, RunIs DEF RunsOf, FaultOf
        <5>. QED
          BY <5>3 DEF Clean, NoticeNeverFirst
      <4>. QED
        BY <4>2, <4>3
    <3>. QED
      BY <3>4, <3>5
  <2>. QED
    BY <2>1, <2>2
<1>. HIDE DEF r, answer
<1>4. Snapshot(r, f.text, takes) = r
  <2>1. r.fault = "none" => Len(f.text) <= Len(r.streamed)
    BY <1>1, <1>3
  <2>. QED
    BY <1>1, <1>3, <2>1, OldSnapshot, RunIs
<1>. QED
  BY <1>2, <1>3, <1>4 DEF answer

\* The end of a turn with a faithful upstream.
LEMMA FinalizedFaithfully ==
  ASSUME TurnTyped, FirstInv, turn.at # "over", NEW takes \in BOOLEAN,
         IsPrefix(said.streamed, upstream.answer), said.final \in {Empty, upstream.answer}
  PROVE  /\ IsPrefix(Finalized(takes).run.streamed, upstream.answer)
         /\ said.streamed = upstream.answer \/ said.final = upstream.answer =>
              /\ Finalized(takes).text = upstream.answer
              /\ Finalized(takes).run.fault = "none" => Finalized(takes).run.streamed = upstream.answer
<1>. DEFINE answer == upstream.answer
            d == Tail_(said.final, Len(said.streamed))
            e == Emit(Run, d, takes)
<1>1. NoticeNeverFirst /\ (said.streamed = Empty => Notice(said.final) = "none")
  BY DEF FirstInv
<1>2. /\ answer \in Text /\ said.streamed \in Text /\ Len(said.streamed) \in Nat /\ Len(answer) \in Nat
      /\ Len(Empty) = 0 /\ said.final \in Text /\ Len(said.streamed) <= Len(answer)
  BY <1>1, AnswerIs, RunIs, LenProperties, EmptyBegins, OneBeginning DEF Text
<1>3. d \in Text /\ (said.streamed = Empty => d = said.final)
  BY <1>2, TailIs DEF Text
<1>. HIDE DEF d
<1>4. /\ e.streamed \in {said.streamed, said.streamed \o d}
      /\ e.fault = "none" => e.streamed = said.streamed \o d
  <2>1. Run.fault = "none" /\ Run.streamed = Empty /\ d # Empty => Notice(d) = "none"
    BY <1>1, <1>3, RunIs
  <2>2. /\ Clean(Run) /\ Run.fault = "none" /\ Run.streamed = said.streamed /\ d \in Text
        /\ ctx \in {"live", "canceled", "expired"}
    BY <1>1, <1>3, RunIs
  <2>3. /\ Run.fault = "none" => e.streamed \in {Run.streamed, Run.streamed \o d}
        /\ e.fault = "none" => e.streamed = Run.streamed \o d
    BY <2>1, <2>2, EmitIs
  <2>. HIDE DEF e
  <2>. QED
    BY <2>2, <2>3
<1>5. said.final = answer => said.streamed \o d = answer
  BY <1>2, WithTheRest DEF Text, d
<1>. HIDE DEF e
<1>6. /\ Finalized(takes).run = IF MissesTail THEN e ELSE Run
      /\ Finalized(takes).text = IF Len(said.final) > Len(said.streamed) THEN said.final ELSE said.streamed
  BY DEF Finalized, d, e
<1>7. IsPrefix(answer, answer)
  BY <1>2, EmptyBegins DEF Text
<1>8. CASE said.final = answer /\ Len(said.final) > Len(said.streamed)
  <2>1. MissesTail
    BY <1>8 DEF MissesTail
  <2>. QED
    BY <1>4, <1>5, <1>6, <1>7, <1>8, <2>1
<1>9. CASE ~(said.final = answer /\ Len(said.final) > Len(said.streamed))
  <2>1. ~(Len(said.final) > Len(said.streamed))
    BY <1>2, <1>9
  <2>2. Finalized(takes).run = Run /\ Finalized(takes).text = said.streamed
    BY <1>6, <2>1 DEF MissesTail
  <2>3. said.final = answer => said.streamed = answer
    BY <1>2, <2>1, OneBeginning DEF Text
  <2>. QED
    BY <1>1, <2>2, <2>3, RunIs
<1>. QED
  BY <1>8, <1>9

-----------------------------------------------------------------------------
\* A frame is read: the chain goes on.
LEMMA ChainGrows ==
  ASSUME NEW line \in Seq(Frame), NEW f \in Frame, NEW at, NEW sd, NEW up, NEW rd, NEW up2, NEW rd2, NEW b,
         Chained(at, line, sd, up, rd), up2.answer = up.answer, Len(up.answer) \in Nat,
         b \in 0 .. Len(up.answer), Follows(f, at[Len(line) + 1], b, up.answer),
         f.kind = "completion" => Whole(at, line, Len(line) + 1, sd.final, up.answer),
         IF up2.resulted THEN \/ f.kind = "result" /\ f.text = up.answer
                              \/ b = at[Len(line) + 1] /\ Whole(at, line, Len(line) + 1, sd.final, up.answer)
         ELSE b = up2.pos
  PROVE  \E at2 \in [1 .. Len(Append(line, f)) + 1 -> 0 .. Len(up2.answer)] :
           Chained(at2, Append(line, f), sd, up2, rd2)
<1>. DEFINE n == Len(line)
            line2 == Append(line, f)
            at2 == [i \in 1 .. n + 2 |-> IF i = n + 2 THEN b ELSE at[i]]
<1>1. n \in Nat /\ at \in [1 .. n + 1 -> 0 .. Len(up.answer)]
  BY LenProperties DEF Chained
<1>2. line2 \in Seq(Frame) /\ Len(line2) = n + 1 /\ (\A i \in 1 .. n : line2[i] = line[i]) /\ line2[n + 1] = f
  BY AppendProperties
<1>. HIDE DEF n, line2
<1>3. at2 \in [1 .. n + 2 -> 0 .. Len(up.answer)]
  <2>1. ASSUME NEW i \in 1 .. n + 2 PROVE (IF i = n + 2 THEN b ELSE at[i]) \in 0 .. Len(up.answer)
    <3>1. i # n + 2 => i \in 1 .. n + 1
      BY <1>1
    <3>. QED
      BY <1>1, <3>1
  <2>. QED
    BY <2>1
<1>4. at2[n + 2] = b /\ \A i \in 1 .. n + 1 : at2[i] = at[i]
  BY <1>1
<1>. HIDE DEF at2
<1>5. /\ at[1] = Len(sd.streamed)
      /\ \A i \in 1 .. n : Follows(line[i], at[i], at[i + 1], up.answer)
      /\ \A i \in 1 .. n : line[i].kind = "completion" => Whole(at, line, i, sd.final, up.answer)
  BY DEF Chained, n
<1>6. ASSUME NEW i \in 1 .. n + 1 PROVE Follows(line2[i], at2[i], at2[i + 1], up.answer)
  <2>1. CASE i \in 1 .. n
    <3>1. i + 1 \in 1 .. n + 1
      BY <1>1, <2>1
    <3>. QED
      BY <1>2, <1>4, <1>5, <2>1, <3>1
  <2>2. CASE i = n + 1
    <3>1. i + 1 = n + 2
      BY <1>1, <2>2
    <3>. QED
      BY <1>2, <1>4, <2>2, <3>1 DEF n
  <2>. QED
    BY <1>1, <2>1, <2>2
<1>7. ASSUME NEW i \in 1 .. n + 1, Whole(at, line, i, sd.final, up.answer)
      PROVE  Whole(at2, line2, i, sd.final, up.answer)
  <2>1. \A j \in 1 .. i - 1 : j \in 1 .. n
    BY <1>1
  <2>. QED
    BY <1>2, <1>4, <1>7, <2>1 DEF Whole
<1>8. ASSUME NEW i \in 1 .. n + 1, line2[i].kind = "completion" PROVE Whole(at2, line2, i, sd.final, up.answer)
  <2>1. i \in 1 .. n \/ i = n + 1
    BY <1>1
  <2>. QED
    BY <1>2, <1>5, <1>7, <1>8, <2>1 DEF n
<1>9. IF up2.resulted THEN Whole(at2, line2, n + 2, sd.final, up.answer) ELSE at2[n + 2] = up2.pos
  <2>1. CASE ~up2.resulted
    BY <1>4, <2>1
  <2>2. CASE up2.resulted /\ f.kind = "result" /\ f.text = up.answer
    <3>1. n + 1 \in 1 .. (n + 2) - 1
      BY <1>1
    <3>. QED
      BY <1>2, <2>2, <3>1 DEF Whole
  <2>3. CASE up2.resulted /\ b = at[n + 1] /\ Whole(at, line, n + 1, sd.final, up.answer)
    <3>1. at2[n + 2] = at2[n + 1]
      BY <1>1, <1>4, <2>3
    <3>2. Whole(at2, line2, n + 1, sd.final, up.answer)
      BY <1>1, <1>7, <2>3
    <3>3. \A j \in 1 .. (n + 1) - 1 : j \in 1 .. (n + 2) - 1
      BY <1>1
    <3>. QED
      BY <2>3, <3>1, <3>2, <3>3 DEF Whole
  <2>. QED
    BY <2>1, <2>2, <2>3 DEF n
<1>10. (n + 1) + 1 = n + 2
  BY <1>1
<1>11. at2[1] = Len(sd.streamed)
  BY <1>1, <1>4, <1>5
<1>12. Chained(at2, line2, sd, up2, rd2)
  BY <1>2, <1>3, <1>6, <1>8, <1>9, <1>10, <1>11 DEF Chained
<1>13. at2 \in [1 .. Len(line2) + 1 -> 0 .. Len(up2.answer)]
  BY <1>2, <1>3, <1>10
<1>. QED
  BY <1>12, <1>13 DEF line2

\* The loop takes a frame: the rest of the chain is one.
LEMMA ChainShrinks ==
  ASSUME NEW line \in Seq(Frame), line # Empty, NEW at, NEW sd, NEW up, NEW rd, NEW sd2,
         Chained(at, line, sd, up, rd), Len(up.answer) \in Nat,
         Len(sd2.streamed) = at[2],
         sd.final = up.answer => sd2.final = up.answer,
         line[1].kind = "result" /\ line[1].text = up.answer => sd2.final = up.answer
  PROVE  \E at2 \in [1 .. Len(Tail(line)) + 1 -> 0 .. Len(up.answer)] :
           Chained(at2, Tail(line), sd2, up, rd)
<1>. DEFINE n == Len(line)
            line2 == Tail(line)
            at2 == [i \in 1 .. n |-> at[i + 1]]
<1>1. n \in Nat \ {0} /\ at \in [1 .. n + 1 -> 0 .. Len(up.answer)]
  BY EmptySeq DEF Chained, Empty
<1>2. line2 \in Seq(Frame) /\ Len(line2) = n - 1 /\ (\A i \in 1 .. Len(line2) : line2[i] = line[i + 1])
  BY HeadTailProperties DEF Empty
<1>. HIDE DEF n, line2
<1>3. at2 \in [1 .. n -> 0 .. Len(up.answer)] /\ \A i \in 1 .. n : at2[i] = at[i + 1]
  <2>1. \A i \in 1 .. n : i + 1 \in 1 .. n + 1
    BY <1>1
  <2>. QED
    BY <1>1, <2>1
<1>. HIDE DEF at2
<1>4. /\ \A i \in 1 .. n : Follows(line[i], at[i], at[i + 1], up.answer)
      /\ \A i \in 1 .. n : line[i].kind = "completion" => Whole(at, line, i, sd.final, up.answer)
      /\ rd.at # "gone" =>
           IF up.resulted THEN Whole(at, line, n + 1, sd.final, up.answer) ELSE at[n + 1] = up.pos
  BY DEF Chained, n
<1>5. ASSUME NEW i \in 1 .. n - 1 PROVE Follows(line2[i], at2[i], at2[i + 1], up.answer)
  <2>1. i \in 1 .. n /\ i + 1 \in 1 .. n
    <3>1. n \in Nat
      BY <1>1
    <3>. QED
      BY ONLY <3>1, i \in 1 .. n - 1
  <2>. QED
    BY <1>2, <1>3, <1>4, <2>1
<1>6. ASSUME NEW i \in 1 .. n, Whole(at, line, i + 1, sd.final, up.answer)
      PROVE  Whole(at2, line2, i, sd2.final, up.answer)
  <2>1. CASE at[i + 1] = Len(up.answer)
    BY <1>3, <2>1 DEF Whole
  <2>2. CASE sd.final = up.answer
    BY <2>2 DEF Whole
  <2>3. CASE \E j \in 1 .. (i + 1) - 1 : line[j].kind = "result" /\ line[j].text = up.answer
    <3>1. PICK j \in 1 .. (i + 1) - 1 : line[j].kind = "result" /\ line[j].text = up.answer
      BY <2>3
    <3>2. CASE j = 1
      BY <3>1, <3>2 DEF Whole
    <3>3. CASE j # 1
      <4>1. j - 1 \in 1 .. i - 1 /\ j - 1 \in 1 .. n - 1 /\ (j - 1) + 1 = j
        BY <1>1, <3>3
      <4>. QED
        BY <1>2, <3>1, <4>1 DEF Whole
    <3>. QED
      BY <3>2, <3>3
  <2>. QED
    BY <1>6, <2>1, <2>2, <2>3 DEF Whole
<1>7. ASSUME NEW i \in 1 .. n - 1, line2[i].kind = "completion" PROVE Whole(at2, line2, i, sd2.final, up.answer)
  <2>1. i \in 1 .. n /\ i + 1 \in 1 .. n
    BY <1>1
  <2>. QED
    BY <1>2, <1>4, <1>6, <1>7, <2>1
<1>8. rd.at # "gone" =>
        IF up.resulted THEN Whole(at2, line2, n, sd2.final, up.answer) ELSE at2[n] = up.pos
  BY <1>1, <1>3, <1>4, <1>6
<1>9. (n - 1) + 1 = n
  BY <1>1
<1>10. at2[1] = Len(sd2.streamed)
  BY <1>1, <1>3
<1>11. Chained(at2, line2, sd2, up, rd)
  BY <1>2, <1>3, <1>5, <1>7, <1>8, <1>9, <1>10 DEF Chained
<1>12. at2 \in [1 .. Len(line2) + 1 -> 0 .. Len(up.answer)]
  BY <1>2, <1>3, <1>9
<1>. QED
  BY <1>11, <1>12 DEF line2

\* The reader lets go of its frame: the chain is that of the channel.
LEMMA ChainCut ==
  ASSUME NEW line \in Seq(Frame), NEW f \in Frame, NEW at, NEW sd, NEW up, NEW rd, NEW rd2,
         Chained(at, Append(line, f), sd, up, rd), rd2.at = "gone"
  PROVE  \E at2 \in [1 .. Len(line) + 1 -> 0 .. Len(up.answer)] :
           Chained(at2, line, sd, up, rd2)
<1>. DEFINE n == Len(line)
            line2 == Append(line, f)
            at2 == [i \in 1 .. n + 1 |-> at[i]]
<1>1. line2 \in Seq(Frame) /\ Len(line2) = n + 1 /\ (\A i \in 1 .. n : line2[i] = line[i]) /\ n \in Nat
  BY AppendProperties, LenProperties
<1>2. /\ at \in [1 .. Len(line2) + 1 -> 0 .. Len(up.answer)]
      /\ at[1] = Len(sd.streamed)
      /\ \A i \in 1 .. Len(line2) : Follows(line2[i], at[i], at[i + 1], up.answer)
      /\ \A i \in 1 .. Len(line2) : line2[i].kind = "completion" => Whole(at, line2, i, sd.final, up.answer)
  BY DEF Chained
<1>. HIDE DEF n, line2
<1>3. at2 \in [1 .. n + 1 -> 0 .. Len(up.answer)] /\ \A i \in 1 .. n + 1 : at2[i] = at[i]
  <2>1. \A i \in 1 .. n + 1 : i \in 1 .. Len(line2) + 1
    BY <1>1
  <2>. QED
    BY <1>2, <2>1
<1>. HIDE DEF at2
<1>4. ASSUME NEW i \in 1 .. n
      PROVE  /\ Follows(line[i], at2[i], at2[i + 1], up.answer)
             /\ line[i].kind = "completion" => Whole(at2, line, i, sd.final, up.answer)
  <2>1. i \in 1 .. Len(line2) /\ i \in 1 .. n + 1 /\ i + 1 \in 1 .. n + 1 /\ \A j \in 1 .. i - 1 : j \in 1 .. n
    BY <1>1
  <2>2. Follows(line[i], at2[i], at2[i + 1], up.answer)
    BY <1>1, <1>2, <1>3, <2>1
  <2>3. Whole(at, line2, i, sd.final, up.answer) => Whole(at2, line, i, sd.final, up.answer)
    BY <1>1, <1>3, <2>1 DEF Whole
  <2>. QED
    BY <1>1, <1>2, <2>1, <2>2, <2>3
<1>5. at2[1] = Len(sd.streamed)
  BY <1>1, <1>2, <1>3
<1>6. Chained(at2, line, sd, up, rd2)
  BY <1>3, <1>4, <1>5 DEF Chained, n
<1>. QED
  BY <1>3, <1>6 DEF n

-----------------------------------------------------------------------------
\* What the loop and the reader share, after a step.
LEMMA PipeNext == Pipe' = IF reader'.at = "holding" THEN Append(readCh', reader'.frame) ELSE readCh'
BY DEF Pipe

\* What is to be shown of a faithful upstream after a step.
LEMMA FaithNext ==
  ASSUME seen'.faithful =>
           /\ IsPrefix(said'.streamed, upstream'.answer)
           /\ said'.final \in {Empty, upstream'.answer}
           /\ turn'.outcome = "ok" => turn'.text = upstream'.answer /\ said'.streamed = upstream'.answer
           /\ turn'.at # "over" => \E at \in [1 .. Len(Pipe') + 1 -> 0 .. Len(upstream'.answer)] :
                                     Chained(at, Pipe', said', upstream', reader')
  PROVE  FaithInv'
BY DEF FaithInv, Chained, Whole, Follows

\* The pipe is a sequence of frames.
LEMMA PipeIs ==
  ASSUME TurnTyped
  PROVE  /\ readCh \in Seq(Frame) /\ Pipe \in Seq(Frame)
         /\ reader.at = "holding" => reader.frame \in Frame /\ Pipe = Append(readCh, reader.frame)
         /\ reader.at # "holding" => Pipe = readCh
BY AppendProperties DEF TurnTyped, Pipe

\* A turn that returns.
LEMMA OverIs ==
  ASSUME TurnTyped, NEW o \in Outcomes \ {"none"}, Over(o)
  PROVE  /\ turn' \in TurnOf /\ turn'.at = "over" /\ turn'.outcome = o /\ turn'.conn = "closed"
         /\ turn'.text = turn.text /\ turn'.reused = turn.reused
BY DEF TurnTyped, TurnOf, Over

\* A step that says nothing and leaves the pipe as it is.
LEMMA QuietStep ==
  ASSUME TurnInv, said' = said, upstream' = upstream, Pipe' = Pipe,
         seen.broken => seen'.broken, seen'.faithful = seen.faithful,
         reader.at = "gone" => reader'.at = "gone",
         reader'.at = "gone" => reader.at = "gone" \/ seen'.broken \/ ctx' # "live" \/ turn'.at = "over",
         ctx # "live" => ctx' # "live", turn.at = "over" => turn'.at = "over",
         turn'.outcome = "drop" => turn.outcome = "drop" \/ seen'.broken,
         turn'.outcome = "ok" => turn.outcome = "ok" /\ turn'.text = turn.text
  PROVE  LossInv' /\ FirstInv' /\ FaithInv'
<1>1. LossInv'
  <2>1. \A i \in 1 .. Len(Pipe) : Lost(Pipe[i], seen'.broken)
    BY DEF TurnInv, LossInv, Lost
  <2>2. \A i \in 1 .. Len(Pipe') : Lost(Pipe'[i], seen'.broken)
    BY <2>1
  <2>3. (\A i \in 1 .. Len(Pipe) : Lost(Pipe[i], seen.broken))'
    BY <2>2 DEF Lost
  <2>4. DropIsReal'
    BY DEF TurnInv, LossInv, DropIsReal
  <2>5. (reader.at = "gone" => seen.broken \/ ctx # "live" \/ turn.at = "over")'
    BY DEF TurnInv, LossInv
  <2>. QED
    BY <2>3, <2>4, <2>5 DEF LossInv
<1>2. FirstInv'
  BY DEF TurnInv, FirstInv, NoticeNeverFirst, Notice, NoImage, BusyNotice, Blocked
<1>3. FaithInv'
  <2>1. ASSUME seen.faithful, turn'.at # "over"
        PROVE  \E at \in [1 .. Len(Pipe) + 1 -> 0 .. Len(upstream.answer)] :
                 Chained(at, Pipe, said, upstream, reader')
    BY <2>1 DEF TurnInv, FaithInv, Chained
  <2>. QED
    BY <2>1, FaithNext DEF TurnInv, FaithInv
<1>. QED
  BY <1>1, <1>2, <1>3

\* A step of the turn that touches neither the reader nor what was said.
LEMMA TurnMoves ==
  ASSUME TurnInv, UNCHANGED <<reader, readCh, said, upstream>>,
         turn' \in TurnOf, ctx' \in {"live", "canceled", "expired"}, late' \in {"no", "fired", "seen"},
         seen' = seen \/ seen' = [seen EXCEPT !.broken = TRUE],
         ctx # "live" => ctx' # "live",
         turn.at = "over" => turn' = turn,
         turn'.at \in {"dial", "upload", "hello", "send"} => turn.at \in {"dial", "upload", "hello", "send"},
         IF turn'.at = "over" THEN turn'.outcome # "none" /\ turn'.conn = "closed" ELSE turn'.outcome = "none",
         turn'.outcome = "drop" => turn.outcome = "drop" \/ seen'.broken,
         turn'.outcome = "ok" => turn.outcome = "ok" /\ turn'.text = turn.text
  PROVE  TurnInv'
<1>1. /\ seen' \in [broken : BOOLEAN, faithful : BOOLEAN] /\ seen'.faithful = seen.faithful
      /\ seen.broken => seen'.broken
  BY DEF TurnInv, TurnTyped
<1>2. TurnTyped'
  BY <1>1 DEF TurnInv, TurnTyped
<1>3. Undecided'
  BY DEF Undecided
<1>4. NothingRead'
  BY DEF TurnInv, NothingRead
<1>5. Pipe' = Pipe
  BY DEF Pipe
<1>6. reader'.at = "gone" => reader.at = "gone" \/ seen'.broken \/ ctx' # "live" \/ turn'.at = "over"
  OBVIOUS
<1>7. turn.at = "over" => turn'.at = "over"
  OBVIOUS
<1>8. reader.at = "gone" => reader'.at = "gone"
  OBVIOUS
<1>9. LossInv' /\ FirstInv' /\ FaithInv'
  BY <1>1, <1>5, <1>6, <1>7, <1>8, QuietStep
<1>. QED
  BY <1>2, <1>3, <1>4, <1>9 DEF TurnInv

\* The faults a turn may end with before its loop and around it.
LEMMA OutcomesAre ==
  /\ {"none", "ok", "upload", "handshake", "drop", "timeout", "throttled", "failed", "empty",
      "canceled", "expired", "client", "busy", "image", "policy"} \subseteq Outcomes
  /\ DialFaults \subseteq Outcomes /\ "drop" \notin DialFaults /\ "ok" \notin DialFaults /\ "none" \notin DialFaults
BY DEF Outcomes, Faults, DialFaults

\* A turn that returns and says so.
LEMMA Returns ==
  ASSUME TurnInv, NEW o \in Outcomes \ {"none", "ok"}, Over(o), turn.at # "over",
         UNCHANGED <<reader, readCh, ctx, late, said, upstream>>,
         seen' = seen \/ seen' = [seen EXCEPT !.broken = TRUE],
         o = "drop" => seen'.broken
  PROVE  TurnInv'
<1>1. TurnTyped
  BY DEF TurnInv
<1>2. turn' \in TurnOf /\ turn'.at = "over" /\ turn'.outcome = o /\ turn'.conn = "closed"
  BY <1>1, OverIs
<1>3. ctx' \in {"live", "canceled", "expired"} /\ late' \in {"no", "fired", "seen"}
  BY <1>1 DEF TurnTyped
<1>. QED
  BY <1>2, <1>3, TurnMoves

\* Dial, upload and handshake.
LEMMA OpeningKeeps ==
  ASSUME TurnInv, Dial \/ DialFails \/ Uploaded \/ Handshake
  PROVE  TurnInv'
<1>1. TurnTyped /\ turn \in TurnOf /\ Undecided /\ ctx \in {"live", "canceled", "expired"}
  BY DEF TurnInv, TurnTyped
<1>2. UNCHANGED <<reader, readCh, ctx, late, said, upstream, seen>>
  BY DEF Dial, DialFails, Uploaded, Handshake
<1>3. turn.at \in {"dial", "upload", "hello"}
  BY DEF Dial, DialFails, Uploaded, Handshake
<1>4. turn.outcome = "none"
  BY <1>1, <1>3 DEF Undecided
<1>5. ASSUME NEW o \in Outcomes \ {"none", "ok", "drop"}, Over(o) PROVE TurnInv'
  BY <1>2, <1>3, <1>5, Returns
<1>6. CASE Dial
  <2>1. turn' \in TurnOf /\ turn'.at = "upload" /\ turn'.outcome = "none"
    <3>1. PICK attachments \in BOOLEAN, fromPool \in Pools :
            turn' = [turn EXCEPT !.at = "upload", !.conn = "open", !.reused = fromPool,
                                 !.uploading = attachments]
      BY <1>6 DEF Dial
    <3>2. fromPool \in BOOLEAN
      BY TurnAssumption
    <3>. QED
      BY <1>1, <1>4, <3>1, <3>2 DEF TurnOf
  <2>. QED
    BY <1>1, <1>2, <1>3, <2>1, TurnMoves DEF TurnTyped
<1>7. CASE DialFails
  <2>1. PICK o \in DialFaults \cup {ctx} : o # "live" /\ Over(o)
    BY <1>7 DEF DialFails
  <2>2. o \in Outcomes \ {"none", "ok", "drop"}
    BY <1>1, <2>1, OutcomesAre
  <2>. QED
    BY <1>5, <2>1, <2>2
<1>8. CASE Uploaded
  <2>1. CASE Over("upload")
    BY <1>5, <2>1, OutcomesAre
  <2>2. CASE turn' = [turn EXCEPT !.at = IF turn.reused THEN "send" ELSE "hello", !.uploading = FALSE]
    <3>1. turn' \in TurnOf /\ turn'.at \in {"send", "hello"} /\ turn'.outcome = "none"
      BY <1>1, <1>4, <2>2 DEF TurnOf
    <3>. QED
      BY <1>1, <1>2, <1>3, <3>1, TurnMoves DEF TurnTyped
  <2>. QED
    BY <1>8, <2>1, <2>2 DEF Uploaded
<1>9. CASE Handshake
  <2>1. CASE Over("handshake")
    BY <1>5, <2>1, OutcomesAre
  <2>2. CASE turn' = [turn EXCEPT !.at = "send"]
    <3>1. turn' \in TurnOf /\ turn'.at = "send" /\ turn'.outcome = "none"
      BY <1>1, <1>4, <2>2 DEF TurnOf
    <3>. QED
      BY <1>1, <1>2, <1>3, <3>1, TurnMoves DEF TurnTyped
  <2>. QED
    BY <1>9, <2>1, <2>2 DEF Handshake
<1>. QED
  BY <1>6, <1>7, <1>8, <1>9

\* The payload.
LEMMA SendKeeps == TurnInv /\ Send => TurnInv'
<1>. SUFFICES ASSUME TurnInv, Send PROVE TurnInv'
  OBVIOUS
<1>1. TurnTyped /\ turn \in TurnOf /\ Undecided /\ NothingRead /\ turn.at = "send" /\ turn.outcome = "none"
  BY DEF TurnInv, TurnTyped, Send, Undecided
<1>2. UNCHANGED <<readCh, ctx, late, said, upstream>>
  BY DEF Send
<1>3. CASE Over("drop") /\ seen' = [seen EXCEPT !.broken = TRUE] /\ reader' = reader
  <2>1. seen'.broken
    BY <1>1, <1>3 DEF TurnTyped
  <2>. QED
    BY <1>1, <1>2, <1>3, <2>1, Returns, OutcomesAre
<1>4. CASE turn' = [turn EXCEPT !.at = "loop"] /\ reader' = [reader EXCEPT !.at = "reading"] /\ seen' = seen
  <2>1. turn' \in TurnOf /\ turn'.at = "loop" /\ turn'.outcome = "none"
    BY <1>1, <1>4 DEF TurnOf
  <2>2. reader.at = "none" /\ readCh = Empty
    BY <1>1 DEF NothingRead
  <2>3. reader' \in [at : {"none", "reading", "holding", "gone"}, frame : Frame \cup {Empty}] /\ reader'.at = "reading"
    BY <1>1, <1>4 DEF TurnTyped
  <2>4. TurnTyped'
    BY <1>1, <1>2, <1>4, <2>1, <2>3 DEF TurnTyped
  <2>5. Undecided' /\ NothingRead'
    BY <2>1, <2>3 DEF Undecided, NothingRead
  <2>6. Pipe' = Pipe
    BY <1>2, <2>2, <2>3 DEF Pipe
  <2>7. LossInv' /\ FirstInv' /\ FaithInv'
    BY <1>1, <1>2, <1>4, <2>1, <2>2, <2>3, <2>6, QuietStep
  <2>. QED
    BY <2>4, <2>5, <2>7 DEF TurnInv
<1>. QED
  BY <1>3, <1>4 DEF Send

\* The turn ends by its channel, its context or its timer, or one of them fires.
LEMMA EndingKeeps ==
  ASSUME TurnInv, ChannelClosed \/ ContextDone \/ DeadlinePasses \/ TimerFires \/ TurnContextEnds
  PROVE  TurnInv'
<1>1. TurnTyped /\ turn \in TurnOf /\ Undecided /\ ctx \in {"live", "canceled", "expired"}
  BY DEF TurnInv, TurnTyped
<1>2. UNCHANGED <<reader, readCh, said, upstream, seen>>
  BY DEF ChannelClosed, ContextDone, DeadlinePasses, TimerFires, TurnContextEnds
<1>3. CASE ChannelClosed
  <2>1. turn.at = "loop" /\ reader.at = "gone" /\ Over(IF ctx # "live" THEN ContextFault ELSE "drop")
        /\ ctx' = ctx /\ late' = late
    BY <1>3 DEF ChannelClosed, InLoop
  <2>2. ctx = "live" => seen.broken
    BY <2>1 DEF TurnInv, LossInv
  <2>3. PICK o \in {"canceled", "timeout", "drop"} : Over(o) /\ (o = "drop" => seen.broken)
    BY <2>1, <2>2 DEF ContextFault
  <2>. QED
    BY <1>2, <2>1, <2>3, Returns, OutcomesAre
<1>4. CASE ContextDone
  <2>1. turn.at = "loop" /\ Over(ContextFault) /\ ctx' = ctx /\ late' = late
    BY <1>4 DEF ContextDone, InLoop
  <2>2. ContextFault \in {"canceled", "timeout"}
    BY DEF ContextFault
  <2>. QED
    BY <1>2, <2>1, <2>2, Returns, OutcomesAre
<1>5. CASE DeadlinePasses
  <2>1. turn.at = "loop" /\ Over("timeout") /\ ctx' = ctx /\ late' = late
    BY <1>5 DEF DeadlinePasses
  <2>. QED
    BY <1>2, <2>1, Returns, OutcomesAre
<1>6. CASE TimerFires \/ TurnContextEnds
  <2>1. turn' = turn /\ (ctx' = ctx \/ (ctx = "live" /\ ctx' \in {"canceled", "expired"}))
        /\ late' \in {late, "fired"}
    BY <1>6 DEF TimerFires, TurnContextEnds
  <2>2. ctx' \in {"live", "canceled", "expired"} /\ late' \in {"no", "fired", "seen"}
    BY <1>1, <2>1 DEF TurnTyped
  <2>. QED
    BY <1>1, <1>2, <2>1, <2>2, TurnMoves DEF Undecided
<1>. QED
  BY <1>3, <1>4, <1>5, <1>6

\* A frame is put, or the reader leaves.
LEMMA ReaderKeeps ==
  ASSUME TurnInv, Put \/ Abandon \/ ReaderPanics
  PROVE  TurnInv'
<1>1. /\ TurnTyped /\ NothingRead /\ Undecided /\ LossInv
      /\ reader \in [at : {"none", "reading", "holding", "gone"}, frame : Frame \cup {Empty}]
      /\ seen \in [broken : BOOLEAN, faithful : BOOLEAN]
      /\ Empty \in Frame \cup {Empty}
  BY DEF TurnInv, TurnTyped
<1>2. turn' = turn /\ ctx' = ctx /\ late' = late /\ said' = said /\ upstream' = upstream
  BY DEF Put, Abandon, ReaderPanics
<1>3. ASSUME TurnTyped', NothingRead', LossInv', FirstInv', FaithInv' PROVE TurnInv'
  <2>1. Undecided'
    BY <1>1, <1>2 DEF Undecided
  <2>. QED
    BY <1>3, <2>1 DEF TurnInv
<1>4. CASE Put
  <2>1. /\ reader.at = "holding" /\ Len(readCh) < ReadCap /\ readCh' = Append(readCh, reader.frame)
        /\ reader' = [at |-> IF Stops THEN "gone" ELSE "reading", frame |-> Empty] /\ seen' = seen
    BY <1>4 DEF Put
  <2>2. /\ readCh' \in Seq(Frame) /\ Len(readCh') <= ReadCap
    <3>1. Len(readCh') = Len(readCh) + 1 /\ readCh' \in Seq(Frame) /\ Len(readCh) \in Nat /\ ReadCap \in Nat
      BY <1>1, <2>1, PipeIs, AppendProperties, LenProperties, TurnAssumption
    <3>. QED
      BY <2>1, <3>1
  <2>3. /\ reader' \in [at : {"none", "reading", "holding", "gone"}, frame : Frame \cup {Empty}]
        /\ reader'.at \in {"gone", "reading"} /\ (reader'.at = "gone" <=> Stops)
    BY <1>1, <2>1
  <2>4. TurnTyped'
    BY <1>1, <1>2, <2>1, <2>2, <2>3 DEF TurnTyped
  <2>5. NothingRead'
    BY <1>1, <1>2, <2>1, <2>3 DEF NothingRead
  <2>6. Pipe' = Pipe
    BY <2>1, <2>3, PipeNext DEF Pipe
  <2>7. Stops => seen.broken
    <3>1. Len(Pipe) \in 1 .. Len(Pipe) /\ Pipe[Len(Pipe)] = reader.frame
      <4>1. Pipe = Append(readCh, reader.frame) /\ reader.frame \in Frame /\ readCh \in Seq(Frame)
        BY <1>1, <2>1, PipeIs
      <4>2. Len(Pipe) = Len(readCh) + 1 /\ Pipe[Len(readCh) + 1] = reader.frame /\ Len(readCh) \in Nat
        BY <4>1, AppendProperties, LenProperties
      <4>. QED
        BY <4>2
    <3>2. Lost(reader.frame, seen.broken)
      BY <1>1, <3>1 DEF LossInv
    <3>. QED
      BY <3>2 DEF Lost, Stops
  <2>8. LossInv' /\ FirstInv' /\ FaithInv'
    BY <1>2, <2>1, <2>3, <2>6, <2>7, QuietStep
  <2>. QED
    BY <1>3, <2>4, <2>5, <2>8
<1>5. CASE ReaderPanics
  <2>1. /\ reader.at = "reading" /\ reader' = [at |-> "gone", frame |-> Empty]
        /\ seen' = [seen EXCEPT !.broken = TRUE] /\ readCh' = readCh
    BY <1>5 DEF ReaderPanics
  <2>2. /\ reader' \in [at : {"none", "reading", "holding", "gone"}, frame : Frame \cup {Empty}]
        /\ reader'.at = "gone" /\ seen' \in [broken : BOOLEAN, faithful : BOOLEAN] /\ seen'.broken
        /\ seen'.faithful = seen.faithful
    BY <1>1, <2>1
  <2>3. TurnTyped'
    BY <1>1, <1>2, <2>1, <2>2 DEF TurnTyped
  <2>4. NothingRead'
    BY <1>1, <1>2, <2>1, <2>2 DEF NothingRead
  <2>5. Pipe' = Pipe
    BY <2>1, <2>2, PipeNext DEF Pipe
  <2>6. LossInv' /\ FirstInv' /\ FaithInv'
    BY <1>2, <2>1, <2>2, <2>5, QuietStep
  <2>. QED
    BY <1>3, <2>3, <2>4, <2>6
<1>6. CASE Abandon
  <2>1. /\ reader.at \in {"holding", "reading"} /\ (turn.at = "over" \/ ctx # "live")
        /\ reader' = [at |-> "gone", frame |-> Empty] /\ readCh' = readCh /\ seen' = seen
    BY <1>6 DEF Abandon, LoopIsOver
  <2>2. /\ reader' \in [at : {"none", "reading", "holding", "gone"}, frame : Frame \cup {Empty}]
        /\ reader'.at = "gone"
    BY <1>1, <2>1
  <2>3. TurnTyped'
    BY <1>1, <1>2, <2>1, <2>2 DEF TurnTyped
  <2>4. NothingRead'
    BY <1>1, <1>2, <2>1, <2>2 DEF NothingRead
  <2>5. Pipe' = readCh
    BY <2>1, <2>2, PipeNext
  <2>6. CASE reader.at = "reading"
    <3>1. Pipe' = Pipe
      BY <2>5, <2>6 DEF Pipe
    <3>2. LossInv' /\ FirstInv' /\ FaithInv'
      BY <1>2, <2>1, <2>2, <2>6, <3>1, QuietStep
    <3>. QED
      BY <1>3, <2>3, <2>4, <3>2
  <2>7. CASE reader.at = "holding"
    <3>1. readCh \in Seq(Frame) /\ reader.frame \in Frame /\ Pipe = Append(readCh, reader.frame)
      BY <1>1, <2>7, PipeIs
    <3>2. LossInv'
      <4>1. Len(Pipe) = Len(readCh) + 1 /\ (\A i \in 1 .. Len(readCh) : Pipe[i] = readCh[i]) /\ Len(readCh) \in Nat
        BY <3>1, AppendProperties, LenProperties
      <4>2. \A i \in 1 .. Len(readCh) : Lost(readCh[i], seen.broken)
        <5>1. \A i \in 1 .. Len(readCh) : i \in 1 .. Len(Pipe)
          BY <4>1
        <5>. QED
          BY <1>1, <4>1, <5>1 DEF LossInv
      <4>3. (\A i \in 1 .. Len(Pipe) : Lost(Pipe[i], seen.broken))'
        BY <2>1, <2>5, <4>2 DEF Lost
      <4>4. DropIsReal'
        BY <1>1, <1>2, <2>1 DEF LossInv, DropIsReal
      <4>5. (reader.at = "gone" => seen.broken \/ ctx # "live" \/ turn.at = "over")'
        BY <1>2, <2>1
      <4>. QED
        BY <4>3, <4>4, <4>5 DEF LossInv
    <3>3. FirstInv'
      BY <1>2 DEF TurnInv, FirstInv, NoticeNeverFirst, Notice, NoImage, BusyNotice, Blocked
    <3>4. FaithInv'
      <4>1. ASSUME seen.faithful, turn.at # "over"
            PROVE  \E at \in [1 .. Len(readCh) + 1 -> 0 .. Len(upstream.answer)] :
                     Chained(at, readCh, said, upstream, reader')
        <5>1. PICK at : Chained(at, Append(readCh, reader.frame), said, upstream, reader)
          BY <3>1, <4>1 DEF TurnInv, FaithInv
        <5>. QED
          BY <2>2, <3>1, <5>1, ChainCut
      <4>. QED
        BY <1>2, <2>1, <2>5, <4>1, FaithNext DEF TurnInv, FaithInv
    <3>. QED
      BY <1>3, <2>3, <2>4, <3>2, <3>3, <3>4
  <2>. QED
    BY <2>1, <2>6, <2>7
<1>. QED
  BY <1>4, <1>5, <1>6

\* A beginning of a text.
LEMMA BeginningIs ==
  ASSUME NEW a \in Text, NEW k \in 0 .. Len(a)
  PROVE  /\ SubSeq(a, 1, k) \in Text /\ Len(SubSeq(a, 1, k)) = k /\ IsPrefix(SubSeq(a, 1, k), a)
<1>. DEFINE u == SubSeq(a, 1, k)
<1>1. Len(a) \in Nat /\ k \in Nat /\ k <= Len(a) /\ 1 \in Int /\ k \in Int
  BY LenProperties DEF Text
<1>2. \A i \in 1 .. k : i \in 1 .. Len(a)
  BY <1>1
<1>3. \A i \in 1 .. k : a[i] \in STRING
  BY <1>2, ElementOfSeq DEF Text
<1>4. /\ u \in Seq(STRING) /\ Len(u) = IF 1 <= k THEN k - 1 + 1 ELSE 0
      /\ \A i \in 1 .. k - 1 + 1 : u[i] = a[1 + i - 1]
  BY <1>1, <1>3, SubSeqProperties
<1>. HIDE DEF u
<1>5. Len(u) = k
  BY <1>1, <1>4
<1>6. \A i \in 1 .. k : i \in 1 .. k - 1 + 1 /\ 1 + i - 1 = i
  BY <1>1
<1>7. \A i \in 1 .. k : u[i] = a[i]
  BY <1>4, <1>6
<1>8. IsPrefix(u, a)
  BY <1>1, <1>4, <1>5, <1>7, PrefixIs DEF Text
<1>. QED
  BY <1>4, <1>5, <1>8 DEF u, Text

\* The reader has a frame in its hand.
LEMMA FrameRead ==
  ASSUME TurnInv, reader.at = "reading", UNCHANGED <<turn, readCh, ctx, late, said>>,
         NEW f \in Frame, reader' = [at |-> "holding", frame |-> f],
         upstream' \in [answer : Answers, pos : Nat, resulted : BOOLEAN],
         upstream'.answer = upstream.answer, upstream'.pos <= Len(upstream.answer),
         seen' \in [broken : BOOLEAN, faithful : BOOLEAN], seen.broken => seen'.broken,
         Lost(f, seen'.broken), seen'.faithful => seen.faithful,
         ASSUME seen'.faithful, NEW at, Chained(at, readCh, said, upstream, reader)
         PROVE  \E b \in 0 .. Len(upstream.answer) :
                  /\ Follows(f, at[Len(readCh) + 1], b, upstream.answer)
                  /\ f.kind = "completion" => Whole(at, readCh, Len(readCh) + 1, said.final, upstream.answer)
                  /\ IF upstream'.resulted
                     THEN \/ f.kind = "result" /\ f.text = upstream.answer
                          \/ /\ b = at[Len(readCh) + 1]
                             /\ Whole(at, readCh, Len(readCh) + 1, said.final, upstream.answer)
                     ELSE b = upstream'.pos
  PROVE  TurnInv'
<1>1. TurnTyped /\ readCh \in Seq(Frame) /\ Pipe = readCh /\ Len(upstream.answer) \in Nat
  BY PipeIs, AnswerIs DEF TurnInv
<1>2. TurnTyped'
  <2>1. reader' \in [at : {"none", "reading", "holding", "gone"}, frame : Frame \cup {Empty}]
    OBVIOUS
  <2>. QED
    BY <1>1, <2>1 DEF TurnTyped
<1>3. Undecided' /\ NothingRead'
  BY DEF TurnInv, Undecided, NothingRead
<1>4. Pipe' = Append(readCh, f)
  BY PipeNext
<1>5. LossInv'
  <2>1. Len(Append(readCh, f)) = Len(readCh) + 1 /\ Len(readCh) \in Nat
        /\ (\A i \in 1 .. Len(readCh) : Append(readCh, f)[i] = readCh[i]) /\ Append(readCh, f)[Len(readCh) + 1] = f
    BY <1>1, AppendProperties, LenProperties
  <2>2. \A i \in 1 .. Len(readCh) : Lost(readCh[i], seen'.broken)
    BY <1>1 DEF TurnInv, LossInv, Lost
  <2>3. \A i \in 1 .. Len(readCh) + 1 : Lost(Append(readCh, f)[i], seen'.broken)
    <3>1. \A i \in 1 .. Len(readCh) + 1 : i \in 1 .. Len(readCh) \/ i = Len(readCh) + 1
      BY <2>1
    <3>. QED
      BY <2>1, <2>2, <3>1
  <2>4. (\A i \in 1 .. Len(Pipe) : Lost(Pipe[i], seen.broken))'
    BY <1>4, <2>1, <2>3 DEF Lost
  <2>5. DropIsReal'
    BY DEF TurnInv, LossInv, DropIsReal
  <2>6. (reader.at = "gone" => seen.broken \/ ctx # "live" \/ turn.at = "over")'
    OBVIOUS
  <2>. QED
    BY <2>4, <2>5, <2>6 DEF LossInv
<1>6. FirstInv'
  BY DEF TurnInv, FirstInv, NoticeNeverFirst, Notice, NoImage, BusyNotice, Blocked
<1>7. FaithInv'
  <2>1. ASSUME seen'.faithful, turn.at # "over"
        PROVE  \E at2 \in [1 .. Len(Append(readCh, f)) + 1 -> 0 .. Len(upstream'.answer)] :
                 Chained(at2, Append(readCh, f), said, upstream', reader')
    <3>1. PICK at : Chained(at, readCh, said, upstream, reader)
      BY <1>1, <2>1 DEF TurnInv, FaithInv
    <3>2. PICK b \in 0 .. Len(upstream.answer) :
                  /\ Follows(f, at[Len(readCh) + 1], b, upstream.answer)
                  /\ f.kind = "completion" => Whole(at, readCh, Len(readCh) + 1, said.final, upstream.answer)
                  /\ IF upstream'.resulted
                     THEN \/ f.kind = "result" /\ f.text = upstream.answer
                          \/ /\ b = at[Len(readCh) + 1]
                             /\ Whole(at, readCh, Len(readCh) + 1, said.final, upstream.answer)
                     ELSE b = upstream'.pos
      BY <2>1, <3>1
    <3>. QED
      BY <1>1, <3>1, <3>2, ChainGrows
  <2>. QED
    BY <1>4, <2>1, FaithNext DEF TurnInv, FaithInv
<1>. QED
  BY <1>2, <1>3, <1>5, <1>6, <1>7 DEF TurnInv

\* Where the chain of a faithful upstream ends.
LEMMA ChainEnd ==
  ASSUME TurnInv, reader.at = "reading", NEW at, Chained(at, readCh, said, upstream, reader)
  PROVE  /\ at[Len(readCh) + 1] \in 0 .. Len(upstream.answer)
         /\ IF upstream.resulted THEN Whole(at, readCh, Len(readCh) + 1, said.final, upstream.answer)
            ELSE at[Len(readCh) + 1] = upstream.pos
<1>1. Len(readCh) \in Nat /\ at \in [1 .. Len(readCh) + 1 -> 0 .. Len(upstream.answer)]
  BY LenProperties DEF TurnInv, TurnTyped, Chained
<1>2. Len(readCh) + 1 \in 1 .. Len(readCh) + 1
  BY <1>1
<1>3. at[Len(readCh) + 1] \in 0 .. Len(upstream.answer)
  BY <1>1, <1>2
<1>. QED
  BY <1>3 DEF Chained

\* A frame that brings no word.
LEMMA WordlessRead ==
  ASSUME TurnInv, reader.at = "reading", UNCHANGED <<turn, readCh, ctx, late, said>>,
         NEW f \in Frame, reader' = [at |-> "holding", frame |-> f],
         f.kind # "update", f.text = Empty,
         upstream' \in [answer : Answers, pos : Nat, resulted : BOOLEAN],
         upstream'.answer = upstream.answer, upstream'.pos = upstream.pos,
         upstream'.resulted = upstream.resulted,
         seen' \in [broken : BOOLEAN, faithful : BOOLEAN], seen.broken => seen'.broken,
         Lost(f, seen'.broken), seen'.faithful => seen.faithful,
         f.kind = "completion" /\ seen'.faithful => upstream.pos = Len(upstream.answer)
  PROVE  TurnInv'
<1>1. upstream'.pos <= Len(upstream.answer)
  BY DEF TurnInv, TurnTyped
<1>2. ASSUME seen'.faithful, NEW at, Chained(at, readCh, said, upstream, reader)
      PROVE  \E b \in 0 .. Len(upstream.answer) :
               /\ Follows(f, at[Len(readCh) + 1], b, upstream.answer)
               /\ f.kind = "completion" => Whole(at, readCh, Len(readCh) + 1, said.final, upstream.answer)
               /\ IF upstream'.resulted
                  THEN \/ f.kind = "result" /\ f.text = upstream.answer
                       \/ /\ b = at[Len(readCh) + 1]
                          /\ Whole(at, readCh, Len(readCh) + 1, said.final, upstream.answer)
                  ELSE b = upstream'.pos
  <2>. DEFINE b == at[Len(readCh) + 1]
  <2>1. /\ b \in 0 .. Len(upstream.answer)
        /\ IF upstream.resulted THEN Whole(at, readCh, Len(readCh) + 1, said.final, upstream.answer)
           ELSE b = upstream.pos
    BY <1>2, ChainEnd
  <2>2. Follows(f, b, b, upstream.answer)
    BY DEF Follows
  <2>3. f.kind = "completion" => Whole(at, readCh, Len(readCh) + 1, said.final, upstream.answer)
    BY <1>2, <2>1 DEF Whole
  <2>. HIDE DEF b
  <2>. QED
    BY <2>1, <2>2, <2>3 DEF b
<1>. QED
  BY <1>1, <1>2, FrameRead

\* A frame is read, or the connection is found lost.
LEMMA ReadFrameKeeps == TurnInv /\ ReadFrame => TurnInv'
<1>. SUFFICES ASSUME TurnInv, ReadFrame PROVE TurnInv'
  OBVIOUS
<1>1. /\ TurnTyped /\ reader.at = "reading" /\ UNCHANGED <<turn, readCh, ctx, late, said>>
      /\ seen \in [broken : BOOLEAN, faithful : BOOLEAN]
      /\ upstream \in [answer : Answers, pos : Nat, resulted : BOOLEAN]
      /\ upstream.pos <= Len(upstream.answer)
  BY DEF TurnInv, TurnTyped, ReadFrame
<1>2. /\ upstream.answer \in Text /\ Len(upstream.answer) \in Nat /\ upstream.pos \in Nat
      /\ Empty \in Text /\ Len(Empty) = 0 /\ IsPrefix(Empty, upstream.answer)
  BY <1>1, AnswerIs, EmptyBegins DEF Text
<1>3. CASE ReadUpdate
  <2>1. PICK n \in {upstream.pos, upstream.pos + 1}, tool \in BOOLEAN, offense \in BOOLEAN,
             snapshot \in BOOLEAN, old \in 0 .. upstream.pos :
          LET cursor == IF n > upstream.pos THEN <<upstream.answer[n]>> ELSE Empty
              words   == IF snapshot THEN SaidSoFar(IF old = upstream.pos THEN n ELSE old) ELSE Empty
          IN  /\ n <= Len(upstream.answer) /\ ~upstream.resulted
              /\ n > upstream.pos \/ snapshot
              /\ offense => snapshot /\ n = upstream.pos
              /\ tool => n > upstream.pos
              /\ Hold([Ping EXCEPT !.kind = "update", !.cursor = cursor, !.text = words,
                                   !.tool = tool, !.offense = offense])
              /\ upstream' = [upstream EXCEPT !.pos = n]
              /\ seen' = [seen EXCEPT !.faithful = @ /\ ~(tool /\ cursor # Empty)]
    BY <1>3 DEF ReadUpdate
  <2>. DEFINE cursor == IF n > upstream.pos THEN <<upstream.answer[n]>> ELSE Empty
              k      == IF old = upstream.pos THEN n ELSE old
              words   == IF snapshot THEN SaidSoFar(k) ELSE Empty
              f      == [kind |-> "update", verdict |-> "Success", cursor |-> cursor, text |-> words,
                         tool |-> tool, offense |-> offense]
  <2>2. n \in Nat /\ n <= Len(upstream.answer) /\ k \in 0 .. n /\ k \in 0 .. Len(upstream.answer)
    BY <1>2, <2>1
  <2>3. cursor \in Text /\ (n > upstream.pos => cursor # Empty /\ n = upstream.pos + 1)
    <3>1. CASE n > upstream.pos
      <4>1. n = upstream.pos + 1 /\ n \in 1 .. Len(upstream.answer)
        BY <1>2, <2>1, <3>1
      <4>2. upstream.answer[n] \in STRING
        BY <1>2, <4>1, ElementOfSeq DEF Text
      <4>3. <<upstream.answer[n]>> \in Seq(STRING) /\ Len(<<upstream.answer[n]>>) = 1
        BY <4>2
      <4>4. <<upstream.answer[n]>> # Empty
        BY <1>2, <4>3
      <4>5. cursor = <<upstream.answer[n]>>
        BY <3>1
      <4>. HIDE DEF cursor
      <4>. QED
        BY <4>1, <4>3, <4>4, <4>5 DEF Text
    <3>2. CASE ~(n > upstream.pos)
      BY <1>2, <3>2
    <3>. QED
      BY <3>1, <3>2
  <2>4. words \in Text /\ Len(words) <= n /\ IsPrefix(words, upstream.answer)
    <3>1. SaidSoFar(k) \in Text /\ Len(SaidSoFar(k)) = k /\ IsPrefix(SaidSoFar(k), upstream.answer)
      BY <1>2, <2>2, BeginningIs DEF SaidSoFar
    <3>. QED
      BY <1>2, <2>2, <3>1
  <2>5. /\ reader' = [at |-> "holding", frame |-> f]
        /\ upstream' = [upstream EXCEPT !.pos = n] /\ ~upstream.resulted
        /\ seen' = [seen EXCEPT !.faithful = @ /\ ~(tool /\ cursor # Empty)]
        /\ tool => n > upstream.pos
    BY <2>1 DEF Hold, Ping
  <2>6. n > upstream.pos => cursor = <<upstream.answer[n]>>
    OBVIOUS
  <2>7. ~(n > upstream.pos) => cursor = Empty /\ n = upstream.pos
    BY <1>2, <2>1
  <2>. HIDE DEF cursor, k, words
  <2>8. f \in Frame
    BY <2>3, <2>4 DEF Frame
  <2>9. /\ f.kind = "update" /\ f.verdict = "Success" /\ f.cursor = cursor /\ f.text = words /\ f.tool = tool
    OBVIOUS
  <2>10. /\ upstream' \in [answer : Answers, pos : Nat, resulted : BOOLEAN]
         /\ upstream'.answer = upstream.answer /\ upstream'.pos = n /\ ~upstream'.resulted
         /\ seen' \in [broken : BOOLEAN, faithful : BOOLEAN] /\ seen'.broken = seen.broken
         /\ seen'.faithful => seen.faithful /\ ~(tool /\ cursor # Empty)
    BY <1>1, <2>2, <2>5
  <2>11. Lost(f, seen'.broken)
    BY <2>9 DEF Lost
  <2>. HIDE DEF f
  <2>12. ASSUME seen'.faithful, NEW at, Chained(at, readCh, said, upstream, reader)
         PROVE  \E b \in 0 .. Len(upstream.answer) :
                  /\ Follows(f, at[Len(readCh) + 1], b, upstream.answer)
                  /\ f.kind = "completion" => Whole(at, readCh, Len(readCh) + 1, said.final, upstream.answer)
                  /\ IF upstream'.resulted
                     THEN \/ f.kind = "result" /\ f.text = upstream.answer
                          \/ /\ b = at[Len(readCh) + 1]
                             /\ Whole(at, readCh, Len(readCh) + 1, said.final, upstream.answer)
                     ELSE b = upstream'.pos
    <3>1. at[Len(readCh) + 1] = upstream.pos
      BY <1>1, <2>5, <2>12, ChainEnd
    <3>2. Follows(f, upstream.pos, n, upstream.answer)
      <4>1. CASE n > upstream.pos
        <5>1. ~tool
          BY <2>3, <2>10, <2>12, <4>1
        <5>. QED
          BY <2>2, <2>3, <2>4, <2>6, <2>9, <4>1, <5>1 DEF Follows
      <4>2. CASE ~(n > upstream.pos)
        BY <2>4, <2>7, <2>9, <4>2 DEF Follows
      <4>. QED
        BY <4>1, <4>2
    <3>3. n \in 0 .. Len(upstream.answer)
      BY <1>2, <2>2
    <3>. QED
      BY <2>9, <2>10, <3>1, <3>2, <3>3
  <2>. QED
    BY <1>1, <2>2, <2>5, <2>8, <2>10, <2>11, <2>12, FrameRead
<1>4. CASE ReadResult
  <2>1. PICK verdict \in ResultVerdicts, final \in BOOLEAN :
          /\ ~upstream.resulted
          /\ Hold([Ping EXCEPT !.kind = "result", !.verdict = verdict,
                               !.text = IF final THEN upstream.answer ELSE Empty])
          /\ upstream' = [upstream EXCEPT !.resulted = final, !.pos = IF final THEN Len(upstream.answer) ELSE @]
          /\ UNCHANGED seen
    BY <1>4 DEF ReadResult
  <2>. DEFINE words == IF final THEN upstream.answer ELSE Empty
              f    == [kind |-> "result", verdict |-> verdict, cursor |-> Empty, text |-> words,
                       tool |-> FALSE, offense |-> FALSE]
  <2>2. words \in {Empty, upstream.answer} /\ words \in Text /\ (final => words = upstream.answer)
    BY <1>2
  <2>3. reader' = [at |-> "holding", frame |-> f]
    BY <2>1 DEF Hold, Ping
  <2>. HIDE DEF words
  <2>4. f \in Frame /\ f.kind = "result" /\ f.text = words /\ f.verdict \in {"Success", "throttled", "failed"}
    BY <1>2, <2>2 DEF Frame, ResultVerdicts
  <2>5. Lost(f, seen'.broken)
    BY <2>4 DEF Lost
  <2>6. /\ upstream' \in [answer : Answers, pos : Nat, resulted : BOOLEAN]
        /\ upstream'.answer = upstream.answer /\ upstream'.pos <= Len(upstream.answer)
        /\ upstream'.resulted = final /\ (~final => upstream'.pos = upstream.pos)
    <3>1. CASE final
      <4>1. upstream' = [upstream EXCEPT !.resulted = TRUE, !.pos = Len(upstream.answer)]
        BY <2>1, <3>1, Zenon
      <4>2. /\ upstream'.answer = upstream.answer /\ upstream'.pos = Len(upstream.answer)
            /\ upstream'.resulted = TRUE /\ upstream' \in [answer : Answers, pos : Nat, resulted : BOOLEAN]
        BY <1>1, <1>2, <4>1
      <4>3. upstream'.resulted = final
        BY <3>1, <4>2, Zenon
      <4>. QED
        BY <1>2, <3>1, <4>2, <4>3
    <3>2. CASE ~final
      <4>1. upstream' = [upstream EXCEPT !.resulted = FALSE, !.pos = upstream.pos]
        BY <2>1, <3>2, Zenon
      <4>2. /\ upstream'.answer = upstream.answer /\ upstream'.pos = upstream.pos
            /\ upstream'.resulted = FALSE /\ upstream' \in [answer : Answers, pos : Nat, resulted : BOOLEAN]
        BY <1>1, <1>2, <4>1
      <4>3. upstream'.resulted = final
        BY <3>2, <4>2, Zenon
      <4>. QED
        BY <1>1, <1>2, <3>2, <4>2, <4>3
    <3>. QED
      BY <3>1, <3>2
  <2>. HIDE DEF f
  <2>7. ASSUME seen'.faithful, NEW at, Chained(at, readCh, said, upstream, reader)
        PROVE  \E b \in 0 .. Len(upstream.answer) :
                 /\ Follows(f, at[Len(readCh) + 1], b, upstream.answer)
                 /\ f.kind = "completion" => Whole(at, readCh, Len(readCh) + 1, said.final, upstream.answer)
                 /\ IF upstream'.resulted
                    THEN \/ f.kind = "result" /\ f.text = upstream.answer
                         \/ /\ b = at[Len(readCh) + 1]
                            /\ Whole(at, readCh, Len(readCh) + 1, said.final, upstream.answer)
                    ELSE b = upstream'.pos
    <3>1. at[Len(readCh) + 1] \in 0 .. Len(upstream.answer) /\ at[Len(readCh) + 1] = upstream.pos
      BY <1>1, <2>1, <2>7, ChainEnd
    <3>2. Follows(f, at[Len(readCh) + 1], at[Len(readCh) + 1], upstream.answer)
      BY <2>2, <2>4 DEF Follows
    <3>. QED
      BY <2>2, <2>4, <2>6, <3>1, <3>2
  <2>8. seen' \in [broken : BOOLEAN, faithful : BOOLEAN] /\ seen'.broken = seen.broken
        /\ seen'.faithful = seen.faithful
    BY <1>1, <2>1
  <2>. QED
    BY <1>1, <2>3, <2>4, <2>5, <2>6, <2>7, <2>8, FrameRead
<1>5. CASE ReadCompletion
  <2>1. PICK verdict \in CompletionVerdicts :
          /\ Hold([Ping EXCEPT !.kind = "completion", !.verdict = verdict])
          /\ seen' = [seen EXCEPT !.faithful = @ /\ upstream.pos = Len(upstream.answer)]
          /\ UNCHANGED upstream
    BY <1>5 DEF ReadCompletion
  <2>. DEFINE f == [kind |-> "completion", verdict |-> verdict, cursor |-> Empty, text |-> Empty,
                    tool |-> FALSE, offense |-> FALSE]
  <2>2. reader' = [at |-> "holding", frame |-> f]
    BY <2>1 DEF Hold, Ping
  <2>3. f \in Frame /\ f.kind = "completion" /\ f.text = Empty /\ f.verdict \in {"Success", "busy", "failed"}
    BY <1>2 DEF Frame, CompletionVerdicts
  <2>4. /\ seen' \in [broken : BOOLEAN, faithful : BOOLEAN] /\ seen'.broken = seen.broken
        /\ seen'.faithful => seen.faithful /\ upstream.pos = Len(upstream.answer)
    BY <1>1, <2>1
  <2>5. Lost(f, seen'.broken)
    BY <2>3 DEF Lost
  <2>. HIDE DEF f
  <2>. QED
    BY <1>1, <2>1, <2>2, <2>3, <2>4, <2>5, WordlessRead
<1>6. CASE ReadPing
  <2>1. reader' = [at |-> "holding", frame |-> Ping] /\ upstream' = upstream /\ seen' = seen
    BY <1>6 DEF ReadPing, Hold
  <2>2. Ping \in Frame /\ Ping.kind = "ping" /\ Ping.text = Empty /\ Ping.verdict = "Success"
    BY <1>2 DEF Frame, Ping
  <2>3. Lost(Ping, seen'.broken)
    BY <2>2 DEF Lost
  <2>. QED
    BY <1>1, <2>1, <2>2, <2>3, WordlessRead
<1>7. CASE ReadError
  <2>1. PICK how \in {"timeout", "drop"} :
          /\ Hold([Ping EXCEPT !.kind = "error", !.verdict = how])
          /\ seen' = [seen EXCEPT !.broken = TRUE]
          /\ UNCHANGED upstream
    BY <1>7 DEF ReadError
  <2>. DEFINE f == [kind |-> "error", verdict |-> how, cursor |-> Empty, text |-> Empty,
                    tool |-> FALSE, offense |-> FALSE]
  <2>2. reader' = [at |-> "holding", frame |-> f]
    BY <2>1 DEF Hold, Ping
  <2>3. f \in Frame /\ f.kind = "error" /\ f.text = Empty /\ f.verdict \in {"timeout", "drop"}
    BY <1>2 DEF Frame
  <2>4. seen' \in [broken : BOOLEAN, faithful : BOOLEAN] /\ seen'.broken /\ seen'.faithful = seen.faithful
    BY <1>1, <2>1
  <2>5. Lost(f, seen'.broken)
    BY <2>3, <2>4 DEF Lost
  <2>. HIDE DEF f
  <2>. QED
    BY <1>1, <2>1, <2>2, <2>3, <2>4, <2>5, WordlessRead
<1>. QED
  BY <1>3, <1>4, <1>5, <1>6, <1>7 DEF ReadFrame

\* The frame the loop takes is the first of the pipe.
LEMMA TakenIs ==
  ASSUME TurnInv, readCh # Empty, readCh' = Tail(readCh), reader' = reader
  PROVE  /\ Head(readCh) \in Frame /\ Pipe \in Seq(Frame) /\ Pipe # Empty /\ Pipe[1] = Head(readCh)
         /\ Pipe' = Tail(Pipe) /\ Lost(Head(readCh), seen.broken)
         /\ readCh' \in Seq(Frame) /\ Len(readCh') <= ReadCap
         /\ \A i \in 1 .. Len(Tail(Pipe)) : Lost(Tail(Pipe)[i], seen.broken)
<1>1. TurnTyped /\ readCh \in Seq(Frame) /\ Pipe \in Seq(Frame) /\ LossInv
  BY PipeIs DEF TurnInv
<1>2. /\ Head(readCh) = readCh[1] /\ Head(readCh) \in Frame /\ Tail(readCh) \in Seq(Frame)
      /\ Len(Tail(readCh)) = Len(readCh) - 1 /\ Len(readCh) \in Nat \ {0}
  BY <1>1, HeadTailProperties, EmptySeq DEF Empty
<1>3. Len(readCh') <= ReadCap
  <2>1. Len(readCh) <= ReadCap /\ ReadCap \in Nat
    BY <1>1, TurnAssumption DEF TurnTyped
  <2>. QED
    BY <1>2, <2>1
<1>4. Pipe # Empty /\ Pipe[1] = readCh[1] /\ Pipe' = Tail(Pipe)
  <2>1. CASE reader.at # "holding"
    <3>1. Pipe = readCh /\ Pipe' = readCh'
      BY <2>1 DEF Pipe
    <3>. QED
      BY <3>1
  <2>2. CASE reader.at = "holding"
    <3>1. Pipe = Append(readCh, reader.frame) /\ Pipe' = Append(Tail(readCh), reader.frame)
          /\ reader.frame \in Frame
      BY <1>1, <2>2, PipeIs, PipeNext
    <3>2. Tail(Append(readCh, reader.frame)) = Append(Tail(readCh), reader.frame)
          /\ Head(Append(readCh, reader.frame)) = Head(readCh)
      BY <1>1, <3>1, HeadTailAppend DEF Empty
    <3>3. Append(readCh, reader.frame) # Empty /\ Append(readCh, reader.frame)[1] = readCh[1]
      <4>1. Len(Append(readCh, reader.frame)) = Len(readCh) + 1 /\ 1 \in 1 .. Len(readCh)
            /\ \A i \in 1 .. Len(readCh) : Append(readCh, reader.frame)[i] = readCh[i]
        BY <1>1, <1>2, <3>1, AppendProperties
      <4>2. Len(Empty) = 0
        BY EmptySeq DEF Empty
      <4>. QED
        BY <1>2, <4>1, <4>2
    <3>. QED
      BY <3>1, <3>2, <3>3
  <2>. QED
    BY <2>1, <2>2
<1>5. Lost(Pipe[1], seen.broken) /\ \A i \in 1 .. Len(Tail(Pipe)) : Lost(Tail(Pipe)[i], seen.broken)
  <2>1. /\ Len(Tail(Pipe)) = Len(Pipe) - 1 /\ Len(Pipe) \in Nat \ {0}
        /\ \A i \in 1 .. Len(Tail(Pipe)) : Tail(Pipe)[i] = Pipe[i + 1]
    BY <1>1, <1>4, HeadTailProperties, EmptySeq DEF Empty
  <2>2. 1 \in 1 .. Len(Pipe) /\ \A i \in 1 .. Len(Tail(Pipe)) : i + 1 \in 1 .. Len(Pipe)
    BY <2>1
  <2>. QED
    BY <1>1, <2>1, <2>2 DEF LossInv
<1>. QED
  BY <1>1, <1>2, <1>3, <1>4, <1>5

SaidOf == [first : Text, streamed : Text, final : Text, offense : BOOLEAN]

\* What the loop may do with a frame it took.
LEMMA Taken ==
  ASSUME TurnInv, turn.at = "loop", readCh # Empty, readCh' = Tail(readCh),
         late' \in {"no", "seen"}, UNCHANGED <<reader, ctx, upstream, seen>>,
         turn' \in TurnOf, said' \in SaidOf,
         IF turn'.at = "over" THEN turn'.outcome # "none" /\ turn'.conn = "closed"
         ELSE turn'.at = "loop" /\ turn'.outcome = "none",
         said'.first # Empty => Notice(said'.first) = "none",
         turn'.at # "over" /\ said'.streamed = Empty => Notice(said'.final) = "none",
         turn'.outcome = "drop" => seen.broken,
         ASSUME seen.faithful, IsPrefix(said.streamed, upstream.answer),
                said.final \in {Empty, upstream.answer}, NEW b,
                Follows(Head(readCh), Len(said.streamed), b, upstream.answer),
                Head(readCh).kind = "completion" => Len(said.streamed) = Len(upstream.answer)
                                                    \/ said.final = upstream.answer
         PROVE  /\ IsPrefix(said'.streamed, upstream.answer)
                /\ said'.final \in {Empty, upstream.answer}
                /\ turn'.outcome = "ok" => turn'.text = upstream.answer /\ said'.streamed = upstream.answer
                /\ turn'.at # "over" =>
                     /\ Len(said'.streamed) = b
                     /\ said.final = upstream.answer => said'.final = upstream.answer
                     /\ Head(readCh).kind = "result" /\ Head(readCh).text = upstream.answer =>
                          said'.final = upstream.answer
  PROVE  TurnInv'
<1>1. /\ Head(readCh) \in Frame /\ Pipe \in Seq(Frame) /\ Pipe # Empty /\ Pipe[1] = Head(readCh)
      /\ Pipe' = Tail(Pipe)
      /\ readCh' \in Seq(Frame) /\ Len(readCh') <= ReadCap
      /\ \A i \in 1 .. Len(Tail(Pipe)) : Lost(Tail(Pipe)[i], seen.broken)
  BY TakenIs
<1>2. TurnTyped'
  BY <1>1 DEF TurnInv, TurnTyped, SaidOf
<1>3. Undecided'
  BY DEF Undecided
<1>4. NothingRead'
  BY DEF TurnInv, NothingRead
<1>5. LossInv'
  <2>1. (\A i \in 1 .. Len(Pipe) : Lost(Pipe[i], seen.broken))'
    BY <1>1 DEF Lost
  <2>2. DropIsReal'
    BY DEF DropIsReal
  <2>3. (reader.at = "gone" => seen.broken \/ ctx # "live" \/ turn.at = "over")'
    BY DEF TurnInv, LossInv
  <2>. QED
    BY <2>1, <2>2, <2>3 DEF LossInv
<1>6. FirstInv'
  BY DEF FirstInv, NoticeNeverFirst, Notice, NoImage, BusyNotice, Blocked
<1>7. FaithInv'
  <2>1. ASSUME seen.faithful
        PROVE  /\ IsPrefix(said'.streamed, upstream.answer)
               /\ said'.final \in {Empty, upstream.answer}
               /\ turn'.outcome = "ok" => turn'.text = upstream.answer /\ said'.streamed = upstream.answer
               /\ turn'.at # "over" => \E at \in [1 .. Len(Tail(Pipe)) + 1 -> 0 .. Len(upstream.answer)] :
                                         Chained(at, Tail(Pipe), said', upstream, reader)
    <3>1. /\ IsPrefix(said.streamed, upstream.answer) /\ said.final \in {Empty, upstream.answer}
          /\ \E at \in [1 .. Len(Pipe) + 1 -> 0 .. Len(upstream.answer)] :
               Chained(at, Pipe, said, upstream, reader)
      BY <2>1 DEF TurnInv, FaithInv
    <3>2. PICK at : Chained(at, Pipe, said, upstream, reader)
      BY <3>1
    <3>3. 1 \in 1 .. Len(Pipe) /\ 1 + 1 = 2
      BY <1>1, EmptySeq DEF Empty
    <3>4. at[1] = Len(said.streamed) /\ Follows(Pipe[1], at[1], at[2], upstream.answer)
      <4>1. Follows(Pipe[1], at[1], at[1 + 1], upstream.answer) /\ at[1] = Len(said.streamed)
        BY <3>2, <3>3 DEF Chained
      <4>. QED
        BY <3>3, <4>1
    <3>5. Pipe[1].kind = "completion" => at[1] = Len(upstream.answer) \/ said.final = upstream.answer
      <4>1. Pipe[1].kind = "completion" => Whole(at, Pipe, 1, said.final, upstream.answer)
        BY <3>2, <3>3 DEF Chained
      <4>2. 1 .. 1 - 1 = {}
        OBVIOUS
      <4>. QED
        BY <4>1, <4>2 DEF Whole
    <3>6. /\ IsPrefix(said'.streamed, upstream.answer)
          /\ said'.final \in {Empty, upstream.answer}
          /\ turn'.outcome = "ok" => turn'.text = upstream.answer /\ said'.streamed = upstream.answer
          /\ turn'.at # "over" =>
               /\ Len(said'.streamed) = at[2]
               /\ said.final = upstream.answer => said'.final = upstream.answer
               /\ Pipe[1].kind = "result" /\ Pipe[1].text = upstream.answer => said'.final = upstream.answer
      BY <1>1, <2>1, <3>1, <3>4, <3>5
    <3>7. Len(upstream.answer) \in Nat
      BY AnswerIs DEF TurnInv
    <3>8. turn'.at # "over" => \E at2 \in [1 .. Len(Tail(Pipe)) + 1 -> 0 .. Len(upstream.answer)] :
                                 Chained(at2, Tail(Pipe), said', upstream, reader)
      BY <1>1, <3>2, <3>6, <3>7, ChainShrinks
    <3>. QED
      BY <3>6, <3>8
  <2>. QED
    BY <1>1, <2>1, FaithNext
<1>. QED
  BY <1>2, <1>3, <1>4, <1>5, <1>6, <1>7 DEF TurnInv

\* The loop takes a frame and does what it says.
LEMMA TakeKeeps == TurnInv /\ Take => TurnInv'
<1>. SUFFICES ASSUME TurnInv, Take PROVE TurnInv'
  OBVIOUS
<1>1. /\ turn.at = "loop" /\ readCh # Empty /\ readCh' = Tail(readCh)
      /\ late' \in {"no", "seen"} /\ UNCHANGED <<reader, ctx, upstream, seen>>
  BY DEF Take, InLoop
<1>2. /\ TurnTyped /\ FirstInv /\ NoticeNeverFirst /\ turn \in TurnOf /\ said \in SaidOf
      /\ turn.outcome = "none"
  BY <1>1 DEF TurnInv, TurnTyped, FirstInv, SaidOf, Undecided
<1>. DEFINE f == Head(readCh)
<1>3. PICK takes \in BOOLEAN :
        \/ f.kind = "ping" /\ HandlePing
        \/ f.kind = "update" /\ HandleUpdate(f, takes)
        \/ f.kind = "result" /\ HandleResult(f)
        \/ f.kind = "completion" /\ HandleCompletion(f, takes)
        \/ f.kind = "error" /\ HandleError(f)
  BY DEF Take
<1>4. f \in Frame /\ Lost(f, seen.broken) /\ f.cursor \in Text /\ f.text \in Text /\ f.offense \in BOOLEAN
  <2>1. f \in Frame /\ Lost(f, seen.broken)
    BY <1>1, TakenIs
  <2>. QED
    BY <2>1 DEF Frame
<1>5. /\ said.streamed = Empty => Notice(said.final) = "none"
      /\ said.first # Empty => Notice(said.first) = "none"
  BY <1>1, <1>2 DEF FirstInv, NoticeNeverFirst
<1>6. CASE f.kind = "ping" /\ HandlePing
  <2>1. turn' = turn /\ said' = said
    BY <1>6 DEF HandlePing
  <2>2. ASSUME seen.faithful, IsPrefix(said.streamed, upstream.answer),
               said.final \in {Empty, upstream.answer}, NEW b,
               Follows(f, Len(said.streamed), b, upstream.answer)
        PROVE  Len(said.streamed) = b
    BY <1>6, <2>2 DEF Follows
  <2>. HIDE DEF f
  <2>. QED
    BY <1>1, <1>2, <1>5, <1>6, <2>1, <2>2, Taken DEF f
<1>7. CASE f.kind = "update" /\ HandleUpdate(f, takes)
  <2>. DEFINE r == Updated(f, takes)
  <2>1. /\ said' = [said EXCEPT !.first = r.first, !.streamed = r.streamed, !.offense = @ \/ f.offense]
        /\ IF r.fault = "none" THEN turn' = turn ELSE Over(r.fault)
    BY <1>7 DEF HandleUpdate
  <2>2. Clean(r) /\ (said.streamed # Empty => r.streamed # Empty) /\ r.fault \in FaultOf
    BY <1>2, <1>3, <1>4, UpdatedIs
  <2>3. ASSUME IsPrefix(said.streamed, upstream.answer), NEW b,
               Follows(f, Len(said.streamed), b, upstream.answer)
        PROVE  IsPrefix(r.streamed, upstream.answer) /\ (r.fault = "none" => Len(r.streamed) = b)
    BY <1>2, <1>3, <1>4, <1>7, <2>3, UpdatedFaithfully
  <2>. HIDE DEF r, f
  <2>4. /\ said' \in SaidOf /\ said'.first = r.first /\ said'.streamed = r.streamed /\ said'.final = said.final
    <3>1. r.first \in Text /\ r.streamed \in Text
      BY <2>2 DEF Clean, RunsOf
    <3>2. (said.offense \/ f.offense) \in BOOLEAN
      OBVIOUS
    <3>. QED
      BY <1>2, <2>1, <3>1, <3>2 DEF SaidOf
  <2>5. r.first # Empty => Notice(r.first) = "none"
    BY <2>2 DEF Clean
  <2>6. IF r.fault = "none" THEN turn' = turn
        ELSE turn' \in TurnOf /\ turn'.at = "over" /\ turn'.conn = "closed" /\ turn'.outcome = r.fault
    <3>1. CASE r.fault # "none"
      <4>1. r.fault \in Outcomes \ {"none"}
        BY <2>2, <3>1, OutcomesAre DEF FaultOf
      <4>. QED
        BY <1>2, <2>1, <3>1, <4>1, OverIs
    <3>. QED
      BY <2>1, <3>1
  <2>7. turn' \in TurnOf /\ turn'.outcome \notin {"ok", "drop"} /\ (turn'.at # "over" => r.fault = "none")
        /\ IF turn'.at = "over" THEN turn'.outcome # "none" /\ turn'.conn = "closed"
           ELSE turn'.at = "loop" /\ turn'.outcome = "none"
    BY <1>1, <1>2, <2>2, <2>6 DEF FaultOf
  <2>8. turn'.at # "over" /\ said'.streamed = Empty => Notice(said'.final) = "none"
    BY <1>5, <2>2, <2>4
  <2>9. said'.first # Empty => Notice(said'.first) = "none"
    BY <2>4, <2>5
  <2>10. ASSUME seen.faithful, IsPrefix(said.streamed, upstream.answer),
                said.final \in {Empty, upstream.answer}, NEW b,
                Follows(f, Len(said.streamed), b, upstream.answer)
         PROVE  /\ IsPrefix(said'.streamed, upstream.answer) /\ said'.final = said.final
                /\ turn'.at # "over" => Len(said'.streamed) = b
    BY <2>3, <2>4, <2>7, <2>10
  <2>. QED
    BY <1>1, <1>7, <2>4, <2>7, <2>8, <2>9, <2>10, Taken DEF f
<1>8. CASE f.kind = "result" /\ HandleResult(f)
  <2>1. /\ said' = [said EXCEPT !.final = IF f.verdict = "Success" /\ f.text # Empty THEN f.text ELSE @]
        /\ IF ResultFault(f) = "none" THEN turn' = turn ELSE Over(ResultFault(f))
    BY <1>8 DEF HandleResult
  <2>. DEFINE final == IF f.verdict = "Success" /\ f.text # Empty THEN f.text ELSE said.final
  <2>2. /\ said' \in SaidOf /\ said'.first = said.first /\ said'.streamed = said.streamed /\ said'.final = final
    BY <1>2, <1>4, <2>1 DEF SaidOf
  <2>3. /\ ResultFault(f) \in {"none", "throttled", "failed", "busy", "image", "policy"}
        /\ ResultFault(f) = "none" =>
             f.verdict = "Success" /\ (said.streamed = Empty => Notice(f.text) = "none")
    <3>1. f.verdict \in {"Success", "throttled", "failed", "busy"}
      BY <1>4, <1>8 DEF Lost
    <3>2. Notice(f.text) \in {"image", "busy", "policy", "none"}
      BY Noticed
    <3>. QED
      BY <3>1, <3>2 DEF ResultFault
  <2>. HIDE DEF f
  <2>4. IF ResultFault(f) = "none" THEN turn' = turn
        ELSE turn' \in TurnOf /\ turn'.at = "over" /\ turn'.conn = "closed" /\ turn'.outcome = ResultFault(f)
    <3>1. CASE ResultFault(f) # "none"
      <4>1. ResultFault(f) \in Outcomes \ {"none"}
        BY <2>3, <3>1, OutcomesAre
      <4>. QED
        BY <1>2, <2>1, <3>1, <4>1, OverIs
    <3>. QED
      BY <2>1, <3>1
  <2>5. turn' \in TurnOf /\ turn'.outcome \notin {"ok", "drop"} /\ (turn'.at # "over" => ResultFault(f) = "none")
        /\ IF turn'.at = "over" THEN turn'.outcome # "none" /\ turn'.conn = "closed"
           ELSE turn'.at = "loop" /\ turn'.outcome = "none"
    BY <1>1, <1>2, <2>3, <2>4
  <2>6. turn'.at # "over" /\ said'.streamed = Empty => Notice(said'.final) = "none"
    BY <1>5, <2>2, <2>3, <2>5
  <2>7. said'.first # Empty => Notice(said'.first) = "none"
    BY <1>5, <2>2
  <2>8. ASSUME seen.faithful, IsPrefix(said.streamed, upstream.answer),
               said.final \in {Empty, upstream.answer}, NEW b,
               Follows(f, Len(said.streamed), b, upstream.answer)
        PROVE  /\ IsPrefix(said'.streamed, upstream.answer) /\ said'.final \in {Empty, upstream.answer}
               /\ turn'.at # "over" =>
                    /\ Len(said'.streamed) = b
                    /\ said.final = upstream.answer => said'.final = upstream.answer
                    /\ f.text = upstream.answer => said'.final = upstream.answer
    <3>1. f.text \in {Empty, upstream.answer} /\ b = Len(said.streamed)
      BY <1>8, <2>8 DEF Follows
    <3>2. turn'.at # "over" => f.verdict = "Success"
      BY <2>3, <2>5
    <3>. QED
      BY <2>2, <2>8, <3>1, <3>2
  <2>. HIDE DEF final
  <2>. QED
    BY <1>1, <1>8, <2>2, <2>5, <2>6, <2>7, <2>8, Taken DEF f
<1>9. CASE f.kind = "completion" /\ HandleCompletion(f, takes)
  <2>. DEFINE z == Finalized(takes)
              outcome == Completed(f, takes)
  <2>1. /\ said' = IF outcome \in {"ok", "policy", "client"}
                   THEN [said EXCEPT !.first = z.run.first, !.streamed = z.run.streamed] ELSE said
        /\ turn' = [turn EXCEPT !.at = "over", !.conn = "closed", !.outcome = outcome,
                                !.text = IF outcome = "ok" THEN z.text ELSE Empty]
    BY <1>9 DEF HandleCompletion
  <2>2. Clean(z.run) /\ z.text \in Text /\ z.run.fault \in FaultOf
    <3>1. Clean(z.run) /\ z.text \in Text
      BY <1>1, <1>2, <1>3, FinalizedIs
    <3>. QED
      BY <3>1 DEF Clean, RunsOf
  <2>3. ASSUME IsPrefix(said.streamed, upstream.answer), said.final \in {Empty, upstream.answer}
        PROVE  /\ IsPrefix(z.run.streamed, upstream.answer)
               /\ said.streamed = upstream.answer \/ said.final = upstream.answer =>
                    z.text = upstream.answer /\ (z.run.fault = "none" => z.run.streamed = upstream.answer)
    BY <1>1, <1>2, <1>3, <2>3, FinalizedFaithfully
  <2>. HIDE DEF z
  <2>4. /\ outcome \in Outcomes \ {"none", "drop"}
        /\ outcome = "ok" => z.run.fault = "none"
    <3>1. f.verdict \in {"Success", "throttled", "failed", "busy"}
      BY <1>4, <1>9 DEF Lost
    <3>3. /\ f.verdict # "Success" => outcome = f.verdict
          /\ f.verdict = "Success" => \/ outcome \in {"busy", "empty", "policy"}
                                      \/ outcome = z.run.fault /\ z.run.fault # "none"
                                      \/ outcome = "ok" /\ z.run.fault = "none"
      BY DEF Completed, z
    <3>. HIDE DEF outcome
    <3>4. outcome = "ok" => z.run.fault = "none"
      BY <2>2, <3>1, <3>3 DEF FaultOf
    <3>5. outcome \in {"throttled", "failed", "busy", "empty", "policy", "ok", "canceled", "expired", "client", "image"}
      BY <2>2, <3>1, <3>3 DEF FaultOf
    <3>. QED
      BY <3>4, <3>5, OutcomesAre
  <2>. HIDE DEF outcome
  <2>5. turn' \in TurnOf /\ turn'.at = "over" /\ turn'.conn = "closed" /\ turn'.outcome = outcome
        /\ (outcome = "ok" => turn'.text = z.text)
    <3>1. Empty \in Text
      BY EmptySeq DEF Text, Empty
    <3>. QED
      BY <1>2, <2>1, <2>2, <2>4, <3>1 DEF TurnOf
  <2>6. /\ said' \in SaidOf /\ said'.final = said.final
        /\ \/ said'.first = said.first /\ said'.streamed = said.streamed /\ outcome # "ok"
           \/ said'.first = z.run.first /\ said'.streamed = z.run.streamed
    <3>1. z.run.first \in Text /\ z.run.streamed \in Text
      BY <2>2 DEF Clean, RunsOf
    <3>2. CASE outcome \in {"ok", "policy", "client"}
      <4>1. said' = [said EXCEPT !.first = z.run.first, !.streamed = z.run.streamed]
        BY <2>1, <3>2
      <4>. QED
        BY <1>2, <3>1, <4>1 DEF SaidOf
    <3>3. CASE outcome \notin {"ok", "policy", "client"}
      BY <1>2, <2>1, <3>3
    <3>. QED
      BY <3>2, <3>3
  <2>7. said'.first # Empty => Notice(said'.first) = "none"
    BY <1>5, <2>2, <2>6 DEF Clean
  <2>8. ASSUME seen.faithful, IsPrefix(said.streamed, upstream.answer),
               said.final \in {Empty, upstream.answer},
               Len(said.streamed) = Len(upstream.answer) \/ said.final = upstream.answer
        PROVE  /\ IsPrefix(said'.streamed, upstream.answer) /\ said'.final \in {Empty, upstream.answer}
               /\ turn'.outcome = "ok" => turn'.text = upstream.answer /\ said'.streamed = upstream.answer
    <3>1. said.streamed = upstream.answer \/ said.final = upstream.answer
      <4>1. said.streamed \in Seq(STRING) /\ upstream.answer \in Seq(STRING)
        BY <1>2, AnswerIs DEF SaidOf, Text
      <4>2. Len(said.streamed) = Len(upstream.answer) => said.streamed = upstream.answer
        BY <2>8, <4>1, OneBeginning
      <4>. QED
        BY <2>8, <4>2
    <3>. QED
      BY <2>3, <2>4, <2>5, <2>6, <2>8, <3>1
  <2>. HIDE DEF f
  <2>. QED
    BY <1>1, <1>9, <2>4, <2>5, <2>6, <2>7, <2>8, Taken DEF f
<1>10. CASE f.kind = "error" /\ HandleError(f)
  <2>1. Over(f.verdict) /\ said' = said /\ f.verdict \in {"timeout", "drop"} /\ seen.broken
    BY <1>4, <1>10 DEF HandleError, Lost
  <2>2. f.verdict \in Outcomes \ {"none"}
    BY <2>1, OutcomesAre
  <2>. HIDE DEF f
  <2>3. turn' \in TurnOf /\ turn'.at = "over" /\ turn'.outcome = f.verdict /\ turn'.conn = "closed"
    BY <1>2, <2>1, <2>2, OverIs
  <2>4. turn'.outcome \notin {"ok", "none"}
    BY <2>1, <2>3
  <2>. QED
    BY <1>1, <1>2, <1>5, <2>1, <2>3, <2>4, Taken
<1>. QED
  BY <1>3, <1>6, <1>7, <1>8, <1>9, <1>10

-----------------------------------------------------------------------------
\* What holds at the start.
LEMMA TurnStarts == TurnInit => TurnInv
<1>. SUFFICES ASSUME TurnInit PROVE TurnInv
  OBVIOUS
<1>1. Empty \in Text /\ Len(Empty) = 0 /\ Empty \in Seq(Frame)
  BY EmptySeq DEF Text, Empty
<1>2. upstream.answer \in Answers /\ upstream.pos = 0 /\ ~upstream.resulted
      /\ upstream \in [answer : Answers, pos : Nat, resulted : BOOLEAN]
  <2>1. upstream \in [answer : Answers, pos : {0}, resulted : {FALSE}]
    BY DEF TurnInit
  <2>2. PICK a \in Answers : upstream = [answer |-> a, pos |-> 0, resulted |-> FALSE]
    BY <2>1, Zenon
  <2>. QED
    BY <2>2
<1>3. upstream.answer \in Text /\ Len(upstream.answer) \in Nat
  BY <1>2, TurnAssumption, LenProperties DEF Text
<1>4. TurnTyped
  <2>1. turn \in TurnOf
    BY <1>1, OutcomesAre DEF TurnInit, TurnOf
  <2>2. said \in [first : Text, streamed : Text, final : Text, offense : BOOLEAN]
    BY <1>1 DEF TurnInit
  <2>3. /\ reader \in [at : {"none", "reading", "holding", "gone"}, frame : Frame \cup {Empty}]
        /\ reader.at = "none"
    BY DEF TurnInit
  <2>4. readCh \in Seq(Frame) /\ Len(readCh) <= ReadCap
    BY <1>1, TurnAssumption DEF TurnInit
  <2>5. upstream.pos <= Len(upstream.answer)
    BY <1>2, <1>3
  <2>6. /\ ctx \in {"live", "canceled", "expired"} /\ late \in {"no", "fired", "seen"}
        /\ seen \in [broken : BOOLEAN, faithful : BOOLEAN]
    BY DEF TurnInit
  <2>. QED
    BY <1>2, <2>1, <2>2, <2>3, <2>4, <2>5, <2>6 DEF TurnTyped
<1>5. Undecided /\ NothingRead
  BY <1>2 DEF TurnInit, Undecided, NothingRead
<1>6. Pipe = Empty
  BY DEF TurnInit, Pipe
<1>7. LossInv
  <2>1. 1 .. Len(Pipe) = {}
    BY <1>1, <1>6
  <2>2. reader.at = "none" /\ turn.outcome = "none"
    BY DEF TurnInit
  <2>. QED
    BY <2>1, <2>2 DEF LossInv, DropIsReal
<1>8. FirstInv
  BY Noticed DEF TurnInit, FirstInv, NoticeNeverFirst
<1>9. FaithInv
  <2>. DEFINE at == [i \in 1 .. Len(Pipe) + 1 |-> 0]
  <2>1. Len(Pipe) = 0 /\ 1 .. Len(Pipe) = {} /\ at \in [1 .. Len(Pipe) + 1 -> 0 .. Len(upstream.answer)]
    BY <1>1, <1>3, <1>6
  <2>2. at[1] = 0 /\ at[Len(Pipe) + 1] = 0
    BY <2>1
  <2>3. said.streamed = Empty /\ said.final = Empty /\ reader.at = "none" /\ turn.outcome = "none"
    BY DEF TurnInit
  <2>. HIDE DEF at
  <2>4. Chained(at, Pipe, said, upstream, reader)
    BY <1>1, <1>2, <2>1, <2>2, <2>3 DEF Chained
  <2>5. IsPrefix(said.streamed, upstream.answer)
    BY <1>3, <2>3, EmptyBegins DEF Text
  <2>. QED
    BY <2>1, <2>3, <2>4, <2>5 DEF FaithInv
<1>. QED
  BY <1>4, <1>5, <1>7, <1>8, <1>9 DEF TurnInv

\* A step that changes nothing.
LEMMA TurnRests == TurnInv /\ UNCHANGED turnVars => TurnInv'
<1>. SUFFICES ASSUME TurnInv, UNCHANGED turnVars PROVE TurnInv'
  OBVIOUS
<1>1. TurnTyped' /\ Undecided' /\ NothingRead' /\ Pipe' = Pipe
  BY DEF turnVars, TurnInv, TurnTyped, Undecided, NothingRead, Pipe
<1>2. LossInv' /\ FirstInv' /\ FaithInv'
  BY <1>1, QuietStep DEF turnVars
<1>. QED
  BY <1>1, <1>2 DEF TurnInv

\* TurnInv holds in every state of a turn of the ChatHub client (client.go).
THEOREM TurnInvCorrect == TurnSpec => []TurnInv
<1>1. TurnInit => TurnInv
  BY TurnStarts
<1>2. TurnInv /\ [TurnNext]_turnVars => TurnInv'
  BY OpeningKeeps, SendKeeps, EndingKeeps, ReaderKeeps, ReadFrameKeeps, TakeKeeps, TurnRests
     DEF TurnNext, Opening, LoopTurns
<1>. QED
  BY <1>1, <1>2, PTL DEF TurnSpec

\* The variables of a turn keep their types, the channel its capacity, and a turn
\* that is over has an outcome and a closed connection (client.go).
THEOREM TurnTypeCorrect == TurnSpec => []TurnTypeOK
<1>1. TurnInv => TurnTypeOK
  <2>. SUFFICES ASSUME TurnInv PROVE TurnTypeOK
    OBVIOUS
  <2>1. /\ turn \in TurnOf /\ Len(readCh) <= ReadCap
        /\ reader \in [at : {"none", "reading", "holding", "gone"}, frame : Frame \cup {Empty}]
        /\ ctx \in {"live", "canceled", "expired"} /\ late \in {"no", "fired", "seen"}
        /\ upstream.pos <= Len(upstream.answer) /\ upstream.pos \in Nat /\ Len(upstream.answer) \in Nat
    BY AnswerIs DEF TurnInv, TurnTyped
  <2>2. turn.at = "over" => turn.outcome # "none" /\ turn.conn = "closed"
    BY DEF TurnInv, Undecided
  <2>. QED
    BY <2>1, <2>2 DEF TurnTypeOK, TurnOf
<1>. QED
  BY <1>1, TurnInvCorrect, PTL

\* What the caller is told by a turn is what happened: every word of a faithful
\* answer once and in order, no notice as content, and no lost connection that was
\* not lost (emitDelta, emitSnapshot, finalizeText and the loop of client.go).
THEOREM TurnTellsTrulyCorrect == TurnSpec => []TurnTellsTruly
<1>1. TurnInv => TurnTellsTruly
  BY DEF TurnInv, LossInv, FirstInv, FaithInv, TurnTellsTruly, StreamIsTheAnswer
<1>. QED
  BY <1>1, TurnInvCorrect, PTL
=============================================================================
