------------------------------- MODULE ConnPool ------------------------------
(***************************************************************************)
(* The pool of pre-dialled connections (internal/chathub/connpool.go) for  *)
(* one account: Warm dials and lists a connection, a reader of its own     *)
(* keeps it alive, Take hands it to a request, whose frames that reader    *)
(* then forwards, and GC and Close drop what is left.  The lock covers     *)
(* only the list; the rest of a connection is touched without it.          *)
(*                                                                         *)
(* The server never makes a pool; ChatTurn has the client's side of one.   *)
(* The dialling, the hand-shake and the network are external.              *)
(***************************************************************************)
EXTENDS Integers, Sequences, FiniteSets

CONSTANTS
  Takers,      \* requests that take a connection
  Warmers,     \* goroutines that warm the pool
  MaxPerKey,   \* connections listed at most (2 in the code)
  FrameRoom,   \* capacity of the frame channel (64 in the code)
  MaxDialled   \* bound: connections that Warm dials

ASSUME ConnPoolAssumption ==
  MaxPerKey \in Nat \ {0} /\ FrameRoom \in Nat \ {0} /\ MaxDialled \in Nat

VARIABLES
  conns,     \* the connections dialled so far
  pooled,    \* those in the list, by number, which is the order they are listed in
  shut,      \* p.closed
  taker,     \* what every request is doing
  warmer,    \* what every warming goroutine is doing
  collector  \* connections that GC or Close has taken out and still has to close

poolVars == <<conns, pooled, shut, taker, warmer, collector>>

\* A connection before it has a reader: its channels are nil.
NewConn == [socket |-> "ok", old |-> FALSE, taken |-> FALSE, reader |-> "none",
            frames |-> "nil", waiting |-> 0, error |-> FALSE]
NoConnection == 0

ConnPoolInit ==
  /\ conns = <<>> /\ pooled = {} /\ shut = FALSE /\ collector = {}
  /\ taker = [t \in Takers |-> [at |-> "idle", conn |-> NoConnection, stale |-> {}, frames |-> "nil"]]
  /\ warmer = [w \in Warmers |-> [at |-> "idle", conn |-> NoConnection]]

\* closeFrames, once for all who reach it.
Closed(conn) == [conn EXCEPT !.frames = IF @ = "nil" THEN "nil" ELSE "closed"]
Dropped(conn) == [Closed(conn) EXCEPT !.socket = "closed"]
-----------------------------------------------------------------------------
(* Warm.                                                                   *)

WarmLooks(w) ==
  /\ warmer[w].at = "idle" /\ ~shut /\ Cardinality(pooled) < MaxPerKey
  /\ warmer' = [warmer EXCEPT ![w].at = "dial"]
  /\ UNCHANGED <<conns, pooled, shut, taker, collector>>

WarmFails(w) ==
  /\ warmer[w].at = "dial"
  /\ warmer' = [warmer EXCEPT ![w].at = "idle"]
  /\ UNCHANGED <<conns, pooled, shut, taker, collector>>

\* Variant: the length of the list is not looked at again after the dial.
RoomUnread == TRUE

RoomLeft == Cardinality(pooled) < MaxPerKey

\* The connection is listed if there is still room, whether or not the pool has
\* been closed; its reader starts after that.
WarmLists(w) ==
  /\ warmer[w].at = "dial" /\ Len(conns) < MaxDialled
  /\ IF RoomLeft
     THEN /\ conns' = Append(conns, NewConn)
          /\ pooled' = pooled \cup {Len(conns) + 1}
          /\ warmer' = [warmer EXCEPT ![w] = [at |-> "park", conn |-> Len(conns) + 1]]
     ELSE /\ warmer' = [warmer EXCEPT ![w].at = "idle"]
          /\ UNCHANGED <<conns, pooled>>
  /\ UNCHANGED <<shut, taker, collector>>

StartPark(w) ==
  /\ warmer[w].at = "park"
  /\ conns' = [conns EXCEPT ![warmer[w].conn] = [@ EXCEPT !.frames = "open", !.reader = "read"]]
  /\ warmer' = [warmer EXCEPT ![w] = [at |-> "idle", conn |-> NoConnection]]
  /\ UNCHANGED <<pooled, shut, taker, collector>>
-----------------------------------------------------------------------------
(* Take.                                                                   *)

TakeLooks(t) ==
  /\ taker[t].at = "idle" /\ ~shut
  /\ taker' = [taker EXCEPT ![t].at = "pick"]
  /\ UNCHANGED <<conns, pooled, shut, warmer, collector>>

\* The first connection that is not too old is taken out of the list, and so are
\* all that are; without one the request dials for itself.
TakePicks(t) ==
  LET young == {c \in pooled : ~conns[c].old}
      pick  == IF young = {} THEN NoConnection ELSE CHOOSE c \in young : \A d \in young : c <= d
      stale == {c \in pooled : conns[c].old}
  IN  /\ taker[t].at = "pick"
      /\ pooled' = pooled \ (stale \cup {pick})
      /\ taker' = [taker EXCEPT ![t] = [@ EXCEPT !.at = "mark", !.conn = pick, !.stale = stale]]
      /\ UNCHANGED <<conns, shut, warmer, collector>>

\* Those too old are closed and the picked one is marked as taken, after the lock.
TakeMarks(t) ==
  LET r == taker[t]
  IN  /\ r.at = "mark"
      /\ conns' = [c \in DOMAIN conns |->
           CASE c \in r.stale -> [conns[c] EXCEPT !.taken = TRUE, !.socket = "closed"]
             [] c = r.conn    -> [conns[c] EXCEPT !.taken = TRUE]
             [] OTHER         -> conns[c]]
      /\ taker' = [taker EXCEPT ![t] =
           IF r.conn = NoConnection THEN [@ EXCEPT !.at = "idle", !.stale = {}]
           ELSE [@ EXCEPT !.at = "use", !.stale = {}, !.frames = conns[r.conn].frames]]
      /\ UNCHANGED <<pooled, shut, warmer, collector>>

\* The request takes a frame.
TakeFrame(t) ==
  /\ taker[t].at = "use" /\ conns[taker[t].conn].waiting > 0
  /\ conns' = [conns EXCEPT ![taker[t].conn].waiting = @ - 1]
  /\ UNCHANGED <<pooled, shut, taker, warmer, collector>>

\* The request ends and closes the connection.
EndUse(t) ==
  /\ taker[t].at = "use"
  /\ conns' = [conns EXCEPT ![taker[t].conn].socket = "closed"]
  /\ taker' = [taker EXCEPT ![t] = [at |-> "idle", conn |-> NoConnection, stale |-> {}, frames |-> "nil"]]
  /\ UNCHANGED <<pooled, shut, warmer, collector>>
-----------------------------------------------------------------------------
(* The reader of a connection, the only one it ever has.                   *)

SetConn(c, conn) ==
  /\ conns' = [conns EXCEPT ![c] = conn]
  /\ UNCHANGED <<pooled, shut, taker, warmer, collector>>

\* Reading fails: a taken connection is given up, any other is evicted.
ReadFails(c) ==
  LET conn == conns[c]
  IN  /\ conn.reader = "read" /\ conn.socket # "ok"
      /\ SetConn(c, IF conn.taken THEN [Closed(conn) EXCEPT !.reader = "gone", !.error = TRUE]
                    ELSE [conn EXCEPT !.reader = "evict"])

EvictUnlists(c) ==
  /\ conns[c].reader = "evict"
  /\ conns' = [conns EXCEPT ![c].reader = "close"]
  /\ pooled' = pooled \ {c}
  /\ UNCHANGED <<shut, taker, warmer, collector>>

\* Variant: the frames of an evicted connection are left open.
EvictedQuietly(conn) == [conn EXCEPT !.socket = "closed", !.reader = "gone"]

\* A request may have taken the connection meanwhile, so its frames are closed.
EvictedReader(conn) == [Dropped(conn) EXCEPT !.reader = "gone"]

EvictCloses(c) == conns[c].reader = "close" /\ SetConn(c, EvictedReader(conns[c]))

\* A frame arrives: what comes before the connection is taken is a ping, which is
\* answered, or is dropped.
FrameArrives(c) ==
  LET conn == conns[c]
  IN  /\ conn.reader = "read" /\ conn.socket = "ok" /\ conn.taken
      /\ SetConn(c, CASE conn.frames = "closed" ->  \* the send panics and is recovered
                           [Dropped(conn) EXCEPT !.reader = "gone", !.error = TRUE]
                      [] conn.frames # "closed" /\ conn.waiting < FrameRoom ->
                           [conn EXCEPT !.waiting = @ + 1]
                      [] OTHER -> [conn EXCEPT !.reader = "put"])

\* There is room again, the frames are closed by another hand, or nobody has read
\* for thirty seconds.
PutEnds(c) ==
  LET conn == conns[c]
      drop == [Dropped(conn) EXCEPT !.reader = "gone", !.error = TRUE]
  IN  /\ conn.reader = "put"
      /\ \/ conn.frames = "closed" /\ SetConn(c, drop)
         \/ /\ conn.frames = "open" /\ conn.waiting < FrameRoom
            /\ SetConn(c, [conn EXCEPT !.waiting = @ + 1, !.reader = "read"])
         \/ conn.frames = "open" /\ SetConn(c, drop)
-----------------------------------------------------------------------------
(* GC and Close take connections out of the list under the lock and close  *)
(* them after it.                                                          *)

Collect(victims) ==
  /\ conns' = [c \in DOMAIN conns |-> IF c \in victims THEN [conns[c] EXCEPT !.taken = TRUE] ELSE conns[c]]
  /\ pooled' = pooled \ victims
  /\ collector' = collector \cup victims
  /\ UNCHANGED <<taker, warmer>>

GC ==
  LET old == {c \in pooled : conns[c].old}
  IN  ~shut /\ old # {} /\ Collect(old) /\ UNCHANGED shut

ClosePool == ~shut /\ shut' = TRUE /\ Collect(pooled)

CloseVictim(c) ==
  /\ c \in collector
  /\ conns' = [conns EXCEPT ![c] = Dropped(@)]
  /\ collector' = collector \ {c}
  /\ UNCHANGED <<pooled, shut, taker, warmer>>
-----------------------------------------------------------------------------
(* The network and the clock.                                              *)

Breaks(c) == conns[c].socket = "ok" /\ SetConn(c, [conns[c] EXCEPT !.socket = "broken"])

GrowsOld(c) == ~conns[c].old /\ c \in pooled /\ SetConn(c, [conns[c] EXCEPT !.old = TRUE])

ConnPoolNext ==
  \/ \E w \in Warmers : WarmLooks(w) \/ WarmFails(w) \/ WarmLists(w) \/ StartPark(w)
  \/ \E t \in Takers : TakeLooks(t) \/ TakePicks(t) \/ TakeMarks(t) \/ TakeFrame(t) \/ EndUse(t)
  \/ \E c \in DOMAIN conns : \/ ReadFails(c) \/ EvictUnlists(c) \/ EvictCloses(c) \/ FrameArrives(c)
                             \/ PutEnds(c) \/ CloseVictim(c) \/ Breaks(c) \/ GrowsOld(c)
  \/ GC \/ ClosePool

ConnPoolSpec == ConnPoolInit /\ [][ConnPoolNext]_poolVars
-----------------------------------------------------------------------------
ConnPoolTypeOK ==
  /\ Len(conns) <= MaxDialled /\ Cardinality(pooled) <= MaxPerKey
  /\ \A c \in DOMAIN conns : conns[c].reader \in {"none", "read", "put", "evict", "close", "gone"}
  /\ \A t \in Takers : taker[t].conn \in 0 .. Len(conns)

\* A request that was given the channels of a connection learns when its reader
\* has gone, by whatever way: nobody else would end its wait.  It is also the only
\* one to have that connection.
NoStrandedTaker ==
  \A t \in Takers : taker[t].at = "use" =>
    /\ taker[t].frames # "nil" /\ conns[taker[t].conn].reader = "gone" =>
         conns[taker[t].conn].frames = "closed"
    /\ taker[t].conn \notin pooled \cup collector
    /\ \A u \in Takers \ {t} : taker[u].conn # taker[t].conn
=============================================================================
