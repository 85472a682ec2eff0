------------------------------ MODULE ChatPage ------------------------------
(***************************************************************************)
(* The chat page (internal/web/chatui.go): its users, their conversations  *)
(* on disk and their daily quotas, and the handlers that talk to the       *)
(* upstream for them.  A handler checks the session and the quota, files   *)
(* the question, calls the gateway in process, files the answer and counts *)
(* it, each under a lock of its own; meanwhile the user may delete or      *)
(* rename the conversation, the administrator the user or the key, and the *)
(* day may end.  The janitor removes what is old and takes no lock, so its *)
(* removal may fall between the loading of a conversation and its saving.  *)
(*                                                                         *)
(* Of a conversation only its owner and its age are kept: no property      *)
(* reads the messages.  The call is external here (see Completion), and    *)
(* pictures are files nothing else refers to.                              *)
(***************************************************************************)
EXTENDS Integers, FiniteSets

CONSTANTS
  Users,         \* users of the chat page
  Convs,         \* identifiers of conversations, each made once
  Handlers,      \* requests served at the same time
  DailyLimit,    \* the limits of every user: answers and pictures in a day
  MaxPictures    \* pictures one request may ask for (4 in the code)

ASSUME ChatPageAssumption ==
  /\ DailyLimit \in [{"chat", "image"} -> Nat \ {0}] /\ MaxPictures \in Nat \ {0}
  /\ IsFiniteSet(Handlers)

VARIABLES
  users,     \* users there are, those enabled, those logged in, those with a key
  convs,     \* the conversations on disk
  handler,   \* what every handler is doing
  quota,     \* today's counter file
  saving,    \* the conversation that was loaded under the lock, to be saved
  janitor,   \* the conversation the janitor is about to remove
  spent,     \* what every user was given today
  gone       \* conversations that were deleted while nobody was saving them

pageVars == <<users, convs, saving, handler, quota, janitor, spent, gone>>

NoConv == [none |-> TRUE]
Idle == [at |-> "idle"]
Asks == {"chat", "image"}
NoneUsed == [p \in Users \X Asks |-> 0]

ChatPageInit ==
  /\ users = [known |-> Users, enabled |-> Users, session |-> {}, key |-> Users]
  /\ convs = [c \in Convs |-> NoConv] /\ saving = NoConv
  /\ handler = [h \in Handlers |-> Idle]
  /\ quota = NoneUsed /\ spent = NoneUsed
  /\ janitor = NoConv /\ gone = {}
-----------------------------------------------------------------------------
(* Users, sessions and keys.                                               *)

\* Nobody holds the lock of the users, the sessions and the conversations.
Unlocked == saving = NoConv

Login(u) ==
  /\ Unlocked /\ u \in users.known \intersect users.enabled
  /\ users' = [users EXCEPT !.session = @ \union {u}]
  /\ UNCHANGED <<convs, saving, handler, quota, janitor, spent, gone>>

\* The user logs out, or the session runs out and is dropped.
Logout(u) ==
  /\ Unlocked /\ u \in users.session
  /\ users' = [users EXCEPT !.session = @ \ {u}]
  /\ UNCHANGED <<convs, saving, handler, quota, janitor, spent, gone>>

\* chatAuth: a live session of a user that is there and enabled.
Authorised(u) == Unlocked /\ u \in users.session \intersect users.known \intersect users.enabled

Enable(u, on) ==
  /\ Unlocked /\ u \in users.known
  /\ users' = [users EXCEPT !.enabled = IF on THEN @ \union {u} ELSE @ \ {u}]
  /\ UNCHANGED <<convs, saving, handler, quota, janitor, spent, gone>>

Mine(u, c) == convs[c] # NoConv /\ convs[c].owner = u

\* The administrator deletes the user: the key and the conversations go too, the
\* sessions stay behind.
DeleteUser(u) ==
  LET his == {c \in Convs : Mine(u, c)}
  IN  /\ Unlocked /\ u \in users.known
      /\ users' = [users EXCEPT !.known = @ \ {u}, !.key = @ \ {u}]
      /\ convs' = [c \in Convs |-> IF c \in his THEN NoConv ELSE convs[c]]
      /\ gone' = gone \union his
      /\ UNCHANGED <<saving, handler, quota, janitor, spent>>

\* The key of a user is deleted among the API keys.
DeleteKey(u) ==
  /\ u \in users.key
  /\ users' = [users EXCEPT !.key = @ \ {u}]
  /\ UNCHANGED <<convs, saving, handler, quota, janitor, spent, gone>>
-----------------------------------------------------------------------------
(* Conversations.                                                          *)

\* loadConv: whoever saves the conversation takes the lock and loads it first.
Load(u, c, by) == Unlocked /\ saving' = [owner |-> u, conv |-> c, by |-> by]

\* saveConv: the file is new again, or there again, and the lock is released.
Save(by) ==
  /\ saving # NoConv /\ saving.by = by
  /\ convs' = [convs EXCEPT ![saving.conv] = [owner |-> saving.owner, old |-> FALSE]]
  /\ saving' = NoConv

\* Conversations that will be saved again.
Loaded == IF saving = NoConv THEN {} ELSE {saving.conv}

\* The user renames the conversation: no handler answers a question with it.
LoadToRename(u, c) ==
  /\ Authorised(u) /\ Mine(u, c) /\ Load(u, c, {})
  /\ UNCHANGED <<users, convs, handler, quota, janitor, spent, gone>>

\* The administrator deletes a picture: every conversation that shows it is loaded
\* and saved without it.
LoadToStrip(u, c) ==
  /\ u \in users.known /\ Mine(u, c) /\ Load(u, c, {})
  /\ UNCHANGED <<users, convs, handler, quota, janitor, spent, gone>>

SaveChanged ==
  /\ Save({})
  /\ UNCHANGED <<users, handler, quota, janitor, spent, gone>>

DeleteConv(u, c) ==
  /\ Authorised(u) /\ Mine(u, c)
  /\ convs' = [convs EXCEPT ![c] = NoConv]
  /\ gone' = gone \union {c}
  /\ UNCHANGED <<users, saving, handler, quota, janitor, spent>>

\* Nobody has saved the conversation for the days of the retention.
GrowOld(c) ==
  /\ convs[c] # NoConv /\ ~convs[c].old
  /\ convs' = [convs EXCEPT ![c].old = TRUE]
  /\ UNCHANGED <<users, saving, handler, quota, janitor, spent, gone>>

\* The janitor looks at the age of a file, without the lock, and then removes it.
Inspect(c) ==
  /\ janitor = NoConv
  /\ convs[c] # NoConv /\ convs[c].old
  /\ janitor' = [conv |-> c]
  /\ UNCHANGED <<users, convs, saving, handler, quota, spent, gone>>

\* A conversation that is loaded at this moment comes back when it is saved.
JanitorSweeps ==
  /\ janitor # NoConv
  /\ convs' = [convs EXCEPT ![janitor.conv] = NoConv]
  /\ gone' = gone \union ({janitor.conv} \ Loaded)
  /\ janitor' = NoConv
  /\ UNCHANGED <<users, saving, handler, quota, spent>>
-----------------------------------------------------------------------------
(* A handler: chatProxy, or chatImageGenJSON when pictures are asked for.  *)

\* The session and the quota are checked.
Begin(h, u, k) ==
  /\ handler[h] = Idle
  /\ Authorised(u)
  /\ quota[u, k] < DailyLimit[k]
  /\ handler' = [handler EXCEPT ![h] = [at |-> "question", user |-> u, ask |-> k]]
  /\ UNCHANGED <<users, convs, saving, quota, janitor, spent, gone>>

\* The question is filed in a conversation of the user that is on disk, or in a
\* new one.
LoadQuestion(h, c) ==
  /\ handler[h].at = "question"
  /\ Mine(handler[h].user, c) \/ (convs[c] = NoConv /\ c \notin gone)
  /\ Load(handler[h].user, c, {h})
  /\ UNCHANGED <<users, convs, handler, quota, janitor, spent, gone>>

FileQuestion(h) ==
  LET r == handler[h]
  IN  /\ r.at = "question" /\ Save({h})
      /\ handler' = [handler EXCEPT ![h] = [at |-> "call", user |-> r.user, ask |-> r.ask,
                                            conv |-> saving.conv]]
      /\ UNCHANGED <<users, quota, janitor, spent, gone>>

\* The request cannot be made for want of a key, or its status is not 200.
CallRefused(h) ==
  /\ handler[h].at = "call"
  /\ handler' = [handler EXCEPT ![h] = Idle]
  /\ UNCHANGED <<users, convs, saving, quota, janitor, spent, gone>>

\* The user gets an answer, or so many pictures.
CallAnswered(h, n) ==
  LET r == handler[h]
  IN  /\ r.at = "call" /\ r.user \in users.key
      /\ r.ask = "chat" => n = 1
      /\ spent' = [spent EXCEPT ![<<r.user, r.ask>>] = @ + n]
      /\ handler' = [handler EXCEPT ![h] = [at |-> "answer", user |-> r.user, ask |-> r.ask,
                                            conv |-> r.conv, left |-> n]]
      /\ UNCHANGED <<users, convs, saving, quota, janitor, gone>>

\* Variant: the conversation loaded with the question is saved with the answer.
LoadAnswerBlindly(h) ==
  /\ handler[h].at = "answer"
  /\ Load(handler[h].user, handler[h].conv, {h})
  /\ UNCHANGED <<users, convs, handler, quota, janitor, spent, gone>>

\* The answer is filed if the conversation is still there.
LoadAnswer(h) ==
  /\ handler[h].at = "answer"
  /\ Mine(handler[h].user, handler[h].conv)
  /\ Load(handler[h].user, handler[h].conv, {h})
  /\ UNCHANGED <<users, convs, handler, quota, janitor, spent, gone>>

FileAnswer(h) ==
  /\ handler[h].at = "answer" /\ Save({h})
  /\ handler' = [handler EXCEPT ![h].at = "count"]
  /\ UNCHANGED <<users, quota, janitor, spent, gone>>

\* There is nothing to file, or no conversation any more.
NothingFiled(h) ==
  /\ handler[h].at = "answer" /\ Unlocked
  /\ handler' = [handler EXCEPT ![h].at = "count"]
  /\ UNCHANGED <<users, convs, saving, quota, janitor, spent, gone>>

\* What the handler has counted one of.
Counted(h) ==
  LET r == handler[h]
  IN  handler' = [handler EXCEPT ![h] = IF r.left = 1 THEN Idle ELSE [r EXCEPT !.left = r.left - 1]]

\* Variant: an answer counts once, however many pictures it has.
CountOnce(h) ==
  /\ handler[h].at = "count"
  /\ quota' = [quota EXCEPT ![<<handler[h].user, handler[h].ask>>] = @ + 1]
  /\ handler' = [handler EXCEPT ![h] = Idle]
  /\ UNCHANGED <<users, convs, saving, janitor, spent, gone>>

\* bumpChatQuota, once for the answer or once per picture.
Count(h) ==
  /\ handler[h].at = "count"
  /\ quota' = [quota EXCEPT ![<<handler[h].user, handler[h].ask>>] = @ + 1]
  /\ Counted(h)
  /\ UNCHANGED <<users, convs, saving, janitor, spent, gone>>

\* The day ends: the counters of the new one start from nothing.
Midnight ==
  /\ quota' = NoneUsed /\ spent' = NoneUsed
  /\ UNCHANGED <<users, convs, saving, handler, janitor, gone>>

\* The day ends between the reading of one file and the writing of the other: the
\* counters of yesterday go on.
CountOverMidnight(h) ==
  /\ handler[h].at = "count"
  /\ quota' = [quota EXCEPT ![<<handler[h].user, handler[h].ask>>] = @ + 1]
  /\ spent' = NoneUsed
  /\ Counted(h)
  /\ UNCHANGED <<users, convs, saving, janitor, gone>>
-----------------------------------------------------------------------------
ChatPageNext ==
  \/ \E u \in Users :
       \/ Login(u) \/ Logout(u) \/ DeleteUser(u) \/ DeleteKey(u)
       \/ \E on \in BOOLEAN : Enable(u, on)
       \/ \E c \in Convs : LoadToRename(u, c) \/ LoadToStrip(u, c) \/ DeleteConv(u, c)
       \/ \E h \in Handlers, k \in Asks : Begin(h, u, k)
  \/ \E c \in Convs : GrowOld(c) \/ Inspect(c) \/ \E h \in Handlers : LoadQuestion(h, c)
  \/ \E h \in Handlers :
       \/ FileQuestion(h) \/ CallRefused(h) \/ LoadAnswer(h) \/ FileAnswer(h) \/ NothingFiled(h)
       \/ Count(h) \/ CountOverMidnight(h)
       \/ \E n \in 1 .. MaxPictures : CallAnswered(h, n)
  \/ SaveChanged \/ JanitorSweeps \/ Midnight

ChatPageSpec == ChatPageInit /\ [][ChatPageNext]_pageVars
-----------------------------------------------------------------------------
\* A request gives at most so much.
AtMost == [chat |-> 1, image |-> MaxPictures]
Most(k) == DailyLimit[k] - 1 + Cardinality(Handlers) * AtMost[k]

ChatPageTypeOK ==
  /\ \A part \in DOMAIN users : users[part] \subseteq Users
  /\ convs \in [Convs -> [owner : Users, old : BOOLEAN] \union {NoConv}]
  /\ \A h \in Handlers : handler[h].at \in {"idle", "question", "call", "answer", "count"}
  /\ \A u \in Users, k \in Asks : quota[u, k] \in 0 .. Most(k)
  /\ saving \in [owner : Users, conv : Convs, by : {{}} \union {{h} : h \in Handlers}] \union {NoConv}
  /\ gone \subseteq Convs

\* A conversation that its user or the administrator removed never comes back,
\* though a request that began before may still have its answer to file; nor does
\* one that the janitor removed, unless somebody had loaded it and not saved yet.
DeletedStaysDeleted == \A c \in gone : convs[c] = NoConv

\* The quota is checked when a request begins and counted when it ends, so
\* requests that overlap exceed it; but never by more than what those served at
\* once can give, and not even when the day ends between the two.
QuotaHolds == \A u \in Users, k \in Asks : spent[u, k] <= Most(k)

\* What was deleted stays so but for that, and what was spent stays so, whatever is
\* under way.
PageTrue == DeletedStaysDeleted /\ QuotaHolds
=============================================================================
