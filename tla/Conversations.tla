--------------------------- MODULE Conversations ---------------------------
(***************************************************************************)
(* How a chat request finds the cloud conversation it continues, and how    *)
(* conversations are cleaned up: src/internal/web/session_resolver.go,      *)
(* conversation_cache.go, conversation_manager.go and auto_cleanup.go, with *)
(* the part of openaiChat (server.go) that uses them.                       *)
(*                                                                         *)
(* Clients send the whole chat each time; the gateway looks for a cloud     *)
(* conversation that already holds the beginning and sends only the rest.   *)
(* Resolver, cache and manager have a lock each, and nothing is held while  *)
(* the upstream answers.                                                   *)
(*                                                                         *)
(* All chats use one account, model, system prompt and address, the case in *)
(* which they can be taken for one another.  Of the resolver's four indexes *)
(* only byExplicit is ever read.  Ages are "recent" or "past": more than    *)
(* the two hours that every part of the code waits.                         *)
(***************************************************************************)
EXTENDS Naturals, Sequences, FiniteSets

CONSTANTS
    Chat,         \* chats, each held by one client
    Key,          \* API keys
    Name,         \* X-M365-Session-Ids
    Unset,
    MaxConv,      \* bound: cloud conversations that are ever created
    MaxSaid,      \* bound: messages of a chat
    MaxOthers,    \* bound: other chats with an answer while one asks again
    MaxSessions,  \* sessions that the resolver keeps
    KeepN,        \* conversations that a clean-up keeps
    MaxTrouble    \* bound: failures, clean-ups and deletions that are asked for

ASSUME ConversationAssumption ==
    /\ MaxConv \in Nat \ {0} /\ MaxSaid \in Nat /\ MaxOthers \in Nat
    /\ MaxSessions \in Nat \ {0} /\ KeepN \in Nat /\ MaxTrouble \in Nat
    /\ Unset \notin Nat \cup Name

VARIABLES
    keyOf,     \* the API key of each chat's client; it does not change
    said,      \* how many messages, answers included, the client of a chat has seen
    turn,      \* where its request is
    nameOf,    \* the X-M365-Session-Id of the request, or Unset
    target,    \* the conversation the request continues, or Unset
    under,     \* the id of the session it belongs to, or Unset
    from,      \* how many of its messages are not sent again
    cloud,     \* what each conversation created so far holds
    alive,     \* conversations that are not deleted in the cloud
    aged,      \* conversations created more than two hours ago
    sessions,  \* sr.sessions; a session's id is that of the conversation it was made with
    byName,    \* sr.byExplicit
    cached,    \* the cache's entry for the account and model
    managed,   \* the manager's records: whether each is past
    sweep,     \* where the clean-up is: its own rounds, or what the administrator asked for
    spared,    \* the conversations it found in use when it started
    doomed,    \* those of its round that it still has to delete
    kept,      \* the count of the clean-up that the administrator asked for
    late,      \* history: conversations whose sessions may outlive them: a request held
               \* them when they were deleted, or the administrator's clean-up took them
    blurred,   \* history: conversations that may not hold what their chats hold, and why
    trouble    \* history: how often something happened that MaxTrouble bounds

chatVars == <<keyOf, said, turn, nameOf, target, under, from>>
cloudVars == <<cloud, alive, aged>>
indexVars == <<sessions, byName>>
sweepVars == <<sweep, spared, doomed, kept>>
conversationVars ==
    <<chatVars, cloudVars, indexVars, cached, managed, sweepVars, late, blurred, trouble>>

Conv == 1 .. MaxConv
Made == DOMAIN cloud
Message == Chat \X (1 .. MaxSaid + 1)

\* The request of a chat, and the answer to it.
Asked(c) == [i \in 1 .. said[c] + 1 |-> <<c, i>>]
Answer(c) == <<c, said[c] + 2>>

\* "reused" is convReused: the conversation is from the cache.
Turn == {"idle", "resolved", "looked", "reused", "answered", "bound"}

NoEntry == [conv |-> Unset, session |-> Unset, count |-> 0, past |-> FALSE]

ConversationInit ==
    /\ keyOf \in [Chat -> Key]
    /\ nameOf = [c \in Chat |-> Unset]
    /\ said = [c \in Chat |-> 0]
    /\ turn = [c \in Chat |-> "idle"]
    /\ target = [c \in Chat |-> Unset]
    /\ under = [c \in Chat |-> Unset]
    /\ from = [c \in Chat |-> 0]
    /\ cloud = <<>> /\ alive = {} /\ aged = {}
    /\ sessions = [s \in {} |-> Unset] /\ byName = [n \in {} |-> Unset]
    /\ cached = NoEntry
    /\ managed = [v \in {} |-> FALSE]
    /\ sweep = "off" /\ spared = {} /\ doomed = {} /\ kept = 0
    /\ late = {} /\ blurred = {} /\ trouble = 0
-----------------------------------------------------------------------------
Trouble == trouble < MaxTrouble /\ trouble' = trouble + 1

Put(f, x, y) == [z \in DOMAIN f \cup {x} |-> IF z = x THEN y ELSE f[z]]
Without(f, S) == [z \in DOMAIN f \ S |-> f[z]]

\* evictLocked drops what is past, and then the least recently used: the model
\* does not tell which of the recent ones that is.
Evicted(S) ==
    {gone \in SUBSET DOMAIN S :
        /\ \A s \in DOMAIN S : S[s].past => s \in gone
        /\ Cardinality(DOMAIN S \ gone) <= MaxSessions
        /\ gone # {s \in DOMAIN S : S[s].past} => Cardinality(DOMAIN S \ gone) = MaxSessions}

\* dropLocked takes the names the sessions have now out of the index.
NamesLeft(gone) == Without(byName, {<<sessions[s].key, sessions[s].name>> : s \in gone})

IsPrefixOf(h, m) == Len(h) <= Len(m) /\ SubSeq(m, 1, Len(h)) = h

\* Sessions whose history begins the request, and the longest of them.
OpeningsOf(S, c) == {s \in DOMAIN S : S[s].key = keyOf[c] /\ IsPrefixOf(S[s].history, Asked(c))}

Longest(S, P) == {s \in P : \A t \in P : Len(S[t].history) <= Len(S[s].history)}

\* A mutant of Alike: the key is not compared.
AlikeAnyKey(S, c) == DOMAIN S

\* Sessions that matchFuzzy may take: similarity goes by the text, so any history of
\* the same key may be found alike.  matchSuffix finds none: a history ends with an
\* answer, a request with a question.
Alike(S, c) == {s \in DOMAIN S : S[s].key = keyOf[c]}

\* Resolve: the session to continue, with how much of the request it holds: by the
\* explicit name, else the longest history that begins the request, else a guess,
\* else none.
Resolved(S, names, c) ==
    LET n == <<keyOf[c], nameOf'[c]>>
        named == {names[k] : k \in DOMAIN names \cap {n}} \cap {s \in DOMAIN S : S[s].key = keyOf[c]}
        P == OpeningsOf(S, c)
    IN  IF named # {} THEN {<<s, Len(S[s].history)>> : s \in named}
        ELSE IF P # {} THEN {<<s, Len(S[s].history)>> : s \in Longest(S, P)}
        ELSE {<<s, 0>> : s \in Alike(S, c)} \cup {<<Unset, 0>>}

\* Bound: while one chat asks again, few others have had an answer.
MayAsk(c) ==
    /\ said[c] < MaxSaid
    /\ said[c] # 0 => Cardinality({d \in Chat \ {c} : said[d] # 0}) <= MaxOthers

\* A request arrives: Resolve, in one critical section.
Resolve(c) ==
    /\ turn[c] = "idle" /\ MayAsk(c)
    /\ turn' = [turn EXCEPT ![c] = "resolved"]
    /\ \E name \in Name \cup {Unset} : nameOf' = [nameOf EXCEPT ![c] = name]
    /\ \E gone \in Evicted(sessions) :
        LET S == Without(sessions, gone)
        IN  /\ byName' = NamesLeft(gone)
            /\ \E hit \in Resolved(S, byName', c) :
                IF hit[1] = Unset
                THEN /\ sessions' = S
                     /\ target' = [target EXCEPT ![c] = Unset]
                     /\ under' = [under EXCEPT ![c] = Unset]
                     /\ from' = [from EXCEPT ![c] = 0]
                     /\ UNCHANGED blurred
                ELSE /\ sessions' = Put(S, hit[1], [S[hit[1]] EXCEPT !.past = FALSE])
                     /\ target' = [target EXCEPT ![c] = S[hit[1]].conv]
                     /\ under' = [under EXCEPT ![c] = hit[1]]
                     \* the increment is sent unless nothing of the request would be left
                     /\ from' = [from EXCEPT ![c] = IF hit[2] < said[c] + 1 THEN hit[2] ELSE 0]
                     /\ blurred' = IF hit[1] \in OpeningsOf(S, c) THEN blurred
                                   ELSE blurred \cup {<<S[hit[1]].conv, "guess">>}
    /\ UNCHANGED <<keyOf, said, cloudVars, cached, managed, sweepVars, late, trouble>>

\* A mutant of CacheHit: the entry may hold more than the request has.
CacheHitAnyLength(c) == ~cached.past /\ cached.conv # Unset

\* The entry is recent, and there is something left to send.
CacheHit(c) == ~cached.past /\ cached.conv # Unset /\ cached.count < said[c] + 1

\* openaiChat asks the cache when the resolver has found nothing.
LookUp(c) ==
    /\ turn[c] = "resolved"
    /\ IF target[c] = Unset /\ said[c] > 0 /\ CacheHit(c)
       THEN /\ turn' = [turn EXCEPT ![c] = "reused"]
            /\ target' = [target EXCEPT ![c] = cached.conv]
            /\ under' = [under EXCEPT ![c] = cached.session]
            /\ from' = [from EXCEPT ![c] = cached.count]
            /\ blurred' = blurred \cup {<<cached.conv, "cache">>}
       ELSE turn' = [turn EXCEPT ![c] = "looked"] /\ UNCHANGED <<target, under, from, blurred>>
    /\ cached' = IF target[c] = Unset /\ said[c] > 0 /\ cached.past THEN NoEntry ELSE cached
    /\ UNCHANGED <<keyOf, nameOf, said, cloudVars, indexVars, managed, sweepVars, late, trouble>>

\* A mutant of Sent: the increment begins one message late.
SentLate(c) == SubSeq(Asked(c), from[c] + 2, said[c] + 1)

\* The messages that go to the upstream.
Sent(c) == SubSeq(Asked(c), from[c] + 1, said[c] + 1)

\* The upstream answers, in a new conversation or in the one it was asked to continue.
Answered(c) ==
    /\ turn[c] \in {"looked", "reused"}
    /\ turn' = [turn EXCEPT ![c] = "answered"]
    /\ \/ /\ target[c] = Unset /\ Len(cloud) < MaxConv
          /\ cloud' = Append(cloud, Append(Sent(c), Answer(c)))
          /\ alive' = alive \cup {Len(cloud) + 1}
          /\ target' = [target EXCEPT ![c] = Len(cloud) + 1]
          /\ under' = [under EXCEPT ![c] = Len(cloud) + 1]
       \/ /\ target[c] \in alive
          /\ cloud' = [cloud EXCEPT ![target[c]] = @ \o Append(Sent(c), Answer(c))]
          /\ UNCHANGED <<alive, target, under>>
    /\ UNCHANGED <<keyOf, nameOf, said, from, aged, indexVars, cached, managed, sweepVars, late, blurred, trouble>>

\* The upstream fails, perhaps after it has taken the messages: a deleted conversation
\* always does.  After a request that came by the cache its entry is dropped, whatever
\* it has become since.
Failed(c) ==
    /\ turn[c] \in {"looked", "reused"}
    /\ Trouble
    /\ turn' = [turn EXCEPT ![c] = "idle"]
    /\ target' = [target EXCEPT ![c] = Unset]
    /\ under' = [under EXCEPT ![c] = Unset]
    /\ \/ UNCHANGED <<cloud, blurred>>
       \/ /\ target[c] \in alive
          /\ Len(cloud[target[c]]) < 2 * MaxSaid
          /\ cloud' = [cloud EXCEPT ![target[c]] = @ \o Sent(c)]
          /\ blurred' = blurred \cup {<<target[c], "failure">>}
    /\ cached' = IF turn[c] = "reused" THEN NoEntry ELSE cached
    /\ from' = [from EXCEPT ![c] = 0]
    /\ nameOf' = [nameOf EXCEPT ![c] = Unset]
    /\ UNCHANGED <<keyOf, said, alive, aged, indexVars, managed, sweepVars, late>>

\* The session that Bind updates in place, if there is one: the one with this explicit
\* name, else one of this key for the same conversation.
Holder(S, names, c) ==
    LET n == <<keyOf[c], nameOf[c]>>
        mine == {s \in DOMAIN S : S[s].key = keyOf[c]}
        named == {names[k] : k \in DOMAIN names \cap {n}} \cap mine
    IN  IF nameOf[c] # Unset /\ named # {} THEN named
        ELSE {s \in mine : S[s].conv = target[c]}

\* Two sessions of one key on one conversation: Bind gives it to the named one while
\* another has it.
Twins(S, s, c) == \E t \in DOMAIN S \ {s} : S[t].key = keyOf[c] /\ S[t].conv = target[c]

\* bindConversation: Bind, and the manager's Record and Cleanup, which may forget
\* any other conversation that rested.  With nothing to update, Bind puts a session
\* under the id that the request came with, whatever is there: with an id of the cache
\* that may be the session of another key.
Bind(c) ==
    /\ turn[c] = "answered"
    /\ turn' = [turn EXCEPT ![c] = "bound"]
    /\ \E gone \in Evicted(sessions) :
        LET S == Without(sessions, gone)
            old == Holder(S, NamesLeft(gone), c)
        IN  \E s \in IF old = {} THEN {under[c]} ELSE old :
                LET name == IF nameOf[c] # Unset \/ old = {} THEN nameOf[c] ELSE S[s].name
                IN  /\ sessions' = Put(S, s,
                            [conv |-> target[c], key |-> keyOf[c], past |-> FALSE,
                             history |-> Append(Asked(c), Answer(c)), name |-> name])
                    /\ byName' = IF name = Unset THEN NamesLeft(gone)
                                 ELSE Put(NamesLeft(gone), <<keyOf[c], name>>, s)
                    /\ blurred' = IF Twins(S, s, c) THEN blurred \cup {<<target[c], "twins">>}
                                  ELSE blurred
    /\ \E rested \in SUBSET (DOMAIN managed \ {target[c]}) :
        managed' = Put(Without(managed, rested), target[c], FALSE)
    /\ UNCHANGED <<keyOf, nameOf, said, target, under, from, cloudVars, cached, sweepVars, late, trouble>>

\* storeConvCache, and the answer goes to the client.  Without a stream the resolver
\* is asked once more, to name the session in a header: nothing is past by then, but
\* there may be a session too many.
Store(c) ==
    /\ turn[c] = "bound"
    /\ turn' = [turn EXCEPT ![c] = "idle"]
    /\ \/ UNCHANGED indexVars
       \/ \E gone \in Evicted(sessions) :
            sessions' = Without(sessions, gone) /\ byName' = NamesLeft(gone)
    /\ cached' = [conv |-> target[c], session |-> under[c], count |-> said[c] + 1, past |-> FALSE]
    /\ said' = [said EXCEPT ![c] = @ + 2]
    /\ target' = [target EXCEPT ![c] = Unset]
    /\ under' = [under EXCEPT ![c] = Unset]
    /\ from' = [from EXCEPT ![c] = 0]
    /\ nameOf' = [nameOf EXCEPT ![c] = Unset]
    /\ UNCHANGED <<keyOf, cloudVars, managed, sweepVars, late, blurred, trouble>>
-----------------------------------------------------------------------------
Held(v) == \E c \in Chat : target[c] = v

\* autoCleanupOnce: activeConversationSet, read part by part.
SweepStarts ==
    /\ sweep = "off"
    /\ Trouble
    /\ sweep' = "listing"
    /\ spared' = {sessions[s].conv : s \in {t \in DOMAIN sessions : ~sessions[t].past}}
                    \cup {v \in DOMAIN managed : ~managed[v]}
    /\ UNCHANGED <<chatVars, cloudVars, indexVars, cached, managed, doomed, kept, late, blurred>>

\* Of the conversations that are not in use, the old ones go, and the others beyond
\* the first KeepN in the order of their creation.
Expendable ==
    LET idle == alive \ spared
        rest == idle \ aged
    IN  (idle \cap aged) \cup {v \in rest : Cardinality({w \in rest : w < v}) >= KeepN}

\* A round: the cloud's list, sorted.
SweepLists ==
    /\ sweep = "listing"
    /\ doomed' = Expendable
    /\ sweep' = IF doomed' = {} THEN "off" ELSE "picking"
    /\ spared' = IF doomed' = {} THEN {} ELSE spared
    /\ UNCHANGED <<chatVars, cloudVars, indexVars, cached, managed, kept, late, blurred, trouble>>

\* DeleteConversation succeeds in the cloud.
SweepDeletes ==
    /\ sweep = "picking"
    /\ \E v \in doomed :
        /\ alive' = alive \ {v}
        /\ late' = IF Held(v) THEN late \cup {v} ELSE late
    /\ sweep' = "deleted"
    /\ UNCHANGED <<chatVars, cloud, aged, indexVars, cached, managed, spared, doomed, kept, blurred, trouble>>

\* A mutant of Unbound: the first session found is taken for the only one.
UnboundOne(v) ==
    LET S == {s \in DOMAIN sessions : sessions[s].conv = v}
    IN  {s \in S : \A t \in S : s <= t}

\* The sessions of a conversation, of whatever key.
Unbound(v) == {s \in DOMAIN sessions : sessions[s].conv = v}

\* dropConversation: the manager's record, then UnbindByConversation.
SweepDrops ==
    /\ sweep \in {"deleted", "asked"}
    /\ \E v \in doomed \ alive :
        /\ managed' = Without(managed, {v})
        /\ sessions' = Without(sessions, Unbound(v))
        /\ byName' = NamesLeft(Unbound(v))
        /\ doomed' = doomed \ {v}
        /\ late' = IF Held(v) THEN late \cup {v} ELSE late
    /\ sweep' = IF sweep = "asked" THEN "off"
                ELSE IF doomed' = {} THEN "listing" ELSE "picking"
    /\ UNCHANGED <<chatVars, cloudVars, cached, spared, kept, blurred, trouble>>

\* handleM365Delete: the administrator deletes one in the cloud, in use or not, and
\* SweepDrops follows.
AdminDeletes ==
    /\ sweep = "off"
    /\ Trouble
    /\ \E v \in alive :
        /\ alive' = alive \ {v}
        /\ doomed' = {v}
        /\ late' = IF Held(v) THEN late \cup {v} ELSE late
    /\ sweep' = "asked"
    /\ UNCHANGED <<chatVars, cloud, aged, indexVars, cached, managed, spared, kept, blurred>>

\* conversationDelete and conversationCleanup: records of the manager go, nothing else.
AdminForgets ==
    /\ DOMAIN managed # {}
    /\ Trouble
    /\ \E gone \in SUBSET DOMAIN managed \ {{}} : managed' = Without(managed, gone)
    /\ UNCHANGED <<chatVars, cloudVars, indexVars, cached, sweepVars, late, blurred>>

\* handleM365Cleanup: rounds until one deletes nothing.
AdminCleans ==
    /\ sweep = "off"
    /\ Trouble
    /\ sweep' = "counting" /\ kept' = 0
    /\ UNCHANGED <<chatVars, cloudVars, indexVars, cached, managed, spared, doomed, late, blurred>>

\* A round: in the cloud's order the recent ones are kept until KeepN were, in this
\* round and those before it; whether they are in use does not count.
AdminLists ==
    /\ sweep = "counting"
    /\ \E spare \in SUBSET (alive \ aged) :
        /\ Cardinality(spare) + kept = KeepN \/ (spare = alive \ aged /\ Cardinality(spare) + kept < KeepN)
        /\ doomed' = alive \ spare
        /\ kept' = IF doomed' = {} THEN 0 ELSE kept + Cardinality(spare)
    /\ sweep' = IF doomed' = {} THEN "off" ELSE "removing"
    /\ UNCHANGED <<chatVars, cloudVars, indexVars, cached, managed, spared, late, blurred, trouble>>

\* They go in the cloud only.
AdminRemoves ==
    /\ sweep = "removing"
    /\ \E v \in doomed :
        /\ alive' = alive \ {v}
        /\ doomed' = doomed \ {v}
        /\ late' = late \cup {v}
    /\ sweep' = IF doomed' = {} THEN "counting" ELSE "removing"
    /\ UNCHANGED <<chatVars, cloud, aged, indexVars, cached, managed, spared, kept, blurred, trouble>>

\* DELETE /v1/sessions/...: a client forgets a session of its key.
DeleteSession(s) ==
    /\ s \in DOMAIN sessions
    /\ sessions' = Without(sessions, {s})
    /\ byName' = NamesLeft({s})
    /\ Trouble
    /\ UNCHANGED <<chatVars, cloudVars, cached, managed, sweepVars, late, blurred>>

\* Two hours in which nothing happens.
Hours ==
    /\ \A c \in Chat : turn[c] = "idle"
    /\ sweep = "off"
    /\ aged # Made \/ \E s \in DOMAIN sessions : ~sessions[s].past
    /\ sessions' = [s \in DOMAIN sessions |-> [sessions[s] EXCEPT !.past = TRUE]]
    /\ cached' = [cached EXCEPT !.past = (cached # NoEntry)]
    /\ managed' = [v \in DOMAIN managed |-> TRUE]
    /\ aged' = Made
    /\ UNCHANGED <<chatVars, cloud, alive, byName, sweepVars, late, blurred, trouble>>

ChatStep(c) == Resolve(c) \/ LookUp(c) \/ Answered(c) \/ Failed(c) \/ Bind(c) \/ Store(c)

Sweep == SweepStarts \/ SweepLists \/ SweepDeletes \/ SweepDrops

AdminSteps == AdminDeletes \/ AdminForgets \/ AdminCleans \/ AdminLists \/ AdminRemoves

ConversationNext ==
    \/ \E c \in Chat : ChatStep(c)
    \/ Sweep \/ AdminSteps
    \/ \E s \in DOMAIN sessions : DeleteSession(s)
    \/ Hours

ConversationSpec == ConversationInit /\ [][ConversationNext]_conversationVars
-----------------------------------------------------------------------------
Session == [conv : Conv, key : Key, past : BOOLEAN, history : Seq(Message),
            name : Name \cup {Unset}]

\* Every variable holds a value of its type; the resolver keeps its limit (one session
\* may come on top of it until the next eviction), and messages[from:] is within the
\* request (server.go:2618, 2666), however the histories met.
ConversationTypeOK ==
    /\ keyOf \in [Chat -> Key]
    /\ nameOf \in [Chat -> Name \cup {Unset}]
    /\ said \in [Chat -> 0 .. MaxSaid + 1]
    /\ turn \in [Chat -> Turn]
    /\ target \in [Chat -> Conv \cup {Unset}] /\ under \in [Chat -> Conv \cup {Unset}]
    /\ \A c \in Chat : from[c] \in 0 .. said[c]
    /\ Made \subseteq Conv /\ alive \subseteq Made /\ aged \subseteq Made
    /\ DOMAIN sessions \subseteq Conv
    /\ \A s \in DOMAIN sessions : sessions[s] \in Session
    /\ Cardinality(DOMAIN sessions) <= MaxSessions + 1
    /\ \A n \in DOMAIN byName : byName[n] \in Conv
    /\ managed \in [DOMAIN managed -> BOOLEAN]
    /\ sweep \in {"off", "listing", "picking", "deleted", "asked", "counting", "removing"}
    /\ kept \in 0 .. KeepN
    /\ late \subseteq Made /\ blurred \subseteq Made \X {"guess", "cache", "failure", "twins"}
    /\ trouble \in 0 .. MaxTrouble

\* The increment is exact: when a conversation was only ever continued because its
\* history begins the request, and one session of the key had it, it holds after each
\* turn what the client holds, no message left out and none sent twice.
NothingLostOrRepeated ==
    \A c \in Chat :
        /\ turn[c] \in {"answered", "bound"}
        /\ \A b \in blurred : b[1] # target[c]
        => cloud[target[c]] = Append(Asked(c), Answer(c))

\* auto_cleanup.go:156: once dropConversation is through, no session leads a request
\* to the deleted conversation, except one that a request in flight binds afterwards;
\* the administrator's clean-up does not call it.
NoGhostSession ==
    \A s \in DOMAIN sessions :
        LET v == sessions[s].conv
        IN  v \in alive \/ v \in late \/ (sweep \in {"deleted", "asked"} /\ v \in doomed)

OneKey(v) == \A i, j \in DOMAIN cloud[v] : keyOf[cloud[v][i][1]] = keyOf[cloud[v][j][1]]

\* No match of the resolver, exact or guessed, lets two keys write to one
\* conversation (session_resolver.go:36); what the cache lends is another matter.
ResolverKeepsKeysApart == \A v \in Made : <<v, "cache">> \in blurred \/ OneKey(v)

\* What a session tells of its conversation is true: what is in it, that it is there,
\* and that it is of the session's key.
SessionsTrue == NothingLostOrRepeated /\ NoGhostSession /\ ResolverKeepsKeysApart

\* Conversations that were continued on other grounds, or by two sessions, are lost.
Blurry(v) == \E b \in blurred : b[1] = v

\* The conversations, as Dialogue has them.
Spoken == INSTANCE Dialogue
    WITH log <- [v \in Made |-> IF Blurry(v) THEN Unset ELSE cloud[v]],
         deleted <- Made \ alive, MaxTurns <- MaxSaid + 1, Lost <- Unset

\* Whatever sessions, names, evictions, failures and clean-ups lead requests to a
\* conversation, it is never rewritten, mixed or cut: it goes on by whole turns of its
\* one chat until it is deleted (session_resolver.go:208-290, 520-590).
DialogueSpec == Spoken!Spec
=============================================================
