----------------------------- MODULE Completion -----------------------------
(***************************************************************************)
(* A request to /v1/chat/completions (openaiChat in                        *)
(* internal/web/server.go), from the parsed body to the last byte of the   *)
(* reply: the account and the conversation it is given, the upstream call, *)
(* the one failover, the retries that eject a useless answer, and what is  *)
(* bound for the next turn.                                                *)
(*                                                                         *)
(* A word of an answer is the number of the upstream call that said it,    *)
(* which is all the properties tell apart.  The health of the accounts is  *)
(* in AccountDispatch, the stores behind origin and bound in Conversations *)
(* and one upstream call seen from inside in ChatTurn.  Requests with      *)
(* tools always take the non-streaming path (the router and the tool code  *)
(* of the streaming path cannot be reached), so stream is FALSE for them.  *)
(* One request comes after the other, and what one bound is what a later   *)
(* one can be given.                                                       *)
(***************************************************************************)
EXTENDS Integers, Sequences

CONSTANTS
  Accounts,      \* the accounts of the pool
  MaxWords,      \* bound: words one upstream call says
  HoldBack       \* words the identity filter keeps back (96 bytes in the code)

ASSUME CompletionAssumption ==
  /\ MaxWords \in Nat \ {0}
  /\ HoldBack \in Nat

VARIABLES
  chat,      \* the request: where it is, what it asked for and what it was given
  call,      \* the upstream call in flight
  text,      \* the words the streaming path has collected
  held,      \* the words the filter keeps back
  shown,     \* the words written to the client
  res,       \* the answer the handler holds
  bound,     \* what was stored for the next turn
  marked,    \* accounts marked as out of images, and whether the cache entry was dropped
  bindings,  \* conversations bound so far: their owner and the account they are bound to
  strayed    \* some client named an account or a conversation that is not the other's

completionVars == <<chat, call, text, held, shown, res, bound, marked, bindings, strayed>>

Nothing == [none |-> TRUE]

\* How an answer reads: an ordinary text, a denial that there are tools, a
\* refusal to write a script, a file link or a sandbox made up by the model, tool
\* calls, a text in place of calls, a policy block, an image limit.
Kinds == {"plain", "denial", "unsafe", "artifact", "calls", "blocked", "imagelimit"}
Errors == {"rate", "auth", "drop", "empty", "image", "timeout", "client"}
\* Where the conversation of a request comes from: nowhere, a session the client
\* has the key of or its user session, the resolver, the cache of the account and
\* the model, or the client itself.
Origins == {"fresh", "session", "known", "cached", "client"}
Refusals == {"method", "body", "json", "auto", "model", "key", "effort", "tools",
             "rounds", "context", "prompt", "account"}

CompletionInit ==
  /\ chat = [at |-> "new"] /\ call = Nothing /\ res = Nothing /\ bound = Nothing
  /\ text = <<>> /\ held = <<>> /\ shown = <<>>
  /\ marked = [image |-> {}, dropped |-> FALSE]
  /\ bindings = {} /\ strayed = FALSE
-----------------------------------------------------------------------------
(* Before any call.                                                        *)

Close(outcome) == chat' = [chat EXCEPT !.at = "over", !.outcome = outcome]

\* A request that goes no further: the body, the model, the effort, the tool
\* history, the budget of the context, the prompt or the account is refused.
Refuse ==
  /\ chat.at = "new"
  /\ \E why \in Refusals : chat' = [at |-> "over", outcome |-> why]
  /\ UNCHANGED <<call, text, held, shown, res, bound, marked>>

\* A question about the gateway itself, or a probe of the image model, is
\* answered without a call.
AnswerLocally ==
  /\ chat.at = "new"
  /\ chat' = [at |-> "over", outcome |-> "local"]
  /\ UNCHANGED <<call, text, held, shown, res, bound, marked>>

\* One more upstream call: on whose behalf, with whose token and conversation,
\* and whether the prompt carries the whole history.
Calling(acc, token, conv, full) ==
  [n |-> (IF call = Nothing THEN 0 ELSE call.n) + 1,
   acc |-> acc, token |-> token, conv |-> conv, full |-> full, said |-> 0]

\* A conversation of a session or of the resolver comes with the account it is
\* bound to, and pins the request to it; but the account that the client names wins,
\* and the stores compare no account.  The cache is looked up by the account.
Offered(origin, named, owner, acc) ==
  LET boundTo(a) == [owner |-> owner, acc |-> a] \in bindings
  IN  CASE origin \in {"session", "known"} -> IF named THEN \E a \in Accounts : boundTo(a) ELSE boundTo(acc)
        [] origin = "cached" -> boundTo(acc)
        [] OTHER -> TRUE

\* The client names the account of another conversation, or a conversation without
\* its account.
Strays(origin, named, owner, acc) ==
  \/ origin \notin {"fresh", "cached"} /\ named /\ owner # acc
  \/ origin = "client" /\ ~named

\* The request is given an account and a conversation.  Of a conversation from the
\* cache only the new messages are sent, and of one from the resolver when it can
\* tell which they are.
Admit ==
  /\ chat.at = "new"
  /\ \E stream, tools, routes, files, named, pinned, full \in BOOLEAN, origin \in Origins,
        acc, owner \in Accounts :
       /\ named \/ origin \in {"session", "known"} => pinned
       /\ Offered(origin, named, owner, acc)
       /\ origin # "known" => (full <=> origin # "cached")
       /\ tools => ~stream
       /\ routes => tools
       /\ LET conv == IF origin = "fresh" THEN Nothing ELSE [owner |-> owner, call |-> 0]
          IN  /\ chat' = [at |-> "calling", stage |-> "answer", tries |-> 0,
                          stream |-> stream, tools |-> tools, routes |-> routes, files |-> files,
                          origin |-> origin, pinned |-> pinned,
                          acc |-> acc, token |-> acc, conv |-> conv, full |-> full,
                          outcome |-> "none"]
              /\ call' = Calling(acc, acc, conv, full)
       /\ strayed' = (strayed \/ Strays(origin, named, owner, acc))
  /\ UNCHANGED <<text, held, shown, res, bound, marked, bindings>>

\* The next request, of any client; what this one bound can be found by it.
NextRequest ==
  /\ chat.at = "over"
  /\ chat' = [at |-> "new"] /\ call' = Nothing /\ res' = Nothing /\ bound' = Nothing
  /\ text' = <<>> /\ held' = <<>> /\ shown' = <<>>
  /\ marked' = [image |-> {}, dropped |-> FALSE]
  /\ bindings' = bindings \union {[owner |-> b.conv.owner, acc |-> b.acc] : b \in {bound} \ {Nothing}}
  /\ UNCHANGED strayed
-----------------------------------------------------------------------------
(* Words on their way to the client.                                       *)

Kept(s) == IF Len(s) > HoldBack THEN SubSeq(s, Len(s) - HoldBack + 1, Len(s)) ELSE s
Passed(s) == IF Len(s) > HoldBack THEN SubSeq(s, 1, Len(s) - HoldBack) ELSE <<>>

\* emitText: the words go through the filter, which keeps the last ones back.
EmitText(words) ==
  /\ held' = Kept(held \o words)
  /\ shown' = shown \o Passed(held \o words)

\* The upstream says a word; only a streaming request passes it on.
Delta ==
  /\ chat.at = "calling" /\ chat.stream /\ call.said < MaxWords
  /\ call' = [call EXCEPT !.said = @ + 1]
  /\ text' = Append(text, call.n)
  /\ EmitText(<<call.n>>)
  /\ UNCHANGED <<chat, res, bound, marked>>
-----------------------------------------------------------------------------
(* A call that fails.                                                      *)

\* Variant: a stream fails over although the client has seen part of an answer.
FailsOverMidStream(why) ==
  /\ chat.stage = "answer" /\ why \in {"rate", "auth", "drop"}
  /\ chat.origin # "cached" /\ ~chat.pinned
  /\ why = "rate" \/ chat.conv = Nothing \/ chat.origin = "known"

\* Variant: a request that continues a cached conversation fails over too.
FailsOverCached(why) ==
  /\ chat.stage = "answer" /\ why \in {"rate", "auth", "drop"}
  /\ ~chat.pinned
  /\ why = "rate" \/ chat.conv = Nothing \/ chat.origin = "known"
  /\ chat.stream => text = <<>>

\* Only a request that nothing ties to its account or to the words already sent
\* is given to another account.
FailsOver(why) ==
  /\ chat.stage = "answer" /\ why \in {"rate", "auth", "drop"}
  /\ chat.origin # "cached" /\ ~chat.pinned
  /\ why = "rate" \/ chat.conv = Nothing \/ chat.origin = "known"
  /\ chat.stream => text = <<>>

MarkImage(accs) == marked' = [marked EXCEPT !.image = @ \union accs]

\* The request ends with the error: the image limit is noted, a conversation
\* taken from the cache is forgotten, and the client is told.
GiveUp(why) ==
  /\ Close(why)
  /\ marked' = [image |-> IF why # "image" THEN marked.image
                          ELSE marked.image \union {chat.acc, call.acc},
                dropped |-> marked.dropped \/ chat.origin = "cached"]
  /\ UNCHANGED <<call, text, held, shown, res, bound>>

\* The first call failed: an empty answer is asked for again in the plain tone,
\* some failures go to the next healthy account.  The request may have had that
\* tone already, and there may be no healthy account.
FirstFails(why) ==
  LET next(stage, c) == /\ chat' = [chat EXCEPT !.stage = stage] /\ call' = c
                        /\ UNCHANGED <<text, held, shown, res, bound, marked>>
      conv == IF chat.origin = "known" THEN Nothing ELSE chat.conv
  IN  \/ /\ why = "empty" /\ ~chat.stream
         /\ next("magic", Calling(chat.acc, chat.token, chat.conv, chat.full))
      \/ /\ FailsOver(why)
         /\ \E other \in Accounts \ {chat.acc} :
              next("failover", Calling(other, other, conv, chat.full))
      \/ GiveUp(why)
-----------------------------------------------------------------------------
(* A call that answers.                                                    *)

Rank(stage) ==
  CASE stage \in {"answer", "magic", "failover"} -> 0
    [] stage = "denial" -> 1
    [] stage = "unsafe" -> 2
    [] stage = "artifact" -> 3
    [] stage = "route" -> 4
    [] stage = "repair" -> 5

\* The stages that eject an answer of their own kind, and their tries.
Tries == [denial |-> 1, unsafe |-> 2, artifact |-> 3]

\* Variant: a stage may run once more than it should.
RetryOnceMore(stage, tries, kind) ==
  LET ejects == /\ kind \in DOMAIN Tries
                /\ chat.tools \/ (kind = "artifact" /\ chat.files)
                /\ Rank(kind) > Rank(stage) \/ (kind = stage /\ tries <= Tries[kind])
  IN  CASE ejects -> kind
        [] ~ejects /\ chat.routes /\ kind # "calls" /\ Rank(stage) < 4 -> "route"
        [] OTHER -> "none"

\* The retry that the answer calls for after so many tries of a stage; "none" when
\* it is the reply.  Files without tools are ejected as well.
Retry(stage, tries, kind) ==
  LET ejects == /\ kind \in DOMAIN Tries
                /\ chat.tools \/ (kind = "artifact" /\ chat.files)
                /\ Rank(kind) > Rank(stage) \/ (kind = stage /\ tries < Tries[kind])
  IN  CASE ejects -> kind
        [] ~ejects /\ chat.routes /\ kind # "calls" /\ Rank(stage) < 4 -> "route"
        [] OTHER -> "none"

\* The handler goes on with answer r at this point: another retry or the reply.
\* A retry runs in a conversation of its own with the whole prompt, for the account
\* that answered, with the token of the account that was chosen first.
GoOn(stage, tries, acc, r) ==
  LET retry == Retry(stage, tries, r.kind)
  IN  /\ res' = r
      /\ IF retry = "none"
         THEN /\ chat' = [chat EXCEPT !.at = "over", !.acc = acc,
                                      !.outcome = IF r.kind = "blocked" THEN "blocked" ELSE "ok"]
              /\ MarkImage(IF r.kind = "imagelimit" THEN {acc} ELSE {})
              /\ UNCHANGED call
         ELSE /\ chat' = [chat EXCEPT !.stage = retry, !.acc = acc,
                                      !.tries = IF retry = stage THEN tries + 1 ELSE 1]
              /\ call' = Calling(acc, chat.token, Nothing, TRUE)
              /\ UNCHANGED marked
      /\ UNCHANGED <<text, held, shown>>

\* The conversation that a successful call names: its own, or a new one of the
\* account whose token was used.
Named == IF call.conv = Nothing THEN [owner |-> call.token, call |-> call.n] ELSE call.conv

UpstreamAnswer(kind) == [kind |-> kind, call |-> call.n, token |-> call.token,
                 conv |-> call.conv, full |-> call.full]

\* Variant: the turn is stored for the account that was chosen first.
StoreForFirst == bound' = [conv |-> Named, acc |-> chat.acc, call |-> call.n]

\* bindConversation, storeConvCache and the session records of the client.
StoreTurn == bound' = [conv |-> Named, acc |-> call.acc, call |-> call.n]

\* The streaming path has its answer: words that never came as deltas and the
\* images are still written, the stream is closed, and then the conversation is
\* bound, unless the client left while the images were written.  Nothing empties
\* the filter.
StreamAnswered(kind, images) ==
  LET whole == IF text = <<>> THEN <<call.n>> ELSE text
      late  == (IF shown = <<>> THEN whole ELSE <<>>)
               \o (IF images = "sent" THEN [i \in 1 .. HoldBack + 1 |-> call.n] ELSE <<>>)
  IN  /\ res' = UpstreamAnswer(kind)
      /\ chat' = [chat EXCEPT !.at = "over", !.acc = call.acc,
                              !.outcome = CASE kind = "blocked" -> "blocked"
                                            [] kind # "blocked" /\ images = "lost" -> "client"
                                            [] OTHER -> "ok"]
      /\ MarkImage(IF kind = "imagelimit" THEN {call.acc} ELSE {})
      /\ IF kind = "blocked" THEN UNCHANGED <<text, held, shown>>
         ELSE text' = whole /\ EmitText(late)
      /\ IF kind = "blocked" \/ images = "lost" THEN UNCHANGED bound ELSE StoreTurn
      /\ UNCHANGED call

\* The answer that is bound: of the first call or of the one that stood in for it.
FirstAnswered(kind, images) ==
  IF chat.stream THEN StreamAnswered(kind, images)
  ELSE GoOn(chat.stage, 0, call.acc, UpstreamAnswer(kind)) /\ StoreTurn

\* A retry that answered replaces the answer, unless it denies the tools again.
RetryAnswered(kind) ==
  /\ GoOn(chat.stage, chat.tries, chat.acc,
          IF chat.stage = "denial" /\ kind = "denial" THEN res ELSE UpstreamAnswer(kind))
  /\ UNCHANGED bound

\* The model that routes to a tool has spoken: its calls are the reply, what
\* cannot be read is repaired once, and without calls the answer stays.
Routed(kind) ==
  /\ \/ /\ kind = "calls" /\ Close("ok") /\ res' = UpstreamAnswer(kind)
        /\ UNCHANGED <<call, text, held, shown, marked>>
     \/ /\ kind # "calls" /\ chat.stage = "route"
        /\ chat' = [chat EXCEPT !.stage = "repair"]
        /\ call' = Calling(chat.acc, chat.token, Nothing, TRUE)
        /\ UNCHANGED <<text, held, shown, res, marked>>
     \/ /\ kind # "calls"
        /\ GoOn("repair", 0, chat.acc, res)
  /\ UNCHANGED bound
-----------------------------------------------------------------------------
CallAnswers ==
  /\ chat.at = "calling"
  /\ \E kind \in Kinds, images \in {"none", "sent", "lost"} :
       CASE Rank(chat.stage) = 0 -> FirstAnswered(kind, images)
         [] Rank(chat.stage) \in 1 .. 3 -> RetryAnswered(kind)
         [] OTHER -> Routed(kind)

\* A retry that fails ends its stage and keeps the answer there was.
CallFails ==
  /\ chat.at = "calling"
  /\ \E why \in Errors :
       CASE chat.stage = "answer" -> FirstFails(why)
         [] chat.stage = "magic" -> GiveUp("empty")
         [] chat.stage = "failover" -> GiveUp(why)
         [] OTHER -> GoOn(chat.stage, 3, chat.acc, res) /\ UNCHANGED bound

CompletionNext ==
  \/ Admit \/ NextRequest
  \/ (Refuse \/ AnswerLocally \/ Delta \/ CallAnswers \/ CallFails) /\ UNCHANGED <<bindings, strayed>>

CompletionSpec == CompletionInit /\ [][CompletionNext]_completionVars
-----------------------------------------------------------------------------
MaxCalls == 10

HeldConvs == [owner : Accounts, call : 0 .. MaxCalls] \union {Nothing}

CompletionTypeOK ==
  /\ chat.at \in {"new", "calling", "over"}
  /\ chat.at = "calling" =>
       /\ chat.acc \in Accounts /\ chat.token \in Accounts /\ chat.conv \in HeldConvs
       /\ call.n \in 1 .. MaxCalls /\ call.conv \in HeldConvs
       /\ Rank(chat.stage) \in 1 .. 3 => chat.tries \in 1 .. Tries[chat.stage]
       /\ Rank(chat.stage) > 0 => res # Nothing /\ bound # Nothing
  /\ Len(held) <= HoldBack
  /\ marked.image \subseteq Accounts /\ marked.dropped \in BOOLEAN
  /\ bindings \subseteq [owner : Accounts, acc : Accounts] /\ strayed \in BOOLEAN

\* All that a client of a stream is sent was said by one upstream call, and it is
\* the call whose conversation is bound for the next turn: a failover that came
\* after the first words would splice two answers.
NoSplice ==
  /\ \A i, j \in DOMAIN (shown \o held) : (shown \o held)[i] = (shown \o held)[j]
  /\ bound # Nothing /\ shown # <<>> => shown[1] = bound.call

\* As long as no client has named an account or a conversation that is not the
\* other's, the call that answers has the whole history before it, in its prompt or
\* in a conversation of its own account, and what is bound for the next turns is a
\* conversation of the account it is bound to: whatever failed over, was retried or
\* was taken from the stores before.
AnswerHasItsHistory ==
  ~strayed =>
    /\ res # Nothing => res.full \/ (res.conv # Nothing /\ res.conv.owner = res.token)
    /\ bound # Nothing => bound.conv.owner = bound.acc

\* What a client is sent is one answer, and the history before it is not lost.
OneAnswer == NoSplice /\ AnswerHasItsHistory

\* Everything the upstream said reaches the client by the end of the stream, as
\* the comment before the last emitText of the streaming path has it.
StreamDelivers ==
  chat.at = "over" /\ chat.outcome = "ok" => (chat.stream => held = <<>>)
=============================================================================
