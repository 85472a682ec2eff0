# A TLA+ model of M365-Copilot2API-DSM

The program is a gateway, one Go process: it offers the OpenAI and Anthropic chat APIs and
serves them from a pool of Microsoft 365 Copilot accounts, each reached through the
ChatHub websocket.  It also keeps API keys, sessions, images, quotas and proxies in JSON
files, has an admin page, and is packaged for Synology DSM.  This directory models the
parts of it whose correctness depends on the order of concurrent steps, of failures and of
restarts.

Paths below are under `src/internal/` unless they start with `cmd/` or `spk/` (which are
under `src/`); `server.go:1635` is `web/server.go`, line 1635.

- [Parts of the system](#parts-of-the-system)
- [Modules](#modules)
- [Runs](#runs), their bounds and the fairness they assume
- [Proofs](#proofs)
- [Where the code and its texts disagree](#where-the-code-and-its-texts-disagree)
- [Not modelled](#not-modelled)
- [Plan](#plan)

## Parts of the system

Every request runs in a goroutine of its own.  The goroutines share the parts below; each
part has its own lock, none is held across an upstream call, and no lock covers two
parts.  So whatever a handler learned from one part may be stale when it acts on another:
that is where the hard behaviours come from.

| part | state | operations | hard, and what must hold | module |
|---|---|---|---|---|
| Concurrency limiter, `web/account_concurrency.go` | a counter per account, one shared `changed` channel | `Acquire` (waits), release, `Available` | no slot lost or freed twice, limit kept, no lost wakeup, every wait ends | `AccountSlots` |
| Health book, `web/account_health.go` | maps: cooldowns, lock-outs, rate-limit marks, backoff steps, image limits | `MarkFailure`, `MarkSuccess`, `MarkImageLimited`, `Available`, `ClearAllCooldowns` | results of overlapping calls in any order, lazy clean-up; nothing held against an account may outlive its cooldown | `AccountHealth` |
| Circuit breaker, same file | window start, two counters, `openUntil` | `Record`, `IsOpen`, reset | opens only on infrastructure failures, and closes again | `GlobalCircuit` |
| Selection and failover, `web/server.go` | `lastHealthyAccount`, each handler's locals | `resolveAccount`, `nextHealthyAccount`, `chatOnce` | check-then-act on all three parts above; a failover must leave the failed account, blame the right one, not hold a slot, and end | `AccountDispatch` |
| Chat completions, `openaiChat` in `web/server.go` | each handler's locals | stream, retries, binding | one answer, with the whole history before it, whichever of ten ways it was obtained | `Completion` |
| ChatHub client, `chathub/client.go` | a connection, its reader and channel | `Chat` | deltas add up to the answer, the turn ends, the error is the real one | `ChatTurn` |
| ChatHub pool, `chathub/connpool.go` | listed connections, parking readers | `Warm`, `Take`, `GC`, `Close` | one taker per connection, who learns of its end | `ConnPool` |
| Token store, `auth/cache.go` | accounts and their file, cursor, refreshes in flight | `Next`, `EnsureValid`, `Upsert`, `Delete`, `Update...`, `Set...` | one refresh per account, whose waiters all return; no refresh token that is still needed is lost; a refresh from an old copy undoes no setting; disk and memory agree | `TokenStore` |
| Sign-in, `web/server.go`, `auth/device.go` | PKCE and device entries | begin, callback, poll, clean-up | a code is redeemed once; what is shown is what happened | `SignIn` |
| API keys, `web/keys.go` | key list | `create`, `delete`, `update`, `valid` | a failed save is rolled back without touching what others did meanwhile | `KeyStore` |
| Persistence, `web/persist.go`, and the end of the process, `cmd/server/main.go` | dirty flag per store, list of dirty stores | `markDirty`, loop, blocking flush, stop | a change that was acknowledged reaches the disk | `PersistStore` |
| Rates, quotas and usage, `adminMiddleware`, `web/usage.go` | window per key, log in memory and file | check, record, flush, reload | quota exceeded by no more than what overlaps; no record lost or doubled | `KeyGate` |
| Sessions and conversations, `web/session_resolver.go`, `conversation_cache.go`, `conversation_manager.go`, `auto_cleanup.go` | sessions, cache per account and model, records of conversations | resolve, bind, evict, store, clean up | nothing lost or sent twice; no deleted conversation continued; tenants apart | `Conversations` |
| Chat page, `web/chatui.go` | users, conversations, daily counters | login, chat, picture, delete, janitor | what is deleted stays deleted; quota kept when requests and midnights overlap | `ChatPage` |
| Responses, `web/protocol_handlers.go` | remembered answers; a pipe per stream | begin, continue, remember, read the stream | no answer continued twice, none lost that is recent; a stream ends, and says what it was | `Responses` |
| Pictures, `web/images.go` | marks, files, daily counter per key | rotation over accounts, store, expire | what was given is on disk and counted | `ImageJobs` |
| Administrator's password, `web/admin_security.go`, `admin_bootstrap.go` | hash, history, fingerprint, sessions | start, change, login | a restart never undoes a choice | `AdminPassword` |
| Settings, `web/settings.go`, `proxy_pool.go` | file, values, pool in use | change, add and remove proxies, start | the three agree | `RuntimeSettings` |
| Outbound proxies, `outbound/pool.go`, `health.go` | list, place of the next pick, those set aside | pick, mark, replay, check | a bad proxy is left and comes back; the load goes round | `ProxyPool` |
| MCP, `mcp/` | pending calls | call, answer, close | client and queue have no caller | - |
| File proxy, self-update, protocol translation, agent ledger, context budget, pages | none, or values under one lock | conversion | sequential | - |

A chat request meets them in this order: the key (`KeyGate`, `KeyStore`), the conversation
it continues (`Conversations`), an account (`AccountDispatch`: the sticky account first,
else the token store's round robin; each candidate is asked of the circuit, the health
book and the limiter), its token (`TokenStore`), a slot of the account (`AccountSlots`),
the turn with the upstream (`ChatTurn`, over `ProxyPool` when one is configured), the
health book again, then perhaps a failover or a retry (`Completion`), and last the binding
of the conversation for the next turn and the usage log.  `PROJECT.json` lists every part,
the hazards of each at its line, and which properties guard against them.

## Modules

`SlotPool` - the abstract limiter: who is being served by which account, with grants and
returns.

`AccountSlots` - the limiter.  `inflight` is the counter map, `heard[r]` says that the
channel goroutine `r` captured has been closed.  Each action is one critical section of
`Acquire` or of the release, or one branch of its `select`: `Take` (37-42), `Enqueue`
(56-58, the channel is read before the unlock), `Wake` (61-63), `GiveUp` (59-60),
`Release` (41-54, which wakes all sleepers of all accounts), `End` (the context is done).
`Begin` is the handler that enters.  Refines `SlotPool` with `serving[a] <- Holders(a)`.

`GlobalCircuit` - `globalCircuitState`: the window with its two ways of being cut at 1000
results (a success is tested before, a failure after), and `openUntil`. It has no
specification of its own.

`AccountHealth` - extends it with the maps.  `Absent` is a missing map entry and 0 an
expired one; the code treats them differently until somebody looks. `MarkFailure` has the
whole method: classification (which reads the circuit for untyped errors), the record on
the circuit, cooldown, lock-out, marks and backoff.  `Look` is the clean-up that every
reading method starts with.  The backoff is an array of durations; the attempt counter
saturates where the duration does.

`AccountDispatch` - extends `AccountHealth`, instantiates `AccountSlots` and composes them
with the handler of `chatOnce`.  `step[r]` is the handler's place, `cand` its candidate,
`why` the purpose for which the candidate is being checked (it tells the loops of
`resolveAccount` and `nextHealthyAccount` apart), `first` is `acc` once `next` exists.
One action per step between two locks: `CheckHealth`, `CheckSlot`, `PassOver` (the loops'
next round), `TokenValid` and `TokenInvalid` (`EnsureValid`), `Acquire` and
`AcquireFails`, `CallStarts` (`MarkCall`), `CallEnds` (`recordAccountChatResult`, before
the slot is given back), `Leave`, and the branches on the error: `FailOver`, `Conclude`,
`BlameSecond`, `BlameAcc`.  `Others` is the clock and the admin page.

`TokenStore` - the accounts and their tokens, `auth/cache.go`.  `data` is the list in
memory, `disk` the file, `inflight[i]` the goroutine that `s.inflight` names for an
account.  An operation under the store's mutex is one action, its save included, which may
fail after the list has changed: `SignIn` (`Upsert`), `Delete`, `SetSetting`
(`SetScheduleEnabled`, `SetBoundProxy`).  `EnsureValid` lets go of the mutex between its
steps, so a goroutine moves through `LookFresh`, `LookHopeless` or `LookDue`, then `Lead`
or `Join`, `Redeem` (the token endpoint), `SettleError` or `SettleToken`, `Close` (the
done channel) and `Leave` (`delete(s.inflight, ...)`); between the last two a `Join` still
finds the finished refresh.  `snap` is the copy of the account it carries, which is what
makes a refresh stale.  `Designer` and `StoreRotated` are the second path that redeems a
refresh token, `designerAccessToken` in `web/images.go`, which `s.inflight` does not see.
The identity provider is external (`Exchange`, `live`): it may rotate a token and may then
refuse the old one.  A request whose answer is lost after the provider rotated the token
is left out, as the code has no means against it.  The list is a set, since its order
matters only to the rotation, and a user id and an email name one another.  `Restart`
reads the file.  Refines `AccountBook` with `book` the settings and token of each account
in `data` (`Listed`), and `file` the same of `disk`.

`AccountBook` - what the token store promises to those who only look at its list: one
entry per account, a file that is replaced as a whole or not at all, and four changes: an
account enters with the default settings (`Enter`), leaves (`Remove`), has its settings
changed (`Change`), or its token replaced by one that no account has (`Renew`).  No
goroutine, refresh or clock is left in it.

`PersistStore` - a store in memory and its file (`persist.go`).  `MarkDirty` sets the flag
and registers the store, `Queue` is the start of a flush (which clears the flag first),
`Read` the memory copied under `writeMu`, `Written` and `NotWritten` the two ends of the
write.  `writeMu` is taken when the memory is read: nobody else can tell the difference.
It has operations only; its user gives the rest.

`KeyStore` - extends it with `keys.go` and the life of the process.  A handler creates,
updates or deletes a key, waits for the flush, and undoes its change when that fails, at
the index it read before it let go of the lock (`TakeBack`; `locked` is the panic with the
lock held); `Stamp` is a client's request, which only marks the key as used.  `loop` is
the saving goroutine, `Signal`, `LastRound` and `Exit` the orderly end; `Boot` is a kill
at any moment, or the start after an end.

`Conversations` - a request of a chat looks for a conversation that holds the beginning of
what it sends (`session_resolver.go`: by name, exact, by overlap; then the cache of
`conversation_cache.go`), is answered, and binds what it used, under the session id the
request carries by then (`under`).  A failed call drops the cache entry only when the
cache led to the conversation (`"reused"`).  The clean-up of `auto_cleanup.go` lists, picks and
deletes in steps of its own.  A match of suffixes finds nothing that the exact one did not,
as chats that differ share no message.  A message is a pair of
its chat and its number, so it shows in `cloud` who wrote what in which conversation.  All
chats share account, model, system prompt and address, the one case in which they can be
taken for one another.  `blurred` marks conversations that may not hold what their chats
hold, and why: a looser match, the cache, a call that failed, or a second session of the
key on the same conversation (`Twins`); `late` those whose sessions may outlive them: a
request in flight held them when they were deleted, or the clean-up the administrator
asked for took them (`AdminCleans`, `AdminLists`, `AdminRemoves`), which drops no session.
Refines `Dialogue` with `log` the conversations of `cloud`, those that are `blurred` lost,
and `deleted` those that are made and not `alive`.

`Dialogue` - what the gateway promises about the conversations: each belongs to one chat
from its first message on (`Open`), holds it from its beginning up to an answer, grows by
whole turns (`Continue`) until it is deleted (`Delete`), and is never rewritten.  Of one
that was lost (`Lose`) nothing more is promised.  No session, cache, name or clean-up
round is left in it.

`ChatTurn` - one call of `Chat`: `Opening` (dial, upload, handshake, payload), the loop
over frames, and the reader goroutine with `readCh`, its deadline and the five-minute
timer.  The upstream is external: it may send fragments, snapshots or both, repeat an old
snapshot, complete early, fail or fall silent.  A text is a sequence of words, and only
the words of a notice mean anything.

`Completion` - requests to `/v1/chat/completions`, one after the other: account and
conversation each starts with (`Admit`), the call, the failover, the retries that throw a
useless answer away, the cases of the streaming branch, and what is bound for the next
turn.  `bindings` remembers which account each conversation was bound to.  A session or
the resolver offers a conversation that was bound before (`Offered`) and pins the request
to its account, unless the client names one: then that one is called, and no store
compares the two (`server.go:2584`, `2591`, `2610`; `session_resolver.go:208-253`).
`Strays` is such a request, or one that names a conversation without its account, and
`strayed` that there was one.  A word of an answer
is the number of the call that said it, which is enough to see two answers spliced.  The
outcome of a call is free here; `AccountDispatch` has what it does to accounts, `ChatTurn`
how it comes about.

`ChatPage` - users, their conversations on disk and their counters (`chatui.go`): `Begin`
checks session and quota, then come question, call, answer and count, each under a lock of
its own, against the deletion of the conversation, the user or the key, the janitor and
midnight.  A conversation is loaded and then saved under one lock (`saving`), which keeps
all others out but the janitor: that removes files without it (`chatui.go:377`), and one
that falls between a load and its save is undone by the save.

`AdminPassword` - where a start takes the password from (environment, reset file, flag
beside the environment, or generated), the writes of a start one by one with a kill
between any two, changes in the console, logins and the sessions a change ends.

`ImageJobs` - both routes of a picture request: rotation over accounts with the marks it
sets, the pictures of a generation (`batch`, dropped when it fails) and of those before it
(`ready`), storing with the limits on files and bytes, a write that fails after room was
made, expiry, and the counter of the key on disk.  A picture is its number; how much a set
of them takes is the number of their blocks.

`ConnPool` - `Warm`, the parking reader, `Take` with what it does outside the lock,
eviction, `GC` and `Close`.  A connection's channels are nil until its reader starts.  Only tests make
such a pool in this commit, so no hazard of the running program is listed for it.

`SignIn` - the three ways an account comes into the pool; an entry under the lock, and
handlers that work on a copy of it while the token endpoint answers and write it back.
`Upsert` lists the account before it saves; when the save fails, the account is listed and
served all the same (`unsaved`), and the page shows an error.

`RuntimeSettings` - `settings.json`, the values in memory and the pool in use as three
copies that each console request reads, changes and writes in steps; failed saves; a
restart.

`ProxyPool` - picking, setting aside, replaying a request on another proxy (a body that
can be read once, again, or no body), dialling and the health check.

`Responses` - `/v1/responses`.  `BeginCall` and `BeginStream` check and consume what
previous_response_id names in one critical section; `RememberAnswer` files an answer,
after it has dropped what is past the hour and, in a full bucket, the oldest.  A stream is
two goroutines: `inner` runs `openaiChat` and writes lines into a pipe, `outer` scans and
handles them, waits for the end of the other and says how it went.  `content` is what was
written, `gathered` what was passed on.

`KeyGate` - what a request with a key passes: the minute's window, the two quotas, and the
usage log they are counted from, with its flush (which may fail, or write half), and
reload at a restart.  A request makes up to two records: `/v1/messages`, and
`/v1/responses` without a stream, run the chat handler in process, which records the call
(`server.go:3863`), and then record it themselves (`protocol_handlers.go:441`, `566`).

The theorems: `AccountSlotsProofs`, `AccountDispatchProofs` (with `AccountHealth`),
`TokenStoreProofs`, `KeyStoreProofs`, `ConversationProofs`, `DeliveryProofs` (`ProxyPool`,
`ConnPool`, `Responses`, `Completion`, `ChatTurn`), `AdministrationProofs`
(`RuntimeSettings`, `SignIn`, `AdminPassword`) and `QuotaProofs` (`KeyGate`, `ChatPage`,
`ImageJobs`).

`MC*` - constants for TLC.  `MCAccounts`, `MCService`, `MCLasting` and `MCRequests` put
several components side by side that share no variable: `part` is chosen at the start and
that one runs alone, as its own specification has it, so a run explores the sum of their
states and not the product.  A property of a component says nothing of the other parts,
whose variables stay as they began.  `MCDispatchRefusal` adds a history variable, `open`,
to say what was true during a search.

Data that no property tells apart is left out: bodies, tokens, call counts, fail reasons,
metering figures, and wording of errors (whether an error's text reads like a dropped
connection is a choice, `MayBeDrop`).  Definitions commented "A mutant of ..." or
"Variant: ..." are bugs the code does not have; no specification uses them, and
`PROJECT.json` pairs each with the property it breaks.

## Runs

| run | states | what it shows |
|---|---|---|
| `accounts` | 16 000 | the limiter loses no slot, frees none twice, loses no wakeup, every `Acquire` returns, and it implements `SlotPool`; marks expire with their cooldown, the window stays sane, accounts come back by the clock, the circuit closes |
| `service` | 1.4 million | the eight properties of the first table below |
| `dispatch_live` | 620 000 | every request is answered without help from its timeout (`RequestAnswered`) |
| `lasting` | 260 000 | tokens: one refresh per account (`SingleFlight`) and no waiter left behind (`WaitersReturn`), no account listed twice, the store implements `AccountBook` (`BookSpec`), no refresh undoes a setting (`SettingsKept`), no usable refresh token is lost (`TokenNotLost`); a turn: it ends, and its reader with it (`TurnSettles`) |
| `keys` | 260 000 | what was acknowledged is in the file, a clean store is saved, an orderly end saves the rest (`FileKeepsUp`), the loop saves what nobody waits for (`UseReachesDisk`) |
| `requests` | 2 million | the eight properties of the second table below |
| `bound_stays`, `image_blame`, `cooling_refusal`, `stampede`, `rollback`, `stream_tail` | - | violated; see below |

`service`, part by part:

| part | property |
|---|---|
| dispatch | `NoHoldAndWait`: no request holds a slot outside its call; `FailoverElsewhere`: a failover leaves the failed account; `BlamesTheCalled`: only the called account is blamed |
| admin | `ChoiceStays`: a password chosen in the console outlives restarts, kills and failed writes |
| sign in | `SignInTrue`: one handler redeems a code; shown as done is what is stored and saved, and what is stored is shown so, but for overlapping polls of a device code and failed saves |
| settings | `SettingsTrue`: after a request that met no other, file, memory and pool agree, whatever was left behind before |
| proxies | `RotationFair`: no ready proxy is passed as often as there are proxies |
| turn | `TurnTellsTruly`: the deltas of a turn are its answer, a whole notice is never its first delta, a reported drop was one |

`requests`, part by part:

| part | property |
|---|---|
| conversations | `SessionsTrue`, of three parts; `NothingLostOrRepeated`: a conversation continued by its exact history, and that one session of the key had, holds after each turn what the client holds; `NoGhostSession`: no session leads to a conversation that a clean-up round or a deletion took; `ResolverKeepsKeysApart`: no match of the resolver mixes two keys. `DialogueSpec`: the conversations implement `Dialogue`, whatever leads requests to them |
| completion | `OneAnswer`: a stream is sent the words of one call, the one that is bound; and, as long as no client has named an account or a conversation that is not the other's, the call that answers had the whole history before it, and what is bound belongs to the account it is bound to |
| page | `PageTrue`, of two parts; `DeletedStaysDeleted`: no answer is filed in a conversation that is gone, and only what was loaded when the janitor removed it comes back; `QuotaHolds`: overshoot at most what is served at once, over midnight too |
| images | `PicturesKept`: what a request gave is on disk until it expires or makes room for as many newer ones, or as much, as the disk may hold, and is counted |
| pool | `NoStrandedTaker`: whoever took a connection is alone with it and learns when its reader ends |
| gate | `QuotaLog`: quotas exceeded by fewer than twice what overlaps, and no record lost, doubled or moved |
| responses | `ResponsesTrue`, of two parts; `AnswersKept`: no answer is continued twice, none that is recent is lost; `StreamToldTruly`: a stream ends with a terminal event that agrees with what was written |

Deadlock is checked in `accounts`, where it says something, and in `service` and
`dispatch_live`.  In the dispatch part the clock or the admin page can always act, so a
deadlock of the handlers shows up as a failed liveness property and not as a state without
successor; a turn that has returned may stop (`LoopIsOver`).  `lasting`, `keys` and
`requests` do not check it: a turn that is over, a request that was answered and a process
that was told to stop do stop.

Bounds and why they are enough:

- `accounts`, the limiter: two accounts, three goroutines, one slot.  Three goroutines on
  one slot give a holder and two sleepers, so a wakeup can be lost or overtaken; the
  second account shows that the shared channel wakes strangers too.  A goroutine uses the
  limiter again and again.
- `accounts`, the book: one account, because no method relates two accounts (the circuit,
  which all share, is in the run).  All eleven kinds of error that Chat returns.
  Durations of one to three ticks keep the orders "shorter than", "equal", "longer than";
  the window is cut at three results instead of 1000 and opens at two instead of ten. No
  counter needs a bound: durations count down, `attempts` saturates, `windowAge` saturates
  one tick past the window (all older windows restart alike).
- `service`, the dispatch: two accounts of one slot, two requests that run once each, two
  picks per search instead of 16, and one error of each class that the handler
  distinguishes and the health book treats differently (a rate limit, an infrastructure
  failure that may be a drop, a failure that does neither) besides success and the image
  limit.  Two requests are enough for each to move the cursor or fill the account under
  the other; a request that could run twice would be another request.
- `service`, the rest.  Admin: two passwords besides the generated one, handed over in
  three ways, three starts, one failed save.  Sign-in: two handlers and an entry of each
  of the three kinds.  Settings: one proxy and two levels, one failed save.  Proxies:
  three of them, so that there is one besides the one picked and the next; three replays
  as in the code.  Turn: a busy notice split in two words and an image notice; a channel
  for one frame instead of eight, so that it is full as soon as the loop is slow.
- `dispatch_live`: the same with failures that all lead to a failover (an overload) or do
  not; the circuit needs more results than the run can produce.
- `lasting`, the tokens: one user, two goroutines, two refresh tokens, two values of the
  settings, one crash or failed save.  The store's operations relate two accounts only in
  `Upsert`'s search, which the proofs cover for any number.  Two tokens are a sign-in and a
  rotation, or two sign-ins.  The bound on tokens stops sign-ins and rotations, never a
  goroutine: the provider may always answer without a new token.
- `lasting`, the turn: an ordinary answer of one word, on a connection of its own and on a
  pooled one, whose own deadline is gone: the start from which liveness is hardest.
- `keys`: two handlers and the loop, so that a change can fall between the read and the
  write of two different flushes; two keys, one in the file from before, so that a
  rollback has another one to hit; three requests, one failed write, one crash.
- `requests`: two actors of each kind, which is enough for every check-then-act.
  Conversations: two chats, three conversations, two sessions (so that the third evicts),
  one kept by the clean-up, one trouble, any pauses of two hours; one of the chats may take
  three turns (`MaxSaid`, `MaxOthers`), the fewest after which a second session on one
  conversation makes messages repeat.  Completion: answers of two words with one
  held back, so that words of two calls could be spliced on either side of the filter, two
  accounts (one failover), requests in any number.  Page: one user, a daily limit of one answer and
  two pictures; midnight may come at any time.  Images: two pictures per call, two files on
  a disk of three blocks, pictures of one or two blocks (so that either limit can be the
  one that is met), a third picture that makes room, one expiry.  Pool: one listed
  connection, two dialled.  Gate: two a minute, two a day, three ever, a log of four
  records of five made (two requests at once that record twice exceed the quotas by all
  that they may), one midnight.  Responses: two calls and a stream of two lines,
  three answers in a bucket of two.
- Symmetry in `service` and `requests`: the actors of every part have the same names, and
  so has what they act on; each part treats them alike, and the runs check no liveness.

Fairness.  `FairAccountsSpec` assumes of the limiter that runnable goroutines run, that an
upstream call ends (websocket reads have deadlines), that a context ends (every caller
wraps the request's context in a timeout) and, strongly, that a `select` with a done
context takes it eventually (Go chooses uniformly among ready cases). `AcquireReturns`
needs the context: the limiter is not first come, first served, so a sleeper can be
overtaken for as long as others arrive.  Of the book it only assumes the clock.
`FairDispatchSpec` (`dispatch_live`) assumes weak fairness of each handler, its
`EnsureValid` included, and nothing of contexts: two requests cannot starve one another
because each runs once, and this is what lets `RequestAnswered` tell a deadlock between
failovers from a timeout that happens to resolve it.

`FairStoreSpec`, whose conditions `lasting` has for its tokens, assumes that goroutines
which can run do, and nothing of the token endpoint, whose client has no timeout
(`outbound/proxy.go:60`): `WaitersReturn` therefore starts when the endpoint has answered
the leader.

`KeyStoreFairness` (`keys`) assumes that handlers finish what they began and that the
loop's ticker fires, and strongly that the loop gets `writeMu`, which handlers may take
again and again (a Go mutex lets a waiter in after a millisecond).  `TurnFairness` (asked
in `lasting` of the part that is a turn: `Turning`) assumes that the two goroutines of a
turn run, that a read of a connection of its own ends by its deadline, and that the timer
fires; nothing of a pooled connection, of the upstream or of the caller. `service` and
`requests` are about safety only and assume nothing.

`AccountsRecover` and `CircuitCloses` are conditional: they say what happens once certain
results stop, by the clock alone.

Every property of a passing run is paired in `PROJECT.json` with a mutant of the code that
breaks it; the properties that join several statements have one for more than one of them.

## Proofs

Checked by TLAPS for every value of the constants that meets the modules' assumptions: a
finite number of goroutines, clients and handlers, positive limits, durations that are
natural numbers, a list of accounts that is not empty.  Of the assumptions less obvious
ones: no password is the mark for "none" (`AdminAssumption`; the code refuses an empty
one), there is at least one key id (`KeyAssumption`; ids are random), an answer is a
sequence of words (`TurnAssumption`), and a picture alone fits on the disk
(`ImageAssumption`; the code refuses pictures above 20 MB and keeps 512 MB).  The bounds
that the runs need (`MaxMade`, `MaxImage`, `MaxToken` and the like) are any numbers here.

Most invariants below are found in the same way: say of every place where something is
under way (a copy in a handler, a request in flight, a half of a flush) what it still owes
to the property, so that the property is what is left when nothing is under way.  Induction
over data is out of the prover's reach, but not the least element of a set of numbers
(`Smallest`, `LeastNumber`), which serves where a list or an order is searched.

**Limiter** (`AccountSlotsProofs`).  The inductive invariant `SlotsInv` is `TypeOK /\
SlotAccounting /\ WithinLimit /\ NoLostWakeup`.  Type correctness alone does not bound the
counter; with the accounting, a release of a held slot never meets the clamp at zero, so
it removes exactly one holder; and a release keeps `NoLostWakeup` because it wakes every
sleeper, on whatever account. `ImplementsPool`: a `Take` is a `Grant`, a `Release` a
`Return`, every other step leaves the holders as they are (`QuietHolders`).

**Health book** (`AccountDispatchProofs`).  `HealthTypeOK /\ MarksExpire` is inductive: a
failure leaves an entry because each category's cooldown is a natural number
(`CooldownType`), and only steps that remove the marks too remove an entry.
`WindowCorrect` is proved on its own, from the circuit's operations.

**Gateway** (`AccountDispatchProofs`).  A step of the gateway is a step or a stutter of
the limiter and of the health book (`StepOfSlots`, `StepOfHealth`), so `SlotsInDispatch`,
`PoolInDispatch` and `HealthInDispatch` carry over what was proved of the parts: the
handlers use them only in ways their specifications foresee.  That needs the invariant,
since a request must have a candidate when it checks or calls one.  `NoHoldAndWait` and
`FailoverElsewhere` are proved from `HandlerInv`, which adds `Candidates` (a search has a
candidate) and `SecondSearch` (after a failover the only search there is avoids `first`);
without the latter, a state in which a failed-over request probes for a first account
would step to one that calls the failed account again.  Every step of a search is one of
three effects (`Advance`, `Finish`, `Repick`) and every step around a call is a
`CallMove`, each with its lemma. `BlamesTheCalledCorrect` excludes every step but
`CallEnds` and shows that a result touches no other account.

**Token store** (`TokenStoreProofs`).  `StoreInv` is `BookInv` (the list and the file are
each a `GoodList`: well-typed, no account twice; the file is behind only after a failed
save), `RestTyped` and `FlightInv`.  `OneEntryPerAccount` of the memory is not inductive
alone, as a restart replaces the memory by the file; nor is `SingleFlight`, which speaks
of the account a goroutine holds: `FlightInv` adds the converse, that a goroutine named in
`inflight` leads for that very account, so that `Leave` removes its own entry and no
other.  That `Upsert` keeps a list good rests on `StoreAssumption`: were one user's id to
come with another's email, its search would find two entries. `SettingsKeptCorrect` is an
action property: every operation on the list is a `Rewrite` that keeps the settings
(`RewriteSettings`, `UpsertSettings`), an append of an account that was not listed, a
removal, or `SetSetting`.  `DiskCorrect`: the file is behind only after a failed save.

`TokenNotLostCorrect` rests on `TokensInv`: no token is known that was not issued
(`Bounded`), none is in two accounts (`OneOwner`), a copy that has the token of an account
is a copy of it (`CopiesOwn`), and a token that a goroutine has still to store is accepted
by the provider and known to nobody else (`RepliesNew`).  It holds
until the first crash: a process killed between the reply and the save loses what it was
told.

`ImplementsBook`: a `SignIn` is an `Enter` or a `Renew`, `Delete` a `Remove`, `SetSetting`
a `Change`, the save of a refresh a `Renew` or a `Resave`, `Restart` a `Recover`.  It
needs both invariants above: `StoreInv` makes `Listed` a function of the id, so that a
change of one entry is a change at one place, and `TokensInv` says that what a refresh
writes into its entry is in no other.

**Key store** (`KeyStoreProofs`).  `FileKeepsUp` needs a statement about every list that
was read and not yet written.  It agrees with the memory on each key but those whose
handler has its own reading still to come (`AnsweredInv`), and where it is not the memory
somebody is going to save the whole list (`CleanInv`); `UsedInv` says the same of the use
of keys, which nobody waits for.  That a key has one entry is part of it, since `Stamp`
and a rollback name an entry by its key.

**Conversations** (`ConversationProofs`).  A session says what its conversation holds only
when no request is in between, so the invariants speak of requests too.
- `NoGhostSession` and `ResolverKeepsKeysApart` from `ResolverInv`: what a session leads
  to, and what a request that has its answer will bind (`Leaving`), is alive, or is the
  one conversation that the clean-up has deleted and whose sessions it is about to drop,
  or is excused in `late` (`Living`, `OneAtATime`); and it holds messages of its key alone
  unless the cache led to it (`KeysApart`).
- `NothingLostOrRepeated` from `HistoryInv`: a session's history is the beginning of one
  chat, up to an answer (`Histories`); its conversation holds just that, or one turn more
  when a request has its answer and has not bound it (`Matches`, `Behind`); and what a
  request skips is what its conversation holds (`ExactFor`).  `OnlyOne` is the reason that
  two requests never append to one such conversation: the first message says whose it is.
  `Twins` is needed here: with two sessions, one of them stays behind for good.
- `ImplementsDialogue` from `HistoryInv` and `InChats` (a conversation that is not blurred
  holds one chat up to an answer): an answer is an `Open` or a `Continue`, because what is
  sent begins where the conversation ends, which `ExactFor` says of every request whatever
  else happened since its look-up; a mark in `blurred` is a `Lose`; all that the sessions,
  the cache and the clean-up do besides deleting is a stutter.

**Delivery** (`DeliveryProofs`).
- `RotationFair` is inductive once joined with `RoomAhead`: the picks that passed a ready
  place, plus its distance from `next`, are fewer than the places.
- `NoStrandedTaker` from `PoolInv`: what a taker has is neither listed nor about to be
  closed, and nobody else's (`Owned`); a connection with a reader has its channels, and
  a reader that goes closes them (`Sound`).
- `ResponsesTrue` from what is continued once (`OnceContinued`), what a bucket still has
  (`RecentKept`), where the two goroutines of a stream stand to one another (`Together`),
  and what was written, passed on and told (`Told`).
- `OneAnswer` from `CompletionInv`: every word the client has was said by one call, the
  one that is bound; at most ten calls are made, counted by the stages of the handler
  (`Budget`).  The account is right by induction over the requests: until a client
  strays, what was bound belongs to the account it is bound to (`Bindings`), so what a
  session, the resolver or the cache offers does, and so does what is bound after it
  (`NextRequestKeeps`).
- `TurnTellsTruly` from `TurnInv`: what is in the pipe between upstream and caller (the
  channel, the frame the reader holds, what was not read yet) is a chain of texts, each a
  beginning of the next (`Chained`, `Follows`, `Whole`), so that whatever mixture of
  fragments and snapshots arrives continues what was handed on; a reported drop was one
  (`LossInv`), and a first delta is no whole notice (`FirstInv`).

**Administration** (`AdministrationProofs`).
- `SettingsTrue`: a request that met no other is alone from its beginning to its end
  (`LoneRequest`), so what it read is what is there, and its copies agree when it is done
  (`DoneAlone`); and nothing is promised while anybody asks (`PromiseWaits`).
- `SignInTrue`: of the handlers of one entry one works (`OneWorks`), and the entry, and
  the stage of each handler, tell what happened at the token endpoint and in the store
  (`EntryTells`, `StageTells`).  An account that was listed by a save that failed may be
  shown as failed, never as done.
- `ChoiceStays`: where the choice is on disk (`ChoiceOnDisk`), when it is in memory
  (`ChoiceSet`) and how far a start is (`ProcTells`).

**Quotas** (`QuotaProofs`).
- `QuotaLog`: the window counts what it let in (`WindowCounts`), the log in memory is the
  end of what was made, and file, half a flush and queue are all of it, in order
  (`LogHolds`); the records of a day are counted by the set of their places.  What the
  requests being served may still record is part of the bound (`QuotasHold`,
  `Unrecorded`): two each, or one for a request that has made its first.
- `PageTrue` from `PageInv`: what is counted and what is being served leave the limit
  (`QuotaLeaves`), a sum over handlers written as the size of a set of pairs.  What is
  loaded and not saved was not removed, except by the janitor, and then it is not in
  `gone` (`RemovedStay`).
- `PicturesKept` from `ImageInv`: also the pictures of requests in flight, of generations
  that succeeded or are under way, are on disk, expired or pushed out.  What makes room is
  older, since what is retained is within the newest files that fit (`RetainedFits`); and
  a picture that is removed had that many newer ones, or that much, after it (`Storing`).

Four attempts showed that the model was wrong, and it was corrected by the code: the
types of the chat page's counters held only for the limits of the run; `Completion` made
eleven calls possible where the code has ten; `ImageJobs` kept the pictures of a
failed generation, and had neither the limit on bytes nor a write that fails after the
room was made; and `Conversations` gave a new session an id of its own where `Bind` uses
the one that the request carries.  There the attempt also showed that the increment is not
exact when two sessions of a key have one conversation, which chats of two turns cannot
show.

Only model-checked: that the parts of `service`, `lasting` and `requests` keep their types
together (`ServiceTypeOK`, `RequestsTypeOK`; of each part it is proved); and liveness
(`AcquireReturns`, `AccountsRecover`, `CircuitCloses`, `RequestAnswered`, `WaitersReturn`,
`UseReachesDisk`, `TurnSettles`), which is out of the prover's reach, as are statements
about ENABLED and induction over data.

## Where the code and its texts disagree

Each of these is a run that TLC finds violated.

- `bound_stays`: the comment at `server.go:1849` says that a chat bound to a conversation
  stays on its account.  For rate limits the code fails over all the same, with the
  conversation id of the first account.
- `image_blame`: after a failover, an image limit met by the second account is filed for
  it (`MarkImageLimited(next.ID)`) and then, as `err = err2` falls through to the common
  error path, for the first account as well, which is withheld for a day.
- `cooling_refusal`: "all accounts are cooling down" (`server.go:1669`) is answered when
  the one account the search settled on cooled down between its two checks, though another
  account was usable with a free slot throughout.
- `stampede`: `docs/audit-2026-08-07-robustness.md:169` lists as fixed that concurrent
  refreshes redeem one refresh token and a loser marks the account expired.  A goroutine
  reads the account, lets go of the mutex, and looks into `s.inflight` only then.  If a
  whole refresh fits in between, it leads a second one with the old refresh token; when
  the provider refuses that, the account is marked expired although its tokens are a
  moment old.
- `rollback`: `keys.go:243` takes a deleted key back when the save fails, at the index it
  had. The lock was free meanwhile: after another delete the index may be beyond the end,
  and the handler panics at `keys.go:256` with the list locked, which stops every later
  request with a key.
- `stream_tail`: the comment before the last `emitText` of the streaming branch
  (`server.go:3102-3107`) says that what is left of the answer is emitted there.  The
  identity filter holds the last 96 bytes back (`public_identity.go:439-466`), and nothing
  empties it: a streamed answer ends early.

Noted while reading, without a run.

Accounts and tokens:

- The setting `rateLimitCooldownSeconds` is described on the settings page
  (`web/index.html:736`) as the wait after a 429, but `CooldownForCategory` uses it only
  to cap the cooldown of unknown errors.
- `MarkImageLimited` sets a general cooldown of 24 hours although `web/index.html:1382`
  says that an account without images still takes text; a short cooldown recorded after it
  clears `imageLimited` early (`account_health.go:454`).
- Several calls that meet one 429 each take a backoff step (`account_health.go:714`); a
  late 503 replaces a 24 hour lock-out (`:720`).
- A refresh that ends after its account was deleted appends it again
  (`auth/cache.go:382`).
- `Upsert` lists the account before it saves (`auth/cache.go:376-384`): after a failed
  save the sign-in page says "error" (`server.go:1512-1519`, `1598-1606`) of an account
  that is served until the next restart.
- Two polls of one device code: the slower one's error overwrites "authenticated"
  (`server.go:1499`), and one transient network error ends a device sign-in.  A write-back
  after the age re-creates an expired PKCE entry.

Chat requests:

- The router and tool code of the streaming branch (`server.go:2730-2797`, `3143-3222`,
  `3013-3093`, `3227-3403`) cannot be reached: requests with tools are never streamed
  (2805).
- After a failover, `acc` is the new account while `account` keeps the old one's token
  (`server.go:3511`, `3533`, `3569`, `3615`), so a retry runs with the token of the first.
- The streaming path writes an error without the writer's lock (`protocol_response.go:191`
  says all writes take it), while the keepalive goroutine writes.
- The account that a client names wins over the one its session or the resolver's
  conversation is bound to (`server.go:2610`, `2584-2592`), and `Resolve` compares no
  account (`session_resolver.go:208-253`): only the new messages are then sent, for one
  account, to a conversation of another.
- The non-streaming path stores the conversation (3482) before the retries that reject its
  answer (3504).
- A failover on a rate limit keeps the conversation id the client gave (2903, 3424).
- In `chathub`, a snapshot that diverges from what was streamed is appended after it, and
  `finalizeText` keeps the longer, wrong text; a notice split over two fragments is
  streamed and returned as an answer.
- Connection pool: `Warm` lists a connection before its reader sets its channels
  (`connpool.go:251`), so `Take` may return nil channels; a `Warm` in flight during
  `Close` lists one in a closed pool.  No production code makes a pool.

Conversations:

- The comment at `auto_cleanup.go:39` says that beyond the conversations that are kept the
  oldest are deleted.  The list is sorted with the oldest first (`:111`), and what is
  deleted is its end.
- That one key never touches another key's conversation (`session_resolver.go:34-38`)
  holds for the resolver, but the cache is keyed by account and model only.  After a hit
  the request carries the session id of the entry (`server.go:2670`), which may be another
  key's, and `Bind` then replaces that key's session (`session_resolver.go:573-588`),
  though its comment says that it never merges into another tenant's binding.
- `Bind`'s "one record per conversation" (`session_resolver.go:535`) fails when two
  requests with one explicit id overlap: two sessions are left on one conversation.  If
  the newer one is deleted, the older is continued by its shorter history, and messages
  that the conversation holds are sent again.
- A request in flight when its conversation is cleaned up binds a session to nothing.
- Two stores read `M365_SESSION_CACHE` as their file, with different formats.
- The clean-up the administrator asks for (`conversations.go:290`) deletes in the cloud
  without `dropConversation`, and without regard to what is in use, so sessions keep
  leading requests to what is gone.  Its count `kept` (`m365cloud.go:243`) goes on from
  round to round: after a round that deleted something, those it kept count again, and
  with more than half of keep_n recent conversations in the end none is left.

Responses:

- "Never leave a Responses stream after response.created without a terminal event"
  (`protocol_handlers.go:241`): a line of more than 2 MB ends the scan in the middle of a
  write to the pipe, and the handler then waits for a writer that waits for it; so the
  branch on `scanner.Err()` is never reached.  A handler that returns because its client
  left does not close the pipe either, and an error `openaiChat` still writes blocks it
  for ever.
- An error that `openaiChat` sends inside its stream has no choices and is skipped: after
  some text the response is told to be completed.
- A response is consumed before the call; if the call fails, a retry gets 409.  A streamed
  response is never remembered, so no request can continue it.

Chat page and pictures:

- Regenerating without `truncateUser` stores the last question twice; a stream that fails
  with status 200 counts against the quota; counters carry yesterday's figures when a
  request crosses midnight; the janitor may remove a conversation just saved
  (`chatui.go:377`), and what it removes between a load and its save
  (`chatui.go:972-975`, `866-910`) comes back; a request in flight recreates the directory
  of a deleted user; pictures of a stream are split at a literal `\\n` (`chatui.go:1039`).
- A candidate whose token cannot be refreshed ends the rotation over accounts; when all
  refuse, the answer is 502 and not 429; the quota is checked before and counted after, so
  overlapping requests exceed it; one failed picture drops those already stored for the
  same reply.

Administration:

- The flag path writes no fingerprint, so an unchanged password of the environment
  replaces one set in the console after a reset (`admin_security.go:183-188`); an
  environment value whose saving failed is applied at a later start over the console's
  choice; overlapping changes leave memory and file apart (`:689`); a login whose check
  came before a change gets a session after it.
- A generated password's hash is saved before its clear text
  (`admin_bootstrap.go:103-120`).
- `POST` and `DELETE` of proxies that overlap lose one another's changes, and a failed
  save leaves memory changed.
- Any change of settings installs `v.ProxyPool` (`settings.go:485`): with a single proxy
  from the environment, saving an unrelated setting installs an empty pool and traffic
  goes direct until a restart, though the comment at `settings.go:649` says that the
  environment always wins; `UsingProxy` then still says yes.
- A request without body is replayed through a nil `GetBody` (`outbound/pool.go:245`),
  which panics; requests are replayed up to three times where the comment says once; for
  `http://` proxies the websocket dialer dials directly.
- Keys: a concurrent save clears `dirty`, so the last round finds the store clean and the
  process may exit before that save is written (`persist.go:46`, `main.go:88`); a failed
  blocking flush sets `dirty` without registering (`persist.go:49`); `create` rolls back
  the last key, whosever it is (`keys.go:198`).
- Usage: a request for `/v1/messages`, or for `/v1/responses` without a stream, is counted
  twice (`server.go:3863`, then `protocol_handlers.go:441`, `566`), so such requests have
  half the quota; "local midnight" is UTC's (`Truncate(24h)`); the all-time quota counts at most
  the last 50 000 records of all keys; a log that cannot be opened drops the records taken
  (`usage.go:154`); a partial write is retried from its beginning; a key deleted between
  the check and the look-up is served without limits (`server.go:597`).
- Self-update: a comment (`selfupdate.go:271`) says the lock is not held across requests,
  but `refreshUpdateInfo` holds it throughout, and every look waits for it; a failed check
  replaces a known newer release, and the banner goes.

## Not modelled

- Translation between protocols (except the state and the stream of `/v1/responses`), the
  agent ledger, context budget and prompt building are sequential functions of one request
  with no shared state; where they decide what happens next (an answer is thrown away,
  calls are found in a text) `Completion` has their verdict as a choice.
- The ChatHub wire format and its parsing, TLS and proxies' protocols are I/O.
- MCP: the client, the stdio transport and the queue have no caller in this program; the
  server answers from a list under one lock.
- The file proxy is upstream I/O around a map with an expiry.  Self-update: its apply step
  cannot be reached in this build; what is left is one cached result
  that looks refresh one at a time.
- Audit trail, alerts and deployments: displays, which nothing decides by.
- Pages, build scripts, probes and the package's shell scripts hold no logic of the
  service.

Inside the modelled parts: call counts and metering figures of the health book; the cursor
of the token store (it is in `AccountDispatch`) and encryption of its file; in
`AccountDispatch` what happens inside `EnsureValid`, which `TokenStore` has; the
user-session store of `sessions.go`; the three indexes of the resolver that nothing reads;
the lock-out after failed logins and the migration of old hashes; the address and model
lists of a key; users whose id or email changes; citations, tool calls and metrics picked
from ChatHub frames; stored files and memory handlers of the chat page;
midnight between the reading and the writing of the picture counter's file. Each component's
note in `PROJECT.json` says what its module leaves out.

## Plan

The order in which the modules were written: the accounts (`SlotPool` to
`AccountDispatch`), the token store, the key store with persistence and the process,
conversations, one turn, one completion, and then the parts that stand alone.  Then came
the abstract specifications: `SlotPool` for the limiter, `AccountBook` for the token
store, `Dialogue` for the conversations.  What a next step would be: the connection pool
as leases (a connection is fresh, parked, taken, closed) that `ConnPool` implements, and a
key store whose changes are on disk when they are acknowledged, implemented by `KeyStore`
up to the use of keys.

New theorems go into the module of their group.  Runs stay few: components that share a
question share a run.
