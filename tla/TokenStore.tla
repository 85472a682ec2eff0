----------------------------- MODULE TokenStore -----------------------------
(***************************************************************************)
(* src/internal/auth/cache.go: the accounts and their OAuth tokens.  One   *)
(* mutex guards the list; every change is written to accounts.json before  *)
(* the mutex is released.  A token close to its expiry is refreshed by one *)
(* goroutine per account: the others find its entry in s.inflight and wait *)
(* on its done channel.  The refresh token travels outside the lock, in    *)
(* the copy of the account each goroutine holds.                           *)
(*                                                                         *)
(* Time is the age of an access token: "fresh" while more is left than the *)
(* threshold, then "due".  The threshold is a tenth of the time from       *)
(* UpdatedAt to the end (120 s at most), so an edit that moves UpdatedAt   *)
(* makes a due token fresh again unless it is past its end.                *)
(* ScheduleDisabled and BoundProxy are one field: the code treats them     *)
(* alike.  OID equals ID.  The list is a set of entries: its order matters *)
(* to the rotation (Next, the cursor of AccountDispatch) and to which of   *)
(* two entries of one account is found first, of which there is never a    *)
(* second (OneEntryPerAccount).                                            *)
(***************************************************************************)
EXTENDS Naturals

CONSTANTS
    Proc,        \* goroutines: handlers, the refresh tick, the admin's refresh
    Identity,    \* who can sign in: [id |-> oid, email |-> email]
    Setting,     \* values of the admin's settings of an account
    Default,     \* the settings of a new account
    MaxToken,    \* bound: refresh tokens the identity provider issues
    MaxFault,    \* bound: crashes and failed saves
    None, Failed

\* A user id goes with one email and an email with one user id.
ASSUME StoreAssumption ==
    /\ Identity # {} /\ \A u \in Identity : u = [id |-> u.id, email |-> u.email]
    /\ \A u, v \in Identity : u.id = v.id \/ u.email = v.email => u = v
    /\ Default \in Setting
    /\ MaxToken \in Nat /\ MaxFault \in Nat
    /\ None \notin Proc
    /\ Failed \notin Nat

VARIABLES
    data,      \* s.data.Accounts
    age,       \* of the access token of each account
    disk,      \* accounts.json
    saved,     \* history: the last save succeeded
    inflight,  \* s.inflight: the goroutine that refreshes an account, or None
    pc,        \* where each goroutine is
    snap,      \* its copy of the account: acc, then the f.acc it returns; only
               \* the fields that are used, the id and the refresh token
    reply,     \* what the token endpoint told it: a refresh token, 0 for a reply
               \* without one, or Failed
    ok,        \* f.err = nil, for the goroutine that leads a refresh
    live,      \* external: the refresh tokens the identity provider accepts
    issued,    \* external: how many it has issued
    faults,    \* history: how many saves failed and crashes happened
    crashed    \* history: there was a crash

bookVars == <<data, disk, saved, faults>>
procVars == <<inflight, pc, snap, reply, ok>>
worldVars == <<live, issued, crashed>>
storeVars == <<bookVars, age, procVars, worldVars>>

Id == {u.id : u \in Identity}
Email == {u.email : u \in Identity}
Age == {"fresh", "due"}
Token == 0 .. MaxToken  \* 0 is the empty string

Copy == [id : Id, rt : Token]

Entry == [id : Id, email : Email, status : {"online", "expired"},
          settings : Setting, rt : Token]

Place == {"idle", "join", "wait", "redeem", "settle", "close", "leave",
          "have", "store"}

\* Between entering refreshInflight as the leader and leaving s.inflight.
Leading == {"redeem", "settle", "close", "leave"}

CopyOf(e) == [id |-> e.id, rt |-> e.rt]

\* Who an account belongs to; a refresh fills what the token does not name.
Owner(id) == CHOOSE u \in Identity : u.id = id

\* The account Upsert builds.
Account(u, rt) ==
    [id |-> u.id, email |-> u.email, status |-> "online", settings |-> Default, rt |-> rt]

\* The copy of a goroutine that holds none.
Blank == [id |-> (CHOOSE u \in Identity : TRUE).id, rt |-> 0]

\* A fresh installation: no file, no accounts.
StoreInit ==
    /\ data = {} /\ disk = {} /\ saved = TRUE
    /\ age = [i \in Id |-> "due"]
    /\ inflight = [i \in Id |-> None]
    /\ pc = [p \in Proc |-> "idle"]
    /\ snap = [p \in Proc |-> Blank]
    /\ reply = [p \in Proc |-> Failed]
    /\ ok = [p \in Proc |-> FALSE]
    /\ live = {} /\ issued = 0
    /\ faults = 0 /\ crashed = FALSE
-----------------------------------------------------------------------------
\* The entry a loop over the list stops at.
First(S) == CHOOSE e \in S : TRUE

\* The entries a name can mean; an OID is an ID here.
Named(d, name) == {e \in d : e.id = name \/ e.email = name}

WithId(d, id) == {e \in d : e.id = id}

\* A mutant of Hits: an account that has been replaced meanwhile is not found.
HitsSameToken(d, acc) == {e \in d : e.id = acc.id /\ e.rt = acc.rt}

\* The entries Upsert takes for the same account.
Hits(d, acc) == {e \in d : e.id = acc.id \/ e.email = acc.email}

\* The list with entry e rewritten to f.
Rewrite(d, e, f) == (d \ {e}) \cup {f}

\* A mutant of Merge: the old refresh token is put back.
MergeOldToken(old, acc) ==
    [acc EXCEPT !.settings = old.settings, !.rt = IF old.rt = 0 THEN acc.rt ELSE old.rt]

\* A mutant of Merge: the settings of the new entry stay as they are built.
MergeNoSettings(old, acc) == [acc EXCEPT !.rt = IF acc.rt = 0 THEN old.rt ELSE acc.rt]

\* What Upsert keeps of the entry it replaces.
Merge(old, acc) ==
    [acc EXCEPT !.rt = IF acc.rt = 0 THEN old.rt ELSE acc.rt,
                !.settings = old.settings]

\* The account Upsert stores and returns, and the list it leaves.
Stored(d, acc) == IF Hits(d, acc) = {} THEN acc ELSE Merge(First(Hits(d, acc)), acc)

Upserted(d, acc) ==
    IF Hits(d, acc) = {} THEN d \cup {acc}
    ELSE Rewrite(d, First(Hits(d, acc)), Stored(d, acc))

\* UpdatedAt = time.Now().
Touch(id) == age' \in {age, [age EXCEPT ![id] = "fresh"]}

\* Status "expired" for the entry with the id, if there is one.
Mark(d, id) ==
    LET e == First(WithId(d, id))
    IN  IF WithId(d, id) = {} THEN d ELSE Rewrite(d, e, [e EXCEPT !.status = "expired"])

\* A mutant of Save: a failed write is remembered as done.
SaveBlindly(d, done) ==
    /\ done \/ faults < MaxFault
    /\ faults' = IF done THEN faults ELSE faults + 1
    /\ data' = d
    /\ saved' = TRUE
    /\ disk' = IF done THEN d ELSE disk

\* saveLocked: the file is replaced as a whole, or not at all; the list in
\* memory has changed either way.
Save(d, done) ==
    /\ done \/ faults < MaxFault
    /\ faults' = IF done THEN faults ELSE faults + 1
    /\ data' = d
    /\ saved' = done
    /\ disk' = IF done THEN d ELSE disk
-----------------------------------------------------------------------------
\* Upsert for a login, an import or a provisioned account.  An import may bring
\* a token past its end, and no refresh token.
SignIn(u, a, withToken, done) ==
    LET new == IF withToken THEN issued + 1 ELSE issued
        acc == Account(u, IF withToken THEN new ELSE 0)
    IN  /\ new <= MaxToken
        /\ issued' = new
        /\ live' = IF withToken THEN live \cup {new} ELSE live
        /\ Save(Upserted(data, acc), done)
        /\ age' = [age EXCEPT ![u.id] = a]
        /\ UNCHANGED <<procVars, crashed>>

Delete(id, done) ==
    /\ Save({e \in data : e.id # id}, done)
    /\ UNCHANGED <<age, procVars, worldVars>>

\* SetScheduleEnabled and SetBoundProxy.
SetSetting(id, v, done) ==
    /\ WithId(data, id) # {}
    /\ LET e == First(WithId(data, id))
       IN  Save(Rewrite(data, e, [e EXCEPT !.settings = v]), done)
    /\ Touch(id)
    /\ UNCHANGED <<procVars, worldVars>>

\* Time passes for the access token of an account.
Tick(id) ==
    /\ WithId(data, id) # {}
    /\ age[id] = "fresh"
    /\ age' = [age EXCEPT ![id] = "due"]
    /\ UNCHANGED <<bookVars, procVars, worldVars>>

\* The process is killed and started again: OpenStore reads the file.  If the
\* last save failed its entries are older ones, of any age.
Restart ==
    /\ faults < MaxFault
    /\ faults' = faults + 1
    /\ crashed' = TRUE
    /\ data' = disk
    /\ saved' = TRUE
    /\ age' \in IF saved THEN {age} ELSE [Id -> Age]
    /\ inflight' = [i \in Id |-> None]
    /\ pc' = [p \in Proc |-> "idle"]
    /\ snap' = [p \in Proc |-> Blank]
    /\ reply' = [p \in Proc |-> Failed]
    /\ ok' = [p \in Proc |-> FALSE]
    /\ UNCHANGED <<disk, live, issued>>
-----------------------------------------------------------------------------
Goto(p, place) == pc' = [pc EXCEPT ![p] = place]

\* EnsureValid, fast path: the token is good for a while.
LookFresh(p, name) ==
    /\ pc[p] = "idle"
    /\ Named(data, name) # {}
    /\ LET acc == First(Named(data, name))
       IN  /\ age[acc.id] = "fresh"
           /\ snap' = [snap EXCEPT ![p] = CopyOf(acc)]
    /\ Goto(p, "have")
    /\ UNCHANGED <<bookVars, age, inflight, reply, ok, worldVars>>

\* EnsureValid without a refresh token: the account is marked and saved, the
\* caller gets an error.
LookHopeless(p, name, done) ==
    /\ pc[p] = "idle"
    /\ Named(data, name) # {}
    /\ LET acc == First(Named(data, name))
       IN  /\ age[acc.id] # "fresh"
           /\ acc.rt = 0
           /\ Save(Mark(data, acc.id), done)
    /\ UNCHANGED <<age, procVars, worldVars>>

\* EnsureValid: the token must be refreshed.  The lock is released here and
\* taken again in refreshInflight.
LookDue(p, name) ==
    /\ pc[p] = "idle"
    /\ Named(data, name) # {}
    /\ LET acc == First(Named(data, name))
       IN  /\ age[acc.id] # "fresh"
           /\ acc.rt # 0
           /\ snap' = [snap EXCEPT ![p] = CopyOf(acc)]
    /\ Goto(p, "join")
    /\ UNCHANGED <<bookVars, age, inflight, reply, ok, worldVars>>

\* A mutant of Lead: nobody looks into s.inflight.
LeadAlways(p) ==
    /\ pc[p] = "join"
    /\ inflight' = [inflight EXCEPT ![snap[p].id] = p]
    /\ Goto(p, "redeem")
    /\ UNCHANGED <<bookVars, age, snap, reply, ok, worldVars>>

\* refreshInflight: nobody refreshes this account.
Lead(p) ==
    /\ pc[p] = "join"
    /\ inflight[snap[p].id] = None
    /\ inflight' = [inflight EXCEPT ![snap[p].id] = p]
    /\ Goto(p, "redeem")
    /\ UNCHANGED <<bookVars, age, snap, reply, ok, worldVars>>

\* The goroutines of Q return what the refresh led by l came to.
Answer(Q, l) ==
    /\ pc' = [q \in Proc |-> IF q \notin Q THEN pc[q] ELSE IF ok[l] THEN "have" ELSE "idle"]
    /\ snap' = [q \in Proc |-> IF q \notin Q THEN snap[q] ELSE IF ok[l] THEN snap[l] ELSE Blank]

\* refreshInflight: somebody does.  Wait on its done channel, or read the result
\* if the channel is closed already.
Join(p) ==
    LET l == inflight[snap[p].id]
    IN  /\ pc[p] = "join"
        /\ l # None
        /\ \/ pc[l] # "leave" /\ Goto(p, "wait") /\ UNCHANGED snap
           \/ pc[l] = "leave" /\ Answer({p}, l)
        /\ UNCHANGED <<bookVars, age, inflight, reply, ok, worldVars>>

\* The identity provider answers the holder of refresh token rt: with an error
\* (whenever the network fails, always for a token it no longer accepts), with
\* an access token only, or with a new refresh token, after which the old one
\* may be refused.
Exchange(p, rt) ==
    \/ reply' = [reply EXCEPT ![p] = Failed] /\ UNCHANGED <<live, issued>>
    \/ rt \in live /\ reply' = [reply EXCEPT ![p] = 0] /\ UNCHANGED <<live, issued>>
    \/ /\ rt \in live /\ issued < MaxToken
       /\ issued' = issued + 1
       /\ reply' = [reply EXCEPT ![p] = issued + 1]
       /\ \E gone \in {{}, {rt}} : live' = (live \ gone) \cup {issued + 1}

\* Refresh, with the refresh token of the copy.
Redeem(p) ==
    /\ pc[p] = "redeem"
    /\ Exchange(p, snap[p].rt)
    /\ Goto(p, "settle")
    /\ UNCHANGED <<bookVars, age, inflight, snap, ok, crashed>>

\* The refresh failed: mark the account, if it is still there.
SettleError(p, done) ==
    /\ pc[p] = "settle"
    /\ reply[p] = Failed
    /\ IF WithId(data, snap[p].id) = {} THEN UNCHANGED bookVars
       ELSE Save(Mark(data, snap[p].id), done)
    /\ ok' = [ok EXCEPT ![p] = FALSE]
    /\ Goto(p, "close")
    /\ UNCHANGED <<age, inflight, snap, reply, worldVars>>

\* The refresh brought tokens: Upsert them.  If the save fails the callers get
\* its error, although the tokens are in memory.
SettleToken(p, done) ==
    LET acc == Account(Owner(snap[p].id), reply[p])
    IN  /\ pc[p] = "settle"
        /\ reply[p] # Failed
        /\ Save(Upserted(data, acc), done)
        /\ age' = [age EXCEPT ![acc.id] = "fresh"]
        /\ snap' = [snap EXCEPT ![p] = CopyOf(Stored(data, acc))]
        /\ reply' = [reply EXCEPT ![p] = Failed]
        /\ ok' = [ok EXCEPT ![p] = done]
        /\ Goto(p, "close")
        /\ UNCHANGED <<inflight, worldVars>>

Waiters(p) == {q \in Proc : pc[q] = "wait" /\ snap[q].id = snap[p].id}

\* A mutant of Close: an error returns before the channel is closed.
CloseOnSuccess(p) ==
    /\ pc[p] = "close"
    /\ ok[p]
    /\ LET Q == Waiters(p)
       IN  /\ pc' = [q \in Proc |-> IF q = p THEN "leave" ELSE IF q \in Q THEN "have" ELSE pc[q]]
           /\ snap' = [q \in Proc |-> IF q \in Q THEN snap[p] ELSE snap[q]]
    /\ UNCHANGED <<bookVars, age, inflight, reply, ok, worldVars>>

\* close(f.done): every waiter has its result.
Close(p) ==
    LET Q == Waiters(p)
    IN  /\ pc[p] = "close"
        /\ pc' = [q \in Proc |-> IF q = p THEN "leave"
                                 ELSE IF q \notin Q THEN pc[q]
                                 ELSE IF ok[p] THEN "have" ELSE "idle"]
        /\ snap' = [q \in Proc |-> IF q \notin Q THEN snap[q]
                                   ELSE IF ok[p] THEN snap[p] ELSE Blank]
        /\ UNCHANGED <<bookVars, age, inflight, reply, ok, worldVars>>

\* delete(s.inflight, acc.ID), and the leader returns.
Leave(p) ==
    /\ pc[p] = "leave"
    /\ inflight' = [inflight EXCEPT ![snap[p].id] = None]
    /\ Answer({p}, p)
    /\ ok' = [ok EXCEPT ![p] = FALSE]
    /\ UNCHANGED <<bookVars, age, reply, worldVars>>

\* The caller of EnsureValid is done with the account it got.
Finish(p) ==
    /\ pc[p] = "have"
    /\ Goto(p, "idle")
    /\ snap' = [snap EXCEPT ![p] = Blank]
    /\ UNCHANGED <<bookVars, age, inflight, reply, ok, worldVars>>

\* designerAccessToken: the image handler redeems the refresh token of its copy
\* for another scope, with no regard to s.inflight.
Designer(p) ==
    /\ pc[p] = "have"
    /\ snap[p].rt # 0
    /\ Exchange(p, snap[p].rt)
    /\ Goto(p, "store")
    /\ UNCHANGED <<bookVars, age, inflight, snap, ok, crashed>>

\* A mutant of StoreRotated: what came back is stored without a look at it.
StoreUnchecked(p, done) ==
    /\ pc[p] = "store"
    /\ WithId(data, snap[p].id) # {}
    /\ LET e == First(WithId(data, snap[p].id))
       IN  Save(Rewrite(data, e, [e EXCEPT !.rt = reply[p]]), done)
    /\ Touch(snap[p].id)
    /\ Goto(p, "idle")
    /\ snap' = [snap EXCEPT ![p] = Blank]
    /\ reply' = [reply EXCEPT ![p] = Failed]
    /\ UNCHANGED <<inflight, ok, worldVars>>

\* It writes a rotated refresh token back (UpdateRefreshToken) and only logs
\* that the account is gone or the save failed.
StoreRotated(p, done) ==
    /\ pc[p] = "store"
    /\ IF reply[p] \in {0, Failed} \/ WithId(data, snap[p].id) = {}
       THEN UNCHANGED <<bookVars, age>>
       ELSE /\ LET e == First(WithId(data, snap[p].id))
               IN  Save(Rewrite(data, e, [e EXCEPT !.rt = reply[p]]), done)
            /\ Touch(snap[p].id)
    /\ Goto(p, "idle")
    /\ snap' = [snap EXCEPT ![p] = Blank]
    /\ reply' = [reply EXCEPT ![p] = Failed]
    /\ UNCHANGED <<inflight, ok, worldVars>>

Admin ==
    \/ \E u \in Identity, a \in Age, withToken, done \in BOOLEAN :
           SignIn(u, a, withToken, done)
    \/ \E id \in Id, done \in BOOLEAN : Delete(id, done)
    \/ \E id \in Id, v \in Setting, done \in BOOLEAN : SetSetting(id, v, done)

Step(p, done) ==
    \/ Lead(p) \/ Join(p)
    \/ SettleError(p, done) \/ SettleToken(p, done)
    \/ Close(p) \/ Leave(p)
    \/ StoreRotated(p, done)

Handler(p) ==
    \/ \E name \in Id \cup Email : LookFresh(p, name) \/ LookDue(p, name)
    \/ \E name \in Id \cup Email, done \in BOOLEAN : LookHopeless(p, name, done)
    \/ \E done \in BOOLEAN : Step(p, done)
    \/ Redeem(p)
    \/ Finish(p)
    \/ Designer(p)

StoreNext ==
    \/ Admin
    \/ \E id \in Id : Tick(id)
    \/ Restart
    \/ \E p \in Proc : Handler(p)

StoreSpec == StoreInit /\ [][StoreNext]_storeVars

\* Runnable goroutines run.  Nothing is assumed of the token endpoint: the client
\* that calls it has no timeout.
FairStoreSpec == StoreSpec /\ \A p \in Proc : WF_storeVars(\E done \in BOOLEAN : Step(p, done))
-----------------------------------------------------------------------------
\* Every variable holds a value of its type.
StoreTypeOK ==
    /\ data \subseteq Entry /\ disk \subseteq Entry /\ saved \in BOOLEAN
    /\ age \in [Id -> Age]
    /\ inflight \in [Id -> Proc \cup {None}]
    /\ pc \in [Proc -> Place]
    /\ snap \in [Proc -> Copy]
    /\ reply \in [Proc -> Token \cup {Failed}]
    /\ ok \in [Proc -> BOOLEAN]
    /\ live \subseteq Token \ {0}
    /\ issued \in Token
    /\ faults \in 0 .. MaxFault /\ crashed \in BOOLEAN

\* One refresh per account: the goroutine s.inflight names is the only one
\* between its registration and its removal (cache.go:491), and who waits waits
\* for a refresh whose channel is still to be closed.
SingleFlight ==
    \A p \in Proc :
        /\ pc[p] \in Leading <=> inflight[snap[p].id] = p
        /\ pc[p] = "wait" => /\ inflight[snap[p].id] # None
                             /\ pc[inflight[snap[p].id]] # "leave"

\* However sign-ins, deletions, refreshes that end after them and restarts
\* interleave, no account is listed twice (Upsert appends at cache.go:382).
OneEntryPerAccount ==
    \A e, f \in data : e.id = f.id => e = f

\* The file is behind the memory only after a save that failed.
DiskIsCurrent == saved => disk = data

\* A reply not yet written back to account e.
Pending(e) ==
    {p \in Proc : /\ pc[p] \in {"settle", "store"}
                  /\ snap[p].id = e.id
                  /\ reply[p] \notin {0, Failed}}

\* Although two paths redeem and replace the refresh token of an account on their
\* own (cache.go:507, images.go:434), until the process is killed the account
\* keeps a token the identity provider accepts, or one is about to be stored.
TokenNotLost ==
    ~crashed =>
        \A e \in data : e.rt \in live \cup {0} \/ Pending(e) # {}

\* What the administrator set for an account (cache.go:301, 405) is changed by no
\* refresh or sign-in, whatever copy of the account they started from.
SettingsKept ==
    [][~Restart =>
         \A e \in data, f \in data' :
             e.id = f.id /\ e.settings # f.settings
                 => \E v \in Setting, done \in BOOLEAN : SetSetting(e.id, v, done)]_storeVars

\* What list d says of each account.
Row(e) == [settings |-> e.settings, token |-> e.rt]
Listed(d) == [i \in {e.id : e \in d} |-> Row(First(WithId(d, i)))]

\* The book of AccountBook, as it is kept here.
Book == INSTANCE AccountBook
    WITH book <- Listed(data), file <- Listed(disk), NoToken <- 0

\* The store implements the book: whatever goroutines, requests, failed saves and
\* kills do, what they leave in memory and in the file (cache.go:261, 320-408) is a
\* whole change of one account, and a refresh changes nothing but its token.
BookSpec == Book!Spec

\* Once the token endpoint has answered the goroutine that refreshes an account,
\* everyone who waits for it returns, also when the refresh or its save failed.
WaitersReturn ==
    \A q \in Proc :
        /\ pc[q] = "wait"
        /\ \E p \in Proc : pc[p] = "settle" /\ snap[q].id = snap[p].id
        ~> pc[q] # "wait"

\* docs/audit-2026-08-07-robustness.md:169 has the wrong "expired" marks fixed: an
\* account whose access token is good is never marked expired.
FreshNotMarkedExpired ==
    [][~Restart =>
         \A e \in data, f \in data' :
             e.id = f.id /\ e.status = "online" /\ age[e.id] = "fresh"
                 => f.status = "online"]_storeVars
=============================================================================
