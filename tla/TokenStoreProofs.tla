-------------------------- MODULE TokenStoreProofs --------------------------
(***************************************************************************)
(* Theorems about TokenStore, for any users, goroutines and settings.      *)
(*                                                                         *)
(* The invariant has three parts.  Every list the store builds, in memory  *)
(* or on disk, is a GoodList; the disk is current unless a save failed;    *)
(* and s.inflight and the goroutines agree (FlightInv), which is           *)
(* SingleFlight together with its converse: whoever is named in s.inflight *)
(* refreshes the very account it is named for.                             *)
(*                                                                         *)
(* The second half is about refresh tokens, which the identity provider    *)
(* accepts once.  A token is held by a list, by a goroutine's copy or by a *)
(* reply still to be stored; TokensInv says that none of these names a     *)
(* token that was not issued, that a token belongs to one account          *)
(* wherever it is held, and that a reply's token is accepted and held      *)
(* nowhere else, which keeps it from being redeemed before it is stored.   *)
(*                                                                         *)
(* The last part is the refinement of AccountBook.                         *)
(***************************************************************************)
EXTENDS TokenStore, TLAPS

\* A list of accounts of known users, no user twice.
GoodList(d) ==
    /\ d \subseteq Entry
    /\ \A e \in d : \E u \in Identity : e.id = u.id /\ e.email = u.email
    /\ \A e, f \in d : e.id = f.id => e = f

\* Where the accounts are kept.
BookInv ==
    /\ GoodList(data) /\ GoodList(disk)
    /\ saved \in BOOLEAN /\ faults \in 0 .. MaxFault
    /\ DiskIsCurrent

\* The types of everything else.
RestTyped ==
    /\ age \in [Id -> Age]
    /\ inflight \in [Id -> Proc \cup {None}]
    /\ pc \in [Proc -> Place]
    /\ snap \in [Proc -> Copy]
    /\ reply \in [Proc -> Token \cup {Failed}]
    /\ ok \in [Proc -> BOOLEAN]
    /\ live \subseteq Token \ {0}
    /\ issued \in Token
    /\ crashed \in BOOLEAN

\* s.inflight and the goroutines agree.
FlightInv ==
    /\ \A p \in Proc : pc[p] \in Leading => inflight[snap[p].id] = p
    /\ \A i \in Id : inflight[i] # None =>
                        pc[inflight[i]] \in Leading /\ snap[inflight[i]].id = i
    /\ \A p \in Proc : pc[p] = "wait" => /\ inflight[snap[p].id] # None
                                         /\ pc[inflight[snap[p].id]] # "leave"

StoreInv == BookInv /\ RestTyped /\ FlightInv
-----------------------------------------------------------------------------
\* A loop over matching entries stops at one of them.
LEMMA FirstIn == ASSUME NEW S, S # {} PROVE First(S) \in S
BY DEF First

\* Every id has an owner.
LEMMA OwnerKnown ==
    ASSUME NEW id \in Id
    PROVE  Owner(id) \in Identity /\ Owner(id).id = id
BY DEF Owner, Id

\* The copy of a goroutine that holds none is a copy.
LEMMA BlankTyped == Blank \in Copy
<1>1. PICK u \in Identity : u = CHOOSE v \in Identity : TRUE
  BY StoreAssumption
<1>2. Blank = [id |-> u.id, rt |-> 0]
  BY <1>1 DEF Blank
<1>. QED
  BY <1>2, StoreAssumption DEF Copy, Token, Id

\* What Upsert builds is an entry.
LEMMA AccountTyped ==
    ASSUME NEW u \in Identity, NEW rt \in Token
    PROVE  /\ Account(u, rt) \in Entry
           /\ Account(u, rt).id = u.id /\ Account(u, rt).email = u.email
           /\ Account(u, rt).rt = rt
BY StoreAssumption DEF Account, Entry, Id, Email

\* What Upsert keeps of an old entry makes an entry with the old settings.
LEMMA MergeTyped ==
    ASSUME NEW old \in Entry, NEW acc \in Entry
    PROVE  /\ Merge(old, acc) \in Entry
           /\ Merge(old, acc).id = acc.id /\ Merge(old, acc).email = acc.email
           /\ Merge(old, acc).settings = old.settings
BY DEF Merge, Entry

\* An entry may be rewritten to another one of the same user.
LEMMA RewriteGood ==
    ASSUME NEW d, GoodList(d), NEW e \in d, NEW f \in Entry,
           f.id = e.id, f.email = e.email
    PROVE  GoodList(Rewrite(d, e, f))
BY DEF GoodList, Rewrite

\* The entry Upsert finds for a user belongs to that user.
LEMMA HitIsOwn ==
    ASSUME NEW d, GoodList(d), NEW u \in Identity, NEW rt \in Token,
           NEW e \in Hits(d, Account(u, rt))
    PROVE  e \in d /\ e.id = u.id /\ e.email = u.email
<1>1. e \in d /\ (e.id = u.id \/ e.email = u.email)
  BY AccountTyped DEF Hits
<1>2. PICK v \in Identity : e.id = v.id /\ e.email = v.email
  BY <1>1 DEF GoodList
<1>. QED
  BY <1>1, <1>2, StoreAssumption

\* Upsert returns an entry of the user it was called for.
LEMMA StoredTyped ==
    ASSUME NEW d, GoodList(d), NEW u \in Identity, NEW rt \in Token
    PROVE  Stored(d, Account(u, rt)) \in Entry /\ Stored(d, Account(u, rt)).id = u.id
<1>. DEFINE acc == Account(u, rt)
<1>1. CASE Hits(d, acc) = {}
  BY <1>1, AccountTyped DEF Stored
<1>2. CASE Hits(d, acc) # {}
  <2>1. First(Hits(d, acc)) \in Hits(d, acc)
    BY <1>2, FirstIn
  <2>2. First(Hits(d, acc)) \in Entry
    BY <2>1, HitIsOwn DEF GoodList
  <2>. QED
    BY <1>2, <2>2, AccountTyped, MergeTyped DEF Stored
<1>. QED
  BY <1>1, <1>2

\* Upsert keeps the list good.
LEMMA UpsertGood ==
    ASSUME NEW d, GoodList(d), NEW u \in Identity, NEW rt \in Token
    PROVE  GoodList(Upserted(d, Account(u, rt)))
<1>. DEFINE acc == Account(u, rt)
<1>0. acc \in Entry /\ acc.id = u.id /\ acc.email = u.email
  BY AccountTyped
<1>1. CASE Hits(d, acc) = {}
  <2>1. \A e \in d : e.id # acc.id
    BY <1>1 DEF Hits
  <2>. QED
    BY <1>0, <1>1, <2>1 DEF GoodList, Upserted
<1>2. CASE Hits(d, acc) # {}
  <2>1. First(Hits(d, acc)) \in Hits(d, acc)
    BY <1>2, FirstIn
  <2>2. /\ First(Hits(d, acc)) \in d
        /\ First(Hits(d, acc)).id = u.id /\ First(Hits(d, acc)).email = u.email
    BY <2>1, HitIsOwn
  <2>3. /\ Stored(d, acc) \in Entry
        /\ Stored(d, acc).id = u.id /\ Stored(d, acc).email = u.email
    BY <1>0, <1>2, <2>2, MergeTyped DEF Stored, GoodList
  <2>. QED
    BY <1>2, <2>2, <2>3, RewriteGood DEF Upserted
<1>. QED
  BY <1>1, <1>2

\* So do a mark and a deletion.
LEMMA MarkGood ==
    ASSUME NEW d, GoodList(d), NEW id
    PROVE  GoodList(Mark(d, id))
<1>. DEFINE e == First(WithId(d, id))
            f == [e EXCEPT !.status = "expired"]
<1>1. CASE WithId(d, id) = {}
  BY <1>1 DEF Mark
<1>2. CASE WithId(d, id) # {}
  <2>1. e \in d
    BY <1>2, FirstIn DEF WithId
  <2>2. f \in Entry /\ f.id = e.id /\ f.email = e.email
    BY <2>1 DEF GoodList, Entry
  <2>3. GoodList(Rewrite(d, e, f))
    BY <2>1, <2>2, RewriteGood
  <2>. QED
    BY <1>2, <2>3 DEF Mark
<1>. QED
  BY <1>1, <1>2

LEMMA SubsetGood ==
    ASSUME NEW d, GoodList(d), NEW c \in SUBSET d
    PROVE  GoodList(c)
BY DEF GoodList

\* A save of a good list keeps the invariant of the two copies, also when it
\* fails.
LEMMA SaveStep ==
    ASSUME BookInv, NEW d, GoodList(d), NEW done \in BOOLEAN, Save(d, done)
    PROVE  BookInv'
<1>1. faults' \in 0 .. MaxFault
  BY StoreAssumption DEF Save, BookInv
<1>2. GoodList(data') /\ GoodList(disk') /\ saved' \in BOOLEAN
  BY DEF Save, BookInv
<1>3. saved' => disk' = data'
  BY DEF Save
<1>. QED
  BY <1>1, <1>2, <1>3 DEF BookInv, DiskIsCurrent, GoodList

\* Rewriting one field of the entry of an account keeps the list good.
LEMMA SettingGood ==
    ASSUME NEW d, GoodList(d), NEW e \in d, NEW v \in Setting
    PROVE  GoodList(Rewrite(d, e, [e EXCEPT !.settings = v]))
<1>1. /\ [e EXCEPT !.settings = v] \in Entry
      /\ [e EXCEPT !.settings = v].id = e.id /\ [e EXCEPT !.settings = v].email = e.email
  BY DEF GoodList, Entry
<1>. QED
  BY <1>1, RewriteGood

LEMMA TokenGood ==
    ASSUME NEW d, GoodList(d), NEW e \in d, NEW rt \in Token
    PROVE  GoodList(Rewrite(d, e, [e EXCEPT !.rt = rt]))
<1>1. /\ [e EXCEPT !.rt = rt] \in Entry
      /\ [e EXCEPT !.rt = rt].id = e.id /\ [e EXCEPT !.rt = rt].email = e.email
  BY DEF GoodList, Entry
<1>. QED
  BY <1>1, RewriteGood

\* The three requests of the administrator leave good lists.
LEMMA AdminBooks == BookInv /\ RestTyped /\ Admin => BookInv'
<1>. SUFFICES ASSUME BookInv, RestTyped, Admin PROVE BookInv'
  OBVIOUS
<1>0. GoodList(data)
  BY DEF BookInv
<1>1. ASSUME NEW u \in Identity, NEW a \in Age, NEW withToken \in BOOLEAN,
             NEW done \in BOOLEAN, SignIn(u, a, withToken, done)
      PROVE  BookInv'
  <2>. DEFINE rt == IF withToken THEN issued + 1 ELSE 0
  <2>1. rt \in Token
    BY <1>1, StoreAssumption DEF SignIn, RestTyped, Token
  <2>2. GoodList(Upserted(data, Account(u, rt)))
    BY <1>0, <2>1, UpsertGood
  <2>3. Save(Upserted(data, Account(u, rt)), done)
    BY <1>1 DEF SignIn
  <2>. QED
    BY <2>2, <2>3, SaveStep
<1>2. ASSUME NEW id \in Id, NEW done \in BOOLEAN, Delete(id, done)
      PROVE  BookInv'
  <2>1. GoodList({e \in data : e.id # id})
    BY <1>0, SubsetGood
  <2>. QED
    BY <1>2, <2>1, SaveStep DEF Delete
<1>3. ASSUME NEW id \in Id, NEW v \in Setting, NEW done \in BOOLEAN,
             SetSetting(id, v, done)
      PROVE  BookInv'
  <2>. DEFINE e == First(WithId(data, id))
  <2>1. e \in data
    BY <1>3, FirstIn DEF SetSetting, WithId
  <2>2. GoodList(Rewrite(data, e, [e EXCEPT !.settings = v]))
    BY <1>0, <2>1, SettingGood
  <2>3. Save(Rewrite(data, e, [e EXCEPT !.settings = v]), done)
    BY <1>3 DEF SetSetting
  <2>. QED
    BY <2>2, <2>3, SaveStep
<1>. QED
  BY <1>1, <1>2, <1>3 DEF Admin

\* So do the goroutines.
LEMMA HandlerBooks ==
    ASSUME BookInv, RestTyped, NEW p \in Proc, Handler(p)
    PROVE  BookInv'
<1>0. GoodList(data) /\ snap[p].id \in Id
  BY DEF BookInv, RestTyped, Copy
<1>1. ASSUME UNCHANGED bookVars PROVE BookInv'
  BY <1>1 DEF BookInv, bookVars, GoodList, DiskIsCurrent
<1>2. ASSUME NEW name \in Id \cup Email, NEW done \in BOOLEAN,
             LookHopeless(p, name, done)
      PROVE  BookInv'
  <2>1. PICK id : Save(Mark(data, id), done)
    BY <1>2 DEF LookHopeless
  <2>2. GoodList(Mark(data, id))
    BY <1>0, MarkGood
  <2>. QED
    BY <2>1, <2>2, SaveStep
<1>3. ASSUME NEW done \in BOOLEAN, SettleError(p, done) PROVE BookInv'
  <2>1. GoodList(Mark(data, snap[p].id))
    BY <1>0, MarkGood
  <2>. QED
    BY <1>1, <1>3, <2>1, SaveStep DEF SettleError
<1>4. ASSUME NEW done \in BOOLEAN, SettleToken(p, done) PROVE BookInv'
  <2>1. reply[p] \in Token
    BY <1>4 DEF SettleToken, RestTyped
  <2>2. GoodList(Upserted(data, Account(Owner(snap[p].id), reply[p])))
    BY <1>0, <2>1, OwnerKnown, UpsertGood
  <2>. QED
    BY <1>4, <2>2, SaveStep DEF SettleToken
<1>5. ASSUME NEW done \in BOOLEAN, StoreRotated(p, done) PROVE BookInv'
  <2>. DEFINE e == First(WithId(data, snap[p].id))
  <2>1. CASE reply[p] \in {0, Failed} \/ WithId(data, snap[p].id) = {}
    BY <1>1, <1>5, <2>1 DEF StoreRotated
  <2>2. CASE ~(reply[p] \in {0, Failed} \/ WithId(data, snap[p].id) = {})
    <3>1. e \in data /\ reply[p] \in Token
      BY <2>2, FirstIn DEF WithId, RestTyped
    <3>2. GoodList(Rewrite(data, e, [e EXCEPT !.rt = reply[p]]))
      BY <1>0, <3>1, TokenGood
    <3>3. Save(Rewrite(data, e, [e EXCEPT !.rt = reply[p]]), done)
      BY <1>5, <2>2 DEF StoreRotated
    <3>. QED
      BY <3>2, <3>3, SaveStep
  <2>. QED
    BY <2>1, <2>2
<1>6. CASE \E done \in BOOLEAN : Step(p, done)
  BY <1>1, <1>3, <1>4, <1>5, <1>6 DEF Step, Lead, Join, Close, Leave
<1>7. CASE \E name \in Id \cup Email : LookFresh(p, name) \/ LookDue(p, name)
  BY <1>1, <1>7 DEF LookFresh, LookDue
<1>8. CASE Redeem(p) \/ Finish(p) \/ Designer(p)
  BY <1>1, <1>8 DEF Redeem, Finish, Designer
<1>. QED
  BY <1>2, <1>6, <1>7, <1>8 DEF Handler

\* Every step leaves good lists, and the disk current unless a save failed.
LEMMA BooksStep == BookInv /\ RestTyped /\ [StoreNext]_storeVars => BookInv'
<1>. SUFFICES ASSUME BookInv, RestTyped, [StoreNext]_storeVars PROVE BookInv'
  OBVIOUS
<1>1. ASSUME UNCHANGED bookVars PROVE BookInv'
  BY <1>1 DEF BookInv, bookVars, GoodList, DiskIsCurrent
<1>2. CASE Restart
  <2>1. GoodList(data') /\ GoodList(disk') /\ saved' \in BOOLEAN /\ disk' = data'
    BY <1>2 DEF Restart, BookInv
  <2>2. faults' \in 0 .. MaxFault
    BY <1>2, StoreAssumption DEF Restart, BookInv
  <2>. QED
    BY <2>1, <2>2 DEF BookInv, DiskIsCurrent, GoodList
<1>3. CASE \E id \in Id : Tick(id)
  BY <1>1, <1>3 DEF Tick
<1>4. CASE UNCHANGED storeVars
  BY <1>1, <1>4 DEF storeVars
<1>. QED
  BY <1>2, <1>3, <1>4, AdminBooks, HandlerBooks DEF StoreNext
-----------------------------------------------------------------------------
\* The answer of the identity provider is typed.
LEMMA ExchangeTyped ==
    ASSUME RestTyped, NEW p \in Proc, NEW rt \in Token, Exchange(p, rt)
    PROVE  /\ reply' \in [Proc -> Token \cup {Failed}]
           /\ live' \subseteq Token \ {0} /\ issued' \in Token
<1>. USE StoreAssumption DEF RestTyped, Token
<1>1. CASE reply' = [reply EXCEPT ![p] = Failed] /\ UNCHANGED <<live, issued>>
  BY <1>1
<1>2. CASE reply' = [reply EXCEPT ![p] = 0] /\ UNCHANGED <<live, issued>>
  BY <1>2
<1>3. CASE /\ issued < MaxToken /\ issued' = issued + 1
           /\ reply' = [reply EXCEPT ![p] = issued + 1]
           /\ \E gone \in {{}, {rt}} : live' = (live \ gone) \cup {issued + 1}
  BY <1>3
<1>. QED
  BY <1>1, <1>2, <1>3 DEF Exchange

\* The requests of the administrator keep the types.
LEMMA AdminTyped == RestTyped /\ Admin => RestTyped'
<1>. SUFFICES ASSUME RestTyped, Admin PROVE RestTyped'
  OBVIOUS
<1>1. ASSUME NEW u \in Identity, NEW a \in Age, NEW withToken \in BOOLEAN,
             NEW done \in BOOLEAN, SignIn(u, a, withToken, done)
      PROVE  RestTyped'
  <2>1. issued' \in Token /\ live' \subseteq Token \ {0} /\ age' \in [Id -> Age]
    BY <1>1, StoreAssumption DEF SignIn, RestTyped, Token, Id
  <2>. QED
    BY <1>1, <2>1 DEF SignIn, RestTyped, procVars
<1>2. ASSUME NEW id \in Id, NEW done \in BOOLEAN, Delete(id, done)
      PROVE  RestTyped'
  BY <1>2 DEF Delete, RestTyped, procVars, worldVars
<1>3. ASSUME NEW id \in Id, NEW v \in Setting, NEW done \in BOOLEAN,
             SetSetting(id, v, done)
      PROVE  RestTyped'
  BY <1>3 DEF SetSetting, Touch, Age, RestTyped, procVars, worldVars
<1>. QED
  BY <1>1, <1>2, <1>3 DEF Admin

\* A lookup yields the copy of an account.
LEMMA NamedTyped ==
    ASSUME GoodList(data), NEW name, Named(data, name) # {}
    PROVE  CopyOf(First(Named(data, name))) \in Copy
BY FirstIn DEF Named, GoodList, CopyOf, Copy, Entry

\* The steps of a goroutine keep the types.
LEMMA HandlerTyped ==
    ASSUME BookInv, RestTyped, NEW p \in Proc, Handler(p)
    PROVE  RestTyped'
<1>0. GoodList(data) /\ Blank \in Copy /\ snap[p] \in Copy
  BY BlankTyped DEF BookInv, RestTyped
<1>. USE DEF Goto, Place, worldVars, procVars
<1>1. ASSUME NEW name \in Id \cup Email, LookFresh(p, name) \/ LookDue(p, name)
      PROVE  RestTyped'
  BY <1>0, <1>1, NamedTyped DEF LookFresh, LookDue, RestTyped
<1>2. ASSUME NEW name \in Id \cup Email, NEW done \in BOOLEAN,
             LookHopeless(p, name, done)
      PROVE  RestTyped'
  BY <1>2 DEF LookHopeless, RestTyped
<1>3. CASE Lead(p)
  BY <1>3 DEF Lead, RestTyped
<1>4. CASE Join(p)
  <2>. DEFINE l == inflight[snap[p].id]
  <2>1. l \in Proc
    BY <1>0, <1>4 DEF Join, RestTyped, Copy
  <2>2. CASE Goto(p, "wait") /\ UNCHANGED snap
    BY <1>4, <2>2 DEF Join, RestTyped
  <2>3. CASE Answer({p}, l)
    <3>1. pc' \in [Proc -> Place] /\ snap' \in [Proc -> Copy]
      BY <1>0, <2>1, <2>3 DEF Answer, RestTyped
    <3>. QED
      BY <1>4, <3>1 DEF Join, RestTyped
  <2>. QED
    BY <1>4, <2>2, <2>3 DEF Join
<1>5. CASE Redeem(p)
  <2>1. /\ reply' \in [Proc -> Token \cup {Failed}]
        /\ live' \subseteq Token \ {0} /\ issued' \in Token
    BY <1>0, <1>5, ExchangeTyped DEF Redeem, Copy
  <2>. QED
    BY <1>5, <2>1 DEF Redeem, RestTyped
<1>6. ASSUME NEW done \in BOOLEAN, SettleError(p, done) PROVE RestTyped'
  BY <1>6 DEF SettleError, RestTyped
<1>7. ASSUME NEW done \in BOOLEAN, SettleToken(p, done) PROVE RestTyped'
  <2>. DEFINE acc == Account(Owner(snap[p].id), reply[p])
  <2>1. reply[p] \in Token /\ Owner(snap[p].id) \in Identity /\ acc.id \in Id
    BY <1>0, <1>7, OwnerKnown, AccountTyped DEF SettleToken, RestTyped, Copy, Id
  <2>2. CopyOf(Stored(data, acc)) \in Copy
    BY <1>0, <2>1, StoredTyped DEF CopyOf, Copy, Entry
  <2>. QED
    BY <1>7, <2>1, <2>2 DEF SettleToken, RestTyped, Age
<1>8. CASE Close(p)
  BY <1>0, <1>8 DEF Close, RestTyped
<1>9. CASE Leave(p)
  BY <1>0, <1>9 DEF Leave, Answer, RestTyped, Copy
<1>10. CASE Finish(p)
  BY <1>0, <1>10 DEF Finish, RestTyped
<1>11. CASE Designer(p)
  <2>1. /\ reply' \in [Proc -> Token \cup {Failed}]
        /\ live' \subseteq Token \ {0} /\ issued' \in Token
    BY <1>0, <1>11, ExchangeTyped DEF Designer, Copy
  <2>. QED
    BY <1>11, <2>1 DEF Designer, RestTyped
<1>12. ASSUME NEW done \in BOOLEAN, StoreRotated(p, done) PROVE RestTyped'
  <2>1. age' \in [Id -> Age]
    BY <1>0, <1>12 DEF StoreRotated, Touch, RestTyped, Age, Copy
  <2>. QED
    BY <1>0, <1>12, <2>1 DEF StoreRotated, RestTyped
<1>. QED
  BY <1>1, <1>2, <1>3, <1>4, <1>5, <1>6, <1>7, <1>8, <1>9, <1>10, <1>11, <1>12
     DEF Handler, Step

\* Every step keeps the types.
LEMMA TypesStep == BookInv /\ RestTyped /\ [StoreNext]_storeVars => RestTyped'
<1>. SUFFICES ASSUME BookInv, RestTyped, [StoreNext]_storeVars PROVE RestTyped'
  OBVIOUS
<1>1. CASE Restart
  BY <1>1, BlankTyped DEF Restart, RestTyped, Place
<1>2. CASE \E id \in Id : Tick(id)
  BY <1>2 DEF Tick, RestTyped, Age, procVars, worldVars
<1>3. CASE UNCHANGED storeVars
  BY <1>3 DEF storeVars, RestTyped, procVars, worldVars
<1>. QED
  BY <1>1, <1>2, <1>3, AdminTyped, HandlerTyped DEF StoreNext
-----------------------------------------------------------------------------
\* A step that leaves s.inflight and the goroutines alone keeps FlightInv.
LEMMA FlightUntouched ==
    ASSUME FlightInv, UNCHANGED <<inflight, pc, snap>> PROVE FlightInv'
BY DEF FlightInv

\* A goroutine that is no leader and does not become one may move and change its
\* copy, unless it starts to wait.
LEMMA BystanderMoves ==
    ASSUME RestTyped, FlightInv, NEW p \in Proc, NEW s \in Place \ Leading, s # "wait",
           pc[p] \notin Leading, pc' = [pc EXCEPT ![p] = s],
           \A q \in Proc \ {p} : snap'[q] = snap[q], UNCHANGED inflight
    PROVE  FlightInv'
<1>1. \A i \in Id : inflight[i] # p
  BY StoreAssumption DEF FlightInv
<1>2. \A q \in Proc \ {p} : snap[q].id \in Id
  BY DEF RestTyped, Copy
<1>. QED
  BY <1>1, <1>2 DEF FlightInv, RestTyped, Leading

\* A leader may go on to a later place of the refresh, short of its end.
LEMMA LeaderMoves ==
    ASSUME RestTyped, FlightInv, NEW p \in Proc, NEW s \in {"settle", "close"},
           pc[p] \in Leading, pc' = [pc EXCEPT ![p] = s],
           \A q \in Proc : snap'[q].id = snap[q].id, UNCHANGED inflight
    PROVE  FlightInv'
BY DEF FlightInv, RestTyped, Leading

\* Every step keeps s.inflight and the goroutines in agreement.
LEMMA HandlerFlight ==
    ASSUME BookInv, RestTyped, FlightInv, NEW p \in Proc, Handler(p)
    PROVE  FlightInv'
<1>0. /\ snap[p].id \in Id /\ None \notin Proc
      /\ \A q \in Proc : snap[q].id \in Id /\ inflight[snap[q].id] \in Proc \cup {None}
  BY StoreAssumption DEF RestTyped, Copy
<1>1. ASSUME NEW name \in Id \cup Email, LookFresh(p, name) \/ LookDue(p, name)
      PROVE  FlightInv'
  BY <1>1, BystanderMoves DEF LookFresh, LookDue, Goto, Place, Leading, RestTyped
<1>2. ASSUME NEW name \in Id \cup Email, NEW done \in BOOLEAN,
             LookHopeless(p, name, done)
      PROVE  FlightInv'
  BY <1>2, FlightUntouched DEF LookHopeless, procVars
<1>3. CASE Lead(p)
  BY <1>0, <1>3 DEF Lead, Goto, FlightInv, RestTyped, Leading
<1>4. CASE Join(p)
  <2>. DEFINE l == inflight[snap[p].id]
  <2>1. CASE pc[l] # "leave" /\ Goto(p, "wait") /\ UNCHANGED snap
    BY <1>0, <1>4, <2>1 DEF Join, Goto, FlightInv, RestTyped, Leading
  <2>2. CASE pc[l] = "leave" /\ Answer({p}, l)
    <3>1. PICK s \in {"have", "idle"} : pc' = [pc EXCEPT ![p] = s]
      BY <2>2 DEF Answer, RestTyped
    <3>2. \A q \in Proc \ {p} : snap'[q] = snap[q]
      BY <2>2 DEF Answer
    <3>. QED
      BY <1>4, <3>1, <3>2, BystanderMoves DEF Join, Leading, Place
  <2>. QED
    BY <1>4, <2>1, <2>2 DEF Join
<1>5. CASE Redeem(p)
  BY <1>5, LeaderMoves DEF Redeem, Goto, Leading
<1>6. ASSUME NEW done \in BOOLEAN, SettleError(p, done) PROVE FlightInv'
  BY <1>6, LeaderMoves DEF SettleError, Goto, Leading
<1>7. ASSUME NEW done \in BOOLEAN, SettleToken(p, done) PROVE FlightInv'
  <2>. DEFINE acc == Account(Owner(snap[p].id), reply[p])
  <2>1. reply[p] \in Token /\ Owner(snap[p].id) \in Identity
    BY <1>0, <1>7, OwnerKnown DEF SettleToken, RestTyped
  <2>2. CopyOf(Stored(data, acc)).id = snap[p].id
    BY <1>0, <2>1, OwnerKnown, StoredTyped DEF CopyOf, BookInv
  <2>3. \A q \in Proc : snap'[q].id = snap[q].id
    BY <1>7, <2>2 DEF SettleToken, RestTyped
  <2>. QED
    BY <1>7, <2>3, LeaderMoves DEF SettleToken, Goto, Leading
<1>8. CASE Close(p)
  <2>1. inflight[snap[p].id] = p
    BY <1>8 DEF Close, FlightInv, Leading
  <2>2. \A q \in Proc : pc[q] \in Leading => q \notin Waiters(p)
    BY DEF Waiters, Leading
  <2>3. \A q \in Proc : pc'[q] \in Leading <=> pc[q] \in Leading
    BY <1>8, <2>2 DEF Close, Leading, RestTyped
  <2>4. \A q \in Proc : pc[q] \in Leading => snap'[q] = snap[q]
    BY <1>8, <2>2 DEF Close
  <2>5. ASSUME NEW q \in Proc, pc'[q] = "wait"
        PROVE  inflight[snap'[q].id] # None /\ pc'[inflight[snap'[q].id]] # "leave"
    <3>1. pc[q] = "wait" /\ q \notin Waiters(p) /\ snap'[q] = snap[q]
      BY <1>8, <2>5 DEF Close
    <3>2. inflight[snap[q].id] # None /\ pc[inflight[snap[q].id]] # "leave"
      BY <3>1 DEF FlightInv
    <3>3. inflight[snap[q].id] # p
      BY <1>0, <3>1, <3>2 DEF FlightInv, Waiters
    <3>4. pc'[inflight[snap[q].id]] # "leave"
      BY <1>0, <1>8, <3>2, <3>3 DEF Close
    <3>. QED
      BY <3>1, <3>2, <3>4
  <2>6. UNCHANGED inflight
    BY <1>8 DEF Close
  <2>. QED
    BY <1>0, <2>3, <2>4, <2>5, <2>6 DEF FlightInv, RestTyped
<1>9. CASE Leave(p)
  <2>1. inflight[snap[p].id] = p /\ pc[p] = "leave"
    BY <1>9 DEF Leave, FlightInv, Leading
  <2>2. \A q \in Proc \ {p} : pc'[q] = pc[q] /\ snap'[q] = snap[q]
    BY <1>9 DEF Leave, Answer
  <2>3. pc'[p] \notin Leading \cup {"wait"}
    BY <1>9 DEF Leave, Answer, Leading
  <2>4. inflight' = [inflight EXCEPT ![snap[p].id] = None]
    BY <1>9 DEF Leave
  <2>5. \A q \in Proc \ {p} : pc[q] \in Leading \cup {"wait"}
                                 => snap[q].id # snap[p].id
    BY <2>1 DEF FlightInv, Leading
  <2>6. \A i \in Id : i # snap[p].id => inflight[i] # p
    BY <1>0 DEF FlightInv
  <2>. QED
    BY <1>0, <2>1, <2>2, <2>3, <2>4, <2>5, <2>6 DEF FlightInv, RestTyped
<1>10. CASE Finish(p) \/ Designer(p)
  BY <1>10, BystanderMoves DEF Finish, Designer, Goto, Leading, Place, RestTyped
<1>11. ASSUME NEW done \in BOOLEAN, StoreRotated(p, done) PROVE FlightInv'
  BY <1>11, BystanderMoves DEF StoreRotated, Goto, Leading, Place, RestTyped
<1>. QED
  BY <1>1, <1>2, <1>3, <1>4, <1>5, <1>6, <1>7, <1>8, <1>9, <1>10, <1>11
     DEF Handler, Step

LEMMA FlightStep ==
    BookInv /\ RestTyped /\ FlightInv /\ [StoreNext]_storeVars => FlightInv'
<1>. SUFFICES ASSUME BookInv, RestTyped, FlightInv, [StoreNext]_storeVars
              PROVE  FlightInv'
  OBVIOUS
<1>1. CASE Restart
  BY <1>1 DEF Restart, FlightInv, RestTyped, Leading
<1>2. CASE Admin
  BY <1>2, FlightUntouched DEF Admin, SignIn, Delete, SetSetting, procVars
<1>3. CASE \E id \in Id : Tick(id)
  BY <1>3, FlightUntouched DEF Tick, procVars
<1>4. CASE UNCHANGED storeVars
  BY <1>4, FlightUntouched DEF storeVars, procVars
<1>. QED
  BY <1>1, <1>2, <1>3, <1>4, HandlerFlight DEF StoreNext
-----------------------------------------------------------------------------
LEMMA StoreInitInv == StoreInit => StoreInv
<1>. SUFFICES ASSUME StoreInit PROVE StoreInv
  OBVIOUS
<1>1. BookInv
  BY StoreAssumption DEF StoreInit, BookInv, GoodList, DiskIsCurrent
<1>2. RestTyped
  <2>1. 0 \in Token
    BY StoreAssumption DEF Token
  <2>2. live \subseteq Token \ {0} /\ issued \in Token /\ crashed \in BOOLEAN
    BY <2>1 DEF StoreInit
  <2>3. age \in [Id -> Age] /\ pc \in [Proc -> Place]
    BY DEF StoreInit, Age, Place
  <2>4. inflight \in [Id -> Proc \cup {None}] /\ ok \in [Proc -> BOOLEAN]
    BY DEF StoreInit
  <2>5. snap \in [Proc -> Copy] /\ reply \in [Proc -> Token \cup {Failed}]
    BY BlankTyped DEF StoreInit
  <2>. QED
    BY <2>2, <2>3, <2>4, <2>5 DEF RestTyped
<1>3. FlightInv
  BY DEF StoreInit, FlightInv, Leading
<1>. QED
  BY <1>1, <1>2, <1>3 DEF StoreInv

\* The inductive invariant, for every behaviour of the store.
THEOREM StoreInvariant == StoreSpec => []StoreInv
<1>1. StoreInv /\ [StoreNext]_storeVars => StoreInv'
  BY BooksStep, TypesStep, FlightStep DEF StoreInv
<1>. QED
  BY <1>1, StoreInitInv, PTL DEF StoreSpec

\* The store keeps its types, for any users, goroutines and settings.
THEOREM StoreTypeCorrect == StoreSpec => []StoreTypeOK
<1>1. StoreInv => StoreTypeOK
  BY DEF StoreInv, BookInv, GoodList, RestTyped, StoreTypeOK
<1>. QED
  BY <1>1, StoreInvariant, PTL

\* At most one goroutine refreshes an account, and nobody waits for a refresh
\* whose channel is closed (refreshInflight).
THEOREM SingleFlightCorrect == StoreSpec => []SingleFlight
<1>1. StoreInv => SingleFlight
  <2>. SUFFICES ASSUME StoreInv, NEW p \in Proc
                PROVE  /\ pc[p] \in Leading <=> inflight[snap[p].id] = p
                       /\ pc[p] = "wait" => /\ inflight[snap[p].id] # None
                                            /\ pc[inflight[snap[p].id]] # "leave"
    BY DEF SingleFlight
  <2>1. snap[p].id \in Id /\ p # None
    BY StoreAssumption DEF StoreInv, RestTyped, Copy
  <2>. QED
    BY <2>1 DEF StoreInv, FlightInv
<1>. QED
  BY <1>1, StoreInvariant, PTL

\* No account is listed twice, whatever order sign-ins, deletions, late
\* refreshes and restarts come in (Upsert).
THEOREM OneEntryCorrect == StoreSpec => []OneEntryPerAccount
<1>1. StoreInv => OneEntryPerAccount
  BY DEF StoreInv, BookInv, GoodList, OneEntryPerAccount
<1>. QED
  BY <1>1, StoreInvariant, PTL

\* The file differs from the memory only after a save that failed: no operation
\* forgets to save (saveLocked).
THEOREM DiskCorrect == StoreSpec => []DiskIsCurrent
<1>1. StoreInv => DiskIsCurrent
  BY DEF StoreInv, BookInv
<1>. QED
  BY <1>1, StoreInvariant, PTL
-----------------------------------------------------------------------------
\* What list d says of an account's settings is what list c says.
SameSettings(c, d) == \A e \in c, f \in d : e.id = f.id => e.settings = f.settings

\* Rewriting an entry to one of the same account with the same settings.
LEMMA RewriteSettings ==
    ASSUME NEW d, GoodList(d), NEW e \in d, NEW f, f.id = e.id, f.settings = e.settings
    PROVE  SameSettings(d, Rewrite(d, e, f))
BY DEF GoodList, Rewrite, SameSettings

\* Upsert keeps the settings.
LEMMA UpsertSettings ==
    ASSUME NEW d, GoodList(d), NEW u \in Identity, NEW rt \in Token
    PROVE  SameSettings(d, Upserted(d, Account(u, rt)))
<1>. DEFINE acc == Account(u, rt)
<1>0. acc \in Entry /\ acc.id = u.id
  BY AccountTyped
<1>1. CASE Hits(d, acc) = {}
  <2>1. \A e \in d : e.id # acc.id
    BY <1>1 DEF Hits
  <2>. QED
    BY <1>1, <2>1 DEF GoodList, Upserted, SameSettings
<1>2. CASE Hits(d, acc) # {}
  <2>. DEFINE e == First(Hits(d, acc))
  <2>1. e \in d /\ e.id = u.id
    BY <1>2, FirstIn, HitIsOwn
  <2>2. Stored(d, acc).id = e.id /\ Stored(d, acc).settings = e.settings
    BY <1>0, <1>2, <2>1, MergeTyped DEF Stored, GoodList
  <2>. QED
    BY <1>2, <2>1, <2>2, RewriteSettings DEF Upserted
<1>. QED
  BY <1>1, <1>2

\* So does a mark.
LEMMA MarkSettings ==
    ASSUME NEW d, GoodList(d), NEW id
    PROVE  SameSettings(d, Mark(d, id))
<1>. DEFINE e == First(WithId(d, id))
            f == [e EXCEPT !.status = "expired"]
<1>1. CASE WithId(d, id) = {}
  BY <1>1 DEF Mark, GoodList, SameSettings
<1>2. CASE WithId(d, id) # {}
  <2>1. e \in d /\ e \in Entry
    BY <1>2, FirstIn DEF WithId, GoodList
  <2>2. f.id = e.id /\ f.settings = e.settings
    BY <2>1 DEF Entry
  <2>3. SameSettings(d, Rewrite(d, e, f))
    BY <2>1, <2>2, RewriteSettings
  <2>. QED
    BY <1>2, <2>3 DEF Mark
<1>. QED
  BY <1>1, <1>2

\* No step of a goroutine changes the settings of an account that stays listed.
LEMMA HandlerSettings ==
    ASSUME StoreInv, NEW p \in Proc, Handler(p)
    PROVE  SameSettings(data, data')
<1>0. /\ GoodList(data) /\ snap[p].id \in Id
      /\ reply[p] \in Token \cup {Failed}
  BY DEF StoreInv, BookInv, RestTyped, Copy
<1>1. ASSUME UNCHANGED bookVars PROVE SameSettings(data, data')
  BY <1>0, <1>1 DEF bookVars, GoodList, SameSettings
<1>2. ASSUME NEW name \in Id \cup Email, NEW done \in BOOLEAN,
             LookHopeless(p, name, done)
      PROVE  SameSettings(data, data')
  BY <1>0, <1>2, MarkSettings DEF LookHopeless, Save
<1>3. ASSUME NEW done \in BOOLEAN, SettleError(p, done)
      PROVE  SameSettings(data, data')
  BY <1>0, <1>1, <1>3, MarkSettings DEF SettleError, Save
<1>4. ASSUME NEW done \in BOOLEAN, SettleToken(p, done)
      PROVE  SameSettings(data, data')
  <2>1. reply[p] \in Token /\ Owner(snap[p].id) \in Identity
    BY <1>0, <1>4, OwnerKnown DEF SettleToken
  <2>. QED
    BY <1>0, <1>4, <2>1, UpsertSettings DEF SettleToken, Save
<1>5. ASSUME NEW done \in BOOLEAN, StoreRotated(p, done)
      PROVE  SameSettings(data, data')
  <2>. DEFINE e == First(WithId(data, snap[p].id))
              f == [e EXCEPT !.rt = reply[p]]
  <2>1. CASE reply[p] \in {0, Failed} \/ WithId(data, snap[p].id) = {}
    BY <1>1, <1>5, <2>1 DEF StoreRotated
  <2>2. CASE ~(reply[p] \in {0, Failed} \/ WithId(data, snap[p].id) = {})
    <3>1. e \in data /\ e \in Entry
      BY <1>0, <2>2, FirstIn DEF WithId, GoodList
    <3>2. f.id = e.id /\ f.settings = e.settings
      BY <3>1 DEF Entry
    <3>3. data' = Rewrite(data, e, f)
      BY <1>5, <2>2 DEF StoreRotated, Save
    <3>. QED
      BY <1>0, <3>1, <3>2, <3>3, RewriteSettings
  <2>. QED
    BY <2>1, <2>2
<1>6. CASE \E done \in BOOLEAN : Step(p, done)
  BY <1>1, <1>3, <1>4, <1>5, <1>6 DEF Step, Lead, Join, Close, Leave
<1>7. CASE \E name \in Id \cup Email : LookFresh(p, name) \/ LookDue(p, name)
  BY <1>1, <1>7 DEF LookFresh, LookDue
<1>8. CASE Redeem(p) \/ Finish(p) \/ Designer(p)
  BY <1>1, <1>8 DEF Redeem, Finish, Designer
<1>. QED
  BY <1>2, <1>6, <1>7, <1>8 DEF Handler

\* What one step of the store may do to the settings.
LEMMA SettingsStep ==
    ASSUME StoreInv, StoreNext, ~Restart, NEW e \in data, NEW f \in data',
           e.id = f.id, e.settings # f.settings
    PROVE  \E v \in Setting, done \in BOOLEAN : SetSetting(e.id, v, done)
<1>0. GoodList(data) /\ issued \in Token
  BY DEF StoreInv, BookInv, RestTyped
<1>. SUFFICES ASSUME ~SameSettings(data, data')
              PROVE  \E v \in Setting, done \in BOOLEAN : SetSetting(e.id, v, done)
  BY DEF SameSettings
<1>1. CASE \E p \in Proc : Handler(p)
  BY <1>1, HandlerSettings
<1>2. CASE \E id \in Id : Tick(id)
  BY <1>0, <1>2 DEF Tick, bookVars, GoodList, SameSettings
<1>3. ASSUME NEW u \in Identity, NEW a \in Age, NEW withToken \in BOOLEAN,
             NEW done \in BOOLEAN, SignIn(u, a, withToken, done)
      PROVE  FALSE
  <2>. DEFINE rt == IF withToken THEN issued + 1 ELSE 0
  <2>1. rt \in Token /\ data' = Upserted(data, Account(u, rt))
    BY <1>0, <1>3, StoreAssumption DEF SignIn, Save, Token
  <2>. QED
    BY <1>0, <2>1, UpsertSettings
<1>4. ASSUME NEW id \in Id, NEW done \in BOOLEAN, Delete(id, done)
      PROVE  FALSE
  BY <1>0, <1>4 DEF Delete, Save, GoodList, SameSettings
<1>5. ASSUME NEW id \in Id, NEW v \in Setting, NEW done \in BOOLEAN,
             SetSetting(id, v, done)
      PROVE  id = e.id
  <2>. DEFINE g == First(WithId(data, id))
              h == [g EXCEPT !.settings = v]
  <2>1. g \in data /\ g.id = id /\ g \in Entry
    BY <1>0, <1>5, FirstIn DEF SetSetting, WithId, GoodList
  <2>2. data' = Rewrite(data, g, h) /\ h.id = g.id
    BY <1>5, <2>1 DEF SetSetting, Save, Entry
  <2>3. f \in data => e = f
    BY <1>0 DEF GoodList
  <2>. QED
    BY <2>1, <2>2, <2>3 DEF Rewrite
<1>. QED
  BY <1>1, <1>2, <1>3, <1>4, <1>5 DEF StoreNext, Admin

\* Only the administrator's edit changes the settings of an account that stays
\* listed: a refresh that started before it, or a sign-in, keeps them (Upsert).
THEOREM SettingsKeptCorrect == StoreSpec => SettingsKept
<1>1. StoreInv /\ [StoreNext]_storeVars
        => [~Restart =>
              \A e \in data, f \in data' :
                  e.id = f.id /\ e.settings # f.settings
                      => \E v \in Setting, done \in BOOLEAN :
                             SetSetting(e.id, v, done)]_storeVars
  BY SettingsStep
<1>. QED
  BY <1>1, StoreInvariant, PTL DEF StoreSpec, SettingsKept
-----------------------------------------------------------------------------
\* No token is known that has not been issued.
Bounded ==
    /\ \A e \in data \cup disk : e.rt <= issued
    /\ \A p \in Proc : snap[p].rt <= issued
    /\ \A p \in Proc : reply[p] # Failed => reply[p] <= issued

\* A token is one account's.
OneOwner(d) == \A e, f \in d : e.rt = f.rt /\ e.rt # 0 => e.id = f.id

CopiesOwn == \A p \in Proc, e \in data : snap[p].rt = e.rt /\ e.rt # 0 => snap[p].id = e.id

\* A token that is still to be stored is accepted, and nobody else can redeem it.
RepliesNew ==
    \A p \in Proc : reply[p] \notin {0, Failed} =>
        /\ reply[p] \in live
        /\ \A q \in Proc : snap[q].rt # reply[p]
        /\ \A q \in Proc \ {p} : reply[q] # reply[p]
        /\ \A e \in data : e.rt # reply[p]

TokensInv == Bounded /\ OneOwner(data) /\ OneOwner(disk) /\ CopiesOwn /\ RepliesNew /\ TokenNotLost

\* List d is list c but for a token of one account, which is new there.
Brings(c, d, id, t) ==
    \A f \in d : IF f.id = id /\ t # 0 THEN f.rt = t
                 ELSE f.rt = 0 \/ \E e \in c : e.id = f.id /\ e.rt = f.rt

\* A list that brings nothing keeps every token where it is.
LEMMA SameBrings ==
    ASSUME NEW c, NEW d, NEW id, \A f \in d : \E e \in c : e.id = f.id /\ e.rt = f.rt
    PROVE  Brings(c, d, id, 0)
BY DEF Brings

\* So does a mark.
LEMMA MarkBrings ==
    ASSUME NEW d, GoodList(d), NEW id, NEW other
    PROVE  Brings(d, Mark(d, id), other, 0)
<1>. DEFINE e == First(WithId(d, id))
            f == [e EXCEPT !.status = "expired"]
<1>1. CASE WithId(d, id) = {}
  BY <1>1, SameBrings DEF Mark
<1>2. CASE WithId(d, id) # {}
  <2>1. e \in d /\ e \in Entry
    BY <1>2, FirstIn DEF WithId, GoodList
  <2>2. f.id = e.id /\ f.rt = e.rt
    BY <2>1 DEF Entry
  <2>3. Mark(d, id) = (d \ {e}) \cup {f}
    BY <1>2 DEF Mark, Rewrite
  <2>. HIDE DEF e, f
  <2>4. \A g \in Mark(d, id) : \E h \in d : h.id = g.id /\ h.rt = g.rt
    BY <2>1, <2>2, <2>3
  <2>. QED
    BY <2>4, SameBrings
<1>. QED
  BY <1>1, <1>2

\* A sign-in and a refresh bring one token, or none.
LEMMA UpsertBrings ==
    ASSUME NEW d, GoodList(d), NEW u \in Identity, NEW rt \in Token
    PROVE  /\ Brings(d, Upserted(d, Account(u, rt)), u.id, rt)
           /\ Stored(d, Account(u, rt)).id = u.id
           /\ Stored(d, Account(u, rt)) \in Upserted(d, Account(u, rt))
<1>. DEFINE acc == Account(u, rt)
            stored == Stored(d, acc)
<1>0. acc \in Entry /\ acc.id = u.id /\ acc.rt = rt
  BY AccountTyped
<1>1. CASE Hits(d, acc) = {}
  <2>1. Upserted(d, acc) = d \cup {acc} /\ stored = acc
    BY <1>1 DEF Upserted, Stored
  <2>2. \A e \in d : e.id # u.id
    BY <1>0, <1>1 DEF Hits
  <2>. HIDE DEF acc, stored
  <2>3. Brings(d, d \cup {acc}, u.id, rt)
    BY <1>0, <2>2 DEF Brings
  <2>. QED
    BY <1>0, <2>1, <2>3 DEF acc, stored
<1>2. CASE Hits(d, acc) # {}
  <2>. DEFINE e == First(Hits(d, acc))
  <2>1. e \in d /\ e \in Entry /\ e.id = u.id
    BY <1>2, FirstIn, HitIsOwn DEF GoodList
  <2>2. stored.id = u.id /\ stored.rt = IF rt = 0 THEN e.rt ELSE rt
    BY <1>0, <1>2, <2>1 DEF Stored, Merge, Entry
  <2>3. Upserted(d, acc) = (d \ {e}) \cup {stored}
    BY <1>2 DEF Upserted, Rewrite
  <2>4. \A f \in d \ {e} : f.id # u.id
    BY <2>1 DEF GoodList
  <2>. HIDE DEF acc, stored, e
  <2>5. Brings(d, (d \ {e}) \cup {stored}, u.id, rt)
    BY <2>1, <2>2, <2>4 DEF Brings
  <2>. QED
    BY <2>2, <2>3, <2>5 DEF acc, stored
<1>. QED
  BY <1>1, <1>2

\* So does the token an image handler writes back.
LEMMA RewriteBrings ==
    ASSUME NEW d, GoodList(d), NEW e \in d, NEW rt \in Token \ {0}
    PROVE  Brings(d, Rewrite(d, e, [e EXCEPT !.rt = rt]), e.id, rt)
<1>. DEFINE f == [e EXCEPT !.rt = rt]
<1>1. f.id = e.id /\ f.rt = rt
  BY DEF GoodList, Entry
<1>2. \A g \in d \ {e} : g.id # e.id
  BY DEF GoodList
<1>. HIDE DEF f
<1>3. Brings(d, (d \ {e}) \cup {f}, e.id, rt)
  BY <1>1, <1>2 DEF Brings
<1>. QED
  BY <1>3 DEF Rewrite, f
-----------------------------------------------------------------------------
\* A copy has the id and the token of its entry.
LEMMA CopyIs == \A e : CopyOf(e).id = e.id /\ CopyOf(e).rt = e.rt
BY DEF CopyOf

\* Tokens are numbers.
LEMMA TokenNumbers ==
    ASSUME BookInv, RestTyped
    PROVE  /\ issued \in Nat
           /\ \A e \in data \cup disk : e.rt \in Nat
           /\ \A p \in Proc : snap[p].rt \in Nat /\ (reply[p] # Failed => reply[p] \in Nat)
BY StoreAssumption DEF BookInv, RestTyped, GoodList, Entry, Copy, Token

\* A list that changes by a new token, or by none, with the goroutines where they are.
LEMMA BooksMove ==
    ASSUME BookInv, RestTyped, TokensInv, BookInv', RestTyped',
           NEW id, NEW t \in {0, issued + 1}, Brings(data, data', id, t),
           disk' \in {disk, data'}, issued' = IF t = 0 THEN issued ELSE t,
           live' = IF t = 0 THEN live ELSE live \cup {t},
           UNCHANGED <<procVars, crashed>>
    PROVE  TokensInv'
<1>. USE DEF TokensInv
<1>0. /\ issued \in Nat /\ t \in Nat /\ issued <= issued' /\ issued' \in Nat
      /\ \A e \in data \cup disk : e.rt \in Nat /\ e.rt <= issued
      /\ \A p \in Proc : snap[p].rt \in Nat /\ snap[p].rt <= issued
      /\ \A p \in Proc : reply[p] # Failed => reply[p] \in Nat /\ reply[p] <= issued
      /\ UNCHANGED <<inflight, pc, snap, reply, ok, crashed>> /\ live \subseteq live'
  BY TokenNumbers DEF Bounded, procVars
\* Where the entries of the new list have their tokens from.
<1>1. ASSUME NEW f \in data'
      PROVE  \/ f.id = id /\ f.rt = t /\ t = issued + 1 /\ t \in live'
             \/ f.rt = 0
             \/ \E e \in data : e.id = f.id /\ e.rt = f.rt
  BY <1>1 DEF Brings
<1>2. Bounded'
  <2>1. \A f \in data' : f.rt <= issued'
    BY <1>0, <1>1
  <2>2. \A f \in disk : f.rt <= issued'
    BY <1>0
  <2>3. \A p \in Proc : snap'[p].rt <= issued' /\ (reply'[p] # Failed => reply'[p] <= issued')
    BY <1>0
  <2>. QED
    BY <2>1, <2>2, <2>3 DEF Bounded
<1>3. OneOwner(data)'
  BY <1>0, <1>1 DEF OneOwner
<1>4. OneOwner(disk)'
  BY <1>3 DEF OneOwner
<1>5. CopiesOwn'
  BY <1>0, <1>1 DEF CopiesOwn
<1>6. RepliesNew'
  BY <1>0, <1>1 DEF RepliesNew
<1>7. TokenNotLost'
  BY <1>0, <1>1 DEF TokenNotLost, Pending
<1>. QED
  BY <1>2, <1>3, <1>4, <1>5, <1>6, <1>7

\* Goroutines that hold no new token move, with copies there are already.
LEMMA CopiesMove ==
    ASSUME BookInv, RestTyped, TokensInv, RestTyped',
           \A q \in Proc : \/ snap'[q].rt = 0
                           \/ \E r \in Proc : snap'[q] = snap[r]
                           \/ \E e \in data : snap'[q] = CopyOf(e),
           \A q \in Proc : pc[q] \in {"settle", "store"} => pc'[q] = pc[q] /\ snap'[q] = snap[q],
           UNCHANGED <<data, disk, reply, live, issued, crashed>>
    PROVE  TokensInv'
<1>. USE DEF TokensInv
<1>0. /\ issued \in Nat
      /\ \A e \in data \cup disk : e.rt \in Nat /\ e.rt <= issued
      /\ \A p \in Proc : snap[p].rt \in Nat /\ snap[p].rt <= issued
  BY TokenNumbers DEF Bounded
<1>1. ASSUME NEW q \in Proc
      PROVE  \/ snap'[q].rt = 0
             \/ \E r \in Proc : snap'[q].rt = snap[r].rt /\ snap'[q].id = snap[r].id
             \/ \E e \in data : snap'[q].rt = e.rt /\ snap'[q].id = e.id
  BY <1>1, CopyIs
<1>2. Bounded'
  <2>1. \A q \in Proc : snap'[q].rt <= issued
    BY <1>0, <1>1
  <2>. QED
    BY <2>1 DEF Bounded
<1>3. OneOwner(data)' /\ OneOwner(disk)'
  BY DEF OneOwner
<1>4. CopiesOwn'
  BY <1>1 DEF CopiesOwn, OneOwner
<1>5. RepliesNew'
  BY <1>1 DEF RepliesNew
<1>6. TokenNotLost'
  BY DEF TokenNotLost, Pending
<1>. QED
  BY <1>2, <1>3, <1>4, <1>5, <1>6

\* The identity provider replaces a token: the one that was replaced is its account's,
\* and the reply is on its way there.
LEMMA TokenReplaced ==
    ASSUME BookInv, RestTyped, TokensInv, RestTyped', NEW p \in Proc,
           Exchange(p, snap[p].rt), NEW s \in {"settle", "store"},
           pc[p] \notin {"settle", "store"}, pc' = [pc EXCEPT ![p] = s],
           UNCHANGED <<data, disk, snap, crashed>>
    PROVE  TokensInv'
<1>. USE DEF TokensInv
<1>0. /\ issued \in Nat /\ issued' \in Nat
      /\ \A e \in data \cup disk : e.rt \in Nat /\ e.rt <= issued
      /\ \A q \in Proc : snap[q].rt \in Nat /\ snap[q].rt <= issued
      /\ \A q \in Proc : reply[q] # Failed => reply[q] \in Nat /\ reply[q] <= issued
  BY TokenNumbers, StoreAssumption DEF Bounded, RestTyped, Token
<1>1. /\ \A q \in Proc \ {p} : reply'[q] = reply[q] /\ pc'[q] = pc[q]
      /\ pc'[p] = s
  BY DEF Exchange, RestTyped
<1>2. \/ reply'[p] \in {0, Failed} /\ UNCHANGED <<live, issued>>
      \/ /\ issued' = issued + 1 /\ reply'[p] = issued + 1
         /\ issued + 1 \in live' /\ live \ {snap[p].rt} \subseteq live'
  BY DEF Exchange, RestTyped
<1>3. issued <= issued' /\ live \ {snap[p].rt} \subseteq live'
  BY <1>0, <1>2
<1>4. Bounded'
  <2>1. \A q \in Proc : reply'[q] # Failed => reply'[q] <= issued'
    BY <1>0, <1>1, <1>2, <1>3
  <2>2. \A e \in data \cup disk : e.rt <= issued'
    BY <1>0, <1>3
  <2>3. \A q \in Proc : snap'[q].rt <= issued'
    BY <1>0, <1>3
  <2>. QED
    BY <2>1, <2>2, <2>3 DEF Bounded
<1>5. OneOwner(data)' /\ OneOwner(disk)' /\ CopiesOwn'
  BY DEF OneOwner, CopiesOwn
<1>6. RepliesNew'
  <2>1. ASSUME NEW q \in Proc, q # p, reply'[q] \notin {0, Failed}
        PROVE  /\ reply'[q] \in live'
               /\ \A r \in Proc : snap'[r].rt # reply'[q]
               /\ \A r \in Proc \ {q} : reply'[r] # reply'[q]
               /\ \A e \in data' : e.rt # reply'[q]
    <3>1. /\ reply[q] \in live /\ reply[q] # snap[p].rt /\ reply'[q] = reply[q]
          /\ \A r \in Proc : snap[r].rt # reply[q]
          /\ \A r \in Proc \ {q} : reply[r] # reply[q]
          /\ \A e \in data : e.rt # reply[q]
      BY <1>1, <2>1 DEF RepliesNew
    <3>2. reply'[p] # reply[q]
      BY <1>0, <1>1, <1>2, <2>1
    <3>. QED
      BY <1>1, <1>3, <3>1, <3>2
  <2>2. ASSUME reply'[p] \notin {0, Failed}
        PROVE  /\ reply'[p] \in live'
               /\ \A r \in Proc : snap'[r].rt # reply'[p]
               /\ \A r \in Proc \ {p} : reply'[r] # reply'[p]
               /\ \A e \in data' : e.rt # reply'[p]
    <3>1. issued' = issued + 1 /\ reply'[p] = issued + 1 /\ issued + 1 \in live'
      BY <1>2, <2>2
    <3>2. \A r \in Proc \ {p} : reply'[r] # issued + 1
      BY <1>0, <1>1, StoreAssumption
    <3>3. (\A r \in Proc : snap[r].rt # issued + 1) /\ \A e \in data : e.rt # issued + 1
      BY <1>0
    <3>. QED
      BY <3>1, <3>2, <3>3
  <2>. QED
    BY <2>1, <2>2 DEF RepliesNew
<1>7. TokenNotLost'
  <2>. SUFFICES ASSUME ~crashed, NEW e \in data, e.rt \notin live' \cup {0}
                PROVE  \E q \in Proc : /\ pc'[q] \in {"settle", "store"} /\ snap[q].id = e.id
                                       /\ reply'[q] \notin {0, Failed}
    BY DEF TokenNotLost, Pending
  <2>1. CASE e.rt \in live
    <3>1. snap[p].rt = e.rt
      BY <1>3, <2>1
    <3>2. snap[p].id = e.id
      BY <3>1 DEF CopiesOwn
    <3>3. reply'[p] = issued + 1 /\ issued + 1 \notin {0, Failed}
      BY <1>0, <1>2, <2>1, StoreAssumption
    <3>. QED
      BY <1>1, <3>2, <3>3
  <2>2. CASE e.rt \notin live
    <3>1. PICK q \in Proc : /\ pc[q] \in {"settle", "store"} /\ snap[q].id = e.id
                            /\ reply[q] \notin {0, Failed}
      BY <2>2 DEF TokenNotLost, Pending
    <3>2. q # p
      BY <3>1
    <3>. QED
      BY <1>1, <3>1, <3>2
  <2>. QED
    BY <2>1, <2>2
<1>. QED
  BY <1>4, <1>5, <1>6, <1>7

\* A reply is written to its account, which may have gone.
LEMMA ReplyStored ==
    ASSUME BookInv, RestTyped, TokensInv, BookInv', RestTyped', NEW p \in Proc,
           NEW t, t = IF reply[p] = Failed THEN 0 ELSE reply[p],
           Brings(data, data', snap[p].id, t), disk' \in {disk, data'},
           \/ snap'[p].rt = 0
           \/ snap'[p] = snap[p]
           \/ \E f \in data' : snap'[p] = CopyOf(f),
           \A q \in Proc \ {p} : snap'[q] = snap[q],
           reply' = [reply EXCEPT ![p] = Failed],
           NEW s \in {"close", "idle"}, pc' = [pc EXCEPT ![p] = s],
           UNCHANGED worldVars
    PROVE  TokensInv'
<1>. USE DEF TokensInv
<1>0. /\ issued \in Nat /\ t \in Nat /\ t <= issued
      /\ \A e \in data \cup disk : e.rt \in Nat /\ e.rt <= issued
      /\ \A q \in Proc : snap[q].rt \in Nat /\ snap[q].rt <= issued
      /\ \A q \in Proc : reply[q] # Failed => reply[q] \in Nat /\ reply[q] <= issued
      /\ UNCHANGED <<live, issued, crashed>>
  BY TokenNumbers DEF Bounded, worldVars
<1>1. /\ \A q \in Proc \ {p} : reply'[q] = reply[q] /\ pc'[q] = pc[q]
      /\ pc'[p] = s /\ reply'[p] = Failed
  BY DEF RestTyped
\* Where the entries of the new list have their tokens from.
<1>2. ASSUME NEW f \in data'
      PROVE  \/ f.id = snap[p].id /\ f.rt = t /\ t # 0
             \/ f.rt = 0
             \/ /\ t # 0 => f.id # snap[p].id
                /\ \E e \in data : e.id = f.id /\ e.rt = f.rt
  BY <1>2 DEF Brings
\* The reply is accepted and nobody had it.
<1>3. t # 0 => /\ t = reply[p] /\ t \in live
               /\ \A q \in Proc : snap[q].rt # t
               /\ \A q \in Proc \ {p} : reply[q] # t
               /\ \A e \in data : e.rt # t
  BY DEF RepliesNew
<1>4. ASSUME NEW q \in Proc
      PROVE  \/ snap'[q].rt = 0
             \/ snap'[q] = snap[q]
             \/ \E f \in data' : snap'[q].rt = f.rt /\ snap'[q].id = f.id
  BY <1>4, CopyIs
<1>5. Bounded'
  <2>1. \A f \in data' : f.rt <= issued
    BY <1>0, <1>2
  <2>2. \A q \in Proc : snap'[q].rt <= issued
    BY <1>0, <1>4, <2>1
  <2>3. \A q \in Proc : reply'[q] # Failed => reply'[q] <= issued
    BY <1>0, <1>1
  <2>. QED
    BY <1>0, <2>1, <2>2, <2>3 DEF Bounded
<1>6. OneOwner(data)'
  BY <1>2, <1>3 DEF OneOwner
<1>7. OneOwner(disk)'
  BY <1>6 DEF OneOwner
<1>8. CopiesOwn'
  <2>. SUFFICES ASSUME NEW q \in Proc, NEW f \in data', snap'[q].rt = f.rt, f.rt # 0
                PROVE  snap'[q].id = f.id
    BY DEF CopiesOwn
  <2>1. CASE snap'[q] = snap[q]
    BY <1>2, <1>3, <2>1 DEF CopiesOwn
  <2>2. CASE \E g \in data' : snap'[q].rt = g.rt /\ snap'[q].id = g.id
    BY <1>6, <2>2 DEF OneOwner
  <2>. QED
    BY <1>4, <2>1, <2>2
<1>9. RepliesNew'
  <2>. SUFFICES ASSUME NEW q \in Proc, reply'[q] \notin {0, Failed}
                PROVE  /\ reply'[q] \in live'
                       /\ \A r \in Proc : snap'[r].rt # reply'[q]
                       /\ \A r \in Proc \ {q} : reply'[r] # reply'[q]
                       /\ \A f \in data' : f.rt # reply'[q]
    BY DEF RepliesNew
  <2>1. /\ q # p /\ reply'[q] = reply[q] /\ reply[q] \in live
        /\ \A r \in Proc : snap[r].rt # reply[q]
        /\ \A r \in Proc \ {q} : reply[r] # reply[q]
        /\ \A e \in data : e.rt # reply[q]
    BY <1>1 DEF RepliesNew
  <2>2. t # reply[q]
    BY <1>3, <2>1
  <2>3. \A f \in data' : f.rt # reply[q]
    BY <1>2, <2>1, <2>2
  <2>4. \A r \in Proc : snap'[r].rt # reply[q]
    BY <1>4, <2>1, <2>3
  <2>5. \A r \in Proc \ {q} : reply'[r] # reply[q]
    BY <1>1, <2>1
  <2>. QED
    BY <1>0, <2>1, <2>3, <2>4, <2>5
<1>10. TokenNotLost'
  <2>. SUFFICES ASSUME ~crashed, NEW f \in data', f.rt \notin live \cup {0}
                PROVE  \E q \in Proc : /\ pc'[q] \in {"settle", "store"} /\ snap'[q].id = f.id
                                       /\ reply'[q] \notin {0, Failed}
    BY <1>0 DEF TokenNotLost, Pending
  <2>1. PICK e \in data : e.id = f.id /\ e.rt = f.rt /\ (t # 0 => f.id # snap[p].id)
    BY <1>2, <1>3
  <2>2. PICK q \in Proc : /\ pc[q] \in {"settle", "store"} /\ snap[q].id = e.id
                          /\ reply[q] \notin {0, Failed}
    BY <2>1 DEF TokenNotLost, Pending
  <2>3. q # p
    BY <2>1, <2>2
  <2>. QED
    BY <1>1, <2>1, <2>2, <2>3
<1>. QED
  BY <1>5, <1>6, <1>7, <1>8, <1>9, <1>10
-----------------------------------------------------------------------------
\* A copy of no account has no token.
LEMMA BlankToken == Blank.rt = 0
BY DEF Blank

\* The requests of the administrator.
LEMMA AdminTokens ==
    ASSUME StoreInv, TokensInv, StoreInv', Admin PROVE TokensInv'
<1>0. /\ BookInv /\ RestTyped /\ BookInv' /\ RestTyped' /\ GoodList(data)
  BY DEF StoreInv, BookInv
<1>1. ASSUME NEW u \in Identity, NEW a \in Age, NEW withToken \in BOOLEAN,
             NEW done \in BOOLEAN, SignIn(u, a, withToken, done)
      PROVE  TokensInv'
  <2>. DEFINE t == IF withToken THEN issued + 1 ELSE 0
  <2>1. t \in Token /\ t \in {0, issued + 1} /\ (t = 0 <=> ~withToken)
    BY <1>0, <1>1, StoreAssumption DEF SignIn, RestTyped, Token
  <2>2. /\ data' = Upserted(data, Account(u, t)) /\ disk' \in {disk, data'}
        /\ issued' = IF withToken THEN t ELSE issued
        /\ live' = IF withToken THEN live \cup {t} ELSE live
        /\ UNCHANGED <<procVars, crashed>>
    BY <1>1 DEF SignIn, Save
  <2>. HIDE DEF t
  <2>3. Brings(data, data', u.id, t)
    BY <1>0, <2>1, <2>2, UpsertBrings
  <2>. QED
    BY <1>0, <2>1, <2>2, <2>3, BooksMove
<1>2. ASSUME NEW id \in Id, NEW done \in BOOLEAN, Delete(id, done)
      PROVE  TokensInv'
  <2>1. data' = {e \in data : e.id # id} /\ disk' \in {disk, data'} /\ UNCHANGED <<procVars, worldVars>>
    BY <1>2 DEF Delete, Save
  <2>2. Brings(data, data', id, 0)
    BY <2>1, SameBrings
  <2>. QED
    BY <1>0, <2>1, <2>2, BooksMove DEF worldVars
<1>3. ASSUME NEW id \in Id, NEW v \in Setting, NEW done \in BOOLEAN, SetSetting(id, v, done)
      PROVE  TokensInv'
  <2>. DEFINE e == First(WithId(data, id))
              f == [e EXCEPT !.settings = v]
  <2>1. e \in data /\ e \in Entry
    BY <1>0, <1>3, FirstIn DEF SetSetting, WithId, GoodList
  <2>2. f.id = e.id /\ f.rt = e.rt
    BY <2>1 DEF Entry
  <2>3. data' = (data \ {e}) \cup {f} /\ disk' \in {disk, data'} /\ UNCHANGED <<procVars, worldVars>>
    BY <1>3 DEF SetSetting, Save, Rewrite
  <2>. HIDE DEF e, f
  <2>4. \A g \in data' : \E h \in data : h.id = g.id /\ h.rt = g.rt
    BY <2>1, <2>2, <2>3
  <2>5. Brings(data, data', id, 0)
    BY <2>4, SameBrings
  <2>. QED
    BY <1>0, <2>3, <2>5, BooksMove DEF worldVars
<1>. QED
  BY <1>1, <1>2, <1>3 DEF Admin

\* The steps of a goroutine.
LEMMA HandlerTokens ==
    ASSUME StoreInv, TokensInv, StoreInv', NEW p \in Proc, Handler(p) PROVE TokensInv'
<1>0. /\ BookInv /\ RestTyped /\ BookInv' /\ RestTyped' /\ GoodList(data)
      /\ snap[p].id \in Id /\ 0 \in Token
  BY StoreAssumption DEF StoreInv, BookInv, RestTyped, Copy, Token
<1>1. ASSUME NEW name \in Id \cup Email, LookFresh(p, name) \/ LookDue(p, name)
      PROVE  TokensInv'
  <2>1. PICK e \in data : snap' = [snap EXCEPT ![p] = CopyOf(e)]
    BY <1>1, FirstIn DEF LookFresh, LookDue, Named
  <2>2. /\ pc[p] = "idle" /\ UNCHANGED <<data, disk, reply, live, issued, crashed>>
        /\ \A q \in Proc \ {p} : pc'[q] = pc[q]
    BY <1>0, <1>1 DEF LookFresh, LookDue, Goto, bookVars, worldVars, RestTyped
  <2>3. \A q \in Proc : snap'[q] = snap[q] \/ snap'[q] = CopyOf(e)
    BY <1>0, <2>1 DEF RestTyped
  <2>4. \A q \in Proc : pc[q] \in {"settle", "store"} => pc'[q] = pc[q] /\ snap'[q] = snap[q]
    BY <2>1, <2>2
  <2>. QED
    BY <1>0, <2>2, <2>3, <2>4, CopiesMove
<1>2. ASSUME NEW name \in Id \cup Email, NEW done \in BOOLEAN, LookHopeless(p, name, done)
      PROVE  TokensInv'
  <2>1. PICK id : data' = Mark(data, id) /\ disk' \in {disk, data'}
    BY <1>2 DEF LookHopeless, Save
  <2>2. UNCHANGED <<procVars, worldVars>>
    BY <1>2 DEF LookHopeless
  <2>3. Brings(data, data', id, 0)
    BY <1>0, <2>1, MarkBrings
  <2>. QED
    BY <1>0, <2>1, <2>2, <2>3, BooksMove DEF worldVars
<1>3. CASE Lead(p) \/ Join(p) \/ Close(p) \/ Leave(p) \/ Finish(p)
  <2>1. UNCHANGED <<data, disk, reply, live, issued, crashed>>
    BY <1>3 DEF Lead, Join, Close, Leave, Finish, bookVars, worldVars
  <2>2. \A q \in Proc : \/ snap'[q] = Blank
                        \/ \E r \in Proc : snap'[q] = snap[r]
    <3>1. CASE Lead(p)
      BY <3>1 DEF Lead
    <3>2. CASE Join(p)
      <4>1. inflight[snap[p].id] \in Proc
        BY <1>0, <3>2 DEF Join, RestTyped
      <4>. QED
        BY <3>2, <4>1 DEF Join, Answer
    <3>3. CASE Close(p)
      BY <3>3 DEF Close
    <3>4. CASE Leave(p) \/ Finish(p)
      BY <1>0, <3>4 DEF Leave, Answer, Finish, RestTyped
    <3>. QED
      BY <1>3, <3>1, <3>2, <3>3, <3>4
  <2>3. \A q \in Proc : pc[q] \in {"settle", "store"} => pc'[q] = pc[q] /\ snap'[q] = snap[q]
    BY <1>0, <1>3 DEF Lead, Join, Close, Leave, Finish, Answer, Goto, Waiters, RestTyped
  <2>. QED
    BY <1>0, <2>1, <2>2, <2>3, BlankToken, CopiesMove
<1>4. CASE Redeem(p) \/ Designer(p)
  <2>1. /\ Exchange(p, snap[p].rt) /\ UNCHANGED <<data, disk, snap, crashed>>
        /\ pc[p] \notin {"settle", "store"}
    BY <1>4 DEF Redeem, Designer, bookVars
  <2>2. PICK s \in {"settle", "store"} : pc' = [pc EXCEPT ![p] = s]
    BY <1>4 DEF Redeem, Designer, Goto
  <2>. QED
    BY <1>0, <2>1, <2>2, TokenReplaced
<1>5. ASSUME NEW done \in BOOLEAN, SettleError(p, done) PROVE TokensInv'
  <2>1. /\ reply[p] = Failed /\ pc' = [pc EXCEPT ![p] = "close"] /\ UNCHANGED <<snap, worldVars>>
        /\ reply' = reply
    BY <1>5 DEF SettleError, Goto
  <2>2. reply' = [reply EXCEPT ![p] = Failed]
    BY <1>0, <2>1 DEF RestTyped
  <2>3. \/ data' = data /\ disk' = disk
        \/ data' = Mark(data, snap[p].id) /\ disk' \in {disk, data'}
    BY <1>5 DEF SettleError, Save, bookVars
  <2>4. Brings(data, data', snap[p].id, 0)
    BY <1>0, <2>3, MarkBrings, SameBrings
  <2>5. snap'[p] = snap[p] /\ \A q \in Proc \ {p} : snap'[q] = snap[q]
    BY <2>1
  <2>. QED
    BY <1>0, <2>1, <2>2, <2>3, <2>4, <2>5, ReplyStored
<1>6. ASSUME NEW done \in BOOLEAN, SettleToken(p, done) PROVE TokensInv'
  <2>. DEFINE u == Owner(snap[p].id)
              acc == Account(u, reply[p])
  <2>1. reply[p] # Failed /\ reply[p] \in Token /\ u \in Identity /\ u.id = snap[p].id
    BY <1>0, <1>6, OwnerKnown DEF SettleToken, RestTyped
  <2>2. /\ data' = Upserted(data, acc) /\ disk' \in {disk, data'} /\ UNCHANGED worldVars
        /\ snap' = [snap EXCEPT ![p] = CopyOf(Stored(data, acc))]
        /\ reply' = [reply EXCEPT ![p] = Failed] /\ pc' = [pc EXCEPT ![p] = "close"]
    BY <1>6 DEF SettleToken, Save, Goto
  <2>3. Brings(data, data', snap[p].id, reply[p]) /\ Stored(data, acc) \in data'
    BY <1>0, <2>1, <2>2, UpsertBrings
  <2>4. snap'[p] = CopyOf(Stored(data, acc)) /\ \A q \in Proc \ {p} : snap'[q] = snap[q]
    BY <1>0, <2>2 DEF RestTyped
  <2>. QED
    BY <1>0, <2>1, <2>2, <2>3, <2>4, ReplyStored
<1>7. ASSUME NEW done \in BOOLEAN, StoreRotated(p, done) PROVE TokensInv'
  <2>. DEFINE t == IF reply[p] = Failed THEN 0 ELSE reply[p]
              e == First(WithId(data, snap[p].id))
  <2>1. /\ reply' = [reply EXCEPT ![p] = Failed] /\ UNCHANGED worldVars
        /\ pc' = [pc EXCEPT ![p] = "idle"]
    BY <1>7 DEF StoreRotated, Goto
  <2>2. snap'[p].rt = 0 /\ \A q \in Proc \ {p} : snap'[q] = snap[q]
    <3>1. snap' = [snap EXCEPT ![p] = Blank]
      BY <1>7 DEF StoreRotated
    <3>. QED
      BY <1>0, <3>1, BlankToken DEF RestTyped
  <2>3. t \in Token
    BY <1>0 DEF RestTyped
  <2>4. Brings(data, data', snap[p].id, t) /\ disk' \in {disk, data'}
    <3>1. CASE t = 0
      <4>1. UNCHANGED <<data, disk>>
        BY <1>7, <3>1 DEF StoreRotated, bookVars
      <4>. QED
        BY <3>1, <4>1, SameBrings
    <3>2. CASE WithId(data, snap[p].id) = {}
      <4>1. UNCHANGED <<data, disk>>
        BY <1>7, <3>2 DEF StoreRotated, bookVars
      <4>2. \A f \in data : f.id # snap[p].id
        BY <3>2 DEF WithId
      <4>. QED
        BY <4>1, <4>2 DEF Brings
    <3>3. CASE t # 0 /\ WithId(data, snap[p].id) # {}
      <4>1. reply[p] = t /\ reply[p] \notin {0, Failed} /\ t \in Token \ {0}
        BY <2>3, <3>3
      <4>2. e \in data /\ e.id = snap[p].id
        BY <3>3, FirstIn DEF WithId
      <4>3. data' = Rewrite(data, e, [e EXCEPT !.rt = t]) /\ disk' \in {disk, data'}
        BY <1>7, <3>3, <4>1 DEF StoreRotated, Save
      <4>. HIDE DEF e, t
      <4>4. Brings(data, Rewrite(data, e, [e EXCEPT !.rt = t]), e.id, t)
        BY <1>0, <4>1, <4>2, RewriteBrings
      <4>. QED
        BY <4>2, <4>3, <4>4
    <3>. QED
      BY <3>1, <3>2, <3>3
  <2>5. t = IF reply[p] = Failed THEN 0 ELSE reply[p]
    OBVIOUS
  <2>. HIDE DEF t
  <2>. QED
    BY <1>0, <2>1, <2>2, <2>4, <2>5, ReplyStored
<1>. QED
  BY <1>1, <1>2, <1>3, <1>4, <1>5, <1>6, <1>7 DEF Handler, Step

\* Every step keeps what is known of the tokens.
LEMMA TokensStep ==
    StoreInv /\ TokensInv /\ [StoreNext]_storeVars /\ StoreInv' => TokensInv'
<1>. SUFFICES ASSUME StoreInv, TokensInv, [StoreNext]_storeVars, StoreInv' PROVE TokensInv'
  OBVIOUS
<1>1. CASE Restart
  <2>1. /\ data' = disk /\ disk' = disk /\ crashed' = TRUE /\ issued' = issued
        /\ \A p \in Proc : snap'[p].rt = 0 /\ reply'[p] = Failed
    BY <1>1, BlankToken DEF Restart
  <2>2. issued \in Nat
    BY TokenNumbers DEF StoreInv
  <2>3. Bounded'
    BY <2>1, <2>2 DEF Bounded, TokensInv
  <2>4. OneOwner(data)' /\ OneOwner(disk)'
    BY <2>1 DEF OneOwner, TokensInv
  <2>5. CopiesOwn' /\ RepliesNew' /\ TokenNotLost'
    BY <2>1 DEF CopiesOwn, RepliesNew, TokenNotLost
  <2>. QED
    BY <2>3, <2>4, <2>5 DEF TokensInv
<1>2. CASE (\E id \in Id : Tick(id)) \/ UNCHANGED storeVars
  <2>1. UNCHANGED <<data, disk, pc, snap, reply, live, issued, crashed>>
    BY <1>2 DEF Tick, storeVars, bookVars, procVars, worldVars
  <2>. QED
    BY <2>1, CopiesMove DEF StoreInv
<1>. QED
  BY <1>1, <1>2, AdminTokens, HandlerTokens DEF StoreNext

\* Until the process is killed, every account keeps a token the identity provider
\* accepts, or one is on its way to it, whoever redeems and replaces them
\* (refreshInflight, designerAccessToken).
THEOREM TokenNotLostCorrect == StoreSpec => []TokenNotLost
<1>1. StoreInit => TokensInv
  BY BlankToken DEF StoreInit, TokensInv, Bounded, OneOwner, CopiesOwn, RepliesNew, TokenNotLost
<1>2. TokensInv => TokenNotLost
  BY DEF TokensInv
<1>. QED
  BY <1>1, <1>2, StoreInvariant, TokensStep, PTL DEF StoreSpec
-----------------------------------------------------------------------------
\* What a list says of an account is what its only entry says.
LEMMA ListedIs ==
    ASSUME NEW d, GoodList(d)
    PROVE  /\ DOMAIN Listed(d) = {e.id : e \in d}
           /\ \A e \in d : Listed(d)[e.id] = Row(e)
<1>1. DOMAIN Listed(d) = {e.id : e \in d}
  BY DEF Listed
<1>2. ASSUME NEW e \in d PROVE Listed(d)[e.id] = Row(e)
  <2>1. First(WithId(d, e.id)) \in WithId(d, e.id)
    BY FirstIn DEF WithId
  <2>2. First(WithId(d, e.id)) = e
    BY <2>1 DEF WithId, GoodList
  <2>. QED
    BY <2>2 DEF Listed
<1>. QED
  BY <1>1, <1>2

\* A function that says of each account what a list says is what the list says.
LEMMA ListedUnique ==
    ASSUME NEW d, GoodList(d), NEW F, F = [i \in DOMAIN F |-> F[i]],
           DOMAIN F = {e.id : e \in d}, \A e \in d : F[e.id] = Row(e)
    PROVE  Listed(d) = F
<1>1. DOMAIN Listed(d) = DOMAIN F
  BY ListedIs
<1>2. ASSUME NEW i \in DOMAIN F PROVE Listed(d)[i] = F[i]
  <2>1. PICK e \in d : i = e.id
    OBVIOUS
  <2>2. Listed(d)[e.id] = Row(e) /\ F[e.id] = Row(e)
    BY ListedIs
  <2>. QED
    BY <2>1, <2>2
<1>3. Listed(d) = [i \in DOMAIN Listed(d) |-> Listed(d)[i]]
  BY DEF Listed
<1>. QED
  BY <1>1, <1>2, <1>3

\* Rewriting an entry rewrites the row of its account.
LEMMA ListedRewrite ==
    ASSUME NEW d, GoodList(d), NEW e \in d, NEW f, f.id = e.id, GoodList(Rewrite(d, e, f))
    PROVE  /\ e.id \in DOMAIN Listed(d) /\ Listed(d)[e.id] = Row(e)
           /\ Listed(Rewrite(d, e, f)) = [Listed(d) EXCEPT ![e.id] = Row(f)]
<1>. DEFINE F == [Listed(d) EXCEPT ![e.id] = Row(f)]
<1>1. e.id \in DOMAIN Listed(d) /\ \A g \in d : Listed(d)[g.id] = Row(g)
  BY ListedIs
<1>2. DOMAIN F = {g.id : g \in d} /\ F = [i \in DOMAIN F |-> F[i]]
  BY ListedIs
<1>3. \A g \in d \ {e} : g.id # e.id
  BY DEF GoodList
<1>4. F[e.id] = Row(f) /\ \A g \in d \ {e} : F[g.id] = Row(g)
  BY <1>1, <1>3, ListedIs
<1>. HIDE DEF F
<1>5. {g.id : g \in d} = {g.id : g \in Rewrite(d, e, f)}
  BY DEF Rewrite
<1>6. \A g \in Rewrite(d, e, f) : F[g.id] = Row(g)
  BY <1>4 DEF Rewrite
<1>7. Listed(Rewrite(d, e, f)) = F
  <2>. DEFINE c == Rewrite(d, e, f)
  <2>1. GoodList(c) /\ DOMAIN F = {g.id : g \in c} /\ \A g \in c : F[g.id] = Row(g)
    BY <1>2, <1>5, <1>6
  <2>. HIDE DEF c
  <2>2. Listed(c) = F
    BY ONLY <1>2, <2>1, ListedUnique
  <2>. QED
    BY <2>2 DEF c
<1>. QED
  BY <1>1, <1>7 DEF F

\* So it changes nothing when the row stays the same.
LEMMA ListedKept ==
    ASSUME NEW d, GoodList(d), NEW e \in d, NEW f, f.id = e.id, Row(f) = Row(e),
           GoodList(Rewrite(d, e, f))
    PROVE  Listed(Rewrite(d, e, f)) = Listed(d)
<1>1. Listed(d) = [i \in DOMAIN Listed(d) |-> Listed(d)[i]]
  BY DEF Listed
<1>. QED
  BY <1>1, ListedRewrite

\* A new entry is a new row.
LEMMA ListedAdded ==
    ASSUME NEW d, GoodList(d), NEW f, GoodList(d \cup {f}), \A e \in d : e.id # f.id
    PROVE  /\ f.id \notin DOMAIN Listed(d)
           /\ Listed(d \cup {f}) = [i \in DOMAIN Listed(d) \cup {f.id} |->
                                       IF i = f.id THEN Row(f) ELSE Listed(d)[i]]
<1>. DEFINE F == [i \in DOMAIN Listed(d) \cup {f.id} |->
                     IF i = f.id THEN Row(f) ELSE Listed(d)[i]]
<1>1. DOMAIN Listed(d) = {e.id : e \in d} /\ \A e \in d : Listed(d)[e.id] = Row(e)
  BY ListedIs
<1>2. DOMAIN F = {e.id : e \in d \cup {f}} /\ F = [i \in DOMAIN F |-> F[i]]
  BY <1>1
<1>3. \A e \in d \cup {f} : F[e.id] = Row(e)
  BY <1>1
<1>. HIDE DEF F
<1>4. Listed(d \cup {f}) = F
  BY <1>2, <1>3, ListedUnique
<1>. QED
  BY <1>1, <1>4 DEF F

\* A deletion takes the row of the account away.
LEMMA ListedRemoved ==
    ASSUME NEW d, GoodList(d), NEW id
    PROVE  Listed({e \in d : e.id # id}) = [i \in DOMAIN Listed(d) \ {id} |-> Listed(d)[i]]
<1>. DEFINE F == [i \in DOMAIN Listed(d) \ {id} |-> Listed(d)[i]]
            c == {e \in d : e.id # id}
<1>1. DOMAIN Listed(d) = {e.id : e \in d} /\ \A e \in d : Listed(d)[e.id] = Row(e)
  BY ListedIs
<1>2. DOMAIN F = {e.id : e \in c} /\ F = [i \in DOMAIN F |-> F[i]]
  BY <1>1
<1>3. \A e \in c : F[e.id] = Row(e)
  BY <1>1
<1>4. GoodList(c)
  BY SubsetGood
<1>. HIDE DEF F, c
<1>5. Listed(c) = F
  BY <1>2, <1>3, <1>4, ListedUnique
<1>. QED
  BY <1>5 DEF F, c

\* A mark is not in the book.
LEMMA ListedMarked ==
    ASSUME NEW d, GoodList(d), NEW id
    PROVE  Listed(Mark(d, id)) = Listed(d)
<1>. DEFINE e == First(WithId(d, id))
            f == [e EXCEPT !.status = "expired"]
<1>1. CASE WithId(d, id) = {}
  BY <1>1 DEF Mark
<1>2. CASE WithId(d, id) # {}
  <2>1. e \in d /\ e \in Entry
    BY <1>2, FirstIn DEF WithId, GoodList
  <2>2. f.id = e.id /\ Row(f) = Row(e)
    BY <2>1 DEF Entry, Row
  <2>3. Mark(d, id) = Rewrite(d, e, f) /\ GoodList(Mark(d, id))
    BY <1>2, MarkGood DEF Mark
  <2>. HIDE DEF e, f
  <2>. QED
    BY <2>1, <2>2, <2>3, ListedKept
<1>. QED
  BY <1>1, <1>2

\* A save writes the book, or fails to.
LEMMA SaveWrites ==
    ASSUME NEW d, NEW done \in BOOLEAN, Save(d, done)
    PROVE  Book!Write(Listed(d))
BY DEF Save, Book!Write

\* A token that no entry has is unused in the book.
LEMMA UnusedInBook ==
    ASSUME GoodList(data), NEW t \in Token \ {0}, \A e \in data : e.rt # t
    PROVE  Book!Unused(t)
<1>1. ASSUME NEW i \in DOMAIN Listed(data) PROVE Listed(data)[i].token # t
  <2>0. DOMAIN Listed(data) = {e.id : e \in data}
    BY ListedIs
  <2>1. PICK e \in data : i = e.id
    BY <2>0
  <2>2. Listed(data)[e.id] = Row(e)
    BY ListedIs
  <2>3. Listed(data)[i].token = e.rt
    BY <2>1, <2>2 DEF Row
  <2>. QED
    BY <2>3
<1>. QED
  BY <1>1 DEF Book!Unused

\* Upsert with an unused token, or with none, lets an account enter, renews its
\* token, or leaves the book alone.
LEMMA UpsertInBook ==
    ASSUME BookInv, NEW u \in Identity, NEW t \in Token, t # 0 => \A e \in data : e.rt # t,
           NEW done \in BOOLEAN, Save(Upserted(data, Account(u, t)), done)
    PROVE  Book!Next
<1>. DEFINE acc == Account(u, t)
            b == Listed(data)
<1>0. GoodList(data) /\ u.id \in Id /\ (t # 0 => Book!Unused(t))
  BY UnusedInBook DEF BookInv, Id
<1>1. acc \in Entry /\ acc.id = u.id /\ acc.rt = t /\ acc.settings = Default
  BY AccountTyped DEF Account
<1>2. GoodList(Upserted(data, acc)) /\ Book!Write(Listed(Upserted(data, acc)))
  BY <1>0, UpsertGood, SaveWrites
<1>3. CASE Hits(data, acc) = {}
  <2>1. Upserted(data, acc) = data \cup {acc} /\ \A e \in data : e.id # acc.id
    BY <1>3 DEF Upserted, Hits
  <2>2. Row(acc) = [settings |-> Default, token |-> t]
    BY <1>1 DEF Row
  <2>. HIDE DEF acc
  <2>3. /\ acc.id \notin DOMAIN b
        /\ Listed(Upserted(data, acc)) = [i \in DOMAIN b \cup {acc.id} |->
                                             IF i = acc.id THEN Row(acc) ELSE b[i]]
    BY <1>0, <1>2, <2>1, ListedAdded
  <2>4. Book!Enter(u.id, t)
    BY <1>0, <1>1, <1>2, <2>2, <2>3 DEF Book!Enter
  <2>. QED
    BY <1>0, <2>4 DEF Book!Next
<1>4. CASE Hits(data, acc) # {}
  <2>. DEFINE e == First(Hits(data, acc))
              f == Stored(data, acc)
  <2>1. e \in data /\ e.id = u.id /\ e \in Entry
    BY <1>0, <1>4, FirstIn, HitIsOwn DEF GoodList
  <2>2. Upserted(data, acc) = Rewrite(data, e, f) /\ f = Merge(e, acc)
    BY <1>4 DEF Upserted, Stored
  <2>3. /\ f.id = e.id
        /\ Row(f) = [settings |-> e.settings, token |-> IF t = 0 THEN e.rt ELSE t]
    BY <1>1, <2>1, <2>2 DEF Merge, Row, Entry
  <2>. HIDE DEF e, f, acc
  <2>4. CASE t = 0
    <3>1. Row(f) = Row(e)
      BY <2>3, <2>4 DEF Row
    <3>2. Listed(Upserted(data, acc)) = b
      BY <1>0, <1>2, <2>1, <2>2, <2>3, <3>1, ListedKept
    <3>. QED
      BY <1>2, <3>2 DEF Book!Resave, Book!Next
  <2>5. CASE t # 0
    <3>1. /\ e.id \in DOMAIN b /\ b[e.id] = Row(e)
          /\ Listed(Upserted(data, acc)) = [b EXCEPT ![e.id] = Row(f)]
      BY <1>0, <1>2, <2>1, <2>2, <2>3, ListedRewrite
    <3>2. Row(f) = [settings |-> b[e.id].settings, token |-> t]
      BY <2>3, <2>5, <3>1 DEF Row
    <3>3. Book!Renew(u.id, t)
      BY <1>0, <1>2, <2>1, <2>5, <3>1, <3>2 DEF Book!Renew
    <3>. QED
      BY <1>0, <3>3 DEF Book!Next
  <2>. QED
    BY <2>4, <2>5
<1>. QED
  BY <1>3, <1>4

\* A mark is a change of something else.
LEMMA MarkInBook ==
    ASSUME BookInv, NEW id, NEW done \in BOOLEAN, Save(Mark(data, id), done)
    PROVE  Book!Next
<1>1. Listed(Mark(data, id)) = Listed(data)
  BY ListedMarked DEF BookInv
<1>. QED
  BY <1>1, SaveWrites DEF Book!Resave, Book!Next

\* The requests of the administrator.
LEMMA AdminInBook == ASSUME StoreInv, TokensInv, Admin PROVE Book!Next
<1>0. BookInv /\ RestTyped /\ GoodList(data)
  BY DEF StoreInv, BookInv
<1>1. ASSUME NEW u \in Identity, NEW a \in Age, NEW withToken \in BOOLEAN,
             NEW done \in BOOLEAN, SignIn(u, a, withToken, done)
      PROVE  Book!Next
  <2>. DEFINE t == IF withToken THEN issued + 1 ELSE 0
  <2>1. t \in Token /\ (t # 0 => t = issued + 1)
    BY <1>0, <1>1, StoreAssumption DEF SignIn, RestTyped, Token
  <2>2. Save(Upserted(data, Account(u, t)), done)
    BY <1>1 DEF SignIn
  <2>. HIDE DEF t
  <2>3. t # 0 => \A e \in data : e.rt # t
    BY <1>0, <2>1, TokenNumbers DEF TokensInv, Bounded
  <2>. QED
    BY <1>0, <2>1, <2>2, <2>3, UpsertInBook
<1>2. ASSUME NEW id \in Id, NEW done \in BOOLEAN, Delete(id, done)
      PROVE  Book!Next
  <2>1. Book!Write(Listed({e \in data : e.id # id}))
    BY <1>2, SaveWrites DEF Delete
  <2>2. Book!Remove(id)
    BY <1>0, <2>1, ListedRemoved DEF Book!Remove
  <2>. QED
    BY <2>2 DEF Book!Next
<1>3. ASSUME NEW id \in Id, NEW v \in Setting, NEW done \in BOOLEAN, SetSetting(id, v, done)
      PROVE  Book!Next
  <2>. DEFINE e == First(WithId(data, id))
              f == [e EXCEPT !.settings = v]
              b == Listed(data)
  <2>1. e \in data /\ e \in Entry /\ e.id = id
    BY <1>0, <1>3, FirstIn DEF SetSetting, WithId, GoodList
  <2>2. f.id = e.id /\ Row(f) = [settings |-> v, token |-> e.rt]
    BY <2>1 DEF Entry, Row
  <2>3. GoodList(Rewrite(data, e, f)) /\ Book!Write(Listed(Rewrite(data, e, f)))
    BY <1>0, <1>3, <2>1, SettingGood, SaveWrites DEF SetSetting
  <2>. HIDE DEF e, f
  <2>4. /\ e.id \in DOMAIN b /\ b[e.id] = Row(e)
        /\ Listed(Rewrite(data, e, f)) = [b EXCEPT ![e.id] = Row(f)]
    BY <1>0, <2>1, <2>2, <2>3, ListedRewrite
  <2>5. Row(f) = [settings |-> v, token |-> b[id].token]
    BY <2>1, <2>2, <2>4 DEF Row
  <2>6. Book!Change(id, v)
    BY <2>1, <2>3, <2>4, <2>5 DEF Book!Change
  <2>. QED
    BY <2>6 DEF Book!Next
<1>. QED
  BY <1>1, <1>2, <1>3 DEF Admin

\* The steps of a goroutine.
LEMMA HandlerInBook ==
    ASSUME StoreInv, TokensInv, NEW p \in Proc, Handler(p)
    PROVE  Book!Next \/ UNCHANGED bookVars
<1>0. /\ BookInv /\ RestTyped /\ GoodList(data)
      /\ reply[p] \in Token \cup {Failed} /\ snap[p].id \in Id
      /\ (reply[p] \notin {0, Failed} => \A e \in data : e.rt # reply[p])
  BY DEF StoreInv, BookInv, RestTyped, Copy, TokensInv, RepliesNew
<1>1. ASSUME NEW name \in Id \cup Email, NEW done \in BOOLEAN, LookHopeless(p, name, done)
      PROVE  Book!Next
  BY <1>0, <1>1, MarkInBook DEF LookHopeless
<1>2. ASSUME NEW done \in BOOLEAN, SettleError(p, done)
      PROVE  Book!Next \/ UNCHANGED bookVars
  BY <1>0, <1>2, MarkInBook DEF SettleError
<1>3. ASSUME NEW done \in BOOLEAN, SettleToken(p, done) PROVE Book!Next
  <2>1. reply[p] \in Token /\ Owner(snap[p].id) \in Identity
    BY <1>0, <1>3, OwnerKnown DEF SettleToken
  <2>2. reply[p] # 0 => \A e \in data : e.rt # reply[p]
    BY <1>0, <1>3 DEF SettleToken
  <2>3. Save(Upserted(data, Account(Owner(snap[p].id), reply[p])), done)
    BY <1>3 DEF SettleToken
  <2>. QED
    BY <1>0, <2>1, <2>2, <2>3, UpsertInBook
<1>4. ASSUME NEW done \in BOOLEAN, StoreRotated(p, done)
      PROVE  Book!Next \/ UNCHANGED bookVars
  <2>. DEFINE t == reply[p]
              e == First(WithId(data, snap[p].id))
              f == [e EXCEPT !.rt = t]
              b == Listed(data)
  <2>1. CASE t \in {0, Failed} \/ WithId(data, snap[p].id) = {}
    BY <1>4, <2>1 DEF StoreRotated
  <2>2. CASE ~(t \in {0, Failed} \/ WithId(data, snap[p].id) = {})
    <3>1. e \in data /\ e \in Entry /\ e.id = snap[p].id
      BY <1>0, <2>2, FirstIn DEF WithId, GoodList
    <3>2. t \in Token \ {0} /\ Book!Unused(t)
      BY <1>0, <2>2, UnusedInBook
    <3>3. f.id = e.id /\ Row(f) = [settings |-> e.settings, token |-> t]
      BY <3>1 DEF Entry, Row
    <3>4. GoodList(Rewrite(data, e, f)) /\ Save(Rewrite(data, e, f), done)
      BY <1>0, <1>4, <2>2, <3>1, <3>2, TokenGood DEF StoreRotated
    <3>. HIDE DEF e, f, t
    <3>5. Book!Write(Listed(Rewrite(data, e, f)))
      BY <3>4, SaveWrites
    <3>6. /\ e.id \in DOMAIN b /\ b[e.id] = Row(e)
          /\ Listed(Rewrite(data, e, f)) = [b EXCEPT ![e.id] = Row(f)]
      BY <1>0, <3>1, <3>3, <3>4, ListedRewrite
    <3>7. Row(f) = [settings |-> b[e.id].settings, token |-> t]
      BY <3>3, <3>6 DEF Row
    <3>8. Book!Renew(e.id, t)
      BY <3>2, <3>5, <3>6, <3>7 DEF Book!Renew
    <3>. QED
      BY <1>0, <3>1, <3>2, <3>8 DEF Book!Next
  <2>. QED
    BY <2>1, <2>2
<1>5. CASE \E done \in BOOLEAN : Step(p, done)
  BY <1>2, <1>3, <1>4, <1>5 DEF Step, Lead, Join, Close, Leave
<1>6. CASE \E name \in Id \cup Email : LookFresh(p, name) \/ LookDue(p, name)
  BY <1>6 DEF LookFresh, LookDue
<1>7. CASE Redeem(p) \/ Finish(p) \/ Designer(p)
  BY <1>7 DEF Redeem, Finish, Designer
<1>. QED
  BY <1>1, <1>5, <1>6, <1>7 DEF Handler

\* Every step of the store is a step of the book, or changes nothing in it.
LEMMA StepInBook ==
    StoreInv /\ TokensInv /\ [StoreNext]_storeVars => [Book!Next]_(Book!vars)
<1>. SUFFICES ASSUME StoreInv, TokensInv, [StoreNext]_storeVars
              PROVE  Book!Next \/ UNCHANGED Book!vars
  OBVIOUS
<1>1. ASSUME UNCHANGED bookVars PROVE UNCHANGED Book!vars
  BY <1>1 DEF bookVars, Book!vars
<1>2. CASE Restart
  <2>1. Listed(data)' = Listed(disk) /\ saved' = TRUE /\ Listed(disk)' = Listed(disk)
    BY <1>2 DEF Restart
  <2>. QED
    BY <2>1 DEF Book!Recover, Book!Next
<1>3. CASE (\E id \in Id : Tick(id)) \/ UNCHANGED storeVars
  BY <1>1, <1>3 DEF Tick, storeVars
<1>. QED
  BY <1>1, <1>2, <1>3, AdminInBook, HandlerInBook DEF StoreNext

\* The store implements the book: no interleaving of sign-ins, deletions, edits,
\* refreshes, failed saves and kills shows those who read the accounts, or the
\* file, anything but whole changes of one account (Upsert, Delete, the setters,
\* refreshInflight, designerAccessToken).
THEOREM ImplementsBook == StoreSpec => BookSpec
<1>1. StoreInit => TokensInv
  BY BlankToken DEF StoreInit, TokensInv, Bounded, OneOwner, CopiesOwn, RepliesNew, TokenNotLost
<1>2. StoreInit => Book!Init
  BY DEF StoreInit, Book!Init, Listed
<1>. QED
  BY <1>1, <1>2, StoreInvariant, TokensStep, StepInBook, PTL DEF StoreSpec, BookSpec, Book!Spec
=============================================================================
