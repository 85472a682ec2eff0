------------------------------ MODULE KeyStore ------------------------------
(***************************************************************************)
(* src/internal/web/keys.go on top of persist.go, with the life of the     *)
(* process around them (src/cmd/server/main.go).  The administrator's      *)
(* requests change the list of API keys in memory, wait until it is saved, *)
(* and undo their change when the save fails; clients' requests stamp the  *)
(* key they present and leave the saving to the loop.  Meanwhile the       *)
(* process may be told to stop, or killed.                                 *)
(*                                                                         *)
(* revoke has no caller: the admin page revokes through update.  Limit     *)
(* stands for the name and the limits of a key, which update treats alike. *)
(***************************************************************************)
EXTENDS PersistStore, Sequences

CONSTANTS
    KeyId,      \* bound: the keys that are ever created
    KeyLimit,    \* values of a key's limits
    NoLimit,    \* the limits of a new key
    Stored,     \* the ids of the keys in the file at first, in order
    MaxRequest, \* bound: requests
    MaxCrash    \* bound: starts of a new process

ASSUME KeyAssumption ==
    /\ KeyId # {} /\ NoLimit \in KeyLimit
    /\ Stored \in Seq(KeyId)
    /\ \A i, j \in DOMAIN Stored : Stored[i] = Stored[j] => i = j
    /\ MaxRequest \in Nat /\ MaxCrash \in Nat

VARIABLES
    job,      \* what each handler is doing
    at,       \* the index it read
    old,      \* the record it works on, as it was
    locked,   \* a handler panicked with s.mu held
    stage,    \* of the process
    loop,     \* the state of the loop
    issued,   \* history: the keys created so far
    requests, \* history: how many were accepted
    stranded, \* history: a change was undone when the store was not dirty
    crashes,  \* history
    early     \* history: the keys marked as used before the process was told to stop

keyVars == <<job, at, old, locked, issued, requests, stranded>>
lifeVars == <<stage, loop, crashes, early>>
keyStoreVars == <<persistVars, keyVars, lifeVars>>

Key == [id : KeyId, revoked : BOOLEAN, limit : KeyLimit, used : BOOLEAN]

Job == {"none", "create", "delete", "update", "stamp"}

\* "stopping": main waits for the loop's last round.
Stage == {"serving", "stopping", "down"}

LoopPlace == {"off", "idle", "saving", "last", "stopped"}

NewKey(id) == [id |-> id, revoked |-> FALSE, limit |-> NoLimit, used |-> FALSE]

\* The record of a handler that holds none.
NoKey == NewKey(CHOOSE id \in KeyId : TRUE)

KeyStoreInit ==
    /\ PersistInit([i \in DOMAIN Stored |-> NewKey(Stored[i])])
    /\ job = [h \in Handler |-> "none"]
    /\ at = [h \in Handler |-> 1]
    /\ old = [h \in Handler |-> NoKey]
    /\ locked = FALSE
    /\ issued = {Stored[i] : i \in DOMAIN Stored} /\ requests = 0 /\ stranded = FALSE
    /\ stage = "serving" /\ loop = "off"
    /\ crashes = 0 /\ early = {}
-----------------------------------------------------------------------------
Ids(list) == {list[i].id : i \in DOMAIN list}

Index(list, id) == CHOOSE i \in DOMAIN list : list[i].id = id

\* The list without, and with, an element at an index.
Without(list, i) == SubSeq(list, 1, i - 1) \o SubSeq(list, i + 1, Len(list))

With(list, i, k) == SubSeq(list, 1, i - 1) \o <<k>> \o SubSeq(list, i, Len(list))

\* A request is accepted while the server listens, and can lock the list.
Free(h) == stage = "serving" /\ job[h] = "none" /\ ~locked /\ requests < MaxRequest

\* The handler works on a record of the list; its flush, if any, is due.
Enter(h, what, record, place) ==
    /\ job' = [job EXCEPT ![h] = what]
    /\ old' = [old EXCEPT ![h] = record]
    /\ GoFlush(h, place)
    /\ requests' = requests + 1
    /\ UNCHANGED <<disk, dirty, registered, writer, image, failed, locked, stranded, lifeVars>>

\* create, up to the blocking flush; the id is random.
Create(h, id) ==
    /\ Free(h)
    /\ id \notin issued
    /\ issued' = issued \cup {id}
    /\ mem' = Append(mem, NewKey(id))
    /\ Enter(h, "create", NewKey(id), "due")
    /\ UNCHANGED at

\* A mutant of Delete: the index counts from zero.
DeleteFromZero(h, id) ==
    /\ Free(h)
    /\ id \in Ids(mem)
    /\ LET i == Index(mem, id)
       IN  /\ mem' = Without(mem, i)
           /\ at' = [at EXCEPT ![h] = i - 1]
           /\ Enter(h, "delete", mem[i], "due")
    /\ UNCHANGED issued

\* delete, up to the blocking flush.
Delete(h, id) ==
    /\ Free(h)
    /\ id \in Ids(mem)
    /\ LET i == Index(mem, id)
       IN  /\ mem' = Without(mem, i)
           /\ at' = [at EXCEPT ![h] = i]
           /\ Enter(h, "delete", mem[i], "due")
    /\ UNCHANGED issued

\* update, up to the blocking flush.
Update(h, id, revoked, limit) ==
    /\ Free(h)
    /\ id \in Ids(mem)
    /\ LET i == Index(mem, id)
       IN  /\ mem' = [mem EXCEPT ![i].revoked = revoked, ![i].limit = limit]
           /\ Enter(h, "update", mem[i], "due")
    /\ UNCHANGED <<at, issued>>

\* valid: the key is stamped; markDirty follows after the lock.
Stamp(h, id) ==
    /\ Free(h)
    /\ id \in Ids(mem)
    /\ LET i == Index(mem, id)
       IN  /\ ~mem[i].revoked
           /\ mem' = [mem EXCEPT ![i].used = TRUE]
           /\ Enter(h, "stamp", mem[i], "none")
    /\ UNCHANGED <<at, issued>>

\* The handler has answered.
Forgotten(h) ==
    /\ job' = [job EXCEPT ![h] = "none"]
    /\ at' = [at EXCEPT ![h] = 1]
    /\ old' = [old EXCEPT ![h] = NoKey]

\* valid marks the store dirty, which starts the loop if need be.
Mark(h) ==
    /\ job[h] = "stamp"
    /\ MarkDirty
    /\ loop' = IF loop = "off" THEN "idle" ELSE loop
    /\ early' = IF stage = "serving" THEN early \cup {old[h].id} ELSE early
    /\ Forgotten(h)
    /\ UNCHANGED <<mem, disk, writer, flush, image, failed, locked, issued, requests, stranded,
                   stage, crashes>>

\* flushNowBlocking, up to the writing.
StartSaving(h) ==
    /\ flush[h] = "due"
    /\ Queue(h)
    /\ UNCHANGED <<mem, disk, registered, writer, image, failed, keyVars, lifeVars>>

ReadList(g) == ~locked /\ Read(g) /\ UNCHANGED <<keyVars, lifeVars>>

\* The change is saved and the administrator told so.
Saved(h) ==
    /\ Written(h)
    /\ Forgotten(h)
    /\ UNCHANGED <<locked, issued, requests, stranded, lifeVars>>

NotSaved(h) == NotWritten(h, "failed") /\ UNCHANGED <<keyVars, lifeVars>>

\* The list after the change of handler h is taken back: a new key is taken for
\* the last one, a deleted one goes back to where it was, an updated one is
\* looked up again.
Undone(h) ==
    LET id == old[h].id
    IN  CASE job[h] = "create" -> SubSeq(mem, 1, Len(mem) - 1)
          [] job[h] = "delete" -> With(mem, at[h], old[h])
          [] job[h] = "update" ->
                IF id \notin Ids(mem) THEN mem
                ELSE [mem EXCEPT ![Index(mem, id)].revoked = old[h].revoked,
                                 ![Index(mem, id)].limit = old[h].limit]

\* The index is beyond the list.
OutOfRange(h) ==
    \/ job[h] = "create" /\ mem = <<>>
    \/ job[h] = "delete" /\ at[h] > Len(mem) + 1

\* The save failed: the change is undone in memory, or the handler panics with
\* the list locked.
TakeBack(h) ==
    /\ flush[h] = "failed"
    /\ ~locked
    /\ mem' = IF OutOfRange(h) THEN mem ELSE Undone(h)
    /\ locked' = OutOfRange(h)
    /\ stranded' = (stranded \/ ~dirty)
    /\ GoFlush(h, "none")
    /\ Forgotten(h)
    /\ UNCHANGED <<disk, dirty, registered, writer, image, failed, issued, requests, lifeVars>>
-----------------------------------------------------------------------------
\* The loop's ticker, or its last round, finds the store dirty.
LoopStarts(place) ==
    /\ registered
    /\ QueuePending(Loop)
    /\ loop' = place
    /\ UNCHANGED <<mem, disk, registered, writer, image, failed, keyVars, stage, crashes, early>>

LoopTick == loop = "idle" /\ LoopStarts("saving")

\* The loop has written, or not, and goes on.
LoopEnds ==
    /\ Written(Loop) \/ NotWritten(Loop, "none")
    /\ loop' = IF loop = "last" THEN "stopped" ELSE "idle"
    /\ UNCHANGED <<keyVars, stage, crashes, early>>

\* A signal: the listener is closed, ListenAndServe returns at once, and main
\* closes persistStop.  Handlers that are at work go on.
Signal ==
    /\ stage = "serving"
    /\ stage' = "stopping"
    /\ loop' = IF loop = "off" THEN "idle" ELSE loop
    /\ UNCHANGED <<persistVars, keyVars, crashes, early>>

\* A mutant of LastRound: the loop stops at once.
NoLastRound ==
    /\ stage = "stopping" /\ loop = "idle"
    /\ loop' = "stopped"
    /\ UNCHANGED <<persistVars, keyVars, stage, crashes, early>>

\* The loop finds persistStop closed.
LastRound ==
    /\ stage = "stopping" /\ loop = "idle"
    /\ \/ LoopStarts("last")
       \/ /\ ~(registered /\ dirty)
          /\ loop' = "stopped"
          /\ UNCHANGED <<persistVars, keyVars, stage, crashes, early>>

\* StopPersistLoop returns and so does main, whatever the handlers are doing.
Exit ==
    /\ stage = "stopping" /\ loop = "stopped"
    /\ stage' = "down"
    /\ UNCHANGED <<persistVars, keyVars, loop, crashes, early>>

\* The process is killed, or has ended, and a new one reads the file.
Boot ==
    /\ crashes < MaxCrash
    /\ crashes' = crashes + 1
    /\ mem' = disk
    /\ dirty' = FALSE /\ registered' = FALSE
    /\ writer' = Nobody
    /\ flush' = [g \in Flusher |-> "none"]
    /\ image' = [g \in {} |-> <<>>]
    /\ job' = [h \in Handler |-> "none"]
    /\ at' = [h \in Handler |-> 1]
    /\ old' = [h \in Handler |-> NoKey]
    /\ locked' = FALSE /\ stranded' = FALSE
    /\ stage' = "serving" /\ loop' = "off" /\ early' = {}
    /\ UNCHANGED <<disk, failed, issued, requests>>

KeyRequest(h) ==
    \/ \E id \in KeyId : Create(h, id) \/ Delete(h, id) \/ Stamp(h, id)
    \/ \E id \in KeyId, revoked \in BOOLEAN, limit \in KeyLimit : Update(h, id, revoked, limit)

\* What a handler does once it has a request.
Work(h) ==
    \/ Mark(h) \/ StartSaving(h) \/ ReadList(h)
    \/ Saved(h) \/ NotSaved(h) \/ TakeBack(h)

LoopStep == LoopTick \/ ReadList(Loop) \/ LoopEnds \/ LastRound

\* Handlers and the loop are gone when main has returned.
KeyStoreNext ==
    \/ stage # "down" /\ \E h \in Handler : KeyRequest(h) \/ Work(h)
    \/ stage # "down" /\ LoopStep
    \/ Signal
    \/ Exit
    \/ Boot

KeyStoreSpec == KeyStoreInit /\ [][KeyStoreNext]_keyStoreVars

\* Goroutines that can run do.  Go's mutexes hand over to who has waited longest,
\* so a goroutine that wants writeMu again and again gets it.
KeyStoreFairness ==
    /\ \A h \in Handler : WF_keyStoreVars(stage # "down" /\ Work(h))
    /\ WF_keyStoreVars(stage # "down" /\ LoopStep)
    /\ SF_keyStoreVars(stage # "down" /\ ReadList(Loop))

FairKeyStoreSpec == KeyStoreSpec /\ KeyStoreFairness
-----------------------------------------------------------------------------
\* Every variable holds a value of its type.
KeyStoreTypeOK ==
    /\ PersistTypeOK(Seq(Key))
    /\ job \in [Handler -> Job]
    /\ at \in [Handler -> Nat \ {0}]
    /\ old \in [Handler -> Key]
    /\ locked \in BOOLEAN
    /\ issued \subseteq KeyId /\ early \subseteq KeyId
    /\ requests \in 0 .. MaxRequest
    /\ stranded \in BOOLEAN
    /\ stage \in Stage /\ loop \in LoopPlace
    /\ crashes \in 0 .. MaxCrash

\* What a list says of a key, apart from when it was used.
Terms(list, id) == {<<list[i].revoked, list[i].limit>> : i \in {j \in DOMAIN list : list[j].id = id}}

\* The administrator is still waiting for a change of this key.
Pending(id) == \E h \in Handler : job[h] \in {"create", "delete", "update"} /\ old[h].id = id

\* While no write has failed, whatever the administrator was told is in the file:
\* no flush, of the loop or of another change, that read the list earlier replaces
\* the file later (persist.go:36, 49), and a kill at any point loses none of it.
AnsweredIsSaved ==
    failed = 0 => \A id \in KeyId : Pending(id) \/ Terms(mem, id) = Terms(disk, id)

\* Nothing is lost silently (persist_test.go:56): when all goroutines rest and the
\* store is not dirty, the file is what the memory is, failed writes included.  The
\* one exception the code makes is a change undone after a flush of somebody else
\* has saved it (stranded).
CleanIsSaved ==
    /\ ~dirty /\ ~stranded
    /\ \A h \in Handler : job[h] = "none"
    /\ \A g \in Flusher : flush[g] = "none"
    => mem = disk

\* A key whose use was marked before the signal is marked in the file when the
\* process has ended in order, however the last round meets a round under way
\* (main.go:91), unless an administrator's request was saving at that moment: main
\* does not wait for it, and it has cleared the flag the last round goes by.
ShutdownSaves ==
    /\ stage = "down" /\ failed = 0
    /\ \A h \in Handler : flush[h] = "none"
    => \A i \in DOMAIN disk : disk[i].id \in early => disk[i].used

Used(list, id) == \E i \in DOMAIN list : list[i].id = id /\ list[i].used

\* What somebody was told is in the file, nothing is lost silently, and an orderly
\* end saves what nobody waited for.
FileKeepsUp == AnsweredIsSaved /\ CleanIsSaved /\ ShutdownSaves

\* The loop saves by itself what nobody waits for, also after a failed write
\* (persist.go:37), as long as the change is not undone by rollback or the process ends.
UseReachesDisk ==
    \A id \in KeyId :
        id \in early /\ Used(mem, id) ~> Used(disk, id) \/ ~Used(mem, id) \/ locked \/ stranded \/ stage # "serving"

\* keys.go:243: a delete that cannot be saved is rolled back.
DeleteRolledBack ==
    [][\A h \in Handler : job[h] = "delete" /\ TakeBack(h) => old[h].id \in Ids(mem')]_keyStoreVars
=============================================================================
