--------------------------- MODULE KeyStoreProofs ---------------------------
(***************************************************************************)
(* Theorems about KeyStore, for any handlers, keys, limits and numbers of  *)
(* requests, failures and starts.                                          *)
(*                                                                         *)
(* FileKeepsUp speaks of moments of rest: nobody waits, all goroutines     *)
(* rest, the process has ended.  What carries from one such moment to the  *)
(* next is a statement about the list that a flush has read and not yet    *)
(* written: whatever that list lacks, somebody who has not yet read the    *)
(* memory is going to bring.  Each of the three invariants below says so   *)
(* of the file and of every such list, for its part of FileKeepsUp.        *)
(***************************************************************************)
EXTENDS KeyStore, SequenceTheorems, TLAPS

Changes == {"create", "delete", "update"}

\* Flushes, their writer, the handlers' jobs and the loop agree.
FlowInv ==
    /\ DOMAIN image = {g \in Flusher : flush[g] = "writing"}
    /\ \A g \in Flusher : flush[g] = "writing" => writer = g
    /\ \A h \in Handler : job[h] \in Changes <=> flush[h] # "none"
    /\ flush[Loop] \in {"none", "queued", "writing"}
    /\ loop \in {"saving", "last"} <=> flush[Loop] # "none"
    /\ loop \in {"last", "stopped"} => stage # "serving"
    /\ stage = "down" => loop = "stopped"
    /\ failed = 0 => \A h \in Handler : flush[h] # "failed"

Typed == KeyStoreTypeOK /\ FlowInv

\* Handler h changes this key, and its flush has not yet read the memory.
Brings(h, id) == job[h] \in Changes /\ old[h].id = id /\ flush[h] \in {"due", "queued"}

\* What the administrator was told is in the file and in every list on its way there.
AnsweredInv ==
    failed = 0 =>
        /\ AnsweredIsSaved
        /\ \A g \in DOMAIN image, id \in KeyId :
              Terms(image[g], id) = Terms(mem, id) \/ \E h \in Handler : Brings(h, id)

\* Somebody is going to save the whole list.
Coming(places) ==
    dirty \/ (\E g \in Flusher : flush[g] \in places) \/ (\E h \in Handler : job[h] = "stamp")

\* The file, and every list on its way there, is the memory or will be replaced.
CleanInv ==
    ~stranded =>
        /\ disk = mem \/ Coming({"due", "queued", "writing"})
        /\ \A g \in DOMAIN image : image[g] = mem \/ Coming({"due", "queued"})

\* No key of the list that was marked as used before the signal is shown as unused.
Fresh(list) == \A i \in DOMAIN list : list[i].id \in early => list[i].used

\* One entry a key, and none of a key that was never created.
Proper(list) ==
    /\ \A i \in DOMAIN list : list[i].id \in issued
    /\ \A i, j \in DOMAIN list : list[i].id = list[j].id => i = j

ProperInv ==
    /\ early \subseteq issued
    /\ \A h \in Handler : job[h] # "none" => old[h].id \in issued
    /\ Proper(mem) /\ Proper(disk) /\ \A g \in DOMAIN image : Proper(image[g])

\* What has been marked is used in memory, and so is what is about to be marked.
MarksInv ==
    /\ Fresh(mem)
    /\ \A h \in Handler, i \in DOMAIN mem :
          job[h] = "stamp" /\ mem[i].id = old[h].id => mem[i].used

\* The loop will find the store dirty, at the latest in its last round.
LoopComes == dirty /\ loop \notin {"last", "stopped"}

\* The file and every list on its way there show it or will be replaced before the end.
ReachInv ==
    /\ Fresh(disk) \/ LoopComes \/ \E g \in Flusher : flush[g] \in {"queued", "writing"}
    /\ \A g \in DOMAIN image :
          Fresh(image[g]) \/ LoopComes \/ \E f \in Flusher : flush[f] = "queued"

UsedInv == failed = 0 => (dirty => registered) /\ ProperInv /\ MarksInv /\ ReachInv

KeysInv == Typed /\ AnsweredInv /\ CleanInv /\ UsedInv
-----------------------------------------------------------------------------
\* A handler that holds no record holds a proper one all the same.
LEMMA RecordsTyped ==
    /\ NoKey \in Key
    /\ \A id \in KeyId : NewKey(id) \in Key /\ NewKey(id).id = id
BY KeyAssumption DEF NoKey, NewKey, Key

\* The first entry of a key that is listed.
LEMMA IndexIn ==
    ASSUME NEW list, NEW id \in Ids(list)
    PROVE  Index(list, id) \in DOMAIN list /\ list[Index(list, id)].id = id
BY DEF Index, Ids

\* The indices of a list.
LEMMA Indices == ASSUME NEW list \in Seq(Key) PROVE DOMAIN list = 1 .. Len(list) /\ Len(list) \in Nat
OBVIOUS

\* What create makes of the list.
LEMMA Appended ==
    ASSUME NEW list \in Seq(Key), NEW k \in Key
    PROVE  /\ Append(list, k) \in Seq(Key)
           /\ DOMAIN Append(list, k) = 1 .. Len(list) + 1
           /\ \A j \in DOMAIN Append(list, k) :
                 Append(list, k)[j] = IF j <= Len(list) THEN list[j] ELSE k
BY AppendProperties

\* What delete makes of it.
LEMMA Shortened ==
    ASSUME NEW list \in Seq(Key), NEW i \in DOMAIN list
    PROVE  /\ Without(list, i) \in Seq(Key)
           /\ DOMAIN Without(list, i) = 1 .. Len(list) - 1
           /\ \A j \in DOMAIN Without(list, i) :
                 Without(list, i)[j] = IF j < i THEN list[j] ELSE list[j + 1]
<1>. DEFINE front == SubSeq(list, 1, i - 1)
            back == SubSeq(list, i + 1, Len(list))
<1>1. DOMAIN list = 1 .. Len(list) /\ Len(list) \in Nat /\ i \in 1 .. Len(list)
  BY Indices
<1>2. /\ front \in Seq(Key) /\ Len(front) = i - 1
      /\ \A j \in 1 .. i - 1 : front[j] = list[j]
  <2>1. \A j \in 1 .. i - 1 : list[j] \in Key
    BY <1>1, ElementOfSeq
  <2>2. /\ front \in Seq(Key)
        /\ Len(front) = IF 1 <= i - 1 THEN i - 1 - 1 + 1 ELSE 0
        /\ \A j \in 1 .. i - 1 - 1 + 1 : front[j] = list[1 + j - 1]
    BY <1>1, <2>1, SubSeqProperties
  <2>. QED
    BY <1>1, <2>2
<1>3. /\ back \in Seq(Key) /\ Len(back) = Len(list) - i
      /\ \A j \in 1 .. Len(list) - i : back[j] = list[i + j]
  <2>1. \A j \in i + 1 .. Len(list) : list[j] \in Key
    BY <1>1, ElementOfSeq
  <2>2. /\ back \in Seq(Key)
        /\ Len(back) = IF i + 1 <= Len(list) THEN Len(list) - (i + 1) + 1 ELSE 0
        /\ \A j \in 1 .. Len(list) - (i + 1) + 1 : back[j] = list[(i + 1) + j - 1]
    BY <1>1, <2>1, SubSeqProperties
  <2>. QED
    BY <1>1, <2>2
<1>. HIDE DEF front, back
<1>4. /\ front \o back \in Seq(Key) /\ Len(front \o back) = Len(front) + Len(back)
      /\ \A j \in 1 .. Len(front) + Len(back) :
            (front \o back)[j] = IF j <= Len(front) THEN front[j] ELSE back[j - Len(front)]
  BY <1>2, <1>3, ConcatProperties
<1>5. Without(list, i) = front \o back
  BY DEF Without, front, back
<1>6. /\ front \o back \in Seq(Key)
      /\ DOMAIN (front \o back) = 1 .. Len(list) - 1
  <2>1. Len(front \o back) = Len(list) - 1
    BY <1>1, <1>2, <1>3, <1>4
  <2>2. DOMAIN (front \o back) = 1 .. Len(front \o back)
    BY ONLY <1>4, Indices
  <2>. QED
    BY <1>4, <2>1, <2>2
<1>7. ASSUME NEW j \in 1 .. Len(list) - 1
      PROVE  (front \o back)[j] = IF j < i THEN list[j] ELSE list[j + 1]
  <2>1. j \in 1 .. Len(front) + Len(back)
    BY <1>1, <1>2, <1>3
  <2>2. CASE j < i
    BY <1>1, <1>2, <1>4, <2>1, <2>2
  <2>3. CASE ~(j < i)
    <3>1. /\ j - Len(front) \in 1 .. Len(list) - i /\ ~(j <= Len(front))
          /\ i + (j - Len(front)) = j + 1
      BY <1>1, <1>2, <2>3
    <3>. QED
      BY <1>3, <1>4, <2>1, <2>3, <3>1
  <2>. QED
    BY <2>2, <2>3
<1>. QED
  BY <1>5, <1>6, <1>7

\* What the undoing of a delete makes of it.
LEMMA Lengthened ==
    ASSUME NEW list \in Seq(Key), NEW i \in 1 .. Len(list) + 1, NEW k \in Key
    PROVE  With(list, i, k) \in Seq(Key)
<1>1. Len(list) \in Nat
  OBVIOUS
<1>2. SubSeq(list, 1, i - 1) \in Seq(Key)
  BY <1>1, ElementOfSeq, SubSeqProperties
<1>3. SubSeq(list, i, Len(list)) \in Seq(Key)
  BY <1>1, ElementOfSeq, SubSeqProperties
<1>4. <<k>> \in Seq(Key)
  OBVIOUS
<1>5. SubSeq(list, 1, i - 1) \o <<k>> \in Seq(Key)
  BY <1>2, <1>4, ConcatProperties
<1>. QED
  BY <1>3, <1>5, ConcatProperties DEF With

\* What the undoing of a create makes of it.
LEMMA Cut == ASSUME NEW list \in Seq(Key) PROVE SubSeq(list, 1, Len(list) - 1) \in Seq(Key)
BY ElementOfSeq, SubSeqProperties

\* What update makes of it.
Retermed(list, i, revoked, limit) == [list EXCEPT ![i].revoked = revoked, ![i].limit = limit]

\* It changes the terms of one entry and nothing else.
LEMMA Changed ==
    ASSUME NEW list \in Seq(Key), NEW i \in DOMAIN list,
           NEW revoked \in BOOLEAN, NEW limit \in KeyLimit
    PROVE  LET new == Retermed(list, i, revoked, limit)
           IN  /\ new \in Seq(Key) /\ DOMAIN new = DOMAIN list
               /\ \A j \in DOMAIN list :
                     /\ new[j].id = list[j].id /\ new[j].used = list[j].used
                     /\ j # i => new[j] = list[j]
<1>. DEFINE k == [list[i] EXCEPT !.revoked = revoked, !.limit = limit]
<1>1. i \in 1 .. Len(list) /\ DOMAIN list = 1 .. Len(list) /\ list[i] \in Key
  BY ElementOfSeq
<1>2. k \in Key /\ k.id = list[i].id /\ k.used = list[i].used
  BY <1>1 DEF Key
<1>3. Retermed(list, i, revoked, limit) = [list EXCEPT ![i] = k]
  BY <1>1 DEF Retermed
<1>. HIDE DEF k
<1>4. /\ [list EXCEPT ![i] = k] \in Seq(Key)
      /\ DOMAIN [list EXCEPT ![i] = k] = DOMAIN list
      /\ \A j \in DOMAIN list : [list EXCEPT ![i] = k][j] = IF j = i THEN k ELSE list[j]
  BY <1>1, <1>2, ExceptSeq
<1>. QED
  BY <1>2, <1>3, <1>4

\* What stamp makes of it.
LEMMA Stamped ==
    ASSUME NEW list \in Seq(Key), NEW i \in DOMAIN list, NEW new,
           new = [list EXCEPT ![i].used = TRUE]
    PROVE  /\ new \in Seq(Key) /\ DOMAIN new = DOMAIN list
           /\ new[i].used
           /\ \A j \in DOMAIN list :
                 /\ new[j].id = list[j].id
                 /\ new[j].revoked = list[j].revoked /\ new[j].limit = list[j].limit
                 /\ list[j].used => new[j].used
<1>. DEFINE k == [list[i] EXCEPT !.used = TRUE]
<1>1. i \in 1 .. Len(list) /\ DOMAIN list = 1 .. Len(list) /\ list[i] \in Key
  BY ElementOfSeq
<1>2. /\ k \in Key /\ k.id = list[i].id /\ k.used
      /\ k.revoked = list[i].revoked /\ k.limit = list[i].limit
  BY <1>1 DEF Key
<1>3. new = [list EXCEPT ![i] = k]
  BY <1>1
<1>. HIDE DEF k
<1>4. /\ [list EXCEPT ![i] = k] \in Seq(Key)
      /\ DOMAIN [list EXCEPT ![i] = k] = DOMAIN list
      /\ \A j \in DOMAIN list : [list EXCEPT ![i] = k][j] = IF j = i THEN k ELSE list[j]
  BY <1>1, <1>2, ExceptSeq
<1>. QED
  BY <1>1, <1>2, <1>3, <1>4
-----------------------------------------------------------------------------
\* The first list is one of keys, and nobody is at work.
LEMMA TypedInit == KeyStoreInit => Typed
<1>. SUFFICES ASSUME KeyStoreInit PROVE Typed
  OBVIOUS
<1>. DEFINE start == [i \in DOMAIN Stored |-> NewKey(Stored[i])]
<1>1. start \in Seq(Key)
  <2>1. DOMAIN Stored = 1 .. Len(Stored) /\ Len(Stored) \in Nat
    BY KeyAssumption
  <2>2. \A i \in DOMAIN Stored : start[i] \in Key
    BY <2>1, KeyAssumption, ElementOfSeq, RecordsTyped
  <2>. QED
    BY <2>1, <2>2
<1>2. KeyStoreTypeOK
  <2>1. issued \subseteq KeyId
    BY KeyAssumption, ElementOfSeq DEF KeyStoreInit
  <2>2. mem \in Seq(Key) /\ disk \in Seq(Key)
    BY <1>1 DEF KeyStoreInit, PersistInit
  <2>3. flush \in [Flusher -> FlushPlace] /\ writer \in Flusher \cup {Nobody}
    BY DEF KeyStoreInit, PersistInit, FlushPlace
  <2>4. DOMAIN image = {}
    BY DEF KeyStoreInit, PersistInit
  <2>5. /\ failed \in 0 .. MaxFail /\ requests \in 0 .. MaxRequest
        /\ crashes \in 0 .. MaxCrash
    BY PersistAssumption, KeyAssumption DEF KeyStoreInit, PersistInit
  <2>6. dirty \in BOOLEAN /\ registered \in BOOLEAN
    BY DEF KeyStoreInit, PersistInit
  <2>7. /\ job \in [Handler -> Job] /\ at \in [Handler -> Nat \ {0}]
        /\ old \in [Handler -> Key]
    BY RecordsTyped DEF KeyStoreInit, Job
  <2>8. /\ locked \in BOOLEAN /\ stranded \in BOOLEAN /\ early \subseteq KeyId
        /\ stage \in Stage /\ loop \in LoopPlace
    BY DEF KeyStoreInit, Stage, LoopPlace
  <2>. QED
    BY <2>1, <2>2, <2>3, <2>4, <2>5, <2>6, <2>7, <2>8 DEF KeyStoreTypeOK, PersistTypeOK
<1>3. FlowInv
  BY DEF KeyStoreInit, PersistInit, FlowInv, Flusher, Changes
<1>. QED
  BY <1>2, <1>3 DEF Typed

\* A request is accepted.
LEMMA Entered ==
    ASSUME Typed, NEW h \in Handler, Free(h),
           NEW what \in Job \ {"none"}, NEW record \in Key, NEW place,
           place = IF what = "stamp" THEN "none" ELSE "due",
           Enter(h, what, record, place),
           mem' \in Seq(Key), at' \in [Handler -> Nat \ {0}], issued' \subseteq KeyId
    PROVE  Typed'
<1>1. /\ job \in [Handler -> Job] /\ flush \in [Flusher -> FlushPlace]
      /\ h \in Flusher /\ h # Loop
  BY PersistAssumption DEF Typed, KeyStoreTypeOK, PersistTypeOK, Flusher
<1>2. job[h] = "none" /\ flush[h] = "none"
  BY DEF Free, Typed, FlowInv, Changes
<1>3. KeyStoreTypeOK'
  <2>1. job' \in [Handler -> Job] /\ old' \in [Handler -> Key]
    BY DEF Enter, Typed, KeyStoreTypeOK
  <2>2. flush' \in [Flusher -> FlushPlace]
    BY <1>1 DEF Enter, GoFlush, FlushPlace
  <2>3. requests' \in 0 .. MaxRequest
    BY KeyAssumption DEF Enter, Free, Typed, KeyStoreTypeOK
  <2>. QED
    BY <2>1, <2>2, <2>3 DEF Enter, Typed, KeyStoreTypeOK, PersistTypeOK, lifeVars
<1>4. FlowInv'
  <2>1. \A g \in Flusher \ {h} : flush'[g] = flush[g]
    BY <1>1 DEF Enter, GoFlush
  <2>2. flush'[h] = place /\ place \in {"none", "due"} /\ job'[h] = what
    BY <1>1 DEF Enter, GoFlush
  <2>3. \A k \in Handler \ {h} : job'[k] = job[k]
    BY <1>1 DEF Enter
  <2>4. what \in Changes <=> place # "none"
    BY DEF Changes, Job
  <2>5. flush'[Loop] = flush[Loop]
    BY <1>1, <2>1 DEF Flusher
  <2>6. /\ image' = image /\ writer' = writer /\ failed' = failed
        /\ stage' = stage /\ loop' = loop
    BY DEF Enter, lifeVars
  <2>7. DOMAIN image' = {g \in Flusher : flush'[g] = "writing"}
    BY <1>2, <2>1, <2>2, <2>6 DEF Typed, FlowInv
  <2>8. \A g \in Flusher : flush'[g] = "writing" => writer' = g
    BY <2>1, <2>2, <2>6 DEF Typed, FlowInv
  <2>9. \A k \in Handler : job'[k] \in Changes <=> flush'[k] # "none"
    BY <2>1, <2>2, <2>3, <2>4 DEF Typed, FlowInv, Flusher
  <2>10. failed' = 0 => \A k \in Handler : flush'[k] # "failed"
    BY <2>1, <2>2, <2>6 DEF Typed, FlowInv, Flusher
  <2>. QED
    BY <2>5, <2>6, <2>7, <2>8, <2>9, <2>10 DEF Typed, FlowInv
<1>. QED
  BY <1>3, <1>4 DEF Typed

\* A handler or the loop gets on with its flush; what it is about stays what it was.
LEMMA Flushing ==
    ASSUME Typed, NEW g \in Flusher, NEW place \in FlushPlace, GoFlush(g, place),
           flush[g] # "writing" /\ place # "writing" /\ image' = image /\ writer' = writer,
           KeyStoreTypeOK',
           \A h \in Handler : g = h => (job'[h] \in Changes <=> place # "none"),
           \A h \in Handler : g # h => job'[h] = job[h],
           g = Loop => place \in {"none", "queued"},
           loop' \in {"saving", "last"} <=> flush'[Loop] # "none",
           loop' \in {"last", "stopped"} => stage' # "serving",
           stage' = "down" => loop' = "stopped",
           failed' = 0 => failed = 0 /\ place # "failed"
    PROVE  Typed'
<1>1. flush \in [Flusher -> FlushPlace]
  BY DEF Typed, KeyStoreTypeOK, PersistTypeOK
<1>2. flush'[g] = place /\ \A f \in Flusher \ {g} : flush'[f] = flush[f]
  BY <1>1 DEF GoFlush
<1>3. DOMAIN image' = {f \in Flusher : flush'[f] = "writing"}
  BY <1>2 DEF Typed, FlowInv
<1>4. \A f \in Flusher : flush'[f] = "writing" => writer' = f
  BY <1>2 DEF Typed, FlowInv
<1>5. \A h \in Handler : job'[h] \in Changes <=> flush'[h] # "none"
  BY <1>2 DEF Typed, FlowInv, Flusher
<1>6. flush'[Loop] \in {"none", "queued", "writing"}
  BY <1>2 DEF Typed, FlowInv, Flusher
<1>7. failed' = 0 => \A h \in Handler : flush'[h] # "failed"
  BY <1>2 DEF Typed, FlowInv, Flusher
<1>. QED
  BY <1>3, <1>4, <1>5, <1>6, <1>7 DEF Typed, FlowInv

\* The writer is done.
LEMMA WriteEnds ==
    ASSUME Typed, NEW g \in Flusher, NEW place \in {"none", "failed"}, GoFlush(g, place),
           flush[g] = "writing", writer' = Nobody, Drop(g),
           KeyStoreTypeOK',
           \A h \in Handler : g = h => (job'[h] \in Changes <=> place # "none"),
           \A h \in Handler : g # h => job'[h] = job[h],
           g = Loop => place = "none",
           loop' \in {"saving", "last"} <=> flush'[Loop] # "none",
           loop' \in {"last", "stopped"} => stage' # "serving",
           stage' = "down" => loop' = "stopped",
           failed' = 0 => failed = 0 /\ place # "failed"
    PROVE  Typed'
<1>1. flush \in [Flusher -> FlushPlace]
  BY DEF Typed, KeyStoreTypeOK, PersistTypeOK
<1>2. flush'[g] = place /\ \A f \in Flusher \ {g} : flush'[f] = flush[f]
  BY <1>1 DEF GoFlush
<1>3. \A f \in Flusher : flush'[f] # "writing"
  BY <1>2 DEF Typed, FlowInv
<1>4. DOMAIN image' = {}
  BY <1>2, <1>3 DEF Drop, Typed, FlowInv
<1>5. \A h \in Handler : job'[h] \in Changes <=> flush'[h] # "none"
  BY <1>2 DEF Typed, FlowInv, Flusher
<1>6. flush'[Loop] \in {"none", "queued", "writing"}
  BY <1>2 DEF Typed, FlowInv, Flusher
<1>7. failed' = 0 => \A h \in Handler : flush'[h] # "failed"
  BY <1>2 DEF Typed, FlowInv, Flusher
<1>. QED
  BY <1>3, <1>4, <1>5, <1>6, <1>7 DEF Typed, FlowInv

\* The four requests are accepted with a list of keys.
LEMMA RequestTyped ==
    ASSUME Typed, NEW h \in Handler, KeyRequest(h)
    PROVE  Typed'
<1>1. mem \in Seq(Key) /\ at \in [Handler -> Nat \ {0}] /\ issued \subseteq KeyId
  BY DEF Typed, KeyStoreTypeOK, PersistTypeOK
<1>2. CASE \E id \in KeyId : Create(h, id)
  <2>1. PICK id \in KeyId : Create(h, id)
    BY <1>2
  <2>2. mem' \in Seq(Key) /\ NewKey(id) \in Key
    BY <1>1, <2>1, RecordsTyped, Appended DEF Create
  <2>3. issued' \subseteq KeyId /\ at' \in [Handler -> Nat \ {0}]
    BY <1>1, <2>1 DEF Create
  <2>. QED
    BY <2>1, <2>2, <2>3, Entered DEF Create, Job
<1>3. CASE \E id \in KeyId : Delete(h, id)
  <2>1. PICK id \in KeyId : Delete(h, id)
    BY <1>3
  <2>. DEFINE i == Index(mem, id)
  <2>2. i \in DOMAIN mem /\ i \in Nat \ {0} /\ mem[i] \in Key
    BY <1>1, <2>1, IndexIn, ElementOfSeq DEF Delete
  <2>3. /\ Free(h) /\ mem' = Without(mem, i) /\ at' = [at EXCEPT ![h] = i]
        /\ Enter(h, "delete", mem[i], "due") /\ issued' = issued
    BY <2>1 DEF Delete
  <2>4. mem' \in Seq(Key)
    BY <1>1, <2>2, <2>3, Shortened
  <2>5. at' \in [Handler -> Nat \ {0}] /\ issued' \subseteq KeyId
    BY <1>1, <2>2, <2>3
  <2>. QED
    BY <2>2, <2>3, <2>4, <2>5, Entered DEF Job
<1>4. CASE \E id \in KeyId : Stamp(h, id)
  <2>1. PICK id \in KeyId : Stamp(h, id)
    BY <1>4
  <2>. DEFINE i == Index(mem, id)
  <2>2. i \in DOMAIN mem /\ mem[i] \in Key
    BY <1>1, <2>1, IndexIn, ElementOfSeq DEF Stamp
  <2>3. /\ Free(h) /\ mem' = [mem EXCEPT ![i].used = TRUE]
        /\ Enter(h, "stamp", mem[i], "none") /\ at' = at /\ issued' = issued
    BY <2>1 DEF Stamp
  <2>4. mem' \in Seq(Key)
    BY <1>1, <2>2, <2>3, Stamped
  <2>. QED
    BY <1>1, <2>2, <2>3, <2>4, Entered DEF Job
<1>5. CASE \E id \in KeyId, revoked \in BOOLEAN, limit \in KeyLimit :
              Update(h, id, revoked, limit)
  <2>1. PICK id \in KeyId, revoked \in BOOLEAN, limit \in KeyLimit :
                Update(h, id, revoked, limit)
    BY <1>5
  <2>. DEFINE i == Index(mem, id)
  <2>2. i \in DOMAIN mem /\ mem[i] \in Key
    BY <1>1, <2>1, IndexIn, ElementOfSeq DEF Update
  <2>3. /\ Free(h) /\ mem' = [mem EXCEPT ![i].revoked = revoked, ![i].limit = limit]
        /\ Enter(h, "update", mem[i], "due") /\ at' = at /\ issued' = issued
    BY <2>1 DEF Update
  <2>4. mem' = Retermed(mem, i, revoked, limit)
    BY <2>3 DEF Retermed
  <2>5. mem' \in Seq(Key)
    BY <1>1, <2>2, <2>4, Changed
  <2>. QED
    BY <1>1, <2>2, <2>3, <2>5, Entered DEF Job
<1>. QED
  BY <1>2, <1>3, <1>4, <1>5 DEF KeyRequest

\* What a handler leaves when it has answered.
LEMMA ForgottenTyped ==
    ASSUME Typed, NEW h \in Handler, Forgotten(h)
    PROVE  /\ job' \in [Handler -> Job] /\ at' \in [Handler -> Nat \ {0}]
           /\ old' \in [Handler -> Key]
           /\ job'[h] = "none" /\ \A k \in Handler : k # h => job'[k] = job[k] /\ old'[k] = old[k]
BY RecordsTyped DEF Forgotten, Typed, KeyStoreTypeOK, Job

\* What a flush leaves of the types.
LEMMA FlushTyped ==
    ASSUME Typed, NEW g \in Flusher, NEW place \in FlushPlace, GoFlush(g, place)
    PROVE  /\ flush' \in [Flusher -> FlushPlace]
           /\ flush'[g] = place /\ \A f \in Flusher : f # g => flush'[f] = flush[f]
BY DEF GoFlush, Typed, KeyStoreTypeOK, PersistTypeOK

\* A failed save is undone within the list, or not at all.
LEMMA UndoneTyped ==
    ASSUME Typed, NEW h \in Handler, flush[h] = "failed", ~OutOfRange(h)
    PROVE  Undone(h) \in Seq(Key)
<1>1. /\ mem \in Seq(Key) /\ old[h] \in Key /\ at[h] \in Nat \ {0}
      /\ job[h] \in Changes
  BY DEF Typed, KeyStoreTypeOK, PersistTypeOK, FlowInv
<1>2. CASE job[h] = "create"
  BY <1>1, <1>2, Cut DEF Undone
<1>3. CASE job[h] = "delete"
  <2>1. at[h] \in 1 .. Len(mem) + 1
    BY <1>1, <1>3 DEF OutOfRange
  <2>2. With(mem, at[h], old[h]) \in Seq(Key)
    BY <1>1, <2>1, Lengthened
  <2>. QED
    BY <1>3, <2>2 DEF Undone
<1>4. CASE job[h] = "update"
  <2>. DEFINE id == old[h].id
              revoked == old[h].revoked
              limit == old[h].limit
  <2>1. revoked \in BOOLEAN /\ limit \in KeyLimit
    BY <1>1 DEF Key
  <2>2. CASE id \in Ids(mem)
    <3>1. Index(mem, id) \in DOMAIN mem
      BY <2>2, IndexIn
    <3>2. Retermed(mem, Index(mem, id), revoked, limit) \in Seq(Key)
      BY <1>1, <2>1, <3>1, Changed
    <3>. QED
      BY <1>4, <2>2, <3>2 DEF Undone, Retermed
  <2>. QED
    BY <1>1, <1>4, <2>2 DEF Undone
<1>. QED
  BY <1>1, <1>2, <1>3, <1>4 DEF Changes

\* A flush reads the list.
LEMMA ReadTyped ==
    ASSUME Typed, NEW g \in Flusher, ReadList(g)
    PROVE  Typed'
<1>1. Read(g) /\ UNCHANGED <<keyVars, lifeVars>>
  BY DEF ReadList
<1>2. DOMAIN image = {}
  BY <1>1, PersistAssumption DEF Read, Typed, FlowInv, Flusher
<1>3. DOMAIN image' = {g} /\ image'[g] = mem
  BY <1>1, <1>2 DEF Read
<1>4. /\ flush' \in [Flusher -> FlushPlace]
      /\ flush'[g] = "writing" /\ \A f \in Flusher : f # g => flush'[f] = flush[f]
  BY <1>1, FlushTyped DEF Read, FlushPlace
<1>5. KeyStoreTypeOK'
  BY <1>1, <1>3, <1>4 DEF Read, Typed, KeyStoreTypeOK, PersistTypeOK, keyVars, lifeVars
<1>6. \A f \in Flusher : flush[f] # "writing"
  BY <1>2 DEF Typed, FlowInv
<1>7. DOMAIN image' = {f \in Flusher : flush'[f] = "writing"}
  BY <1>3, <1>4, <1>6
<1>8. \A f \in Flusher : flush'[f] = "writing" => writer' = f
  BY <1>1, <1>4, <1>6 DEF Read
<1>9. \A h \in Handler : job'[h] \in Changes <=> flush'[h] # "none"
  BY <1>1, <1>4 DEF Read, Typed, FlowInv, Flusher, keyVars
<1>10. /\ flush'[Loop] \in {"none", "queued", "writing"}
       /\ flush'[Loop] # "none" <=> flush[Loop] # "none"
  BY <1>1, <1>4 DEF Read, Typed, FlowInv, Flusher
<1>11. failed' = 0 => \A h \in Handler : flush'[h] # "failed"
  BY <1>1, <1>4 DEF Read, Typed, FlowInv, Flusher
<1>. QED
  BY <1>1, <1>5, <1>7, <1>8, <1>9, <1>10, <1>11 DEF Typed, FlowInv, lifeVars

\* What a handler does with its request.
LEMMA WorkTyped ==
    ASSUME Typed, NEW h \in Handler, Work(h)
    PROVE  Typed'
<1>1. h \in Flusher /\ h # Loop /\ Loop \in Flusher
  BY PersistAssumption DEF Flusher
<1>2. CASE Mark(h)
  <2>1. Forgotten(h) /\ flush[h] = "none"
    BY <1>2 DEF Mark, Typed, FlowInv, Changes
  <2>2. early' \subseteq KeyId
    BY <1>2 DEF Mark, Typed, KeyStoreTypeOK, Key
  <2>3. loop' \in LoopPlace
    BY <1>2 DEF Mark, Typed, KeyStoreTypeOK, LoopPlace
  <2>4. KeyStoreTypeOK'
    BY <1>2, <2>1, <2>2, <2>3, ForgottenTyped
       DEF Mark, MarkDirty, Typed, KeyStoreTypeOK, PersistTypeOK
  <2>5. \A k \in Handler : job'[k] \in Changes <=> flush'[k] # "none"
    BY <1>2, <2>1, ForgottenTyped DEF Mark, Typed, FlowInv, Changes
  <2>6. /\ loop' \in {"saving", "last"} <=> loop \in {"saving", "last"}
        /\ loop' \in {"last", "stopped"} <=> loop \in {"last", "stopped"}
        /\ loop = "stopped" => loop' = "stopped"
    BY <1>2 DEF Mark
  <2>7. UNCHANGED <<flush, image, writer, failed, stage>>
    BY <1>2 DEF Mark
  <2>. QED
    BY <2>4, <2>5, <2>6, <2>7 DEF Typed, FlowInv
<1>3. CASE StartSaving(h)
  <2>1. /\ GoFlush(h, "queued") /\ dirty' = FALSE /\ flush[h] = "due"
        /\ UNCHANGED <<mem, disk, registered, writer, image, failed, keyVars, lifeVars>>
    BY <1>3 DEF StartSaving, Queue
  <2>2. "queued" \in FlushPlace
    BY DEF FlushPlace
  <2>3. /\ flush' \in [Flusher -> FlushPlace]
        /\ flush'[h] = "queued" /\ \A f \in Flusher : f # h => flush'[f] = flush[f]
    BY <1>1, <2>1, <2>2, FlushTyped
  <2>4. KeyStoreTypeOK'
    BY <2>1, <2>3 DEF Typed, KeyStoreTypeOK, PersistTypeOK, keyVars, lifeVars
  <2>5. job' = job /\ job[h] \in Changes
    BY <2>1 DEF Typed, FlowInv, keyVars
  <2>. QED
    BY <1>1, <2>1, <2>2, <2>3, <2>4, <2>5, Flushing DEF Typed, FlowInv, lifeVars
<1>4. CASE ReadList(h)
  BY <1>1, <1>4, ReadTyped
<1>5. CASE Saved(h)
  <2>1. /\ Written(h) /\ Forgotten(h)
        /\ UNCHANGED <<locked, issued, requests, stranded, lifeVars>>
    BY <1>5 DEF Saved
  <2>2. /\ flush' \in [Flusher -> FlushPlace]
        /\ flush'[h] = "none" /\ \A f \in Flusher : f # h => flush'[f] = flush[f]
    BY <1>1, <2>1, FlushTyped DEF Written, FlushPlace
  <2>3. h \in DOMAIN image
    BY <1>1, <2>1 DEF Written, Typed, FlowInv
  <2>4. PersistTypeOK(Seq(Key))'
    BY <2>1, <2>2, <2>3 DEF Written, Drop, Typed, KeyStoreTypeOK, PersistTypeOK
  <2>5. KeyStoreTypeOK'
    BY <2>1, <2>4, ForgottenTyped DEF Typed, KeyStoreTypeOK, lifeVars
  <2>. QED
    BY <1>1, <2>1, <2>2, <2>5, ForgottenTyped, WriteEnds
       DEF Written, Typed, FlowInv, lifeVars, Changes
<1>6. CASE NotSaved(h)
  <2>1. NotWritten(h, "failed") /\ UNCHANGED <<keyVars, lifeVars>>
    BY <1>6 DEF NotSaved
  <2>2. /\ flush' \in [Flusher -> FlushPlace]
        /\ flush'[h] = "failed" /\ \A f \in Flusher : f # h => flush'[f] = flush[f]
    BY <1>1, <2>1, FlushTyped DEF NotWritten, FlushPlace
  <2>3. failed' \in 0 .. MaxFail /\ failed' # 0
    BY <2>1, PersistAssumption DEF NotWritten, Typed, KeyStoreTypeOK, PersistTypeOK
  <2>4. PersistTypeOK(Seq(Key))'
    BY <2>1, <2>2, <2>3 DEF NotWritten, Drop, Typed, KeyStoreTypeOK, PersistTypeOK
  <2>5. KeyStoreTypeOK'
    BY <2>1, <2>4 DEF Typed, KeyStoreTypeOK, lifeVars, keyVars
  <2>6. job' = job /\ job[h] \in Changes
    BY <2>1, <1>1 DEF NotWritten, Typed, FlowInv, keyVars
  <2>. QED
    BY <1>1, <2>1, <2>2, <2>3, <2>5, <2>6, WriteEnds
       DEF NotWritten, Typed, FlowInv, lifeVars
<1>7. CASE TakeBack(h)
  <2>1. /\ GoFlush(h, "none") /\ flush[h] = "failed" /\ Forgotten(h)
        /\ UNCHANGED <<disk, dirty, registered, writer, image, failed, issued, requests, lifeVars>>
    BY <1>7 DEF TakeBack
  <2>2. /\ flush' \in [Flusher -> FlushPlace]
        /\ flush'[h] = "none" /\ \A f \in Flusher : f # h => flush'[f] = flush[f]
    BY <1>1, <2>1, FlushTyped DEF FlushPlace
  <2>3. mem' \in Seq(Key)
    BY <1>7, <2>1, UndoneTyped DEF TakeBack, Typed, KeyStoreTypeOK, PersistTypeOK
  <2>4. locked' \in BOOLEAN /\ stranded' \in BOOLEAN
    BY <1>7 DEF TakeBack, OutOfRange, Typed, KeyStoreTypeOK
  <2>5. KeyStoreTypeOK'
    BY <2>1, <2>2, <2>3, <2>4, ForgottenTyped
       DEF Typed, KeyStoreTypeOK, PersistTypeOK, lifeVars
  <2>6. "none" \in FlushPlace
    BY DEF FlushPlace
  <2>. QED
    BY <1>1, <2>1, <2>2, <2>5, <2>6, ForgottenTyped, Flushing
       DEF Typed, FlowInv, lifeVars, Changes
<1>. QED
  BY <1>2, <1>3, <1>4, <1>5, <1>6, <1>7 DEF Work

\* The loop begins to save.
LEMMA LoopStartsTyped ==
    ASSUME Typed, NEW place \in {"saving", "last"}, LoopStarts(place), loop = "idle",
           place = "last" => stage = "stopping", stage # "down"
    PROVE  Typed'
<1>1. Loop \in Flusher /\ \A h \in Handler : h # Loop
  BY PersistAssumption DEF Flusher
<1>2. /\ dirty /\ dirty' = FALSE /\ GoFlush(Loop, "queued") /\ loop' = place
      /\ UNCHANGED <<mem, disk, registered, writer, image, failed, keyVars, stage, crashes, early>>
  BY DEF LoopStarts, QueuePending, Queue
<1>3. "queued" \in FlushPlace
  BY DEF FlushPlace
<1>4. flush' \in [Flusher -> FlushPlace] /\ flush'[Loop] = "queued"
  BY <1>1, <1>2, <1>3, FlushTyped
<1>5. flush[Loop] # "writing"
  BY DEF Typed, FlowInv
<1>6. KeyStoreTypeOK'
  BY <1>2, <1>4 DEF Typed, KeyStoreTypeOK, PersistTypeOK, keyVars, LoopPlace
<1>7. \A h \in Handler : job'[h] = job[h]
  BY <1>2 DEF keyVars
<1>. QED
  BY <1>1, <1>2, <1>3, <1>4, <1>5, <1>6, <1>7, Flushing

\* What the loop does.
LEMMA LoopTyped ==
    ASSUME Typed, LoopStep, stage # "down"
    PROVE  Typed'
<1>1. Loop \in Flusher /\ \A h \in Handler : h # Loop
  BY PersistAssumption DEF Flusher
<1>2. CASE LoopTick
  BY <1>2, LoopStartsTyped DEF LoopTick
<1>3. CASE ReadList(Loop)
  BY <1>1, <1>3, ReadTyped
<1>4. CASE LoopEnds
  <2>1. /\ flush[Loop] = "writing" /\ GoFlush(Loop, "none") /\ writer' = Nobody /\ Drop(Loop)
        /\ UNCHANGED <<mem, registered, keyVars, stage, crashes, early>>
    BY <1>4 DEF LoopEnds, Written, NotWritten
  <2>2. "none" \in FlushPlace
    BY DEF FlushPlace
  <2>3. flush' \in [Flusher -> FlushPlace] /\ flush'[Loop] = "none"
    BY <1>1, <2>1, <2>2, FlushTyped
  <2>4. disk' \in Seq(Key) /\ dirty' \in BOOLEAN
    <3>1. Loop \in DOMAIN image
      BY <1>1, <2>1 DEF Typed, FlowInv
    <3>. QED
      BY <1>4, <3>1 DEF LoopEnds, Written, NotWritten, Typed, KeyStoreTypeOK, PersistTypeOK
  <2>5. failed' \in 0 .. MaxFail /\ (failed' = 0 => failed = 0)
    BY <1>4, PersistAssumption
       DEF LoopEnds, Written, NotWritten, Typed, KeyStoreTypeOK, PersistTypeOK
  <2>6. loop' \in LoopPlace /\ loop' = IF loop = "last" THEN "stopped" ELSE "idle"
    BY <1>4 DEF LoopEnds, LoopPlace
  <2>7. PersistTypeOK(Seq(Key))'
    BY <2>1, <2>3, <2>4, <2>5 DEF Drop, Typed, KeyStoreTypeOK, PersistTypeOK
  <2>8. KeyStoreTypeOK'
    BY <2>1, <2>6, <2>7 DEF Typed, KeyStoreTypeOK, keyVars
  <2>9. \A h \in Handler : job'[h] = job[h]
    BY <2>1 DEF keyVars
  <2>10. loop = "last" => stage' # "serving"
    BY <2>1 DEF Typed, FlowInv
  <2>. QED
    BY <1>1, <2>1, <2>3, <2>5, <2>6, <2>8, <2>9, <2>10, WriteEnds
<1>5. CASE LastRound
  <2>1. CASE LoopStarts("last")
    BY <1>5, <2>1, LoopStartsTyped DEF LastRound
  <2>2. CASE loop' = "stopped" /\ UNCHANGED <<persistVars, keyVars, stage, crashes, early>>
    <3>1. KeyStoreTypeOK'
      BY <2>2 DEF Typed, KeyStoreTypeOK, PersistTypeOK, persistVars, keyVars, LoopPlace
    <3>. QED
      BY <1>5, <2>2, <3>1 DEF LastRound, Typed, FlowInv, persistVars, keyVars
  <2>. QED
    BY <1>5, <2>1, <2>2 DEF LastRound
<1>. QED
  BY <1>2, <1>3, <1>4, <1>5 DEF LoopStep

\* Types, flushes and jobs stay in order at every step.
LEMMA TypedStep == Typed /\ [KeyStoreNext]_keyStoreVars => Typed'
<1>. SUFFICES ASSUME Typed, [KeyStoreNext]_keyStoreVars PROVE Typed'
  OBVIOUS
<1>1. ASSUME NEW h \in Handler, KeyRequest(h) \/ Work(h) PROVE Typed'
  BY <1>1, RequestTyped, WorkTyped
<1>2. ASSUME stage # "down", LoopStep PROVE Typed'
  BY <1>2, LoopTyped
<1>3. CASE Signal
  <2>1. KeyStoreTypeOK'
    BY <1>3 DEF Signal, Typed, KeyStoreTypeOK, PersistTypeOK, persistVars, keyVars, Stage, LoopPlace
  <2>. QED
    BY <1>3, <2>1 DEF Signal, Typed, FlowInv, persistVars, keyVars
<1>4. CASE Exit
  <2>1. KeyStoreTypeOK'
    BY <1>4 DEF Exit, Typed, KeyStoreTypeOK, PersistTypeOK, persistVars, keyVars, Stage
  <2>. QED
    BY <1>4, <2>1 DEF Exit, Typed, FlowInv, persistVars, keyVars
<1>5. CASE Boot
  <2>1. crashes' \in 0 .. MaxCrash
    BY <1>5, KeyAssumption DEF Boot, Typed, KeyStoreTypeOK
  <2>2. DOMAIN image' = {} /\ flush' \in [Flusher -> FlushPlace] /\ \A g \in Flusher : flush'[g] = "none"
    BY <1>5 DEF Boot, FlushPlace
  <2>3. PersistTypeOK(Seq(Key))'
    BY <1>5, <2>2 DEF Boot, Typed, KeyStoreTypeOK, PersistTypeOK
  <2>4. /\ job' \in [Handler -> Job] /\ at' \in [Handler -> Nat \ {0}]
        /\ old' \in [Handler -> Key] /\ \A h \in Handler : job'[h] = "none"
    BY <1>5, RecordsTyped DEF Boot, Job
  <2>5. KeyStoreTypeOK'
    BY <1>5, <2>1, <2>3, <2>4 DEF Boot, Typed, KeyStoreTypeOK, Stage, LoopPlace
  <2>. QED
    BY <1>5, <2>2, <2>4, <2>5 DEF Boot, Typed, FlowInv, Flusher, Changes
<1>6. CASE UNCHANGED keyStoreVars
  <2>1. KeyStoreTypeOK'
    BY <1>6 DEF Typed, KeyStoreTypeOK, PersistTypeOK, keyStoreVars, persistVars, keyVars, lifeVars
  <2>. QED
    BY <1>6, <2>1 DEF Typed, FlowInv, keyStoreVars, persistVars, keyVars, lifeVars
<1>. QED
  BY <1>1, <1>2, <1>3, <1>4, <1>5, <1>6 DEF KeyStoreNext

\* They always are.
LEMMA KeyTyping == KeyStoreSpec => []Typed
BY TypedInit, TypedStep, PTL DEF KeyStoreSpec

\* Every variable keeps its type, whatever fails and whenever the process is killed: a
\* failed save is undone within the list, or not at all.
THEOREM KeyStoreTypeCorrect == KeyStoreSpec => []KeyStoreTypeOK
<1>1. Typed => KeyStoreTypeOK
  BY DEF Typed
<1>. QED
  BY <1>1, KeyTyping, PTL
-----------------------------------------------------------------------------
\* Lists that have the same entries for a key say the same of it.
LEMMA TermsSame ==
    ASSUME NEW a, NEW b, NEW id,
           \A i \in DOMAIN a : a[i].id = id =>
              \E j \in DOMAIN b : b[j].id = id /\ b[j].revoked = a[i].revoked /\ b[j].limit = a[i].limit,
           \A j \in DOMAIN b : b[j].id = id =>
              \E i \in DOMAIN a : a[i].id = id /\ a[i].revoked = b[j].revoked /\ a[i].limit = b[j].limit
    PROVE  Terms(a, id) = Terms(b, id)
BY DEF Terms

\* A request concerns its handler and the list in memory.
LEMMA RequestEnters ==
    ASSUME Typed, NEW h \in Handler, KeyRequest(h)
    PROVE  /\ job[h] = "none" /\ flush[h] = "none" /\ stage = "serving"
           /\ \A k \in Handler \ {h} : job'[k] = job[k] /\ old'[k] = old[k]
           /\ \A f \in Flusher \ {h} : flush'[f] = flush[f]
           /\ \/ job'[h] = "stamp" /\ flush'[h] = "none"
              \/ job'[h] \in Changes /\ flush'[h] = "due"
           /\ UNCHANGED <<disk, dirty, registered, writer, image, failed, locked, stranded, lifeVars>>
<1>0. PICK what \in {"create", "delete", "update", "stamp"} : \E record, place :
          /\ Enter(h, what, record, place) /\ Free(h)
          /\ place = IF what = "stamp" THEN "none" ELSE "due"
  BY DEF KeyRequest, Create, Delete, Update, Stamp
<1>1. PICK record, place :
          /\ Enter(h, what, record, place) /\ Free(h)
          /\ place = IF what = "stamp" THEN "none" ELSE "due"
  BY <1>0
<1>2. /\ job \in [Handler -> Job] /\ flush \in [Flusher -> FlushPlace] /\ h \in Flusher
      /\ old \in [Handler -> Key]
  BY DEF Typed, KeyStoreTypeOK, PersistTypeOK, Flusher
<1>3. job[h] = "none" /\ flush[h] = "none" /\ stage = "serving"
  BY <1>1 DEF Free, Typed, FlowInv, Changes
<1>. QED
  BY <1>1, <1>2, <1>3 DEF Enter, GoFlush, Changes

\* It changes what the list says of one key at most, and then a flush of its own is due.
LEMMA RequestBrings ==
    ASSUME Typed, NEW h \in Handler, KeyRequest(h), NEW id \in KeyId
    PROVE  Terms(mem', id) = Terms(mem, id) \/ Brings(h, id)'
<1>1. mem \in Seq(Key) /\ DOMAIN mem = 1 .. Len(mem) /\ Len(mem) \in Nat
  BY Indices DEF Typed, KeyStoreTypeOK, PersistTypeOK
<1>2. job \in [Handler -> Job] /\ old \in [Handler -> Key] /\ flush \in [Flusher -> FlushPlace]
      /\ h \in Flusher
  BY DEF Typed, KeyStoreTypeOK, PersistTypeOK, Flusher
<1>3. ASSUME NEW what \in Changes, NEW record, Enter(h, what, record, "due"), record.id = id
      PROVE  Brings(h, id)'
  BY <1>2, <1>3 DEF Enter, GoFlush, Brings
<1>4. CASE \E new \in KeyId : Create(h, new)
  <2>1. PICK new \in KeyId : Create(h, new)
    BY <1>4
  <2>2. mem' = Append(mem, NewKey(new)) /\ NewKey(new) \in Key /\ NewKey(new).id = new
    BY <2>1, RecordsTyped DEF Create
  <2>3. CASE new = id
    BY <1>3, <2>1, <2>2, <2>3 DEF Create, Changes
  <2>4. CASE new # id
    <3>1. /\ DOMAIN mem' = 1 .. Len(mem) + 1
          /\ \A j \in DOMAIN mem' : mem'[j] = IF j <= Len(mem) THEN mem[j] ELSE NewKey(new)
      BY <1>1, <2>2, Appended
    <3>2. \A j \in DOMAIN mem : j \in DOMAIN mem' /\ mem'[j] = mem[j]
      BY <1>1, <3>1
    <3>3. \A j \in DOMAIN mem' : mem'[j].id = id => j \in DOMAIN mem /\ mem'[j] = mem[j]
      BY <1>1, <2>2, <2>4, <3>1
    <3>. QED
      BY <3>2, <3>3, TermsSame
  <2>. QED
    BY <2>3, <2>4
<1>5. CASE \E gone \in KeyId : Delete(h, gone)
  <2>1. PICK gone \in KeyId : Delete(h, gone)
    BY <1>5
  <2>. DEFINE i == Index(mem, gone)
  <2>2. /\ i \in DOMAIN mem /\ mem[i].id = gone
        /\ mem' = Without(mem, i) /\ Enter(h, "delete", mem[i], "due")
    BY <2>1, IndexIn DEF Delete
  <2>3. CASE gone = id
    BY <1>3, <2>2, <2>3 DEF Changes
  <2>4. CASE gone # id
    <3>. HIDE DEF i
    <3>1. /\ DOMAIN mem' = 1 .. Len(mem) - 1
          /\ \A j \in DOMAIN mem' : mem'[j] = IF j < i THEN mem[j] ELSE mem[j + 1]
      BY <1>1, <2>2, Shortened
    <3>2. \A j \in DOMAIN mem' : j \in DOMAIN mem /\ j + 1 \in DOMAIN mem
      BY <1>1, <3>1
    <3>3. \A j \in DOMAIN mem : mem[j].id = id =>
             \E k \in DOMAIN mem' : mem'[k] = mem[j]
      <4>1. SUFFICES ASSUME NEW j \in DOMAIN mem, mem[j].id = id
                     PROVE  \E k \in DOMAIN mem' : mem'[k] = mem[j]
        OBVIOUS
      <4>2. j # i
        BY <2>2, <2>4, <4>1
      <4>3. CASE j < i
        <5>1. j \in DOMAIN mem' /\ mem'[j] = mem[j]
          BY <1>1, <2>2, <3>1, <4>3
        <5>. QED
          BY <5>1
      <4>4. CASE i < j
        <5>1. j - 1 \in DOMAIN mem' /\ ~(j - 1 < i) /\ (j - 1) + 1 = j
          BY <1>1, <2>2, <3>1, <4>4
        <5>2. mem'[j - 1] = mem[j]
          BY <3>1, <5>1
        <5>. QED
          BY <5>1, <5>2
      <4>. QED
        BY <1>1, <2>2, <4>2, <4>3, <4>4
    <3>4. \A j \in DOMAIN mem' : \E k \in DOMAIN mem : mem[k] = mem'[j]
      BY <3>1, <3>2
    <3>. QED
      BY <3>3, <3>4, TermsSame
  <2>. QED
    BY <2>3, <2>4
<1>6. CASE \E used \in KeyId : Stamp(h, used)
  <2>1. PICK used \in KeyId : Stamp(h, used)
    BY <1>6
  <2>2. Index(mem, used) \in DOMAIN mem /\ mem' = [mem EXCEPT ![Index(mem, used)].used = TRUE]
    BY <2>1, IndexIn DEF Stamp
  <2>3. /\ DOMAIN mem' = DOMAIN mem
        /\ \A j \in DOMAIN mem :
              /\ mem'[j].id = mem[j].id
              /\ mem'[j].revoked = mem[j].revoked /\ mem'[j].limit = mem[j].limit
    BY <1>1, <2>2, Stamped
  <2>. QED
    BY <2>3, TermsSame
<1>7. CASE \E new \in KeyId, revoked \in BOOLEAN, limit \in KeyLimit :
              Update(h, new, revoked, limit)
  <2>1. PICK new \in KeyId, revoked \in BOOLEAN, limit \in KeyLimit :
                Update(h, new, revoked, limit)
    BY <1>7
  <2>. DEFINE i == Index(mem, new)
  <2>2. /\ i \in DOMAIN mem /\ mem[i].id = new
        /\ mem' = Retermed(mem, i, revoked, limit)
        /\ Enter(h, "update", mem[i], "due")
    BY <2>1, IndexIn DEF Update, Retermed
  <2>3. CASE new = id
    BY <1>3, <2>2, <2>3 DEF Changes
  <2>4. CASE new # id
    <3>. HIDE DEF i
    <3>0. mem \in Seq(Key) /\ i \in DOMAIN mem
      BY <1>1, <2>2
    <3>. DEFINE list == Retermed(mem, i, revoked, limit)
    <3>1. /\ DOMAIN list = DOMAIN mem
          /\ \A j \in DOMAIN mem : list[j].id = mem[j].id
          /\ \A j \in DOMAIN mem : j # i => list[j] = mem[j]
      BY ONLY <3>0, Changed
    <3>2. /\ DOMAIN mem' = DOMAIN mem
          /\ \A j \in DOMAIN mem : mem'[j].id = mem[j].id
          /\ \A j \in DOMAIN mem : j # i => mem'[j] = mem[j]
      BY <2>2, <3>1
    <3>3. \A j \in DOMAIN mem : mem[j].id = id => mem'[j] = mem[j]
      BY <2>2, <2>4, <3>2
    <3>4. \A j \in DOMAIN mem : mem'[j].id = id => mem'[j] = mem[j]
      BY <2>2, <2>4, <3>2
    <3>. QED
      BY <3>2, <3>3, <3>4, TermsSame
  <2>. QED
    BY <2>3, <2>4
<1>. QED
  BY <1>4, <1>5, <1>6, <1>7 DEF KeyRequest

\* The invariant, of the next state.
LEMMA AnsweredNext ==
    ASSUME \A id \in KeyId : Pending(id)' \/ Terms(mem', id) = Terms(disk', id),
           \A g \in DOMAIN image', id \in KeyId :
              Terms(image'[g], id) = Terms(mem', id) \/ \E h \in Handler : Brings(h, id)'
    PROVE  AnsweredInv'
BY DEF AnsweredInv, AnsweredIsSaved, Terms

\* Requests bring what they change.
LEMMA AnsweredRequest ==
    ASSUME Typed, AnsweredInv, failed = 0, NEW h \in Handler, KeyRequest(h)
    PROVE  AnsweredInv'
<1>1. /\ job[h] = "none"
      /\ \A k \in Handler \ {h} : job'[k] = job[k] /\ old'[k] = old[k]
      /\ \A f \in Flusher \ {h} : flush'[f] = flush[f]
      /\ disk' = disk /\ image' = image
  BY RequestEnters
<1>2. \A id \in KeyId : Terms(mem', id) = Terms(mem, id) \/ Brings(h, id)'
  BY RequestBrings
<1>3. ASSUME NEW id \in KeyId PROVE Brings(h, id)' => Pending(id)'
  BY DEF Brings, Pending, Changes
<1>4. ASSUME NEW id \in KeyId PROVE Pending(id) => Pending(id)'
  BY <1>1 DEF Pending
<1>5. ASSUME NEW id \in KeyId, NEW k \in Handler, Brings(k, id) PROVE Brings(k, id)'
  BY <1>1, <1>5 DEF Brings, Changes, Flusher
<1>6. \A id \in KeyId : Pending(id)' \/ Terms(mem', id) = Terms(disk', id)
  BY <1>1, <1>2, <1>3, <1>4 DEF AnsweredInv, AnsweredIsSaved
<1>7. \A g \in DOMAIN image', id \in KeyId :
         Terms(image'[g], id) = Terms(mem', id) \/ \E k \in Handler : Brings(k, id)'
  BY <1>1, <1>2, <1>5 DEF AnsweredInv
<1>. QED
  BY <1>6, <1>7, AnsweredNext

\* A list that is written lacks only what others bring.
LEMMA AnsweredWritten ==
    ASSUME Typed, AnsweredInv, failed = 0, NEW g \in Flusher, Written(g),
           \A h \in Handler : h # g => job'[h] = job[h] /\ old'[h] = old[h]
    PROVE  AnsweredInv'
<1>1. /\ flush[g] = "writing" /\ disk' = image[g] /\ mem' = mem /\ g \in DOMAIN image
      /\ \A f \in Flusher : f # g => flush'[f] = flush[f]
  BY DEF Written, GoFlush, Typed, KeyStoreTypeOK, PersistTypeOK, FlowInv
<1>2. DOMAIN image' = {}
  <2>1. DOMAIN image = {g}
    BY <1>1 DEF Typed, FlowInv
  <2>. QED
    BY <2>1 DEF Written, Drop
<1>3. ASSUME NEW id \in KeyId, NEW h \in Handler, Brings(h, id) PROVE Pending(id)'
  <2>1. h # g
    BY <1>1, <1>3 DEF Brings
  <2>. QED
    BY <1>3, <2>1 DEF Brings, Pending, Changes
<1>4. \A id \in KeyId : Pending(id)' \/ Terms(mem', id) = Terms(disk', id)
  BY <1>1, <1>3 DEF AnsweredInv
<1>. QED
  BY <1>2, <1>4, AnsweredNext

\* Steps that touch neither the lists nor what handlers are at.
LEMMA AnsweredElsewhere ==
    ASSUME Typed, AnsweredInv, failed = 0, UNCHANGED <<mem, disk, image>>,
           \A h \in Handler, id \in KeyId : Brings(h, id) => Brings(h, id)',
           \A id \in KeyId : Pending(id) => Pending(id)'
    PROVE  AnsweredInv'
<1>1. \A id \in KeyId : Pending(id)' \/ Terms(mem', id) = Terms(disk', id)
  BY DEF AnsweredInv, AnsweredIsSaved
<1>2. \A g \in DOMAIN image', id \in KeyId :
         Terms(image'[g], id) = Terms(mem', id) \/ \E k \in Handler : Brings(k, id)'
  BY DEF AnsweredInv
<1>. QED
  BY <1>1, <1>2, AnsweredNext

\* What is read is the memory.
LEMMA AnsweredRead ==
    ASSUME Typed, AnsweredInv, failed = 0, NEW g \in Flusher, ReadList(g)
    PROVE  AnsweredInv'
<1>1. /\ Read(g) /\ mem' = mem /\ disk' = disk /\ job' = job /\ old' = old
  BY DEF ReadList, Read, keyVars
<1>2. DOMAIN image = {}
  BY <1>1, PersistAssumption DEF Read, Typed, FlowInv, Flusher
<1>3. DOMAIN image' = {g} /\ image'[g] = mem
  BY <1>1, <1>2 DEF Read
<1>4. \A id \in KeyId : Pending(id)' \/ Terms(mem', id) = Terms(disk', id)
  BY <1>1 DEF AnsweredInv, AnsweredIsSaved, Pending
<1>5. \A f \in DOMAIN image', id \in KeyId : Terms(image'[f], id) = Terms(mem', id)
  BY <1>1, <1>3
<1>. QED
  BY <1>4, <1>5, AnsweredNext

\* No step loses what was told.
LEMMA AnsweredStep == Typed /\ AnsweredInv /\ [KeyStoreNext]_keyStoreVars => AnsweredInv'
<1>. SUFFICES ASSUME Typed, AnsweredInv, [KeyStoreNext]_keyStoreVars, failed' = 0
              PROVE  AnsweredInv'
  BY DEF AnsweredInv
<1>0. /\ job \in [Handler -> Job] /\ old \in [Handler -> Key] /\ flush \in [Flusher -> FlushPlace]
      /\ failed \in Nat /\ Handler \subseteq Flusher /\ Loop \notin Handler /\ Loop \in Flusher
  BY PersistAssumption DEF Typed, KeyStoreTypeOK, PersistTypeOK, Flusher
<1>1. ASSUME NEW h \in Handler, KeyRequest(h) PROVE AnsweredInv'
  <2>1. failed = 0
    BY <1>1, RequestEnters
  <2>. QED
    BY <1>1, <2>1, AnsweredRequest
<1>2. ASSUME NEW h \in Handler, Work(h) PROVE AnsweredInv'
  <2>1. CASE Mark(h)
    <3>1. /\ \A k \in Handler, id \in KeyId : Brings(k, id) => Brings(k, id)'
          /\ \A id \in KeyId : Pending(id) => Pending(id)'
      BY <1>0, <2>1 DEF Mark, Forgotten, Brings, Pending, Changes
    <3>. QED
      BY <2>1, <3>1, AnsweredElsewhere DEF Mark
  <2>2. CASE StartSaving(h)
    <3>1. /\ \A k \in Handler, id \in KeyId : Brings(k, id) => Brings(k, id)'
          /\ \A id \in KeyId : Pending(id) => Pending(id)'
      BY <1>0, <2>2 DEF StartSaving, Queue, GoFlush, Brings, Pending, Changes, keyVars
    <3>. QED
      BY <2>2, <3>1, AnsweredElsewhere DEF StartSaving
  <2>3. CASE ReadList(h)
    BY <1>0, <2>3, AnsweredRead DEF ReadList, Read
  <2>4. CASE Saved(h)
    BY <1>0, <2>4, AnsweredWritten DEF Saved, Written, Forgotten
  <2>5. CASE NotSaved(h)
    BY <1>0, <2>5 DEF NotSaved, NotWritten
  <2>6. CASE TakeBack(h)
    BY <1>0, <2>6 DEF TakeBack, Typed, FlowInv
  <2>. QED
    BY <1>2, <2>1, <2>2, <2>3, <2>4, <2>5, <2>6 DEF Work
<1>3. ASSUME NEW place, LoopStarts(place) PROVE AnsweredInv'
  <2>1. /\ \A k \in Handler, id \in KeyId : Brings(k, id) => Brings(k, id)'
        /\ \A id \in KeyId : Pending(id) => Pending(id)'
    BY <1>0, <1>3 DEF LoopStarts, QueuePending, Queue, GoFlush, Brings, Pending, Changes, keyVars
  <2>. QED
    BY <1>3, <2>1, AnsweredElsewhere DEF LoopStarts
<1>4. ASSUME UNCHANGED <<mem, disk, image, flush, job, old, failed>> PROVE AnsweredInv'
  <2>1. /\ \A k \in Handler, id \in KeyId : Brings(k, id) => Brings(k, id)'
        /\ \A id \in KeyId : Pending(id) => Pending(id)'
    BY <1>4 DEF Brings, Pending
  <2>. QED
    BY <1>4, <2>1, AnsweredElsewhere
<1>5. CASE LoopStep
  <2>1. CASE LoopEnds
    <3>1. CASE Written(Loop)
      BY <1>0, <2>1, <3>1, AnsweredWritten DEF LoopEnds, keyVars, Written
    <3>2. CASE NotWritten(Loop, "none")
      BY <1>0, <3>2 DEF NotWritten
    <3>. QED
      BY <2>1, <3>1, <3>2 DEF LoopEnds
  <2>2. CASE ReadList(Loop)
    BY <1>0, <2>2, AnsweredRead DEF ReadList, Read
  <2>3. CASE LoopTick
    BY <1>3, <2>3 DEF LoopTick
  <2>4. CASE LastRound
    BY <1>3, <1>4, <2>4 DEF LastRound, persistVars, keyVars
  <2>. QED
    BY <1>5, <2>1, <2>2, <2>3, <2>4 DEF LoopStep
<1>6. CASE Signal \/ Exit \/ UNCHANGED keyStoreVars
  BY <1>4, <1>6 DEF Signal, Exit, keyStoreVars, persistVars, keyVars
<1>7. CASE Boot
  <2>1. DOMAIN image' = {} /\ mem' = disk'
    BY <1>7 DEF Boot
  <2>. QED
    BY <2>1, AnsweredNext
<1>. QED
  BY <1>1, <1>2, <1>5, <1>6, <1>7 DEF KeyStoreNext

\* At first the file is the memory.
LEMMA AnsweredInit == KeyStoreInit => AnsweredInv
BY DEF KeyStoreInit, PersistInit, AnsweredInv, AnsweredIsSaved
-----------------------------------------------------------------------------
\* The three who can be about to save.
LEMMA ComingIs ==
    ASSUME NEW places
    PROVE  /\ dirty' => Coming(places)'
           /\ \A g \in Flusher : flush'[g] \in places => Coming(places)'
           /\ \A h \in Handler : job'[h] = "stamp" => Coming(places)'
BY DEF Coming

\* The invariant, of the next state.
LEMMA CleanNext ==
    ASSUME disk' = mem' \/ Coming({"due", "queued", "writing"})',
           \A g \in DOMAIN image' : image'[g] = mem' \/ Coming({"due", "queued"})'
    PROVE  CleanInv'
BY DEF CleanInv

\* A list that is written is the memory, or somebody else is about to save.
LEMMA CleanWritten ==
    ASSUME Typed, CleanInv, ~stranded, NEW g \in Flusher, Written(g),
           \A h \in Handler : h # g => job'[h] = job[h]
    PROVE  CleanInv'
<1>1. /\ flush[g] = "writing" /\ disk' = image[g] /\ mem' = mem /\ dirty' = dirty
      /\ g \in DOMAIN image
      /\ \A f \in Flusher : f # g => flush'[f] = flush[f]
  BY DEF Written, GoFlush, Typed, KeyStoreTypeOK, PersistTypeOK, FlowInv
<1>2. DOMAIN image' = {}
  <2>1. DOMAIN image = {g}
    BY <1>1 DEF Typed, FlowInv
  <2>. QED
    BY <2>1 DEF Written, Drop
<1>3. \A h \in Handler : job[h] = "stamp" => h # g
  BY <1>1 DEF Typed, FlowInv, Changes
<1>4. Coming({"due", "queued"}) => Coming({"due", "queued", "writing"})'
  BY <1>1, <1>3 DEF Coming
<1>5. disk' = mem' \/ Coming({"due", "queued", "writing"})'
  BY <1>1, <1>4 DEF CleanInv
<1>. QED
  BY <1>2, <1>5, CleanNext

\* No step loses the memory silently.
LEMMA CleanStep == Typed /\ CleanInv /\ [KeyStoreNext]_keyStoreVars => CleanInv'
<1>. SUFFICES ASSUME Typed, CleanInv, [KeyStoreNext]_keyStoreVars, ~stranded'
              PROVE  CleanInv'
  BY DEF CleanInv
<1>0. /\ Handler \subseteq Flusher /\ Loop \notin Handler /\ Loop \in Flusher
  BY PersistAssumption DEF Flusher
<1>1. ASSUME NEW h \in Handler, KeyRequest(h) PROVE CleanInv'
  <2>1. job'[h] = "stamp" \/ flush'[h] = "due"
    BY <1>1, RequestEnters
  <2>2. Coming({"due", "queued", "writing"})' /\ Coming({"due", "queued"})'
    BY <1>0, <2>1, ComingIs
  <2>. QED
    BY <2>2, CleanNext
<1>2. ASSUME dirty' = TRUE PROVE CleanInv'
  BY <1>2, ComingIs, CleanNext
<1>3. ASSUME NEW g \in Flusher, flush'[g] = "queued" PROVE CleanInv'
  <2>1. Coming({"due", "queued", "writing"})' /\ Coming({"due", "queued"})'
    BY <1>3, ComingIs
  <2>. QED
    BY <2>1, CleanNext
<1>4. ASSUME NEW g \in Flusher, ReadList(g) PROVE CleanInv'
  <2>1. Read(g)
    BY <1>4 DEF ReadList
  <2>2. DOMAIN image = {}
    BY <2>1, PersistAssumption DEF Read, Typed, FlowInv, Flusher
  <2>3. DOMAIN image' = {g} /\ image'[g] = mem'
    BY <2>1, <2>2 DEF Read
  <2>4. flush'[g] = "writing"
    BY <2>1 DEF Read, GoFlush, Typed, KeyStoreTypeOK, PersistTypeOK
  <2>. QED
    BY <2>3, <2>4, ComingIs, CleanNext
<1>5. ASSUME NEW h \in Handler, Work(h) PROVE CleanInv'
  <2>1. CASE Mark(h)
    BY <1>2, <2>1 DEF Mark, MarkDirty
  <2>2. CASE StartSaving(h)
    <3>1. flush'[h] = "queued"
      BY <1>0, <2>2 DEF StartSaving, Queue, GoFlush, Typed, KeyStoreTypeOK, PersistTypeOK
    <3>. QED
      BY <1>0, <1>3, <3>1
  <2>3. CASE ReadList(h)
    BY <1>0, <1>4, <2>3
  <2>4. CASE Saved(h)
    <3>1. /\ Written(h) /\ ~stranded
          /\ \A k \in Handler : k # h => job'[k] = job[k]
      BY <2>4 DEF Saved, Forgotten, Typed, KeyStoreTypeOK
    <3>. QED
      BY <1>0, <3>1, CleanWritten
  <2>5. CASE NotSaved(h)
    BY <1>2, <2>5 DEF NotSaved, NotWritten
  <2>6. CASE TakeBack(h)
    BY <1>2, <2>6 DEF TakeBack, Typed, KeyStoreTypeOK, PersistTypeOK
  <2>. QED
    BY <1>5, <2>1, <2>2, <2>3, <2>4, <2>5, <2>6 DEF Work
<1>6. ASSUME NEW place, LoopStarts(place) PROVE CleanInv'
  <2>1. flush'[Loop] = "queued"
    BY <1>0, <1>6 DEF LoopStarts, QueuePending, Queue, GoFlush, Typed, KeyStoreTypeOK, PersistTypeOK
  <2>. QED
    BY <1>0, <1>3, <2>1
<1>7. ASSUME UNCHANGED <<mem, disk, image, flush, job, dirty, stranded>> PROVE CleanInv'
  <2>1. /\ Coming({"due", "queued", "writing"}) => Coming({"due", "queued", "writing"})'
        /\ Coming({"due", "queued"}) => Coming({"due", "queued"})'
    BY <1>7 DEF Coming
  <2>. QED
    BY <1>7, <2>1, CleanNext DEF CleanInv
<1>8. CASE LoopStep
  <2>1. CASE LoopEnds
    <3>1. CASE Written(Loop)
      <4>1. ~stranded /\ \A h \in Handler : job'[h] = job[h]
        BY <2>1 DEF LoopEnds, keyVars
      <4>. QED
        BY <1>0, <3>1, <4>1, CleanWritten
    <3>2. CASE NotWritten(Loop, "none")
      BY <1>2, <3>2 DEF NotWritten
    <3>. QED
      BY <2>1, <3>1, <3>2 DEF LoopEnds
  <2>2. CASE ReadList(Loop)
    BY <1>0, <1>4, <2>2
  <2>3. CASE LoopTick
    BY <1>6, <2>3 DEF LoopTick
  <2>4. CASE LastRound
    BY <1>6, <1>7, <2>4 DEF LastRound, persistVars, keyVars
  <2>. QED
    BY <1>8, <2>1, <2>2, <2>3, <2>4 DEF LoopStep
<1>9. CASE Signal \/ Exit \/ UNCHANGED keyStoreVars
  BY <1>7, <1>9 DEF Signal, Exit, keyStoreVars, persistVars, keyVars
<1>10. CASE Boot
  <2>1. DOMAIN image' = {} /\ mem' = disk'
    BY <1>10 DEF Boot
  <2>. QED
    BY <2>1, CleanNext
<1>. QED
  BY <1>1, <1>5, <1>8, <1>9, <1>10 DEF KeyStoreNext

\* At first the file is the memory.
LEMMA CleanInit == KeyStoreInit => CleanInv
BY DEF KeyStoreInit, PersistInit, CleanInv
-----------------------------------------------------------------------------
\* A request adds an unused entry of a new key, drops an entry, or keeps them all and
\* takes the mark of none.
LEMMA RequestMarks ==
    ASSUME Typed, Proper(mem), NEW h \in Handler, KeyRequest(h)
    PROVE  /\ issued \subseteq issued' /\ old'[h].id \in issued'
           /\ \A j \in DOMAIN mem' :
                 \/ mem'[j].id \in issued' \ issued
                 \/ \E i \in DOMAIN mem : mem'[j].id = mem[i].id /\ (mem[i].used => mem'[j].used)
           /\ \A i, j \in DOMAIN mem' : mem'[i].id = mem'[j].id => i = j
           /\ \A j \in DOMAIN mem' : job'[h] = "stamp" /\ mem'[j].id = old'[h].id => mem'[j].used
<1>1. mem \in Seq(Key) /\ DOMAIN mem = 1 .. Len(mem) /\ Len(mem) \in Nat
  BY Indices DEF Typed, KeyStoreTypeOK, PersistTypeOK
<1>2. job \in [Handler -> Job] /\ old \in [Handler -> Key]
  BY DEF Typed, KeyStoreTypeOK
<1>3. ASSUME NEW what, NEW record, NEW place, Enter(h, what, record, place)
      PROVE  job'[h] = what /\ old'[h] = record
  BY <1>2, <1>3 DEF Enter
<1>4. /\ \A j \in DOMAIN mem : mem[j].id \in issued
      /\ \A i, j \in DOMAIN mem : mem[i].id = mem[j].id => i = j
  BY DEF Proper
<1>5. CASE \E new \in KeyId : Create(h, new)
  <2>1. PICK new \in KeyId : Create(h, new)
    BY <1>5
  <2>2. mem' = Append(mem, NewKey(new)) /\ NewKey(new) \in Key /\ NewKey(new).id = new
    BY <2>1, RecordsTyped DEF Create
  <2>3. /\ DOMAIN mem' = 1 .. Len(mem) + 1
        /\ \A j \in DOMAIN mem' : mem'[j] = IF j <= Len(mem) THEN mem[j] ELSE NewKey(new)
    BY <1>1, <2>2, Appended
  <2>4. /\ new \notin issued /\ issued' = issued \cup {new}
        /\ job'[h] = "create" /\ old'[h] = NewKey(new)
    BY <1>3, <2>1 DEF Create
  <2>5. \A j \in DOMAIN mem' : \/ j \in DOMAIN mem /\ mem'[j] = mem[j]
                               \/ j = Len(mem) + 1 /\ mem'[j].id = new
    BY <1>1, <2>2, <2>3
  <2>6. \A i, j \in DOMAIN mem' : mem'[i].id = mem'[j].id => i = j
    BY <1>4, <2>4, <2>5
  <2>. QED
    BY <2>2, <2>4, <2>5, <2>6
<1>6. CASE \E gone \in KeyId : Delete(h, gone)
  <2>1. PICK gone \in KeyId : Delete(h, gone)
    BY <1>6
  <2>. DEFINE i == Index(mem, gone)
  <2>2. /\ i \in DOMAIN mem /\ mem' = Without(mem, i) /\ issued' = issued
        /\ job'[h] = "delete" /\ old'[h] = mem[i]
    BY <1>3, <2>1, IndexIn DEF Delete
  <2>. HIDE DEF i
  <2>3. /\ DOMAIN mem' = 1 .. Len(mem) - 1
        /\ \A j \in DOMAIN mem' : mem'[j] = IF j < i THEN mem[j] ELSE mem[j + 1]
    BY <1>1, <2>2, Shortened
  <2>. DEFINE from(j) == IF j < i THEN j ELSE j + 1
  <2>4. \A j \in DOMAIN mem' : from(j) \in DOMAIN mem /\ mem'[j] = mem[from(j)]
    BY <1>1, <2>3
  <2>5. \A j, k \in DOMAIN mem' : from(j) = from(k) => j = k
    BY <1>1, <2>2, <2>3
  <2>. HIDE DEF from
  <2>6. \A j, k \in DOMAIN mem' : mem'[j].id = mem'[k].id => j = k
    BY <1>4, <2>4, <2>5
  <2>7. \A j \in DOMAIN mem' : \E k \in DOMAIN mem : mem'[j] = mem[k]
    BY <2>4
  <2>. QED
    BY <1>4, <2>2, <2>6, <2>7
<1>7. CASE \E id \in KeyId : Stamp(h, id)
  <2>1. PICK id \in KeyId : Stamp(h, id)
    BY <1>7
  <2>. DEFINE i == Index(mem, id)
  <2>2. /\ i \in DOMAIN mem /\ mem' = [mem EXCEPT ![i].used = TRUE] /\ issued' = issued
        /\ old'[h] = mem[i]
    BY <1>3, <2>1, IndexIn DEF Stamp
  <2>. HIDE DEF i
  <2>3. /\ DOMAIN mem' = DOMAIN mem /\ mem'[i].used
        /\ \A j \in DOMAIN mem : mem'[j].id = mem[j].id /\ (mem[j].used => mem'[j].used)
    BY <1>1, <2>2, Stamped
  <2>. QED
    BY <1>4, <2>2, <2>3
<1>8. CASE \E id \in KeyId, revoked \in BOOLEAN, limit \in KeyLimit : Update(h, id, revoked, limit)
  <2>1. PICK id \in KeyId, revoked \in BOOLEAN, limit \in KeyLimit : Update(h, id, revoked, limit)
    BY <1>8
  <2>. DEFINE i == Index(mem, id)
  <2>2. /\ i \in DOMAIN mem /\ mem' = Retermed(mem, i, revoked, limit) /\ issued' = issued
        /\ job'[h] = "update" /\ old'[h] = mem[i]
    BY <1>3, <2>1, IndexIn DEF Update, Retermed
  <2>. HIDE DEF i
  <2>. DEFINE list == Retermed(mem, i, revoked, limit)
  <2>3. /\ DOMAIN list = DOMAIN mem
        /\ \A j \in DOMAIN mem : list[j].id = mem[j].id
        /\ \A j \in DOMAIN mem : list[j].used = mem[j].used
    BY <1>1, <2>2, Changed
  <2>4. /\ DOMAIN mem' = DOMAIN mem
        /\ \A j \in DOMAIN mem : mem'[j].id = mem[j].id
        /\ \A j \in DOMAIN mem : mem'[j].used = mem[j].used
    BY <2>2, <2>3
  <2>. QED
    BY <1>4, <2>2, <2>4
<1>. QED
  BY <1>5, <1>6, <1>7, <1>8 DEF KeyRequest

\* What every step but a request does, while no write has failed.
Calm ==
    /\ issued' = issued
    /\ mem' \in {mem, disk}
    /\ disk' = disk \/ \E g \in DOMAIN image : disk' = image[g]
    /\ \A g \in DOMAIN image' : image'[g] = mem \/ (g \in DOMAIN image /\ image'[g] = image[g])
    /\ early' \subseteq early \cup {old[h].id : h \in {k \in Handler : job[k] = "stamp"}}
    /\ \A h \in Handler : job'[h] # "none" => job'[h] = job[h] /\ old'[h] = old[h]
    /\ mem' = mem \/ (early' = {} /\ \A h \in Handler : job'[h] = "none")
    /\ dirty' /\ ~dirty => registered'
    /\ registered => registered' \/ ~dirty'

\* Every step but a request is of that kind.
LEMMA OthersCalm ==
    ASSUME Typed, failed = 0, failed' = 0, [KeyStoreNext]_keyStoreVars,
           \A h \in Handler : ~KeyRequest(h)
    PROVE  Calm
<1>0. /\ job \in [Handler -> Job] /\ old \in [Handler -> Key]
      /\ failed \in Nat /\ Handler \subseteq Flusher /\ Loop \in Flusher
      /\ dirty \in BOOLEAN /\ registered \in BOOLEAN
  BY DEF Typed, KeyStoreTypeOK, PersistTypeOK, Flusher
<1>1. ASSUME NEW h \in Handler, Forgotten(h)
      PROVE  \A k \in Handler : job'[k] # "none" => job'[k] = job[k] /\ old'[k] = old[k]
  BY <1>0, <1>1 DEF Forgotten
<1>2. ASSUME NEW g \in Flusher, Written(g)
      PROVE  /\ mem' = mem /\ dirty' = dirty /\ registered' = registered
             /\ \E f \in DOMAIN image : disk' = image[f]
             /\ \A f \in DOMAIN image' : f \in DOMAIN image /\ image'[f] = image[f]
  BY <1>2 DEF Written, Drop, Typed, FlowInv
<1>3. ASSUME NEW g \in Flusher, ReadList(g) PROVE Calm
  <2>1. \A f \in DOMAIN image' : image'[f] = mem \/ (f \in DOMAIN image /\ image'[f] = image[f])
    BY <1>3 DEF ReadList, Read
  <2>. QED
    BY <1>3, <2>1 DEF ReadList, Read, Calm, keyVars, lifeVars
<1>4. ASSUME NEW place, LoopStarts(place) PROVE Calm
  BY <1>4 DEF LoopStarts, QueuePending, Queue, Calm, keyVars
<1>5. ASSUME NEW h \in Handler, Work(h) PROVE Calm
  <2>1. CASE Mark(h)
    BY <1>1, <2>1 DEF Mark, MarkDirty, Calm
  <2>2. CASE StartSaving(h)
    BY <2>2 DEF StartSaving, Queue, Calm, keyVars, lifeVars
  <2>3. CASE ReadList(h)
    BY <1>0, <1>3, <2>3
  <2>4. CASE Saved(h)
    BY <1>0, <1>1, <1>2, <2>4 DEF Saved, Calm, lifeVars
  <2>5. CASE NotSaved(h)
    BY <1>0, <2>5 DEF NotSaved, NotWritten
  <2>6. CASE TakeBack(h)
    BY <2>6 DEF TakeBack, Typed, FlowInv
  <2>. QED
    BY <1>5, <2>1, <2>2, <2>3, <2>4, <2>5, <2>6 DEF Work
<1>6. CASE LoopStep
  <2>1. CASE LoopEnds
    <3>1. CASE Written(Loop)
      BY <1>0, <1>2, <2>1, <3>1 DEF LoopEnds, Calm, keyVars
    <3>2. CASE NotWritten(Loop, "none")
      BY <1>0, <3>2 DEF NotWritten
    <3>. QED
      BY <2>1, <3>1, <3>2 DEF LoopEnds
  <2>2. CASE ReadList(Loop)
    BY <1>0, <1>3, <2>2
  <2>3. CASE LoopTick
    BY <1>4, <2>3 DEF LoopTick
  <2>4. CASE LastRound
    BY <1>4, <2>4 DEF LastRound, Calm, persistVars, keyVars
  <2>. QED
    BY <1>6, <2>1, <2>2, <2>3, <2>4 DEF LoopStep
<1>7. CASE Signal \/ Exit \/ UNCHANGED keyStoreVars
  BY <1>7 DEF Signal, Exit, Calm, keyStoreVars, persistVars, keyVars, lifeVars
<1>8. CASE Boot
  BY <1>8 DEF Boot, Calm
<1>. QED
  BY <1>5, <1>6, <1>7, <1>8 DEF KeyStoreNext

\* The lists stay proper.
LEMMA ProperStep ==
    ASSUME Typed, ProperInv, Calm \/ \E h \in Handler : KeyRequest(h)
    PROVE  ProperInv'
<1>1. CASE Calm
  <2>1. /\ early' \subseteq issued' /\ \A h \in Handler : job'[h] # "none" => old'[h].id \in issued'
    BY <1>1 DEF Calm, ProperInv
  <2>2. /\ \A list \in {mem, disk} : Proper(list) /\ \A g \in DOMAIN image : Proper(image[g])
    BY DEF ProperInv
  <2>3. ASSUME NEW list, Proper(list)
        PROVE  /\ \A i \in DOMAIN list : list[i].id \in issued'
               /\ \A i, j \in DOMAIN list : list[i].id = list[j].id => i = j
    BY <1>1, <2>3 DEF Calm, Proper
  <2>4. Proper(mem)'
    BY <1>1, <2>2, <2>3 DEF Calm, Proper
  <2>5. Proper(disk)'
    BY <1>1, <2>2, <2>3 DEF Calm, Proper
  <2>6. \A g \in DOMAIN image' : Proper(image[g])'
    BY <1>1, <2>2, <2>3 DEF Calm, Proper
  <2>. QED
    BY <2>1, <2>4, <2>5, <2>6 DEF ProperInv
<1>2. CASE \E h \in Handler : KeyRequest(h)
  <2>1. PICK h \in Handler : KeyRequest(h)
    BY <1>2
  <2>2. /\ \A k \in Handler \ {h} : job'[k] = job[k] /\ old'[k] = old[k]
        /\ disk' = disk /\ image' = image /\ early' = early
    BY <2>1, RequestEnters DEF lifeVars
  <2>3. /\ issued \subseteq issued' /\ old'[h].id \in issued'
        /\ \A j \in DOMAIN mem' :
              \/ mem'[j].id \in issued' \ issued
              \/ \E i \in DOMAIN mem : mem'[j].id = mem[i].id /\ (mem[i].used => mem'[j].used)
        /\ \A i, j \in DOMAIN mem' : mem'[i].id = mem'[j].id => i = j
    BY <2>1, RequestMarks DEF ProperInv
  <2>4. Proper(mem)'
    BY <2>3 DEF ProperInv, Proper
  <2>5. Proper(disk)' /\ \A g \in DOMAIN image' : Proper(image[g])'
    BY <2>2, <2>3 DEF ProperInv, Proper
  <2>6. early' \subseteq issued' /\ \A k \in Handler : job'[k] # "none" => old'[k].id \in issued'
    BY <2>2, <2>3 DEF ProperInv
  <2>. QED
    BY <2>4, <2>5, <2>6 DEF ProperInv
<1>. QED
  BY <1>1, <1>2

\* What is marked, or about to be, is used in memory.
LEMMA MarksStep ==
    ASSUME Typed, ProperInv, MarksInv, Calm \/ \E h \in Handler : KeyRequest(h)
    PROVE  MarksInv'
<1>1. CASE Calm
  <2>1. CASE early' = {} /\ \A h \in Handler : job'[h] = "none"
    BY <2>1 DEF MarksInv, Fresh
  <2>2. CASE mem' = mem
    BY <1>1, <2>2 DEF Calm, MarksInv, Fresh
  <2>. QED
    BY <1>1, <2>1, <2>2 DEF Calm
<1>2. CASE \E h \in Handler : KeyRequest(h)
  <2>1. PICK h \in Handler : KeyRequest(h)
    BY <1>2
  <2>2. /\ \A k \in Handler \ {h} : job'[k] = job[k] /\ old'[k] = old[k]
        /\ early' = early
    BY <2>1, RequestEnters DEF lifeVars
  <2>3. /\ \A j \in DOMAIN mem' :
              \/ mem'[j].id \in issued' \ issued
              \/ \E i \in DOMAIN mem : mem'[j].id = mem[i].id /\ (mem[i].used => mem'[j].used)
        /\ \A j \in DOMAIN mem' : job'[h] = "stamp" /\ mem'[j].id = old'[h].id => mem'[j].used
    BY <2>1, RequestMarks DEF ProperInv
  <2>4. ASSUME NEW j \in DOMAIN mem', mem'[j].id \in early PROVE mem'[j].used
    BY <2>3, <2>4 DEF ProperInv, MarksInv, Fresh
  <2>5. ASSUME NEW k \in Handler \ {h}, NEW j \in DOMAIN mem', job[k] = "stamp",
               mem'[j].id = old[k].id
        PROVE  mem'[j].used
    BY <2>3, <2>5 DEF ProperInv, MarksInv
  <2>. QED
    BY <2>2, <2>3, <2>4, <2>5 DEF MarksInv, Fresh
<1>. QED
  BY <1>1, <1>2

\* The invariant, of the next state.
LEMMA ReachNext ==
    ASSUME Fresh(disk)' \/ LoopComes' \/ \E g \in Flusher : flush'[g] \in {"queued", "writing"},
           \A g \in DOMAIN image' :
              Fresh(image[g])' \/ LoopComes' \/ \E f \in Flusher : flush'[f] = "queued"
    PROVE  ReachInv'
BY DEF ReachInv

\* Steps that touch neither the file nor what is on its way there.
LEMMA ReachElsewhere ==
    ASSUME ReachInv, UNCHANGED <<disk, image, early>>, LoopComes => LoopComes',
           \A g \in Flusher : flush[g] \in {"queued", "writing"} => flush'[g] = flush[g]
    PROVE  ReachInv'
<1>1. Fresh(disk) => Fresh(disk)'
  BY DEF Fresh
<1>2. \A g \in DOMAIN image' : Fresh(image[g]) => Fresh(image[g])'
  BY DEF Fresh
<1>. QED
  BY <1>1, <1>2, ReachNext DEF ReachInv

\* What the writer lacks, the loop or another flush brings.
LEMMA ReachWritten ==
    ASSUME Typed, ReachInv, NEW g \in Flusher, Written(g), early' = early,
           LoopComes => LoopComes'
    PROVE  ReachInv'
<1>1. /\ flush[g] = "writing" /\ disk' = image[g] /\ g \in DOMAIN image
      /\ \A f \in Flusher : f # g => flush'[f] = flush[f]
  BY DEF Written, GoFlush, Typed, KeyStoreTypeOK, PersistTypeOK, FlowInv
<1>2. DOMAIN image' = {}
  <2>1. DOMAIN image = {g}
    BY <1>1 DEF Typed, FlowInv
  <2>. QED
    BY <2>1 DEF Written, Drop
<1>3. Fresh(image[g]) => Fresh(disk)'
  BY <1>1 DEF Fresh
<1>4. \A f \in Flusher : flush[f] = "queued" => flush'[f] = "queued"
  BY <1>1
<1>5. Fresh(disk)' \/ LoopComes' \/ \E f \in Flusher : flush'[f] \in {"queued", "writing"}
  BY <1>1, <1>3, <1>4 DEF ReachInv
<1>. QED
  BY <1>2, <1>5, ReachNext

\* No step leaves a mark behind that nobody saves.
LEMMA ReachStep ==
    ASSUME Typed, failed = 0, failed' = 0, dirty => registered, MarksInv, ReachInv,
           [KeyStoreNext]_keyStoreVars
    PROVE  ReachInv'
<1>0. /\ flush \in [Flusher -> FlushPlace] /\ failed \in Nat
      /\ Handler \subseteq Flusher /\ Loop \in Flusher /\ Loop \notin Handler
  BY PersistAssumption DEF Typed, KeyStoreTypeOK, PersistTypeOK, Flusher
<1>1. ASSUME NEW h \in Handler, KeyRequest(h) PROVE ReachInv'
  <2>1. /\ flush[h] = "none"
        /\ \A f \in Flusher \ {h} : flush'[f] = flush[f]
        /\ UNCHANGED <<disk, dirty, image, loop, early>>
    BY <1>1, RequestEnters DEF lifeVars
  <2>. QED
    BY <2>1, ReachElsewhere DEF LoopComes
<1>2. ASSUME NEW g \in Flusher, flush'[g] = "queued" PROVE ReachInv'
  BY <1>2, ReachNext
<1>3. ASSUME NEW g \in Flusher, ReadList(g) PROVE ReachInv'
  <2>1. Read(g) /\ early' = early
    BY <1>3 DEF ReadList, lifeVars
  <2>2. DOMAIN image = {}
    BY <2>1, PersistAssumption DEF Read, Typed, FlowInv, Flusher
  <2>3. DOMAIN image' = {g} /\ image'[g] = mem
    BY <2>1, <2>2 DEF Read
  <2>4. flush'[g] = "writing"
    BY <1>0, <2>1 DEF Read, GoFlush
  <2>5. Fresh(image[g])'
    BY <2>1, <2>3 DEF MarksInv, Fresh
  <2>. QED
    BY <2>3, <2>4, <2>5, ReachNext
<1>4. ASSUME NEW h \in Handler, Work(h) PROVE ReachInv'
  <2>1. CASE Mark(h)
    <3>1. CASE stage = "serving"
      <4>1. LoopComes'
        BY <2>1, <3>1 DEF Mark, MarkDirty, LoopComes, Typed, FlowInv
      <4>. QED
        BY <4>1, ReachNext
    <3>2. CASE stage # "serving"
      BY <2>1, <3>2, ReachElsewhere DEF Mark, MarkDirty, LoopComes
    <3>. QED
      BY <3>1, <3>2
  <2>2. CASE StartSaving(h)
    <3>1. flush'[h] = "queued"
      BY <1>0, <2>2 DEF StartSaving, Queue, GoFlush
    <3>. QED
      BY <1>0, <1>2, <3>1
  <2>3. CASE ReadList(h)
    BY <1>0, <1>3, <2>3
  <2>4. CASE Saved(h)
    <3>1. Written(h) /\ early' = early /\ loop' = loop /\ dirty' = dirty
      BY <2>4 DEF Saved, Written, lifeVars
    <3>. QED
      BY <1>0, <3>1, ReachWritten DEF LoopComes
  <2>5. CASE NotSaved(h)
    BY <1>0, <2>5 DEF NotSaved, NotWritten
  <2>6. CASE TakeBack(h)
    BY <2>6 DEF TakeBack, Typed, FlowInv
  <2>. QED
    BY <1>4, <2>1, <2>2, <2>3, <2>4, <2>5, <2>6 DEF Work
<1>5. ASSUME NEW place, LoopStarts(place) PROVE ReachInv'
  <2>1. flush'[Loop] = "queued"
    BY <1>0, <1>5 DEF LoopStarts, QueuePending, Queue, GoFlush
  <2>. QED
    BY <1>0, <1>2, <2>1
<1>6. CASE LoopStep
  <2>1. CASE LoopEnds
    <3>1. CASE Written(Loop)
      <4>1. LoopComes => LoopComes'
        BY <2>1, <3>1 DEF LoopEnds, Written, LoopComes
      <4>2. early' = early
        BY <2>1 DEF LoopEnds
      <4>. QED
        BY <1>0, <3>1, <4>1, <4>2, ReachWritten
    <3>2. CASE NotWritten(Loop, "none")
      BY <1>0, <3>2 DEF NotWritten
    <3>. QED
      BY <2>1, <3>1, <3>2 DEF LoopEnds
  <2>2. CASE ReadList(Loop)
    BY <1>0, <1>3, <2>2
  <2>3. CASE LoopTick
    BY <1>5, <2>3 DEF LoopTick
  <2>4. CASE LastRound
    <3>1. CASE LoopStarts("last")
      BY <1>5, <3>1
    <3>2. CASE ~(registered /\ dirty) /\ UNCHANGED <<persistVars, keyVars, stage, crashes, early>>
      BY <3>2, ReachElsewhere DEF LoopComes, persistVars
    <3>. QED
      BY <2>4, <3>1, <3>2 DEF LastRound
  <2>. QED
    BY <1>6, <2>1, <2>2, <2>3, <2>4 DEF LoopStep
<1>7. CASE Signal
  BY <1>7, ReachElsewhere DEF Signal, LoopComes, persistVars
<1>8. CASE Exit \/ UNCHANGED keyStoreVars
  BY <1>8, ReachElsewhere DEF Exit, LoopComes, keyStoreVars, persistVars, lifeVars
<1>9. CASE Boot
  <2>1. Fresh(disk)' /\ DOMAIN image' = {}
    BY <1>9 DEF Boot, Fresh
  <2>. QED
    BY <2>1, ReachNext
<1>. QED
  BY <1>1, <1>4, <1>6, <1>7, <1>8, <1>9 DEF KeyStoreNext

\* The three parts carry one another.
LEMMA UsedStep == Typed /\ UsedInv /\ [KeyStoreNext]_keyStoreVars => UsedInv'
<1>. SUFFICES ASSUME Typed, UsedInv, [KeyStoreNext]_keyStoreVars, failed' = 0
              PROVE  UsedInv'
  BY DEF UsedInv
<1>1. failed = 0
  <2>1. failed \in Nat
    BY DEF Typed, KeyStoreTypeOK, PersistTypeOK
  <2>2. ASSUME NEW h \in Handler, KeyRequest(h) PROVE failed = 0
    BY <2>2, RequestEnters
  <2>3. ASSUME NEW h \in Handler, Work(h) PROVE failed = 0
    BY <2>1, <2>3 DEF Work, Mark, StartSaving, ReadList, Read, Saved, Written, NotSaved,
                      NotWritten, TakeBack
  <2>4. CASE LoopStep
    BY <2>1, <2>4 DEF LoopStep, LoopTick, LoopStarts, ReadList, Read, LoopEnds, Written,
                      NotWritten, LastRound, persistVars
  <2>5. CASE Signal \/ Exit \/ Boot \/ UNCHANGED keyStoreVars
    BY <2>5 DEF Signal, Exit, Boot, persistVars, keyStoreVars
  <2>. QED
    BY <2>2, <2>3, <2>4, <2>5 DEF KeyStoreNext
<1>2. (dirty => registered) /\ ProperInv /\ MarksInv /\ ReachInv
  BY <1>1 DEF UsedInv
<1>3. Calm \/ \E h \in Handler : KeyRequest(h)
  BY <1>1, OthersCalm
<1>4. ProperInv' /\ MarksInv' /\ ReachInv'
  BY <1>1, <1>2, <1>3, ProperStep, MarksStep, ReachStep
<1>5. dirty' => registered'
  <2>1. CASE Calm
    BY <1>2, <2>1 DEF Calm
  <2>2. CASE \E h \in Handler : KeyRequest(h)
    BY <1>2, <2>2, RequestEnters
  <2>. QED
    BY <1>3, <2>1, <2>2
<1>. QED
  BY <1>4, <1>5 DEF UsedInv

\* At first nothing is marked.
LEMMA UsedInit == KeyStoreInit => UsedInv
<1>. SUFFICES ASSUME KeyStoreInit PROVE UsedInv
  OBVIOUS
<1>1. /\ mem = [i \in DOMAIN Stored |-> NewKey(Stored[i])] /\ disk = mem
      /\ issued = {Stored[i] : i \in DOMAIN Stored} /\ early = {}
      /\ DOMAIN image = {} /\ dirty = FALSE
      /\ \A h \in Handler : job[h] = "none"
  BY DEF KeyStoreInit, PersistInit
<1>2. DOMAIN mem = DOMAIN Stored /\ \A i \in DOMAIN mem : mem[i].id = Stored[i]
  BY <1>1 DEF NewKey
<1>3. Proper(mem)
  BY <1>1, <1>2, KeyAssumption DEF Proper
<1>4. Fresh(mem)
  BY <1>1 DEF Fresh
<1>. QED
  BY <1>1, <1>3, <1>4 DEF UsedInv, ProperInv, MarksInv, ReachInv
-----------------------------------------------------------------------------
\* The inductive invariant always holds.
LEMMA KeysInvariant == KeyStoreSpec => []KeysInv
<1>1. KeyStoreInit => KeysInv
  BY TypedInit, AnsweredInit, CleanInit, UsedInit DEF KeysInv
<1>2. KeysInv /\ [KeyStoreNext]_keyStoreVars => KeysInv'
  BY TypedStep, AnsweredStep, CleanStep, UsedStep DEF KeysInv
<1>. QED
  BY <1>1, <1>2, PTL DEF KeyStoreSpec

\* Whatever the administrator was told is in the file while no write has failed; when all
\* rest and the store is not dirty the file is the memory, failed writes included; and a
\* key marked as used before the signal is so in the file after an orderly end.
THEOREM FileKeepsUpCorrect == KeyStoreSpec => []FileKeepsUp
<1>1. KeysInv => FileKeepsUp
  <2>. SUFFICES ASSUME KeysInv PROVE FileKeepsUp
    OBVIOUS
  <2>1. AnsweredIsSaved
    BY DEF KeysInv, AnsweredInv, AnsweredIsSaved
  <2>2. CleanIsSaved
    BY DEF KeysInv, CleanInv, CleanIsSaved, Coming
  <2>3. ShutdownSaves
    <3>. SUFFICES ASSUME stage = "down", failed = 0, \A h \in Handler : flush[h] = "none",
                         NEW i \in DOMAIN disk, disk[i].id \in early
                  PROVE  disk[i].used
      BY DEF ShutdownSaves
    <3>1. loop = "stopped" /\ flush[Loop] = "none"
      BY DEF KeysInv, Typed, FlowInv
    <3>2. \A g \in Flusher : flush[g] = "none"
      BY <3>1 DEF Flusher
    <3>3. Fresh(disk)
      BY <3>1, <3>2 DEF KeysInv, UsedInv, ReachInv, LoopComes
    <3>. QED
      BY <3>3 DEF Fresh
  <2>. QED
    BY <2>1, <2>2, <2>3 DEF FileKeepsUp
<1>. QED
  BY <1>1, KeysInvariant, PTL
=============================================================================
