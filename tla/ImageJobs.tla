------------------------------ MODULE ImageJobs ------------------------------
(***************************************************************************)
(* Requests for pictures (internal/web/images.go and the image route of    *)
(* openaiChat in server.go): the accounts a request tries, the pictures it *)
(* stores, the files that make room for others and the daily quota of an   *)
(* API key.                                                                *)
(*                                                                         *)
(* A request comes by the image endpoint, which makes one upstream call    *)
(* that may give several pictures and keeps no quota, or by the chat, which *)
(* makes one call per picture and counts what it delivers.  The upstream   *)
(* call is external (see ChatTurn), and so is the state of the accounts    *)
(* but for the marks this code sets.  All requests have the same key.      *)
(***************************************************************************)
EXTENDS Integers, Sequences, FiniteSets

CONSTANTS
  ImageAccounts,
  Jobs,         \* requests that are ever made
  MaxCount,     \* pictures one request asks for (4 by the chat, 10 by the endpoint)
  PerCall,      \* bound: pictures one upstream call gives
  MaxFiles,     \* pictures on disk (128 in the code)
  Sizes,        \* what pictures take on disk (at most 20 MB each in the code)
  DiskLimit,    \* what all of them may take (512 MB in the code)
  ImageLimit,   \* the daily limit of the key
  MaxImage,     \* bound: pictures that are ever stored
  MaxExpired    \* bound: pictures and marks that expire

ASSUME ImageAssumption ==
  /\ MaxCount \in Nat \ {0} /\ PerCall \in Nat \ {0} /\ ImageLimit \in Nat \ {0} /\ MaxImage \in Nat
  /\ MaxFiles \in Nat \ {0} /\ MaxExpired \in Nat
  /\ DiskLimit \in Nat /\ Sizes \subseteq 1 .. DiskLimit

VARIABLES
  job,       \* what every request is doing
  spentOut,  \* accounts kept out of the rotation for pictures
  files,     \* the pictures on disk; a picture is its number, the oldest has the least
  sizes,     \* what each picture takes that was stored, or was to be stored
  used,      \* the counter of the key, on disk
  delivered, \* history: pictures given to clients by the chat today
  uncounted, \* history: of those, how many a failed write left out
  expired    \* history: pictures that were 72 hours old, and marks that ran out

imageVars == <<job, spentOut, files, sizes, used, delivered, uncounted, expired>>

NoJob == [at |-> "idle"]
AutoAccount == "auto"
Unkept == UNCHANGED <<used, delivered, uncounted, expired>>

ImageInit ==
  /\ job = [j \in Jobs |-> NoJob]
  /\ spentOut = {} /\ files = {} /\ sizes = <<>>
  /\ used = 0 /\ delivered = 0 /\ uncounted = 0 /\ expired = [pictures |-> {}, marks |-> 0]
-----------------------------------------------------------------------------
\* The chat refuses what the quota does not cover, as the file has it now.
Covered(route, count) == route = "endpoint" \/ used + count <= ImageLimit

Ask(j) ==
  /\ job[j].at = "idle"
  /\ \E route \in {"chat", "endpoint"}, count \in 1 .. MaxCount, chosen \in ImageAccounts \cup {AutoAccount} :
       /\ Covered(route, count)
       /\ job' = [job EXCEPT ![j] =
            [at |-> "choose", route |-> route, count |-> count, chosen |-> chosen,
             tried |-> {}, acc |-> AutoAccount, ready |-> {}, batch |-> {}, made |-> 0, rest |-> 0]]
  /\ UNCHANGED <<spentOut, files, sizes>> /\ Unkept

\* The request ends, and has given these pictures.
Over(j, pictures) == job' = [job EXCEPT ![j] = [at |-> "over", given |-> pictures]]

\* It has the pictures it will have.
Answering(j, r, pictures) ==
  job' = [job EXCEPT ![j] = [at |-> "count", route |-> r.route, count |-> r.count, ready |-> pictures]]

\* A generation fails, and what it has stored is dropped; pictures of earlier ones
\* are still given.  Otherwise the client is told why, of which nothing is kept here.
GenerationFails(j) ==
  IF job[j].ready # {} THEN Answering(j, job[j], job[j].ready) ELSE Over(j, {})

\* resolveAccount, nextImageGenAccount and nextUntriedImageGenAccount: the first
\* account is the one chosen, or any: one that is out of pictures is passed over
\* unless every other is unhealthy.  Every later account is one not tried yet.
Candidates(r) ==
  CASE r.chosen # AutoAccount -> IF r.tried = {} THEN {r.chosen} ELSE {}
    [] r.chosen = AutoAccount /\ r.tried = {} -> ImageAccounts
    [] OTHER -> ImageAccounts \ (spentOut \cup r.tried)

\* An account without identifiers is passed over.  There may be no healthy account,
\* or its token cannot be refreshed: then the request ends, though others may not
\* have been tried.
Choose(j) ==
  /\ job[j].at = "choose"
  /\ \/ \E a \in Candidates(job[j]), at \in {"draw", "choose"} :
          /\ at = "choose" => job[j].tried # {}
          /\ job' = [job EXCEPT ![j] = [job[j] EXCEPT !.at = at, !.tried = @ \cup {a},
                                                           !.acc = IF at = "draw" THEN a ELSE AutoAccount]]
     \/ GenerationFails(j)
  /\ UNCHANGED <<spentOut, files, sizes>> /\ Unkept

\* What a call that gives no picture ends with: the daily limit, in an error or in
\* words, the throttling of Designer, another failure that is worth a retry, a
\* time-out of the attempt, one that is not, a text, and the end of the request.
Failures == {"limit", "words", "throttled", "retryable", "timeout", "fatal", "text", "gone"}

Marks(why) == why \in {"limit", "throttled", "words"}

\* Which failures send the request to another account.
Rotates(r, why) ==
  /\ r.chosen = AutoAccount
  /\ why \in {"limit", "words", "throttled", "retryable"} \/ (why = "timeout" /\ r.route = "chat")

DrawFails(j) ==
  LET r == job[j]
  IN  /\ r.at = "draw"
      /\ \E why \in Failures :
           /\ spentOut' = IF Marks(why) /\ (why = "words" => r.chosen = AutoAccount)
                          THEN spentOut \cup {r.acc} ELSE spentOut
           /\ CASE Rotates(r, why) ->
                     job' = [job EXCEPT ![j].at = "choose", ![j].acc = AutoAccount]
                [] why = "gone" -> Over(j, {})
                [] OTHER -> GenerationFails(j)
  /\ UNCHANGED <<files, sizes>> /\ Unkept

\* The upstream gives pictures: as many as it likes, of which the endpoint takes
\* what was asked for.
Drawn(j, n) ==
  /\ job[j].at = "draw" /\ (job[j].route = "endpoint" => n <= job[j].count)
  /\ job' = [job EXCEPT ![j] = [job[j] EXCEPT !.at = "store", !.acc = AutoAccount, !.tried = {},
                                                !.batch = {}, !.rest = n, !.made = @ + 1]]
  /\ UNCHANGED <<spentOut, files, sizes>> /\ Unkept
-----------------------------------------------------------------------------
(* The files, under the lock.                                              *)

Drawings == Len(sizes)

\* What pictures take on disk, as blocks of which each is of one picture.
Blocks(F) == UNION {{f} \X (1 .. sizes[f]) : f \in F}

\* storeGeneratedImage removes what has expired first.
Fresh == files \ expired.pictures

\* Variant: the directory is sorted with the newest first.
NewerOlder(f) == {g \in Fresh : g <= f}

\* A picture and those that are newer.
Newer(f) == {g \in Fresh : g >= f}

\* There is room for one more, of this size, beside them.
Fits(F, size) == Cardinality(F) < MaxFiles /\ Cardinality(Blocks(F)) + size <= DiskLimit

\* The oldest pictures are removed, one by one, until the new one fits.
Retained(size) == {f \in Fresh : Fits(Newer(f), size)}

\* After the last picture of a generation the endpoint answers; the chat goes on
\* until it has made as many generations as pictures were asked for.
GoOnWith(j, r) ==
  CASE r.rest > 1 -> job' = [job EXCEPT ![j] = [r EXCEPT !.rest = @ - 1]]
    [] r.rest = 1 /\ (r.route = "endpoint" \/ r.made = r.count) -> Answering(j, r, r.ready \cup r.batch)
    [] OTHER -> job' = [job EXCEPT ![j] = [r EXCEPT !.at = "choose", !.rest = 0,
                                                    !.ready = @ \cup r.batch, !.batch = {}]]

\* A picture is downloaded and stored.
Store_(j) ==
  /\ job[j].at = "store" /\ Drawings < MaxImage
  /\ \E size \in Sizes :
       sizes' = Append(sizes, size) /\ files' = Retained(size) \cup {Drawings + 1}
  /\ GoOnWith(j, [job[j] EXCEPT !.batch = @ \cup {Drawings + 1}])
  /\ UNCHANGED spentOut /\ Unkept

\* A picture cannot be downloaded or need not be stored: the endpoint gives the
\* address it came from, or the bytes, instead, or ends with an error; the chat
\* skips one it has just stored, and drops the generation when it has none.
StoreFails(j) ==
  LET r == job[j]
  IN  /\ r.at = "store"
      /\ \/ r.route = "endpoint" /\ (Over(j, {}) \/ GoOnWith(j, r))
         \/ r.route = "chat" /\ (GenerationFails(j) \/ (r.batch # {} /\ GoOnWith(j, r)))
  /\ UNCHANGED <<spentOut, files, sizes>> /\ Unkept

\* Room was made for a picture and its file cannot be written.
WriteFails(j) ==
  /\ job[j].at = "store" /\ Drawings < MaxImage
  /\ \E size \in Sizes : sizes' = Append(sizes, size) /\ files' = Retained(size)
  /\ IF job[j].route = "chat" THEN GenerationFails(j) ELSE Over(j, {})
  /\ UNCHANGED spentOut /\ Unkept

\* 72 hours pass for the oldest picture; a request in flight is never that old.
ExpirePicture ==
  /\ expired.marks + Cardinality(expired.pictures) < MaxExpired
  /\ \A j \in Jobs : job[j].at \in {"idle", "over"}
  /\ \E f \in Fresh :
       Newer(f) = Fresh /\ expired' = [expired EXCEPT !.pictures = @ \cup {f}]
  /\ UNCHANGED <<job, spentOut, files, sizes, used, delivered, uncounted>>

\* loadGeneratedImage removes a picture that has expired.
LoadExpired ==
  /\ \E f \in files \cap expired.pictures : files' = files \ {f}
  /\ UNCHANGED <<job, spentOut, sizes>> /\ Unkept

\* The mark of an account runs out, at midnight or after a short while.
ExpireMark(a) ==
  /\ a \in spentOut /\ expired.marks + Cardinality(expired.pictures) < MaxExpired
  /\ spentOut' = spentOut \ {a}
  /\ expired' = [expired EXCEPT !.marks = @ + 1]
  /\ UNCHANGED <<job, files, sizes, used, delivered, uncounted>>
-----------------------------------------------------------------------------
(* The answer.                                                             *)

\* The first pictures, as many as were asked for.
Given(r) == {p \in r.ready : Cardinality({q \in r.ready : q < p}) < r.count}

\* bumpAPIKeyImageQuota reads the file again, under its lock.
Bumped(r) == used + Cardinality(Given(r))

\* The pictures are counted, whether or not the file can be written, and given.
CountAndAnswer(j) ==
  LET r == job[j]
  IN  /\ r.at = "count"
      /\ IF r.route = "chat"
         THEN /\ delivered' = delivered + Cardinality(Given(r))
              /\ \/ used' = Bumped(r) /\ UNCHANGED uncounted
                 \/ uncounted' = uncounted + Cardinality(Given(r)) /\ UNCHANGED used
         ELSE UNCHANGED <<used, delivered, uncounted>>
      /\ Over(j, Given(r))
      /\ UNCHANGED <<spentOut, files, sizes, expired>>

\* The client of the chat is gone before the count: nothing is counted or given.
GoneBeforeCount(j) ==
  /\ job[j].at = "count" /\ job[j].route = "chat"
  /\ Over(j, {})
  /\ UNCHANGED <<spentOut, files, sizes>> /\ Unkept

-----------------------------------------------------------------------------
ImageNext ==
  \/ \E j \in Jobs :
       \/ Ask(j) \/ Choose(j) \/ DrawFails(j) \/ Store_(j) \/ StoreFails(j) \/ WriteFails(j)
       \/ CountAndAnswer(j) \/ GoneBeforeCount(j)
       \/ \E n \in 1 .. PerCall : Drawn(j, n)
  \/ ExpirePicture \/ LoadExpired \/ \E a \in ImageAccounts : ExpireMark(a)

ImageSpec == ImageInit /\ [][ImageNext]_imageVars
-----------------------------------------------------------------------------
ImageTypeOK ==
  /\ \A j \in Jobs : job[j].at \in {"idle", "choose", "draw", "store", "count", "over"}
  /\ spentOut \subseteq ImageAccounts
  /\ Drawings <= MaxImage /\ files \subseteq 1 .. Drawings
  /\ Cardinality(files) <= MaxFiles /\ Cardinality(Blocks(files)) <= DiskLimit
  /\ used \in Nat /\ delivered \in Nat /\ uncounted \in Nat

\* Since a picture was stored, as many were to be stored as the disk may hold, or
\* it and they take more than it may hold.
PushedOut(p) ==
  \/ Drawings - p >= MaxFiles
  \/ Cardinality(Blocks(p .. Drawings)) > DiskLimit

\* A picture that a client has just been given is on disk: what other requests
\* store meanwhile pushes out older ones only.
GivenIsStored ==
  \A j \in Jobs : job[j].at = "over" =>
    \A p \in job[j].given : p \in files \cup expired.pictures \/ PushedOut(p)

\* The counter holds every picture the chat has given, but for those whose write
\* failed, though requests of the same key overlap.
QuotaIsExact == used + uncounted = delivered

\* What a request is said to have given is what is stored and what is counted.
PicturesKept == GivenIsStored /\ QuotaIsExact
=============================================================================
