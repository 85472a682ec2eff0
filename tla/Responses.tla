------------------------------ MODULE Responses ------------------------------
(***************************************************************************)
(* POST /v1/responses (internal/web/protocol_handlers.go): the answers that *)
(* are remembered so that a later request can continue them, and the stream *)
(* that is read from the chat handler through a pipe.                       *)
(*                                                                         *)
(* All requests are of one tenant and one session: buckets are apart, and   *)
(* the checks of a node's own tenant and session repeat the key it was      *)
(* found under.  Answers are numbered in the order they are remembered.     *)
(* A stream remembers nothing and shares nothing with another, so one of    *)
(* them is followed.  openaiChat (Completion) is external here: it fails or *)
(* answers or, in a stream, writes line after line.                         *)
(***************************************************************************)
EXTENDS Naturals, FiniteSets

CONSTANTS
  Readers,        \* requests without a stream that are served at the same time
  PerTenant,      \* maxResponsesPerTenant (256 in the code)
  MaxRemembered,  \* bound: answers ever remembered
  MaxLines        \* bound: lines of a stream

ASSUME ResponsesAssumption ==
  /\ PerTenant \in Nat \ {0} /\ {MaxRemembered, MaxLines} \subseteq Nat

VARIABLES
  bucket,   \* responseMessages: the remembered answers, by number
  newest,   \* the number of the last of them
  outdated, \* those up to this number are more than an hour old
  branches, \* history: how many requests were let continue each
  calling,  \* the requests that wait for openaiChat
  inner,    \* the goroutine of a stream that runs openaiChat
  outer,    \* its handler: the line in its hand, what it gathered, what it said last
  departed  \* whether the client of the stream has departed

responsesVars == <<bucket, newest, outdated, branches, calling, inner, outer, departed>>
streamVars == <<inner, outer, departed>>
rememberedVars == <<bucket, newest, outdated, branches>>

\* What openaiChat writes: text or a tool call, blanks only, what is skipped (comments, an
\* error, [DONE]), an error with its status instead of a stream, more than two megabytes.
Line == {"answer", "blank", "skipped", "refusal", "huge"}
Content == {"answer", "blank"}

NoInner == [at |-> "off", line |-> "none", status |-> 0, wrote |-> 0, content |-> {}]
NoOuter == [at |-> "off", line |-> "none", tooLong |-> FALSE, gathered |-> {}, said |-> "nothing"]

ResponsesInit ==
  /\ bucket = [n \in {} |-> FALSE] /\ newest = 0 /\ outdated = 0
  /\ branches = [n \in 1 .. MaxRemembered |-> 0]
  /\ calling = {}
  /\ inner = NoInner /\ outer = NoOuter /\ departed = FALSE
-----------------------------------------------------------------------------
\* A mutant of Continues: an answer may be continued again.
ContinuesAgain(n, outputs) == n \in DOMAIN bucket /\ outputs = bucket[n].pending

\* previous_response_id: known, not consumed, and the tool outputs are exactly for a
\* node that waits for some.  Everything else is refused.
Continues(n, outputs) ==
  n \in DOMAIN bucket /\ ~bucket[n].consumed /\ outputs = bucket[n].pending

\* The checks and Consumed, in one critical section; what is continued is n, 0 if nothing.
Consume(n) ==
  \/ n = 0 /\ UNCHANGED rememberedVars
  \/ \E outputs \in BOOLEAN :
       /\ Continues(n, outputs)
       /\ bucket' = [bucket EXCEPT ![n].consumed = TRUE]
       /\ branches' = [branches EXCEPT ![n] = @ + 1]
       /\ UNCHANGED <<newest, outdated>>

BeginCall(r) ==
  /\ r \notin calling
  /\ \E n \in 0 .. newest : Consume(n)
  /\ calling' = calling \cup {r}
  /\ UNCHANGED streamVars

\* runOpenAIAdapter failed, or its answer is empty: the node that was to be continued
\* stays consumed.
AnswerFails(r) ==
  /\ r \in calling /\ calling' = calling \ {r}
  /\ UNCHANGED <<rememberedVars, streamVars>>

\* A mutant of Leaving: the newest goes.
LeavingNewest(B) ==
  IF Cardinality(B) >= PerTenant THEN {n \in B : \A k \in B : k <= n} ELSE {}

\* What makes room in a full bucket: the oldest of it.
Leaving(B) == IF Cardinality(B) >= PerTenant THEN {n \in B : \A k \in B : n <= k} ELSE {}

\* The answer is remembered, with or without pending tool calls: what is older than an
\* hour goes first.
RememberAnswer(r) ==
  /\ r \in calling /\ calling' = calling \ {r}
  /\ newest < MaxRemembered
  /\ newest' = newest + 1
  /\ LET recent == {n \in DOMAIN bucket : n > outdated}
         kept == recent \ Leaving(recent)
     IN  \E calls \in BOOLEAN :
           bucket' = [n \in kept \cup {newest'} |->
                        IF n \in kept THEN bucket[n] ELSE [pending |-> calls, consumed |-> FALSE]]
  /\ UNCHANGED <<outdated, branches, streamVars>>

\* An hour in which nothing is remembered.
HourPasses ==
  /\ outdated < newest
  /\ outdated' = newest
  /\ UNCHANGED <<bucket, newest, branches, calling, streamVars>>
-----------------------------------------------------------------------------
\* streamResponsesAdapter starts openaiChat on a pipe and tells that the response began.
BeginStream ==
  /\ outer.at = "off"
  /\ \E n \in 0 .. newest : Consume(n)
  /\ inner' = [NoInner EXCEPT !.at = "runs"]
  /\ outer' = [NoOuter EXCEPT !.at = "scans", !.said = "created"]
  /\ UNCHANGED <<calling, departed>>

\* openaiChat writes a line into the pipe, and waits until it is read.  A refusal comes
\* instead of a stream; it and only it is written though the client has departed.
WriteLine ==
  /\ inner.at = "runs" /\ inner.wrote < MaxLines /\ inner.status # 400
  /\ \E line \in Line :
       /\ line = "refusal" => inner.status = 0
       /\ departed => line = "refusal"
       /\ inner' = [at |-> "writes", line |-> line, wrote |-> inner.wrote + 1,
                    status |-> IF line = "refusal" THEN 400 ELSE 200,
                    content |-> inner.content \cup ({line} \cap Content)]
  /\ UNCHANGED <<rememberedVars, calling, outer, departed>>

\* It returns or panics: the pipe is closed, then innerDone.
InnerEnds ==
  /\ inner.at = "runs"
  /\ inner' = [inner EXCEPT !.at = "done"]
  /\ UNCHANGED <<rememberedVars, calling, outer, departed>>

\* The scanner takes what is in the pipe, which frees the writer; a line that does not
\* fit its buffer ends the scan in the middle of the write.
ScanLine ==
  /\ outer.at = "scans" /\ outer.line = "none" /\ inner.at = "writes"
  /\ IF inner.line = "huge"
     THEN outer' = [outer EXCEPT !.tooLong = TRUE, !.at = "waits"] /\ UNCHANGED inner
     ELSE /\ outer' = [outer EXCEPT !.line = inner.line]
          /\ inner' = [inner EXCEPT !.at = "runs", !.line = "none"]
  /\ UNCHANGED <<rememberedVars, calling, departed>>

\* With a line in hand: return if the client has departed, which leaves the pipe open; else
\* gather its content and pass it on.
HandleLine ==
  /\ outer.line # "none"
  /\ outer' = IF departed THEN [outer EXCEPT !.line = "none", !.at = "left"]
              ELSE [outer EXCEPT !.line = "none", !.gathered = @ \cup ({outer.line} \cap Content)]
  /\ UNCHANGED <<rememberedVars, calling, inner, departed>>

\* A mutant of Verdict: a stream without an answer is complete.
VerdictUnread == IF outer.tooLong \/ inner.status = 400 THEN "failed" ELSE "completed"

\* The terminal event: an error or blanks are a failure.
Verdict ==
  IF outer.tooLong \/ inner.status = 400 \/ outer.gathered \subseteq {"blank"}
  THEN "failed" ELSE "completed"

\* After the last line, <-innerDone and the terminal event, if there is someone to read
\* it.
Terminate ==
  /\ outer.at \in {"scans", "waits"} /\ outer.line = "none" /\ inner.at = "done"
  /\ outer' = [outer EXCEPT !.at = "left", !.said = IF departed THEN @ ELSE Verdict]
  /\ UNCHANGED <<rememberedVars, calling, inner, departed>>

Disconnect ==
  /\ outer.at \in {"scans", "waits"} /\ ~departed
  /\ departed' = TRUE
  /\ UNCHANGED <<rememberedVars, calling, inner, outer>>

\* Both goroutines are through, and another stream is followed.
FollowAnother ==
  /\ outer.at = "left" /\ inner.at = "done"
  /\ inner' = NoInner /\ outer' = NoOuter /\ departed' = FALSE
  /\ UNCHANGED <<rememberedVars, calling>>

Stream ==
  \/ BeginStream \/ WriteLine \/ InnerEnds \/ ScanLine \/ HandleLine
  \/ Terminate \/ Disconnect \/ FollowAnother

ResponsesNext ==
  \/ \E r \in Readers : BeginCall(r) \/ AnswerFails(r) \/ RememberAnswer(r)
  \/ HourPasses \/ Stream

ResponsesSpec == ResponsesInit /\ [][ResponsesNext]_responsesVars
-----------------------------------------------------------------------------
Remembered == [pending : BOOLEAN, consumed : BOOLEAN]

ResponsesTypeOK ==
  /\ newest \in 0 .. MaxRemembered /\ outdated \in 0 .. newest
  /\ DOMAIN bucket \subseteq 1 .. newest
  /\ \A n \in DOMAIN bucket : bucket[n] \in Remembered
  /\ branches \in [1 .. MaxRemembered -> Nat]
  /\ calling \subseteq Readers
  /\ inner \in [at : {"off", "runs", "writes", "done"}, line : Line \cup {"none"},
                status : {0, 200, 400}, wrote : 0 .. MaxLines, content : SUBSET Content]
  /\ outer \in [at : {"off", "scans", "waits", "left"}, line : Line \cup {"none"},
                tooLong : BOOLEAN, gathered : SUBSET Content,
                said : {"nothing", "created", "completed", "failed"}]
  /\ departed \in BOOLEAN

\* The chain of a client holds together: no two requests continue one answer, and the
\* bucket keeps its limit and loses only what is past the hour or what PerTenant newer
\* answers have pushed out (protocol_handlers.go:481-496).
AnswersKept ==
  /\ \A n \in DOMAIN branches : branches[n] <= 1
  /\ Cardinality(DOMAIN bucket) <= PerTenant
  /\ \A n \in 1 .. newest : n > outdated /\ n + PerTenant > newest => n \in DOMAIN bucket

\* protocol_handlers.go:241: a stream whose client is there ends with a terminal event.
\* It is "completed" only over an answer, and then the client was told all of it; and
\* openaiChat waits for a reader in vain only when the client has departed or a line did
\* not fit the scanner.
StreamToldTruly ==
  /\ outer.at = "left" => departed \/ outer.said \in {"completed", "failed"}
  /\ outer.said = "completed" =>
       /\ inner.at = "done" /\ inner.status = 200
       /\ outer.gathered = inner.content /\ ~ inner.content \subseteq {"blank"}
  /\ outer.said = "failed" => inner.status = 400 \/ inner.content \subseteq {"blank"}
  /\ inner.at = "writes" /\ outer.at # "scans" => departed \/ outer.tooLong

\* Of the two ways to be answered, what is remembered is kept and what is streamed is told.
ResponsesTrue == AnswersKept /\ StreamToldTruly
=============================================================================
