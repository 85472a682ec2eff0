---------------------------- MODULE ChatTurn ----------------------------
(***************************************************************************)
(* One turn of the ChatHub client (internal/chathub/client.go): dial, the  *)
(* upload of attachments beside it, the handshake, the payload, and then   *)
(* the loop over frames that a reader goroutine puts in a small channel.   *)
(*                                                                         *)
(* The upstream is external.  It speaks one of Answers, as fragments at    *)
(* the cursor, as snapshots of all it has said so far, or both; it may     *)
(* hide a fragment in a tool frame, repeat an old snapshot, complete too   *)
(* early, fail or fall silent.  A text is a sequence of words; of the   *)
(* words only those that make up a notice mean anything.                   *)
(***************************************************************************)
EXTENDS Integers, Sequences, SequencesExt, Functions

CONSTANTS
  Answers,       \* the texts the upstream may mean to say, sequences of words
  Pools,         \* whether the connection may come from a pool: a set of BOOLEAN
  ReadCap        \* capacity of readCh (8 in the code)

ASSUME TurnAssumption ==
  /\ Pools \in SUBSET BOOLEAN /\ Pools # {}
  /\ ReadCap \in Nat \ {0} /\ Answers \in SUBSET Seq(STRING)

VARIABLES
  turn,      \* at, reused, uploading, conn, outcome, text of the Result
  reader,    \* the reader goroutine: its place and the frame in its hand
  readCh,    \* the frames between the reader and the loop
  ctx,       \* "live", "canceled" by the client or "expired"
  late,      \* the five minute timer: "no", "fired", or "seen" by the loop
  said,      \* the first delta and all of them, final and offense of the loop
  upstream,  \* what the upstream means to say, how far it got
  seen       \* what really happened: broken connection, faithful upstream

turnVars == <<turn, reader, readCh, ctx, late, said, upstream, seen>>

Empty == <<>>
Faults == {"canceled", "expired", "client", "busy", "image", "policy"}
DialFaults == {"dial401", "dial403", "dial429", "dial503", "refused"}
Outcomes == {"none", "ok", "upload", "handshake", "drop", "timeout", "throttled",
             "failed", "empty"} \union Faults \union DialFaults

TurnInit ==
  /\ turn = [at |-> "dial", reused |-> FALSE, uploading |-> FALSE, conn |-> "none",
             outcome |-> "none", text |-> Empty]
  /\ reader = [at |-> "none", frame |-> Empty]
  /\ readCh = Empty /\ ctx = "live" /\ late = "no"
  /\ said = [first |-> Empty, streamed |-> Empty, final |-> Empty, offense |-> FALSE]
  /\ upstream \in [answer : Answers, pos : {0}, resulted : {FALSE}]
  /\ seen = [broken |-> FALSE, faithful |-> TRUE]
-----------------------------------------------------------------------------
(* Notices.                                                                *)

BusyNotice(text) == {"retry", "later"} \subseteq Range(text)
NoImage(text)    == "image" \in Range(text)
Blocked(text)    == "policy" \in Range(text)

\* The notice a text carries, in the order in which the code asks; "none" for
\* ordinary text.  Asked only while nothing has been streamed.
Notice(text) ==
  CASE NoImage(text) -> "image"
    [] ~NoImage(text) /\ BusyNotice(text) -> "busy"
    [] ~NoImage(text) /\ ~BusyNotice(text) /\ Blocked(text) -> "policy"
    [] OTHER -> "none"
-----------------------------------------------------------------------------
(* Emission.  A run r of the loop body carries the first delta, all that   *)
(* was streamed and the fault that ended it; nothing is emitted after one.  *)

Run == [first |-> said.first, streamed |-> said.streamed, fault |-> "none"]

\* emitDelta.  takes is the answer of the caller's onDelta.
Emit(r, d, takes) ==
  CASE r.fault # "none" \/ d = Empty -> r
    [] r.fault = "none" /\ d # Empty /\ ctx # "live" -> [r EXCEPT !.fault = ctx]
    [] OTHER -> [first |-> IF r.streamed = Empty THEN d ELSE r.first,
                 streamed |-> r.streamed \o d,
                 fault |-> IF takes THEN "none" ELSE "client"]

Overlap(s, t) == Len(LongestCommonPrefix({s, t}))
Tail_(s, n) == SubSeq(s, n + 1, Len(s))

\* Variant: the whole snapshot is emitted, as if none of it had been streamed.
SnapshotWhole(r, text, takes) ==
  IF r.fault # "none" \/ text = Empty THEN r
  ELSE IF r.streamed = Empty /\ Notice(text) # "none" THEN [r EXCEPT !.fault = Notice(text)]
  ELSE Emit(r, text, takes)

\* emitSnapshot: the part of a snapshot that has not been streamed.
Snapshot(r, text, takes) ==
  LET cur == r.streamed
  IN  CASE r.fault # "none" \/ text = Empty -> r
        [] r.fault = "none" /\ text # Empty /\ cur = Empty /\ Notice(text) # "none" ->
             [r EXCEPT !.fault = Notice(text)]
        [] OTHER ->
             IF IsPrefix(cur, text) \/ (Len(text) > Len(cur) /\ Overlap(cur, text) > 0)
             THEN Emit(r, Tail_(text, Overlap(cur, text)), takes)
             ELSE r

\* An update frame: the fragment at the cursor, unless the frame belongs to a
\* tool, and then the text of the bot's message.
Updated(f, takes) ==
  LET r == IF f.cursor = Empty \/ f.tool THEN Run
           ELSE IF said.streamed # Empty THEN Emit(Run, f.cursor, takes)
           ELSE Snapshot(Run, f.cursor, takes)
  IN  Snapshot(r, f.text, takes)

\* Variant: the final text is not looked at.
ResultUnread(f) == IF f.verdict # "Success" THEN f.verdict ELSE "none"

\* A result frame: how the turn went and the final text.
ResultFault(f) ==
  CASE f.verdict # "Success" -> f.verdict
    [] f.verdict = "Success" /\ said.streamed = Empty /\ Notice(f.text) # "none" -> Notice(f.text)
    [] f.verdict = "Success" /\ said.streamed # Empty /\ Blocked(f.text) -> "policy"
    [] OTHER -> "none"

\* finalizeText, and the tail it may still have to emit.
MissesTail == Len(said.final) > Len(said.streamed) /\ IsPrefix(said.streamed, said.final)
Finalized(takes) ==
  [run  |-> IF MissesTail THEN Emit(Run, Tail_(said.final, Len(said.streamed)), takes) ELSE Run,
   text |-> IF Len(said.final) > Len(said.streamed) THEN said.final ELSE said.streamed]

\* The completion frame: what the turn answers.
Completed(f, takes) ==
  LET z == Finalized(takes)
  IN  CASE f.verdict # "Success" -> f.verdict
        [] f.verdict = "Success" /\ said.streamed = Empty /\ BusyNotice(said.final) -> "busy"
        [] OTHER ->
             IF z.run.fault # "none" THEN z.run.fault
             ELSE IF z.text = Empty THEN "empty"
             ELSE IF said.offense \/ Blocked(z.text) THEN "policy"
             ELSE "ok"
-----------------------------------------------------------------------------
(* Before the loop.                                                        *)

\* Variant: the connection stays open.
OverLeavesOpen(outcome) == turn' = [turn EXCEPT !.at = "over", !.outcome = outcome]

\* The turn returns; its connection is closed whatever the reason.
Over(outcome) == turn' = [turn EXCEPT !.at = "over", !.outcome = outcome, !.conn = "closed"]

\* The upload starts beside the dial when the request has attachments.
Dial ==
  /\ turn.at = "dial" /\ turn.conn = "none"
  /\ \E attachments \in BOOLEAN, pooled \in Pools :
       turn' = [turn EXCEPT !.at = "upload", !.conn = "open", !.reused = pooled,
                            !.uploading = attachments]
  /\ UNCHANGED <<reader, readCh, ctx, late, said, upstream, seen>>

DialFails ==
  /\ turn.at = "dial"
  /\ \E fault \in DialFaults \union {ctx} : fault # "live" /\ Over(fault)
  /\ UNCHANGED <<reader, readCh, ctx, late, said, upstream, seen>>

\* The turn waits for the upload; a panic in that goroutine is reported as an
\* error as well.
Uploaded ==
  /\ turn.at = "upload"
  /\ \/ turn' = [turn EXCEPT !.at = IF turn.reused THEN "send" ELSE "hello", !.uploading = FALSE]
     \/ turn.uploading /\ Over("upload")
  /\ UNCHANGED <<reader, readCh, ctx, late, said, upstream, seen>>

\* A pooled connection has its handshake behind it.
Handshake ==
  /\ turn.at = "hello"
  /\ turn' = [turn EXCEPT !.at = "send"] \/ Over("handshake")
  /\ UNCHANGED <<reader, readCh, ctx, late, said, upstream, seen>>

\* The payload is written and the reader started.
Send ==
  /\ turn.at = "send"
  /\ \/ turn' = [turn EXCEPT !.at = "loop"] /\ reader' = [reader EXCEPT !.at = "reading"]
        /\ UNCHANGED seen
     \/ Over("drop") /\ seen' = [seen EXCEPT !.broken = TRUE] /\ UNCHANGED reader
  /\ UNCHANGED <<readCh, ctx, late, said, upstream>>
-----------------------------------------------------------------------------
(* The upstream, as far as the reader can tell: what its next read returns. *)

Ping == [kind |-> "ping", verdict |-> "Success", cursor |-> Empty, text |-> Empty,
         tool |-> FALSE, offense |-> FALSE]
SaidSoFar(n) == SubSeq(upstream.answer, 1, n)

\* How a result or a completion frame says the turn went: a throttled or over
\* charged account, a banned one, anything else.
ResultVerdicts == {"Success", "throttled", "failed"}
CompletionVerdicts == {"Success", "busy", "failed"}

Hold(f) == reader' = [at |-> "holding", frame |-> f]

\* A fragment, a snapshot, or both; a snapshot may be an old one.
ReadUpdate ==
  \E n \in {upstream.pos, upstream.pos + 1}, tool, offense, snapshot \in BOOLEAN, old \in 0 .. upstream.pos :
    LET cursor == IF n > upstream.pos THEN <<upstream.answer[n]>> ELSE Empty
        text   == IF snapshot THEN SaidSoFar(IF old = upstream.pos THEN n ELSE old) ELSE Empty
    IN  /\ n <= Len(upstream.answer) /\ ~upstream.resulted
        /\ n > upstream.pos \/ snapshot
        /\ offense => snapshot /\ n = upstream.pos
        /\ tool => n > upstream.pos
        /\ Hold([Ping EXCEPT !.kind = "update", !.cursor = cursor, !.text = text,
                             !.tool = tool, !.offense = offense])
        /\ upstream' = [upstream EXCEPT !.pos = n]
        /\ seen' = [seen EXCEPT !.faithful = @ /\ ~(tool /\ cursor # Empty)]

ReadResult ==
  \E verdict \in ResultVerdicts, final \in BOOLEAN :
    /\ ~upstream.resulted
    /\ Hold([Ping EXCEPT !.kind = "result", !.verdict = verdict,
                         !.text = IF final THEN upstream.answer ELSE Empty])
    /\ upstream' = [upstream EXCEPT !.resulted = final, !.pos = IF final THEN Len(upstream.answer) ELSE @]
    /\ UNCHANGED seen

\* A completion that leaves words unsaid is not what a faithful upstream sends.
ReadCompletion ==
  \E verdict \in CompletionVerdicts :
    /\ Hold([Ping EXCEPT !.kind = "completion", !.verdict = verdict])
    /\ seen' = [seen EXCEPT !.faithful = @ /\ upstream.pos = Len(upstream.answer)]
    /\ UNCHANGED upstream

ReadPing == Hold(Ping) /\ UNCHANGED <<upstream, seen>>

\* A read deadline, a lost connection, or the connection this side has closed.
ReadError ==
  \E how \in {"timeout", "drop"} :
    /\ Hold([Ping EXCEPT !.kind = "error", !.verdict = how])
    /\ seen' = [seen EXCEPT !.broken = TRUE]
    /\ UNCHANGED upstream

-----------------------------------------------------------------------------
(* The reader goroutine.                                                   *)

ReadFrame ==
  /\ reader.at = "reading"
  /\ \/ turn.conn = "open" /\ (ReadUpdate \/ ReadResult \/ ReadCompletion \/ ReadPing)
     \/ ReadError
  /\ UNCHANGED <<turn, readCh, ctx, late, said>>

Stops == reader.frame # Empty /\ reader.frame.kind = "error"
LoopIsOver == turn.at = "over"

\* The frame goes to the loop; an error is the reader's last.
Put ==
  /\ reader.at = "holding" /\ Len(readCh) < ReadCap
  /\ readCh' = Append(readCh, reader.frame)
  /\ reader' = [at |-> IF Stops THEN "gone" ELSE "reading", frame |-> Empty]
  /\ UNCHANGED <<turn, ctx, late, said, upstream, seen>>

\* Variant: the reader only knows the channel.
AbandonNever ==
  /\ reader.at = "reading" /\ turn.reused
  /\ LoopIsOver \/ ctx # "live"
  /\ reader' = [at |-> "gone", frame |-> Empty]
  /\ UNCHANGED <<turn, readCh, ctx, late, said, upstream, seen>>

\* done is closed when the turn returns.
Abandon ==
  /\ \/ reader.at = "holding"
     \/ reader.at = "reading" /\ turn.reused
  /\ LoopIsOver \/ ctx # "live"
  /\ reader' = [at |-> "gone", frame |-> Empty]
  /\ UNCHANGED <<turn, readCh, ctx, late, said, upstream, seen>>

\* A panic in the reader closes the channel all the same.
ReaderPanics ==
  /\ reader.at = "reading"
  /\ reader' = [at |-> "gone", frame |-> Empty]
  /\ seen' = [seen EXCEPT !.broken = TRUE]
  /\ UNCHANGED <<turn, readCh, ctx, late, said, upstream>>
-----------------------------------------------------------------------------
(* The loop.                                                               *)

\* The condition of the loop: a select that finds a frame beside the timer may
\* still take the frame, once.
InLoop == turn.at = "loop" /\ late # "seen"

HandlePing == UNCHANGED <<turn, said>>

HandleUpdate(f, takes) ==
  LET r == Updated(f, takes)
  IN  /\ said' = [said EXCEPT !.first = r.first, !.streamed = r.streamed,
                              !.offense = @ \/ f.offense]
      /\ IF r.fault = "none" THEN UNCHANGED turn ELSE Over(r.fault)

HandleResult(f) ==
  /\ said' = [said EXCEPT !.final = IF f.verdict = "Success" /\ f.text # Empty THEN f.text ELSE @]
  /\ IF ResultFault(f) = "none" THEN UNCHANGED turn ELSE Over(ResultFault(f))

HandleCompletion(f, takes) ==
  LET z == Finalized(takes)
      outcome == Completed(f, takes)
  IN  /\ said' = IF outcome \in {"ok", "policy", "client"} 
                THEN [said EXCEPT !.first = z.run.first, !.streamed = z.run.streamed] ELSE said
      /\ turn' = [turn EXCEPT !.at = "over", !.conn = "closed", !.outcome = outcome,
                              !.text = IF outcome = "ok" THEN z.text ELSE Empty]

HandleError(f) == Over(f.verdict) /\ UNCHANGED said

Take ==
  /\ InLoop /\ readCh # Empty
  /\ readCh' = Tail(readCh) /\ late' = IF late = "no" THEN "no" ELSE "seen"
  /\ \E takes \in BOOLEAN :
       LET f == Head(readCh)
       IN  \/ f.kind = "ping" /\ HandlePing
           \/ f.kind = "update" /\ HandleUpdate(f, takes)
           \/ f.kind = "result" /\ HandleResult(f)
           \/ f.kind = "completion" /\ HandleCompletion(f, takes)
           \/ f.kind = "error" /\ HandleError(f)
  /\ UNCHANGED <<reader, ctx, upstream, seen>>

\* What a canceled or expired context is called when the turn ends by it.
ContextFault == IF ctx = "canceled" THEN "canceled" ELSE "timeout"

\* Variant: a closed channel is a lost connection.
ChannelClosedIsDrop ==
  /\ InLoop /\ readCh = Empty /\ reader.at = "gone"
  /\ Over("drop")
  /\ UNCHANGED <<reader, readCh, ctx, late, said, upstream, seen>>

\* readCh is closed and drained.  The reader also leaves when the context ends,
\* so the context is asked first.
ChannelClosed ==
  /\ InLoop /\ readCh = Empty /\ reader.at = "gone"
  /\ Over(IF ctx # "live" THEN ContextFault ELSE "drop")
  /\ UNCHANGED <<reader, readCh, ctx, late, said, upstream, seen>>

ContextDone ==
  /\ InLoop /\ ctx # "live"
  /\ Over(ContextFault)
  /\ UNCHANGED <<reader, readCh, ctx, late, said, upstream, seen>>

\* Either the timer's case of the select or the condition of the loop.
DeadlinePasses ==
  /\ turn.at = "loop" /\ late # "no"
  /\ Over("timeout")
  /\ UNCHANGED <<reader, readCh, ctx, late, said, upstream, seen>>

TimerFires ==
  /\ InLoop /\ late = "no"
  /\ late' = "fired"
  /\ UNCHANGED <<turn, reader, readCh, ctx, said, upstream, seen>>

TurnContextEnds ==
  /\ turn.at # "over" /\ ctx = "live"
  /\ ctx' \in {"canceled", "expired"}
  /\ UNCHANGED <<turn, reader, readCh, late, said, upstream, seen>>
-----------------------------------------------------------------------------
Opening == Dial \/ DialFails \/ Uploaded \/ Handshake \/ Send
LoopTurns == Take \/ ChannelClosed \/ ContextDone \/ DeadlinePasses
TurnNext ==
  \/ Opening \/ LoopTurns
  \/ ReadFrame \/ Put \/ Abandon \/ ReaderPanics
  \/ TimerFires \/ TurnContextEnds

TurnSpec == TurnInit /\ [][TurnNext]_turnVars

\* The steps of the two goroutines are never refused for ever, a read of a
\* connection of its own ends by its deadline, and the timer fires.  Nothing is
\* assumed of a pooled connection or of the context.
TurnFairness ==
  /\ WF_turnVars(Opening) /\ WF_turnVars(LoopTurns)
  /\ WF_turnVars(Put) /\ WF_turnVars(Abandon)
  /\ WF_turnVars(~turn.reused /\ ReadFrame)
  /\ WF_turnVars(TimerFires)
FairTurnSpec == TurnSpec /\ TurnFairness
-----------------------------------------------------------------------------
\* The values of the variables; a turn that is over has an outcome and has closed
\* its connection (the deferred conn.Close of client.go).
TurnTypeOK ==
  /\ turn.at \in {"dial", "upload", "hello", "send", "loop", "over"}
  /\ turn.outcome \in Outcomes /\ turn.conn \in {"none", "open", "closed"}
  /\ reader.at \in {"none", "reading", "holding", "gone"}
  /\ Len(readCh) <= ReadCap
  /\ ctx \in {"live", "canceled", "expired"} /\ late \in {"no", "fired", "seen"}
  /\ upstream.pos \in 0 .. Len(upstream.answer)
  /\ turn.at = "over" => turn.outcome # "none" /\ turn.conn = "closed"

\* While the upstream appends to one text, whatever mixture of fragments, new
\* and repeated snapshots it sends, the caller has been handed a beginning of
\* that text, each word once, and a turn that succeeds has handed over and
\* returned all of it (emitDelta, emitSnapshot and finalizeText: client.go
\* "Only the portion not already streamed may be emitted").
StreamIsTheAnswer ==
  seen.faithful =>
    /\ IsPrefix(said.streamed, upstream.answer)
    /\ turn.outcome = "ok" => /\ turn.text = upstream.answer
                              /\ said.streamed = upstream.answer

\* A notice that arrives in one piece before any content is never handed to the
\* caller: the turn fails and the server can move to another account (client.go
\* "Detect it before any real content has streamed").
NoticeNeverFirst ==
  said.first # Empty => Notice(said.first) = "none"

\* A turn reports a lost connection only when the connection was lost or its
\* reader died, never because the caller gave up: the account's health and the
\* failover are decided from that report.
DropIsReal == turn.outcome = "drop" => seen.broken

\* What the caller is told by a turn is what happened.
TurnTellsTruly == StreamIsTheAnswer /\ NoticeNeverFirst /\ DropIsReal

\* Every turn comes to an end and leaves no reader behind, though the upstream
\* falls silent, a pooled connection never delivers and the caller waits: the
\* turn holds a slot of its account and the reader a socket.
TurnSettles == (turn.at = "loop") ~> (turn.at = "over" /\ reader.at = "gone")
=============================================================================
