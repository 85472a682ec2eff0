------------------------------- MODULE KeyGate -------------------------------
(***************************************************************************)
(* What stands before a request with an API key (internal/web/server.go    *)
(* adminMiddleware, keys.go keyRateWindow) and the log its quotas are      *)
(* counted from (usage.go): one key, its requests in any number at the     *)
(* same time, and the log in memory, on its way and in the file.           *)
(*                                                                         *)
(* The key and its record are KeyStore's, the flag that calls for a flush  *)
(* PersistStore's.  A record is the day it was made.  The whitelists, which*)
(* decide without state, are one refusal that may come.                    *)
(***************************************************************************)
EXTENDS Naturals, Sequences, FiniteSets

CONSTANTS
  Clients,    \* requests of the key that are served at the same time
  Rate,       \* requests in a minute
  DailyQuota, \* requests in a day
  TotalQuota, \* requests ever
  KeptRecords,       \* records kept in memory (50000 in the code)
  MaxMade,    \* bound: records ever made
  LastDay      \* bound: days after the first

ASSUME GateAssumption ==
  /\ {Rate, DailyQuota, TotalQuota} \subseteq Nat \ {0}
  /\ {KeptRecords, MaxMade, LastDay} \subseteq Nat
  /\ IsFiniteSet(Clients)

VARIABLES
  keyHere, \* whether the key exists
  window,  \* keyRateWindow: whether its counter is of this minute, and the count
  client,  \* where every request is
  usage,   \* the log: memory, waiting, being written, file
  ledger   \* what really happened: let in this minute, made, the day,
           \* and whether a flush has lost or doubled records

gateVars == <<keyHere, window, client, usage, ledger>>

GateInit ==
  /\ keyHere = TRUE
  /\ window = [current |-> FALSE, n |-> 0]
  /\ client = [c \in Clients |-> "idle"]
  /\ usage = [memory |-> <<>>, waiting |-> <<>>, writing |-> <<>>, file |-> <<>>]
  /\ ledger = [minute |-> 0, made |-> <<>>, spoiled |-> FALSE, day |-> 0]

ClientGoes(c, at) == client' = [client EXCEPT ![c] = at]
-----------------------------------------------------------------------------
\* apiKeyStore.valid and then lookupRaw, each under the lock.
Present(c) ==
  /\ client[c] = "idle" /\ keyHere
  /\ ClientGoes(c, "valid")
  /\ UNCHANGED <<keyHere, window, usage, ledger>>

\* A key deleted between the two leaves a request without a record, which is served
\* without a limit.
LookupRaw(c) ==
  /\ client[c] = "valid"
  /\ \/ ClientGoes(c, IF keyHere THEN "found" ELSE "unlimited")
     \/ keyHere /\ ClientGoes(c, "idle")
  /\ UNCHANGED <<keyHere, window, usage, ledger>>

RemoveKey ==
  /\ keyHere /\ keyHere' = FALSE
  /\ UNCHANGED <<window, client, usage, ledger>>

\* keyRateWindow.allow: a counter of another minute starts again.
Allow(c) ==
  LET n == IF window.current THEN window.n ELSE 0
  IN  /\ client[c] = "found"
      /\ window' = [current |-> TRUE, n |-> IF n < Rate THEN n + 1 ELSE n]
      /\ IF n < Rate
         THEN ClientGoes(c, "rated") /\ ledger' = [ledger EXCEPT !.minute = @ + 1]
         ELSE ClientGoes(c, "idle") /\ UNCHANGED ledger
      /\ UNCHANGED <<keyHere, usage>>

Today == Cardinality({i \in DOMAIN usage.memory : usage.memory[i] = ledger.day})

\* countForKey: the records of the key that are still in memory.
WithinQuota == Today < DailyQuota /\ Len(usage.memory) < TotalQuota

CheckQuota(c) ==
  /\ client[c] = "rated"
  /\ ClientGoes(c, IF WithinQuota THEN "served" ELSE "idle")
  /\ UNCHANGED <<keyHere, window, usage, ledger>>

\* trim: the oldest records go.
Trim(records) ==
  IF Len(records) <= KeptRecords THEN records ELSE SubSeq(records, Len(records) - KeptRecords + 1, Len(records))

\* A request that was answered is recorded; most that fail are not.  The answer of a
\* request for /v1/responses without a stream, or for /v1/messages, is recorded by the
\* handler of the chat, which it calls in process, and once more by its own.
Finish(c) ==
  /\ client[c] \in {"served", "recorded", "unlimited"}
  /\ \/ ClientGoes(c, "idle") /\ UNCHANGED <<usage, ledger>>
     \/ /\ Len(ledger.made) < MaxMade
        /\ ClientGoes(c, "idle") \/ (client[c] # "recorded" /\ ClientGoes(c, "recorded"))
        /\ usage' = [usage EXCEPT !.memory = Trim(Append(@, ledger.day)),
                                  !.waiting = Append(@, ledger.day)]
        /\ ledger' = [ledger EXCEPT !.made = Append(@, ledger.day)]
  /\ UNCHANGED <<keyHere, window>>
-----------------------------------------------------------------------------
(* usageLog.flush, by the one round that PersistStore lets run at a time.  *)

TakeWaiting ==
  /\ usage.writing = <<>> /\ usage.waiting # <<>>
  /\ usage' = [usage EXCEPT !.writing = usage.waiting, !.waiting = <<>>]
  /\ UNCHANGED <<keyHere, window, client, ledger>>

\* Variant: what could not be written waits behind what has come since.
PutBehind == usage.waiting \o usage.writing

\* The records of a failed write wait before those that have come since.
PutBack == usage.writing \o usage.waiting

\* The file is opened without the lock; when that fails the records taken are gone
\* from the way to the file (usage.go:154).  A write that fails puts them back, also
\* those of which it has written a part (which happens once here, as a bound).
Write ==
  /\ usage.writing # <<>>
  /\ \/ /\ usage' = [usage EXCEPT !.file = @ \o usage.writing, !.writing = <<>>]
        /\ UNCHANGED ledger
     \/ /\ usage' = [usage EXCEPT !.waiting = PutBack, !.writing = <<>>]
        /\ UNCHANGED ledger
     \/ /\ usage' = [usage EXCEPT !.writing = <<>>]
        /\ ledger' = [ledger EXCEPT !.spoiled = TRUE]
     \/ /\ ~ledger.spoiled
        /\ \E n \in 1 .. Len(usage.writing) - 1 :
             usage' = [usage EXCEPT !.file = @ \o SubSeq(usage.writing, 1, n),
                                    !.waiting = PutBack, !.writing = <<>>]
        /\ ledger' = [ledger EXCEPT !.spoiled = TRUE]
  /\ UNCHANGED <<keyHere, window, client>>

NextMinute ==
  /\ window' = [window EXCEPT !.current = FALSE]
  /\ ledger' = [ledger EXCEPT !.minute = 0]
  /\ UNCHANGED <<keyHere, client, usage>>

NextDay ==
  /\ ledger.day < LastDay
  /\ ledger' = [ledger EXCEPT !.day = @ + 1, !.minute = 0]
  /\ window' = [window EXCEPT !.current = FALSE]
  /\ UNCHANGED <<keyHere, client, usage>>

\* The process ends, in the middle of anything, and starts with what the file holds
\* (load); the window starts empty.
StartFromFile ==
  /\ window' = [current |-> FALSE, n |-> 0]
  /\ client' = [c \in Clients |-> "idle"]
  /\ usage' = [memory |-> Trim(usage.file), waiting |-> <<>>, writing |-> <<>>, file |-> usage.file]
  /\ ledger' = [ledger EXCEPT !.minute = 0, !.made = usage.file]
  /\ UNCHANGED keyHere
-----------------------------------------------------------------------------
GateNext ==
  \/ RemoveKey \/ TakeWaiting \/ Write \/ NextMinute \/ NextDay \/ StartFromFile
  \/ \E c \in Clients : Present(c) \/ LookupRaw(c) \/ Allow(c) \/ CheckQuota(c) \/ Finish(c)

GateSpec == GateInit /\ [][GateNext]_gateVars
-----------------------------------------------------------------------------
GateTypeOK ==
  /\ window \in [current : BOOLEAN, n : 0 .. Rate]
  /\ client \in [Clients -> {"idle", "valid", "found", "unlimited", "rated", "served", "recorded"}]
  /\ Len(usage.memory) <= KeptRecords /\ ledger.spoiled \in BOOLEAN
  /\ ledger.minute \in 0 .. Rate /\ ledger.day \in 0 .. LastDay

\* The records that the requests being served may still make.
Unrecorded == 2 * Cardinality({c \in Clients : client[c] = "served"})
        + Cardinality({c \in Clients : client[c] = "recorded"})

\* A quota is compared with the log when a request begins and the log grows when it
\* ends, so requests that overlap exceed it, and one that is recorded twice exceeds it
\* alone; but by fewer than twice what is served at once.  And no record is lost,
\* doubled or moved on its way to the file, though records are made while others are
\* written and writes fail.  Excepted are an open that fails, a write that fails
\* halfway, and requests whose key was deleted as they came.
QuotaLog ==
  ~ledger.spoiled =>
    /\ keyHere => /\ Today + Unrecorded < DailyQuota + 2 * Cardinality(Clients)
                  /\ Len(usage.memory) + Unrecorded < TotalQuota + 2 * Cardinality(Clients)
    /\ usage.file \o usage.writing \o usage.waiting = ledger.made
=============================================================================
