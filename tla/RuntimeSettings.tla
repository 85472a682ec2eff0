--------------------------- MODULE RuntimeSettings ---------------------------
(***************************************************************************)
(* The settings of the console and the list of outbound proxies            *)
(* (internal/web/settings.go and proxy_pool.go, internal/outbound/proxy.go)*)
(* as three copies: the file, the values in memory, and the pool that      *)
(* requests go through.  Every handler reads, changes and writes them in   *)
(* steps, each under a lock of its own and none under one for all.         *)
(*                                                                         *)
(* Of the settings the list of proxies is one and the log level stands for *)
(* the others.  A proxy list is a set: NewPool drops repetitions.  The     *)
(* environment gives no list of its own, a POST of several proxies is as   *)
(* many requests, and what validateSettings refuses changes nothing.       *)
(***************************************************************************)
EXTENDS Naturals

CONSTANTS
  Consoles,  \* pages of the administrator that are served at the same time
  Proxy,     \* addresses of proxies
  Level,     \* values of another setting
  MaxUnsaved    \* bound: saves that fail

ASSUME SettingsAssumption == MaxUnsaved \in Nat

VARIABLES
  file,      \* settings.json
  memory,    \* settingsStore.v
  live,      \* outbound.proxyPool
  console,   \* where every handler is, what it will save and what it was asked for
  promised,  \* the settings the last request was asked for, if it ran alone
  fails      \* saves that failed so far

settingsVars == <<file, memory, live, console, promised, fails>>

Settings == [level : Level, proxies : SUBSET Proxy]
Unasked == [at |-> "idle"]
Unpromised == [level |-> "none"]

SettingsInit ==
  /\ file \in [level : Level, proxies : {{}}]
  /\ memory = file /\ live = {}
  /\ console = [c \in Consoles |-> Unasked]
  /\ promised = Unpromised
  /\ fails = 0

Asking == {c \in Consoles : console[c] # Unasked}
-----------------------------------------------------------------------------
\* A request begins.  While one is under way nothing is promised, and one that
\* meets another is not alone.
BeginRequest(c, at, draft) ==
  /\ console[c] = Unasked
  /\ console' = [d \in Consoles |->
       CASE d = c -> [at |-> at, draft |-> draft, goal |-> draft, alone |-> Asking = {}]
         [] d \in Asking -> [console[d] EXCEPT !.alone = FALSE]
         [] OTHER -> Unasked]
  /\ promised' = Unpromised
  /\ UNCHANGED <<file, memory, live, fails>>

\* adminSettings: the fields of the request over a copy of the settings.
PutSettings(c) ==
  \/ \E l \in Level : BeginRequest(c, "savePut", [memory EXCEPT !.level = l])
  \/ \E P \in SUBSET Proxy : BeginRequest(c, "savePut", [memory EXCEPT !.proxies = P])

\* AddProxy and RemoveProxy: another list from the one in use.  A proxy that is not
\* in use is refused.
EditProxies(c) ==
  \/ \E p \in Proxy : BeginRequest(c, "swap", [memory EXCEPT !.proxies = live \union {p}])
  \/ \E p \in live : BeginRequest(c, "swap", [memory EXCEPT !.proxies = live \ {p}])
  \/ BeginRequest(c, "swap", [memory EXCEPT !.proxies = {}])

ConsoleGoes(c, at) == console' = [console EXCEPT ![c].at = at]

\* ConfigurePool, for an edit before the save and for settings after it.
Swap(c) ==
  /\ console[c].at = "swap"
  /\ live' = console[c].draft.proxies
  /\ ConsoleGoes(c, "get")
  /\ UNCHANGED <<file, memory, promised, fails>>

\* persistProxyPool reads the settings and then the list in use.
Get(c) ==
  /\ console[c].at = "get"
  /\ console' = [console EXCEPT ![c].at = "list", ![c].draft = memory]
  /\ UNCHANGED <<file, memory, live, promised, fails>>

\* Variant: what the settings hold is saved again.
ListOfSettings(c) ==
  /\ console[c].at = "list"
  /\ ConsoleGoes(c, "saveEdit")
  /\ UNCHANGED <<file, memory, live, promised, fails>>

List(c) ==
  /\ console[c].at = "list"
  /\ console' = [console EXCEPT ![c].at = "saveEdit", ![c].draft.proxies = live]
  /\ UNCHANGED <<file, memory, live, promised, fails>>

\* settingsStore.save: the file, without the lock, and then the memory.
SaveFile(c) ==
  /\ console[c].at \in {"savePut", "saveEdit"}
  /\ \/ /\ file' = console[c].draft
        /\ ConsoleGoes(c, IF console[c].at = "savePut" THEN "setPut" ELSE "setEdit")
        /\ UNCHANGED fails
     \/ /\ fails < MaxUnsaved /\ fails' = fails + 1
        /\ console' = [console EXCEPT ![c] = Unasked]
        /\ UNCHANGED file
  /\ UNCHANGED <<memory, live, promised>>

AnswerConsole(c) ==
  /\ console' = [console EXCEPT ![c] = Unasked]
  /\ promised' = IF console[c].alone THEN console[c].goal ELSE promised

SetMemory(c) ==
  /\ console[c].at \in {"setPut", "setEdit"}
  /\ memory' = console[c].draft
  /\ IF console[c].at = "setEdit"
     THEN AnswerConsole(c)
     ELSE ConsoleGoes(c, "configure") /\ UNCHANGED promised
  /\ UNCHANGED <<file, live, fails>>

Configure(c) ==
  /\ console[c].at = "configure"
  /\ live' = console[c].draft.proxies
  /\ AnswerConsole(c)
  /\ UNCHANGED <<file, memory, fails>>

\* The process ends, in order or not, and starts from the file: openSettingsStore,
\* and the list on which ConfigureFromEnv builds the pool.
StartAgain ==
  /\ memory' = file /\ live' = file.proxies
  /\ console' = [c \in Consoles |-> Unasked]
  /\ UNCHANGED <<file, promised, fails>>
-----------------------------------------------------------------------------
SettingsNext ==
  \/ StartAgain
  \/ \E c \in Consoles :
       \/ PutSettings(c) \/ EditProxies(c)
       \/ Swap(c) \/ Get(c) \/ List(c) \/ SaveFile(c) \/ SetMemory(c) \/ Configure(c)

SettingsSpec == SettingsInit /\ [][SettingsNext]_settingsVars
-----------------------------------------------------------------------------
SettingsTypeOK ==
  /\ file \in Settings /\ memory \in Settings /\ live \subseteq Proxy
  /\ promised \in Settings \union {Unpromised}
  /\ \A c \in Asking : console[c].draft \in Settings /\ console[c].goal \in Settings

\* Once a request that met no other has been answered, the file, the settings in
\* memory and the proxies in use are those it was asked for and agree, whatever
\* overlapping or failed requests left behind before it, and a restart keeps them.
\* Requests that overlap lose one another's changes (settings.go:460,
\* proxy_pool.go:11).
SettingsTrue ==
  promised # Unpromised =>
    file = promised /\ memory = promised /\ live = promised.proxies
=============================================================================
