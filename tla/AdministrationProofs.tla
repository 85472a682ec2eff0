------------------------ MODULE AdministrationProofs ------------------------
(***************************************************************************)
(* Theorems about the administrator's side: the settings and their three   *)
(* copies (RuntimeSettings), the sign in of accounts (SignIn) and the      *)
(* administrator's password (AdminPassword), for any number of consoles,   *)
(* handlers, sign-ins, settings and passwords.                             *)
(*                                                                         *)
(* Each invariant says where every handler is and what it has done so far  *)
(* when no other handler met it; the property is what is left of that when *)
(* nobody is at work.                                                      *)
(***************************************************************************)
EXTENDS RuntimeSettings, SignIn, AdminPassword, FiniteSetTheorems, TLAPS

Request == [at : {"swap", "get", "list", "savePut", "saveEdit", "setPut", "setEdit", "configure"},
            draft : Settings, goal : Settings, alone : BOOLEAN]

\* What a request that has met no other has done to the three copies so far: the
\* list is in use before it is saved by an edit, and after it by a PUT.
DoneAlone(k, f, m, l) ==
  /\ k.at \in {"savePut", "setPut", "setEdit", "configure"} => k.draft = k.goal
  /\ k.at = "swap" => k.draft = k.goal /\ [m EXCEPT !.proxies = k.goal.proxies] = k.goal
  /\ k.at \in {"get", "list", "saveEdit", "setEdit"} => l = k.goal.proxies
  /\ k.at \in {"get", "list"} => [m EXCEPT !.proxies = l] = k.goal
  /\ k.at = "list" => k.draft = m
  /\ k.at = "saveEdit" => k.draft = k.goal
  /\ k.at \in {"setPut", "setEdit", "configure"} => f = k.goal
  /\ k.at = "configure" => m = k.goal

LoneRequest ==
  \A c \in Consoles : console[c] # Unasked /\ console[c].alone =>
    DoneAlone(console[c], file, memory, live) /\ \A d \in Consoles \ {c} : console[d] = Unasked

\* Nothing is promised while anybody asks.
PromiseWaits == promised # Unpromised => Asking = {}

SettingsTyped ==
  /\ file \in Settings /\ memory \in Settings /\ live \subseteq Proxy
  /\ promised \in Settings \union {Unpromised}
  /\ console \in [Consoles -> Request \cup {Unasked}]

SettingsInv == SettingsTyped /\ LoneRequest /\ PromiseWaits /\ SettingsTrue

\* A request that is somewhere in its handler has been asked.
LEMMA OnItsWay ==
  ASSUME NEW c \in Consoles, console[c].at # "idle", SettingsTyped
  PROVE  /\ console[c] # Unasked /\ console[c] \in Request /\ c \in Asking
         /\ promised # Unpromised => ~ PromiseWaits
BY DEF Unasked, SettingsTyped, Asking, PromiseWaits

\* A request goes on to its next stage, with what it will save then: the others
\* are where they were.
LEMMA GoesOn ==
  ASSUME SettingsTyped, PromiseWaits, LoneRequest, NEW c \in Consoles, NEW k \in Request,
         console[c] \in Request, console[c] # Unasked, k.alone = console[c].alone,
         console' = [console EXCEPT ![c] = k],
         file' \in Settings, memory' \in Settings, live' \subseteq Proxy, promised' = promised,
         k.alone => DoneAlone(k, file', memory', live')
  PROVE  SettingsInv'
<1>1. k # Unasked /\ k.at # "idle"
  BY DEF Request, Unasked
<1>2. SettingsTyped'
  BY DEF SettingsTyped, Request, Settings
<1>3. promised = Unpromised
  BY DEF PromiseWaits, Asking
<1>4. Unasked' = Unasked /\ Unpromised' = Unpromised
  BY DEF Unasked, Unpromised
<1>5. ASSUME NEW d \in Consoles, console'[d] # Unasked, console'[d].alone
      PROVE  DoneAlone(console'[d], file', memory', live') /\ \A e \in Consoles \ {d} : console'[e] = Unasked
  <2>1. CASE d = c
    <3>1. console'[d] = k /\ \A e \in Consoles \ {c} : console'[e] = console[e]
      BY <2>1 DEF SettingsTyped
    <3>2. \A e \in Consoles \ {c} : console[e] = Unasked
      BY <1>5, <3>1 DEF LoneRequest
    <3>. QED
      BY <1>5, <2>1, <3>1, <3>2
  <2>2. CASE d # c
    <3>1. console'[d] = console[d]
      BY <2>2 DEF SettingsTyped
    <3>. QED
      BY <1>5, <2>2, <3>1 DEF LoneRequest
  <2>. QED
    BY <2>1, <2>2
<1>6. LoneRequest'
  BY <1>4, <1>5 DEF LoneRequest
<1>. QED
  BY <1>2, <1>3, <1>4, <1>6 DEF SettingsInv, PromiseWaits, SettingsTrue

\* A request ends, with its answer or without.
LEMMA Ends ==
  ASSUME SettingsInv, NEW c \in Consoles, console[c] \in Request, console[c] # Unasked,
         console' = [console EXCEPT ![c] = Unasked],
         file' \in Settings, memory' \in Settings, live' \subseteq Proxy,
         promised' \in Settings \cup {Unpromised},
         promised' # Unpromised =>
           /\ console[c].alone
           /\ file' = promised' /\ memory' = promised' /\ live' = promised'.proxies
  PROVE  SettingsInv'
<1>1. SettingsTyped'
  BY DEF SettingsInv, SettingsTyped, Settings, Request, Unasked, Unpromised
<1>2. Unasked' = Unasked /\ Unpromised' = Unpromised
  BY DEF Unasked, Unpromised
<1>3. ASSUME NEW d \in Consoles, console'[d] # Unasked PROVE d # c /\ console'[d] = console[d]
  BY <1>3 DEF SettingsInv, SettingsTyped
<1>4. ASSUME NEW d \in Consoles, console'[d] # Unasked, console'[d].alone PROVE FALSE
  <2>1. d # c /\ console[d] # Unasked /\ console[d].alone
    BY <1>3, <1>4
  <2>. QED
    BY <2>1 DEF SettingsInv, LoneRequest
<1>5. LoneRequest'
  BY <1>2, <1>4 DEF LoneRequest
<1>6. ASSUME promised' # Unpromised, NEW d \in Consoles, console'[d] # Unasked PROVE FALSE
  BY <1>3, <1>6 DEF SettingsInv, LoneRequest
<1>7. PromiseWaits'
  BY <1>2, <1>6 DEF PromiseWaits, Asking
<1>. QED
  BY <1>1, <1>2, <1>5, <1>7 DEF SettingsInv, SettingsTrue

\* A request begins.
LEMMA Begins ==
  ASSUME SettingsInv, NEW c \in Consoles, NEW at \in {"swap", "savePut"}, NEW draft \in Settings,
         BeginRequest(c, at, draft),
         at = "swap" => draft = [memory EXCEPT !.proxies = draft.proxies]
  PROVE  SettingsInv'
<1>. DEFINE new == [at |-> at, draft |-> draft, goal |-> draft, alone |-> Asking = {}]
<1>1. new \in Request /\ new # Unasked
  BY DEF Request, Unasked
<1>0. c \notin Asking
  BY DEF BeginRequest, Asking
<1>2. /\ \A d \in Consoles : console'[d] = IF d = c THEN new
                                      ELSE IF d \in Asking THEN [console[d] EXCEPT !.alone = FALSE]
                                      ELSE Unasked
      /\ DOMAIN console' = Consoles /\ console' = [d \in Consoles |-> console'[d]]
      /\ promised' = Unpromised /\ UNCHANGED <<file, memory, live, fails>>
  BY <1>0 DEF BeginRequest
<1>. HIDE DEF new
<1>3. ASSUME NEW d \in Asking PROVE console[d] \in Request /\ [console[d] EXCEPT !.alone = FALSE] \in Request
                                    /\ [console[d] EXCEPT !.alone = FALSE].alone = FALSE
  BY DEF SettingsInv, SettingsTyped, Asking, Request
<1>4. ASSUME NEW d \in Consoles PROVE console'[d] \in Request \cup {Unasked}
  BY <1>1, <1>2, <1>3
<1>5. SettingsTyped'
  BY <1>2, <1>4 DEF SettingsInv, SettingsTyped, Settings, Request, Unasked, Unpromised
<1>6. Unasked' = Unasked /\ Unpromised' = Unpromised
  BY DEF Unasked, Unpromised
<1>7. ASSUME NEW d \in Consoles, console'[d] # Unasked, console'[d].alone
      PROVE  DoneAlone(console'[d], file', memory', live') /\ \A e \in Consoles \ {d} : console'[e] = Unasked
  <2>1. CASE d = c
    <3>1. console'[d] = new
      BY <1>2, <2>1, Zenon
    <3>2. Asking = {}
      <4>1. new.alone
        BY <1>7, <3>1, Zenon
      <4>2. Asking # {} => ~ new.alone
        BY DEF new
      <4>. QED
        BY <4>1, <4>2, Zenon
    <3>3. \A e \in Consoles \ {d} : console'[e] = Unasked
      BY <1>2, <2>1, <3>2
    <3>4. DoneAlone(new, file', memory', live')
      BY <1>2 DEF new, DoneAlone
    <3>. QED
      BY <3>1, <3>3, <3>4
  <2>2. CASE d # c
    BY <1>2, <1>3, <1>7, <2>2
  <2>. QED
    BY <2>1, <2>2
<1>8. LoneRequest'
  BY <1>6, <1>7 DEF LoneRequest
<1>. QED
  BY <1>2, <1>5, <1>6, <1>8 DEF SettingsInv, PromiseWaits, SettingsTrue

\* The first state has it.
LEMMA SettingsInitial == SettingsInit => SettingsInv
<1>. SUFFICES ASSUME SettingsInit PROVE SettingsInv
  OBVIOUS
<1>1. \A c \in Consoles : console[c] = Unasked
  BY DEF SettingsInit
<1>2. SettingsTyped
  BY DEF SettingsInit, SettingsTyped, Settings
<1>3. promised = Unpromised
  BY DEF SettingsInit
<1>. QED
  BY <1>1, <1>2, <1>3 DEF SettingsInv, LoneRequest, PromiseWaits, SettingsTrue

\* Every stage of every handler keeps it.
LEMMA SettingsStep == SettingsInv /\ [SettingsNext]_settingsVars => SettingsInv'
<1>. SUFFICES ASSUME SettingsInv, [SettingsNext]_settingsVars PROVE SettingsInv'
  OBVIOUS
<1>. USE DEF SettingsInv
<1>1. memory \in Settings /\ \A P \in SUBSET Proxy : [memory EXCEPT !.proxies = P] \in Settings
                                                    /\ [memory EXCEPT !.proxies = P].proxies = P
  BY DEF SettingsTyped, Settings
<1>2. ASSUME NEW c \in Consoles, PutSettings(c) PROVE SettingsInv'
  <2>1. ASSUME NEW l \in Level, BeginRequest(c, "savePut", [memory EXCEPT !.level = l])
        PROVE  SettingsInv'
    <3>1. [memory EXCEPT !.level = l] \in Settings
      BY DEF SettingsTyped, Settings
    <3>. QED
      BY <2>1, <3>1, Begins
  <2>2. ASSUME NEW P \in SUBSET Proxy, BeginRequest(c, "savePut", [memory EXCEPT !.proxies = P])
        PROVE  SettingsInv'
    BY <1>1, <2>2, Begins
  <2>. QED
    BY <1>2, <2>1, <2>2 DEF PutSettings
<1>3. ASSUME NEW c \in Consoles, EditProxies(c) PROVE SettingsInv'
  <2>1. PICK P \in SUBSET Proxy : BeginRequest(c, "swap", [memory EXCEPT !.proxies = P])
    <3>1. live \subseteq Proxy
      BY DEF SettingsTyped
    <3>. QED
      BY <1>3, <3>1 DEF EditProxies
  <2>. QED
    BY <1>1, <2>1, Begins
<1>4. ASSUME NEW c \in Consoles, Swap(c) PROVE SettingsInv'
  <2>0. console[c] # Unasked /\ console[c] \in Request
    BY <1>4, OnItsWay DEF Swap
  <2>1. /\ [console[c] EXCEPT !.at = "get"] \in Request
        /\ console' = [console EXCEPT ![c] = [console[c] EXCEPT !.at = "get"]]
        /\ [console[c] EXCEPT !.at = "get"].alone = console[c].alone
    BY <1>4, <2>0 DEF Swap, ConsoleGoes, Request, SettingsTyped
  <2>2. live' \subseteq Proxy
    BY <1>4, <2>0 DEF Swap, Request, Settings
  <2>3. console[c].alone => DoneAlone([console[c] EXCEPT !.at = "get"], file', memory', live')
    <3>. SUFFICES ASSUME console[c].alone PROVE DoneAlone([console[c] EXCEPT !.at = "get"], file', memory', live')
      OBVIOUS
    <3>1. DoneAlone(console[c], file, memory, live)
      BY <2>0 DEF LoneRequest
    <3>. QED
      BY <1>4, <2>0, <3>1 DEF Swap, DoneAlone, Request
  <2>. QED
    BY <1>4, <2>0, <2>1, <2>2, <2>3, GoesOn DEF Swap, SettingsTyped
<1>5. ASSUME NEW c \in Consoles, Get(c) PROVE SettingsInv'
  <2>. DEFINE k == [console[c] EXCEPT !.at = "list", !.draft = memory]
  <2>0. console[c] # Unasked /\ console[c] \in Request
    BY <1>5, OnItsWay DEF Get
  <2>1. k \in Request /\ console' = [console EXCEPT ![c] = k] /\ k.alone = console[c].alone
    BY <1>5, <2>0 DEF Get, Request, SettingsTyped
  <2>2. k.alone => DoneAlone(k, file', memory', live')
    <3>. SUFFICES ASSUME console[c].alone PROVE DoneAlone(k, file', memory', live')
      BY <2>1
    <3>1. DoneAlone(console[c], file, memory, live)
      BY <2>0 DEF LoneRequest
    <3>. QED
      BY <1>5, <2>0, <3>1 DEF Get, DoneAlone, Request
  <2>. HIDE DEF k
  <2>. QED
    BY <1>5, <2>0, <2>1, <2>2, GoesOn DEF Get, SettingsTyped
<1>6. ASSUME NEW c \in Consoles, List(c) PROVE SettingsInv'
  <2>. DEFINE k == [console[c] EXCEPT !.at = "saveEdit", !.draft = [console[c].draft EXCEPT !.proxies = live]]
  <2>0. console[c] # Unasked /\ console[c] \in Request
    BY <1>6, OnItsWay DEF List
  <2>1. [console[c].draft EXCEPT !.proxies = live] \in Settings
    BY <2>0 DEF Request, Settings, SettingsTyped
  <2>2. k \in Request /\ console' = [console EXCEPT ![c] = k] /\ k.alone = console[c].alone
    BY <1>6, <2>0, <2>1 DEF List, Request, SettingsTyped
  <2>3. k.alone => DoneAlone(k, file', memory', live')
    <3>. SUFFICES ASSUME console[c].alone PROVE DoneAlone(k, file', memory', live')
      BY <2>2
    <3>1. DoneAlone(console[c], file, memory, live)
      BY <2>0 DEF LoneRequest
    <3>2. [console[c].draft EXCEPT !.proxies = live] = console[c].goal /\ live = console[c].goal.proxies
      BY <1>6, <3>1 DEF List, DoneAlone
    <3>3. k.draft = console[c].goal /\ k.goal = console[c].goal /\ k.at = "saveEdit"
      BY <2>0, <3>2 DEF Request
    <3>. HIDE DEF k
    <3>. QED
      BY <1>6, <3>2, <3>3 DEF List, DoneAlone
  <2>. HIDE DEF k
  <2>. QED
    BY <1>6, <2>0, <2>2, <2>3, GoesOn DEF List, SettingsTyped
<1>7. ASSUME NEW c \in Consoles, SaveFile(c) PROVE SettingsInv'
  <2>0. console[c] # Unasked /\ console[c] \in Request
    BY <1>7, OnItsWay DEF SaveFile
  <2>1. CASE console' = [console EXCEPT ![c] = Unasked] /\ UNCHANGED file
    <3>1. promised' = Unpromised
      BY <1>7, <2>0 DEF SaveFile, PromiseWaits, Asking
    <3>. QED
      BY <1>7, <2>0, <2>1, <3>1, Ends DEF SaveFile, SettingsTyped
  <2>2. ASSUME NEW at, at = IF console[c].at = "savePut" THEN "setPut" ELSE "setEdit",
               file' = console[c].draft, ConsoleGoes(c, at)
        PROVE  SettingsInv'
    <3>. DEFINE k == [console[c] EXCEPT !.at = at]
    <3>1. k \in Request /\ console' = [console EXCEPT ![c] = k] /\ k.alone = console[c].alone
      BY <2>0, <2>2 DEF ConsoleGoes, Request, SettingsTyped
    <3>2. file' \in Settings
      BY <2>0, <2>2 DEF Request
    <3>3. k.alone => DoneAlone(k, file', memory', live')
      <4>. SUFFICES ASSUME console[c].alone PROVE DoneAlone(k, file', memory', live')
        BY <3>1
      <4>1. DoneAlone(console[c], file, memory, live)
        BY <2>0 DEF LoneRequest
      <4>2. k.draft = console[c].draft /\ k.goal = console[c].goal /\ k.at = at
        BY <2>0 DEF Request
      <4>. HIDE DEF k
      <4>. QED
        BY <1>7, <2>2, <4>1, <4>2 DEF SaveFile, DoneAlone
    <3>. HIDE DEF k
    <3>. QED
      BY <1>7, <2>0, <3>1, <3>2, <3>3, GoesOn DEF SaveFile, SettingsTyped
  <2>. QED
    BY <1>7, <2>1, <2>2 DEF SaveFile
<1>8. ASSUME NEW c \in Consoles, SetMemory(c) PROVE SettingsInv'
  <2>0. console[c] # Unasked /\ console[c] \in Request
    BY <1>8, OnItsWay DEF SetMemory
  <2>1. memory' \in Settings
    BY <1>8, <2>0 DEF SetMemory, Request
  <2>2. CASE console[c].at = "setEdit"
    <3>1. console' = [console EXCEPT ![c] = Unasked] /\ UNCHANGED <<file, live>>
          /\ memory' = console[c].draft
          /\ promised' = IF console[c].alone THEN console[c].goal ELSE promised
      BY <1>8, <2>2 DEF SetMemory, AnswerConsole
    <3>2. promised = Unpromised
      BY <2>0 DEF PromiseWaits, Asking
    <3>3. console[c].alone => DoneAlone(console[c], file, memory, live)
      BY <2>0 DEF LoneRequest
    <3>4. promised' \in Settings \cup {Unpromised}
      BY <2>0, <3>1, <3>2 DEF Request
    <3>5. promised' # Unpromised => /\ console[c].alone
            /\ file' = promised' /\ memory' = promised' /\ live' = promised'.proxies
      BY <2>2, <3>1, <3>2, <3>3 DEF DoneAlone
    <3>. QED
      BY <2>0, <2>1, <3>1, <3>4, <3>5, Ends DEF SettingsTyped
  <2>3. CASE console[c].at = "setPut"
    <3>. DEFINE k == [console[c] EXCEPT !.at = "configure"]
    <3>1. k \in Request /\ console' = [console EXCEPT ![c] = k] /\ k.alone = console[c].alone
      BY <1>8, <2>0, <2>3 DEF SetMemory, ConsoleGoes, Request, SettingsTyped
    <3>3. k.alone => DoneAlone(k, file', memory', live')
      <4>. SUFFICES ASSUME console[c].alone PROVE DoneAlone(k, file', memory', live')
        BY <3>1
      <4>1. DoneAlone(console[c], file, memory, live)
        BY <2>0 DEF LoneRequest
      <4>2. k.draft = console[c].draft /\ k.goal = console[c].goal /\ k.at = "configure"
        BY <2>0 DEF Request
      <4>. HIDE DEF k
      <4>. QED
        BY <1>8, <2>3, <4>1, <4>2 DEF SetMemory, DoneAlone
    <3>4. promised' = promised /\ file' \in Settings /\ live' \subseteq Proxy
      BY <1>8, <2>3 DEF SetMemory, SettingsTyped
    <3>. HIDE DEF k
    <3>. QED
      BY <2>0, <2>1, <3>1, <3>3, <3>4, GoesOn
  <2>. QED
    BY <1>8, <2>2, <2>3 DEF SetMemory
<1>9. ASSUME NEW c \in Consoles, Configure(c) PROVE SettingsInv'
  <2>0. console[c] # Unasked /\ console[c] \in Request
    BY <1>9, OnItsWay DEF Configure
  <2>1. live' \subseteq Proxy
    BY <1>9, <2>0 DEF Configure, Request, Settings
  <2>2. console' = [console EXCEPT ![c] = Unasked] /\ UNCHANGED <<file, memory>>
        /\ live' = console[c].draft.proxies
        /\ promised' = IF console[c].alone THEN console[c].goal ELSE promised
    BY <1>9 DEF Configure, AnswerConsole
  <2>3. promised = Unpromised
    BY <2>0 DEF PromiseWaits, Asking
  <2>4. console[c].alone => DoneAlone(console[c], file, memory, live)
    BY <2>0 DEF LoneRequest
  <2>5. promised' \in Settings \cup {Unpromised}
    BY <2>0, <2>2, <2>3 DEF Request
  <2>6. promised' # Unpromised => /\ console[c].alone
          /\ file' = promised' /\ memory' = promised' /\ live' = promised'.proxies
    BY <1>9, <2>2, <2>3, <2>4 DEF DoneAlone, Configure
  <2>. QED
    BY <2>0, <2>1, <2>2, <2>5, <2>6, Ends DEF SettingsTyped
<1>10. CASE StartAgain
  <2>1. \A c \in Consoles : console'[c] = Unasked
    BY <1>10 DEF StartAgain
  <2>2. SettingsTyped' /\ Unasked' = Unasked /\ Unpromised' = Unpromised
    BY <1>10 DEF StartAgain, SettingsTyped, Settings, Request, Unasked, Unpromised
  <2>3. SettingsTrue'
    BY <1>10, <2>2 DEF StartAgain, SettingsTrue
  <2>. QED
    BY <2>1, <2>2, <2>3 DEF LoneRequest, PromiseWaits, Asking
<1>11. CASE UNCHANGED settingsVars
  <2>1. SettingsTyped' /\ LoneRequest' /\ PromiseWaits'
    BY <1>11 DEF settingsVars, SettingsTyped, LoneRequest, PromiseWaits, Asking, DoneAlone,
                 Settings, Request, Unasked, Unpromised
  <2>. QED
    BY <1>11, <2>1 DEF settingsVars, SettingsTrue, Unpromised
<1>. QED
  BY <1>2, <1>3, <1>4, <1>5, <1>6, <1>7, <1>8, <1>9, <1>10, <1>11 DEF SettingsNext

\* What the types and the true list of settings follow from.
LEMMA SettingsImplied == SettingsInv => SettingsTypeOK /\ SettingsTrue
BY DEF SettingsInv, SettingsTyped, SettingsTypeOK, Asking, Request, Unasked

\* What the file, the memory and the list in use hold, and what a request that
\* meets no other has made of them, in every state (settings.go, proxy_pool.go).
THEOREM SettingsInvariant == SettingsSpec => []SettingsInv
BY SettingsInitial, SettingsStep, PTL DEF SettingsSpec

\* The variables hold values of their types.
THEOREM SettingsTypeCorrect == SettingsSpec => []SettingsTypeOK
BY SettingsInvariant, SettingsImplied, PTL

\* Whatever overlapping or failed requests left behind before it, a request that met no
\* other leaves what it was asked for in all three copies (settings.go, proxy_pool.go).
THEOREM SettingsTrueCorrect == SettingsSpec => []SettingsTrue
BY SettingsInvariant, SettingsImplied, PTL
-----------------------------------------------------------------------------
AtWork == [at : {"ask", "store", "authenticated", "error"}, for : SignIns]

WorksOn(v, s) == visitor[v] # Resting /\ visitor[v].for = s

SignInTyped ==
  /\ entry \in [SignIns -> {"none", "pending", "processing", "authenticated", "error"}]
  /\ endpoint \in [begun : SUBSET SignIns, approved : SUBSET SignIns, given : SUBSET SignIns]
  /\ old \subseteq endpoint.begun /\ endpoint.given \subseteq endpoint.begun
  /\ stored \subseteq endpoint.given /\ unsaved \subseteq stored
  /\ overlapped \subseteq {s \in SignIns : Kind[s] = "device"}
  /\ visitor \in [Visitors -> AtWork \cup {Resting}]

\* What the stage of a handler says of its sign-in.
StageTells ==
  \A v \in Visitors : visitor[v] # Resting =>
    /\ visitor[v].for \in endpoint.begun
    /\ visitor[v].at = "store" => visitor[v].for \in endpoint.given \ stored
    /\ visitor[v].at = "authenticated" => visitor[v].for \in stored \ unsaved
    /\ Kind[visitor[v].for] = "password" => visitor[v].at \in {"ask", "store"}

\* What an entry says.
EntryTells ==
  \A s \in SignIns :
    /\ entry[s] # "none" => s \in endpoint.begun /\ Kind[s] # "password"
    /\ entry[s] = "authenticated" => s \in stored \ unsaved
    /\ \A v \in Visitors : Kind[s] = "pkce" /\ WorksOn(v, s) => entry[s] \in {"processing", "none"}

\* A token is given once, so one handler has it to store.
OneStores ==
  \A v, w \in Visitors :
    /\ visitor[v] # Resting /\ visitor[v].at = "store"
    /\ visitor[w] # Resting /\ visitor[w].at = "store"
    /\ visitor[v].for = visitor[w].for
    => v = w

\* What is to be shown of a sign-in whose account is listed; out are those not saved.
Outcome(s, out) == IF s \in out THEN "error" ELSE "authenticated"

\* Without an overlap one handler works on a sign-in; when the account is in the
\* store, that handler has only to write back what came of it, and what nobody works
\* on has been written.
OneWorks ==
  \A s \in SignIns \ overlapped : Kind[s] # "password" =>
    /\ \A v, w \in Visitors : WorksOn(v, s) /\ WorksOn(w, s) => v = w
    /\ s \in stored =>
         /\ \A v \in Visitors : WorksOn(v, s) => visitor[v].at = Outcome(s, unsaved)
         /\ (\A v \in Visitors : ~ WorksOn(v, s)) => entry[s] \in {Outcome(s, unsaved), "none"}

SignInInv == SignInTyped /\ StageTells /\ EntryTells /\ OneStores /\ OneWorks

\* What has no variable in it stays as it is.
LEMMA Constant == Resting' = Resting /\ AtWork' = AtWork
BY DEF Resting, AtWork

\* A handler begins with a sign-in.
LEMMA SomeoneTakes ==
  ASSUME SignInInv, NEW v \in Visitors, visitor[v] = Resting, NEW s \in SignIns,
         NEW at \in {"ask", "error"}, s \in endpoint'.begun, Kind[s] = "password" => at = "ask",
         visitor' = [visitor EXCEPT ![v] = [at |-> at, for |-> s]],
         endpoint' \in [begun : SUBSET SignIns, approved : SUBSET SignIns, given : SUBSET SignIns],
         endpoint.begun \subseteq endpoint'.begun, endpoint'.given = endpoint.given,
         overlapped' = overlapped \/ (Kind[s] = "device" /\ overlapped' = overlapped \cup {s}),
         Kind[s] # "password" /\ s \notin overlapped' =>
           s \notin stored /\ \A w \in Visitors : ~ WorksOn(w, s),
         entry' \in [SignIns -> {"none", "pending", "processing", "authenticated", "error"}],
         \A t \in SignIns \ {s} : entry'[t] = entry[t],
         \/ entry'[s] = entry[s] /\ Kind[s] # "pkce"
         \/ entry[s] # "none" /\ entry'[s] = "processing" /\ Kind[s] = "pkce",
         UNCHANGED <<old, stored, unsaved>>
  PROVE  SignInInv'
<1>. DEFINE stage == [at |-> at, for |-> s]
<1>1. /\ stage \in AtWork /\ stage # Resting /\ stage.for = s /\ stage.at = at
      /\ visitor' = [visitor EXCEPT ![v] = stage]
  BY DEF AtWork, Resting
<1>. HIDE DEF stage
<1>. USE DEF SignInInv
<1>2. /\ \A w \in Visitors : visitor'[w] = IF w = v THEN stage ELSE visitor[w]
      /\ visitor' \in [Visitors -> AtWork \cup {Resting}]
  BY <1>1 DEF SignInTyped
<1>3. /\ \A w \in Visitors, t \in SignIns : w # v => (WorksOn(w, t)' <=> WorksOn(w, t))
      /\ \A t \in SignIns : WorksOn(v, t)' <=> s = t
  BY <1>1, <1>2, Constant DEF WorksOn
<1>4. SignInTyped'
  BY <1>2, Constant DEF SignInTyped
<1>5. StageTells'
  BY <1>1, <1>2, Constant DEF StageTells
<1>6. EntryTells'
  BY <1>1, <1>2, Constant DEF EntryTells, WorksOn
<1>9. OneStores'
  BY <1>1, <1>2, Constant DEF OneStores
<1>7. ASSUME NEW t \in SignIns \ overlapped', Kind[t] # "password"
      PROVE  /\ \A w, x \in Visitors : WorksOn(w, t)' /\ WorksOn(x, t)' => w = x
             /\ t \in stored =>
                  /\ \A w \in Visitors : WorksOn(w, t)' => visitor'[w].at = Outcome(t, unsaved')
                  /\ (\A w \in Visitors : ~ WorksOn(w, t)') => entry'[t] \in {Outcome(t, unsaved'), "none"}
  <2>1. CASE t = s
    BY <1>1, <1>2, <1>7, <2>1, Constant DEF WorksOn
  <2>2. CASE t # s
    BY <1>1, <1>2, <1>7, <2>2, Constant DEF OneWorks, WorksOn, Outcome
  <2>. QED
    BY <2>1, <2>2
<1>8. OneWorks'
  BY <1>7 DEF OneWorks
<1>. QED
  BY <1>4, <1>5, <1>6, <1>8, <1>9

\* Nobody goes on: an entry is made or dropped, the user approves, time passes.
LEMMA NobodyGoesOn ==
  ASSUME SignInInv, UNCHANGED <<visitor, stored, unsaved, overlapped>>,
         entry' \in [SignIns -> {"none", "pending", "processing", "authenticated", "error"}],
         endpoint' \in [begun : SUBSET SignIns, approved : SUBSET SignIns, given : SUBSET SignIns],
         endpoint.begun \subseteq endpoint'.begun, endpoint'.given = endpoint.given,
         old' \subseteq endpoint'.begun,
         \A s \in SignIns : \/ entry'[s] = entry[s]
                            \/ entry'[s] = "none"
                            \/ /\ entry'[s] = "pending" /\ Kind[s] # "password"
                               /\ s \notin endpoint.begun /\ s \in endpoint'.begun
  PROVE  SignInInv'
<1>. USE DEF SignInInv
<1>1. SignInTyped' /\ StageTells' /\ OneStores'
  BY Constant DEF SignInTyped, StageTells, OneStores
<1>2. \A s \in SignIns \ endpoint.begun : s \notin stored /\ \A v \in Visitors : ~ WorksOn(v, s)
  BY DEF StageTells, WorksOn, SignInTyped
<1>3. EntryTells'
  BY <1>2, Constant DEF EntryTells, WorksOn
<1>4. OneWorks'
  BY <1>2, Constant DEF OneWorks, WorksOn, Outcome
<1>. QED
  BY <1>1, <1>3, <1>4

\* A handler goes on to its next stage or ends, and the entry stays.
LEMMA OneGoesOn ==
  ASSUME SignInInv, NEW v \in Visitors, visitor[v] # Resting,
         NEW at \in {"idle", "store", "authenticated", "error"}, VisitorGoes(v, at),
         Kind[visitor[v].for] = "password" => at \in {"idle", "store"},
         Kind[visitor[v].for] # "password" /\ visitor[v].for \in stored' \ overlapped
           => at = Outcome(visitor[v].for, unsaved'),
         stored' \in {stored, stored \cup {visitor[v].for}}, stored' \subseteq endpoint'.given,
         unsaved' \in {unsaved, unsaved \cup {visitor[v].for}}, unsaved' \subseteq stored',
         stored' # stored => visitor[v].at = "store",
         unsaved' # unsaved => visitor[v].for \notin stored,
         at = "authenticated" => visitor[v].for \in stored' \ unsaved',
         endpoint' \in [begun : SUBSET SignIns, approved : SUBSET SignIns, given : SUBSET SignIns],
         endpoint'.begun = endpoint.begun,
         endpoint'.given \in {endpoint.given, endpoint.given \cup {visitor[v].for}},
         at = "store" => visitor[v].for \in endpoint'.given \ (endpoint.given \cup stored'),
         UNCHANGED <<entry, old, overlapped>>
  PROVE  SignInInv'
<1>. DEFINE stage == IF at = "idle" THEN Resting ELSE [visitor[v] EXCEPT !.at = at]
            s == visitor[v].for
<1>. USE DEF SignInInv
<1>0. visitor[v] \in AtWork /\ s \in SignIns /\ s \in endpoint.begun
  BY DEF SignInTyped, AtWork, StageTells
<1>1. /\ stage \in AtWork \cup {Resting}
      /\ at = "idle" <=> stage = Resting
      /\ at # "idle" => stage.at = at /\ stage.for = s
      /\ visitor' = [visitor EXCEPT ![v] = stage]
  BY <1>0 DEF AtWork, Resting, VisitorGoes, SignInTyped
<1>. HIDE DEF stage
<1>3. /\ \A w \in Visitors : visitor'[w] = IF w = v THEN stage ELSE visitor[w]
      /\ visitor' \in [Visitors -> AtWork \cup {Resting}]
  BY <1>1 DEF SignInTyped
<1>4. SignInTyped'
  <2>1. endpoint'.given \subseteq endpoint'.begun /\ old' \subseteq endpoint'.begun
    BY <1>0 DEF SignInTyped
  <2>. QED
    BY <1>3, <2>1, Constant DEF SignInTyped
<1>2. ASSUME NEW w \in Visitors, w # v, visitor[w] # Resting, visitor[w].at = "store", visitor[w].for = s
      PROVE  visitor[v].at # "store" /\ at # "store"
  BY <1>2 DEF OneStores, StageTells
<1>9. OneStores'
  BY <1>1, <1>2, <1>3, Constant DEF OneStores
<1>5. StageTells'
  <2>1. ASSUME NEW w \in Visitors, w # v, visitor[w] # Resting
        PROVE  /\ visitor[w].for \in endpoint'.begun
               /\ visitor[w].at = "store" => visitor[w].for \in endpoint'.given \ stored'
               /\ visitor[w].at = "authenticated" => visitor[w].for \in stored' \ unsaved'
               /\ Kind[visitor[w].for] = "password" => visitor[w].at \in {"ask", "store"}
    <3>1. CASE visitor[w].for = s
      BY <1>2, <2>1, <3>1 DEF StageTells
    <3>2. CASE visitor[w].for # s
      BY <2>1, <3>2 DEF StageTells
    <3>. QED
      BY <3>1, <3>2
  <2>. QED
    BY <1>0, <1>1, <1>3, <2>1, Constant DEF StageTells
<1>6. EntryTells'
  BY <1>0, <1>1, <1>3, Constant DEF EntryTells, WorksOn
<1>7. ASSUME NEW t \in SignIns \ overlapped', Kind[t] # "password"
      PROVE  /\ \A w, x \in Visitors : WorksOn(w, t)' /\ WorksOn(x, t)' => w = x
             /\ t \in stored' =>
                  /\ \A w \in Visitors : WorksOn(w, t)' => visitor'[w].at = Outcome(t, unsaved')
                  /\ (\A w \in Visitors : ~ WorksOn(w, t)') => entry'[t] \in {Outcome(t, unsaved'), "none"}
  <2>1. CASE t = s
    <3>1. \A w \in Visitors : WorksOn(w, t) => w = v
      BY <1>0, <1>7, <2>1 DEF OneWorks, WorksOn
    <3>. QED
      <4>1. \A w \in Visitors : WorksOn(w, t)' <=> w = v /\ at # "idle"
        BY <1>1, <1>3, <2>1, <3>1, Constant DEF WorksOn
      <4>2. t \in stored' => at = Outcome(t, unsaved')
        BY <1>7, <2>1
      <4>3. Outcome(t, unsaved') # "idle"
        BY DEF Outcome
      <4>. QED
        BY <1>1, <1>3, <4>1, <4>2, <4>3
  <2>2. CASE t # s
    <3>1. (t \in stored' => t \in stored) /\ (t \in unsaved' <=> t \in unsaved)
      BY <2>2
    <3>. QED
      BY <1>1, <1>3, <1>7, <2>2, <3>1, Constant DEF OneWorks, WorksOn, Outcome
  <2>. QED
    BY <2>1, <2>2
<1>8. OneWorks'
  BY <1>7 DEF OneWorks
<1>. QED
  BY <1>4, <1>5, <1>6, <1>8, <1>9

\* The handler that polled puts the status it came to under the id.
LEMMA WritesBack ==
  ASSUME SignInInv, NEW v \in Visitors, WriteBack(v) PROVE SignInInv'
<1>. DEFINE s == visitor[v].for
            at == visitor[v].at
<1>. USE DEF SignInInv
<1>0. /\ visitor[v] # Resting /\ visitor[v] \in AtWork /\ s \in SignIns /\ s \in endpoint.begun
      /\ at \in {"authenticated", "error"} /\ Kind[s] # "password"
      /\ entry' = [entry EXCEPT ![s] = at] /\ visitor' = [visitor EXCEPT ![v] = Resting]
      /\ UNCHANGED <<old, endpoint, stored, unsaved, overlapped>>
  <2>1. visitor[v] # Resting
    BY DEF WriteBack, Resting
  <2>2. visitor[v] \in AtWork
    BY <2>1 DEF SignInTyped
  <2>. QED
    BY <2>1, <2>2 DEF AtWork, StageTells, WriteBack, VisitorGoes
<1>1. at = "authenticated" => s \in stored \ unsaved
  BY <1>0 DEF StageTells
<1>. HIDE DEF s, at
<1>2. SignInTyped' /\ StageTells' /\ OneStores'
  BY <1>0, Constant DEF SignInTyped, StageTells, OneStores
<1>3. ASSUME NEW w \in Visitors \ {v}, WorksOn(w, s) PROVE Kind[s] # "pkce"
  <2>1. s \in overlapped
    BY <1>0, <1>3 DEF OneWorks, WorksOn, s
  <2>. QED
    BY <2>1 DEF SignInTyped
<1>4. EntryTells'
  BY <1>0, <1>1, <1>3, Constant DEF EntryTells, WorksOn, SignInTyped
<1>5. ASSUME s \in stored \ overlapped PROVE at = Outcome(s, unsaved)
  BY <1>0, <1>5 DEF OneWorks, WorksOn, s, at
<1>6. OneWorks'
  BY <1>0, <1>5, Constant DEF OneWorks, WorksOn, SignInTyped, Outcome, s
<1>. QED
  BY <1>2, <1>4, <1>6

\* The first state has it.
LEMMA SignInInitial == SignInInit => SignInInv
BY DEF SignInInit, SignInInv, SignInTyped, StageTells, EntryTells, OneStores, OneWorks, WorksOn

\* Every step of a visitor, of the server and of the clock keeps it.
LEMMA SignInStep == SignInInv /\ [SignInNext]_signInVars => SignInInv'
<1>. SUFFICES ASSUME SignInInv, [SignInNext]_signInVars PROVE SignInInv'
  OBVIOUS
<1>1. CASE ForgetSignIns
  BY <1>1, Constant DEF ForgetSignIns, SignInInv, SignInTyped, StageTells, EntryTells, OneStores, OneWorks, WorksOn
<1>2. ASSUME NEW s \in SignIns, StartPKCE(s) \/ StartDeviceCode(s) PROVE SignInInv'
  BY <1>2, NobodyGoesOn DEF StartPKCE, StartDeviceCode, New, SignInInv, SignInTyped
<1>3. ASSUME NEW s \in SignIns, Drop(s) PROVE SignInInv'
  BY <1>3, NobodyGoesOn DEF Drop, SignInInv, SignInTyped
<1>4. ASSUME NEW s \in SignIns, Approve(s) PROVE SignInInv'
  BY <1>4, NobodyGoesOn DEF Approve, SignInInv, SignInTyped
<1>5. ASSUME NEW s \in SignIns, Age(s) PROVE SignInInv'
  BY <1>5, NobodyGoesOn DEF Age, SignInInv, SignInTyped
<1>6. ASSUME NEW v \in Visitors, Exchange(v) PROVE SignInInv'
  <2>1. visitor[v] # Resting /\ visitor[v] \in AtWork /\ visitor[v].at = "ask"
    BY <1>6 DEF Exchange, Resting, SignInInv, SignInTyped
  <2>2. visitor[v].for \in SignIns
    BY <2>1 DEF AtWork
  <2>3. PICK at \in {"idle", "store", "error"} :
          /\ VisitorGoes(v, at)
          /\ Kind[visitor[v].for] = "password" => at \in {"idle", "store"}
          /\ UNCHANGED endpoint \/ endpoint' = [endpoint EXCEPT !.given = @ \cup {visitor[v].for}]
          /\ at = "store" => /\ visitor[v].for \notin endpoint.given
                            /\ endpoint' = [endpoint EXCEPT !.given = @ \cup {visitor[v].for}]
    <3>. DEFINE s == visitor[v].for
                Goes(answer) == CASE answer = "token" -> "store"
                                  [] answer = "pending" -> "idle"
                                  [] OTHER -> IF Kind[s] = "password" THEN "idle" ELSE "error"
                answers == IF Kind[s] = "device" THEN PollDeviceCode(s) ELSE RequestToken(s)
    <3>1. PICK answer \in answers :
            /\ VisitorGoes(v, Goes(answer))
            /\ \/ answer # "token" /\ UNCHANGED endpoint
               \/ endpoint' = [endpoint EXCEPT !.given = @ \cup {s}]
      BY <1>6, Zenon DEF Exchange
    <3>2. /\ answer \in {"error", "pending", "token"}
          /\ answer = "token" => s \notin endpoint.given
          /\ Kind[s] = "password" => answer # "pending"
      <4>1. CASE Kind[s] = "device"
        <5>1. answer \in PollDeviceCode(s)
          BY <4>1
        <5>2. /\ s \in endpoint.given => PollDeviceCode(s) = {"error"}
              /\ PollDeviceCode(s) \subseteq {"error", "pending", "token"}
          BY DEF PollDeviceCode
        <5>. QED
          BY <4>1, <5>1, <5>2
      <4>2. CASE Kind[s] # "device"
        <5>1. answer \in RequestToken(s)
          BY <4>2
        <5>. QED
          BY <5>1 DEF RequestToken
      <4>. QED
        BY <4>1, <4>2
    <3>3. /\ Goes(answer) \in {"idle", "store", "error"}
          /\ Kind[s] = "password" => Goes(answer) \in {"idle", "store"}
          /\ Goes(answer) = "store" => answer = "token"
      BY <3>2
    <3>4. answer = "token" => endpoint' = [endpoint EXCEPT !.given = @ \cup {s}]
      BY <3>1
    <3>. HIDE DEF Goes, answers
    <3>. QED
      BY <3>1, <3>2, <3>3, <3>4
  <2>4. Kind[visitor[v].for] # "password" => visitor[v].for \notin stored \ overlapped
    BY <2>1, <2>2 DEF SignInInv, OneWorks, WorksOn, Outcome
  <2>5. UNCHANGED <<entry, old, stored, unsaved, overlapped>>
    BY <1>6 DEF Exchange
  <2>6. /\ endpoint' \in [begun : SUBSET SignIns, approved : SUBSET SignIns, given : SUBSET SignIns]
        /\ endpoint'.begun = endpoint.begun
        /\ endpoint'.given \in {endpoint.given, endpoint.given \cup {visitor[v].for}}
        /\ at = "store" => visitor[v].for \in endpoint'.given \ (endpoint.given \cup stored')
        /\ stored' \subseteq endpoint'.given /\ unsaved' \subseteq stored'
    BY <2>2, <2>3, <2>5 DEF SignInInv, SignInTyped
  <2>. QED
    BY <2>1, <2>3, <2>4, <2>5, <2>6, OneGoesOn
<1>7. ASSUME NEW v \in Visitors, Upsert(v) PROVE SignInInv'
  <2>1. visitor[v] # Resting /\ visitor[v] \in AtWork /\ visitor[v].at = "store"
    BY <1>7 DEF Upsert, Resting, SignInInv, SignInTyped
  <2>2. visitor[v].for \in SignIns /\ visitor[v].for \in endpoint.given
    BY <2>1 DEF AtWork, SignInInv, StageTells
  <2>3. PICK at \in {"idle", "authenticated", "error"} :
          /\ VisitorGoes(v, at)
          /\ Kind[visitor[v].for] = "password" <=> at = "idle"
          /\ stored' = stored \cup {visitor[v].for}
          /\ \/ unsaved' = unsaved /\ at # "error"
             \/ unsaved' = unsaved \cup {visitor[v].for} /\ at # "authenticated"
    BY <1>7 DEF Upsert
  <2>4. visitor[v].for \notin stored /\ visitor[v].for \notin unsaved
    BY <2>1 DEF SignInInv, StageTells, SignInTyped
  <2>5. UNCHANGED <<entry, old, endpoint, overlapped>>
    BY <1>7 DEF Upsert
  <2>6. endpoint' = endpoint /\ SignInTyped
    BY <2>5 DEF SignInInv
  <2>7. /\ stored' \in {stored, stored \cup {visitor[v].for}} /\ stored' \subseteq endpoint'.given
        /\ unsaved' \in {unsaved, unsaved \cup {visitor[v].for}} /\ unsaved' \subseteq stored'
        /\ endpoint' \in [begun : SUBSET SignIns, approved : SUBSET SignIns, given : SUBSET SignIns]
        /\ endpoint'.begun = endpoint.begun
        /\ endpoint'.given \in {endpoint.given, endpoint.given \cup {visitor[v].for}}
    BY <2>2, <2>3, <2>6 DEF SignInTyped
  <2>8. /\ Kind[visitor[v].for] = "password" => at \in {"idle", "store"}
        /\ Kind[visitor[v].for] # "password" /\ visitor[v].for \in stored' \ overlapped
             => at = Outcome(visitor[v].for, unsaved')
        /\ at = "authenticated" => visitor[v].for \in stored' \ unsaved'
        /\ at # "store"
        /\ at \in {"idle", "store", "authenticated", "error"} /\ visitor[v] # Resting
    BY <2>1, <2>3, <2>4, <2>5 DEF Outcome
  <2>. QED
    BY <2>1, <2>3, <2>4, <2>5, <2>7, <2>8, OneGoesOn, SMT
<1>8. ASSUME NEW v \in Visitors, NEW s \in SignIns, ProvisionAccount(v, s) PROVE SignInInv'
  <2>1. PICK at \in {"ask"} : visitor' = [visitor EXCEPT ![v] = [at |-> at, for |-> s]]
    BY <1>8 DEF ProvisionAccount
  <2>2. /\ visitor[v] = Resting /\ Kind[s] = "password" /\ at = "ask"
        /\ endpoint' = [endpoint EXCEPT !.begun = @ \union {s}]
        /\ UNCHANGED <<entry, old, stored, unsaved, overlapped>>
    BY <1>8, <2>1 DEF ProvisionAccount, New
  <2>3. /\ entry \in [SignIns -> {"none", "pending", "processing", "authenticated", "error"}]
        /\ endpoint \in [begun : SUBSET SignIns, approved : SUBSET SignIns, given : SUBSET SignIns]
    BY DEF SignInInv, SignInTyped
  <2>4. /\ endpoint' \in [begun : SUBSET SignIns, approved : SUBSET SignIns, given : SUBSET SignIns]
        /\ s \in endpoint'.begun /\ endpoint.begun \subseteq endpoint'.begun
        /\ endpoint'.given = endpoint.given
    BY <2>2, <2>3
  <2>5. /\ entry' \in [SignIns -> {"none", "pending", "processing", "authenticated", "error"}]
        /\ \A t \in SignIns \ {s} : entry'[t] = entry[t]
        /\ entry'[s] = entry[s] /\ Kind[s] # "pkce"
    BY <2>2, <2>3
  <2>6. /\ Kind[s] = "password" => at = "ask"
        /\ overlapped' = overlapped \/ (Kind[s] = "device" /\ overlapped' = overlapped \cup {s})
        /\ Kind[s] # "password" /\ s \notin overlapped' =>
             s \notin stored /\ \A w \in Visitors : ~ WorksOn(w, s)
        /\ \/ entry'[s] = entry[s] /\ Kind[s] # "pkce"
           \/ entry[s] # "none" /\ entry'[s] = "processing" /\ Kind[s] = "pkce"
        /\ UNCHANGED <<old, stored, unsaved>>
    BY <2>2, <2>5
  <2>. QED
    BY <2>1, <2>2, <2>4, <2>5, <2>6, SomeoneTakes, ZenonT(30)
<1>9. ASSUME NEW v \in Visitors, NEW s \in SignIns, Kind[s] = "pkce", visitor[v] = Resting,
             CallbackTakes(v, s)
      PROVE  SignInInv'
  <2>1. PICK at \in {"ask", "error"} : visitor' = [visitor EXCEPT ![v] = [at |-> at, for |-> s]]
    BY <1>9 DEF CallbackTakes
  <2>2. \A w \in Visitors : ~ WorksOn(w, s)
    BY <1>9 DEF CallbackTakes, SignInInv, EntryTells
  <2>3. s \notin stored /\ s \in endpoint.begun
    <3>1. entry[s] = "pending" /\ s \notin overlapped /\ s \in endpoint.begun
      BY <1>9 DEF CallbackTakes, SignInInv, SignInTyped, EntryTells
    <3>2. s \in stored => entry[s] \in {Outcome(s, unsaved), "none"}
      BY <1>9, <2>2, <3>1 DEF SignInInv, OneWorks
    <3>. QED
      BY <3>1, <3>2 DEF Outcome
  <2>. QED
    BY <1>9, <2>1, <2>2, <2>3, SomeoneTakes DEF CallbackTakes, SignInInv, SignInTyped
<1>10. ASSUME NEW v \in Visitors, NEW s \in SignIns, CallbackPKCE(v, s) PROVE SignInInv'
  BY <1>3, <1>9, <1>10 DEF CallbackPKCE
<1>11. ASSUME NEW v \in Visitors, NEW s \in SignIns, StatusDeviceCode(v, s) PROVE SignInInv'
  <2>1. CASE Drop(s)
    BY <1>3, <2>1
  <2>2. CASE ~ Drop(s)
    <3>1. PICK at \in {"ask"} : visitor' = [visitor EXCEPT ![v] = [at |-> at, for |-> s]]
      BY <1>11, <2>2 DEF StatusDeviceCode
    <3>2. /\ Kind[s] = "device" /\ visitor[v] = Resting /\ entry[s] = "pending"
          /\ overlapped' = IF Busy(s) = {} THEN overlapped ELSE overlapped \cup {s}
          /\ UNCHANGED <<entry, old, endpoint, stored, unsaved>>
      BY <1>11, <2>2 DEF StatusDeviceCode
    <3>3. s \notin overlapped' => s \notin overlapped /\ \A w \in Visitors : ~ WorksOn(w, s)
      BY <3>2 DEF Busy, WorksOn
    <3>4. s \notin overlapped' => s \notin stored
      BY <3>2, <3>3 DEF SignInInv, OneWorks, Outcome
    <3>5. s \in endpoint.begun
      BY <3>2 DEF SignInInv, EntryTells
    <3>. QED
      BY <3>1, <3>2, <3>3, <3>4, <3>5, SomeoneTakes DEF SignInInv, SignInTyped
  <2>. QED
    BY <2>1, <2>2
<1>12. CASE UNCHANGED signInVars
  <2>1. SignInTyped' /\ StageTells' /\ OneStores'
    BY <1>12, Constant DEF signInVars, SignInInv, SignInTyped, StageTells, OneStores
  <2>2. EntryTells' /\ OneWorks'
    BY <1>12, Constant DEF signInVars, SignInInv, EntryTells, OneWorks, WorksOn, Outcome
  <2>. QED
    BY <2>1, <2>2 DEF SignInInv
<1>13. ASSUME NEW s \in SignIns, \/ StartPKCE(s) \/ StartDeviceCode(s) \/ PkceStatus(s)
                                \/ Approve(s) \/ Age(s)
       PROVE  SignInInv'
  BY <1>2, <1>3, <1>4, <1>5, <1>13 DEF PkceStatus
<1>14. ASSUME NEW v \in Visitors,
              \/ Exchange(v) \/ Upsert(v) \/ WriteBack(v)
              \/ \E s \in SignIns : ProvisionAccount(v, s) \/ CallbackPKCE(v, s) \/ StatusDeviceCode(v, s)
       PROVE  SignInInv'
  BY <1>6, <1>7, <1>8, <1>10, <1>11, <1>14, WritesBack
<1>. QED
  BY <1>1, <1>12, <1>13, <1>14 DEF SignInNext

\* What the types and the true answers follow from.
LEMMA SignInImplied == SignInInv => SignInTypeOK /\ SignInTrue
<1>. SUFFICES ASSUME SignInInv PROVE SignInTypeOK /\ SignInTrue
  OBVIOUS
<1>. USE DEF SignInInv
<1>1. SignInTypeOK
  BY DEF SignInTypeOK, SignInTyped, StageTells, AtWork
<1>2. ASSUME NEW s \in SignIns, Kind[s] = "pkce"
      PROVE  Cardinality(Busy(s)) <= 1 /\ (Busy(s) # {} => entry[s] \in {"processing", "none"})
  <2>1. \A v, w \in Busy(s) : v = w
    BY <1>2 DEF OneWorks, SignInTyped, Busy, WorksOn
  <2>2. CASE Busy(s) = {}
    BY <2>2, FS_EmptySet
  <2>3. CASE Busy(s) # {}
    <3>1. PICK v : Busy(s) = {v}
      BY <2>1, <2>3
    <3>2. entry[s] \in {"processing", "none"}
      BY <1>2, <2>3 DEF EntryTells, Busy, WorksOn
    <3>. QED
      <4>1. Cardinality(Busy(s)) = 1
        BY <3>1, FS_Singleton
      <4>. QED
        BY <3>2, <4>1
  <2>. QED
    BY <2>2, <2>3
<1>3. ASSUME NEW s \in SignIns, s \in stored \ (overlapped \cup unsaved), Busy(s) = {}
      PROVE  entry[s] \in {"authenticated", "none"}
  <2>1. CASE Kind[s] = "password"
    BY <2>1 DEF EntryTells
  <2>2. CASE Kind[s] # "password"
    BY <1>3, <2>2 DEF OneWorks, Busy, WorksOn, Outcome
  <2>. QED
    BY <2>1, <2>2
<1>. QED
  BY <1>1, <1>2, <1>3 DEF SignInTrue, EntryTells

\* What the entries, the handlers and the store tell of every sign-in, in every state
\* (server.go: the handlers of the sign-in pages).
THEOREM SignInInvariant == SignInSpec => []SignInInv
BY SignInInitial, SignInStep, PTL DEF SignInSpec

\* The variables hold values of their types.
THEOREM SignInTypeCorrect == SignInSpec => []SignInTypeOK
BY SignInInvariant, SignInImplied, PTL

\* However callbacks, looks and ages interleave, one handler at most takes a code to the
\* endpoint; a sign-in shown as done has its account listed and saved; and one whose
\* account is listed is shown as done or not at all, unless it was polled twice at once
\* or the store could not be saved (server.go, cache.go).
THEOREM SignInTrueCorrect == SignInSpec => []SignInTrue
BY SignInInvariant, SignInImplied, PTL
-----------------------------------------------------------------------------
\* What is remembered, at most.
Histories == {h \in Seq(Known) : Len(h) <= HistoryLength}

Places == {"down", "flag", "unflag", "file", "env", "apply", "record", "disk", "cleartext", "up"}

AdminTyped ==
  /\ given \in [way : Ways, env : Known, file : Known, flag : BOOLEAN]
  /\ disk \in [hash : Known, history : Histories, must : BOOLEAN,
               fingerprint : Known, cleartext : BOOLEAN]
  /\ proc \in [at : Places, hash : Known, history : Histories, must : BOOLEAN,
               taken : Known, sessions : SUBSET Admins]
  /\ choice \in Known
  /\ bounds \in [starts : Nat, fails : Nat]

\* What a console can be doing, and for what.
Stages == {<<>>} \cup {<<"login", h>> : h \in Known}
          \cup {<<at, p, was, history>> : at \in {"save", "set"}, p \in Passwords,
                                          was \in Known, history \in Histories}

Doing == change \in [Admins -> Stages]

Setting(a) == change[a] # <<>> /\ Head(change[a]) = "set"

\* The way of the installation says what it hands over, and the process what it found.
ProcTells ==
  /\ given.file # NoPassword => given.way = "file"
  /\ given.env # NoPassword => given.way # "file"
  /\ given.flag => given.way = "flag" /\ given.env # NoPassword
  /\ proc.at \notin {"down", "flag", "file"} => given.file = NoPassword
  /\ proc.at # "up" => \A a \in Admins : change[a] = <<>>
  /\ proc.at = "up" => proc.hash # NoPassword
  /\ proc.at = "unflag" => given.env # NoPassword
  /\ proc.at \in {"apply", "record"} => proc.taken # NoPassword

\* While the choice stands, it is on disk, nothing handed over is to be applied, and
\* the start that is under way is on its way to the disk.
ChoiceOnDisk ==
  choice # NoPassword =>
    /\ disk.hash = choice
    /\ given.file = NoPassword /\ ~given.flag
    /\ given.env \in {NoPassword, disk.fingerprint}
    /\ proc.at \notin {"unflag", "record", "cleartext"}
    /\ proc.at = "apply" => proc.taken = given.env

\* Who is setting a password is setting that one, and otherwise it has been set.
ChoiceSet ==
  choice # NoPassword =>
    /\ \A a \in Admins : Setting(a) => change[a][2] = choice
    /\ proc.at = "up" /\ (\A a \in Admins : ~Setting(a)) => proc.hash = choice

AdminInv == AdminTyped /\ Doing /\ ProcTells /\ ChoiceOnDisk /\ ChoiceSet

\* What has no variable in it stays as it is.
LEMMA ConstantToo == Known' = Known /\ Histories' = Histories /\ Places' = Places /\ NoPassword' = NoPassword
BY DEF Known, Places, NoPassword, Histories

\* What is remembered is a list of passwords, no longer than the limit.
LEMMA RememberIs ==
  ASSUME NEW was \in Known, NEW history \in Histories
  PROVE  Remember(was, history) \in Histories
<1>. DEFINE all == (IF was = NoPassword THEN <<>> ELSE <<was>>) \o history
<1>1. all \in Seq(Known)
  BY DEF Histories
<1>. HIDE DEF all
<1>2. HistoryLength \in Nat
  BY AdminAssumption
<1>3. ASSUME ~(Len(all) <= HistoryLength)
      PROVE  SubSeq(all, 1, HistoryLength) \in Seq(Known) /\ Len(SubSeq(all, 1, HistoryLength)) = HistoryLength
  BY <1>1, <1>2, <1>3
<1>. QED
  BY <1>1, <1>2, <1>3 DEF Remember, Histories, all

\* An empty history is one.
LEMMA NothingRemembered == <<>> \in Histories
BY AdminAssumption DEF Histories

\* What a save writes, whatever the history was.
LEMMA SavedIs ==
  ASSUME AdminTyped, NEW p \in Known, NEW was \in Known, NEW history \in Histories, NEW must \in BOOLEAN
  PROVE  /\ Saved(p, was, history, must) \in
              [hash : Known, history : Histories, must : BOOLEAN, fingerprint : Known, cleartext : BOOLEAN]
         /\ Saved(p, was, history, must).hash = p
         /\ Saved(p, was, history, must).fingerprint = disk.fingerprint
BY RememberIs DEF Saved, AdminTyped

\* The steps of a start, which leave the consoles as they are: nobody is there.
LEMMA StartSteps ==
  ASSUME AdminInv, \/ Start \/ TakeFlag \/ DropFlag \/ TakeFile \/ TakeEnv \/ Apply \/ Record
                   \/ TakeDisk \/ WriteCleartext
  PROVE  AdminInv'
<1>. USE DEF AdminInv
<1>0a. NoPassword \in Known /\ Generated \in Known /\ Generated # NoPassword /\ <<>> \in Histories
  BY AdminAssumption, NothingRemembered DEF Known
<1>0b. proc.at # "up" /\ UNCHANGED choice /\ change' = change
  BY DEF Start, TakeFlag, DropFlag, TakeFile, TakeEnv, Apply, Record, TakeDisk, WriteCleartext
<1>0c. \A a \in Admins : change[a] = <<>> /\ change'[a] = <<>>
  BY <1>0b DEF ProcTells
<1>0. /\ NoPassword \in Known /\ Generated \in Known /\ Generated # NoPassword
      /\ proc.at # "up" /\ UNCHANGED choice /\ change' = change
      /\ \A a \in Admins : change[a] = <<>> /\ change'[a] = <<>>
      /\ <<>> \in Histories
  BY <1>0a, <1>0b, <1>0c
<1>0d. Fails \/ UNCHANGED bounds => bounds' \in [starts : Nat, fails : Nat]
  BY DEF Fails, AdminTyped
<1>1. Stages' = Stages
  BY ConstantToo DEF Stages
<1>1a. Doing' /\ (choice' # NoPassword => \A a \in Admins : ~Setting(a)')
  BY <1>0, <1>1 DEF Doing, Setting
<1>2. ASSUME AdminTyped', ProcTells', ChoiceOnDisk',
             choice # NoPassword /\ proc'.at = "up" => proc'.hash = choice
      PROVE  AdminInv'
  BY <1>0, <1>1a, <1>2, ConstantToo DEF ChoiceSet
<1>3. CASE Start
  <2>1. AdminTyped'
    <3>1. bounds' \in [starts : Nat, fails : Nat]
      BY <1>3 DEF Start, AdminTyped
    <3>. QED
      BY <1>3, <3>1, ConstantToo DEF Start, At, AdminTyped, Places
  <2>2. ProcTells' /\ ChoiceOnDisk' /\ proc'.at # "up"
    BY <1>0, <1>3, ConstantToo DEF Start, At, AdminTyped, ProcTells, ChoiceOnDisk
  <2>. QED
    BY <1>2, <2>1, <2>2
<1>4. CASE TakeFlag
  <2>1. PICK place \in {"unflag", "file"} :
          /\ proc' = [proc EXCEPT !.at = place] /\ UNCHANGED <<given, change, choice>>
          /\ \/ UNCHANGED bounds \/ Fails
          /\ \/ UNCHANGED disk /\ place = "file"
             \/ /\ given.flag /\ given.env # NoPassword
                /\ disk' = Saved(given.env, NoPassword, <<>>, FALSE)
    BY <1>4 DEF TakeFlag, At
  <2>2. given.env \in Known /\ given.flag \in BOOLEAN
    BY DEF AdminTyped
  <2>3. disk' \in [hash : Known, history : Histories, must : BOOLEAN, fingerprint : Known, cleartext : BOOLEAN]
    <3>1. Saved(given.env, NoPassword, <<>>, FALSE) \in
            [hash : Known, history : Histories, must : BOOLEAN, fingerprint : Known, cleartext : BOOLEAN]
      BY <1>0, <2>2, SavedIs
    <3>. QED
      BY <2>1, <3>1 DEF AdminTyped
  <2>4. AdminTyped'
    BY <1>0d, <1>0, <2>1, <2>3, ConstantToo DEF AdminTyped, Places
  <2>5. ProcTells' /\ ChoiceOnDisk' /\ proc'.at # "up"
    BY <1>0, <2>1, <2>2, ConstantToo DEF AdminTyped, ProcTells, ChoiceOnDisk
  <2>. QED
    BY <1>2, <2>4, <2>5
<1>5. CASE DropFlag
  <2>1. AdminTyped'
    BY <1>0, <1>5, ConstantToo DEF DropFlag, Serve, AdminTyped, Places
  <2>2. ProcTells' /\ choice = NoPassword
    BY <1>0, <1>5, ConstantToo DEF DropFlag, Serve, AdminTyped, ProcTells, ChoiceOnDisk
  <2>3. ChoiceOnDisk'
    BY <1>0, <2>2, ConstantToo DEF ChoiceOnDisk
  <2>. QED
    BY <1>2, <2>1, <2>2, <2>3
<1>6. CASE TakeFile
  <2>1. AdminTyped'
    BY <1>0, <1>6, ConstantToo DEF TakeFile, AdminTyped, Places
  <2>2. ProcTells' /\ ChoiceOnDisk' /\ proc'.at # "up"
    BY <1>0, <1>6, ConstantToo DEF TakeFile, AdminTyped, ProcTells, ChoiceOnDisk
  <2>. QED
    BY <1>2, <2>1, <2>2
<1>7. CASE TakeEnv
  <2>1. AdminTyped'
    BY <1>0, <1>7, ConstantToo DEF TakeEnv, AdminTyped, Places
  <2>2. ProcTells' /\ ChoiceOnDisk' /\ proc'.at # "up"
    BY <1>0, <1>7, ConstantToo DEF TakeEnv, AdminTyped, ProcTells, ChoiceOnDisk
  <2>. QED
    BY <1>2, <2>1, <2>2
<1>8. CASE Apply
  <2>0. /\ proc.at = "apply" /\ proc.taken \in Known /\ disk.hash \in Known /\ disk.history \in Histories
        /\ proc.taken # NoPassword
    BY <1>8 DEF Apply, AdminTyped, ProcTells
  <2>1. CASE Differs(proc.taken) /\ disk' = Saved(proc.taken, disk.hash, disk.history, FALSE)
             /\ proc' = [proc EXCEPT !.at = "record", !.history = disk.history] /\ UNCHANGED <<given, bounds>>
    <3>1. disk' \in [hash : Known, history : Histories, must : BOOLEAN, fingerprint : Known, cleartext : BOOLEAN]
      BY <2>0, <2>1, SavedIs
    <3>2. AdminTyped'
      BY <1>0, <2>0, <2>1, <3>1, ConstantToo DEF AdminTyped, Places
    <3>3. choice = NoPassword
      BY <2>0, <2>1 DEF ChoiceOnDisk, Differs
    <3>4. ProcTells' /\ ChoiceOnDisk' /\ proc'.at # "up"
      BY <1>0, <2>0, <2>1, <3>3, ConstantToo DEF AdminTyped, ProcTells, ChoiceOnDisk
    <3>. QED
      BY <1>2, <3>2, <3>4
  <2>2. ASSUME NEW place \in {"down", "env", "disk"}, proc' = [proc EXCEPT !.at = place],
               UNCHANGED <<given, disk>>, Fails \/ UNCHANGED bounds
        PROVE  AdminInv'
    <3>1. AdminTyped'
      BY <1>0, <1>0d, <2>2, ConstantToo DEF AdminTyped, Places
    <3>2. given.file = NoPassword
      BY <2>0 DEF ProcTells
    <3>3. proc'.at = place /\ proc'.taken = proc.taken /\ proc'.hash = proc.hash
      BY <2>2 DEF AdminTyped
    <3>4. ProcTells'
      BY <1>0, <2>2, <3>2, <3>3, ConstantToo DEF ProcTells
    <3>5. ChoiceOnDisk'
      BY <1>0, <2>2, <3>3, ConstantToo DEF ChoiceOnDisk
    <3>. QED
      BY <1>2, <2>2, <3>1, <3>3, <3>4, <3>5
  <2>. QED
    BY <1>8, <2>1, <2>2 DEF Apply, At
<1>9. CASE Record
  <2>1. proc.taken \in Known /\ proc.history \in Histories /\ proc.taken # NoPassword /\ choice = NoPassword
    BY <1>9 DEF Record, AdminTyped, ProcTells, ChoiceOnDisk
  <2>2. AdminTyped'
    <3>1. disk' \in [hash : Known, history : Histories, must : BOOLEAN, fingerprint : Known, cleartext : BOOLEAN]
      BY <1>9, <2>1 DEF Record, AdminTyped
    <3>2. bounds' \in [starts : Nat, fails : Nat]
      BY <1>9 DEF Record, AdminTyped, Fails
    <3>. QED
      BY <1>0, <1>9, <2>1, <3>1, <3>2, ConstantToo DEF Record, Serve, AdminTyped, Places
  <2>3. ProcTells' /\ ChoiceOnDisk'
    BY <1>0, <1>9, <2>1, ConstantToo DEF Record, Serve, AdminTyped, ProcTells, ChoiceOnDisk
  <2>. QED
    BY <1>2, <2>1, <2>2, <2>3
<1>10. CASE TakeDisk
  <2>1. ASSUME NEW p \in Known \ {NoPassword}, NEW history \in Histories, NEW must \in BOOLEAN,
               choice # NoPassword => p = choice, Serve(p, history, must), UNCHANGED <<disk, given, bounds>>
        PROVE  AdminInv'
    <3>1. AdminTyped'
      BY <1>0, <2>1, ConstantToo DEF Serve, AdminTyped, Places
    <3>2. given.file = NoPassword
      BY <1>10 DEF ProcTells, TakeDisk
    <3>3. proc'.at = "up" /\ proc'.hash = p
      BY <2>1 DEF Serve, AdminTyped
    <3>4. ProcTells'
      BY <1>0, <2>1, <3>2, <3>3, ConstantToo DEF ProcTells
    <3>5. ChoiceOnDisk'
      BY <1>0, <2>1, <3>3, ConstantToo DEF ChoiceOnDisk
    <3>. QED
      BY <1>2, <2>1, <3>1, <3>3, <3>4, <3>5
  <2>2. CASE disk.hash # NoPassword
    <3>1. Serve(disk.hash, disk.history, disk.must) /\ UNCHANGED <<disk, given, bounds>>
      BY <1>10, <2>2 DEF TakeDisk
    <3>. QED
      BY <2>1, <2>2, <3>1 DEF AdminTyped, ChoiceOnDisk
  <2>3. CASE disk.hash = NoPassword /\ given.env # NoPassword
    <3>1. Serve(given.env, <<>>, FALSE) /\ UNCHANGED <<disk, given, bounds>>
      BY <1>10, <2>3 DEF TakeDisk
    <3>. QED
      BY <1>0, <2>1, <2>3, <3>1 DEF AdminTyped, ChoiceOnDisk
  <2>4. CASE disk.hash = NoPassword /\ given.env = NoPassword
    <3>1. choice = NoPassword
      BY <2>4 DEF ChoiceOnDisk
    <3>2. PICK place \in {"cleartext", "down"} :
            /\ proc' = [proc EXCEPT !.at = place] /\ UNCHANGED given /\ (UNCHANGED bounds \/ Fails)
            /\ UNCHANGED disk \/ disk' = Saved(Generated, NoPassword, <<>>, TRUE)
      BY <1>10, <2>4 DEF TakeDisk, At
    <3>3. disk' \in [hash : Known, history : Histories, must : BOOLEAN, fingerprint : Known, cleartext : BOOLEAN]
      <4>1. Saved(Generated, NoPassword, <<>>, TRUE) \in
              [hash : Known, history : Histories, must : BOOLEAN, fingerprint : Known, cleartext : BOOLEAN]
        BY <1>0, SavedIs
      <4>. QED
        BY <3>2, <4>1 DEF AdminTyped
    <3>4. AdminTyped'
      BY <1>0, <1>0d, <3>2, <3>3, ConstantToo DEF AdminTyped, Places
    <3>5. given.file = NoPassword
      BY <1>10 DEF ProcTells, TakeDisk
    <3>6. proc'.at = place
      BY <3>2 DEF AdminTyped
    <3>7. ProcTells'
      BY <1>0, <3>2, <3>5, <3>6, ConstantToo DEF ProcTells
    <3>8. ChoiceOnDisk'
      BY <1>0, <3>1, ConstantToo DEF ChoiceOnDisk
    <3>. QED
      BY <1>2, <3>4, <3>6, <3>7, <3>8
  <2>. QED
    BY <2>2, <2>3, <2>4
<1>11. CASE WriteCleartext
  <2>1. choice = NoPassword
    BY <1>11 DEF WriteCleartext, ChoiceOnDisk
  <2>2. AdminTyped'
    <3>1. bounds' \in [starts : Nat, fails : Nat]
      BY <1>0d, <1>11 DEF WriteCleartext
    <3>2. disk' \in [hash : Known, history : Histories, must : BOOLEAN, fingerprint : Known, cleartext : BOOLEAN]
      <4>1. disk' = disk \/ disk' = [disk EXCEPT !.cleartext = TRUE]
        BY <1>11 DEF WriteCleartext
      <4>. QED
        BY <4>1 DEF AdminTyped
    <3>. QED
      <4>1. \/ Serve(Generated, <<>>, TRUE)
            \/ At("down")
        BY <1>11 DEF WriteCleartext
      <4>. DEFINE Typed == [at : Places, hash : Known, history : Histories, must : BOOLEAN,
                            taken : Known, sessions : SUBSET Admins]
      <4>2. proc' \in Typed
        <5>1. Serve(Generated, <<>>, TRUE) => proc' \in Typed
          <6>. HIDE DEF Typed
          <6>1. ASSUME NEW h \in Histories, NEW m \in BOOLEAN, Serve(Generated, h, m) PROVE proc' \in Typed
            BY <1>0, <6>1 DEF Serve, AdminTyped, Places, Typed
          <6>. QED
            BY <1>0, <6>1
        <5>2. At("down") => proc' \in Typed
          BY DEF At, AdminTyped, Places
        <5>. QED
          BY <4>1, <5>1, <5>2
      <4>3. given' = given
        BY <1>11 DEF WriteCleartext
      <4>. QED
        BY <1>0, <3>1, <3>2, <4>2, <4>3, ConstantToo DEF AdminTyped
  <2>3. ProcTells' /\ ChoiceOnDisk'
    <3>1. given' = given /\ choice' = choice /\ proc.at = "cleartext"
      BY <1>11 DEF WriteCleartext
    <3>2. (proc'.at = "up" /\ proc'.hash = Generated) \/ proc'.at = "down"
      BY <1>11 DEF WriteCleartext, Serve, At, AdminTyped
    <3>3. ProcTells'
      BY <1>0, <3>1, <3>2, ConstantToo DEF ProcTells
    <3>. QED
      BY <1>0, <2>1, <3>1, <3>3, ConstantToo DEF ChoiceOnDisk
  <2>. QED
    BY <1>2, <2>1, <2>2, <2>3
<1>. QED
  BY <1>3, <1>4, <1>5, <1>6, <1>7, <1>8, <1>9, <1>10, <1>11

\* A console that does something logs in, saves or sets.
LEMMA StageIs ==
  ASSUME NEW st \in Stages, st # <<>>
  PROVE  \/ Head(st) = "login"
         \/ /\ Head(st) \in {"save", "set"} /\ st[2] \in Passwords /\ st[3] \in Known /\ st[4] \in Histories
BY DEF Stages

\* The stages a console is put in.
LEMMA StageMade ==
  ASSUME NEW p \in Passwords, NEW was \in Known, NEW history \in Histories, NEW h \in Known
  PROVE  /\ <<"login", h>> \in Stages /\ Head(<<"login", h>>) = "login"
         /\ <<"save", p, was, history>> \in Stages /\ Head(<<"save", p, was, history>>) = "save"
         /\ <<"set", p, was, history>> \in Stages /\ Head(<<"set", p, was, history>>) = "set"
         /\ <<"set", p, was, history>> # <<>>
         /\ <<>> \in Stages /\ <<"set", p, was, history>>[2] = p
BY DEF Stages

\* A console goes on without having saved anything, and the process serves as before
\* but for its sessions.
LEMMA ConsoleGoesOn ==
  ASSUME AdminInv, NEW a \in Admins, NEW stage \in Stages, change' = [change EXCEPT ![a] = stage],
         stage = <<>> \/ Head(stage) # "set",
         ~ Setting(a), proc.at = "up",
         proc' = proc \/ \E S \in SUBSET Admins : proc' = [proc EXCEPT !.sessions = S],
         UNCHANGED <<given, disk, choice>>, Fails \/ UNCHANGED bounds
  PROVE  AdminInv'
<1>. USE DEF AdminInv
<1>1. bounds' \in [starts : Nat, fails : Nat]
  BY DEF Fails, AdminTyped
<1>2. AdminTyped' /\ proc'.at = proc.at /\ proc'.hash = proc.hash /\ proc'.taken = proc.taken
  BY <1>1, ConstantToo DEF AdminTyped
<1>3. Stages' = Stages
  BY ConstantToo DEF Stages
<1>4. Doing' /\ \A b \in Admins : change'[b] = IF b = a THEN stage ELSE change[b]
  BY <1>3 DEF Doing
<1>5. ProcTells' /\ ChoiceOnDisk'
  BY <1>2, ConstantToo DEF ProcTells, ChoiceOnDisk
<1>6. \A b \in Admins : Setting(b)' <=> Setting(b)
  BY <1>4 DEF Setting
<1>7. ChoiceSet'
  <2>1. ASSUME NEW b \in Admins, Setting(b)' PROVE change'[b] = change[b]
    BY <1>4, <1>6, <2>1
  <2>. QED
    BY <1>2, <1>6, <2>1, ConstantToo DEF ChoiceSet
<1>. QED
  BY <1>2, <1>4, <1>5, <1>7

\* A change that is saved, or fails to be.
LEMMA SavesChange == ASSUME AdminInv, NEW a \in Admins, ChangeSaved(a) PROVE AdminInv'
<1>. DEFINE c == change[a]
            st == <<"set", c[2], c[3], c[4]>>
<1>. USE DEF AdminInv
<1>0. /\ proc.at = "up" /\ c # <<>> /\ Head(c) = "save" /\ UNCHANGED <<given, proc>>
      /\ c[2] \in Passwords /\ c[3] \in Known /\ c[4] \in Histories /\ ~ Setting(a)
  BY StageIs DEF ChangeSaved, Up, Doing, Setting
<1>. HIDE DEF c, st
<1>0a. c[2] \in Known /\ c[2] # NoPassword /\ NoPassword \in Known
  BY <1>0, AdminAssumption DEF Known
<1>1. CASE Fails /\ change' = [change EXCEPT ![a] = <<>>] /\ UNCHANGED <<disk, choice>>
  <2>1. <<>> \in Stages
    BY DEF Stages
  <2>. QED
    BY <1>0, <1>1, <2>1, ConsoleGoesOn
<1>2. CASE /\ disk' = [Saved(c[2], c[3], c[4], FALSE) EXCEPT !.cleartext = FALSE]
           /\ change' = [change EXCEPT ![a] = st]
           /\ choice' \in {c[2], NoPassword}
           /\ choice' = c[2] =>
                /\ \A b \in Admins \ {a} : change[b] = <<>> \/ Head(change[b]) = "login"
                /\ ~given.flag /\ given.env \in {NoPassword, disk.fingerprint}
           /\ UNCHANGED bounds
  <2>1. st \in Stages /\ Head(st) = "set" /\ st # <<>> /\ st[2] = c[2]
    <3>1. st \in Stages
      BY <1>0 DEF Stages, st
    <3>. QED
      BY <3>1 DEF st
  <2>2. Stages' = Stages
    BY ConstantToo DEF Stages
  <2>3. Doing' /\ \A b \in Admins : change'[b] = IF b = a THEN st ELSE change[b]
    BY <1>2, <2>1, <2>2 DEF Doing
  <2>4. /\ Saved(c[2], c[3], c[4], FALSE) \in
            [hash : Known, history : Histories, must : BOOLEAN, fingerprint : Known, cleartext : BOOLEAN]
        /\ Saved(c[2], c[3], c[4], FALSE).hash = c[2]
        /\ Saved(c[2], c[3], c[4], FALSE).fingerprint = disk.fingerprint
    <3>1. Remember(c[3], c[4]) \in Histories
      BY <1>0, RememberIs
    <3>. QED
      BY <1>0a, <3>1 DEF Saved, AdminTyped
  <2>5. /\ disk' \in [hash : Known, history : Histories, must : BOOLEAN, fingerprint : Known, cleartext : BOOLEAN]
        /\ disk'.hash = c[2] /\ disk'.fingerprint = disk.fingerprint
    BY <1>2, <2>4
  <2>6. AdminTyped'
    BY <1>0, <1>0a, <1>2, <2>5, ConstantToo DEF AdminTyped
  <2>7. ProcTells'
    BY <1>0, <1>2, ConstantToo DEF ProcTells
  <2>8. given.file = NoPassword
    BY <1>0 DEF ProcTells
  <2>9. ChoiceOnDisk'
    BY <1>0, <1>2, <2>5, <2>8, ConstantToo DEF ChoiceOnDisk
  <2>10. ChoiceSet'
    <3>. SUFFICES ASSUME choice' # NoPassword PROVE ChoiceSet'
      BY ConstantToo DEF ChoiceSet
    <3>1. choice' = c[2] /\ \A b \in Admins \ {a} : change[b] = <<>> \/ Head(change[b]) = "login"
      BY <1>2
    <3>2. Setting(a)'
      BY <2>1, <2>3 DEF Setting
    <3>3. \A b \in Admins \ {a} : ~ Setting(b)'
      BY <2>3, <3>1 DEF Setting
    <3>4. change'[a][2] = choice'
      BY <2>1, <2>3, <3>1
    <3>. QED
      BY <3>2, <3>3, <3>4, ConstantToo DEF ChoiceSet
  <2>. QED
    BY <2>3, <2>6, <2>7, <2>9, <2>10
<1>. QED
  <2>1. \/ Fails /\ change' = [change EXCEPT ![a] = <<>>] /\ UNCHANGED <<disk, choice>>
        \/ /\ disk' = [Saved(c[2], c[3], c[4], FALSE) EXCEPT !.cleartext = FALSE]
           /\ change' = [change EXCEPT ![a] = st]
           /\ choice' = IF /\ \A b \in Admins \ {a} : change[b] = <<>> \/ Head(change[b]) = "login"
                           /\ ~given.flag /\ given.env \in {NoPassword, disk.fingerprint}
                        THEN c[2] ELSE NoPassword
           /\ UNCHANGED bounds
    BY DEF ChangeSaved, c, st
  <2>. QED
    BY <1>0a, <1>1, <1>2, <2>1

\* A change that was saved is put into the memory of the process.
LEMMA SetsChange == ASSUME AdminInv, NEW a \in Admins, ChangeSet(a) PROVE AdminInv'
<1>. DEFINE c == change[a]
<1>. USE DEF AdminInv
<1>0. /\ proc.at = "up" /\ c # <<>> /\ Head(c) = "set" /\ UNCHANGED <<given, disk, choice, bounds>>
      /\ c[2] \in Passwords /\ c[3] \in Known /\ c[4] \in Histories /\ Setting(a)
  BY StageIs DEF ChangeSet, Up, Doing, Setting
<1>0a. c[2] \in Known /\ c[2] # NoPassword
  BY <1>0, AdminAssumption DEF Known
<1>1. Remember(c[3], c[4]) \in Histories
  BY <1>0, RememberIs
<1>2. AdminTyped' /\ proc'.at = "up" /\ proc'.hash = c[2]
  BY <1>0, <1>0a, <1>1, ConstantToo DEF ChangeSet, AdminTyped
<1>3. Stages' = Stages /\ <<>> \in Stages
  BY ConstantToo DEF Stages
<1>4. Doing' /\ \A b \in Admins : change'[b] = IF b = a THEN <<>> ELSE change[b]
  BY <1>3 DEF ChangeSet, Doing
<1>5. ProcTells' /\ ChoiceOnDisk'
  BY <1>0, <1>0a, <1>2, ConstantToo DEF ProcTells, ChoiceOnDisk
<1>6. ChoiceSet'
  BY <1>0, <1>2, <1>4, ConstantToo DEF ChoiceSet, Setting
<1>. QED
  BY <1>2, <1>4, <1>5, <1>6

\* The first state has it.
LEMMA AdminInitial == AdminInit => AdminInv
<1>. SUFFICES ASSUME AdminInit PROVE AdminInv
  OBVIOUS
<1>1. NoPassword \in Known /\ <<>> \in Histories
  BY NothingRemembered DEF Known
<1>2. AdminTyped
  BY <1>1 DEF AdminInit, AdminTyped, Places
<1>3. Doing /\ \A a \in Admins : change[a] = <<>>
  BY DEF AdminInit, Doing, Stages
<1>4. ProcTells /\ ChoiceOnDisk /\ ChoiceSet
  BY <1>3 DEF AdminInit, ProcTells, ChoiceOnDisk, ChoiceSet
<1>. QED
  BY <1>2, <1>3, <1>4 DEF AdminInv

\* Every step of the installation, of a start and of a console keeps it.
LEMMA AdminStep == AdminInv /\ [AdminNext]_adminVars => AdminInv'
<1>. SUFFICES ASSUME AdminInv, [AdminNext]_adminVars PROVE AdminInv'
  OBVIOUS
<1>. USE DEF AdminInv
<1>1. ASSUME NEW p \in Passwords, HandOver(p) PROVE AdminInv'
  <2>0. p \in Known /\ p # NoPassword /\ NoPassword \in Known
    BY AdminAssumption DEF Known
  <2>1. given.way \in {"env", "file", "flag"} /\ proc.at = "down" /\ UNCHANGED <<disk, proc, change, bounds>>
        /\ choice' = NoPassword
    BY <1>1, AdminAssumption DEF HandOver, AdminTyped
  <2>2. /\ given' \in [way : Ways, env : Known, file : Known, flag : BOOLEAN]
        /\ given'.way = given.way
        /\ given'.file # NoPassword => given'.way = "file"
        /\ given'.env # NoPassword => given'.way # "file"
        /\ given'.flag => given'.way = "flag" /\ given'.env # NoPassword
    BY <1>1, <2>0, <2>1 DEF HandOver, AdminTyped, ProcTells
  <2>3. Stages' = Stages
    BY ConstantToo DEF Stages
  <2>4. AdminTyped'
    BY <2>0, <2>1, <2>2, ConstantToo DEF AdminTyped
  <2>5. Doing'
    BY <2>1, <2>3 DEF Doing
  <2>6. ProcTells'
    <3>1. proc'.at = "down" /\ \A a \in Admins : change'[a] = <<>>
      BY <2>1 DEF ProcTells
    <3>2. /\ given'.file # NoPassword => given'.way = "file"
          /\ given'.env # NoPassword => given'.way # "file"
          /\ given'.flag => given'.way = "flag" /\ given'.env # NoPassword
      BY <2>2
    <3>. QED
      BY <3>1, <3>2, ConstantToo DEF ProcTells
  <2>7. ChoiceOnDisk' /\ ChoiceSet'
    BY <2>1, ConstantToo DEF ChoiceOnDisk, ChoiceSet
  <2>. QED
    BY <2>4, <2>5, <2>6, <2>7
<1>2. CASE Kill
  <2>1. Stages' = Stages /\ <<>> \in Stages /\ NoPassword \in Known /\ <<>> \in Histories
    BY ConstantToo, NothingRemembered DEF Stages, Known
  <2>2. AdminTyped' /\ proc'.at = "down"
    BY <1>2, <2>1, ConstantToo DEF Kill, AdminTyped, Places
  <2>3. Doing' /\ \A a \in Admins : change'[a] = <<>>
    BY <1>2, <2>1 DEF Kill, Doing
  <2>4. ProcTells' /\ ChoiceOnDisk'
    BY <1>2, <2>2, <2>3, ConstantToo DEF Kill, ProcTells, ChoiceOnDisk
  <2>5. ChoiceSet'
    BY <1>2, <2>2, <2>3, ConstantToo DEF Kill, ChoiceSet, Setting
  <2>. QED
    BY <2>2, <2>3, <2>4, <2>5
<1>3. ASSUME NEW a \in Admins, NEW p \in Passwords, ChangeChecked(a, p) PROVE AdminInv'
  <2>1. proc.hash \in Known /\ proc.history \in Histories
    BY DEF AdminTyped
  <2>2. PICK st \in Stages : Head(st) = "save" /\ change' = [change EXCEPT ![a] = st]
    BY <1>3, <2>1, StageMade, ZenonT(30) DEF ChangeChecked
  <2>3. ~ Setting(a) /\ proc.at = "up" /\ UNCHANGED <<given, disk, proc, choice, bounds>>
    BY <1>3 DEF ChangeChecked, Setting, Up
  <2>. QED
    BY <2>2, <2>3, ConsoleGoesOn
<1>4. ASSUME NEW a \in Admins, LoginChecked(a) PROVE AdminInv'
  <2>1. PICK st \in Stages : Head(st) = "login" /\ change' = [change EXCEPT ![a] = st]
    <3>1. <<"login", proc.hash>> \in Stages /\ Head(<<"login", proc.hash>>) = "login"
      BY DEF AdminTyped, Stages
    <3>. QED
      BY <1>4, <3>1 DEF LoginChecked
  <2>2. ~ Setting(a) /\ proc.at = "up" /\ UNCHANGED <<given, disk, proc, choice, bounds>>
    BY <1>4 DEF LoginChecked, Setting, Up
  <2>. QED
    BY <2>1, <2>2, ConsoleGoesOn
<1>5. ASSUME NEW a \in Admins, LoggedIn(a) PROVE AdminInv'
  <2>1. ~ Setting(a) /\ proc.at = "up" /\ UNCHANGED <<given, disk, choice, bounds>>
    BY <1>5 DEF LoggedIn, Setting, Up
  <2>2. PICK S \in SUBSET Admins : proc' = [proc EXCEPT !.sessions = S]
    <3>1. proc.sessions \cup {a} \in SUBSET Admins
      BY DEF AdminTyped
    <3>. QED
      BY <1>5, <3>1 DEF LoggedIn
  <2>3. <<>> \in Stages /\ change' = [change EXCEPT ![a] = <<>>]
    BY <1>5 DEF LoggedIn, Stages
  <2>. QED
    BY <2>1, <2>2, <2>3, ConsoleGoesOn
<1>6. ASSUME NEW a \in Admins, Logout_(a) PROVE AdminInv'
  <2>1. UNCHANGED <<given, disk, change, choice, bounds>> /\ proc' = [proc EXCEPT !.sessions = @ \ {a}]
    BY <1>6 DEF Logout_
  <2>2. AdminTyped' /\ proc'.at = proc.at /\ proc'.hash = proc.hash /\ proc'.taken = proc.taken
    BY <2>1, ConstantToo DEF AdminTyped
  <2>3. Stages' = Stages
    BY ConstantToo DEF Stages
  <2>4. Doing' /\ ProcTells' /\ ChoiceOnDisk'
    BY <2>1, <2>2, <2>3, ConstantToo DEF Doing, ProcTells, ChoiceOnDisk
  <2>5. ChoiceSet'
    BY <2>1, <2>2, ConstantToo DEF ChoiceSet, Setting
  <2>. QED
    BY <2>2, <2>4, <2>5
<1>7. CASE UNCHANGED adminVars
  <2>1. Stages' = Stages
    BY ConstantToo DEF Stages
  <2>2. AdminTyped' /\ Doing' /\ ProcTells'
    BY <1>7, <2>1, ConstantToo DEF adminVars, AdminTyped, Doing, ProcTells
  <2>3. ChoiceOnDisk' /\ ChoiceSet'
    BY <1>7, ConstantToo DEF adminVars, ChoiceOnDisk, ChoiceSet, Setting
  <2>. QED
    BY <2>2, <2>3
<1>8. ASSUME \/ Start \/ TakeFlag \/ DropFlag \/ TakeFile \/ TakeEnv \/ Apply \/ Record
             \/ TakeDisk \/ WriteCleartext
      PROVE  AdminInv'
  BY <1>8, StartSteps
<1>9. ASSUME NEW a \in Admins, ChangeSaved(a) \/ ChangeSet(a) PROVE AdminInv'
  BY <1>9, SavesChange, SetsChange
<1>. HIDE DEF AdminInv
<1>. QED
  BY <1>1, <1>2, <1>3, <1>4, <1>5, <1>6, <1>7, <1>8, <1>9 DEF AdminNext

\* What the types and the choice that stays follow from.
LEMMA AdminImplied == AdminInv => AdminTypeOK /\ ChoiceStays
<1>. SUFFICES ASSUME AdminInv PROVE AdminTypeOK /\ ChoiceStays
  OBVIOUS
<1>1. AdminTypeOK
  BY DEF AdminInv, AdminTyped, ProcTells, Histories, AdminTypeOK
<1>2. ASSUME choice # NoPassword, Up, \A a \in Admins : change[a] = <<>>
      PROVE  proc.hash = choice
  BY <1>2 DEF AdminInv, ChoiceSet, Setting, Up
<1>. QED
  BY <1>1, <1>2 DEF ChoiceStays

\* Where a password that was handed over or chosen is on its way, in every state
\* (admin_bootstrap.go, admin_security.go).
THEOREM AdminInvariant == AdminSpec => []AdminInv
BY AdminInitial, AdminStep, PTL DEF AdminSpec

\* The variables hold values of their types.
THEOREM AdminTypeCorrect == AdminSpec => []AdminTypeOK
BY AdminInvariant, AdminImplied, PTL

\* Whatever starts, crashes and failed saves follow, a password chosen in the console is
\* the one that is served until another is handed over (admin_security.go).
THEOREM ChoiceStaysCorrect == AdminSpec => []ChoiceStays
BY AdminInvariant, AdminImplied, PTL
=============================================================================
