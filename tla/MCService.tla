----------------------------- MODULE MCService ------------------------------
(* How a request finds its account and what its turn with the upstream ends  *)
(* with, and what the administrator decides for all of them: the password of *)
(* the console, the accounts signed in, the settings and the outbound        *)
(* proxies.  These parts share no variable; one of them is chosen at the     *)
(* start and runs alone, so that one run explores the sum of their states,   *)
(* each as its own specification has it.                                     *)
EXTENDS MCAccountDispatch, AdminPassword, SignIn, RuntimeSettings, ProxyPool,
        ChatTurn

MCKind == [pkce |-> "pkce", device |-> "device", password |-> "password"]
MCEntries == <<"p1", "p2", "p3">>

\* An ordinary text, the two words of a busy notice, and an image notice.
MCAnswers == {<<"retry", "later">>, <<"image">>}

VARIABLE part

\* Only the part that runs has more than one initial state.
ServiceInit ==
  /\ part \in {"dispatch", "admin", "sign in", "settings", "proxies", "turn"}
  /\ DispatchInit /\ AdminInit /\ SignInInit /\ SettingsInit /\ ProxyPoolInit /\ TurnInit
  /\ part # "dispatch" => kind = [r \in Request |-> "auto"]
  /\ part # "admin" => given.way = "env"
  /\ part # "settings" => file.level = "info"
  /\ part # "turn" => upstream.answer = <<"image">>

ServiceNext ==
  /\ UNCHANGED part
  /\ \/ /\ part = "dispatch" /\ DispatchNext
        /\ UNCHANGED <<adminVars, signInVars, settingsVars, proxyVars, turnVars>>
     \/ /\ part = "admin" /\ AdminNext
        /\ UNCHANGED <<dispatchVars, signInVars, settingsVars, proxyVars, turnVars>>
     \/ /\ part = "sign in" /\ SignInNext
        /\ UNCHANGED <<dispatchVars, adminVars, settingsVars, proxyVars, turnVars>>
     \/ /\ part = "settings" /\ SettingsNext
        /\ UNCHANGED <<dispatchVars, adminVars, signInVars, proxyVars, turnVars>>
     \/ /\ part = "proxies" /\ ProxyPoolNext
        /\ UNCHANGED <<dispatchVars, adminVars, signInVars, settingsVars, turnVars>>
     \/ /\ part = "turn" /\ TurnNext
        /\ UNCHANGED <<dispatchVars, adminVars, signInVars, settingsVars, proxyVars>>
     \/ /\ part = "turn" /\ LoopIsOver       \* a turn that has returned may stop there
        /\ UNCHANGED <<dispatchVars, adminVars, signInVars, settingsVars, proxyVars, turnVars>>

ServiceSpec ==
  ServiceInit /\ [][ServiceNext]_<<part, dispatchVars, adminVars, signInVars, settingsVars,
                                   proxyVars, turnVars>>

\* The variables of the part that runs hold values of their types.
ServiceTypeOK ==
  CASE part = "dispatch" -> DispatchTypeOK
    [] part = "admin" -> AdminTypeOK
    [] part = "sign in" -> SignInTypeOK
    [] part = "settings" -> SettingsTypeOK
    [] part = "proxies" -> ProxyPoolTypeOK
    [] part = "turn" -> TurnTypeOK
=============================================================================
