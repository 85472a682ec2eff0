------------------------------- MODULE SignIn -------------------------------
(***************************************************************************)
(* How an account comes into the pool (internal/web/server.go: the PKCE    *)
(* flow, the device code and the password flow; internal/auth/device.go    *)
(* and token.go): entries under the server's lock, handlers that work on a *)
(* copy of one while the token endpoint answers and write it back after.   *)
(*                                                                         *)
(* The token store itself is TokenStore; here it takes an account or       *)
(* fails.  What the pages show, and where the browser is sent, is left out.*)
(***************************************************************************)
EXTENDS Naturals, FiniteSets

CONSTANTS
  SignIns,  \* sign-ins; the random id of each is new
  Kind,     \* how each goes: "pkce", "device" or "password"
  Visitors  \* handlers that serve the pages at the same time

ASSUME SignInAssumption == Kind \in [SignIns -> {"pkce", "device", "password"}]

VARIABLES
  entry,     \* the status under each id, "none" without an entry
  old,       \* the sign-ins whose entries have passed their age
  visitor,   \* what each handler is doing, and for which sign-in
  endpoint,  \* the authorisation server: what was approved, asked for, given
  stored,    \* the sign-ins since the start whose account the token store lists
  unsaved,   \* those of them that the store could not save
  overlapped \* the sign-ins that two handlers have polled at the same time

signInVars == <<entry, old, visitor, endpoint, stored, unsaved, overlapped>>

Resting == [at |-> "idle"]

SignInInit ==
  /\ entry = [s \in SignIns |-> "none"]
  /\ old = {}
  /\ visitor = [v \in Visitors |-> Resting]
  /\ endpoint = [begun |-> {}, approved |-> {}, given |-> {}]
  /\ stored = {} /\ unsaved = {} /\ overlapped = {}

Busy(s) == {v \in Visitors : visitor[v] # Resting /\ visitor[v].for = s}
-----------------------------------------------------------------------------
(* The authorisation server, and what the client makes of its answers.     *)

\* A code or a password, or a device code, is good for one token.
RequestToken(s) == {"error"} \union IF s \in endpoint.given THEN {} ELSE {"token"}

\* authorization_pending and slow_down leave the sign-in as it is.
PollDeviceCode(s) ==
  CASE s \in endpoint.given -> {"error"}
    [] s \in endpoint.approved \ endpoint.given -> {"error", "pending", "token"}
    [] OTHER -> {"error", "pending"}

\* The user approves in a browser of his own.
Approve(s) ==
  /\ Kind[s] = "device" /\ s \in endpoint.begun \ endpoint.approved
  /\ endpoint' = [endpoint EXCEPT !.approved = @ \union {s}]
  /\ UNCHANGED <<entry, old, visitor, stored, unsaved, overlapped>>

\* Ten minutes for PKCE, fifteen for a device code.
Age(s) ==
  /\ s \in endpoint.begun \ old
  /\ old' = old \union {s}
  /\ UNCHANGED <<entry, visitor, endpoint, stored, unsaved, overlapped>>
-----------------------------------------------------------------------------
New(s) ==
  /\ s \notin endpoint.begun
  /\ endpoint' = [endpoint EXCEPT !.begun = @ \union {s}]

\* A verifier and a state under which the callback will find it.
StartPKCE(s) ==
  /\ Kind[s] = "pkce" /\ New(s)
  /\ entry' = [entry EXCEPT ![s] = "pending"]
  /\ UNCHANGED <<old, visitor, stored, unsaved, overlapped>>

\* The endpoint has given a device code; otherwise nothing is kept.
StartDeviceCode(s) ==
  /\ Kind[s] = "device" /\ New(s)
  /\ entry' = [entry EXCEPT ![s] = "pending"]
  /\ UNCHANGED <<old, visitor, stored, unsaved, overlapped>>

\* provisionAccount keeps no entry: its handler asks, stores and answers.
ProvisionAccount(v, s) ==
  /\ Kind[s] = "password" /\ New(s) /\ visitor[v] = Resting
  /\ visitor' = [visitor EXCEPT ![v] = [at |-> "ask", for |-> s]]
  /\ UNCHANGED <<entry, old, stored, unsaved, overlapped>>

\* An entry past its age goes when anybody looks.
Drop(s) ==
  /\ s \in old /\ entry[s] # "none"
  /\ entry' = [entry EXCEPT ![s] = "none"]
  /\ UNCHANGED <<old, visitor, endpoint, stored, unsaved, overlapped>>

PkceStatus(s) == Kind[s] = "pkce" /\ Drop(s)

\* Variant: the result is taken up without looking whether another has it.
CallbackTakesAnything(v, s) ==
  /\ entry[s] # "none" /\ s \notin old
  /\ \E at \in {"ask", "error"} : visitor' = [visitor EXCEPT ![v] = [at |-> at, for |-> s]]
  /\ entry' = [entry EXCEPT ![s] = "processing"]
  /\ UNCHANGED <<old, endpoint, stored, unsaved, overlapped>>

\* The first callback of a pending sign-in takes it, with a code or with the
\* endpoint's refusal, which is written back by the same handler.
CallbackTakes(v, s) ==
  /\ entry[s] = "pending" /\ s \notin old
  /\ \E at \in {"ask", "error"} : visitor' = [visitor EXCEPT ![v] = [at |-> at, for |-> s]]
  /\ entry' = [entry EXCEPT ![s] = "processing"]
  /\ UNCHANGED <<old, endpoint, stored, unsaved, overlapped>>

CallbackPKCE(v, s) ==
  /\ Kind[s] = "pkce" /\ visitor[v] = Resting
  /\ CallbackTakes(v, s) \/ Drop(s)

\* A look at a device code that is neither done nor failed polls the endpoint;
\* nothing in the entry says that somebody is polling already.
StatusDeviceCode(v, s) ==
  /\ Kind[s] = "device" /\ visitor[v] = Resting
  /\ \/ Drop(s)
     \/ /\ s \notin old /\ entry[s] = "pending"
        /\ visitor' = [visitor EXCEPT ![v] = [at |-> "ask", for |-> s]]
        /\ overlapped' = IF Busy(s) = {} THEN overlapped ELSE overlapped \union {s}
        /\ UNCHANGED <<entry, old, endpoint, stored, unsaved>>
-----------------------------------------------------------------------------
VisitorGoes(v, at) ==
  visitor' = [visitor EXCEPT ![v] = IF at = "idle" THEN Resting ELSE [@ EXCEPT !.at = at]]

\* ExchangeCode, PollDeviceCode or ROPC, without the lock.  A token may be given
\* and its answer lost.
Exchange(v) ==
  LET s == visitor[v].for
      answers == IF Kind[s] = "device" THEN PollDeviceCode(s) ELSE RequestToken(s)
  IN  /\ visitor[v].at = "ask"
      /\ \E answer \in answers :
           /\ VisitorGoes(v, CASE answer = "token" -> "store"
                        [] answer = "pending" -> "idle"
                        [] OTHER -> IF Kind[s] = "password" THEN "idle" ELSE "error")
           /\ \/ answer # "token" /\ UNCHANGED endpoint
              \/ /\ answer # "pending" /\ {"token", answer} \subseteq answers
                 /\ endpoint' = [endpoint EXCEPT !.given = @ \union {s}]
      /\ UNCHANGED <<entry, old, stored, unsaved, overlapped>>

\* The account is listed in the token store before the store is saved; when that
\* fails it stays listed and is served, and the handler reports the error.
Upsert(v) ==
  LET s == visitor[v].for
      kept == Kind[s] # "password"
  IN  /\ visitor[v].at = "store"
      /\ stored' = stored \union {s}
      /\ \/ UNCHANGED unsaved /\ VisitorGoes(v, IF kept THEN "authenticated" ELSE "idle")
         \/ unsaved' = unsaved \union {s} /\ VisitorGoes(v, IF kept THEN "error" ELSE "idle")
      /\ UNCHANGED <<entry, old, endpoint, overlapped>>

\* The copy is written back, also over an entry that has changed or gone.
WriteBack(v) ==
  /\ visitor[v].at \in {"authenticated", "error"}
  /\ entry' = [entry EXCEPT ![visitor[v].for] = visitor[v].at]
  /\ VisitorGoes(v, "idle")
  /\ UNCHANGED <<old, endpoint, stored, unsaved, overlapped>>
\* The process ends: entries and handlers go, with a token not stored yet.
ForgetSignIns ==
  /\ endpoint.begun # {}
  /\ entry' = [s \in SignIns |-> "none"] /\ old' = {}
  /\ visitor' = [v \in Visitors |-> Resting]
  /\ endpoint' = [begun |-> {}, approved |-> {}, given |-> {}]
  /\ stored' = {} /\ unsaved' = {} /\ overlapped' = {}
-----------------------------------------------------------------------------
SignInNext ==
  \/ ForgetSignIns
  \/ \E s \in SignIns : StartPKCE(s) \/ StartDeviceCode(s) \/ PkceStatus(s) \/ Approve(s) \/ Age(s)
  \/ \E v \in Visitors :
       \/ Exchange(v) \/ Upsert(v) \/ WriteBack(v)
       \/ \E s \in SignIns : ProvisionAccount(v, s) \/ CallbackPKCE(v, s) \/ StatusDeviceCode(v, s)

SignInSpec == SignInInit /\ [][SignInNext]_signInVars
-----------------------------------------------------------------------------
SignInTypeOK ==
  /\ entry \in [SignIns -> {"none", "pending", "processing", "authenticated", "error"}]
  /\ old \subseteq endpoint.begun /\ stored \subseteq endpoint.given /\ unsaved \subseteq stored
  /\ overlapped \subseteq {s \in SignIns : Kind[s] = "device"}
  /\ \A v \in Visitors :
       visitor[v] = Resting \/ /\ visitor[v].at \in {"ask", "store", "authenticated", "error"}
                               /\ visitor[v].for \in endpoint.begun

\* However callbacks, looks and ages interleave, one handler at most takes a code to
\* the endpoint; a sign-in shown as done has its account in the store and on disk; and
\* one whose account is there is shown as done when nobody works on it any more, or
\* not shown.  Two are excepted, which may be shown as failed though their account is
\* listed and served: two polls of one device code, where the slower writes its
\* refusal over the other's success (server.go:1499), and a store that could not be
\* saved (cache.go:376-384).
SignInTrue ==
  \A s \in SignIns :
    /\ Kind[s] = "pkce" => Cardinality(Busy(s)) <= 1 /\ (Busy(s) # {} => entry[s] \in {"processing", "none"})
    /\ entry[s] = "authenticated" => s \in stored \ unsaved
    /\ s \in stored \ (overlapped \union unsaved) /\ Busy(s) = {} => entry[s] \in {"authenticated", "none"}
=============================================================================
