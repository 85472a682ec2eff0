---------------------------- MODULE AdminPassword ----------------------------
(***************************************************************************)
(* The administrator's password (internal/web/admin_security.go and        *)
(* admin_bootstrap.go): where a start takes it from, what each start       *)
(* writes, how the console changes it and which sessions outlive a change. *)
(* The process may be killed between any two writes.                       *)
(*                                                                         *)
(* A password stands for its hash and its fingerprint.  An installation    *)
(* hands a password over in one way: in the environment, in the reset      *)
(* file, or in the environment beside the reset flag.  The legacy plain    *)
(* file and the attempts of a login are left out.                          *)
(***************************************************************************)
EXTENDS Integers, Sequences

CONSTANTS
  Passwords,     \* passwords an operator types
  Generated,     \* the password a first start makes up
  Ways,          \* how the installation hands one over: "env", "file" or "flag"
  Admins,        \* consoles that may change the password at the same time
  HistoryLength, \* passwords remembered (5 in the code)
  MaxStarts,     \* bound: starts of the process
  MaxFail        \* bound: saves of the password that fail

\* An empty password is none, and none is taken.
NoPassword == "none"

ASSUME AdminAssumption ==
  /\ Ways \subseteq {"env", "file", "flag"}
  /\ NoPassword \notin Passwords \union {Generated} /\ Generated \notin Passwords
  /\ HistoryLength \in Nat /\ MaxStarts \in Nat /\ MaxFail \in Nat

VARIABLES
  given,     \* what the installation hands over: its way, env, file, flag
  disk,      \* admin-password.json, the fingerprint, the cleartext of a bootstrap
  proc,      \* the process: where it is, its password, its sessions
  change,    \* what every console is doing
  choice,    \* the password chosen in the console since the last handing over
  bounds     \* starts and failed saves so far

adminVars == <<given, disk, proc, change, choice, bounds>>

Known == Passwords \union {Generated, NoPassword}

AdminInit ==
  /\ given \in [way : Ways, env : {NoPassword}, file : {NoPassword}, flag : {FALSE}]
  /\ disk = [hash |-> NoPassword, history |-> <<>>, must |-> FALSE,
             fingerprint |-> NoPassword, cleartext |-> FALSE]
  /\ proc = [at |-> "down", hash |-> NoPassword, history |-> <<>>, must |-> FALSE,
             taken |-> NoPassword, sessions |-> {}]
  /\ change = [a \in Admins |-> <<>>]
  /\ choice = NoPassword
  /\ bounds = [starts |-> 0, fails |-> 0]
-----------------------------------------------------------------------------
(* The installation, while the process is down.                            *)

HandOver(p) ==
  /\ proc.at = "down"
  /\ given' = CASE given.way = "env" -> [given EXCEPT !.env = p]
                [] given.way = "file" -> [given EXCEPT !.file = p]
                [] given.way = "flag" -> [given EXCEPT !.env = p, !.flag = TRUE]
  /\ given' # given
  /\ choice' = NoPassword
  /\ UNCHANGED <<disk, proc, change, bounds>>
-----------------------------------------------------------------------------
(* A start: loadAdminCredentials, one step per write.                      *)

At(place) == proc' = [proc EXCEPT !.at = place]
Fails == bounds.fails < MaxFail /\ bounds' = [bounds EXCEPT !.fails = @ + 1]

Start ==
  /\ proc.at = "down" /\ bounds.starts < MaxStarts
  /\ bounds' = [bounds EXCEPT !.starts = @ + 1]
  /\ At("flag")
  /\ UNCHANGED <<given, disk, change, choice>>

\* The new password, with the old one first among those remembered.
Remember(old, history) ==
  LET all == (IF old = NoPassword THEN <<>> ELSE <<old>>) \o history
  IN  IF Len(all) <= HistoryLength THEN all ELSE SubSeq(all, 1, HistoryLength)

Saved(p, old, history, must) ==
  [disk EXCEPT !.hash = p, !.history = Remember(old, history), !.must = must]

\* The process begins to serve with this password.
Serve(p, history, must) ==
  proc' = [proc EXCEPT !.at = "up", !.hash = p, !.history = history, !.must = must,
                       !.taken = NoPassword]

\* The reset flag: the password of the environment replaces the one on disk, and
\* nothing is remembered.  A save that fails leaves it to the next source.
TakeFlag ==
  /\ proc.at = "flag"
  /\ IF given.flag /\ given.env # NoPassword
     THEN \/ /\ disk' = Saved(given.env, NoPassword, <<>>, FALSE)
             /\ At("unflag") /\ UNCHANGED bounds
          \/ Fails /\ At("file") /\ UNCHANGED disk
     ELSE At("file") /\ UNCHANGED <<disk, bounds>>
  /\ UNCHANGED <<given, change, choice>>

DropFlag ==
  /\ proc.at = "unflag"
  /\ given' = [given EXCEPT !.flag = FALSE]
  /\ Serve(given.env, <<>>, FALSE)
  /\ UNCHANGED <<disk, change, choice, bounds>>

\* The reset file is read and removed before its password is looked at.
TakeFile ==
  /\ proc.at = "file"
  /\ proc' = [proc EXCEPT !.at = IF given.file = NoPassword THEN "env" ELSE "apply",
                          !.taken = given.file]
  /\ given' = [given EXCEPT !.file = NoPassword]
  /\ UNCHANGED <<disk, change, choice, bounds>>

\* Variant: a value is always applied.
DiffersAlways(p) == TRUE

\* passwordFingerprintMatches: whether this is not the value applied last.
Differs(p) == disk.fingerprint # p

TakeEnv ==
  /\ proc.at = "env"
  /\ proc' = [proc EXCEPT !.at = IF given.env = NoPassword THEN "disk" ELSE "apply",
                          !.taken = given.env]
  /\ UNCHANGED <<given, disk, change, choice, bounds>>

\* A password handed over is saved unless it is the one applied last.  When the
\* save fails, the file's password keeps the process down and the environment's
\* is passed over.
Apply ==
  LET fromFile == given.way = "file"
      otherwise == IF fromFile THEN "env" ELSE "disk"
  IN  /\ proc.at = "apply"
      /\ IF Differs(proc.taken)
         THEN \/ /\ disk' = Saved(proc.taken, disk.hash, disk.history, FALSE)
                 /\ proc' = [proc EXCEPT !.at = "record", !.history = disk.history]
                 /\ UNCHANGED bounds
              \/ Fails /\ At(IF fromFile THEN "down" ELSE "disk") /\ UNCHANGED disk
         ELSE At(otherwise) /\ UNCHANGED <<disk, bounds>>
      /\ UNCHANGED <<given, change, choice>>

\* The fingerprint is written after the password; a write that fails is logged.
\* The password it replaced is remembered on disk, and not in memory.
Record ==
  /\ proc.at = "record"
  /\ \/ disk' = [disk EXCEPT !.fingerprint = proc.taken] /\ UNCHANGED bounds
     \/ Fails /\ UNCHANGED disk
  /\ Serve(proc.taken, proc.history, FALSE)
  /\ UNCHANGED <<given, change, choice>>

\* The password on disk; without one, that of the environment, in memory only, or
\* a generated one, whose hash is saved before its cleartext.
TakeDisk ==
  /\ proc.at = "disk"
  /\ CASE disk.hash # NoPassword ->
            Serve(disk.hash, disk.history, disk.must) /\ UNCHANGED <<disk, bounds>>
       [] disk.hash = NoPassword /\ given.env # NoPassword ->
            Serve(given.env, <<>>, FALSE) /\ UNCHANGED <<disk, bounds>>
       [] OTHER ->
            \/ /\ disk' = Saved(Generated, NoPassword, <<>>, TRUE)
               /\ At("cleartext") /\ UNCHANGED bounds
            \/ Fails /\ At("down") /\ UNCHANGED disk
  /\ UNCHANGED <<given, change, choice>>

WriteCleartext ==
  /\ proc.at = "cleartext"
  /\ \/ /\ disk' = [disk EXCEPT !.cleartext = TRUE]
        /\ Serve(Generated, <<>>, TRUE) /\ UNCHANGED bounds
     \/ Fails /\ At("down") /\ UNCHANGED disk
  /\ UNCHANGED <<given, change, choice>>

\* The process is killed, or ends; its sessions and handlers go with it.
Kill ==
  /\ proc.at # "down"
  /\ proc' = [proc EXCEPT !.at = "down", !.hash = NoPassword, !.history = <<>>, !.must = FALSE,
                          !.taken = NoPassword, !.sessions = {}]
  /\ change' = [a \in Admins |-> <<>>]
  /\ UNCHANGED <<given, disk, choice, bounds>>
-----------------------------------------------------------------------------
(* The console.                                                            *)

Up == proc.at = "up"

\* adminLogin: the password is compared with a copy; the session is added later.
LoginChecked(a) ==
  /\ Up /\ change[a] = <<>>
  /\ change' = [change EXCEPT ![a] = <<"login", proc.hash>>]
  /\ UNCHANGED <<given, disk, proc, choice, bounds>>

LoggedIn(a) ==
  /\ Up /\ change[a] # <<>> /\ Head(change[a]) = "login"
  /\ proc' = [proc EXCEPT !.sessions = @ \union {a}]
  /\ change' = [change EXCEPT ![a] = <<>>]
  /\ UNCHANGED <<given, disk, choice, bounds>>

Logout_(a) ==
  /\ Up /\ a \in proc.sessions
  /\ proc' = [proc EXCEPT !.sessions = @ \ {a}]
  /\ UNCHANGED <<given, disk, change, choice, bounds>>

\* adminChangePassword: the current password is right and the new one is none of
\* those remembered; the values are copied under the lock.
ChangeChecked(a, p) ==
  /\ Up /\ a \in proc.sessions /\ change[a] = <<>>
  /\ p # proc.hash /\ \A i \in DOMAIN proc.history : proc.history[i] # p
  /\ change' = [change EXCEPT ![a] = <<"save", p, proc.hash, proc.history>>]
  /\ UNCHANGED <<given, disk, proc, choice, bounds>>

\* The new password is saved, or the change is refused.  The choice is clear when
\* no other change is under way and nothing handed over waits to be applied.
ChangeSaved(a) ==
  LET c == change[a]
      alone == \A b \in Admins \ {a} : change[b] = <<>> \/ Head(change[b]) = "login"
      settled == ~given.flag /\ given.env \in {NoPassword, disk.fingerprint}
  IN  /\ Up /\ c # <<>> /\ Head(c) = "save"
      /\ \/ /\ disk' = [Saved(c[2], c[3], c[4], FALSE) EXCEPT !.cleartext = FALSE]
            /\ change' = [change EXCEPT ![a] = <<"set", c[2], c[3], c[4]>>]
            /\ choice' = IF alone /\ settled THEN c[2] ELSE NoPassword
            /\ UNCHANGED bounds
         \/ /\ Fails
            /\ change' = [change EXCEPT ![a] = <<>>]
            /\ UNCHANGED <<disk, choice>>
      /\ UNCHANGED <<given, proc>>

\* The new password is set in memory and every session ends.
ChangeSet(a) ==
  LET c == change[a]
  IN  /\ Up /\ c # <<>> /\ Head(c) = "set"
      /\ proc' = [proc EXCEPT !.hash = c[2], !.history = Remember(c[3], c[4]),
                              !.must = FALSE, !.sessions = {}]
      /\ change' = [change EXCEPT ![a] = <<>>]
      /\ UNCHANGED <<given, disk, choice, bounds>>
-----------------------------------------------------------------------------
AdminNext ==
  \/ \E p \in Passwords : HandOver(p) \/ \E a \in Admins : ChangeChecked(a, p)
  \/ Start \/ TakeFlag \/ DropFlag \/ TakeFile \/ TakeEnv \/ Apply \/ Record
  \/ TakeDisk \/ WriteCleartext \/ Kill
  \/ \E a \in Admins : \/ LoginChecked(a) \/ LoggedIn(a) \/ Logout_(a)
                       \/ ChangeSaved(a) \/ ChangeSet(a)

AdminSpec == AdminInit /\ [][AdminNext]_adminVars
-----------------------------------------------------------------------------
AdminTypeOK ==
  /\ given.env \in Known /\ given.file \in Known /\ given.flag \in BOOLEAN
  /\ disk.hash \in Known /\ disk.fingerprint \in Known
  /\ Len(disk.history) <= HistoryLength /\ Len(proc.history) <= HistoryLength
  /\ proc.hash \in Known /\ proc.sessions \subseteq Admins
  /\ proc.at = "up" => proc.hash # NoPassword

\* A password that an operator chose in the console, when the one handed over had
\* been recorded as applied, stays until another is handed over: neither a routine
\* restart nor a kill or a failed write between two steps brings back an older one
\* (admin_security.go:183-188).
ChoiceStays ==
  choice # NoPassword /\ Up /\ (\A a \in Admins : change[a] = <<>>) => proc.hash = choice
=============================================================================
