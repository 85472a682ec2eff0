---------------------------- MODULE PersistStore ----------------------------
(***************************************************************************)
(* src/internal/web/persist.go: how a store in memory reaches its file.    *)
(* Changes only mark the store dirty; a loop writes it every few seconds.  *)
(* Who must know that a change is saved flushes by itself and waits.  The  *)
(* dirty flag and the list of registered stores have locks of their own;   *)
(* writeMu is held from before the store is read until the file is written. *)
(*                                                                         *)
(* The store's flush function reads the memory in one critical section of  *)
(* the store and then replaces the file as a whole or not at all           *)
(* (atomicfile.go).  writeMu is taken here when the memory is read: nobody *)
(* else can tell the difference.                                           *)
(***************************************************************************)
EXTENDS Naturals

CONSTANTS
    Handler,    \* the goroutines that flush by themselves
    Loop,       \* the loop's goroutine
    MaxFail,    \* bound: writes that fail
    Nobody

ASSUME PersistAssumption ==
    /\ Loop \notin Handler
    /\ Nobody \notin Handler \cup {Loop}
    /\ MaxFail \in Nat

VARIABLES
    mem,         \* what the store holds
    disk,        \* what its file holds
    dirty,       \* p.dirty
    registered,  \* p.registered
    writer,      \* who holds p.writeMu
    flush,       \* where each goroutine is in a flush
    image,       \* what each goroutine that writes has read from the memory
    failed       \* history: how many writes failed

persistVars == <<mem, disk, dirty, registered, writer, flush, image, failed>>

Flusher == Handler \cup {Loop}

\* "due": the change is made, the flush not begun.
FlushPlace == {"none", "due", "queued", "writing", "failed"}

\* An empty store that has no file; Start is what it holds.
PersistInit(Start) ==
    /\ mem = Start /\ disk = Start
    /\ dirty = FALSE /\ registered = FALSE
    /\ writer = Nobody
    /\ flush = [g \in Flusher |-> "none"]
    /\ image = [g \in {} |-> Start]
    /\ failed = 0

\* The writer drops what it read.
Drop(g) == image' = [w \in DOMAIN image \ {g} |-> image[w]]

GoFlush(g, place) == flush' = [flush EXCEPT ![g] = place]

\* A mutant of MarkDirty: the loop is not told of the store.
MarkUnregistered == dirty' = TRUE /\ registered' = registered

\* markDirty, with ensurePersistLoop.
MarkDirty == dirty' = TRUE /\ registered' = TRUE

\* flushNowBlocking clears the flag before it reads the memory.
Queue(g) ==
    /\ dirty' = FALSE
    /\ GoFlush(g, "queued")

\* flushPending does so for a store that is dirty.
QueuePending(g) == dirty /\ Queue(g)

\* A mutant of Read: writeMu is released before the file is written.
ReadUnlocked(g) ==
    /\ flush[g] = "queued"
    /\ writer = Nobody
    /\ writer' = writer
    /\ image' = [w \in DOMAIN image \cup {g} |-> IF w = g THEN mem ELSE image[w]]
    /\ GoFlush(g, "writing")
    /\ UNCHANGED <<mem, disk, dirty, registered, failed>>

\* p.writeMu, and the first half of the store's flush.
Read(g) ==
    /\ flush[g] = "queued"
    /\ writer = Nobody
    /\ writer' = g
    /\ image' = [w \in DOMAIN image \cup {g} |-> IF w = g THEN mem ELSE image[w]]
    /\ GoFlush(g, "writing")
    /\ UNCHANGED <<mem, disk, dirty, registered, failed>>

\* writeFileAtomic renames the new file over the old one.
Written(g) ==
    /\ flush[g] = "writing"
    /\ disk' = image[g]
    /\ writer' = Nobody
    /\ Drop(g)
    /\ GoFlush(g, "none")
    /\ UNCHANGED <<mem, dirty, registered, failed>>

\* A mutant of NotWritten: the flag stays clear.
ForgetFailure(g, next) ==
    /\ flush[g] = "writing"
    /\ failed < MaxFail
    /\ failed' = failed + 1
    /\ dirty' = dirty
    /\ writer' = Nobody
    /\ Drop(g)
    /\ GoFlush(g, next)
    /\ UNCHANGED <<mem, disk, registered>>

\* The write fails: the store is dirty again.
NotWritten(g, next) ==
    /\ flush[g] = "writing"
    /\ failed < MaxFail
    /\ failed' = failed + 1
    /\ dirty' = TRUE
    /\ writer' = Nobody
    /\ Drop(g)
    /\ GoFlush(g, next)
    /\ UNCHANGED <<mem, disk, registered>>

PersistTypeOK(Content) ==
    /\ mem \in Content /\ disk \in Content
    /\ dirty \in BOOLEAN /\ registered \in BOOLEAN
    /\ writer \in Flusher \cup {Nobody}
    /\ flush \in [Flusher -> FlushPlace]
    /\ DOMAIN image \subseteq Flusher
    /\ \A g \in DOMAIN image : image[g] \in Content
    /\ failed \in 0 .. MaxFail
=============================================================================
