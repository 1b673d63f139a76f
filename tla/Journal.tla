------------------------------ MODULE Journal ------------------------------
(***************************************************************************)
(* The durable snapshot of src/internal/durable/journal.go and the way its *)
(* two owners, the relay engine and the ingest repository, use it: take    *)
(* the lock, find or make the wrapping key, load the snapshot, save it     *)
(* again, and from then on act on a change only after it was saved.        *)
(*                                                                         *)
(* A directory entry is replaced by rename and made permanent by syncing   *)
(* the directory.  Between the two, other processes see the new entry but  *)
(* a power loss may bring back an older one.  Processes stop at any point. *)
(* Snapshots are numbered from 1, the empty state, in the order they are   *)
(* made; a file's own bytes are synced before the rename and are therefore *)
(* whole.                                                                  *)
(***************************************************************************)
EXTENDS Naturals, FiniteSets

CONSTANTS
    Process,       \* processes that may try to use the directory
    MaxVersion,    \* bound: snapshots ever made
    MaxKeys        \* bound: wrapping keys ever made

ASSUME JournalAssumption == MaxVersion \in Nat \ {0} /\ MaxKeys \in Nat

VARIABLES
    disk,      \* the directory as processes see it
    after,     \* after[name]: the contents a power loss may leave under that name
    proc,      \* proc[p]: the process, see ProcessState
    keys,      \* wrapping keys made so far; each is different
    acted      \* history: the latest snapshot some process acted on, 0 if none

vars == <<disk, after, proc, keys, acted>>

NoFile == [key |-> 0, ver |-> 0]               \* the name does not exist
Snapshot == [key : 1..MaxKeys, ver : 1..MaxVersion]

Directory == [wrapping : 0..MaxKeys,           \* 0: there is no wrapping.key
              state    : Snapshot \cup {NoFile}]

Stage == {"down", "locked", "key renamed", "loading", "opened", "renamed", "serving", "broken"}

ProcessState ==
    [stage : Stage,
     key   : 0..MaxKeys,        \* the wrapping key in use
     ver   : 0..MaxVersion,     \* the snapshot in memory or being written
     fresh : BOOLEAN]           \* the key was made by this very Open

Down == [stage |-> "down", key |-> 0, ver |-> 0, fresh |-> FALSE]

Init ==
    /\ disk = [wrapping |-> 0, state |-> NoFile]
    /\ after = [wrapping |-> {0}, state |-> {NoFile}]
    /\ proc = [p \in Process |-> Down]
    /\ keys = 0
    /\ acted = 0

At(p, stage) == proc[p].stage = stage
Becomes(p, r) == proc' = [proc EXCEPT ![p] = r]
GoesTo(p, stage) == proc' = [proc EXCEPT ![p].stage = stage]

(* Syncing the directory makes every entry in it permanent. *)
DirectorySynced == after' = [wrapping |-> {disk.wrapping}, state |-> {disk.state}]

-----------------------------------------------------------------------------
(* Open.                                                                   *)

(* Plausible bug: the lock is shared. *)
LockShared(p) ==
    /\ At(p, "down")
    /\ GoesTo(p, "locked")
    /\ UNCHANGED <<disk, after, keys, acted>>

(* flock, exclusive and without waiting; a stopped process holds nothing. *)
Lock(p) ==
    /\ \A q \in Process : At(q, "down")
    /\ GoesTo(p, "locked")
    /\ UNCHANGED <<disk, after, keys, acted>>

ReadKey(p) ==
    /\ At(p, "locked")
    /\ disk.wrapping # 0
    /\ Becomes(p, [proc[p] EXCEPT !.stage = "loading", !.key = disk.wrapping])
    /\ UNCHANGED <<disk, after, keys, acted>>

(* A key is made only where there is no snapshot either. *)
MakeKey(p) ==
    /\ At(p, "locked")
    /\ disk.wrapping = 0 /\ disk.state = NoFile
    /\ keys < MaxKeys
    /\ keys' = keys + 1
    /\ disk' = [disk EXCEPT !.wrapping = keys + 1]
    /\ after' = [after EXCEPT !.wrapping = @ \cup {keys + 1}]
    /\ Becomes(p, [proc[p] EXCEPT !.stage = "key renamed", !.key = keys + 1, !.fresh = TRUE])
    /\ UNCHANGED acted

(* Plausible bug: the new key is not made permanent before it is used. *)
SyncKeyUnsynced(p) ==
    /\ At(p, "key renamed")
    /\ GoesTo(p, "loading")
    /\ UNCHANGED <<disk, after, keys, acted>>

SyncKey(p) ==
    /\ At(p, "key renamed")
    /\ DirectorySynced
    /\ GoesTo(p, "loading")
    /\ UNCHANGED <<disk, keys, acted>>

(* Plausible bug: a snapshot that was found is acted on without saving it again. *)
LoadTrusting(p) ==
    /\ At(p, "loading")
    /\ IF disk.state = NoFile THEN proc[p].fresh ELSE disk.state.key = proc[p].key
    /\ Becomes(p, [proc[p] EXCEPT !.stage = IF disk.state = NoFile THEN "opened" ELSE "serving",
                                  !.ver = IF disk.state = NoFile THEN 1 ELSE disk.state.ver])
    /\ acted' = IF disk.state.ver > acted THEN disk.state.ver ELSE acted
    /\ UNCHANGED <<disk, after, keys>>

Load(p) ==
    /\ At(p, "loading")
    /\ IF disk.state = NoFile THEN proc[p].fresh ELSE disk.state.key = proc[p].key
    /\ Becomes(p, [proc[p] EXCEPT !.stage = "opened",
                                  !.ver = IF disk.state = NoFile THEN 1 ELSE disk.state.ver])
    /\ UNCHANGED <<disk, after, keys, acted>>

(* A snapshot without its key, a key without its snapshot, or a snapshot   *)
(* that does not decrypt: Open gives up and leaves everything as it is.    *)
OpenFails(p) ==
    /\ \/ At(p, "locked") /\ disk.wrapping = 0 /\ disk.state # NoFile
       \/ At(p, "loading") /\ IF disk.state = NoFile THEN ~proc[p].fresh
                              ELSE disk.state.key # proc[p].key
    /\ Becomes(p, Down)
    /\ UNCHANGED <<disk, after, keys, acted>>

-----------------------------------------------------------------------------
(* Save: the owner saves the snapshot it loaded before it acts on it, and  *)
(* then every change of it.                                                *)

Write(p, v) ==
    /\ \/ At(p, "opened") /\ v = proc[p].ver
       \/ At(p, "serving") /\ v = proc[p].ver + 1 /\ v <= MaxVersion
    /\ disk' = [disk EXCEPT !.state = [key |-> proc[p].key, ver |-> v]]
    /\ after' = [after EXCEPT !.state = @ \cup {[key |-> proc[p].key, ver |-> v]}]
    /\ Becomes(p, [proc[p] EXCEPT !.stage = "renamed", !.ver = v])
    /\ UNCHANGED <<keys, acted>>

(* Plausible bug: the directory is not synced after the rename. *)
SyncUnsynced(p) ==
    /\ At(p, "renamed")
    /\ GoesTo(p, "serving")
    /\ acted' = IF proc[p].ver > acted THEN proc[p].ver ELSE acted
    /\ UNCHANGED <<disk, after, keys>>

Sync(p) ==
    /\ At(p, "renamed")
    /\ DirectorySynced
    /\ GoesTo(p, "serving")
    /\ acted' = IF proc[p].ver > acted THEN proc[p].ver ELSE acted
    /\ UNCHANGED <<disk, keys>>

(* A step of atomicWrite fails: the process serves nothing any more but    *)
(* still holds the lock.  During Open it closes the journal, as if stopped. *)
WriteFails(p) ==
    /\ proc[p].stage \in {"renamed", "serving"}
    /\ GoesTo(p, "broken")
    /\ UNCHANGED <<disk, after, keys, acted>>

(* Close, exit or crash: the kernel drops the lock. *)
Stop(p) ==
    /\ ~At(p, "down")
    /\ Becomes(p, Down)
    /\ UNCHANGED <<disk, after, keys, acted>>

PowerLoss ==
    /\ \E w \in after.wrapping, s \in after.state :
        /\ disk' = [wrapping |-> w, state |-> s]
        /\ after' = [wrapping |-> {w}, state |-> {s}]
    /\ proc' = [p \in Process |-> Down]
    /\ UNCHANGED <<keys, acted>>

Next ==
    \/ \E p \in Process :
        \/ Lock(p) \/ ReadKey(p) \/ MakeKey(p) \/ SyncKey(p) \/ Load(p) \/ OpenFails(p)
        \/ \E v \in 0..MaxVersion : Write(p, v)
        \/ Sync(p) \/ WriteFails(p) \/ Stop(p)
    \/ PowerLoss

Spec == Init /\ [][Next]_vars

-----------------------------------------------------------------------------
(* Properties.                                                             *)

(* Every variable stays in its type, and one process at most is past the   *)
(* lock.                                                                   *)
TypeOK ==
    /\ disk \in Directory
    /\ after \in [wrapping : SUBSET (0..MaxKeys), state : SUBSET (Snapshot \cup {NoFile})]
    /\ proc \in [Process -> ProcessState]
    /\ keys \in 0..MaxKeys
    /\ acted \in 0..MaxVersion
    /\ \A p, q \in Process : ~At(p, "down") /\ ~At(q, "down") => p = q

(* Nothing a process acted on is ever lost: whatever a power loss leaves   *)
(* is that snapshot or a later one, the one just being written.            *)
ActedSurvives ==
    acted > 0 =>
        \A s \in after.state : s # NoFile /\ s.ver \in {acted, acted + 1}

(* A snapshot never outlives the key that opens it, and where a key exists *)
(* without a snapshot, so that Open fails for ever, no snapshot was ever   *)
(* acted on.                                                               *)
Readable ==
    \A w \in after.wrapping, s \in after.state :
        /\ s # NoFile => s.key = w
        /\ w # 0 /\ s = NoFile => acted = 0

(* A process resumes from the last snapshot acted on or from the one being *)
(* written when its predecessor ended; it never starts over or goes back,  *)
(* although it may load an entry that is not permanent yet.                *)
NoRollback ==
    [][\A p \in Process :
        proc'[p].stage = "serving" /\ ~At(p, "serving") => proc'[p].ver \in {acted, acted + 1}]_vars

(* Its owners may take a save for one indivisible step, as the other       *)
(* modules do, although a process, its successor and a power loss may each *)
(* see a different entry: the journal implements AtomicSave.               *)
Server == {<<p, proc[p].ver>> : p \in {q \in Process : At(q, "serving")}}
Tried == IF \E s \in after.state : s.ver > acted THEN acted + 1 ELSE acted

Saves == INSTANCE AtomicSave WITH server <- Server, kept <- acted, tried <- Tried

SavesAtomically == Saves!Spec
=============================================================================
