------------------------------- MODULE Daemon -------------------------------
(***************************************************************************)
(* The gateway process of src/cmd/kms/main.go in network mode, around its  *)
(* state directory: it opens the directory, may seed it with synthetic     *)
(* keys, serves its peers while the relay worker runs, and stops on a      *)
(* signal, which waits for the requests in progress for five seconds at    *)
(* most.  Several processes are started on one directory, by a supervisor  *)
(* or by mistake, and any of them may be killed.                           *)
(*                                                                         *)
(* A save replaces the whole directory by what the process holds in        *)
(* memory; that it is all or nothing is what Journal shows.  What a        *)
(* request or a worker's step changes is abstract: one element of a set.   *)
(***************************************************************************)
EXTENDS Naturals, FiniteSets

CONSTANTS
    Process,     \* gateway processes that may be started on the directory
    Request,     \* requests of peers; each puts a record of its own into the state
    Work,        \* steps of the worker; each changes the state and then tells a peer
    Count        \* the largest --synthetic-keys

ASSUME DaemonAssumption == Count \in Nat /\ Request \cap Work = {}

VARIABLES
    disk,        \* the state the directory holds
    holder,      \* the processes holding the directory's lock
    proc,        \* proc[p]: the process, see ProcessState
    at,          \* at[p][c]: how far change c has come in p
    acted        \* history: the changes a peer was told of: answered, or transmitted

vars == <<disk, holder, proc, at, acted>>

Change == Request \cup Work
State == [seeds : Nat, done : SUBSET Change]

Records(s) == s.seeds + Cardinality(s.done \cap Request)

Stage == {"down", "opened", "seeding", "serving", "shutting down", "awaiting worker",
          "closing", "exiting"}

ProcessState ==
    [stage    : Stage,
     mem      : State,
     broken   : BOOLEAN,          \* saving has failed, or the engine is closed
     count    : 0..Count,         \* --synthetic-keys
     left     : 0..Count,         \* keys still to be seeded
     open     : BOOLEAN,          \* peers may send requests: there is a listener, or connections
     worker   : {"none", "idle", "stepping"}]

NewState == [seeds |-> 0, done |-> {}]

Down == [stage |-> "down", mem |-> NewState, broken |-> FALSE, count |-> 0, left |-> 0,
         open |-> FALSE, worker |-> "none"]

Init ==
    /\ disk = NewState
    /\ holder = {}
    /\ proc = [p \in Process |-> Down]
    /\ at = [p \in Process |-> [c \in Change |-> "none"]]
    /\ acted = {}

At(p, stage) == proc[p].stage = stage
GoesTo(p, stage) == proc' = [proc EXCEPT ![p].stage = stage]
Reaches(p, c, point) == at' = [at EXCEPT ![p][c] = point]

(* change: the state s is saved and becomes the state in memory, or the    *)
(* save fails, no one knows when, and the engine is broken.                *)
Saves(p, s, then) ==
    /\ disk' = s
    /\ proc' = [proc EXCEPT ![p] = [then EXCEPT !.mem = s]]

SaveFails(p, s, then) ==
    /\ disk' \in {disk, s}
    /\ proc' = [proc EXCEPT ![p] = [then EXCEPT !.broken = TRUE]]

-----------------------------------------------------------------------------
(* Start.                                                                  *)

(* relay.Open; a second process is refused at the lock and exits. *)
Start(p, n) ==
    /\ At(p, "down")
    /\ holder = {}
    /\ holder' = {p}
    /\ proc' = [proc EXCEPT ![p] =
                   [Down EXCEPT !.stage = "opened", !.mem = disk, !.count = n, !.left = n]]
    /\ UNCHANGED <<disk, at, acted>>

(* Plausible bug: only keys that were seeded count as a populated journal. *)
CheckFreshBySeeds(p) ==
    /\ At(p, "opened")
    /\ GoesTo(p, IF proc[p].count > 0 /\ proc[p].mem.seeds = proc[p].count THEN "closing" ELSE "seeding")
    /\ UNCHANGED <<disk, holder, at, acted>>

(* "synthetic provisioning requires a fresh network state directory" *)
CheckFresh(p) ==
    /\ At(p, "opened")
    /\ GoesTo(p, IF proc[p].count > 0 /\ Records(proc[p].mem) > 0 THEN "closing" ELSE "seeding")
    /\ UNCHANGED <<disk, holder, at, acted>>

(* synthetic.Seed stores one key after the other. *)
Seed(p) ==
    LET s == [proc[p].mem EXCEPT !.seeds = @ + 1] IN
    /\ At(p, "seeding")
    /\ proc[p].left > 0
    /\ \/ Saves(p, s, [proc[p] EXCEPT !.left = @ - 1])
       \/ SaveFails(p, s, [proc[p] EXCEPT !.stage = "closing"])
    /\ UNCHANGED <<holder, at, acted>>

Listen(p) ==
    /\ At(p, "seeding")
    /\ proc[p].left = 0
    /\ proc' = [proc EXCEPT ![p].stage = "serving", ![p].open = TRUE,
                                ![p].worker = "idle"]
    /\ UNCHANGED <<disk, holder, at, acted>>

(* The certificate or the listener is not to be had. *)
ListenFails(p) ==
    /\ At(p, "seeding")
    /\ proc[p].left = 0
    /\ GoesTo(p, "closing")
    /\ UNCHANGED <<disk, holder, at, acted>>

-----------------------------------------------------------------------------
(* Service.                                                                *)

Arrive(p, c) ==
    /\ c \in Request
    /\ proc[p].open
    /\ at[p][c] = "none"
    /\ Reaches(p, c, "begun")
    /\ UNCHANGED <<disk, holder, proc, acted>>

StepBegins(p, c) ==
    /\ c \in Work
    /\ proc[p].worker = "idle"
    /\ Records(proc[p].mem) > 0
    /\ Reaches(p, c, "begun")
    /\ proc' = [proc EXCEPT ![p].worker = "stepping"]
    /\ UNCHANGED <<disk, holder, acted>>

Commit(p, c) ==
    LET s == [proc[p].mem EXCEPT !.done = @ \cup {c}] IN
    /\ at[p][c] = "begun"
    /\ \/ /\ proc[p].broken
          /\ Reaches(p, c, "refused")
          /\ UNCHANGED <<disk, proc>>
       \/ /\ ~proc[p].broken
          /\ \/ Saves(p, s, proc[p]) /\ Reaches(p, c, "committed")
             \/ SaveFails(p, s, proc[p]) /\ Reaches(p, c, "refused")
    /\ UNCHANGED <<holder, acted>>

(* A request is answered, or the worker transmits what it committed. *)
Finish(p, c) ==
    /\ at[p][c] \in {"committed", "refused"}
    /\ acted' = IF at[p][c] = "committed" THEN acted \cup {c} ELSE acted
    /\ Reaches(p, c, "none")
    /\ IF c \in Work THEN proc' = [proc EXCEPT ![p].worker = "idle"] ELSE UNCHANGED proc
    /\ UNCHANGED <<disk, holder>>

-----------------------------------------------------------------------------
(* Stop.                                                                   *)

(* Shutdown takes no further requests, also on open connections. *)
Signal(p) ==
    /\ At(p, "serving")
    /\ proc' = [proc EXCEPT ![p].stage = "shutting down", ![p].open = FALSE]
    /\ UNCHANGED <<disk, holder, at, acted>>

(* All requests are answered, or the five seconds are over. *)
ShutdownReturns(p) ==
    /\ At(p, "shutting down")
    /\ GoesTo(p, "awaiting worker")
    /\ UNCHANGED <<disk, holder, at, acted>>

(* The listener fails: main does not call Shutdown, and connections that   *)
(* are open stay so.                                                       *)
ServeFails(p) ==
    /\ At(p, "serving")
    /\ GoesTo(p, "awaiting worker")
    /\ UNCHANGED <<disk, holder, at, acted>>

(* Plausible bug: only the signal cancels the context of the worker. *)
CancelledBySignal(p) == proc[p].stage \in {"shutting down", "awaiting worker"} /\ ~proc[p].open

Cancelled(p) == proc[p].stage \in {"shutting down", "awaiting worker"}

(* Run returns, and "finished" is closed. *)
WorkerStops(p) ==
    /\ Cancelled(p)
    /\ proc[p].worker = "idle"
    /\ proc' = [proc EXCEPT ![p].worker = "none"]
    /\ UNCHANGED <<disk, holder, at, acted>>

Await(p) ==
    /\ At(p, "awaiting worker")
    /\ proc[p].worker = "none"
    /\ GoesTo(p, "closing")
    /\ UNCHANGED <<disk, holder, at, acted>>

(* Plausible bug: Close only gives the directory back. *)
CloseUnmarked(p) ==
    /\ At(p, "closing")
    /\ GoesTo(p, "exiting")
    /\ holder' = holder \ {p}
    /\ UNCHANGED <<disk, at, acted>>

(* Engine.Close: requests may still be running, but none saves after it. *)
Close(p) ==
    /\ At(p, "closing")
    /\ proc' = [proc EXCEPT ![p].stage = "exiting", ![p].broken = TRUE]
    /\ holder' = holder \ {p}
    /\ UNCHANGED <<disk, at, acted>>

Gone(p) ==
    /\ proc' = [proc EXCEPT ![p] = Down]
    /\ at' = [at EXCEPT ![p] = [c \in Change |-> "none"]]
    /\ holder' = holder \ {p}
    /\ UNCHANGED <<disk, acted>>

Exit(p) == At(p, "exiting") /\ Gone(p)

(* Killed, or the host fails. *)
Crash(p) == ~At(p, "down") /\ Gone(p)

Stopping(p) ==
    \/ ShutdownReturns(p) \/ WorkerStops(p) \/ Await(p) \/ Close(p) \/ Exit(p)

Running(p) ==
    \/ \E n \in 0..Count : Start(p, n)
    \/ CheckFresh(p) \/ Seed(p) \/ Listen(p) \/ ListenFails(p)
    \/ \E c \in Change : Arrive(p, c) \/ StepBegins(p, c) \/ Commit(p, c) \/ Finish(p, c)
    \/ Signal(p) \/ ServeFails(p) \/ Crash(p)

Next == \E p \in Process : Running(p) \/ Stopping(p)

Spec == Init /\ [][Next]_vars

(* The steps of stopping are main's own and the worker's.  Nothing is      *)
(* assumed of the handlers: a request may hang.  When both the ticker and  *)
(* the cancelled context are ready, Run's select picks either at random,   *)
(* and in the end the context: hence strong fairness.                      *)
Fairness ==
    \A p \in Process :
        /\ WF_vars(ShutdownReturns(p)) /\ WF_vars(Await(p)) /\ WF_vars(Close(p)) /\ WF_vars(Exit(p))
        /\ SF_vars(WorkerStops(p))
        /\ \A c \in Work : WF_vars(Commit(p, c)) /\ WF_vars(Finish(p, c))

LiveSpec == Spec /\ Fairness

-----------------------------------------------------------------------------
(* Properties.                                                             *)

(* Every variable stays in its type. *)
TypeOK ==
    /\ disk \in State
    /\ holder \subseteq Process
    /\ proc \in [Process -> ProcessState]
    /\ at \in [Process -> [Change -> {"none", "begun", "committed", "refused"}]]
    /\ acted \subseteq Change

(* Whatever a peer was told of is in the directory and stays there: neither *)
(* a request that outlives Shutdown and the closing of the engine, nor a   *)
(* process started too early, overwrites it with an older state.           *)
ActedStays == acted \subseteq disk.done

(* A directory is seeded by one process, before anything else is in it: a  *)
(* restart after an interrupted seeding adds no keys, and no key is seeded *)
(* beside what peers have stored.                                          *)
OnlyFreshIsSeeded ==
    [][disk'.seeds # disk.seeds =>
        /\ disk.done = {}
        /\ \E p \in holder : At(p, "seeding") /\ disk.seeds = proc[p].count - proc[p].left]_vars

(* A process that is told to stop, or has failed, exits, although requests *)
(* hang and whatever its worker was doing.                                 *)
Leaving(p) == proc[p].stage \in {"shutting down", "awaiting worker", "closing", "exiting"}

StopsWhenAsked == \A p \in Process : Leaving(p) ~> At(p, "down")
=============================================================================
