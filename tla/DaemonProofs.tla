---------------------------- MODULE DaemonProofs ----------------------------
(***************************************************************************)
(* Theorems about Daemon, for any number of processes, requests and        *)
(* synthetic keys: what a peer was told of stays in the directory, and     *)
(* only a fresh directory is seeded.                                       *)
(***************************************************************************)
EXTENDS Daemon, FiniteSetTheorems, TLAPS

Point == {"none", "begun", "committed", "refused"}

(* A process owns the directory from the lock to Close; it is poisoned     *)
(* before it lets go, and is gone without a trace once it is down.         *)
Owner(p) == proc[p].stage \notin {"down", "exiting"}

Ownership ==
    /\ \A p \in Process : p \in holder <=> Owner(p)
    /\ \A p, q \in holder : p = q
    /\ \A p \in Process : At(p, "exiting") => proc[p].broken
    /\ \A p \in Process : At(p, "down") => proc[p] = Down /\ \A c \in Change : at[p][c] = "none"

(* What a healthy owner has in memory is what the directory holds.         *)
Current ==
    \A p \in Process : Owner(p) /\ ~proc[p].broken => proc[p].mem = disk

Saved ==
    /\ acted \subseteq disk.done
    /\ \A p \in Process, c \in Change : at[p][c] = "committed" => c \in disk.done

Inv == TypeOK /\ Ownership /\ Current /\ Saved

-----------------------------------------------------------------------------
(* The invariant.                                                          *)

LEMMA InitInv == Init => Inv
BY DaemonAssumption DEF Init, Inv, TypeOK, Ownership, Owner, At, Current, Saved, Down, NewState, State,
   ProcessState, Stage

(* A step of p that saves nothing. *)
LEMMA Unsaved ==
    ASSUME Inv, NEW p \in Process, NEW r \in ProcessState, NEW f \in [Change -> Point],
           proc' = [proc EXCEPT ![p] = r], at' = [at EXCEPT ![p] = f],
           disk' = disk, acted' \in SUBSET Change, acted' \subseteq disk.done,
           holder' = IF r.stage \in {"down", "exiting"} THEN holder \ {p} ELSE holder,
           Owner(p) \/ r.stage \in {"down", "exiting"},
           r.stage \notin {"down", "exiting"} /\ ~r.broken =>
               ~proc[p].broken /\ r.mem = proc[p].mem,
           r.stage = "exiting" => r.broken,
           r.stage = "down" => r = Down /\ \A c \in Change : f[c] = "none",
           \A c \in Change : f[c] = "committed" => at[p][c] = "committed"
    PROVE  Inv'
<1>1. TypeOK'
  BY DEF Inv, TypeOK, Point
<1>2. Ownership'
  BY DEF Inv, TypeOK, Ownership, Owner, At
<1>3. Current'
  BY DEF Inv, TypeOK, Ownership, Current, Owner
<1>4. Saved'
  BY DEF Inv, TypeOK, Saved
<1> QED BY <1>1, <1>2, <1>3, <1>4 DEF Inv

(* A step of the healthy owner p that saves s, or fails to. *)
LEMMA SavingStep ==
    ASSUME Inv, NEW p \in Process, NEW s \in State, NEW r \in ProcessState, NEW f \in [Change -> Point],
           Owner(p), ~proc[p].broken, disk.done \subseteq s.done,
           r.stage \notin {"down", "exiting"},
           at' = [at EXCEPT ![p] = f], holder' = holder, acted' = acted,
           \A c \in Change : f[c] = "committed" => at[p][c] = "committed" \/ (~r.broken /\ c \in s.done),
           Saves(p, s, r) \/ (SaveFails(p, s, r) /\ \A c \in Change : f[c] = "committed" => at[p][c] = "committed")
    PROVE  Inv'
<1> DEFINE q == proc'[p]
<1>1. /\ proc' = [proc EXCEPT ![p] = q]
      /\ q \in ProcessState /\ q.stage = r.stage
      /\ disk' \in {disk, s}
      /\ ~q.broken => disk' = s /\ q.mem = s
  <2>1. proc \in [Process -> ProcessState]
    BY DEF Inv, TypeOK
  <2>2. CASE Saves(p, s, r)
    <3>1. proc' = [proc EXCEPT ![p] = [r EXCEPT !.mem = s]] /\ disk' = s
      BY <2>2 DEF Saves
    <3>2. /\ [r EXCEPT !.mem = s] \in ProcessState
          /\ [r EXCEPT !.mem = s].stage = r.stage /\ [r EXCEPT !.mem = s].mem = s
      BY DEF ProcessState
    <3> QED BY <2>1, <3>1, <3>2
  <2>3. CASE SaveFails(p, s, r)
    <3>1. proc' = [proc EXCEPT ![p] = [r EXCEPT !.broken = TRUE]] /\ disk' \in {disk, s}
      BY <2>3 DEF SaveFails
    <3>2. /\ [r EXCEPT !.broken = TRUE] \in ProcessState
          /\ [r EXCEPT !.broken = TRUE].stage = r.stage /\ [r EXCEPT !.broken = TRUE].broken
      BY DEF ProcessState
    <3> QED BY <2>1, <3>1, <3>2
  <2> QED BY <2>2, <2>3
<1>2. disk' \in State /\ disk.done \subseteq disk'.done
  BY <1>1 DEF Inv, TypeOK, State
<1>3. \A c \in Change : f[c] = "committed" => c \in disk'.done
  BY <1>2 DEF Inv, Saved, Saves
<1> HIDE DEF q
<1>4. TypeOK'
  BY <1>1, <1>2 DEF Inv, TypeOK, Point
<1>5. Ownership'
  BY <1>1 DEF Inv, TypeOK, Ownership, Owner, At
<1>6. Current'
  BY <1>1 DEF Inv, TypeOK, Ownership, Current, Owner
<1>7. Saved'
  BY <1>2, <1>3 DEF Inv, TypeOK, Saved
<1> QED BY <1>4, <1>5, <1>6, <1>7 DEF Inv

(* The whole step of one process. *)
LEMMA StartInv == ASSUME Inv, NEW p \in Process, NEW n \in 0..Count, Start(p, n) PROVE Inv'
<1> DEFINE r == [Down EXCEPT !.stage = "opened", !.mem = disk, !.count = n, !.left = n]
<1>1. r \in ProcessState /\ r.stage = "opened" /\ r.mem = disk
  BY DaemonAssumption DEF Down, NewState, ProcessState, Stage, Inv, TypeOK
<1>2. /\ proc' = [proc EXCEPT ![p] = r] /\ holder = {} /\ holder' = {p}
      /\ disk' = disk /\ at' = at /\ acted' = acted
  BY DEF Start
<1> HIDE DEF r
<1>3. TypeOK'
  BY <1>1, <1>2 DEF Inv, TypeOK
<1>4. Ownership'
  BY <1>1, <1>2 DEF Inv, TypeOK, Ownership, Owner, At
<1>5. Current'
  BY <1>1, <1>2 DEF Inv, TypeOK, Ownership, Current, Owner
<1>6. Saved'
  BY <1>2 DEF Inv, Saved
<1> QED BY <1>3, <1>4, <1>5, <1>6 DEF Inv

LEMMA SeedInv == ASSUME Inv, NEW p \in Process, Seed(p), ~proc[p].broken PROVE Inv'
<1> DEFINE s == [proc[p].mem EXCEPT !.seeds = @ + 1]
<1>1. proc[p] \in ProcessState /\ at[p] \in [Change -> Point] /\ Owner(p)
  BY DEF Inv, TypeOK, Point, Seed, Owner, At
<1>2. proc[p].mem = disk /\ s \in State /\ s.done = disk.done
  BY <1>1 DEF Inv, Current, ProcessState, State
<1>3. at' = [at EXCEPT ![p] = at[p]] /\ holder' = holder /\ acted' = acted
  BY DEF Seed, Inv, TypeOK
<1>4. \A c \in Change : at[p][c] = "committed" => c \in s.done
  BY <1>2 DEF Inv, Saved
<1>5. CASE Saves(p, s, [proc[p] EXCEPT !.left = @ - 1])
  <2> DEFINE r == [proc[p] EXCEPT !.left = @ - 1]
  <2>1. r \in ProcessState /\ r.stage = proc[p].stage
    BY <1>1, DaemonAssumption DEF ProcessState, Seed
  <2> HIDE DEF r, s
  <2>2. Saves(p, s, r)
    BY <1>5 DEF r
  <2> QED BY <1>1, <1>2, <1>3, <1>4, <2>1, <2>2, SavingStep DEF Owner
<1>6. CASE SaveFails(p, s, [proc[p] EXCEPT !.stage = "closing"])
  <2> DEFINE r == [proc[p] EXCEPT !.stage = "closing"]
  <2>1. r \in ProcessState /\ r.stage = "closing"
    BY <1>1 DEF ProcessState, Stage
  <2> HIDE DEF r, s
  <2>2. SaveFails(p, s, r)
    BY <1>6 DEF r
  <2> QED BY <1>1, <1>2, <1>3, <1>4, <2>1, <2>2, SavingStep
<1> QED BY <1>5, <1>6 DEF Seed

LEMMA CommitInv == ASSUME Inv, NEW p \in Process, NEW c \in Change, Commit(p, c) PROVE Inv'
<1> DEFINE s == [proc[p].mem EXCEPT !.done = @ \cup {c}]
           f == at'[p]
<1>1. proc[p] \in ProcessState /\ at[p] \in [Change -> Point] /\ at[p][c] = "begun"
  BY DEF Inv, TypeOK, Point, Commit
<1>2. holder' = holder /\ acted' = acted
  BY DEF Commit
<1>3. ~At(p, "down")
  BY <1>1 DEF Inv, Ownership
<1>4. CASE proc[p].broken /\ Reaches(p, c, "refused") /\ UNCHANGED <<disk, proc>>
  <2>1. TypeOK'
    BY <1>1, <1>2, <1>4 DEF Inv, TypeOK, Reaches, Point
  <2>2. Ownership'
    BY <1>1, <1>2, <1>3, <1>4 DEF Inv, TypeOK, Ownership, Owner, At, Reaches
  <2>3. Current'
    BY <1>4 DEF Inv, Current, Owner
  <2>4. Saved'
    BY <1>2, <1>4 DEF Inv, TypeOK, Saved, Reaches
  <2> QED BY <2>1, <2>2, <2>3, <2>4 DEF Inv
<1>5. ASSUME ~proc[p].broken, NEW x \in {"committed", "refused"}, Reaches(p, c, x),
             \/ Saves(p, s, proc[p]) /\ x = "committed"
             \/ SaveFails(p, s, proc[p]) /\ x = "refused"
      PROVE  Inv'
  <2>1. Owner(p)
    BY <1>3, <1>5 DEF Inv, Ownership, Owner, At
  <2>2. proc[p].mem = disk /\ s \in State /\ s.done = disk.done \cup {c}
    BY <1>1, <1>5, <2>1 DEF Inv, Current, ProcessState, State
  <2>3. at' = [at EXCEPT ![p] = f] /\ f = [at[p] EXCEPT ![c] = x] /\ f \in [Change -> Point]
    BY <1>1, <1>5 DEF Inv, TypeOK, Reaches, Point
  <2>4. \A d \in Change : f[d] = "committed" => at[p][d] = "committed" \/ (d = c /\ x = "committed")
    BY <1>1, <2>3
  <2> HIDE DEF s, f
  <2>5. proc[p].stage \notin {"down", "exiting"}
    BY <2>1 DEF Owner
  <2>6. disk.done \subseteq s.done /\ c \in s.done
    BY <2>2
  <2> QED BY <1>1, <1>2, <1>5, <2>1, <2>2, <2>3, <2>4, <2>5, <2>6, SavingStep
<1> QED BY <1>4, <1>5 DEF Commit

(* The steps that change neither the directory nor the owner's view of it. *)
LEMMA QuietInv ==
    ASSUME Inv, NEW p \in Process,
           \/ CheckFresh(p) \/ Listen(p) \/ ListenFails(p) \/ Signal(p) \/ ServeFails(p)
           \/ ShutdownReturns(p) \/ WorkerStops(p) \/ Await(p) \/ Close(p)
           \/ \E c \in Change : Arrive(p, c) \/ StepBegins(p, c) \/ Finish(p, c)
           \/ Gone(p) /\ ~At(p, "down")
    PROVE  Inv'
<1> USE DEF At
<1>1. /\ proc[p] \in ProcessState /\ at[p] \in [Change -> Point]
      /\ proc \in [Process -> ProcessState] /\ at \in [Process -> [Change -> Point]]
      /\ acted \in SUBSET Change /\ acted \subseteq disk.done
  BY DEF Inv, TypeOK, Saved, Point
<1>2. ASSUME NEW x \in {"seeding", "closing", "awaiting worker"}, GoesTo(p, x), Owner(p),
             UNCHANGED <<disk, holder, at, acted>>
      PROVE  Inv'
  <2> DEFINE r == [proc[p] EXCEPT !.stage = x]
  <2>1. /\ r \in ProcessState /\ r.stage = x /\ r.mem = proc[p].mem /\ r.broken = proc[p].broken
        /\ proc' = [proc EXCEPT ![p] = r]
    BY <1>1, <1>2 DEF ProcessState, Stage, GoesTo
  <2> HIDE DEF r
  <2> QED BY <1>1, <1>2, <2>1, Unsaved
<1>3. CASE CheckFresh(p) \/ ListenFails(p) \/ ServeFails(p) \/ ShutdownReturns(p) \/ Await(p)
  BY <1>2, <1>3 DEF CheckFresh, ListenFails, ServeFails, ShutdownReturns, Await, Owner
(* No change of stage ... *)
<1>4. ASSUME NEW r \in ProcessState, NEW f \in [Change -> Point],
             r.stage = proc[p].stage, r.mem = proc[p].mem, r.broken = proc[p].broken,
             ~At(p, "down"),
             proc' = [proc EXCEPT ![p] = r], at' = [at EXCEPT ![p] = f],
             \A c \in Change : f[c] = "committed" => at[p][c] = "committed",
             UNCHANGED <<disk, holder>>, acted' \in SUBSET Change, acted' \subseteq disk.done
      PROVE  Inv'
  <2>1. r.stage = "exiting" => p \notin holder /\ r.broken
    BY <1>4 DEF Inv, Ownership, Owner
  <2> QED BY <1>4, <2>1, Unsaved DEF Owner
<1>5. CASE WorkerStops(p)
  <2> DEFINE r == [proc[p] EXCEPT !.worker = "none"]
  <2>1. r \in ProcessState /\ r.stage = proc[p].stage /\ r.mem = proc[p].mem /\ r.broken = proc[p].broken
    BY <1>1 DEF ProcessState
  <2>2. proc' = [proc EXCEPT ![p] = r] /\ UNCHANGED <<disk, holder, at, acted>> /\ ~At(p, "down")
    BY <1>5 DEF WorkerStops, Cancelled
  <2> HIDE DEF r
  <2> QED BY <1>1, <1>4, <2>1, <2>2
<1>6. ASSUME NEW c \in Change, Arrive(p, c) PROVE Inv'
  <2> DEFINE f == [at[p] EXCEPT ![c] = "begun"]
  <2>1. at' = [at EXCEPT ![p] = f] /\ f \in [Change -> Point]
    BY <1>1, <1>6 DEF Arrive, Reaches, Point
  <2>2. \A d \in Change : f[d] = "committed" => at[p][d] = "committed"
    BY <1>1
  <2>3. proc' = proc /\ UNCHANGED <<disk, holder, acted>> /\ ~At(p, "down")
    BY <1>6 DEF Arrive, Inv, Ownership, Down
  <2> HIDE DEF f
  <2> QED BY <1>1, <1>4, <2>1, <2>2, <2>3
<1>7. ASSUME NEW c \in Change, StepBegins(p, c) PROVE Inv'
  <2> DEFINE f == [at[p] EXCEPT ![c] = "begun"]
             r == [proc[p] EXCEPT !.worker = "stepping"]
  <2>1. at' = [at EXCEPT ![p] = f] /\ f \in [Change -> Point]
    BY <1>1, <1>7 DEF StepBegins, Reaches, Point
  <2>2. \A d \in Change : f[d] = "committed" => at[p][d] = "committed"
    BY <1>1
  <2>3. proc' = [proc EXCEPT ![p] = r] /\ UNCHANGED <<disk, holder, acted>> /\ ~At(p, "down")
    BY <1>7 DEF StepBegins, Inv, Ownership, Down
  <2>4. r \in ProcessState /\ r.stage = proc[p].stage /\ r.mem = proc[p].mem /\ r.broken = proc[p].broken
    BY <1>1 DEF ProcessState
  <2> HIDE DEF f, r
  <2> QED BY <1>1, <1>4, <2>1, <2>2, <2>3, <2>4
<1>8. ASSUME NEW c \in Change, Finish(p, c) PROVE Inv'
  <2> DEFINE f == [at[p] EXCEPT ![c] = "none"]
             r == IF c \in Work THEN [proc[p] EXCEPT !.worker = "idle"] ELSE proc[p]
  <2>1. at' = [at EXCEPT ![p] = f] /\ f \in [Change -> Point]
    BY <1>1, <1>8 DEF Finish, Reaches, Point
  <2>2. \A d \in Change : f[d] = "committed" => at[p][d] = "committed"
    BY <1>1
  <2>3. proc' = [proc EXCEPT ![p] = r] /\ UNCHANGED <<disk, holder>> /\ ~At(p, "down")
    BY <1>1, <1>8 DEF Finish, Inv, Ownership
  <2>4. r \in ProcessState /\ r.stage = proc[p].stage /\ r.mem = proc[p].mem /\ r.broken = proc[p].broken
    BY <1>1 DEF ProcessState
  <2>5. acted' \in SUBSET Change /\ acted' \subseteq disk.done
    BY <1>1, <1>8 DEF Finish, Inv, Saved
  <2> HIDE DEF f, r
  <2> QED BY <1>1, <1>4, <2>1, <2>2, <2>3, <2>4, <2>5
(* ... and the three that open, shut and leave. *)
<1>9. ASSUME NEW r \in ProcessState, r.mem = proc[p].mem, proc' = [proc EXCEPT ![p] = r],
             Owner(p), r.stage = "exiting" => r.broken, r.broken = proc[p].broken \/ r.stage = "exiting",
             r.stage # "down", UNCHANGED <<disk, at, acted>>,
             holder' = IF r.stage = "exiting" THEN holder \ {p} ELSE holder
      PROVE  Inv'
  <2>1. at' = [at EXCEPT ![p] = at[p]]
    BY <1>1, <1>9
  <2> QED BY <1>1, <1>9, <2>1, Unsaved
<1>10. CASE Listen(p)
  <2> DEFINE r == [proc[p] EXCEPT !.stage = "serving", !.open = TRUE, !.worker = "idle"]
  <2>1. /\ r \in ProcessState /\ r.stage = "serving" /\ r.mem = proc[p].mem
        /\ r.broken = proc[p].broken /\ proc' = [proc EXCEPT ![p] = r]
    BY <1>1, <1>10 DEF ProcessState, Stage, Listen
  <2>2. Owner(p) /\ UNCHANGED <<disk, holder, at, acted>>
    BY <1>10 DEF Listen, Owner
  <2> HIDE DEF r
  <2> QED BY <1>9, <2>1, <2>2
<1>11. CASE Signal(p)
  <2> DEFINE r == [proc[p] EXCEPT !.stage = "shutting down", !.open = FALSE]
  <2>1. /\ r \in ProcessState /\ r.stage = "shutting down" /\ r.mem = proc[p].mem
        /\ r.broken = proc[p].broken /\ proc' = [proc EXCEPT ![p] = r]
    BY <1>1, <1>11 DEF ProcessState, Stage, Signal
  <2>2. Owner(p) /\ UNCHANGED <<disk, holder, at, acted>>
    BY <1>11 DEF Signal, Owner
  <2> HIDE DEF r
  <2> QED BY <1>9, <2>1, <2>2
<1>12. CASE Close(p)
  <2> DEFINE r == [proc[p] EXCEPT !.stage = "exiting", !.broken = TRUE]
  <2>1. /\ r \in ProcessState /\ r.stage = "exiting" /\ r.mem = proc[p].mem
        /\ r.broken /\ proc' = [proc EXCEPT ![p] = r]
    BY <1>1, <1>12 DEF ProcessState, Stage, Close
  <2>2. Owner(p) /\ UNCHANGED <<disk, at, acted>> /\ holder' = holder \ {p}
    BY <1>12 DEF Close, Owner
  <2> HIDE DEF r
  <2> QED BY <1>9, <2>1, <2>2
<1>13. CASE Gone(p)
  <2> DEFINE f == [c \in Change |-> "none"]
  <2>1. f \in [Change -> Point] /\ \A c \in Change : f[c] = "none"
    BY DEF Point
  <2>2. Down \in ProcessState /\ Down.stage = "down"
    BY DaemonAssumption DEF Down, ProcessState, Stage, State, NewState
  <2>3. /\ proc' = [proc EXCEPT ![p] = Down] /\ at' = [at EXCEPT ![p] = f]
        /\ holder' = holder \ {p} /\ UNCHANGED <<disk, acted>>
    BY <1>13 DEF Gone
  <2> HIDE DEF f
  <2> QED BY <1>1, <2>1, <2>2, <2>3, Unsaved DEF Owner
<1> QED BY <1>3, <1>5, <1>6, <1>7, <1>8, <1>10, <1>11, <1>12, <1>13

-----------------------------------------------------------------------------
(* The start of a process.                                                 *)

HasRecord(s) == s.seeds > 0 \/ s.done \cap Request # {}

Starting(p) == proc[p].stage \in {"opened", "seeding"}

(* Nothing runs in a process before it listens, and until then the         *)
(* directory holds the keys it has seeded itself, or those it found.       *)
Fresh ==
    /\ IsFiniteSet(disk.done)
    /\ disk.done # {} => HasRecord(disk)
    /\ \A p \in Process, c \in Work :
          at[p][c] = "begun" /\ ~proc[p].broken => HasRecord(disk)
    /\ \A p \in Process : Starting(p) =>
          /\ ~proc[p].broken /\ ~proc[p].open /\ proc[p].worker = "none"
          /\ \A c \in Change : at[p][c] = "none"
          /\ At(p, "opened") => proc[p].left = proc[p].count
          /\ At(p, "seeding") /\ proc[p].left > 0 =>
                 disk.done = {} /\ disk.seeds = proc[p].count - proc[p].left

LEMMA RecordsCount ==
    ASSUME NEW s \in State, IsFiniteSet(s.done)
    PROVE  /\ Records(s) > 0 <=> HasRecord(s)
           /\ Records(s) = 0 => s.seeds = 0 /\ s.done \cap Request = {}
<1>1. IsFiniteSet(s.done \cap Request)
  BY FS_Subset
<1>2. Cardinality(s.done \cap Request) \in Nat
  BY <1>1, FS_CardinalityType
<1>3. Cardinality(s.done \cap Request) = 0 <=> s.done \cap Request = {}
  BY <1>1, FS_EmptySet
<1>4. s.seeds \in Nat
  BY DEF State
<1> QED BY <1>2, <1>3, <1>4 DEF Records, HasRecord

(* Only one process is starting, or able to save. *)
LEMMA OneOwner ==
    ASSUME Inv, NEW p \in Process, NEW q \in Process, Owner(p), Owner(q) PROVE p = q
BY DEF Inv, Ownership

LEMMA FreshInit == Init => Fresh
<1> SUFFICES ASSUME Init PROVE Fresh
  OBVIOUS
<1>1. disk.done = {}
  BY DEF Init, NewState
<1>2. \A p \in Process : proc[p].stage = "down"
  BY DEF Init, Down
<1>3. \A p \in Process, c \in Work : at[p][c] = "none"
  BY DEF Init, Change
<1> QED BY <1>1, <1>2, <1>3, FS_EmptySet DEF Fresh, Starting, At

(* A step of p that saves nothing. *)
LEMMA FreshUnsaved ==
    ASSUME Inv, Fresh, NEW p \in Process, NEW r \in ProcessState, NEW f \in [Change -> Point],
           proc' = [proc EXCEPT ![p] = r], at' = [at EXCEPT ![p] = f], disk' = disk,
           \A c \in Work : f[c] = "begun" /\ ~r.broken => HasRecord(disk),
           r.stage \in {"opened", "seeding"} =>
               /\ ~r.broken /\ ~r.open /\ r.worker = "none"
               /\ \A c \in Change : f[c] = "none"
               /\ r.stage = "opened" => r.left = r.count
               /\ r.stage = "seeding" /\ r.left > 0 =>
                      disk.done = {} /\ disk.seeds = r.count - r.left
    PROVE  Fresh'
<1>1. proc \in [Process -> ProcessState] /\ at \in [Process -> [Change -> Point]] /\ Work \subseteq Change
  BY DEF Inv, TypeOK, Point, Change
<1>2. ASSUME NEW q \in Process, NEW c \in Work, at'[q][c] = "begun", ~proc'[q].broken
      PROVE  HasRecord(disk')
  <2>1. CASE q = p
    BY <1>1, <1>2, <2>1
  <2>2. CASE q # p
    BY <1>1, <1>2, <2>2 DEF Fresh
  <2> QED BY <2>1, <2>2
<1>3. ASSUME NEW q \in Process, Starting(q)'
      PROVE  /\ ~proc'[q].broken /\ ~proc'[q].open /\ proc'[q].worker = "none"
             /\ \A c \in Change : at'[q][c] = "none"
             /\ proc'[q].stage = "opened" => proc'[q].left = proc'[q].count
             /\ proc'[q].stage = "seeding" /\ proc'[q].left > 0 =>
                    disk'.done = {} /\ disk'.seeds = proc'[q].count - proc'[q].left
  <2>1. CASE q = p
    BY <1>1, <1>3, <2>1 DEF Starting
  <2>2. CASE q # p
    BY <1>1, <1>3, <2>2 DEF Fresh, Starting, At
  <2> QED BY <2>1, <2>2
<1>4. IsFiniteSet(disk'.done) /\ (disk'.done # {} => HasRecord(disk'))
  BY DEF Fresh
<1> QED BY <1>2, <1>3, <1>4 DEF Fresh, At

LEMMA FreshStart == ASSUME Inv, Fresh, NEW p \in Process, NEW n \in 0..Count, Start(p, n) PROVE Fresh'
<1> DEFINE r == [Down EXCEPT !.stage = "opened", !.mem = disk, !.count = n, !.left = n]
<1>1. /\ r \in ProcessState /\ r.stage = "opened" /\ ~r.broken /\ ~r.open /\ r.worker = "none"
      /\ r.left = r.count
  BY DaemonAssumption DEF Down, NewState, ProcessState, Stage, Inv, TypeOK
<1>2. proc' = [proc EXCEPT ![p] = r] /\ disk' = disk /\ at' = at
  BY DEF Start
<1>3. at[p] \in [Change -> Point] /\ \A c \in Change : at[p][c] = "none"
  BY DEF Start, Inv, TypeOK, Point, Ownership
<1>4. at' = [at EXCEPT ![p] = at[p]] /\ Work \subseteq Change
  BY <1>2 DEF Inv, TypeOK, Change
<1> HIDE DEF r
<1> QED BY <1>1, <1>2, <1>3, <1>4, FreshUnsaved

LEMMA FreshCheck == ASSUME Inv, Fresh, NEW p \in Process, CheckFresh(p) PROVE Fresh'
<1>1. proc[p] \in ProcessState /\ at[p] \in [Change -> Point] /\ Work \subseteq Change
  BY DEF Inv, TypeOK, Point, Change
<1>2. /\ Starting(p) /\ Owner(p) /\ ~proc[p].broken /\ ~proc[p].open /\ proc[p].worker = "none"
      /\ \A c \in Change : at[p][c] = "none"
      /\ proc[p].left = proc[p].count
  BY DEF CheckFresh, Starting, At, Fresh, Owner
<1>3. proc[p].mem = disk /\ disk \in State /\ IsFiniteSet(disk.done)
  BY <1>2 DEF Inv, Current, TypeOK, Fresh
<1>4. PICK x \in {"seeding", "closing"} :
        /\ GoesTo(p, x)
        /\ x = "seeding" => ~(proc[p].count > 0 /\ Records(disk) > 0)
  BY <1>3 DEF CheckFresh
<1> DEFINE r == [proc[p] EXCEPT !.stage = x]
<1>5. /\ r \in ProcessState /\ r.stage = x /\ r.broken = proc[p].broken /\ r.open = proc[p].open
      /\ r.worker = proc[p].worker /\ r.left = proc[p].left /\ r.count = proc[p].count
      /\ proc' = [proc EXCEPT ![p] = r]
  BY <1>1, <1>4 DEF ProcessState, Stage, GoesTo
<1>6. x = "seeding" /\ proc[p].left > 0 => disk.done = {} /\ disk.seeds = 0
  <2> SUFFICES ASSUME x = "seeding", proc[p].left > 0 PROVE disk.done = {} /\ disk.seeds = 0
    OBVIOUS
  <2>1. ~(Records(disk) > 0)
    BY <1>2, <1>4
  <2>2. ~HasRecord(disk)
    BY <1>3, <2>1, RecordsCount
  <2> QED BY <1>3, <2>2 DEF HasRecord, Fresh, State
<1>7. at' = [at EXCEPT ![p] = at[p]] /\ disk' = disk
  BY DEF CheckFresh, Inv, TypeOK
<1>8. proc[p].count \in Nat /\ proc[p].left \in Nat
  BY <1>1, DaemonAssumption DEF ProcessState
<1> HIDE DEF r
<1>9. r.stage = "seeding" /\ r.left > 0 => disk.done = {} /\ disk.seeds = r.count - r.left
  BY <1>2, <1>5, <1>6, <1>8
<1>10. \A c \in Work : at[p][c] # "begun"
  BY <1>1, <1>2
<1> QED BY <1>1, <1>2, <1>5, <1>7, <1>9, <1>10, FreshUnsaved

LEMMA FreshSeed == ASSUME Inv, Fresh, NEW p \in Process, Seed(p) PROVE Fresh'
<1> DEFINE s == [proc[p].mem EXCEPT !.seeds = @ + 1]
<1>1. /\ proc[p] \in ProcessState /\ proc \in [Process -> ProcessState] /\ disk \in State
      /\ at' = at /\ Work \subseteq Change
  BY DEF Inv, TypeOK, Change, Seed
<1>2. /\ Owner(p) /\ ~proc[p].broken /\ ~proc[p].open /\ proc[p].worker = "none"
      /\ \A c \in Change : at[p][c] = "none"
      /\ disk.done = {} /\ disk.seeds = proc[p].count - proc[p].left
      /\ proc[p].stage = "seeding"
  BY DEF Seed, Starting, At, Fresh, Owner
<1>3. proc[p].mem = disk
  BY <1>2 DEF Inv, Current
<1>4. s \in State /\ s.done = {} /\ s.seeds = disk.seeds + 1
  BY <1>1, <1>2, <1>3 DEF State
<1>5. disk'.done = {}
  BY <1>2, <1>4 DEF Seed, Saves, SaveFails
<1>6. \A q \in Process : Starting(q) => q = p
  BY <1>2, OneOwner DEF Starting, Owner
<1>7. PICK r \in ProcessState :
        /\ proc' = [proc EXCEPT ![p] = r]
        /\ r.stage \in {"seeding", "closing"}
        /\ r.stage = "seeding" => /\ disk' = s /\ r.left = proc[p].left - 1 /\ r.count = proc[p].count
                                 /\ ~r.broken /\ ~r.open /\ r.worker = "none"
  <2>1. CASE Saves(p, s, [proc[p] EXCEPT !.left = @ - 1])
    <3> DEFINE r == [proc[p] EXCEPT !.left = @ - 1, !.mem = s]
    <3>1. [[proc[p] EXCEPT !.left = @ - 1] EXCEPT !.mem = s] = r
      BY <1>1 DEF ProcessState
    <3>2. proc[p].left - 1 \in 0..Count
      BY <1>1, DaemonAssumption DEF ProcessState, Seed
    <3>3. r.stage = "seeding" /\ r.left = proc[p].left - 1 /\ r.count = proc[p].count
      BY <1>1, <1>2 DEF ProcessState
    <3>4. ~r.broken /\ ~r.open /\ r.worker = "none"
      BY <1>1, <1>2 DEF ProcessState
    <3>5. r \in ProcessState
      BY <1>1, <1>4, <3>2, Zenon DEF ProcessState
    <3>6. /\ r \in ProcessState /\ r.stage = "seeding" /\ r.left = proc[p].left - 1
          /\ r.count = proc[p].count /\ ~r.broken /\ ~r.open /\ r.worker = "none"
      BY <3>3, <3>4, <3>5
    <3>7. proc' = [proc EXCEPT ![p] = r] /\ disk' = s
      BY <2>1, <3>1 DEF Saves
    <3> HIDE DEF r, s
    <3> QED BY <3>6, <3>7
  <2>2. CASE SaveFails(p, s, [proc[p] EXCEPT !.stage = "closing"])
    <3> DEFINE r == [proc[p] EXCEPT !.stage = "closing", !.broken = TRUE]
    <3>1. [[proc[p] EXCEPT !.stage = "closing"] EXCEPT !.broken = TRUE] = r
      BY <1>1 DEF ProcessState
    <3>2. r \in ProcessState /\ r.stage = "closing"
      BY <1>1 DEF ProcessState, Stage
    <3>3. proc' = [proc EXCEPT ![p] = r]
      BY <2>2, <3>1 DEF SaveFails
    <3> HIDE DEF r, s
    <3> QED BY <3>2, <3>3
  <2> QED BY <2>1, <2>2 DEF Seed
<1> HIDE DEF s
<1>8. ASSUME NEW q \in Process, NEW c \in Work, at'[q][c] = "begun", ~proc'[q].broken
      PROVE  HasRecord(disk')
  <2>1. q # p
    BY <1>1, <1>2, <1>8
  <2>2. ~proc[q].broken /\ at[q][c] = "begun"
    BY <1>1, <1>7, <1>8, <2>1
  <2>3. Owner(q)
    BY <1>1, <2>2 DEF Inv, Ownership, Owner, At
  <2> QED BY <1>2, <2>1, <2>3, OneOwner
<1>9. ASSUME NEW q \in Process, Starting(q)'
      PROVE  /\ q = p /\ proc'[q] = r
  <2>1. q = p
    BY <1>1, <1>6, <1>7, <1>9 DEF Starting
  <2> QED BY <1>1, <1>7, <2>1
<1>10. proc[p].left \in Nat /\ proc[p].count \in Nat /\ disk.seeds \in Nat
  BY <1>1, DaemonAssumption DEF ProcessState, State
<1>11. r.stage = "seeding" => disk'.seeds = r.count - r.left
  BY <1>2, <1>4, <1>7, <1>10
<1>12. IsFiniteSet(disk'.done) /\ (disk'.done # {} => HasRecord(disk'))
  BY <1>5, FS_EmptySet
<1> QED BY <1>1, <1>2, <1>5, <1>7, <1>8, <1>9, <1>11, <1>12 DEF Fresh, Starting, At

LEMMA FreshCommit ==
    ASSUME Inv, Fresh, NEW p \in Process, NEW c \in Change, Commit(p, c) PROVE Fresh'
<1> DEFINE s == [proc[p].mem EXCEPT !.done = @ \cup {c}]
<1>1. /\ proc[p] \in ProcessState /\ proc \in [Process -> ProcessState] /\ disk \in State
      /\ at \in [Process -> [Change -> Point]] /\ Work \subseteq Change /\ at[p][c] = "begun"
  BY DEF Inv, TypeOK, Change, Commit, Point
<1>2. ~Starting(p)
  BY <1>1 DEF Fresh
<1>3. PICK x \in {"refused", "committed"} : at' = [at EXCEPT ![p][c] = x]
  BY DEF Commit, Reaches
<1>4. CASE UNCHANGED <<disk, proc>>
  <2> DEFINE f == [at[p] EXCEPT ![c] = x]
  <2>1. at' = [at EXCEPT ![p] = f] /\ f \in [Change -> Point]
    BY <1>1, <1>3 DEF Point
  <2>2. \A d \in Work : f[d] = "begun" /\ ~proc[p].broken => HasRecord(disk)
    BY <1>1 DEF Fresh
  <2>3. proc' = [proc EXCEPT ![p] = proc[p]] /\ disk' = disk
    BY <1>1, <1>4
  <2> HIDE DEF f
  <2> QED BY <1>1, <1>2, <2>1, <2>2, <2>3, FreshUnsaved DEF Starting
<1>5. CASE ~proc[p].broken /\ (Saves(p, s, proc[p]) \/ SaveFails(p, s, proc[p]))
  <2>1. Owner(p)
    BY <1>1, <1>5 DEF Inv, Ownership, Owner, At
  <2>2. proc[p].mem = disk /\ s.done = disk.done \cup {c} /\ s.seeds = disk.seeds
    BY <1>1, <1>5, <2>1 DEF Inv, Current, State
  <2>3. c \in Work => HasRecord(disk)
    BY <1>1, <1>5 DEF Fresh
  <2>4. HasRecord(s) /\ (HasRecord(disk) => HasRecord(disk'))
    BY <1>5, <2>2, <2>3 DEF HasRecord, Change, Saves, SaveFails
  <2>5. IsFiniteSet(disk'.done) /\ (disk'.done # {} => HasRecord(disk'))
    <3>1. disk' \in {disk, s}
      BY <1>5 DEF Saves, SaveFails
    <3>2. IsFiniteSet(s.done)
      BY <2>2, FS_AddElement DEF Fresh
    <3> QED BY <2>4, <3>1, <3>2 DEF Fresh
  <2>6. \A q \in Process \ {p} : proc'[q] = proc[q] /\ at'[q] = at[q]
    BY <1>1, <1>3, <1>5 DEF Saves, SaveFails
  <2>7. proc'[p].stage = proc[p].stage
    BY <1>1, <1>5 DEF Saves, SaveFails, ProcessState
  <2>8. \A d \in Work : at'[p][d] = "begun" => at[p][d] = "begun"
    BY <1>1, <1>3
  <2>9. \A q \in Process : ~Starting(q)'
    BY <1>2, <2>1, <2>6, <2>7, OneOwner DEF Starting, Owner
  <2>10. ASSUME NEW q \in Process, NEW d \in Work, at'[q][d] = "begun", ~proc'[q].broken
        PROVE  HasRecord(disk')
    <3>1. at[q][d] = "begun" /\ ~proc[q].broken
      BY <1>5, <2>6, <2>8, <2>10
    <3> QED BY <2>4, <3>1 DEF Fresh
  <2> QED BY <2>5, <2>9, <2>10 DEF Fresh
<1> QED BY <1>4, <1>5 DEF Commit

(* The other steps save nothing, and their process is not starting.        *)
LEMMA FreshQuiet ==
    ASSUME Inv, Fresh, NEW p \in Process,
           \/ Listen(p) \/ ListenFails(p) \/ Signal(p) \/ ServeFails(p)
           \/ ShutdownReturns(p) \/ WorkerStops(p) \/ Await(p) \/ Close(p)
           \/ \E c \in Change : Arrive(p, c) \/ StepBegins(p, c) \/ Finish(p, c)
           \/ Gone(p)
    PROVE  Fresh'
<1>1. /\ proc[p] \in ProcessState /\ at[p] \in [Change -> Point]
      /\ proc \in [Process -> ProcessState] /\ at \in [Process -> [Change -> Point]]
      /\ Work \subseteq Change
  BY DEF Inv, TypeOK, Point, Change
<1>2. ASSUME NEW r \in ProcessState, r.stage \notin {"opened", "seeding"}, ~r.broken => ~proc[p].broken,
             proc' = [proc EXCEPT ![p] = r], at' = at, disk' = disk
      PROVE  Fresh'
  <2>1. at' = [at EXCEPT ![p] = at[p]]
    BY <1>1, <1>2
  <2>2. \A c \in Work : at[p][c] = "begun" /\ ~r.broken => HasRecord(disk)
    BY <1>2 DEF Fresh
  <2> QED BY <1>1, <1>2, <2>1, <2>2, FreshUnsaved
<1>3. ASSUME NEW x \in {"closing", "awaiting worker"}, GoesTo(p, x), at' = at, disk' = disk
      PROVE  Fresh'
  <2> DEFINE r == [proc[p] EXCEPT !.stage = x]
  <2>1. r \in ProcessState /\ r.stage = x /\ r.broken = proc[p].broken /\ proc' = [proc EXCEPT ![p] = r]
    BY <1>1, <1>3 DEF ProcessState, Stage, GoesTo
  <2> HIDE DEF r
  <2> QED BY <1>2, <1>3, <2>1
<1>4. CASE ListenFails(p) \/ ServeFails(p) \/ ShutdownReturns(p) \/ Await(p)
  BY <1>3, <1>4 DEF ListenFails, ServeFails, ShutdownReturns, Await
<1>5. CASE Listen(p)
  <2> DEFINE r == [proc[p] EXCEPT !.stage = "serving", !.open = TRUE, !.worker = "idle"]
  <2>1. r \in ProcessState /\ r.stage = "serving" /\ r.broken = proc[p].broken
    BY <1>1 DEF ProcessState, Stage
  <2>2. proc' = [proc EXCEPT ![p] = r] /\ at' = at /\ disk' = disk
    BY <1>5 DEF Listen
  <2> HIDE DEF r
  <2> QED BY <1>2, <2>1, <2>2
<1>6. CASE Signal(p)
  <2> DEFINE r == [proc[p] EXCEPT !.stage = "shutting down", !.open = FALSE]
  <2>1. r \in ProcessState /\ r.stage = "shutting down" /\ r.broken = proc[p].broken
    BY <1>1 DEF ProcessState, Stage
  <2>2. proc' = [proc EXCEPT ![p] = r] /\ at' = at /\ disk' = disk
    BY <1>6 DEF Signal
  <2> HIDE DEF r
  <2> QED BY <1>2, <2>1, <2>2
<1>7. CASE WorkerStops(p)
  <2> DEFINE r == [proc[p] EXCEPT !.worker = "none"]
  <2>1. r \in ProcessState /\ r.stage = proc[p].stage /\ r.broken = proc[p].broken
    BY <1>1 DEF ProcessState
  <2>2. /\ proc' = [proc EXCEPT ![p] = r] /\ at' = at /\ disk' = disk
        /\ proc[p].stage \notin {"opened", "seeding"}
    BY <1>7 DEF WorkerStops, Cancelled
  <2> HIDE DEF r
  <2> QED BY <1>2, <2>1, <2>2
<1>8. CASE Close(p)
  <2> DEFINE r == [proc[p] EXCEPT !.stage = "exiting", !.broken = TRUE]
  <2>1. r \in ProcessState /\ r.stage = "exiting" /\ r.broken
    BY <1>1 DEF ProcessState, Stage
  <2>2. proc' = [proc EXCEPT ![p] = r] /\ at' = at /\ disk' = disk
    BY <1>8 DEF Close
  <2> HIDE DEF r
  <2> QED BY <1>2, <2>1, <2>2
<1>9. CASE Gone(p)
  <2> DEFINE f == [c \in Change |-> "none"]
  <2>1. f \in [Change -> Point] /\ \A c \in Work : f[c] # "begun"
    BY DEF Point, Change
  <2>2. Down \in ProcessState /\ Down.stage = "down"
    BY DaemonAssumption DEF Down, ProcessState, Stage, State, NewState
  <2>3. proc' = [proc EXCEPT ![p] = Down] /\ at' = [at EXCEPT ![p] = f] /\ disk' = disk
    BY <1>9 DEF Gone
  <2> HIDE DEF f
  <2> QED BY <2>1, <2>2, <2>3, FreshUnsaved
<1>10. ASSUME NEW c \in Change, NEW x \in {"begun", "none"}, Reaches(p, c, x), disk' = disk,
              NEW r \in ProcessState, proc' = [proc EXCEPT ![p] = r],
              r.stage = proc[p].stage, r.broken = proc[p].broken, ~Starting(p),
              x = "begun" /\ c \in Work /\ ~proc[p].broken => HasRecord(disk)
       PROVE  Fresh'
  <2> DEFINE f == [at[p] EXCEPT ![c] = x]
  <2>1. at' = [at EXCEPT ![p] = f] /\ f \in [Change -> Point]
    BY <1>1, <1>10 DEF Reaches, Point
  <2>2. \A d \in Work : f[d] = "begun" /\ ~r.broken => HasRecord(disk)
    BY <1>1, <1>10 DEF Fresh
  <2> HIDE DEF f
  <2> QED BY <1>10, <2>1, <2>2, FreshUnsaved DEF Starting
<1>11. ASSUME NEW c \in Change, Arrive(p, c) PROVE Fresh'
  <2>1. ~Starting(p) /\ c \notin Work
    BY <1>11, DaemonAssumption DEF Arrive, Fresh
  <2>2. proc' = [proc EXCEPT ![p] = proc[p]] /\ Reaches(p, c, "begun") /\ disk' = disk
    BY <1>1, <1>11 DEF Arrive
  <2> QED BY <1>1, <1>10, <2>1, <2>2
<1>12. ASSUME NEW c \in Change, StepBegins(p, c) PROVE Fresh'
  <2> DEFINE r == [proc[p] EXCEPT !.worker = "stepping"]
  <2>1. r \in ProcessState /\ r.stage = proc[p].stage /\ r.broken = proc[p].broken
    BY <1>1 DEF ProcessState
  <2>2. /\ proc' = [proc EXCEPT ![p] = r] /\ Reaches(p, c, "begun") /\ disk' = disk
        /\ proc[p].worker = "idle" /\ Records(proc[p].mem) > 0
    BY <1>12 DEF StepBegins
  <2>3. (~Starting(p) /\ Owner(p)) \/ proc[p].broken
    BY <2>2 DEF Fresh, Inv, Ownership, Owner, At, Down
  <2>4. ~Starting(p)
    BY <2>2 DEF Fresh
  <2>5. ~proc[p].broken => HasRecord(disk)
    BY <2>2, <2>3, RecordsCount DEF Inv, Current, TypeOK, Fresh
  <2> HIDE DEF r
  <2> QED BY <1>10, <2>1, <2>2, <2>4, <2>5
<1>13. ASSUME NEW c \in Change, Finish(p, c) PROVE Fresh'
  <2> DEFINE r == IF c \in Work THEN [proc[p] EXCEPT !.worker = "idle"] ELSE proc[p]
  <2>1. r \in ProcessState /\ r.stage = proc[p].stage /\ r.broken = proc[p].broken
    BY <1>1 DEF ProcessState
  <2>2. proc' = [proc EXCEPT ![p] = r] /\ Reaches(p, c, "none") /\ disk' = disk
    BY <1>1, <1>13 DEF Finish
  <2>3. ~Starting(p)
    BY <1>13 DEF Finish, Fresh
  <2> HIDE DEF r
  <2> QED BY <1>10, <2>1, <2>2, <2>3
<1> QED BY <1>4, <1>5, <1>6, <1>7, <1>8, <1>9, <1>11, <1>12, <1>13

-----------------------------------------------------------------------------
(* The results.                                                            *)

(* The steps of one process, sorted by what the lemmas say of them. *)
LEMMA KindsOfStep ==
    ASSUME [Next]_vars
    PROVE  \/ UNCHANGED vars
           \/ \E p \in Process :
                \/ \E n \in 0..Count : Start(p, n)
                \/ CheckFresh(p) \/ Seed(p)
                \/ \E c \in Change : Commit(p, c)
                \/ \/ Listen(p) \/ ListenFails(p) \/ Signal(p) \/ ServeFails(p)
                   \/ ShutdownReturns(p) \/ WorkerStops(p) \/ Await(p) \/ Close(p)
                   \/ \E c \in Change : Arrive(p, c) \/ StepBegins(p, c) \/ Finish(p, c)
                   \/ Gone(p) /\ ~At(p, "down")
BY DEF Next, Running, Stopping, Exit, Crash, At

LEMMA NextInv == Inv /\ Fresh /\ [Next]_vars => (Inv /\ Fresh)'
<1> SUFFICES ASSUME Inv, Fresh, [Next]_vars PROVE (Inv /\ Fresh)'
  OBVIOUS
<1>1. ASSUME NEW p \in Process, NEW n \in 0..Count, Start(p, n) PROVE (Inv /\ Fresh)'
  BY <1>1, StartInv, FreshStart
<1>2. ASSUME NEW p \in Process, CheckFresh(p) PROVE (Inv /\ Fresh)'
  BY <1>2, QuietInv, FreshCheck
<1>3. ASSUME NEW p \in Process, Seed(p) PROVE (Inv /\ Fresh)'
  <2>1. ~proc[p].broken
    BY <1>3 DEF Fresh, Starting, Seed, At
  <2> QED BY <1>3, <2>1, SeedInv, FreshSeed
<1>4. ASSUME NEW p \in Process, NEW c \in Change, Commit(p, c) PROVE (Inv /\ Fresh)'
  BY <1>4, CommitInv, FreshCommit
<1>5. ASSUME NEW p \in Process,
             \/ Listen(p) \/ ListenFails(p) \/ Signal(p) \/ ServeFails(p)
             \/ ShutdownReturns(p) \/ WorkerStops(p) \/ Await(p) \/ Close(p)
             \/ \E c \in Change : Arrive(p, c) \/ StepBegins(p, c) \/ Finish(p, c)
             \/ Gone(p) /\ ~At(p, "down")
      PROVE  (Inv /\ Fresh)'
  <2>1. Inv'
    BY <1>5, QuietInv
  <2>2. Fresh'
    BY <1>5, FreshQuiet
  <2> QED BY <2>1, <2>2
<1>6. CASE UNCHANGED vars
  BY <1>6 DEF vars, Inv, Fresh, TypeOK, Ownership, Owner, At, Current, Saved, Starting
<1> QED BY <1>1, <1>2, <1>3, <1>4, <1>5, <1>6, KindsOfStep

THEOREM InvHolds == Spec => [](Inv /\ Fresh)
<1>1. Init => Inv /\ Fresh
  BY InitInv, FreshInit
<1> QED BY <1>1, NextInv, PTL DEF Spec

(* The answer to a peer, or a transfer to it, is never undone: requests    *)
(* that run on after Shutdown and after Close save nothing, and no process *)
(* starts on a directory that another one can still write.                 *)
THEOREM NothingToldIsLost == Spec => []ActedStays
<1>1. Inv => ActedStays
  BY DEF Inv, Saved, ActedStays
<1> QED BY <1>1, InvHolds, PTL

(* Seeding never adds to what a directory held before, however often it is *)
(* interrupted and started again.                                          *)
THEOREM SeededOnce == Spec => OnlyFreshIsSeeded
<1> DEFINE A == disk'.seeds # disk.seeds =>
                  /\ disk.done = {}
                  /\ \E p \in holder : At(p, "seeding") /\ disk.seeds = proc[p].count - proc[p].left
<1>1. Inv /\ Fresh /\ [Next]_vars => A
  <2> SUFFICES ASSUME Inv, Fresh, [Next]_vars, disk'.seeds # disk.seeds PROVE A
    OBVIOUS
  <2>1. ASSUME NEW p \in Process, NEW c \in Change, Commit(p, c) PROVE FALSE
    <3> DEFINE s == [proc[p].mem EXCEPT !.done = @ \cup {c}]
    <3>1. proc[p] \in ProcessState /\ ~proc[p].broken /\ disk' \in {disk, s}
      BY <2>1 DEF Commit, Saves, SaveFails, Inv, TypeOK
    <3>2. Owner(p)
      BY <2>1, <3>1 DEF Commit, Inv, Ownership, Owner, At
    <3>3. s.seeds = disk.seeds
      BY <3>1, <3>2 DEF Inv, Current, ProcessState, State
    <3> QED BY <3>1, <3>3
  <2>2. PICK p \in Process : Seed(p)
    BY <2>1, KindsOfStep DEF vars, Start, CheckFresh, Listen, ListenFails, Signal, ServeFails,
       ShutdownReturns, WorkerStops, Await, Close, Arrive, StepBegins, Finish, Gone
  <2>3. /\ disk.done = {} /\ disk.seeds = proc[p].count - proc[p].left
        /\ At(p, "seeding") /\ p \in holder
    BY <2>2 DEF Seed, Fresh, Starting, At, Inv, Ownership, Owner
  <2> QED BY <2>3
<1> HIDE DEF A
<1>2. Spec => [][A]_vars
  BY <1>1, InvHolds, PTL DEF Spec
<1> QED BY <1>2 DEF A, OnlyFreshIsSeeded
=============================================================================
