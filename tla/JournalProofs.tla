--------------------------- MODULE JournalProofs ---------------------------
(***************************************************************************)
(* Theorems about Journal, for any number of processes, snapshots and      *)
(* wrapping keys: nothing acted on is lost, key and snapshot stay          *)
(* together, no process resumes from an older snapshot, and a save is one  *)
(* step for those who rely on it.                                          *)
(***************************************************************************)
EXTENDS Journal, TLAPS

(* What a power loss may leave includes what is there now.                 *)
Present == disk.wrapping \in after.wrapping /\ disk.state \in after.state

(* Every snapshot that may come back is the one acted on last or the next; *)
(* before the first, it is none or the first.                              *)
Recent == \A s \in after.state : s.ver \in {acted, acted + 1}

(* A snapshot that may come back is opened by every key that may.          *)
Matching == \A w \in after.wrapping, s \in after.state : s # NoFile => s.key = w

(* What the process past the lock may rely on at each stage.               *)
Held(p) == proc[p].key # 0 /\ disk.wrapping = proc[p].key
KeyIsSafe(p) == Held(p) /\ after.wrapping = {proc[p].key}
OnDisk(p) == disk.state = [key |-> proc[p].key, ver |-> proc[p].ver]

StageInv(p) ==
    /\ At(p, "down") => proc[p] = Down
    /\ At(p, "locked") => ~proc[p].fresh
    /\ At(p, "key renamed") => Held(p) /\ disk.state = NoFile /\ after.state = {NoFile}
    /\ At(p, "loading") => /\ Held(p)
                           /\ proc[p].fresh => KeyIsSafe(p)
    /\ At(p, "opened") => /\ KeyIsSafe(p)
                          /\ OnDisk(p) \/ (disk.state = NoFile /\ proc[p].ver = 1)
    /\ At(p, "renamed") => KeyIsSafe(p) /\ OnDisk(p)
    /\ At(p, "serving") => /\ KeyIsSafe(p) /\ OnDisk(p)
                           /\ after.state = {disk.state}
                           /\ proc[p].ver = acted

(* ActedSurvives and Readable follow from Recent and Matching; the stages  *)
(* are what the steps of a process need to keep those two.                 *)
Inv ==
    /\ TypeOK
    /\ Present
    /\ Recent
    /\ Matching
    /\ \A p \in Process : StageInv(p)

-----------------------------------------------------------------------------
LEMMA DownType == Down \in ProcessState
BY JournalAssumption DEF Down, ProcessState, Stage

LEMMA SnapshotIsAFile == ASSUME NEW s \in Snapshot PROVE s # NoFile /\ s.ver # 0 /\ s.key # 0
BY JournalAssumption DEF Snapshot, NoFile

LEMMA InitInv == Init => Inv
<1> SUFFICES ASSUME Init PROVE Inv
  OBVIOUS
<1>1. TypeOK
  BY DownType, JournalAssumption DEF Init, TypeOK, Directory, At, Down
<1>2. Present /\ Recent /\ Matching
  BY DEF Init, Present, Recent, Matching, NoFile
<1>3. \A p \in Process : StageInv(p)
  BY DEF Init, StageInv, At, Down
<1> QED BY <1>1, <1>2, <1>3 DEF Inv

(* A process that takes a step past the lock is alone there: the others    *)
(* are down, and stay so.                                                  *)
LEMMA Alone ==
    ASSUME Inv, NEW p \in Process, NEW r \in ProcessState, Becomes(p, r),
           \A q \in Process : q # p => At(q, "down")
    PROVE  /\ proc' \in [Process -> ProcessState]
           /\ proc'[p] = r
           /\ \A q \in Process \ {p} : proc'[q] = Down
           /\ \A x, q \in Process : ~At(x, "down")' /\ ~At(q, "down")' => x = q
<1>1. proc' = [proc EXCEPT ![p] = r] /\ proc \in [Process -> ProcessState]
  BY DEF Becomes, Inv, TypeOK
<1>2. \A q \in Process \ {p} : proc'[q] = Down
  BY <1>1 DEF Inv, StageInv
<1> QED BY <1>1, <1>2 DEF At, Down

LEMMA PastTheLock ==
    ASSUME Inv, NEW p \in Process, ~At(p, "down")
    PROVE  \A q \in Process : q # p => At(q, "down")
BY DEF Inv, TypeOK

(* The invariant after a step of p: what is left to show is what changes.  *)
LEMMA StepInv ==
    ASSUME Inv, NEW p \in Process, NEW r \in ProcessState, Becomes(p, r),
           \A q \in Process : q # p => At(q, "down"),
           disk' \in Directory,
           after' \in [wrapping : SUBSET (0..MaxKeys), state : SUBSET (Snapshot \cup {NoFile})],
           keys' \in 0..MaxKeys, acted' \in 0..MaxVersion,
           Present', Recent', Matching', StageInv(p)'
    PROVE  Inv'
<1>1. /\ proc' \in [Process -> ProcessState]
      /\ \A q \in Process \ {p} : proc'[q] = Down
      /\ \A x, q \in Process : ~At(x, "down")' /\ ~At(q, "down")' => x = q
  BY Alone
<1>2. TypeOK'
  BY <1>1 DEF TypeOK, At
<1>3. \A q \in Process : StageInv(q)'
  BY <1>1 DEF StageInv, At, Down
<1> QED BY <1>2, <1>3 DEF Inv

LEMMA NextInv ==
    ASSUME Inv, [Next]_vars
    PROVE  Inv'
<1> USE DEF Present, Recent, Matching
<1>0. /\ disk \in Directory
      /\ after \in [wrapping : SUBSET (0..MaxKeys), state : SUBSET (Snapshot \cup {NoFile})]
      /\ proc \in [Process -> ProcessState]
      /\ keys \in 0..MaxKeys /\ acted \in 0..MaxVersion
  BY DEF Inv, TypeOK
<1>1. ASSUME NEW p \in Process, Lock(p) PROVE Inv'
  <2> DEFINE r == [proc[p] EXCEPT !.stage = "locked"]
  <2>1. r \in ProcessState /\ Becomes(p, r) /\ r.stage = "locked" /\ r.fresh = proc[p].fresh
    BY <1>0, <1>1 DEF Lock, GoesTo, Becomes, ProcessState, Stage
  <2>2. ~r.fresh
    <3>1. proc[p] = Down
      BY <1>1 DEF Lock, Inv, StageInv
    <3> QED BY <2>1, <3>1 DEF Down
  <2>3. UNCHANGED <<disk, after, keys, acted>>
    BY <1>1 DEF Lock
  <2>4. \A q \in Process : q # p => At(q, "down")
    BY <1>1 DEF Lock
  <2> HIDE DEF r
  <2>5. StageInv(p)'
    BY <1>0, <2>1, <2>2 DEF StageInv, At, Becomes
  <2> QED BY <1>0, <2>1, <2>3, <2>4, <2>5, StepInv DEF Inv
<1>2. ASSUME NEW p \in Process, ReadKey(p) PROVE Inv'
  <2> DEFINE r == [proc[p] EXCEPT !.stage = "loading", !.key = disk.wrapping]
  <2>1. /\ r \in ProcessState /\ Becomes(p, r)
        /\ r.stage = "loading" /\ r.key = disk.wrapping /\ r.fresh = proc[p].fresh
    BY <1>0, <1>2 DEF ReadKey, ProcessState, Stage, Directory
  <2>2. ~r.fresh /\ r.key # 0
    BY <1>2, <2>1 DEF ReadKey, Inv, StageInv
  <2>3. UNCHANGED <<disk, after, keys, acted>>
    BY <1>2 DEF ReadKey
  <2>4. \A q \in Process : q # p => At(q, "down")
    BY <1>2, PastTheLock DEF ReadKey, At
  <2> HIDE DEF r
  <2>5. StageInv(p)'
    BY <1>0, <2>1, <2>2, <2>3 DEF StageInv, At, Becomes, Held
  <2> QED BY <1>0, <2>1, <2>3, <2>4, <2>5, StepInv DEF Inv
<1>3. ASSUME NEW p \in Process, MakeKey(p) PROVE Inv'
  <2> DEFINE r == [proc[p] EXCEPT !.stage = "key renamed", !.key = keys + 1, !.fresh = TRUE]
  <2>1. keys + 1 \in 1..MaxKeys
    BY <1>0, <1>3, JournalAssumption DEF MakeKey
  <2>2. r \in ProcessState /\ Becomes(p, r) /\ r.stage = "key renamed" /\ r.key = keys + 1
    <3>1. Becomes(p, r)
      BY <1>3 DEF MakeKey
    <3>2. keys + 1 \in 0..MaxKeys
      BY <2>1, JournalAssumption
    <3> QED BY <1>0, <3>1, <3>2 DEF ProcessState, Stage
  <2>3. /\ disk' = [disk EXCEPT !.wrapping = keys + 1]
        /\ after' = [after EXCEPT !.wrapping = @ \cup {keys + 1}]
        /\ keys' = keys + 1 /\ acted' = acted
        /\ disk.wrapping = 0 /\ disk.state = NoFile
    BY <1>3 DEF MakeKey
  <2>4. \A q \in Process : q # p => At(q, "down")
    BY <1>3, PastTheLock DEF MakeKey, At
  <2>5. after.state = {NoFile}
    BY <1>0, <2>3, SnapshotIsAFile DEF Inv
  <2>6. /\ disk' \in Directory /\ keys' \in 0..MaxKeys
        /\ after' \in [wrapping : SUBSET (0..MaxKeys), state : SUBSET (Snapshot \cup {NoFile})]
    BY <1>0, <2>1, <2>3 DEF Directory
  <2> HIDE DEF r
  <2>7. StageInv(p)'
    <3>1. proc'[p] = r /\ keys + 1 # 0
      <4>1. proc'[p] = r
        BY <1>0, <2>2 DEF Becomes
      <4>2. keys + 1 # 0
        BY <2>1, JournalAssumption
      <4> QED BY <4>1, <4>2
    <3>2. disk'.wrapping = keys + 1 /\ disk'.state = NoFile /\ after'.state = {NoFile}
      BY <1>0, <2>3, <2>5 DEF Directory
    <3> QED BY <2>2, <3>1, <3>2 DEF StageInv, At, Held
  <2>8. Present' /\ Recent' /\ Matching'
    BY <1>0, <2>3, <2>5 DEF Inv, Directory
  <2> QED BY <1>0, <2>2, <2>3, <2>4, <2>6, <2>7, <2>8, StepInv
<1>4. ASSUME NEW p \in Process, SyncKey(p) PROVE Inv'
  <2> DEFINE r == [proc[p] EXCEPT !.stage = "loading"]
  <2>1. r \in ProcessState /\ Becomes(p, r) /\ r.stage = "loading" /\ r.key = proc[p].key
    BY <1>0, <1>4 DEF SyncKey, GoesTo, Becomes, ProcessState, Stage
  <2>2. /\ after' = [wrapping |-> {disk.wrapping}, state |-> {disk.state}]
        /\ UNCHANGED <<disk, keys, acted>>
    BY <1>4 DEF SyncKey, DirectorySynced
  <2>3. \A q \in Process : q # p => At(q, "down")
    BY <1>4, PastTheLock DEF SyncKey, At
  <2>4. Held(p)
    BY <1>4 DEF SyncKey, Inv, StageInv
  <2> HIDE DEF r
  <2>5. StageInv(p)'
    BY <1>0, <2>1, <2>2, <2>4 DEF StageInv, At, Becomes, Held, KeyIsSafe
  <2>6. Present' /\ Recent' /\ Matching'
    BY <2>2 DEF Inv
  <2>7. after' \in [wrapping : SUBSET (0..MaxKeys), state : SUBSET (Snapshot \cup {NoFile})]
    BY <1>0, <2>2 DEF Directory
  <2> QED BY <1>0, <2>1, <2>2, <2>3, <2>5, <2>6, <2>7, StepInv
<1>5. ASSUME NEW p \in Process, Load(p) PROVE Inv'
  <2> DEFINE r == [proc[p] EXCEPT !.stage = "opened",
                                  !.ver = IF disk.state = NoFile THEN 1 ELSE disk.state.ver]
  <2>1. disk.state # NoFile => disk.state \in Snapshot
    BY <1>0 DEF Directory
  <2>2. /\ r \in ProcessState /\ Becomes(p, r) /\ r.stage = "opened" /\ r.key = proc[p].key
        /\ r.ver = IF disk.state = NoFile THEN 1 ELSE disk.state.ver
    <3>1. (IF disk.state = NoFile THEN 1 ELSE disk.state.ver) \in 0..MaxVersion
      BY <2>1, JournalAssumption DEF Snapshot
    <3>2. Becomes(p, r)
      BY <1>5 DEF Load
    <3> QED BY <1>0, <3>1, <3>2 DEF ProcessState, Stage
  <2>3. UNCHANGED <<disk, after, keys, acted>>
    BY <1>5 DEF Load
  <2>4. \A q \in Process : q # p => At(q, "down")
    BY <1>5, PastTheLock DEF Load, At
  <2>5. Held(p) /\ (proc[p].fresh => KeyIsSafe(p))
    BY <1>5 DEF Load, Inv, StageInv
  <2>6. IF disk.state = NoFile THEN proc[p].fresh ELSE disk.state.key = proc[p].key
    BY <1>5 DEF Load
  <2>7. KeyIsSafe(p)
    BY <1>0, <2>5, <2>6 DEF Inv, KeyIsSafe, Held
  <2>8. disk.state # NoFile => disk.state = [key |-> proc[p].key, ver |-> disk.state.ver]
    BY <2>1, <2>6 DEF Snapshot
  <2> HIDE DEF r
  <2>9. StageInv(p)'
    BY <1>0, <2>2, <2>3, <2>7, <2>8 DEF StageInv, At, Becomes, Held, KeyIsSafe, OnDisk
  <2> QED BY <1>0, <2>2, <2>3, <2>4, <2>9, StepInv DEF Inv
<1>6. ASSUME NEW p \in Process, OpenFails(p) \/ Stop(p) PROVE Inv'
  <2>1. Becomes(p, Down) /\ UNCHANGED <<disk, after, keys, acted>>
    BY <1>6 DEF OpenFails, Stop
  <2>2. \A q \in Process : q # p => At(q, "down")
    BY <1>6, PastTheLock DEF OpenFails, Stop, At
  <2>3. StageInv(p)'
    BY <1>0, <2>1 DEF StageInv, At, Becomes, Down
  <2> QED BY <1>0, <2>1, <2>2, <2>3, DownType, StepInv DEF Inv
<1>7. ASSUME NEW p \in Process, NEW v \in 0..MaxVersion, Write(p, v) PROVE Inv'
  <2> DEFINE r == [proc[p] EXCEPT !.stage = "renamed", !.ver = v]
             f == [key |-> proc[p].key, ver |-> v]
  <2>1. /\ disk' = [disk EXCEPT !.state = f]
        /\ after' = [after EXCEPT !.state = @ \cup {f}]
        /\ UNCHANGED <<keys, acted>>
    BY <1>7 DEF Write
  <2>2. r \in ProcessState /\ Becomes(p, r) /\ r.stage = "renamed" /\ r.key = proc[p].key /\ r.ver = v
    BY <1>0, <1>7 DEF Write, ProcessState, Stage
  <2>3. \A q \in Process : q # p => At(q, "down")
    BY <1>7, PastTheLock DEF Write, At
  <2>4. KeyIsSafe(p)
    BY <1>7 DEF Write, Inv, StageInv
  <2>5. v \in {acted, acted + 1} /\ v # 0
    <3>1. CASE At(p, "opened") /\ v = proc[p].ver
      <4>1. OnDisk(p) \/ (disk.state = NoFile /\ v = 1)
        BY <3>1 DEF Inv, StageInv
      <4>2. disk.state.ver \in {acted, acted + 1}
        BY DEF Inv
      <4>3. CASE disk.state = NoFile /\ v = 1
        BY <1>0, <4>2, <4>3 DEF NoFile
      <4>4. CASE OnDisk(p)
        <5>1. disk.state # NoFile /\ disk.state.ver = v
          BY <2>4, <3>1, <4>4 DEF OnDisk, KeyIsSafe, Held, NoFile
        <5>2. disk.state \in Snapshot
          BY <1>0, <5>1 DEF Directory
        <5> QED BY <4>2, <5>1, <5>2, SnapshotIsAFile
      <4> QED BY <4>1, <4>3, <4>4
    <3>2. CASE At(p, "serving") /\ v = proc[p].ver + 1
      <4>1. proc[p].ver = acted
        BY <3>2 DEF Inv, StageInv
      <4> QED BY <1>0, <3>2, <4>1
    <3> QED BY <1>7, <3>1, <3>2 DEF Write
  <2>6. f \in Snapshot
    BY <1>0, <2>4, <2>5 DEF Snapshot, KeyIsSafe, Held, ProcessState
  <2> HIDE DEF r
  <2>7. StageInv(p)'
    BY <1>0, <2>1, <2>2, <2>4 DEF StageInv, At, Becomes, Held, KeyIsSafe, OnDisk, Directory
  <2> HIDE DEF f
  <2>8. Present' /\ Recent' /\ Matching'
    <3>1. f.ver = v /\ f.key = proc[p].key
      BY DEF f
    <3>2. after'.state = after.state \cup {f} /\ after'.wrapping = after.wrapping
      BY <1>0, <2>1
    <3>3. disk'.state = f /\ disk'.wrapping = disk.wrapping
      BY <1>0, <2>1 DEF Directory
    <3> QED BY <2>1, <2>4, <2>5, <3>1, <3>2, <3>3 DEF Inv, KeyIsSafe
  <2>9. /\ disk' \in Directory
        /\ after' \in [wrapping : SUBSET (0..MaxKeys), state : SUBSET (Snapshot \cup {NoFile})]
    BY <1>0, <2>1, <2>6 DEF Directory
  <2> QED BY <1>0, <2>1, <2>2, <2>3, <2>7, <2>8, <2>9, StepInv
<1>8. ASSUME NEW p \in Process, Sync(p) PROVE Inv'
  <2> DEFINE r == [proc[p] EXCEPT !.stage = "serving"]
  <2>1. r \in ProcessState /\ Becomes(p, r) /\ r.stage = "serving" /\ r.key = proc[p].key /\ r.ver = proc[p].ver
    BY <1>0, <1>8 DEF Sync, GoesTo, Becomes, ProcessState, Stage
  <2>2. /\ after' = [wrapping |-> {disk.wrapping}, state |-> {disk.state}]
        /\ acted' = IF proc[p].ver > acted THEN proc[p].ver ELSE acted
        /\ UNCHANGED <<disk, keys>>
    BY <1>8 DEF Sync, DirectorySynced
  <2>3. \A q \in Process : q # p => At(q, "down")
    BY <1>8, PastTheLock DEF Sync, At
  <2>4. KeyIsSafe(p) /\ OnDisk(p)
    BY <1>8 DEF Sync, Inv, StageInv
  <2>5. proc[p].ver \in {acted, acted + 1} /\ disk.state.ver = proc[p].ver
    BY <2>4 DEF Inv, OnDisk
  <2>6. acted' = proc[p].ver /\ proc[p].ver \in 0..MaxVersion
    BY <1>0, <2>2, <2>5 DEF ProcessState
  <2> HIDE DEF r
  <2>7. StageInv(p)'
    BY <1>0, <2>1, <2>2, <2>4, <2>6 DEF StageInv, At, Becomes, Held, KeyIsSafe, OnDisk
  <2>8. Present' /\ Recent' /\ Matching'
    BY <2>2, <2>5, <2>6 DEF Inv
  <2>9. after' \in [wrapping : SUBSET (0..MaxKeys), state : SUBSET (Snapshot \cup {NoFile})]
    BY <1>0, <2>2 DEF Directory
  <2> QED BY <1>0, <2>1, <2>2, <2>3, <2>6, <2>7, <2>8, <2>9, StepInv
<1>9. ASSUME NEW p \in Process, WriteFails(p) PROVE Inv'
  <2> DEFINE r == [proc[p] EXCEPT !.stage = "broken"]
  <2>1. r \in ProcessState /\ Becomes(p, r) /\ r.stage = "broken"
    BY <1>0, <1>9 DEF WriteFails, GoesTo, Becomes, ProcessState, Stage
  <2>2. UNCHANGED <<disk, after, keys, acted>>
    BY <1>9 DEF WriteFails
  <2>3. \A q \in Process : q # p => At(q, "down")
    BY <1>9, PastTheLock DEF WriteFails, At
  <2> HIDE DEF r
  <2>4. StageInv(p)'
    BY <1>0, <2>1 DEF StageInv, At, Becomes
  <2> QED BY <1>0, <2>1, <2>2, <2>3, <2>4, StepInv DEF Inv
<1>10. ASSUME PowerLoss PROVE Inv'
  <2>1. PICK w \in after.wrapping, s \in after.state :
            /\ disk' = [wrapping |-> w, state |-> s]
            /\ after' = [wrapping |-> {w}, state |-> {s}]
    BY <1>10 DEF PowerLoss
  <2>2. proc' = [p \in Process |-> Down] /\ UNCHANGED <<keys, acted>>
    BY <1>10 DEF PowerLoss
  <2>3. TypeOK'
    BY <1>0, <2>1, <2>2, DownType DEF TypeOK, Directory, At, Down
  <2>4. Present' /\ Recent' /\ Matching'
    BY <2>1, <2>2 DEF Inv
  <2>5. \A p \in Process : StageInv(p)'
    BY <2>2 DEF StageInv, At, Down
  <2> QED BY <2>3, <2>4, <2>5 DEF Inv
<1>11. CASE UNCHANGED vars
  BY <1>11 DEF vars, Inv, TypeOK, StageInv, At, Held, KeyIsSafe, OnDisk
<1> QED BY <1>1, <1>2, <1>3, <1>4, <1>5, <1>6, <1>7, <1>8, <1>9, <1>10, <1>11 DEF Next

LEMMA Invariance == Spec => []Inv
<1>1. Init => Inv
  BY InitInv
<1>2. Inv /\ [Next]_vars => Inv'
  BY NextInv
<1> QED BY <1>1, <1>2, PTL DEF Spec

-----------------------------------------------------------------------------
(* At any moment, whatever a power loss would leave holds everything that  *)
(* was acted on (NET-006, EAGLE-004).                                      *)
THEOREM NothingActedOnIsLost == Spec => []ActedSurvives
<1>1. Inv => ActedSurvives
  BY DEF Inv, Recent, ActedSurvives, NoFile, TypeOK
<1> QED BY <1>1, Invariance, PTL

(* The snapshot always has its key, and a key without a snapshot, which    *)
(* closes the directory for good, only exists while nothing was acted on.  *)
THEOREM SnapshotAndKeyStayTogether == Spec => []Readable
<1>1. Inv => Readable
  BY DEF Inv, Recent, Matching, Readable, NoFile, TypeOK
<1> QED BY <1>1, Invariance, PTL

(* A process begins to serve with the last snapshot acted on or the next.  *)
THEOREM NoProcessGoesBack == Spec => NoRollback
<1>1. ASSUME Inv, Next, NEW p \in Process,
             proc'[p].stage = "serving", ~At(p, "serving")
      PROVE  proc'[p].ver \in {acted, acted + 1}
  <2>1. proc \in [Process -> ProcessState]
    BY <1>1 DEF Inv, TypeOK
  <2>2. Sync(p)
    <3>1. ~PowerLoss
      BY <1>1 DEF PowerLoss, Down
    <3>2. PICK q \in Process :
            \/ Lock(q) \/ ReadKey(q) \/ MakeKey(q) \/ SyncKey(q) \/ Load(q) \/ OpenFails(q)
            \/ \E v \in 0..MaxVersion : Write(q, v)
            \/ Sync(q) \/ WriteFails(q) \/ Stop(q)
      BY <1>1, <3>1 DEF Next
    <3>3. q = p
      BY <1>1, <2>1, <3>2 DEF Lock, ReadKey, MakeKey, SyncKey, Load, OpenFails, Write, Sync,
                              WriteFails, Stop, Becomes, GoesTo, At
    <3>4. proc[p] \in [stage : Stage, key : 0..MaxKeys, ver : 0..MaxVersion, fresh : BOOLEAN]
      BY <2>1 DEF ProcessState
    <3>5. CASE Lock(p) \/ SyncKey(p) \/ WriteFails(p)
      BY <1>1, <2>1, <3>4, <3>5 DEF Lock, SyncKey, WriteFails, GoesTo
    <3>6. CASE ReadKey(p)
      BY <1>1, <2>1, <3>4, <3>6 DEF ReadKey, Becomes
    <3>7. CASE MakeKey(p)
      BY <1>1, <2>1, <3>4, <3>7 DEF MakeKey, Becomes
    <3>8. CASE Load(p)
      BY <1>1, <2>1, <3>4, <3>8 DEF Load, Becomes
    <3>9. CASE OpenFails(p) \/ Stop(p)
      BY <1>1, <2>1, <3>9 DEF OpenFails, Stop, Down, Becomes
    <3>10. CASE \E v \in 0..MaxVersion : Write(p, v)
      BY <1>1, <2>1, <3>4, <3>10 DEF Write, Becomes
    <3> QED BY <3>2, <3>3, <3>5, <3>6, <3>7, <3>8, <3>9, <3>10
  <2>3. proc'[p].ver = proc[p].ver
    BY <2>1, <2>2 DEF Sync, GoesTo, ProcessState
  <2>4. OnDisk(p)
    BY <1>1, <2>2 DEF Sync, Inv, StageInv
  <2> QED BY <1>1, <2>3, <2>4 DEF Inv, Present, Recent, OnDisk
<1>2. Inv /\ [Next]_vars =>
        [\A p \in Process :
            proc'[p].stage = "serving" /\ ~At(p, "serving") => proc'[p].ver \in {acted, acted + 1}]_vars
  BY <1>1
<1> QED BY <1>2, Invariance, PTL DEF Spec, NoRollback

-----------------------------------------------------------------------------
(* The journal implements AtomicSave.                                      *)

ServesAlone(p) == At(p, "serving") /\ \A q \in Process : q # p => ~At(q, "serving")
NobodyServes == \A p \in Process : ~At(p, "serving")

LEMMA ServerAlone == ASSUME NEW p \in Process, ServesAlone(p) PROVE Server = {<<p, proc[p].ver>>}
BY DEF Server, ServesAlone

LEMMA ServerNone == NobodyServes => Server = {}
BY DEF Server, NobodyServes

(* The attempt that may be on disk is the next one, if there is any.       *)
LEMMA TriedIs ==
    ASSUME Inv
    PROVE  /\ acted \in Nat /\ Tried \in {acted, acted + 1}
           /\ \A s \in after.state : s.ver \in {acted, Tried}
           /\ (\A s \in after.state : s.ver = acted) => Tried = acted
<1>1. acted \in Nat /\ \A s \in after.state : s.ver \in {acted, acted + 1}
  BY JournalAssumption DEF Inv, TypeOK, Recent
<1> QED BY <1>1 DEF Tried

LEMMA InitSaves == Init => Saves!Init
<1> SUFFICES ASSUME Init PROVE Saves!Init
  OBVIOUS
<1>1. NobodyServes
  BY DEF Init, NobodyServes, At, Down
<1>2. Tried = 0
  BY DEF Init, Tried, NoFile
<1> QED BY <1>1, <1>2, ServerNone DEF Init, Saves!Init

(* A step that leaves nobody serving and acts on nothing: it begins or     *)
(* undoes a save, or lets it stand.                                        *)
LEMMA Aside ==
    ASSUME Inv, Inv', NobodyServes', acted' = acted
    PROVE  Saves!Next
<1>1. Server' = {}
  BY ServerNone DEF NobodyServes, Server, At
<1>2. Tried' \in {acted, acted + 1}
  BY DEF Tried
<1>3. CASE Tried' = acted
  BY <1>1, <1>3 DEF Saves!Next, Saves!Leave
<1>4. CASE Tried' = acted + 1
  BY <1>1, <1>4 DEF Saves!Next, Saves!Try
<1> QED BY <1>2, <1>3, <1>4

LEMMA NextSaves == Inv /\ Inv' /\ [Next]_vars => [Saves!Next]_<<Server, acted, Tried>>
<1> SUFFICES ASSUME Inv, Inv', [Next]_vars, ~UNCHANGED <<Server, acted, Tried>> PROVE Saves!Next
  OBVIOUS
<1>0. proc \in [Process -> ProcessState]
  BY DEF Inv, TypeOK
<1>1. CASE UNCHANGED vars
  BY <1>1 DEF vars, Server, Tried, At
<1>2. CASE PowerLoss
  <2>1. NobodyServes' /\ acted' = acted
    BY <1>2 DEF PowerLoss, NobodyServes, At, Down
  <2> QED BY <2>1, Aside
<1>3. ASSUME NEW p \in Process,
             \/ Lock(p) \/ ReadKey(p) \/ MakeKey(p) \/ SyncKey(p) \/ Load(p) \/ OpenFails(p)
             \/ \E v \in 0..MaxVersion : Write(p, v)
             \/ WriteFails(p) \/ Stop(p)
      PROVE  Saves!Next
  <2>1. acted' = acted /\ \A q \in Process : q # p => At(q, "down")
    BY <1>3, PastTheLock DEF Lock, ReadKey, MakeKey, SyncKey, Load, OpenFails, Write, WriteFails, Stop, At
  <2>2. proc'[p].stage # "serving" /\ \A q \in Process : q # p => proc'[q] = proc[q]
    <3> USE <1>0 DEF Becomes, GoesTo, ProcessState, Down
    <3>1. CASE Lock(p) \/ WriteFails(p) \/ SyncKey(p)
      BY <3>1 DEF Lock, WriteFails, SyncKey
    <3>2. CASE ReadKey(p)
      BY <3>2 DEF ReadKey
    <3>3. CASE MakeKey(p)
      BY <3>3 DEF MakeKey
    <3>4. CASE Load(p)
      BY <3>4 DEF Load
    <3>5. CASE OpenFails(p) \/ Stop(p)
      BY <3>5 DEF OpenFails, Stop
    <3>6. CASE \E v \in 0..MaxVersion : Write(p, v)
      BY <3>6 DEF Write
    <3> QED BY <1>3, <3>1, <3>2, <3>3, <3>4, <3>5, <3>6
  <2>3. NobodyServes'
    BY <2>1, <2>2 DEF NobodyServes, At
  <2> QED BY <2>1, <2>3, Aside
<1>4. ASSUME NEW p \in Process, Sync(p) PROVE Saves!Next
  <2>1. \A q \in Process : q # p => At(q, "down")
    BY <1>4, PastTheLock DEF Sync, At
  <2>2. NobodyServes
    BY <1>4, <2>1 DEF NobodyServes, Sync, At
  <2>3. proc' = [proc EXCEPT ![p].stage = "serving"] /\ proc[p].stage = "renamed"
    BY <1>4 DEF Sync, GoesTo, At
  <2>4. proc'[p].stage = "serving" /\ proc'[p].ver = proc[p].ver /\ \A q \in Process : q # p => proc'[q] = proc[q]
    BY <1>0, <2>3 DEF ProcessState
  <2>5. ServesAlone(p)'
    BY <2>1, <2>4 DEF ServesAlone, At
  <2>6. Server = {} /\ Server' = {<<p, proc[p].ver>>}
    BY <2>2, <2>4, <2>5, ServerNone, ServerAlone DEF ServesAlone, Server, At
  <2>7. KeyIsSafe(p) /\ OnDisk(p)
    BY <1>4 DEF Sync, Inv, StageInv
  <2>8. disk.state \in after.state /\ disk.state.ver = proc[p].ver
    BY <2>7 DEF Inv, Present, OnDisk
  <2>9. proc[p].ver \in {acted, Tried}
    BY <2>8, TriedIs
  <2>10. after'.state = {disk.state} /\ acted' = IF proc[p].ver > acted THEN proc[p].ver ELSE acted
    BY <1>4 DEF Sync, DirectorySynced
  <2>11. acted' = proc[p].ver
    BY <2>9, <2>10, TriedIs
  <2>12. Tried' = acted'
    BY <2>8, <2>10, <2>11 DEF Tried, Inv, TypeOK
  <2>13. proc[p].ver # 0
    <3>1. disk.state # NoFile
      BY <2>7 DEF KeyIsSafe, Held, OnDisk, NoFile
    <3>2. disk.state \in Snapshot
      BY <3>1 DEF Inv, TypeOK, Directory
    <3> QED BY <2>8, <3>2, SnapshotIsAFile
  <2>14. Saves!Serve(p)
    BY <2>6, <2>9, <2>11, <2>12, <2>13 DEF Saves!Serve
  <2> QED BY <2>14 DEF Saves!Next
<1> QED BY <1>1, <1>2, <1>3, <1>4 DEF Next

(* However processes compete, stop and lose power between the steps of     *)
(* Open and Save, the journal implements AtomicSave: one process acts at a *)
(* time, on the state kept last or on the one whose save was open, and     *)
(* that choice then stands.                                                *)
THEOREM SaveIsOneStep == Spec => SavesAtomically
<1>1. Inv /\ Inv' /\ [Next]_vars => [Saves!Next]_<<Server, acted, Tried>>
  BY NextSaves
<1> QED BY InitSaves, <1>1, Invariance, PTL DEF Spec, SavesAtomically, Saves!Spec
=============================================================================
