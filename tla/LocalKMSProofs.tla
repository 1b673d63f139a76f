--------------------------- MODULE LocalKMSProofs ---------------------------
(***************************************************************************)
(* Theorems about LocalKMS, for any inventory, number of associations and  *)
(* concurrent requests: no copy is handed out twice or out of date, the    *)
(* slave's copy only after the master's, and the gateway implements        *)
(* KeyDelivery; enc_keys answers with all keys of its batch or with none,  *)
(* and a key is held back by one reservation only, which can still be      *)
(* redeemed unless one of its keys has ended.                              *)
(***************************************************************************)
EXTENDS LocalKMS, FiniteSetTheorems, TLAPS

(* The repository remembers every copy handed out ...                      *)
Remembered ==
    \A k \in Key :
        /\ given["master"][k] <= 1 /\ given["slave"][k] <= 1
        /\ given["master"][k] = 1 => repo.keys[k].master = "CONSUMED"
        /\ given["slave"][k] = 1 => repo.keys[k].slave = "CONSUMED"

(* ... and releases the slave's copy only with the master's.               *)
Released ==
    \A k \in Key :
        (repo.keys[k].slave \in {"AVAILABLE", "CONSUMED"} \/ given["slave"][k] > 0)
            => given["master"][k] = 1

(* The slave's copy does not die while the master's can still be had.      *)
Together ==
    \A k \in Key : Copy(repo.keys[k].slave) = "dead" => Copy(repo.keys[k].master) \in {"given", "dead"}

Inv == TypeOK /\ Remembered /\ Released /\ Together

(* The later copies d of a key against the earlier copies e: nothing that  *)
(* was handed out is offered again, and the slave's copy is not released.  *)
Retains(e, d) ==
    /\ e.master = "CONSUMED" => d.master = "CONSUMED"
    /\ e.slave = "CONSUMED" => d.slave = "CONSUMED"
    /\ d.slave \in {"AVAILABLE", "CONSUMED"} => e.slave \in {"AVAILABLE", "CONSUMED"}

(* Seen from the applications, a copy only ever goes from offered to dead, *)
(* and the slave's does so together with the master's, or after it.        *)
Fades(e, d) ==
    /\ Copy(d.master) # Copy(e.master) => Copy(e.master) = "offered" /\ Copy(d.master) = "dead"
    /\ Copy(d.slave) # Copy(e.slave) => /\ Copy(e.slave) = "offered" /\ Copy(d.slave) = "dead"
                                        /\ Copy(d.master) \in {"given", "dead"}

(* The later repository m against the earlier one, l.                      *)
Keeps(l, m) ==
    /\ m \in Repository
    /\ \A k \in Key : Retains(l.keys[k], m.keys[k]) /\ Fades(l.keys[k], m.keys[k])

-----------------------------------------------------------------------------
(* What the operations of the repository do to the copies.                 *)

LEMMA CopyOfState ==
    /\ Copy("absent") = "none" /\ Copy("CONSUMED") = "given"
    /\ Copy("AVAILABLE") = "offered" /\ Copy("RESERVED") = "offered"
    /\ Copy("INVALID") = "dead" /\ Copy("EXPIRED") = "dead"
BY DEF Copy

(* One copy: a terminal state stays, any other ends in s. *)
LEMMA EndedFades ==
    ASSUME NEW x \in State, NEW s \in Terminal \ {"CONSUMED"}
    PROVE  /\ Ended(x, s) \in Terminal
           /\ x \in Terminal => Ended(x, s) = x
           /\ x \notin Terminal => /\ Ended(x, s) # "CONSUMED"
                                   /\ Copy(x) = "offered" /\ Copy(Ended(x, s)) = "dead"
<1>1. s \in {"INVALID", "EXPIRED"}
  BY DEF Terminal
<1>2. CASE x \in Terminal
  BY <1>2 DEF Ended
<1>3. CASE x \notin Terminal
  <2>1. Ended(x, s) = s /\ x \in {"AVAILABLE", "RESERVED"}
    BY <1>3 DEF Ended, State
  <2> QED BY <1>1, <1>3, <2>1, CopyOfState
<1> QED BY <1>2, <1>3

LEMMA DiscardedRetains ==
    ASSUME NEW e \in Entry, e.master # "absent", NEW s \in Terminal \ {"CONSUMED"}
    PROVE  /\ Discarded(e, s) \in Entry
           /\ Retains(e, Discarded(e, s)) /\ Fades(e, Discarded(e, s))
<1>1. e \in [pair : Pair, master : State, slave : State]
  BY DEF Entry
<1>2. Discarded(e, s) = [pair   |-> e.pair,
                         master |-> Ended(e.master, s), slave |-> Ended(e.slave, s)]
  <2>1. e = [pair |-> e.pair, master |-> e.master, slave |-> e.slave]
    BY <1>1
  <2> DEFINE f == [e EXCEPT !.master = Ended(e.master, s)]
  <2>2. f = [pair |-> e.pair, master |-> Ended(e.master, s), slave |-> e.slave]
    BY <2>1
  <2>3. Discarded(e, s) = [f EXCEPT !.slave = Ended(e.slave, s)]
    BY DEF Discarded
  <2> HIDE DEF f
  <2> QED BY <2>2, <2>3
<1> DEFINE d == [pair |-> e.pair, master |-> Ended(e.master, s), slave |-> Ended(e.slave, s)]
<1>3. e.master \in State /\ e.slave \in State /\ e.pair \in Pair
  BY <1>1
<1>4. d.master \in Terminal /\ d.slave \in Terminal
  BY <1>3, EndedFades
<1>5. d \in Entry
  BY <1>3, <1>4 DEF Entry, State
<1>6. Retains(e, d)
  BY <1>3, EndedFades DEF Retains, Terminal
<1>7. Copy(d.master) \in {"given", "dead"}
  BY <1>4, CopyOfState DEF Terminal
<1>8. Fades(e, d)
  BY <1>3, <1>7, EndedFades DEF Fades
<1>9. Discarded(e, s) = d
  BY <1>2
<1> HIDE DEF d
<1> QED BY <1>5, <1>6, <1>8, <1>9

LEMMA KeepsWithKeys ==
    ASSUME NEW m \in Repository, NEW f \in [Key -> Entry],
           \A k \in Key : Retains(m.keys[k], f[k]) /\ Fades(m.keys[k], f[k])
    PROVE  Keeps(m, [m EXCEPT !.keys = f])
BY DEF Keeps, Repository

LEMMA KeepsReflexive == ASSUME NEW m \in Repository PROVE Keeps(m, m)
BY DEF Keeps, Retains, Fades

LEMMA KeepsTransitive ==
    ASSUME NEW l, NEW m, NEW n, Keeps(l, m), Keeps(m, n)
    PROVE  Keeps(l, n)
BY DEF Keeps, Retains, Fades

LEMMA ExpireKeeps ==
    ASSUME NEW m \in Repository, NEW V, NEW P
    PROVE  Keeps(m, Expire(m, V, P))
<1> DEFINE f == [k \in Key |-> IF k \in V \cap P \cap Stored(m)
                              THEN Discarded(m.keys[k], "EXPIRED") ELSE m.keys[k]]
<1>1. ASSUME NEW k \in Key
      PROVE  f[k] \in Entry /\ Retains(m.keys[k], f[k]) /\ Fades(m.keys[k], f[k])
  <2>1. m.keys[k] \in Entry
    BY DEF Repository
  <2>2. "EXPIRED" \in Terminal \ {"CONSUMED"}
    BY DEF Terminal
  <2>3. CASE k \in V \cap P \cap Stored(m)
    <3>1. m.keys[k].master # "absent"
      BY <2>3 DEF Stored
    <3> QED BY <2>1, <2>2, <2>3, <3>1, DiscardedRetains
  <2>4. CASE k \notin V \cap P \cap Stored(m)
    BY <2>1, <2>4 DEF Retains, Fades
  <2> QED BY <2>3, <2>4
<1>2. Expire(m, V, P) = [m EXCEPT !.keys = f]
  BY DEF Expire
<1> HIDE DEF f
<1>3. f \in [Key -> Entry]
  BY <1>1 DEF f
<1> QED BY <1>1, <1>2, <1>3, KeepsWithKeys

(* A new key: its two copies appear, and nothing else changes. *)
LEMMA StoreKeyShape ==
    ASSUME NEW m \in Repository, NEW k \in Key, NEW a \in Pair, k \notin Stored(m)
    PROVE  /\ AfterStoreKey(m, k, a) \in Repository
           /\ m.keys[k].master = "absent" /\ m.keys[k].slave = "absent"
           /\ AfterStoreKey(m, k, a).keys[k].master = "AVAILABLE"
           /\ AfterStoreKey(m, k, a).keys[k].slave = "RESERVED"
           /\ \A x \in Key \ {k} : AfterStoreKey(m, k, a).keys[x] = m.keys[x]
<1> DEFINE e == [pair |-> a, master |-> "AVAILABLE", slave |-> "RESERVED"]
           f == [m.keys EXCEPT ![k] = e]
<1>1. e \in Entry
  BY DEF Entry, State
<1>2. m.keys[k].master = "absent" /\ m.keys[k].slave = "absent"
  <2>1. m.keys[k] \in Entry
    BY DEF Repository
  <2>2. m.keys[k].master = "absent"
    BY DEF Stored
  <2> QED BY <2>1, <2>2 DEF Entry, State, Terminal
<1>3. AfterStoreKey(m, k, a) =
        [keys |-> f, order |-> Append(m.order, k), reserved |-> m.reserved]
  <2>1. AfterStoreKey(m, k, a) = [m EXCEPT !.keys = f, !.order = Append(@, k)]
    BY DEF AfterStoreKey
  <2> HIDE DEF f, e
  <2> QED BY <2>1 DEF Repository
<1>4. m.order \in Seq(Key) /\ m.keys \in [Key -> Entry] /\ m.reserved \in [Token -> Reservation]
  BY DEF Repository
<1>5. Append(m.order, k) \in Seq(Key)
  BY <1>4
<1>6. f \in [Key -> Entry]
  BY <1>1, <1>4
<1>7. /\ f[k].master = "AVAILABLE" /\ f[k].slave = "RESERVED"
      /\ \A x \in Key \ {k} : f[x] = m.keys[x]
  BY <1>4
<1> HIDE DEF f, e
<1>8. AfterStoreKey(m, k, a) \in Repository
  BY <1>3, <1>4, <1>5, <1>6 DEF Repository
<1>9. AfterStoreKey(m, k, a).keys = f
  BY <1>3
<1> QED BY <1>2, <1>7, <1>8, <1>9

LEMMA ReserveKeysKeeps ==
    ASSUME NEW m \in Repository, NEW a \in Pair, NEW B \in SUBSET Key, NEW t \in Token,
           NEW P, B \subseteq Offerable(m, a, P)
    PROVE  Keeps(m, AfterReserveKeys(m, a, B, t, P))
<1> DEFINE e == Expire(m, Visited(m, B), P)
           f == [k \in Key |-> IF k \in B THEN [e.keys[k] EXCEPT !.master = "RESERVED"]
                              ELSE e.keys[k]]
           r == [e.reserved EXCEPT ![t] = [pair |-> a, ids |-> B]]
<1>1. Keeps(m, e)
  BY ExpireKeeps
<1>2. AfterReserveKeys(m, a, B, t, P) = [e EXCEPT !.keys = f, !.reserved = r]
  BY DEF AfterReserveKeys
<1>3. ASSUME NEW k \in B PROVE e.keys[k] = m.keys[k] /\ m.keys[k].master = "AVAILABLE"
  BY <1>3 DEF Offerable, Expire, Repository
<1> HIDE DEF e
<1>4. e \in Repository /\ e.keys \in [Key -> Entry] /\ e.reserved \in [Token -> Reservation]
  BY <1>1 DEF Keeps, Repository
<1>5. ASSUME NEW k \in Key
      PROVE  f[k] \in Entry /\ Retains(e.keys[k], f[k]) /\ Fades(e.keys[k], f[k])
  <2>1. CASE k \in B
    <3>1. e.keys[k] \in Entry /\ e.keys[k].master = "AVAILABLE"
      BY <1>3, <1>4, <2>1
    <3>2. f[k] = [e.keys[k] EXCEPT !.master = "RESERVED"]
      BY <2>1
    <3> HIDE DEF f
    <3> QED BY <3>1, <3>2 DEF Entry, State, Retains, Fades, Copy, Terminal
  <2>2. CASE k \notin B
    BY <1>4, <2>2 DEF Retains, Fades
  <2> QED BY <2>1, <2>2
<1>6. r \in [Token -> Reservation]
  BY <1>4 DEF Reservation
<1> HIDE DEF f, r
<1>7. f \in [Key -> Entry]
  BY <1>5 DEF f
<1>8. [e EXCEPT !.keys = f, !.reserved = r] \in Repository
  BY <1>4, <1>6, <1>7 DEF Repository
<1>9. [e EXCEPT !.keys = f, !.reserved = r].keys = f
  BY <1>4 DEF Repository
<1>10. Keeps(e, AfterReserveKeys(m, a, B, t, P))
  BY <1>2, <1>5, <1>8, <1>9 DEF Keeps
<1> QED BY <1>1, <1>10, KeepsTransitive

LEMMA InvalidateKeyKeeps ==
    ASSUME NEW m \in Repository, NEW k \in Stored(m), NEW P
    PROVE  Keeps(m, AfterInvalidateKey(m, k, P))
<1> DEFINE e == Expire(m, {k}, P)
           f == [e.keys EXCEPT ![k] = Discarded(@, "INVALID")]
<1>1. Keeps(m, e)
  BY ExpireKeeps
<1>2. k \in Key /\ m.keys[k].master # "absent" /\ m.keys[k] \in Entry
  BY DEF Stored, Repository
<1>3. e.keys[k].master # "absent"
  BY <1>2 DEF Expire, Repository, Discarded, Ended, Entry, State, Terminal
<1>4. AfterInvalidateKey(m, k, P) = [e EXCEPT !.keys = f]
  BY DEF AfterInvalidateKey
<1> HIDE DEF e
<1>5. e \in Repository /\ e.keys \in [Key -> Entry]
  BY <1>1 DEF Keeps, Repository
<1>6. /\ Discarded(e.keys[k], "INVALID") \in Entry
      /\ Retains(e.keys[k], Discarded(e.keys[k], "INVALID"))
      /\ Fades(e.keys[k], Discarded(e.keys[k], "INVALID"))
  BY <1>2, <1>3, <1>5, DiscardedRetains DEF Terminal
<1>7. f \in [Key -> Entry] /\ \A x \in Key : Retains(e.keys[x], f[x]) /\ Fades(e.keys[x], f[x])
  BY <1>5, <1>6 DEF Retains, Fades
<1> HIDE DEF f
<1>8. Keeps(e, AfterInvalidateKey(m, k, P))
  BY <1>4, <1>5, <1>7, KeepsWithKeys
<1> QED BY <1>1, <1>8, KeepsTransitive

LEMMA ConsumeReservationShape ==
    ASSUME NEW m \in Repository, NEW t \in Token, NEW a, NEW P,
           CanConsumeReservation(m, a, t, P)
    PROVE  /\ AfterConsumeReservation(m, t) \in Repository
           /\ m.reserved[t].ids \subseteq Key
           /\ \A k \in Key \ m.reserved[t].ids :
                AfterConsumeReservation(m, t).keys[k] = m.keys[k]
           /\ \A k \in m.reserved[t].ids :
                /\ m.keys[k].master = "RESERVED"
                /\ AfterConsumeReservation(m, t).keys[k].master = "CONSUMED"
                /\ AfterConsumeReservation(m, t).keys[k].slave = "AVAILABLE"
<1> DEFINE B == m.reserved[t].ids
           f == [k \in Key |-> IF k \in B
                              THEN [m.keys[k] EXCEPT !.master = "CONSUMED", !.slave = "AVAILABLE"]
                              ELSE m.keys[k]]
           r == [m.reserved EXCEPT ![t] = [pair |-> NoPair, ids |-> {}]]
<1>1. m.keys \in [Key -> Entry] /\ m.reserved \in [Token -> Reservation]
  BY DEF Repository
<1>2. B \subseteq Key
  BY <1>1 DEF Reservation
<1>3. ASSUME NEW k \in B PROVE m.keys[k].master = "RESERVED"
  BY <1>3 DEF CanConsumeReservation, Unreserved
<1>4. AfterConsumeReservation(m, t) = [m EXCEPT !.keys = f, !.reserved = r]
  BY DEF AfterConsumeReservation
<1>5. NoPair \in Pair
  BY MemoryAssumption DEF NoPair
<1>6. r \in [Token -> Reservation]
  BY <1>1, <1>5 DEF Reservation
<1> HIDE DEF r
<1>7. ASSUME NEW k \in B
      PROVE  f[k] \in Entry /\ f[k].master = "CONSUMED" /\ f[k].slave = "AVAILABLE"
  <2>1. m.keys[k] \in Entry /\ m.keys[k].master = "RESERVED"
    BY <1>1, <1>2, <1>3, <1>7
  <2>2. f[k] = [m.keys[k] EXCEPT !.master = "CONSUMED", !.slave = "AVAILABLE"]
    BY <1>2, <1>7
  <2> HIDE DEF f, B
  <2> QED BY <2>1, <2>2 DEF Entry, State, Terminal
<1>8. ASSUME NEW k \in Key \ B PROVE f[k] = m.keys[k]
  BY <1>8
<1>9. f \in [Key -> Entry]
  <2>1. \A k \in Key : f[k] \in Entry
    BY <1>1, <1>7, <1>8
  <2> QED BY <2>1
<1> HIDE DEF f, B
<1>10. [m EXCEPT !.keys = f, !.reserved = r] \in Repository
  BY <1>6, <1>9 DEF Repository
<1>11. [m EXCEPT !.keys = f, !.reserved = r].keys = f
  BY DEF Repository
<1> QED BY <1>2, <1>3, <1>4, <1>7, <1>8, <1>10, <1>11 DEF B

LEMMA ConsumePeerKeysShape ==
    ASSUME NEW m \in Repository, NEW a, NEW B \in SUBSET Key, NEW P,
           CanConsumePeerKeys(m, a, B, P)
    PROVE  /\ AfterConsumePeerKeys(m, B) \in Repository
           /\ \A k \in Key \ B : AfterConsumePeerKeys(m, B).keys[k] = m.keys[k]
           /\ \A k \in B :
                /\ m.keys[k].slave = "AVAILABLE"
                /\ AfterConsumePeerKeys(m, B).keys[k].master = m.keys[k].master
                /\ AfterConsumePeerKeys(m, B).keys[k].slave = "CONSUMED"
<1> DEFINE f == [k \in Key |-> IF k \in B THEN [m.keys[k] EXCEPT !.slave = "CONSUMED"]
                              ELSE m.keys[k]]
<1>1. m.keys \in [Key -> Entry]
  BY DEF Repository
<1>2. ASSUME NEW k \in B PROVE m.keys[k].slave = "AVAILABLE"
  BY <1>2 DEF CanConsumePeerKeys, Undeliverable
<1>3. AfterConsumePeerKeys(m, B) = [m EXCEPT !.keys = f]
  BY DEF AfterConsumePeerKeys
<1>4. ASSUME NEW k \in B
      PROVE  f[k] \in Entry /\ f[k].master = m.keys[k].master /\ f[k].slave = "CONSUMED"
  <2>1. m.keys[k] \in Entry /\ m.keys[k].slave = "AVAILABLE"
    BY <1>1, <1>2, <1>4
  <2>2. f[k] = [m.keys[k] EXCEPT !.slave = "CONSUMED"]
    BY <1>4
  <2> HIDE DEF f
  <2> QED BY <2>1, <2>2 DEF Entry, State, Terminal
<1>5. ASSUME NEW k \in Key \ B PROVE f[k] = m.keys[k]
  BY <1>5
<1>6. f \in [Key -> Entry]
  <2>1. \A k \in Key : f[k] \in Entry
    BY <1>1, <1>4, <1>5
  <2> QED BY <2>1
<1> HIDE DEF f
<1>7. [m EXCEPT !.keys = f] \in Repository /\ [m EXCEPT !.keys = f].keys = f
  BY <1>6 DEF Repository
<1> QED BY <1>2, <1>3, <1>4, <1>5, <1>7

-----------------------------------------------------------------------------
(* The invariant.                                                          *)

(* A step that only lets copies fade, and hands out nothing. *)
Fading ==
    /\ Keeps(repo, repo')
    /\ past' \subseteq Key /\ call' \in [Caller -> Call] /\ reply' \in [Caller -> Reply]
    /\ given' = given

LEMMA QuietStep ==
    ASSUME Inv, Fading
    PROVE  Inv'
<1>1. TypeOK'
  BY DEF Inv, TypeOK, Fading, Keeps
<1>2. Remembered'
  BY DEF Inv, Remembered, Fading, Keeps, Retains
<1>3. Released'
  BY DEF Inv, Released, Remembered, Fading, Keeps, Retains
<1>4. Together'
  BY DEF Inv, Together, Fading, Keeps, Fades
<1> QED BY <1>1, <1>2, <1>3, <1>4 DEF Inv

LEMMA InitInv == Init => Inv
<1> SUFFICES ASSUME Init PROVE Inv
  OBVIOUS
<1>1. NoPair \in Pair /\ (CHOOSE t \in Token : TRUE) \in Token
  BY MemoryAssumption DEF NoPair
<1>2. NewMemory \in Repository
  <2>1. [k \in Key |-> [pair |-> NoPair, master |-> "absent", slave |-> "absent"]] \in [Key -> Entry]
    BY <1>1 DEF Entry
  <2>2. [t \in Token |-> [pair |-> NoPair, ids |-> {}]] \in [Token -> Reservation]
    BY <1>1 DEF Reservation
  <2>3. << >> \in Seq(Key)
    OBVIOUS
  <2> QED BY <2>1, <2>2, <2>3 DEF NewMemory, Repository
<1>3. Idle \in Call
  BY <1>1, MemoryAssumption DEF Idle, Call
<1>4. call \in [Caller -> Call]
  BY <1>3 DEF Init
<1>5. given \in [Side -> [Key -> 0..2]] /\ \A s \in Side, k \in Key : given[s][k] = 0
  BY DEF Init
<1>6. TypeOK
  <2>1. NoKeys \in Reply
    BY MemoryAssumption DEF NoKeys, Reply
  <2> QED BY <1>2, <1>4, <1>5, <2>1 DEF Init, TypeOK
<1>7. \A k \in Key : repo.keys[k].slave = "absent"
  BY DEF Init, NewMemory
<1>8. Remembered
  BY <1>5 DEF Remembered, Side
<1>9. Released
  BY <1>5, <1>7 DEF Released, Side
<1>10. Together
  BY <1>7, CopyOfState DEF Together
<1> QED BY <1>6, <1>8, <1>9, <1>10 DEF Inv

LEMMA IdleCall ==
    ASSUME Inv, NEW c \in Caller PROVE [call EXCEPT ![c] = Idle] \in [Caller -> Call]
<1>1. Idle \in Call
  BY MemoryAssumption DEF Idle, Call, NoPair
<1> QED BY <1>1 DEF Inv, TypeOK

LEMMA HandedOut ==
    ASSUME given \in [Side -> [Key -> 0..2]], NEW s \in Side, NEW B \in SUBSET Key, Hand(s, B),
           \A k \in B : given[s][k] = 0
    PROVE  /\ given' \in [Side -> [Key -> 0..2]]
           /\ \A k \in B : given'[s][k] = 1
           /\ \A k \in Key \ B : given'[s][k] = given[s][k]
           /\ \A x \in Side \ {s} : given'[x] = given[x]
<1> DEFINE g == [k \in Key |-> IF k \in B /\ given[s][k] < 2 THEN given[s][k] + 1 ELSE given[s][k]]
<1>1. given' = [given EXCEPT ![s] = g]
  BY DEF Hand
<1>2. /\ g \in [Key -> 0..2]
      /\ \A k \in B : g[k] = 1
      /\ \A k \in Key \ B : g[k] = given[s][k]
  <2>1. \A k \in Key : given[s][k] \in 0..2
    OBVIOUS
  <2> QED BY <2>1
<1> HIDE DEF g
<1> QED BY <1>1, <1>2

LEMMA ConsumeInv == ASSUME Inv, NEW c \in Caller, EncConsume(c) PROVE Inv'
<1> DEFINE t == call[c].token
           B == repo.reserved[t].ids
<1>1. t \in Token /\ repo \in Repository /\ given \in [Side -> [Key -> 0..2]]
  BY DEF Inv, TypeOK, Call
<1>2. /\ CanConsumeReservation(repo, call[c].pair, t, past)
      /\ repo' = AfterConsumeReservation(repo, t)
      /\ Hand("master", B)
      /\ call' = [call EXCEPT ![c] = Idle]
  BY DEF EncConsume
<1> HIDE DEF t
<1>3. /\ repo' \in Repository
      /\ B \subseteq Key
      /\ \A k \in Key \ B : repo'.keys[k] = repo.keys[k]
      /\ \A k \in B : /\ repo.keys[k].master = "RESERVED"
                      /\ repo'.keys[k].master = "CONSUMED"
                      /\ repo'.keys[k].slave = "AVAILABLE"
  BY <1>1, <1>2, ConsumeReservationShape
<1> HIDE DEF B
<1>4. \A k \in Key : given["master"][k] \in 0..2 /\ given["slave"][k] \in 0..2
  BY <1>1 DEF Side
<1>5. \A k \in B : given["master"][k] = 0 /\ given["slave"][k] = 0
  BY <1>3, <1>4 DEF Inv, Remembered, Released
<1>6. /\ given' \in [Side -> [Key -> 0..2]]
      /\ \A k \in B : given'["master"][k] = 1
      /\ \A k \in Key \ B : given'["master"][k] = given["master"][k]
      /\ given'["slave"] = given["slave"]
  BY <1>1, <1>2, <1>3, <1>5, HandedOut DEF Side
<1>7. TypeOK'
  <2>1. call[c].count \in 0..MaxBatch
    BY DEF Inv, TypeOK, Call
  <2>2. reply' = [reply EXCEPT ![c] = [asked |-> call[c].count, got |-> B]] /\ past' = past
    BY DEF EncConsume, B, t
  <2>3. [asked |-> call[c].count, got |-> B] \in Reply
    BY <1>3, <2>1 DEF Reply
  <2>4. reply' \in [Caller -> Reply] /\ past' \subseteq Key
    BY <2>2, <2>3 DEF Inv, TypeOK
  <2> QED BY <1>2, <1>3, <1>6, <2>4, IdleCall DEF TypeOK
<1>8. Remembered'
  BY <1>3, <1>5, <1>6 DEF Inv, Remembered
<1>9. Released'
  BY <1>3, <1>5, <1>6 DEF Inv, Released
<1>10. Together'
  BY <1>3, CopyOfState DEF Inv, Together
<1> QED BY <1>7, <1>8, <1>9, <1>10 DEF Inv

LEMMA DecShape ==
    ASSUME NEW a \in Pair, NEW B \in SUBSET Key, repo \in Repository, Dec(a, B)
    PROVE  /\ repo' \in Repository
           /\ \A k \in Key \ B : repo'.keys[k] = repo.keys[k]
           /\ \A k \in B : /\ repo.keys[k].slave = "AVAILABLE"
                           /\ repo'.keys[k].master = repo.keys[k].master
                           /\ repo'.keys[k].slave = "CONSUMED"
<1> DEFINE m == AfterConsumePeerKeys(repo, B)
<1>1. CanConsumePeerKeys(repo, a, B, past) /\ repo' = m
  BY DEF Dec
<1>2. /\ m \in Repository
      /\ \A k \in Key \ B : m.keys[k] = repo.keys[k]
      /\ \A k \in B : /\ repo.keys[k].slave = "AVAILABLE"
                      /\ m.keys[k].master = repo.keys[k].master
                      /\ m.keys[k].slave = "CONSUMED"
  BY <1>1, ConsumePeerKeysShape, Zenon
<1> HIDE DEF m
<1> QED BY <1>1, <1>2

LEMMA DecInv == ASSUME Inv, NEW a \in Pair, NEW B \in SUBSET Key, Dec(a, B) PROVE Inv'
<1>1. repo \in Repository /\ given \in [Side -> [Key -> 0..2]]
  BY DEF Inv, TypeOK
<1>2. /\ CanConsumePeerKeys(repo, a, B, past)
      /\ repo' = AfterConsumePeerKeys(repo, B)
      /\ Hand("slave", B)
      /\ call' = call /\ past' = past /\ reply' = reply
  BY DEF Dec
<1>3. /\ repo' \in Repository
      /\ \A k \in Key \ B : repo'.keys[k] = repo.keys[k]
      /\ \A k \in B : /\ repo.keys[k].slave = "AVAILABLE"
                      /\ repo'.keys[k].master = repo.keys[k].master
                      /\ repo'.keys[k].slave = "CONSUMED"
  BY <1>1, <1>2, DecShape
<1>4. \A k \in Key : given["master"][k] \in 0..2 /\ given["slave"][k] \in 0..2
  BY <1>1 DEF Side
<1>5. \A k \in B : given["slave"][k] = 0 /\ given["master"][k] = 1
  BY <1>3, <1>4 DEF Inv, Remembered, Released
<1>6. /\ given' \in [Side -> [Key -> 0..2]]
      /\ \A k \in B : given'["slave"][k] = 1
      /\ \A k \in Key \ B : given'["slave"][k] = given["slave"][k]
      /\ given'["master"] = given["master"]
  BY <1>1, <1>2, <1>5, HandedOut DEF Side
<1>7. TypeOK'
  BY <1>2, <1>3, <1>6 DEF Inv, TypeOK
<1>8. Remembered'
  BY <1>3, <1>5, <1>6 DEF Inv, Remembered
<1>9. Released'
  BY <1>3, <1>5, <1>6 DEF Inv, Released
<1>10. Together'
  BY <1>3, CopyOfState DEF Inv, Together
<1> QED BY <1>7, <1>8, <1>9, <1>10 DEF Inv

LEMMA StoreInv == ASSUME Inv, NEW k \in Key, NEW a \in Pair, StoreKey(k, a) PROVE Inv'
<1>1. repo \in Repository /\ call' = call /\ past' = past /\ reply' = reply /\ given' = given
  BY DEF Inv, TypeOK, StoreKey
<1>2. /\ repo' \in Repository
      /\ repo.keys[k].master = "absent" /\ repo.keys[k].slave = "absent"
      /\ repo'.keys[k].master = "AVAILABLE" /\ repo'.keys[k].slave = "RESERVED"
      /\ \A x \in Key \ {k} : repo'.keys[x] = repo.keys[x]
  BY <1>1, StoreKeyShape DEF StoreKey, CanStoreKey
<1>3. TypeOK'
  BY <1>1, <1>2 DEF Inv, TypeOK
<1>4. Remembered'
  BY <1>1, <1>2 DEF Inv, Remembered
<1>5. Released'
  BY <1>1, <1>2 DEF Inv, Released
<1>6. Together'
  BY <1>2, CopyOfState DEF Inv, Together
<1> QED BY <1>3, <1>4, <1>5, <1>6 DEF Inv

LEMMA EncSteps == ASSUME Inv, NEW c \in Caller, Enc(c) PROVE Fading \/ EncConsume(c)
<1>1. repo \in Repository /\ past \subseteq Key /\ call \in [Caller -> Call] /\ reply \in [Caller -> Reply]
  BY DEF Inv, TypeOK
<1>2. ASSUME NEW a \in Pair, NEW n \in 1..MaxBatch, EncUnavailable(c, a, n) PROVE Fading
  BY <1>1, <1>2, ExpireKeeps DEF EncUnavailable, AfterReserveKeysFails, Fading
<1>3. ASSUME NEW a \in Pair, NEW n \in 1..MaxBatch, NEW B \in SUBSET Key, NEW t \in Token,
             EncReserve(c, a, n, B, t)
      PROVE  Fading
  <2>1. Keeps(repo, repo')
    BY <1>1, <1>3, ReserveKeysKeeps DEF EncReserve, CanReserveKeys
  <2>2. [stage |-> "reserved", pair |-> a, token |-> t, count |-> n] \in Call
    BY MemoryAssumption DEF Call
  <2>3. call' \in [Caller -> Call] /\ given' = given
    BY <1>1, <1>3, <2>2 DEF EncReserve
  <2>4. reply' \in [Caller -> Reply] /\ past' \subseteq Key
    BY <1>1, <1>3, MemoryAssumption DEF EncReserve, NoKeys, Reply
  <2> QED BY <2>1, <2>3, <2>4 DEF Fading
<1>4. CASE EncFails(c)
  <2>1. PICK k : repo' = AfterConsumeReservationFails(repo, call[c].token, k, past)
    BY <1>4 DEF EncFails
  <2>2. Keeps(repo, repo')
    BY <1>1, <2>1, ExpireKeeps DEF AfterConsumeReservationFails
  <2>3. call' \in [Caller -> Call] /\ UNCHANGED <<past, reply, given>>
    BY <1>4, IdleCall DEF EncFails
  <2> QED BY <1>1, <2>2, <2>3 DEF Fading
<1> QED BY <1>2, <1>3, <1>4 DEF Enc

(* The steps of the gateway, sorted by what the applications see of them.  *)
LEMMA KindsOfStep ==
    ASSUME Inv, [Next]_vars
    PROVE  \/ Fading
           \/ \E k \in Key, a \in Pair : StoreKey(k, a)
           \/ \E c \in Caller : EncConsume(c)
           \/ \E a \in Pair, B \in SUBSET Key : Dec(a, B)
<1>1. repo \in Repository /\ past \subseteq Key /\ call \in [Caller -> Call] /\ reply \in [Caller -> Reply]
  BY DEF Inv, TypeOK
<1>2. ASSUME NEW k \in Key, Pass(k) PROVE Fading
  BY <1>1, <1>2, KeepsReflexive DEF Pass, Fading
<1>3. ASSUME NEW a \in Pair, NEW k \in Key, DecFails(a, k) PROVE Fading
  BY <1>1, <1>3, KeepsReflexive, ExpireKeeps DEF DecFails, AfterConsumePeerKeysFails, Fading
<1>4. ASSUME NEW k \in Key, InvalidateKey(k) PROVE Fading
  BY <1>1, <1>4, InvalidateKeyKeeps DEF InvalidateKey, Fading
<1>5. CASE Look
  <2>1. Keeps(repo, repo')
    BY <1>1, <1>5, ExpireKeeps DEF Look, AfterInventory, AfterMetadata
  <2> QED BY <1>1, <1>5, <2>1 DEF Look, Fading
<1>6. CASE UNCHANGED vars
  BY <1>1, <1>6, KeepsReflexive DEF vars, Fading
<1> QED BY <1>2, <1>3, <1>4, <1>5, <1>6, EncSteps DEF Next

LEMMA NextInv == Inv /\ [Next]_vars => Inv'
<1> SUFFICES ASSUME Inv, [Next]_vars PROVE Inv'
  OBVIOUS
<1>1. CASE Fading
  BY <1>1, QuietStep
<1> QED BY <1>1, KindsOfStep, StoreInv, ConsumeInv, DecInv

THEOREM InvHolds == Spec => []Inv
BY InitInv, NextInv, PTL DEF Spec

-----------------------------------------------------------------------------
(* The results.                                                            *)

(* No copy of any key is handed out twice: between the reservation and the *)
(* consumption of an enc_keys request any other request may run, and the   *)
(* state of the copy alone tells that it is gone.                          *)
THEOREM HandedOutOnce == Spec => []DeliveredOnce
<1>1. Inv => DeliveredOnce
  BY DEF Inv, Remembered, DeliveredOnce, Side
<1> QED BY <1>1, InvHolds, PTL

(* A copy that is handed out was in the state for it, and its lifetime was *)
(* not over, although expiry is noticed only when an operation looks.      *)
THEOREM NothingStaleIsDelivered == Spec => NoStaleDelivery
<1> DEFINE Step == /\ \A s \in Side, k \in Key : given'[s][k] > given[s][k] => k \notin past
                   /\ \A k \in Key : given'["master"][k] > given["master"][k] => repo.keys[k].master = "RESERVED"
                   /\ \A k \in Key : given'["slave"][k] > given["slave"][k] => repo.keys[k].slave = "AVAILABLE"
<1>1. ASSUME Inv, [Next]_vars PROVE Step
  <2> USE <1>1
  <2>1. given \in [Side -> [Key -> 0..2]] /\ repo \in Repository /\ call \in [Caller -> Call]
    BY DEF Inv, TypeOK
  <2>2. CASE given' = given
    BY <2>1, <2>2 DEF Side
  <2>3. ASSUME NEW c \in Caller, EncConsume(c) PROVE Step
    <3> DEFINE t == call[c].token
               B == repo.reserved[t].ids
    <3>1. t \in Token /\ B \in SUBSET Key
      BY <2>1 DEF Call, Repository, Reservation
    <3>2. \A k \in B : k \notin past /\ repo.keys[k].master = "RESERVED"
      BY <2>3 DEF EncConsume, CanConsumeReservation, Unreserved
    <3>3. Hand("master", B)
      BY <2>3 DEF EncConsume
    <3> HIDE DEF B, t
    <3>4. \A k \in Key : given'["slave"][k] = given["slave"][k]
      BY <2>1, <3>3 DEF Hand, Side
    <3>5. \A k \in Key \ B : given'["master"][k] = given["master"][k]
      BY <2>1, <3>3 DEF Hand, Side
    <3>6. \A s \in Side, k \in Key : given[s][k] \in 0..2
      BY <2>1
    <3> QED BY <3>1, <3>2, <3>4, <3>5, <3>6 DEF Side
  <2>4. ASSUME NEW a \in Pair, NEW B \in SUBSET Key, Dec(a, B) PROVE Step
    <3>1. \A k \in B : k \notin past /\ repo.keys[k].slave = "AVAILABLE"
      BY <2>4 DEF Dec, CanConsumePeerKeys, Undeliverable
    <3>2. Hand("slave", B)
      BY <2>4 DEF Dec
    <3>3. \A k \in Key : given'["master"][k] = given["master"][k]
      BY <2>1, <3>2 DEF Hand, Side
    <3>4. \A k \in Key \ B : given'["slave"][k] = given["slave"][k]
      BY <2>1, <3>2 DEF Hand, Side
    <3>5. \A s \in Side, k \in Key : given[s][k] \in 0..2
      BY <2>1
    <3> QED BY <3>1, <3>3, <3>4, <3>5 DEF Side
  <2> QED BY <2>2, <2>3, <2>4, KindsOfStep DEF Fading, StoreKey
<1>2. Inv /\ [Next]_vars => [Step]_vars
  BY <1>1
<1> QED BY <1>2, InvHolds, PTL DEF Spec, NoStaleDelivery

(* The slave's copy is released, and handed out, only after the master's.  *)
THEOREM MasterComesFirst == Spec => []SlaveAfterMaster
<1>1. Inv => SlaveAfterMaster
  BY DEF Inv, Released, SlaveAfterMaster
<1> QED BY <1>1, InvHolds, PTL

-----------------------------------------------------------------------------
(* The gateway implements KeyDelivery.                                     *)

LEMMA CopiesOf ==
    \A k \in Key : /\ MasterCopy[k] = Copy(repo.keys[k].master)
                   /\ SlaveCopy[k] = Copy(repo.keys[k].slave)
                   /\ MasterCopy'[k] = Copy(repo'.keys[k].master)
                   /\ SlaveCopy'[k] = Copy(repo'.keys[k].slave)
BY DEF MasterCopy, SlaveCopy

LEMMA EntryCopies ==
    ASSUME NEW e \in Entry
    PROVE  /\ Copy(e.master) \in Promise!MasterState /\ Copy(e.slave) \in Promise!SlaveState
           /\ Copy(e.master) = "none" => Copy(e.slave) = "none"
<1>1. CASE e.master \in State /\ e.slave \in State
  BY <1>1, CopyOfState DEF State, Terminal, Promise!MasterState, Promise!SlaveState
<1>2. CASE e.master = "absent" /\ e.slave = "absent"
  BY <1>2, CopyOfState DEF Promise!MasterState, Promise!SlaveState
<1> QED BY <1>1, <1>2 DEF Entry

(* Whatever fades is discarded. *)
LEMMA FadingDiscards == ASSUME Inv, Fading PROVE Promise!Discard
<1>1. repo \in Repository /\ repo' \in Repository
  BY DEF Inv, TypeOK, Fading, Keeps
<1>2. \A k \in Key : repo.keys[k] \in Entry /\ repo'.keys[k] \in Entry
  BY <1>1 DEF Repository
<1>3. MasterCopy' \in [Key -> Promise!MasterState] /\ SlaveCopy' \in [Key -> Promise!SlaveState]
  BY <1>2, EntryCopies DEF MasterCopy, SlaveCopy
<1>4. \A k \in Key : MasterCopy'[k] # MasterCopy[k] =>
          MasterCopy[k] \in {"stored", "offered"} /\ MasterCopy'[k] = "dead"
  BY CopiesOf DEF Fading, Keeps, Fades
<1>5. ASSUME NEW k \in Key, SlaveCopy'[k] # SlaveCopy[k]
      PROVE  /\ SlaveCopy[k] \in {"none", "offered"} /\ SlaveCopy'[k] = "dead"
             /\ MasterCopy[k] # "none"
  <2>1. SlaveCopy[k] = "offered" /\ SlaveCopy'[k] = "dead"
    BY <1>5, CopiesOf DEF Fading, Keeps, Fades
  <2>2. MasterCopy[k] # "none"
    BY <1>2, <2>1, CopiesOf, EntryCopies
  <2> QED BY <2>1, <2>2
<1> QED BY <1>3, <1>4, <1>5 DEF Promise!Discard

LEMMA StorePromises ==
    ASSUME Inv, NEW k \in Key, NEW a \in Pair, StoreKey(k, a) PROVE Promise!Provision(k)
<1>1. repo \in Repository /\ k \notin Stored(repo) /\ repo' = AfterStoreKey(repo, k, a)
  BY DEF Inv, TypeOK, StoreKey, CanStoreKey
<1>2. /\ repo.keys[k].master = "absent" /\ repo.keys[k].slave = "absent"
      /\ repo'.keys[k].master = "AVAILABLE" /\ repo'.keys[k].slave = "RESERVED"
      /\ \A x \in Key \ {k} : repo'.keys[x] = repo.keys[x]
  BY <1>1, StoreKeyShape
<1>3. MasterCopy[k] = "none" /\ SlaveCopy[k] = "none"
  BY <1>2, CopiesOf, CopyOfState
<1>4. /\ MasterCopy' = [x \in Key |-> IF x \in {k} THEN "offered" ELSE MasterCopy[x]]
      /\ SlaveCopy' = [x \in Key |-> IF x \in {k} THEN "offered" ELSE SlaveCopy[x]]
  BY <1>2, CopyOfState DEF MasterCopy, SlaveCopy
<1> QED BY <1>3, <1>4 DEF Promise!Provision, Promise!Move

LEMMA ConsumePromises ==
    ASSUME Inv, NEW c \in Caller, EncConsume(c)
    PROVE  \E B \in SUBSET Key : Promise!GiveMaster(B)
<1> DEFINE t == call[c].token
           B == repo.reserved[t].ids
<1>1. t \in Token /\ repo \in Repository
  BY DEF Inv, TypeOK, Call
<1>2. /\ CanConsumeReservation(repo, call[c].pair, t, past)
      /\ repo' = AfterConsumeReservation(repo, t)
      /\ B # {}
  BY DEF EncConsume, CanConsumeReservation
<1> HIDE DEF t
<1>3. /\ B \in SUBSET Key
      /\ \A k \in Key \ B : repo'.keys[k] = repo.keys[k]
      /\ \A k \in B : /\ repo.keys[k].master = "RESERVED"
                      /\ repo'.keys[k].master = "CONSUMED"
                      /\ repo'.keys[k].slave = "AVAILABLE"
  BY <1>1, <1>2, ConsumeReservationShape
<1> HIDE DEF B
<1>4. ASSUME NEW k \in B PROVE MasterCopy[k] = "offered" /\ SlaveCopy[k] = "offered"
  <2>1. k \in Key /\ repo.keys[k] \in Entry
    BY <1>1, <1>3, <1>4 DEF Repository
  <2>2. given["master"][k] # 1
    BY <1>3, <1>4, <2>1 DEF Inv, Remembered
  <2>3. repo.keys[k].slave \notin {"AVAILABLE", "CONSUMED"}
    BY <2>1, <2>2 DEF Inv, Released
  <2>4. repo.keys[k].slave \in State
    BY <1>3, <1>4, <2>1 DEF Entry
  <2>5. Copy(repo.keys[k].slave) # "dead"
    BY <1>3, <1>4, <2>1, CopyOfState DEF Inv, Together
  <2>6. repo.keys[k].slave = "RESERVED"
    BY <2>3, <2>4, <2>5, CopyOfState DEF State, Terminal
  <2> QED BY <1>3, <1>4, <2>1, <2>6, CopiesOf, CopyOfState
<1>5. MasterCopy' = [k \in Key |-> IF k \in B THEN "given" ELSE MasterCopy[k]]
  BY <1>3, CopyOfState DEF MasterCopy
<1>6. SlaveCopy' = SlaveCopy
  BY <1>3, <1>4, CopyOfState DEF SlaveCopy
<1> QED BY <1>2, <1>3, <1>4, <1>5, <1>6 DEF Promise!GiveMaster, Promise!Move

LEMMA DecPromises ==
    ASSUME Inv, NEW a \in Pair, NEW B \in SUBSET Key, Dec(a, B) PROVE Promise!GiveSlave(B)
<1>1. repo \in Repository /\ CanConsumePeerKeys(repo, a, B, past)
      /\ repo' = AfterConsumePeerKeys(repo, B)
  BY DEF Inv, TypeOK, Dec
<1>2. B # {}
  <2>1. Cardinality(B) # 0
    BY <1>1 DEF CanConsumePeerKeys
  <2> QED BY <2>1, FS_EmptySet
<1>3. /\ \A k \in Key \ B : repo'.keys[k] = repo.keys[k]
      /\ \A k \in B : /\ repo.keys[k].slave = "AVAILABLE"
                      /\ repo'.keys[k].master = repo.keys[k].master
                      /\ repo'.keys[k].slave = "CONSUMED"
  BY <1>1, DecShape
<1>4. \A k \in B : SlaveCopy[k] = "offered"
  BY <1>3, CopiesOf, CopyOfState
<1>5. SlaveCopy' = [k \in Key |-> IF k \in B THEN "given" ELSE SlaveCopy[k]]
  BY <1>3, CopyOfState DEF SlaveCopy
<1>6. MasterCopy' = MasterCopy
  BY <1>3 DEF MasterCopy
<1> QED BY <1>2, <1>4, <1>5, <1>6 DEF Promise!GiveSlave, Promise!Move

LEMMA InitPromises == Init => Promise!Init
<1> SUFFICES ASSUME Init PROVE Promise!Init
  OBVIOUS
<1>1. \A k \in Key : repo.keys[k].master = "absent" /\ repo.keys[k].slave = "absent"
  BY DEF Init, NewMemory
<1> QED BY <1>1, CopyOfState DEF Promise!Init, MasterCopy, SlaveCopy

LEMMA NextPromises == Inv /\ [Next]_vars => [Promise!Next]_<<MasterCopy, SlaveCopy>>
<1> SUFFICES ASSUME Inv, [Next]_vars PROVE Promise!Next
  OBVIOUS
<1>1. CASE Fading
  BY <1>1, FadingDiscards DEF Promise!Next
<1>2. ASSUME NEW k \in Key, NEW a \in Pair, StoreKey(k, a) PROVE Promise!Next
  BY <1>2, StorePromises DEF Promise!Next
<1>3. ASSUME NEW c \in Caller, EncConsume(c) PROVE Promise!Next
  BY <1>3, ConsumePromises DEF Promise!Next
<1>4. ASSUME NEW a \in Pair, NEW B \in SUBSET Key, Dec(a, B) PROVE Promise!Next
  BY <1>4, DecPromises DEF Promise!Next
<1> QED BY <1>1, <1>2, <1>3, <1>4, KindsOfStep

(* A gateway with any inventory, serving any number of requests at once,   *)
(* keeps the promise of KeyDelivery: the reservation between the halves of *)
(* enc_keys, lazy expiry and invalidation never bring back a copy that was *)
(* handed out or discarded, and never offer the master a key whose slave's *)
(* copy is gone.                                                           *)
THEOREM GatewayKeepsPromise == Spec => PromiseKept
BY InitPromises, NextPromises, InvHolds, PTL DEF Spec, PromiseKept, Promise!Spec

-----------------------------------------------------------------------------
(* Reservations.                                                           *)


Ids(t) == repo.reserved[t].ids
Master(k) == repo.keys[k].master

(* A request between its two halves has a reservation of its own.          *)
Booked ==
    /\ \A c \in Caller : call[c].stage = "reserved" =>
          /\ Ids(call[c].token) # {}
          /\ Cardinality(Ids(call[c].token)) = call[c].count
    /\ \A c, d \in Caller :
          call[c].stage = "reserved" /\ call[d].stage = "reserved" /\ call[c].token = call[d].token
              => c = d
    /\ WholeBatch

(* A key that was reserved is never on offer again, so no other            *)
(* reservation can take it.                                                *)
Exclusive ==
    /\ \A t \in Token : \A k \in Ids(t) : Master(k) \notin {"absent", "AVAILABLE"}
    /\ \A t, u \in Token : \A k \in Ids(t) \cap Ids(u) : t = u

Broken(t) == \E x \in Ids(t) : x \in past \/ Master(x) \in Terminal
Backed ==
    \A k \in Key : Master(k) = "RESERVED" => \E t \in Holders(k) : Redeeming(t) \/ Broken(t)

Reservations == Booked /\ Exclusive /\ Backed

(* A repository n reached from m by ending master copies only.             *)
Ages(m, n) ==
    /\ n.reserved = m.reserved
    /\ \A k \in Key : n.keys[k].master = m.keys[k].master \/ n.keys[k].master \in Terminal

-----------------------------------------------------------------------------
LEMMA EndedIsTerminal ==
    ASSUME NEW x, NEW s \in Terminal PROVE Ended(x, s) \in Terminal
BY DEF Ended

LEMMA DiscardedMaster ==
    ASSUME NEW e \in Entry, NEW s \in Terminal PROVE Discarded(e, s).master \in Terminal
<1> DEFINE d == [e EXCEPT !.master = Ended(e.master, s)]
<1>1. d.master \in Terminal /\ [d EXCEPT !.slave = Ended(e.slave, s)].master = d.master
  BY EndedIsTerminal DEF Entry
<1>2. Discarded(e, s) = [d EXCEPT !.slave = Ended(e.slave, s)]
  BY DEF Discarded, Entry
<1> QED BY <1>1, <1>2

LEMMA ExpireAges ==
    ASSUME NEW m \in Repository, NEW V, NEW P
    PROVE  Ages(m, Expire(m, V, P))
<1> DEFINE f == [k \in Key |-> IF k \in V \cap P \cap Stored(m) THEN Discarded(m.keys[k], "EXPIRED")
                              ELSE m.keys[k]]
<1>1. \A k \in Key : m.keys[k] \in Entry
  BY DEF Repository
<1>2. \A k \in Key : f[k] = m.keys[k] \/ f[k].master \in Terminal
  BY <1>1, DiscardedMaster DEF Terminal
<1>3. Expire(m, V, P) = [m EXCEPT !.keys = f]
  BY DEF Expire
<1> HIDE DEF f
<1>4. Expire(m, V, P).keys = f /\ Expire(m, V, P).reserved = m.reserved
  BY <1>3 DEF Repository
<1> QED BY <1>2, <1>4 DEF Ages

LEMMA InvalidateKeyAges ==
    ASSUME NEW m \in Repository, NEW k \in Key, NEW P
    PROVE  Ages(m, AfterInvalidateKey(m, k, P))
<1> DEFINE e == Expire(m, {k}, P)
           d == Discarded(e.keys[k], "INVALID")
<1>1. e \in Repository /\ Ages(m, e)
  BY ExpireKeeps, ExpireAges DEF Keeps
<1>2. AfterInvalidateKey(m, k, P) = [e EXCEPT !.keys[k] = d]
  BY DEF AfterInvalidateKey
<1>3. e.keys \in [Key -> Entry]
  BY <1>1 DEF Repository
<1>4. d.master \in Terminal
  <2>1. e.keys[k] \in Entry /\ "INVALID" \in Terminal
    BY <1>3 DEF Terminal
  <2> HIDE DEF e
  <2> QED BY <2>1, DiscardedMaster
<1> HIDE DEF e, d
<1>5. /\ [e EXCEPT !.keys[k] = d].reserved = e.reserved
      /\ \A x \in Key : [e EXCEPT !.keys[k] = d].keys[x] = IF x = k THEN d ELSE e.keys[x]
  BY <1>1, <1>3 DEF Repository
<1> QED BY <1>1, <1>2, <1>4, <1>5 DEF Ages

-----------------------------------------------------------------------------
(* The steps.                                                              *)

(* Copies end and time passes. *)
LEMMA AgingKeeps ==
    ASSUME Inv, Reservations, Ages(repo, repo'), past \subseteq past', call' = call, reply' = reply
    PROVE  Reservations'
<1>1. \A t \in Token : Ids(t)' = Ids(t)
  BY DEF Ages, Ids
<1>2. \A k \in Key : Master(k)' = Master(k) \/ Master(k)' \in Terminal
  BY DEF Ages, Master
<1>3. /\ call \in [Caller -> Call] /\ \A c \in Caller : call[c].token \in Token
      /\ \A t \in Token : Ids(t) \subseteq Key
  BY DEF Inv, TypeOK, Call, Ids, Repository, Reservation
<1>4. Booked'
  BY <1>1, <1>3 DEF Reservations, Booked, WholeBatch
<1>5. Exclusive'
  BY <1>1, <1>2, <1>3 DEF Reservations, Exclusive, Terminal
<1>6. Backed'
  <2> SUFFICES ASSUME NEW k \in Key, Master(k)' = "RESERVED"
               PROVE  \E t \in Token : k \in Ids(t)' /\ (Redeeming(t)' \/ Broken(t)')
    BY DEF Backed, Holders, Ids
  <2>1. Master(k) = "RESERVED"
    BY <1>2 DEF Terminal
  <2>2. PICK t \in Token : k \in Ids(t) /\ (Redeeming(t) \/ Broken(t))
    BY <2>1 DEF Reservations, Backed, Holders, Ids
  <2>3. Redeeming(t) => Redeeming(t)'
    BY DEF Redeeming
  <2>4. Broken(t) => Broken(t)'
    BY <1>1, <1>2, <1>3 DEF Broken
  <2> QED BY <1>1, <2>2, <2>3, <2>4
<1> QED BY <1>4, <1>5, <1>6 DEF Reservations

LEMMA StoreKeeps ==
    ASSUME Inv, Reservations, NEW k \in Key, NEW a \in Pair, StoreKey(k, a)
    PROVE  Reservations'
<1>1. repo \in Repository /\ UNCHANGED <<past, call, reply>>
  BY DEF Inv, TypeOK, StoreKey
<1>2. repo' = AfterStoreKey(repo, k, a) /\ Master(k) = "absent"
  BY DEF StoreKey, CanStoreKey, Stored, Master
<1>3. \A t \in Token : Ids(t)' = Ids(t)
  BY <1>1, <1>2 DEF AfterStoreKey, Ids, Repository
<1>4. Master(k)' = "AVAILABLE" /\ \A x \in Key \ {k} : Master(x)' = Master(x)
  BY <1>1, <1>2, StoreKeyShape DEF StoreKey, CanStoreKey, Master
<1>5. /\ \A c \in Caller : call[c].token \in Token
      /\ \A t \in Token : Ids(t) \subseteq Key /\ k \notin Ids(t)
  BY <1>2 DEF Inv, TypeOK, Call, Ids, Repository, Reservation, Reservations, Exclusive
<1>6. Booked'
  BY <1>1, <1>3, <1>5 DEF Reservations, Booked, WholeBatch
<1>7. Exclusive'
  BY <1>3, <1>4, <1>5 DEF Reservations, Exclusive
<1>8. Backed'
  <2> SUFFICES ASSUME NEW x \in Key, Master(x)' = "RESERVED"
               PROVE  \E t \in Token : x \in Ids(t)' /\ (Redeeming(t)' \/ Broken(t)')
    BY DEF Backed, Holders, Ids
  <2>1. Master(x) = "RESERVED"
    BY <1>4
  <2>2. PICK t \in Token : x \in Ids(t) /\ (Redeeming(t) \/ Broken(t))
    BY <2>1 DEF Reservations, Backed, Holders, Ids
  <2>3. Redeeming(t) => Redeeming(t)'
    BY <1>1 DEF Redeeming
  <2>4. Broken(t) => Broken(t)'
    BY <1>1, <1>3, <1>4, <1>5 DEF Broken
  <2> QED BY <1>3, <2>2, <2>3, <2>4
<1> QED BY <1>6, <1>7, <1>8 DEF Reservations

(* The first half of enc_keys. *)
LEMMA EncReserveKeeps ==
    ASSUME Inv, Reservations, NEW c \in Caller, NEW a \in Pair, NEW n \in 1..MaxBatch,
           NEW B \in SUBSET Key, NEW t \in Token, EncReserve(c, a, n, B, t)
    PROVE  Reservations'
<1> DEFINE e == Expire(repo, Visited(repo, B), past)
           f == [k \in Key |-> IF k \in B THEN [e.keys[k] EXCEPT !.master = "RESERVED"] ELSE e.keys[k]]
<1>1. repo \in Repository /\ call \in [Caller -> Call] /\ reply \in [Caller -> Reply] /\ past' = past
  BY DEF Inv, TypeOK, EncReserve
<1>2. e \in Repository /\ Ages(repo, e)
  BY <1>1, ExpireKeeps, ExpireAges DEF Keeps
<1>3. repo' = [e EXCEPT !.keys = f, !.reserved[t] = [pair |-> a, ids |-> B]]
  BY DEF EncReserve, AfterReserveKeys
<1>4. /\ call[c].stage = "idle" /\ Ids(t) = {}
      /\ call' = [call EXCEPT ![c] = [stage |-> "reserved", pair |-> a, token |-> t, count |-> n]]
      /\ reply' = [reply EXCEPT ![c] = NoKeys]
      /\ Cardinality(B) = n
      /\ \A k \in B : Master(k) = "AVAILABLE"
  BY DEF EncReserve, CanReserveKeys, Offerable, Ids, Master
<1> HIDE DEF e
<1>5. \A k \in Key : f[k].master = IF k \in B THEN "RESERVED" ELSE e.keys[k].master
  BY <1>2 DEF Repository, Entry
<1> HIDE DEF f
<1>6. repo'.keys = f /\ repo'.reserved = [repo.reserved EXCEPT ![t] = [pair |-> a, ids |-> B]]
  BY <1>2, <1>3 DEF Repository, Ages
<1>7. \A u \in Token : Ids(u)' = IF u = t THEN B ELSE Ids(u)
  BY <1>1, <1>6 DEF Ids, Repository
<1>8. \A k \in Key : /\ k \in B => Master(k)' = "RESERVED"
                     /\ k \notin B => Master(k)' = Master(k) \/ Master(k)' \in Terminal
  BY <1>2, <1>5, <1>6 DEF Ages, Master
<1>9. \A u \in Token : Ids(u) \subseteq Key /\ Ids(u) \cap B = {}
  BY <1>1, <1>4 DEF Ids, Repository, Reservation, Reservations, Exclusive
<1>10. B # {}
  <2>1. n # 0
    BY MemoryAssumption
  <2> QED BY <1>4, <2>1, FS_EmptySet
<1>11. Booked'
  <2>1. \A d \in Caller : call[d].token \in Token
    BY <1>1 DEF Call
  <2>2. \A d \in Caller : call[d].stage = "reserved" => call[d].token # t
    BY <1>4 DEF Reservations, Booked
  <2>3. /\ call'[c].stage = "reserved" /\ call'[c].token = t /\ call'[c].count = n
        /\ \A d \in Caller \ {c} : call'[d] = call[d]
    BY <1>1, <1>4
  <2>4. WholeBatch'
    <3>1. reply'[c].got = {} /\ \A d \in Caller \ {c} : reply'[d] = reply[d]
      BY <1>1, <1>4 DEF NoKeys
    <3>2. Cardinality({}) = 0
      BY FS_EmptySet
    <3> QED BY <3>1, <3>2 DEF Reservations, Booked, WholeBatch
  <2>5. \A d \in Caller : call'[d].stage = "reserved" =>
            repo'.reserved[call'[d].token].ids # {} /\ Cardinality(repo'.reserved[call'[d].token].ids) = call'[d].count
    <3> SUFFICES ASSUME NEW d \in Caller, call'[d].stage = "reserved"
                 PROVE  repo'.reserved[call'[d].token].ids # {} /\ Cardinality(repo'.reserved[call'[d].token].ids) = call'[d].count
      OBVIOUS
    <3>1. CASE d = c
      <4>1. repo'.reserved[call'[d].token].ids = B
        BY <1>7, <2>3, <3>1 DEF Ids
      <4> QED BY <1>4, <1>10, <2>3, <3>1, <4>1
    <3>2. CASE d # c
      <4>1. repo'.reserved[call'[d].token].ids = Ids(call[d].token)
        BY <1>7, <2>1, <2>2, <2>3, <3>2 DEF Ids
      <4> QED BY <2>3, <3>2, <4>1 DEF Reservations, Booked
    <3> QED BY <3>1, <3>2
  <2>6. \A x, y \in Caller :
            call'[x].stage = "reserved" /\ call'[y].stage = "reserved" /\ call'[x].token = call'[y].token
                => x = y
    BY <2>2, <2>3 DEF Reservations, Booked
  <2> QED BY <2>4, <2>5, <2>6 DEF Booked, Ids
<1>12. Exclusive'
  BY <1>7, <1>8, <1>9 DEF Reservations, Exclusive, Terminal
<1>13. Backed'
  <2> SUFFICES ASSUME NEW k \in Key, Master(k)' = "RESERVED"
               PROVE  \E u \in Token : k \in Ids(u)' /\ (Redeeming(u)' \/ Broken(u)')
    BY DEF Backed, Holders, Ids
  <2>1. CASE k \in B
    <3>1. Redeeming(t)'
      BY <1>1, <1>4 DEF Redeeming
    <3> QED BY <1>7, <2>1, <3>1
  <2>2. CASE k \notin B
    <3>1. Master(k) = "RESERVED"
      BY <1>8, <2>2 DEF Terminal
    <3>2. PICK u \in Token : k \in Ids(u) /\ (Redeeming(u) \/ Broken(u))
      BY <3>1 DEF Reservations, Backed, Holders, Ids
    <3>3. u # t
      BY <1>4, <3>2
    <3>4. Redeeming(u) => Redeeming(u)'
      BY <1>1, <1>4 DEF Redeeming
    <3>5. Broken(u) => Broken(u)'
      BY <1>1, <1>7, <1>8, <1>9, <3>3 DEF Broken
    <3> QED BY <1>7, <3>2, <3>3, <3>4, <3>5
  <2> QED BY <2>1, <2>2
<1> QED BY <1>11, <1>12, <1>13 DEF Reservations

(* The second half, when all keys of the batch are still reserved. *)
LEMMA EncConsumeKeeps ==
    ASSUME Inv, Reservations, NEW c \in Caller, EncConsume(c)
    PROVE  Reservations'
<1> DEFINE t == call[c].token
           B == Ids(t)
<1>1. /\ repo \in Repository /\ call \in [Caller -> Call] /\ reply \in [Caller -> Reply]
      /\ past' = past /\ t \in Token
  BY DEF Inv, TypeOK, EncConsume, Call
<1>2. /\ call[c].stage = "reserved"
      /\ CanConsumeReservation(repo, call[c].pair, t, past)
      /\ repo' = AfterConsumeReservation(repo, t)
      /\ call' = [call EXCEPT ![c] = Idle]
      /\ reply' = [reply EXCEPT ![c] = [asked |-> call[c].count, got |-> B]]
  BY DEF EncConsume, Ids
<1> HIDE DEF t
<1>3. \A u \in Token : Ids(u)' = IF u = t THEN {} ELSE Ids(u)
  BY <1>1, <1>2 DEF AfterConsumeReservation, Ids, Repository
<1>4. \A k \in Key : Master(k)' = IF k \in B THEN "CONSUMED" ELSE Master(k)
  BY <1>1, <1>2, ConsumeReservationShape DEF Master, Ids
<1>5. \A u \in Token : Ids(u) \subseteq Key /\ (u # t => Ids(u) \cap B = {})
  BY <1>1 DEF Ids, Repository, Reservation, Reservations, Exclusive
<1>6. \A d \in Caller : call[d].stage = "reserved" /\ d # c => call[d].token \in Token \ {t}
  BY <1>1, <1>2 DEF Reservations, Booked, Call, t
<1>7. call'[c].stage = "idle" /\ \A d \in Caller \ {c} : call'[d] = call[d]
  BY <1>1, <1>2 DEF Idle
<1>8. Booked'
  <2>1. WholeBatch'
    <3>1. reply'[c].asked = call[c].count /\ reply'[c].got = B /\ \A d \in Caller \ {c} : reply'[d] = reply[d]
      BY <1>1, <1>2
    <3>2. Cardinality(B) = call[c].count
      BY <1>2 DEF Reservations, Booked, t
    <3> QED BY <3>1, <3>2 DEF Reservations, Booked, WholeBatch
  <2>2. \A d \in Caller : call'[d].stage = "reserved" =>
            d # c /\ call'[d] = call[d] /\ repo'.reserved[call'[d].token].ids = Ids(call[d].token)
    BY <1>3, <1>6, <1>7 DEF Ids
  <2> HIDE DEF B
  <2> QED BY <2>1, <2>2 DEF Reservations, Booked, Ids
<1>9. Exclusive'
  BY <1>3, <1>4, <1>5 DEF Reservations, Exclusive
<1>10. Backed'
  <2> SUFFICES ASSUME NEW k \in Key, Master(k)' = "RESERVED"
               PROVE  \E u \in Token : k \in Ids(u)' /\ (Redeeming(u)' \/ Broken(u)')
    BY DEF Backed, Holders, Ids
  <2>1. Master(k) = "RESERVED" /\ k \notin B
    BY <1>4
  <2>2. PICK u \in Token : k \in Ids(u) /\ (Redeeming(u) \/ Broken(u))
    BY <2>1 DEF Reservations, Backed, Holders, Ids
  <2>3. u # t
    BY <2>1, <2>2
  <2>4. Redeeming(u) => Redeeming(u)'
    <3>1. \A d \in Caller : call[d].stage = "reserved" /\ call[d].token = u => d # c
      BY <2>3 DEF t
    <3> QED BY <1>7, <3>1 DEF Redeeming
  <2>5. Broken(u) => Broken(u)'
    BY <1>1, <1>3, <1>4, <1>5, <2>3 DEF Broken
  <2> QED BY <1>3, <2>2, <2>3, <2>4, <2>5
<1> QED BY <1>8, <1>9, <1>10 DEF Reservations

(* The second half, when a key of the batch has ended: its reservation is  *)
(* left behind, broken.                                                    *)
LEMMA EncFailsKeeps ==
    ASSUME Inv, Reservations, NEW c \in Caller, EncFails(c)
    PROVE  Reservations'
<1> DEFINE t == call[c].token
<1>1. /\ repo \in Repository /\ call \in [Caller -> Call] /\ past' = past /\ reply' = reply
      /\ t \in Token
  BY DEF Inv, TypeOK, EncFails, Call
<1>2. /\ call[c].stage = "reserved" /\ call' = [call EXCEPT ![c] = Idle]
      /\ \E k \in Unreserved(repo, t, past) : repo' = Expire(repo, {k}, past)
  BY DEF EncFails, AfterConsumeReservationFails
<1>3. Ages(repo, repo')
  BY <1>1, <1>2, ExpireAges
<1>4. \A u \in Token : Ids(u)' = Ids(u) /\ Ids(u) \subseteq Key
  BY <1>1, <1>3 DEF Ages, Ids, Repository, Reservation
<1>5. \A k \in Key : Master(k)' = Master(k) \/ Master(k)' \in Terminal
  BY <1>3 DEF Ages, Master
<1>6. Broken(t)
  <2>1. PICK k \in Ids(t) : k \in past \/ Master(k) # "RESERVED"
    BY <1>2 DEF Unreserved, Ids, Master
  <2>2. k \in Key /\ Master(k) \notin {"absent", "AVAILABLE"}
    BY <1>1, <1>4, <2>1 DEF Reservations, Exclusive
  <2>3. Master(k) \in State \cup {"absent"}
    BY <1>1, <2>2 DEF Master, Repository, Entry
  <2> QED BY <2>1, <2>2, <2>3 DEF Broken, State
<1> HIDE DEF t
<1>7. \A u \in Token : Broken(u) => Broken(u)'
  BY <1>1, <1>4, <1>5 DEF Broken
<1>8. call'[c].stage = "idle" /\ \A d \in Caller \ {c} : call'[d] = call[d]
  BY <1>1, <1>2 DEF Idle
<1>9. Booked'
  <2>1. \A d \in Caller : call'[d].stage = "reserved" =>
            call'[d] = call[d] /\ repo'.reserved[call'[d].token].ids = Ids(call[d].token)
    BY <1>1, <1>4, <1>8 DEF Call, Ids
  <2>2. WholeBatch'
    BY <1>1 DEF Reservations, Booked, WholeBatch
  <2> QED BY <2>1, <2>2 DEF Reservations, Booked, Ids
<1>10. Exclusive'
  BY <1>4, <1>5 DEF Reservations, Exclusive, Terminal
<1>11. Backed'
  <2> SUFFICES ASSUME NEW k \in Key, Master(k)' = "RESERVED"
               PROVE  \E u \in Token : k \in Ids(u)' /\ (Redeeming(u)' \/ Broken(u)')
    BY DEF Backed, Holders, Ids
  <2>1. Master(k) = "RESERVED"
    BY <1>5 DEF Terminal
  <2>2. PICK u \in Token : k \in Ids(u) /\ (Redeeming(u) \/ Broken(u))
    BY <2>1 DEF Reservations, Backed, Holders, Ids
  <2>3. u # t /\ Redeeming(u) => Redeeming(u)'
    <3>1. \A d \in Caller : u # t /\ call[d].token = u => d # c
      BY DEF t
    <3> QED BY <1>8, <3>1 DEF Redeeming
  <2> QED BY <1>4, <1>6, <1>7, <2>2, <2>3
<1> QED BY <1>9, <1>10, <1>11 DEF Reservations

-----------------------------------------------------------------------------
LEMMA InitReservations == Init => Reservations
<1> SUFFICES ASSUME Init PROVE Reservations
  OBVIOUS
<1>1. /\ \A t \in Token : Ids(t) = {}
      /\ \A k \in Key : Master(k) = "absent"
      /\ \A c \in Caller : call[c].stage = "idle" /\ reply[c].got = {}
  BY DEF Init, NewMemory, Ids, Master, Idle, NoKeys
<1>2. Cardinality({}) = 0
  BY FS_EmptySet
<1> QED BY <1>1, <1>2 DEF Reservations, Booked, WholeBatch, Exclusive, Backed

LEMMA NextReservations == Inv /\ Reservations /\ [Next]_vars => Reservations'
<1> SUFFICES ASSUME Inv, Reservations, [Next]_vars PROVE Reservations'
  OBVIOUS
<1>0. repo \in Repository
  BY DEF Inv, TypeOK
<1>1. ASSUME repo' = repo, past \subseteq past', call' = call, reply' = reply PROVE Reservations'
  <2>1. Ages(repo, repo')
    BY <1>1 DEF Ages
  <2> QED BY <1>1, <2>1, AgingKeeps
<1>2. ASSUME NEW k \in Key, Pass(k) PROVE Reservations'
  BY <1>1, <1>2 DEF Pass
<1>3. ASSUME NEW c \in Caller, Enc(c) PROVE Reservations'
  <2>1. ASSUME NEW a \in Pair, NEW n \in 1..MaxBatch, EncUnavailable(c, a, n) PROVE Reservations'
    BY <1>0, <2>1, ExpireAges, AgingKeeps DEF EncUnavailable, AfterReserveKeysFails
  <2> QED BY <1>3, <2>1, EncReserveKeeps, EncConsumeKeeps, EncFailsKeeps DEF Enc
<1>4. ASSUME NEW a \in Pair, NEW B \in SUBSET Key, Dec(a, B) PROVE Reservations'
  <2>1. repo'.reserved = repo.reserved
    BY <1>0, <1>4 DEF Dec, AfterConsumePeerKeys, Repository
  <2>2. \A k \in Key : repo'.keys[k].master = repo.keys[k].master
    BY <1>0, <1>4, DecShape
  <2>3. Ages(repo, repo') /\ UNCHANGED <<past, call, reply>>
    BY <1>4, <2>1, <2>2 DEF Ages, Dec
  <2> QED BY <2>3, AgingKeeps
<1>5. ASSUME NEW a \in Pair, NEW k \in Key, DecFails(a, k) PROVE Reservations'
  <2>1. Ages(repo, repo') /\ UNCHANGED <<past, call, reply>>
    BY <1>0, <1>5, ExpireAges DEF DecFails, AfterConsumePeerKeysFails, Ages
  <2> QED BY <2>1, AgingKeeps
<1>6. ASSUME NEW k \in Key, InvalidateKey(k) PROVE Reservations'
  BY <1>0, <1>6, InvalidateKeyAges, AgingKeeps DEF InvalidateKey
<1>7. CASE Look
  <2>1. Ages(repo, repo') /\ UNCHANGED <<past, call, reply>>
    BY <1>0, <1>7, ExpireAges DEF Look, AfterInventory, AfterMetadata
  <2> QED BY <2>1, AgingKeeps
<1>8. CASE UNCHANGED vars
  BY <1>1, <1>8 DEF vars
<1> QED BY <1>2, <1>3, <1>4, <1>5, <1>6, <1>7, <1>8, StoreKeeps DEF Next

LEMMA ReservationsHold == Spec => []Reservations
BY InitInv, NextInv, InitReservations, NextReservations, PTL DEF Spec

(* enc_keys answers with as many keys as were asked for, or with none,     *)
(* whatever ends keys between its reservation and its consumption.         *)
THEOREM AnsweredWhole == Spec => []WholeBatch
<1>1. Reservations => WholeBatch
  BY DEF Reservations, Booked
<1> QED BY <1>1, ReservationsHold, PTL

(* A key waits in one reservation at most, and only the end of a key of    *)
(* that batch can leave it waiting with no request to redeem it.           *)
THEOREM OnlyEndedKeysStrand == Spec => []OnlyExpiryStrands
<1>1. Inv /\ Reservations => OnlyExpiryStrands
  <2> SUFFICES ASSUME Inv, Reservations PROVE OnlyExpiryStrands
    OBVIOUS
  <2>1. ASSUME NEW k \in Key PROVE Cardinality(Holders(k)) <= 1
    <3>1. CASE Holders(k) = {}
      BY <3>1, FS_EmptySet
    <3>2. CASE Holders(k) # {}
      <4>1. PICK t \in Token : t \in Holders(k)
        BY <3>2 DEF Holders
      <4>2. Holders(k) = {t}
        BY <4>1 DEF Reservations, Exclusive, Holders, Ids
      <4>3. Cardinality({t}) = 1
        BY FS_Singleton
      <4> QED BY <4>2, <4>3
    <3> QED BY <3>1, <3>2
  <2>2. \A k \in Key : Master(k) = "RESERVED" => \E t \in Holders(k) : Redeeming(t) \/ Broken(t)
    BY DEF Reservations, Backed
  <2> QED BY <2>1, <2>2 DEF OnlyExpiryStrands, Broken, Master, Ids
<1> QED BY <1>1, InvHolds, ReservationsHold, PTL
=============================================================================
