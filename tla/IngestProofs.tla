---------------------------- MODULE IngestProofs ----------------------------
(***************************************************************************)
(* Theorems about Ingest, for any number of keys and requests and under    *)
(* any number of crashes, failed writes, timeouts and wrong answers: no    *)
(* key is asked for or handed out twice, requests are answered whole, keys *)
(* are held only for open requests, outcomes are final, and the attempts a *)
(* gateway counts cover whatever the provider spent on it.                 *)
(***************************************************************************)
EXTENDS Ingest, FiniteSetTheorems, TLAPS

Final == {"CONSUMED", "INVALID", "EXPIRED"}
InFlight == [state |-> "RESERVED", material |-> FALSE]

(* What the journal of the gateway n says at any time, also while a call   *)
(* to the provider or a crash is in progress.                              *)
Holds(s, k) ==
    \E t \in Token : /\ k \in s.req[t].ids
                     /\ s.req[t].status = IF s.key[k].material THEN "stored" ELSE "pending"

BytesAreHeld(n, s) == \A k \in Key : s.key[k].material => s.key[k].state = "RESERVED" /\ n = "master"
HeldIsOpen(s) == \A k \in Key : s.key[k].state = "RESERVED" => Holds(s, k)

(* The identifiers named in an open request are untouched until it ends.   *)
OpenIsHeld(n, s) ==
    \A t \in Interrupted(s) :
        /\ \A k \in s.req[t].ids : s.key[k] = InFlight
        /\ n = "master" => s.req[t].ids = {}
        /\ n = "slave" => Cardinality(s.req[t].ids) = s.req[t].count

Sound(n, s) == BytesAreHeld(n, s) /\ HeldIsOpen(s) /\ OpenIsHeld(n, s)

(* A change of the journal from s to r takes back no outcome.              *)
Onward(s, r) ==
    /\ \A t \in Token : s.req[t].status \in {"uncertain", "consumed"} => r.req[t] = s.req[t]
    /\ \A k \in Key : s.key[k].state \in Final => r.key[k] = s.key[k]
    /\ \A k \in Key : Known(s, k) => Known(r, k)

-----------------------------------------------------------------------------
(* The changes of one gateway.                                             *)

LEMMA MarkedFields ==
    ASSUME NEW s \in GatewayState, NEW B, NEW r \in KeyRecord
    PROVE  /\ Marked(s, B, r) \in GatewayState
           /\ Marked(s, B, r).req = s.req
           /\ Marked(s, B, r).attempts = s.attempts
           /\ \A k \in Key : Marked(s, B, r).key[k] = IF k \in B THEN r ELSE s.key[k]
BY DEF Marked, GatewayState

LEMMA EndedFields ==
    ASSUME NEW s \in GatewayState, NEW B, NEW e \in Final
    PROVE  /\ Ended(s, B, e) \in GatewayState
           /\ Ended(s, B, e).req = s.req
           /\ Ended(s, B, e).attempts = s.attempts
           /\ \A k \in Key : Ended(s, B, e).key[k] =
                  IF k \in B THEN [state |-> e, material |-> FALSE] ELSE s.key[k]
<1> DEFINE x == [state |-> e, material |-> FALSE]
<1>1. x \in KeyRecord
  BY DEF Final, KeyRecord, KeyState
<1>2. Ended(s, B, e) = Marked(s, B, x)
  BY DEF Ended
<1> HIDE DEF x
<1>3. /\ Ended(s, B, e) \in GatewayState
      /\ Ended(s, B, e).req = s.req
      /\ Ended(s, B, e).attempts = s.attempts
      /\ \A k \in Key : Ended(s, B, e).key[k] = IF k \in B THEN x ELSE s.key[k]
  BY <1>1, <1>2, MarkedFields
<1> QED BY <1>3 DEF x

(* Keys that are reserved end, and no request is open that names them.     *)
LEMMA EndedKeeps ==
    ASSUME NEW n \in Role, NEW s \in GatewayState, Sound(n, s), NEW B, NEW e \in Final,
           \A k \in B \cap Key : s.key[k].state = "RESERVED",
           \A t \in Interrupted(s) : s.req[t].ids \cap B = {}
    PROVE  Ended(s, B, e) \in GatewayState /\ Sound(n, Ended(s, B, e)) /\ Onward(s, Ended(s, B, e))
<1> DEFINE r == Ended(s, B, e)
<1>1. /\ r \in GatewayState
      /\ r.req = s.req
      /\ \A k \in Key : r.key[k] = IF k \in B THEN [state |-> e, material |-> FALSE] ELSE s.key[k]
  BY EndedFields
<1> HIDE DEF r
<1>2. BytesAreHeld(n, r)
  BY <1>1 DEF Sound, BytesAreHeld, Final
<1>3. HeldIsOpen(r)
  BY <1>1 DEF Sound, HeldIsOpen, Holds, Final
<1>4. OpenIsHeld(n, r)
  <2>1. \A t \in Token : s.req[t].ids \subseteq Key
    BY DEF GatewayState, Request
  <2> QED BY <1>1, <2>1 DEF Sound, OpenIsHeld, Interrupted
<1>5. Onward(s, r)
  BY <1>1 DEF Onward, Known, Final
<1> QED BY <1>1, <1>2, <1>3, <1>4, <1>5 DEF Sound, r

LEMMA ExpireKeeps ==
    ASSUME NEW n \in Role, NEW s \in GatewayState, Sound(n, s), Interrupted(s) = {}, NEW done
    PROVE  /\ Expire(s, done) \in GatewayState /\ Sound(n, Expire(s, done))
           /\ Onward(s, Expire(s, done))
           /\ Expire(s, done).req = s.req /\ Expire(s, done).attempts = s.attempts
           /\ \A k \in Key : Known(Expire(s, done), k) => Known(s, k)
<1>1. Lapsed(s, done) \subseteq Key /\ \A k \in Lapsed(s, done) : s.key[k].state = "RESERVED"
  BY DEF Lapsed
<1>2. "EXPIRED" \in Final
  BY DEF Final
<1>3. Expire(s, done) \in GatewayState /\ Sound(n, Expire(s, done)) /\ Onward(s, Expire(s, done))
  BY <1>1, <1>2, EndedKeeps DEF Expire
<1>4. /\ Expire(s, done).req = s.req /\ Expire(s, done).attempts = s.attempts
      /\ \A k \in Key : Expire(s, done).key[k] =
             IF k \in Lapsed(s, done) THEN [state |-> "EXPIRED", material |-> FALSE] ELSE s.key[k]
  BY <1>2, EndedFields DEF Expire
<1> QED BY <1>1, <1>3, <1>4 DEF Known

(* begin, for identifiers the gateway has never seen. *)
LEMMA BegunKeeps ==
    ASSUME NEW n \in Role, NEW s \in GatewayState, Sound(n, s), Interrupted(s) = {},
           NEW t \in Token, s.req[t].status = "none",
           NEW size \in 1..MaxBatch, s.attempts + size <= Capacity,
           NEW B \in SUBSET Key, \A k \in B : ~Known(s, k),
           n = "master" => B = {},
           n = "slave" => size = Cardinality(B)
    PROVE  /\ Begun(s, t, size, B) \in GatewayState /\ Sound(n, Begun(s, t, size, B))
           /\ Onward(s, Begun(s, t, size, B))
           /\ Interrupted(Begun(s, t, size, B)) = {t}
           /\ \A k \in B : Known(Begun(s, t, size, B), k)
<1> DEFINE q == [status |-> "pending", count |-> size, ids |-> B]
           m == [s EXCEPT !.req[t] = q, !.attempts = @ + size]
           r == Begun(s, t, size, B)
<1>0. InFlight \in KeyRecord
  BY DEF InFlight, KeyRecord, KeyState
<1>1. q \in Request
  BY IngestAssumption DEF Request, RequestStatus
<1> HIDE DEF q
<1>2. /\ m \in GatewayState
      /\ m.req = [s.req EXCEPT ![t] = q]
      /\ m.key = s.key
  <2>1. s.attempts + size \in 0..Capacity
    BY IngestAssumption DEF GatewayState
  <2> QED BY <1>1, <2>1 DEF GatewayState
<1> USE DEF q
<1> HIDE DEF m
<1>3. /\ r \in GatewayState
      /\ r.req = [s.req EXCEPT ![t] = q]
      /\ \A k \in Key : r.key[k] = IF k \in B THEN InFlight ELSE s.key[k]
  <2>1. r = Marked(m, B, InFlight)
    BY DEF Begun, m, InFlight
  <2> HIDE DEF r
  <2> QED BY <1>0, <1>2, <2>1, MarkedFields
<1> HIDE DEF r
<1>4. s.req \in [Token -> Request]
  BY DEF GatewayState
<1>5. r.req[t] = q /\ \A u \in Token \ {t} : r.req[u] = s.req[u]
  BY <1>3, <1>4
<1>6. Interrupted(r) = {t}
  BY <1>5 DEF Interrupted
<1>7. BytesAreHeld(n, r)
  BY <1>3 DEF Sound, BytesAreHeld, InFlight
<1>8. HeldIsOpen(r)
  <2> SUFFICES ASSUME NEW k \in Key, r.key[k].state = "RESERVED" PROVE Holds(r, k)
    BY DEF HeldIsOpen
  <2>1. CASE k \in B
    BY <1>3, <1>5, <2>1 DEF Holds, InFlight
  <2>2. CASE k \notin B
    <3>1. PICK u \in Token : /\ k \in s.req[u].ids
                             /\ s.req[u].status = IF s.key[k].material THEN "stored" ELSE "pending"
      BY <1>3, <2>2 DEF Sound, HeldIsOpen, Holds
    <3>2. u # t
      BY <3>1
    <3> QED BY <1>3, <1>5, <2>2, <3>1, <3>2 DEF Holds
  <2> QED BY <2>1, <2>2
<1>9. OpenIsHeld(n, r)
  BY <1>3, <1>5, <1>6 DEF OpenIsHeld
<1>10. Onward(s, r)
  BY <1>3, <1>5 DEF Onward, Known, Final, InFlight
<1>11. \A k \in B : Known(r, k)
  BY <1>3 DEF Known, InFlight
<1> QED BY <1>3, <1>6, <1>7, <1>8, <1>9, <1>10, <1>11 DEF Sound, r

(* The request t is closed with the outcome x, and its keys C end.         *)
Closed(s, t, x, C, e) == Ended([s EXCEPT !.req[t].status = x], C, e)

LEMMA ClosedKeeps ==
    ASSUME NEW n \in Role, NEW s \in GatewayState, Sound(n, s),
           NEW t \in Token, s.req[t].status \in {"pending", "stored"}, Interrupted(s) \subseteq {t},
           NEW x \in {"uncertain", "consumed"}, NEW e \in Final,
           NEW C \in SUBSET s.req[t].ids,
           \A k \in s.req[t].ids : k \in C \/ ~Known(s, k),
           \A k \in C : s.key[k].state = "RESERVED"
    PROVE  /\ Closed(s, t, x, C, e) \in GatewayState /\ Sound(n, Closed(s, t, x, C, e))
           /\ Onward(s, Closed(s, t, x, C, e))
           /\ Interrupted(Closed(s, t, x, C, e)) = {}
           /\ Closed(s, t, x, C, e).req[t].ids = s.req[t].ids
           /\ Closed(s, t, x, C, e).req[t].status = x
           /\ \A k \in C : Closed(s, t, x, C, e).key[k].state = e
<1> DEFINE m == [s EXCEPT !.req[t].status = x]
           r == Closed(s, t, x, C, e)
<1>0. s.req \in [Token -> Request] /\ s.req[t] \in Request /\ s.req[t].ids \subseteq Key
  BY DEF GatewayState, Request
<1>1. /\ m.req \in [Token -> Request]
      /\ m.req[t].status = x /\ m.req[t].ids = s.req[t].ids
      /\ \A u \in Token \ {t} : m.req[u] = s.req[u]
  BY <1>0 DEF Request, RequestStatus, GatewayState
<1>2. m \in GatewayState /\ m.key = s.key
  BY <1>1 DEF GatewayState
<1>3. r = Ended(m, C, e)
  BY DEF Closed
<1> HIDE DEF m, r
<1>4. /\ r \in GatewayState
      /\ r.req = m.req
      /\ \A k \in Key : r.key[k] = IF k \in C THEN [state |-> e, material |-> FALSE] ELSE s.key[k]
  BY <1>2, <1>3, EndedFields
<1>5. Interrupted(r) = {}
  BY <1>1, <1>4 DEF Interrupted
<1>6. BytesAreHeld(n, r)
  BY <1>0, <1>4 DEF Sound, BytesAreHeld
<1>7. HeldIsOpen(r)
  <2> SUFFICES ASSUME NEW k \in Key, r.key[k].state = "RESERVED" PROVE Holds(r, k)
    BY DEF HeldIsOpen
  <2>1. k \notin C /\ r.key[k] = s.key[k]
    BY <1>4 DEF Final
  <2>2. PICK u \in Token : /\ k \in s.req[u].ids
                           /\ s.req[u].status = IF s.key[k].material THEN "stored" ELSE "pending"
    BY <2>1 DEF Sound, HeldIsOpen, Holds
  <2>3. u # t
    BY <2>1, <2>2 DEF Known
  <2> QED BY <1>1, <1>4, <2>1, <2>2, <2>3 DEF Holds
<1>8. OpenIsHeld(n, r)
  BY <1>5 DEF OpenIsHeld
<1>9. Onward(s, r)
  <2>1. \A u \in Token : s.req[u].status \in {"uncertain", "consumed"} => r.req[u] = s.req[u]
    BY <1>1, <1>4
  <2>2. \A k \in Key : (s.key[k].state \in Final => r.key[k] = s.key[k]) /\ (Known(s, k) => Known(r, k))
    BY <1>4 DEF Final, Known
  <2> QED BY <2>1, <2>2 DEF Onward
<1> QED BY <1>0, <1>1, <1>4, <1>5, <1>6, <1>7, <1>8, <1>9 DEF Sound, r

LEMMA UncertainKeeps ==
    ASSUME NEW n \in Role, NEW s \in GatewayState, Sound(n, s),
           NEW t \in Token, Interrupted(s) = {t}
    PROVE  /\ Uncertain(s, t) \in GatewayState /\ Sound(n, Uncertain(s, t))
           /\ Onward(s, Uncertain(s, t))
           /\ Interrupted(Uncertain(s, t)) = {}
<1> DEFINE C == s.req[t].ids \cap {k \in Key : Known(s, k)}
           r == Uncertain(s, t)
<1>1. s.req[t].status = "pending" /\ s.req[t].ids \subseteq Key
  BY DEF Interrupted, GatewayState, Request
<1>2. C \in SUBSET s.req[t].ids /\ \A k \in s.req[t].ids : k \in C \/ ~Known(s, k)
  BY <1>1
<1>3. \A k \in C : s.key[k].state = "RESERVED"
  BY DEF Sound, OpenIsHeld, InFlight
<1>4. r = Closed(s, t, "uncertain", C, "INVALID")
  BY DEF Uncertain, Closed
<1>5. "INVALID" \in Final
  BY DEF Final
<1> HIDE DEF C, r
<1>6. r \in GatewayState /\ Sound(n, r) /\ Onward(s, r) /\ Interrupted(r) = {}
  BY <1>1, <1>2, <1>3, <1>4, <1>5, ClosedKeeps
<1> QED BY <1>6 DEF r

LEMMA ConsumedKeeps ==
    ASSUME NEW n \in Role, NEW s \in GatewayState, Sound(n, s),
           NEW t \in Token, s.req[t].status \in {"pending", "stored"}, Interrupted(s) \subseteq {t},
           \A k \in s.req[t].ids : s.key[k].state = "RESERVED"
    PROVE  /\ Consumed(s, t) \in GatewayState /\ Sound(n, Consumed(s, t))
           /\ Onward(s, Consumed(s, t))
           /\ Interrupted(Consumed(s, t)) = {}
           /\ Consumed(s, t).req[t].ids = s.req[t].ids
           /\ Consumed(s, t).req[t].status = "consumed"
           /\ \A k \in s.req[t].ids : Consumed(s, t).key[k].state = "CONSUMED"
<1> DEFINE C == s.req[t].ids
           r == Consumed(s, t)
<1>1. C \in SUBSET s.req[t].ids /\ "CONSUMED" \in Final
  BY DEF Final
<1>2. r = Closed(s, t, "consumed", C, "CONSUMED")
  BY DEF Consumed, Closed
<1> HIDE DEF r
<1>3. /\ r \in GatewayState /\ Sound(n, r) /\ Onward(s, r) /\ Interrupted(r) = {}
      /\ r.req[t].ids = s.req[t].ids /\ r.req[t].status = "consumed"
      /\ \A k \in C : r.key[k].state = "CONSUMED"
  BY <1>1, <1>2, ClosedKeeps
<1> QED BY <1>3 DEF r

(* An answer that validate accepts names keys this gateway never saw.      *)
LEMMA FetchedKeeps ==
    ASSUME NEW s \in GatewayState, Sound("master", s),
           NEW t \in Token, Interrupted(s) = {t},
           NEW B \in SUBSET Key, \A k \in B : ~Known(s, k)
    PROVE  /\ Fetched(s, t, B) \in GatewayState /\ Sound("master", Fetched(s, t, B))
           /\ Onward(s, Fetched(s, t, B))
           /\ Interrupted(Fetched(s, t, B)) = {}
<1> DEFINE x == [state |-> "RESERVED", material |-> TRUE]
           m == [s EXCEPT !.req[t].ids = B, !.req[t].status = "stored"]
           r == Fetched(s, t, B)
<1>0. s.req \in [Token -> Request] /\ s.req[t] \in Request /\ s.req[t].status = "pending"
  BY DEF GatewayState, Request, Interrupted
<1>1. /\ m.req \in [Token -> Request]
      /\ m.req[t].status = "stored" /\ m.req[t].ids = B
      /\ \A u \in Token \ {t} : m.req[u] = s.req[u]
  BY <1>0 DEF Request, RequestStatus, GatewayState
<1>2. m \in GatewayState /\ m.key = s.key
  BY <1>1 DEF GatewayState
<1>3. r = Marked(m, B, x) /\ x \in KeyRecord
  BY DEF Fetched, KeyRecord, KeyState
<1>x. x.state = "RESERVED" /\ x.material
  OBVIOUS
<1> HIDE DEF m, x, r
<1>4. /\ r \in GatewayState
      /\ r.req = m.req
      /\ \A k \in Key : r.key[k] = IF k \in B THEN x ELSE s.key[k]
  BY <1>2, <1>3, MarkedFields
<1>5. Interrupted(r) = {}
  BY <1>0, <1>1, <1>4 DEF Interrupted
<1>6. BytesAreHeld("master", r)
  BY <1>4, <1>x DEF Sound, BytesAreHeld
<1>7. HeldIsOpen(r)
  <2> SUFFICES ASSUME NEW k \in Key, r.key[k].state = "RESERVED" PROVE Holds(r, k)
    BY DEF HeldIsOpen
  <2>1. CASE k \in B
    BY <1>1, <1>4, <1>x, <2>1 DEF Holds
  <2>2. CASE k \notin B
    <3>1. PICK u \in Token : /\ k \in s.req[u].ids
                             /\ s.req[u].status = IF s.key[k].material THEN "stored" ELSE "pending"
      BY <1>4, <2>2 DEF Sound, HeldIsOpen, Holds
    <3>2. u # t
      BY <3>1 DEF Sound, OpenIsHeld
    <3> QED BY <1>1, <1>4, <2>2, <3>1, <3>2 DEF Holds
  <2> QED BY <2>1, <2>2
<1>8. OpenIsHeld("master", r)
  BY <1>5 DEF OpenIsHeld
<1>9. Onward(s, r)
  <2>1. \A u \in Token : s.req[u].status \in {"uncertain", "consumed"} => r.req[u] = s.req[u]
    BY <1>0, <1>1, <1>4
  <2>2. \A k \in Key : (s.key[k].state \in Final => r.key[k] = s.key[k]) /\ (Known(s, k) => Known(r, k))
    BY <1>4, <1>x DEF Final, Known
  <2> QED BY <2>1, <2>2 DEF Onward
<1> QED BY <1>4, <1>5, <1>6, <1>7, <1>8, <1>9 DEF Sound, r

(* Open closes whatever was in flight. *)
LEMMA RecoveredKeeps ==
    ASSUME NEW n \in Role, NEW s \in GatewayState, Sound(n, s), NEW done
    PROVE  /\ Recovered(s, done) \in GatewayState /\ Sound(n, Recovered(s, done))
           /\ Onward(s, Recovered(s, done))
           /\ Interrupted(Recovered(s, done)) = {}
<1> DEFINE req == [t \in Token |-> IF t \in Interrupted(s)
                                   THEN [s.req[t] EXCEPT !.status = "uncertain"] ELSE s.req[t]]
           m == [s EXCEPT !.req = req]
           C == UNION {s.req[t].ids : t \in Interrupted(s)}
           q == Ended(m, C, "INVALID")
<1>0. s.req \in [Token -> Request]
  BY DEF GatewayState
<1>1. req \in [Token -> Request] /\ \A t \in Token : req[t].status # "pending" /\ req[t].ids = s.req[t].ids
  BY <1>0 DEF Request, RequestStatus, Interrupted
<1>2. m \in GatewayState /\ m.req = req /\ m.key = s.key
  BY <1>1 DEF GatewayState
<1>3. \A t \in Token \ Interrupted(s) : req[t] = s.req[t]
  OBVIOUS
<1>4. "INVALID" \in Final
  BY DEF Final
<1>5. \A t \in Token : t \in Interrupted(s) => s.req[t].ids \subseteq C
  OBVIOUS
<1>6. \A k \in Key : k \in C => s.key[k] = InFlight
  BY DEF Sound, OpenIsHeld
<1>7. Recovered(s, done) = Expire(q, done)
  BY DEF Recovered
<1> HIDE DEF req, m, C
<1>8. /\ q \in GatewayState
      /\ q.req = req
      /\ \A k \in Key : q.key[k] = IF k \in C THEN [state |-> "INVALID", material |-> FALSE] ELSE s.key[k]
  BY <1>2, <1>4, EndedFields
<1> HIDE DEF q
<1>9. Interrupted(q) = {}
  BY <1>1, <1>8 DEF Interrupted
<1>10. BytesAreHeld(n, q)
  BY <1>8 DEF Sound, BytesAreHeld
<1>11. HeldIsOpen(q)
  <2> SUFFICES ASSUME NEW k \in Key, q.key[k].state = "RESERVED" PROVE Holds(q, k)
    BY DEF HeldIsOpen
  <2>1. k \notin C /\ q.key[k] = s.key[k]
    BY <1>8
  <2>2. PICK u \in Token : /\ k \in s.req[u].ids
                           /\ s.req[u].status = IF s.key[k].material THEN "stored" ELSE "pending"
    BY <2>1 DEF Sound, HeldIsOpen, Holds
  <2>3. u \notin Interrupted(s)
    BY <1>5, <2>1, <2>2
  <2> QED BY <1>3, <1>8, <2>1, <2>2, <2>3 DEF Holds
<1>12. OpenIsHeld(n, q)
  BY <1>9 DEF OpenIsHeld
<1>13. Onward(s, q)
  <2>1. \A u \in Token : s.req[u].status \in {"uncertain", "consumed"} => q.req[u] = s.req[u]
    BY <1>3, <1>8 DEF Interrupted
  <2>2. \A k \in Key : (s.key[k].state \in Final => q.key[k] = s.key[k]) /\ (Known(s, k) => Known(q, k))
    BY <1>6, <1>8 DEF Final, Known, InFlight
  <2> QED BY <2>1, <2>2 DEF Onward
<1>14. /\ Expire(q, done) \in GatewayState /\ Sound(n, Expire(q, done))
       /\ Onward(q, Expire(q, done)) /\ Expire(q, done).req = q.req
  BY <1>8, <1>9, <1>10, <1>11, <1>12, ExpireKeeps DEF Sound
<1>15. Interrupted(Expire(q, done)) = {}
  BY <1>9, <1>14 DEF Interrupted
<1>16. Onward(s, Expire(q, done))
  BY <1>13, <1>14 DEF Onward
<1> QED BY <1>7, <1>14, <1>15, <1>16

-----------------------------------------------------------------------------
(* The inductive invariant: what the journals say, and what the history    *)
(* adds to it.                                                             *)

Waiting == \A n \in Role : mode[n] = "up" => Interrupted(st[n]) = {asking[n]} \ {NoToken}
AskedIsKnown == \A k \in Key : asked[k] <= 1 /\ (asked[k] > 0 => Known(st["slave"], k))
GivenIsConsumed ==
    \A n \in Role, k \in Key :
        given[n][k] <= 1 /\ (given[n][k] > 0 => st[n].key[k].state = "CONSUMED")
GotIsWhole ==
    \A n \in Role, t \in Token : got[n][t] # {} =>
        st[n].req[t].status = "consumed" /\ got[n][t] = st[n].req[t].ids

Inv ==
    /\ TypeOK
    /\ \A n \in Role : Sound(n, st[n])
    /\ Waiting
    /\ AskedIsKnown
    /\ GivenIsConsumed
    /\ GotIsWhole

StepOnward == \A n \in Role : Onward(st[n], st'[n])

LEMMA InitInv == Init => Inv
<1> SUFFICES ASSUME Init PROVE Inv
  OBVIOUS
<1>1. NewGateway \in GatewayState
  <2>1. [status |-> "none", count |-> 0, ids |-> {}] \in Request
    BY IngestAssumption DEF Request, RequestStatus
  <2>2. [state |-> "absent", material |-> FALSE] \in KeyRecord
    BY DEF KeyRecord, KeyState
  <2>3. 0 \in 0..Capacity
    BY IngestAssumption
  <2> QED BY <2>1, <2>2, <2>3 DEF NewGateway, GatewayState
<1>2. TypeOK
  <2>1. NoAnswer \in Answer /\ 0 \in 0..MaxFaults
    BY IngestAssumption DEF NoAnswer, Answer
  <2>2. [count |-> 0, ids |-> {}] \in Call
    BY IngestAssumption DEF Call
  <2> QED BY <1>1, <2>1, <2>2 DEF Init, TypeOK
<1>3. \A n \in Role : Sound(n, st[n])
  BY DEF Init, NewGateway, Sound, BytesAreHeld, HeldIsOpen, OpenIsHeld, Interrupted
<1>4. Waiting
  BY DEF Init, Waiting, Interrupted, NewGateway
<1>5. AskedIsKnown /\ GivenIsConsumed /\ GotIsWhole
  BY DEF Init, AskedIsKnown, GivenIsConsumed, GotIsWhole
<1> QED BY <1>2, <1>3, <1>4, <1>5 DEF Inv

(* What is handed out is recorded in s, the journal of n after the step.   *)
HandedOut(n, s) ==
    /\ given' \in [Role -> [Key -> 0..2]] /\ got' \in [Role -> [Token -> SUBSET Key]]
    /\ \A m \in Role, k \in Key :
          \/ given'[m][k] = given[m][k]
          \/ m = n /\ given'[m][k] = 1 /\ s.key[k].state = "CONSUMED"
    /\ \A m \in Role, t \in Token :
          \/ got'[m][t] = got[m][t]
          \/ m = n /\ s.req[t].status = "consumed" /\ got'[m][t] = s.req[t].ids

LEMMA NothingHandedOut ==
    ASSUME Inv, UNCHANGED <<given, got>>, NEW n, NEW s PROVE HandedOut(n, s)
BY DEF Inv, TypeOK, HandedOut

(* The gateway n changes its journal to s. *)
LEMMA JournalStep ==
    ASSUME Inv, TypeOK', NEW n \in Role, NEW s, Sound(n, s), Onward(st[n], s),
           st' = [st EXCEPT ![n] = s],
           mode'[n] = "up" => Interrupted(s) = {asking'[n]} \ {NoToken},
           \A m \in Role \ {n} : mode'[m] = mode[m] /\ asking'[m] = asking[m],
           \A k \in Key : asked'[k] = asked[k] \/ (n = "slave" /\ asked'[k] = 1 /\ Known(s, k)),
           HandedOut(n, s)
    PROVE  Inv' /\ StepOnward
<1>0. st'[n] = s /\ \A m \in Role \ {n} : st'[m] = st[m]
  BY DEF Inv, TypeOK
<1>1. \A m \in Role : Sound(m, st'[m])
  BY <1>0 DEF Inv
<1>2. StepOnward
  BY <1>0 DEF StepOnward, Onward
<1>3. Waiting'
  BY <1>0 DEF Inv, Waiting
<1>4. AskedIsKnown'
  BY <1>0, <1>2 DEF Inv, AskedIsKnown, StepOnward, Onward, Role
<1>5. GivenIsConsumed'
  <2>1. \A m \in Role, k \in Key :
          \/ given'[m][k] = given[m][k]
          \/ m = n /\ given'[m][k] = 1 /\ s.key[k].state = "CONSUMED"
    BY DEF HandedOut
  <2> QED BY <1>0, <1>2, <2>1 DEF Inv, GivenIsConsumed, StepOnward, Onward, Final
<1>6. GotIsWhole'
  <2>1. \A m \in Role, t \in Token :
          \/ got'[m][t] = got[m][t]
          \/ m = n /\ s.req[t].status = "consumed" /\ got'[m][t] = s.req[t].ids
    BY DEF HandedOut
  <2> QED BY <1>0, <1>2, <2>1 DEF Inv, GotIsWhole, StepOnward, Onward
<1> QED BY <1>1, <1>2, <1>3, <1>4, <1>5, <1>6 DEF Inv

(* No journal changes, and no process starts. *)
LEMMA QuietStep ==
    ASSUME Inv, TypeOK', st' = st, given' = given, got' = got, asked' = asked,
           \A n \in Role : mode'[n] = "up" => mode[n] = "up" /\ asking'[n] = asking[n]
    PROVE  Inv' /\ StepOnward
<1>1. Waiting'
  BY DEF Inv, Waiting
<1>2. AskedIsKnown' /\ GivenIsConsumed' /\ GotIsWhole'
  BY DEF Inv, AskedIsKnown, GivenIsConsumed, GotIsWhole
<1>3. StepOnward
  BY DEF StepOnward, Onward
<1> QED BY <1>1, <1>2, <1>3 DEF Inv

LEMMA ChangeType ==
    ASSUME TypeOK, NEW n \in Role, NEW s \in GatewayState, NEW saved \in BOOLEAN, Change(n, s, saved)
    PROVE  /\ st' = [st EXCEPT ![n] = s] /\ st' \in [Role -> GatewayState]
           /\ mode' \in [Role -> {"up", "failed"}]
           /\ mode[n] = "up" /\ (mode'[n] = "up" => saved)
           /\ \A m \in Role \ {n} : mode'[m] = mode[m]
           /\ faults' \in 0..MaxFaults
<1>1. st' = [st EXCEPT ![n] = s] /\ st' \in [Role -> GatewayState] /\ mode[n] = "up"
  BY DEF Change, TypeOK
<1>2. CASE saved
  BY <1>1, <1>2 DEF Change, TypeOK
<1>3. CASE ~saved
  <2>1. faults' \in 0..MaxFaults
    BY <1>3, IngestAssumption DEF Change, Fault, TypeOK
  <2> QED BY <1>1, <1>3, <2>1 DEF Change, TypeOK
<1> QED BY <1>2, <1>3

-----------------------------------------------------------------------------
(* The steps.                                                              *)

LEMMA AskKeeps ==
    ASSUME Inv, NEW n \in Role, NEW t \in Token, NEW size, NEW B \in SUBSET Key, NEW saved \in BOOLEAN,
           Idle(n),
           \A k \in B : ~Known(Expire(st[n], over[n]), k),
           n = "master" => B = {},
           n = "slave" => size = Cardinality(B),
           Ask(n, Expire(st[n], over[n]), t, size, B, saved)
    PROVE  Inv' /\ StepOnward
<1> DEFINE s == Expire(st[n], over[n])
           r == Begun(s, t, size, B)
<1>0. st[n] \in GatewayState /\ Sound(n, st[n]) /\ Interrupted(st[n]) = {}
  BY DEF Inv, TypeOK, Idle, Waiting
<1>1. /\ s \in GatewayState /\ Sound(n, s) /\ Onward(st[n], s)
      /\ s.req = st[n].req
      /\ \A k \in Key : Known(s, k) => Known(st[n], k)
  BY <1>0, ExpireKeeps
<1>2. Interrupted(s) = {}
  BY <1>0, <1>1 DEF Interrupted
<1>3. s.req[t].status = "none" /\ size \in 1..MaxBatch /\ s.attempts + size <= Capacity
  BY <1>1 DEF Ask, CanAsk
<1>4. \A k \in B : ~Known(s, k)
  OBVIOUS
<1>5. Change(n, r, saved)
  BY DEF Ask
<1> HIDE DEF s, r
<1>6. /\ r \in GatewayState /\ Sound(n, r) /\ Onward(s, r)
      /\ Interrupted(r) = {t}
      /\ \A k \in B : Known(r, k)
  BY <1>1, <1>2, <1>3, <1>4, BegunKeeps DEF r
<1>7. Onward(st[n], r)
  BY <1>1, <1>6 DEF Onward
<1>8. /\ st' = [st EXCEPT ![n] = r] /\ st' \in [Role -> GatewayState]
      /\ mode' \in [Role -> {"up", "failed"}]
      /\ mode'[n] = "up" => saved
      /\ \A m \in Role \ {n} : mode'[m] = mode[m]
      /\ faults' \in 0..MaxFaults
  BY <1>5, <1>6, ChangeType DEF Inv
<1>9. /\ answer' = answer /\ prov' = prov /\ over' = over /\ given' = given /\ got' = got
      /\ asking' = IF saved THEN [asking EXCEPT ![n] = t] ELSE asking
      /\ wire' = IF saved THEN wire \cup {<<n, t>>} ELSE wire
      /\ posted' = IF saved THEN [posted EXCEPT ![n][t] = [count |-> size, ids |-> B]] ELSE posted
      /\ asked' = IF saved THEN [k \in Key |-> IF k \in B /\ asked[k] < 2 THEN asked[k] + 1 ELSE asked[k]]
                  ELSE asked
  BY DEF Ask, Post
<1>10. asked \in [Key -> 0..2] /\ asking \in [Role -> Token \cup {NoToken}]
  BY DEF Inv, TypeOK
<1>11. asked' \in [Key -> 0..2]
  BY <1>9, <1>10
<1>12. TypeOK'
  <2>1. [count |-> size, ids |-> B] \in Call
    BY <1>3, IngestAssumption DEF Call
  <2>2. posted' \in [Role -> [Token -> Call]]
    BY <1>9, <2>1 DEF Inv, TypeOK
  <2>3. wire' \subseteq Role \X Token
    BY <1>9 DEF Inv, TypeOK
  <2> QED BY <1>8, <1>9, <1>10, <1>11, <2>2, <2>3 DEF Inv, TypeOK
<1>13. mode'[n] = "up" => Interrupted(r) = {asking'[n]} \ {NoToken}
  BY <1>6, <1>8, <1>9, <1>10, IngestAssumption
<1>14. \A m \in Role \ {n} : mode'[m] = mode[m] /\ asking'[m] = asking[m]
  BY <1>8, <1>9, <1>10
<1>15. \A k \in Key : asked'[k] = asked[k] \/ (n = "slave" /\ asked'[k] = 1 /\ Known(r, k))
  <2> SUFFICES ASSUME NEW k \in Key, k \in B, saved
               PROVE  n = "slave" /\ asked'[k] = 1 /\ Known(r, k)
    BY <1>9, <1>10
  <2>1. n = "slave"
    BY DEF Role
  <2>2. ~Known(st["slave"], k)
    <3>1. ~Known(s, k)
      BY <1>4
    <3> QED BY <1>1, <2>1, <3>1 DEF Onward
  <2>3. asked[k] = 0
    BY <1>10, <2>2 DEF Inv, AskedIsKnown
  <2> QED BY <1>6, <1>9, <2>1, <2>3
<1>16. HandedOut(n, r)
  BY <1>9, NothingHandedOut
<1> QED BY <1>6, <1>7, <1>8, <1>12, <1>13, <1>14, <1>15, <1>16, JournalStep

(* The steps between two calls change nothing but the journal. *)
LEMMA IdleStep ==
    ASSUME Inv, NEW n \in Role, NEW s \in GatewayState, NEW saved \in BOOLEAN,
           Idle(n), Sound(n, s), Onward(st[n], s), Interrupted(s) = {},
           Change(n, s, saved), UNCHANGED <<asking, answer, wire, posted, prov, over, history>>
    PROVE  Inv' /\ StepOnward
<1>1. /\ st' = [st EXCEPT ![n] = s] /\ st' \in [Role -> GatewayState]
      /\ mode' \in [Role -> {"up", "failed"}]
      /\ \A m \in Role \ {n} : mode'[m] = mode[m]
      /\ faults' \in 0..MaxFaults
  BY ChangeType DEF Inv
<1>2. asking' = asking /\ given' = given /\ got' = got /\ asked' = asked
  BY DEF history
<1>3. TypeOK'
  BY <1>1, <1>2 DEF Inv, TypeOK
<1>4. asking[n] = NoToken
  BY DEF Idle
<1>5. HandedOut(n, s)
  BY <1>2, NothingHandedOut
<1> QED BY <1>1, <1>2, <1>3, <1>4, <1>5, JournalStep

LEMMA TickKeeps ==
    ASSUME Inv, NEW n \in Role, NEW saved \in BOOLEAN, Tick(n, saved)
    PROVE  Inv' /\ StepOnward
<1> DEFINE s == Expire(st[n], over[n])
<1>0. st[n] \in GatewayState /\ Sound(n, st[n]) /\ Interrupted(st[n]) = {} /\ Idle(n)
  BY DEF Inv, TypeOK, Idle, Waiting, Tick
<1>1. s \in GatewayState /\ Sound(n, s) /\ Onward(st[n], s) /\ s.req = st[n].req
  BY <1>0, ExpireKeeps
<1>2. Change(n, s, saved) /\ UNCHANGED <<asking, answer, wire, posted, prov, over, history>>
  BY DEF Tick
<1> HIDE DEF s
<1>3. Interrupted(s) = {}
  BY <1>0, <1>1 DEF Interrupted
<1> QED BY <1>0, <1>1, <1>2, <1>3, IdleStep

LEMMA InvalidatedKeeps ==
    ASSUME NEW n \in Role, NEW s \in GatewayState, Sound(n, s), Interrupted(s) = {}, NEW B,
           \A k \in B \cap Key : s.key[k].state = "RESERVED"
    PROVE  /\ Ended(s, B, "INVALID") \in GatewayState /\ Sound(n, Ended(s, B, "INVALID"))
           /\ Onward(s, Ended(s, B, "INVALID"))
           /\ Interrupted(Ended(s, B, "INVALID")) = {}
<1>1. "INVALID" \in Final
  BY DEF Final
<1>2. /\ Ended(s, B, "INVALID") \in GatewayState /\ Sound(n, Ended(s, B, "INVALID"))
      /\ Onward(s, Ended(s, B, "INVALID"))
  <2>1. \A t \in Interrupted(s) : s.req[t].ids \cap B = {}
    OBVIOUS
  <2> QED BY <1>1, <2>1, EndedKeeps
<1>3. Ended(s, B, "INVALID").req = s.req
  BY DEF Ended, Marked, GatewayState
<1> QED BY <1>2, <1>3 DEF Interrupted

LEMMA InvalidateKeyKeeps ==
    ASSUME Inv, NEW n \in Role, NEW k \in Key, NEW saved \in BOOLEAN, InvalidateKey(n, k, saved)
    PROVE  Inv' /\ StepOnward
<1> DEFINE K == {k}
           s == Ended(st[n], K, "INVALID")
<1>1. st[n] \in GatewayState /\ Sound(n, st[n]) /\ Interrupted(st[n]) = {} /\ Idle(n)
  BY DEF Inv, TypeOK, Idle, Waiting, InvalidateKey
<1>2. \A x \in K \cap Key : st[n].key[x].state = "RESERVED"
  BY DEF InvalidateKey
<1>3. Change(n, s, saved) /\ UNCHANGED <<asking, answer, wire, posted, prov, over, history>>
  BY DEF InvalidateKey
<1> HIDE DEF s, K
<1>4. s \in GatewayState /\ Sound(n, s) /\ Onward(st[n], s) /\ Interrupted(s) = {}
  BY <1>1, <1>2, InvalidatedKeeps DEF s
<1> QED BY <1>1, <1>3, <1>4, IdleStep

(* The keys of a request that is consumed in s are handed out, none of     *)
(* them for the second time.                                               *)
LEMMA GiveToHandsOut ==
    ASSUME Inv, NEW n \in Role, NEW s, NEW t \in Token, NEW B \in SUBSET Key, NEW saved \in BOOLEAN,
           \A k \in B : st[n].key[k].state # "CONSUMED" /\ s.key[k].state = "CONSUMED",
           s.req[t].status = "consumed", s.req[t].ids = B,
           GiveTo(n, t, B, saved)
    PROVE  HandedOut(n, s)
<1>1. given \in [Role -> [Key -> 0..2]] /\ got \in [Role -> [Token -> SUBSET Key]]
  BY DEF Inv, TypeOK
<1>2. \A k \in B : given[n][k] = 0
  BY <1>1 DEF Inv, GivenIsConsumed
<1>3. CASE ~saved
  BY <1>1, <1>3, NothingHandedOut DEF GiveTo
<1>4. CASE saved
  <2> DEFINE g == [k \in Key |-> IF k \in B /\ given[n][k] < 2 THEN given[n][k] + 1 ELSE given[n][k]]
  <2>1. given' = [given EXCEPT ![n] = g] /\ got' = [got EXCEPT ![n][t] = B]
    BY <1>4 DEF GiveTo
  <2>2. g \in [Key -> 0..2] /\ \A k \in Key : g[k] = IF k \in B THEN 1 ELSE given[n][k]
    BY <1>1, <1>2
  <2> HIDE DEF g
  <2> QED BY <1>1, <2>1, <2>2 DEF HandedOut
<1> QED BY <1>3, <1>4

(* A call ends, or there was none: the journal becomes s. *)
LEMMA CallStep ==
    ASSUME Inv, NEW n \in Role, NEW s \in GatewayState, NEW saved \in BOOLEAN,
           Sound(n, s), Onward(st[n], s), Interrupted(s) = {}, HandedOut(n, s),
           Change(n, s, saved),
           Settled(n) \/ (asking[n] = NoToken /\ UNCHANGED <<asking, answer>>),
           UNCHANGED <<wire, posted, prov, over, asked>>
    PROVE  Inv' /\ StepOnward
<1>1. /\ st' = [st EXCEPT ![n] = s] /\ st' \in [Role -> GatewayState]
      /\ mode' \in [Role -> {"up", "failed"}]
      /\ \A m \in Role \ {n} : mode'[m] = mode[m]
      /\ faults' \in 0..MaxFaults
  BY ChangeType DEF Inv
<1>2. /\ asking' \in [Role -> Token \cup {NoToken}] /\ answer' \in [Role -> Answer]
      /\ asking'[n] = NoToken
      /\ \A m \in Role \ {n} : asking'[m] = asking[m]
  <2>1. NoAnswer \in Answer
    BY DEF NoAnswer, Answer
  <2> QED BY <2>1 DEF Settled, Inv, TypeOK
<1>3. TypeOK'
  BY <1>1, <1>2 DEF HandedOut, Inv, TypeOK
<1>4. asked' = asked
  OBVIOUS
<1> QED BY <1>1, <1>2, <1>3, <1>4, JournalStep

LEMMA CompleteKeeps ==
    ASSUME Inv, NEW n \in Role, NEW saved \in BOOLEAN, Complete(n, saved)
    PROVE  Inv' /\ StepOnward
<1> DEFINE t == asking[n]
           B == answer[n].ids
<1>1. mode[n] = "up" /\ t \in Token
  BY DEF Complete, Change, Inv, TypeOK
<1>2. Interrupted(st[n]) = {t} /\ st[n] \in GatewayState /\ Sound(n, st[n])
  BY <1>1, IngestAssumption DEF Inv, TypeOK, Waiting
<1>3. st[n].req[t].status = "pending"
  BY <1>2 DEF Interrupted
<1>4. B \in SUBSET Key
  BY DEF Inv, TypeOK, Answer
<1>5. Settled(n) /\ UNCHANGED <<wire, posted, prov, over, asked>>
  BY DEF Complete
<1>6. CASE ~Good(n)
  <2> DEFINE s == Uncertain(st[n], t)
  <2>1. Change(n, s, saved) /\ UNCHANGED <<given, got>>
    BY <1>6 DEF Complete
  <2>2. s \in GatewayState /\ Sound(n, s) /\ Onward(st[n], s) /\ Interrupted(s) = {}
    BY <1>1, <1>2, UncertainKeeps
  <2> HIDE DEF s, t, B
  <2>3. HandedOut(n, s)
    BY <2>1, NothingHandedOut
  <2> QED BY <1>5, <2>1, <2>2, <2>3, CallStep
<1>7. CASE Good(n) /\ n = "slave"
  <2> DEFINE s == Consumed(st[n], t)
  <2>1. Change(n, s, saved) /\ GiveTo(n, t, B, saved)
    BY <1>7 DEF Complete
  <2>2. B = st[n].req[t].ids
    <3>1. st[n].req[t].ids \subseteq Key /\ Cardinality(st[n].req[t].ids) = st[n].req[t].count
      BY <1>1, <1>2, <1>7 DEF Sound, OpenIsHeld, GatewayState, Request
    <3>2. B \subseteq st[n].req[t].ids /\ Cardinality(B) = st[n].req[t].count
      BY <1>7 DEF Good, Valid
    <3>3. IsFiniteSet(st[n].req[t].ids)
      BY <3>1, FS_Subset, IngestAssumption
    <3> QED BY <3>1, <3>2, <3>3, FS_Subset
  <2>3. \A k \in st[n].req[t].ids : st[n].key[k].state = "RESERVED"
    BY <1>2 DEF Sound, OpenIsHeld, InFlight
  <2> HIDE DEF s, t, B
  <2>4. /\ s \in GatewayState /\ Sound(n, s) /\ Onward(st[n], s) /\ Interrupted(s) = {}
        /\ s.req[t].ids = st[n].req[t].ids /\ s.req[t].status = "consumed"
        /\ \A k \in st[n].req[t].ids : s.key[k].state = "CONSUMED"
    BY <1>1, <1>2, <1>3, <2>3, ConsumedKeeps DEF s
  <2>5. \A k \in B : st[n].key[k].state # "CONSUMED" /\ s.key[k].state = "CONSUMED"
    BY <2>2, <2>3, <2>4
  <2>6. HandedOut(n, s)
    BY <1>1, <1>4, <2>1, <2>2, <2>4, <2>5, GiveToHandsOut
  <2> QED BY <1>5, <2>1, <2>4, <2>6, CallStep
<1>8. CASE Good(n) /\ n = "master"
  <2> DEFINE s == Fetched(st[n], t, B)
  <2>1. Change(n, s, saved) /\ UNCHANGED <<given, got>>
    BY <1>8 DEF Complete
  <2>2. \A k \in B : ~Known(st[n], k)
    BY <1>8 DEF Good, Valid
  <2> HIDE DEF s, t, B
  <2>3. s \in GatewayState /\ Sound(n, s) /\ Onward(st[n], s) /\ Interrupted(s) = {}
    BY <1>1, <1>2, <1>4, <1>8, <2>2, FetchedKeeps DEF s
  <2>4. HandedOut(n, s)
    BY <2>1, NothingHandedOut
  <2> QED BY <1>5, <1>8, <2>1, <2>3, <2>4, CallStep
<1> QED BY <1>6, <1>7, <1>8 DEF Role

LEMMA ConsumeReservationKeeps ==
    ASSUME Inv, NEW t \in Token, NEW saved \in BOOLEAN, ConsumeReservation(t, saved)
    PROVE  Inv' /\ StepOnward
<1> DEFINE s == Expire(st["master"], over["master"])
           B == s.req[t].ids
           r == Consumed(s, t)
<1>0. "master" \in Role
  BY DEF Role
<1>1. /\ st["master"] \in GatewayState /\ Sound("master", st["master"])
      /\ Interrupted(st["master"]) = {} /\ asking["master"] = NoToken
  BY <1>0 DEF Inv, TypeOK, Idle, Waiting, ConsumeReservation
<1>2. /\ s \in GatewayState /\ Sound("master", s) /\ Onward(st["master"], s)
      /\ s.req = st["master"].req
  BY <1>0, <1>1, ExpireKeeps
<1>3. Interrupted(s) = {}
  BY <1>1, <1>2 DEF Interrupted
<1>4. /\ s.req[t].status = "stored"
      /\ \A k \in B : s.key[k].state = "RESERVED"
      /\ Change("master", r, saved) /\ GiveTo("master", t, B, saved)
      /\ UNCHANGED <<asking, answer, wire, posted, prov, over, asked>>
  BY DEF ConsumeReservation
<1> HIDE DEF s, r
<1>5. B \in SUBSET Key
  BY <1>2 DEF GatewayState, Request
<1>6. /\ r \in GatewayState /\ Sound("master", r) /\ Onward(s, r) /\ Interrupted(r) = {}
      /\ r.req[t].ids = B /\ r.req[t].status = "consumed"
      /\ \A k \in B : r.key[k].state = "CONSUMED"
  BY <1>0, <1>2, <1>3, <1>4, ConsumedKeeps DEF r
<1>7. Onward(st["master"], r)
  BY <1>2, <1>6 DEF Onward
<1>8. \A k \in B : st["master"].key[k].state # "CONSUMED"
  BY <1>2, <1>4, <1>5 DEF Onward, Final
<1> HIDE DEF B
<1>9. HandedOut("master", r)
  BY <1>0, <1>4, <1>5, <1>6, <1>8, GiveToHandsOut
<1> QED BY <1>0, <1>1, <1>4, <1>6, <1>7, <1>9, CallStep

LEMMA RestartKeeps ==
    ASSUME Inv, NEW n \in Role, NEW saved \in BOOLEAN, Restart(n, saved)
    PROVE  Inv' /\ StepOnward
<1> DEFINE s == Recovered(st[n], over[n])
<1>1. s \in GatewayState /\ Sound(n, s) /\ Onward(st[n], s) /\ Interrupted(s) = {}
  BY RecoveredKeeps DEF Inv, TypeOK
<1>2. st' = [st EXCEPT ![n] = s]
  BY DEF Restart
<1> HIDE DEF s
<1>3. /\ asking' = [asking EXCEPT ![n] = NoToken] /\ answer' = [answer EXCEPT ![n] = NoAnswer]
      /\ UNCHANGED <<wire, posted, prov, over, given, got, asked>>
  BY DEF Restart, Settled, history
<1>4. mode' \in [Role -> {"up", "failed"}] /\ \A m \in Role \ {n} : mode'[m] = mode[m]
  BY DEF Restart, Inv, TypeOK
<1>5. faults' \in 0..MaxFaults
  BY IngestAssumption DEF Restart, Fault, Inv, TypeOK
<1>6. NoAnswer \in Answer
  BY DEF NoAnswer, Answer
<1>7. TypeOK'
  BY <1>1, <1>2, <1>3, <1>4, <1>5, <1>6 DEF Inv, TypeOK
<1>8. asking'[n] = NoToken /\ \A m \in Role \ {n} : asking'[m] = asking[m]
  BY <1>3 DEF Inv, TypeOK
<1>9. HandedOut(n, s)
  BY <1>3, NothingHandedOut
<1> QED BY <1>1, <1>2, <1>3, <1>4, <1>7, <1>8, <1>9, JournalStep

LEMMA ServeKeeps ==
    ASSUME Inv, NEW n \in Role, NEW t \in Token, NEW a \in Answer, Serve(n, t, a),
           prov' \in [Key -> {"free", "half", "spent"}], faults' \in 0..MaxFaults
    PROVE  Inv' /\ StepOnward
<1>1. UNCHANGED <<st, mode, asking, posted, over, given, got, asked>> /\ wire' \subseteq wire
  BY DEF Serve, history
<1>2. answer' \in [Role -> Answer]
  BY DEF Serve, Return, Inv, TypeOK
<1>3. TypeOK'
  BY <1>1, <1>2 DEF Inv, TypeOK
<1> QED BY <1>1, <1>3, QuietStep

LEMMA ProviderKeeps ==
    ASSUME Inv, Provider
    PROVE  Inv' /\ StepOnward
<1>1. faults \in 0..MaxFaults /\ prov \in [Key -> {"free", "half", "spent"}]
  BY DEF Inv, TypeOK
<1>2. PICK t \in Token :
         \/ Retrieve(t)
         \/ \E B \in SUBSET Key : Allocate(t, B)
         \/ \E n \in Role : Refuse(n, t) \/ \E B \in SUBSET Key : Misanswer(n, t, B)
  BY DEF Provider
<1>3. CASE Retrieve(t)
  <2> DEFINE a == [kind |-> "keys", ids |-> posted["slave"][t].ids]
  <2>1. "slave" \in Role /\ a \in Answer
    BY DEF Role, Answer, Inv, TypeOK, Call
  <2>2. Serve("slave", t, a)
    BY <1>3 DEF Retrieve
  <2>3. prov' \in [Key -> {"free", "half", "spent"}] /\ faults' \in 0..MaxFaults
    BY <1>1, <1>3 DEF Retrieve
  <2> HIDE DEF a
  <2> QED BY <2>1, <2>2, <2>3, ServeKeeps
<1>4. CASE \E B \in SUBSET Key : Allocate(t, B)
  <2>1. PICK B \in SUBSET Key : Allocate(t, B)
    BY <1>4
  <2> DEFINE a == [kind |-> "keys", ids |-> B]
  <2>2. "master" \in Role /\ a \in Answer
    BY DEF Role, Answer
  <2>3. Serve("master", t, a)
    BY <2>1 DEF Allocate
  <2>4. prov' \in [Key -> {"free", "half", "spent"}] /\ faults' \in 0..MaxFaults
    BY <1>1, <2>1 DEF Allocate
  <2> HIDE DEF a
  <2> QED BY <2>2, <2>3, <2>4, ServeKeeps
<1>5. CASE \E n \in Role : Refuse(n, t)
  <2>1. PICK n \in Role : Refuse(n, t)
    BY <1>5
  <2>2. Failure \in Answer
    BY DEF Failure, Answer
  <2> QED BY <1>1, <2>1, <2>2, ServeKeeps DEF Refuse
<1>6. CASE \E n \in Role, B \in SUBSET Key : Misanswer(n, t, B)
  <2>1. PICK n \in Role, B \in SUBSET Key : Misanswer(n, t, B)
    BY <1>6
  <2> DEFINE a == [kind |-> "keys", ids |-> B]
  <2>2. a \in Answer
    BY DEF Answer
  <2>3. Serve(n, t, a) /\ prov' = prov
    BY <2>1 DEF Misanswer
  <2>4. faults' \in 0..MaxFaults
    BY <1>1, <2>1, IngestAssumption DEF Misanswer, Fault
  <2> HIDE DEF a
  <2> QED BY <1>1, <2>2, <2>3, <2>4, ServeKeeps
<1> QED BY <1>2, <1>3, <1>4, <1>5, <1>6

LEMMA TimeOutKeeps ==
    ASSUME Inv, NEW n \in Role, TimeOut(n)
    PROVE  Inv' /\ StepOnward
<1>1. UNCHANGED <<st, mode, asking, wire, posted, prov, over, given, got, asked>>
  BY DEF TimeOut, history
<1>2. answer' \in [Role -> Answer]
  <2>1. Failure \in Answer
    BY DEF Failure, Answer
  <2> QED BY <2>1 DEF TimeOut, Inv, TypeOK
<1>3. faults' \in 0..MaxFaults
  BY IngestAssumption DEF TimeOut, Fault, Inv, TypeOK
<1>4. TypeOK'
  BY <1>1, <1>2, <1>3 DEF Inv, TypeOK
<1> QED BY <1>1, <1>4, QuietStep

LEMMA CrashKeeps ==
    ASSUME Inv, NEW n \in Role, Crash(n)
    PROVE  Inv' /\ StepOnward
<1>1. UNCHANGED <<st, asking, answer, wire, posted, prov, over, given, got, asked>>
  BY DEF Crash, history
<1>2. mode' \in [Role -> {"up", "failed"}] /\ \A m \in Role : mode'[m] = "up" => mode[m] = "up"
  BY DEF Crash, Inv, TypeOK
<1>3. faults' \in 0..MaxFaults
  BY IngestAssumption DEF Crash, Fault, Inv, TypeOK
<1>4. TypeOK'
  BY <1>1, <1>2, <1>3 DEF Inv, TypeOK
<1> QED BY <1>1, <1>2, <1>4, QuietStep

LEMMA LapseKeeps ==
    ASSUME Inv, NEW n \in Role, NEW t \in Token, Lapse(n, t)
    PROVE  Inv' /\ StepOnward
<1>1. UNCHANGED <<st, mode, asking, answer, wire, posted, prov, faults, given, got, asked>>
  BY DEF Lapse, process, history
<1>2. over' \in [Role -> SUBSET Token]
  BY DEF Lapse, Inv, TypeOK
<1>3. TypeOK'
  BY <1>1, <1>2 DEF Inv, TypeOK
<1> QED BY <1>1, <1>3, QuietStep

LEMMA SavingKeeps ==
    ASSUME Inv, NEW saved \in BOOLEAN, Saving(saved)
    PROVE  Inv' /\ StepOnward
<1>1. CASE \E size \in 1..MaxBatch, t \in Token : ReserveKeys(size, t, saved)
  <2>1. PICK size \in 1..MaxBatch, t \in Token : ReserveKeys(size, t, saved)
    BY <1>1
  <2>2. "master" \in Role /\ {} \in SUBSET Key
    BY DEF Role
  <2>3. Idle("master") /\ Ask("master", Expire(st["master"], over["master"]), t, size, {}, saved)
    BY <2>1 DEF ReserveKeys
  <2> QED BY <2>2, <2>3, AskKeeps
<1>2. CASE \E B \in SUBSET Key, t \in Token : ConsumePeerKeys(B, t, saved)
  <2>1. PICK B \in SUBSET Key, t \in Token : ConsumePeerKeys(B, t, saved)
    BY <1>2
  <2>2. "slave" \in Role
    BY DEF Role
  <2>3. /\ Idle("slave")
        /\ \A k \in B : ~Known(Expire(st["slave"], over["slave"]), k)
        /\ Ask("slave", Expire(st["slave"], over["slave"]), t, Cardinality(B), B, saved)
    BY <2>1 DEF ConsumePeerKeys
  <2> QED BY <2>2, <2>3, AskKeeps
<1>3. CASE \E t \in Token : ConsumeReservation(t, saved)
  BY <1>3, ConsumeReservationKeeps
<1>4. CASE \E n \in Role : Gateway(n, saved)
  BY <1>4, CompleteKeeps, InvalidateKeyKeeps, TickKeeps, RestartKeeps DEF Gateway
<1> QED BY <1>1, <1>2, <1>3, <1>4 DEF Saving

LEMMA NextKeeps ==
    ASSUME Inv, [Next]_vars
    PROVE  Inv' /\ StepOnward
<1>1. CASE UNCHANGED vars
  <2>1. UNCHANGED <<st, mode, asking, answer, wire, posted, prov, over, faults, given, got, asked>>
    BY <1>1 DEF vars
  <2>2. TypeOK'
    BY <2>1 DEF Inv, TypeOK
  <2> QED BY <2>1, <2>2, QuietStep
<1>2. CASE Next
  BY <1>2, SavingKeeps, ProviderKeeps, TimeOutKeeps, CrashKeeps, LapseKeeps DEF Next
<1> QED BY <1>1, <1>2

-----------------------------------------------------------------------------
(* The accounts.  What the provider spent is recorded before it is asked;  *)
(* a call it has not served yet is paid for as well, because it may serve  *)
(* the call after the gateway gave up or crashed.  So the attempts cover   *)
(* the keys it took plus the keys it still owes.                           *)

KnownKeys(s) == {k \in Key : Known(s, k)}

Named(s) == \A t \in Token : \A k \in s.req[t].ids : Known(s, k)

Covers(n, s) ==
    /\ Named(s)
    /\ Cardinality(KnownKeys(s)) <= s.attempts
    /\ n = "master" =>
          \A t \in Interrupted(s) : Cardinality(KnownKeys(s)) + s.req[t].count <= s.attempts

(* One element for each key of each unserved call of the master gateway.   *)
Owed(w, s) ==
    {p \in Token \X (1..MaxBatch) : <<"master", p[1]>> \in w /\ p[2] <= s.req[p[1]].count}

Taken(p) == {k \in Key : p[k] # "free"}

(* What a call says is what the journal s of its gateway has of it.       *)
Recorded(n, c, t, s) ==
    /\ s.req[t].status # "none" /\ c.count = s.req[t].count
    /\ n = "slave" => \A k \in c.ids : Known(s, k)

Paid ==
    /\ \A n \in Role : Covers(n, st[n])
    /\ \A k \in Key : prov[k] = "spent" => Known(st["slave"], k)
    /\ \A n \in Role, t \in Token : <<n, t>> \in wire => Recorded(n, posted[n][t], t, st[n])
    /\ IsFiniteSet(Owed(wire, st["master"]))
    /\ Cardinality(Taken(prov)) + Cardinality(Owed(wire, st["master"])) <= st["master"].attempts

(* A request that was made stays made, for as many keys.                   *)
Steadfast(s, r) ==
    /\ \A t \in Token : s.req[t].status # "none" =>
          r.req[t].status # "none" /\ r.req[t].count = s.req[t].count
    /\ \A k \in Key : Known(s, k) => Known(r, k)

(* A change of the journal from s to r that asks for nothing.              *)
Keeping(s, r) ==
    /\ \A t \in Token : /\ r.req[t].ids = s.req[t].ids
                        /\ r.req[t].count = s.req[t].count
                        /\ s.req[t].status # "none" => r.req[t].status # "none"
                        /\ r.req[t].status = "pending" => s.req[t].status = "pending"
    /\ r.attempts = s.attempts
    /\ \A k \in Key : Known(r, k) <=> Known(s, k)

LEMMA KeepingCovers ==
    ASSUME NEW n \in Role, NEW s \in GatewayState, NEW r, Covers(n, s), Keeping(s, r)
    PROVE  Covers(n, r) /\ Steadfast(s, r)
<1>1. KnownKeys(r) = KnownKeys(s)
  BY DEF KnownKeys, Keeping
<1>2. \A t \in Token : s.req[t].ids \subseteq Key
  BY DEF GatewayState, Request
<1>3. Named(r)
  BY <1>2 DEF Named, Covers, Keeping
<1>4. Interrupted(r) \subseteq Interrupted(s)
  BY DEF Interrupted, Keeping
<1>5. r.attempts = s.attempts /\ \A t \in Token : r.req[t].count = s.req[t].count
  BY DEF Keeping
<1>6. \A t \in Interrupted(r) : t \in Interrupted(s) /\ t \in Token
  BY <1>4 DEF Interrupted
<1>7. Steadfast(s, r)
  BY DEF Steadfast, Keeping
<1> QED BY <1>1, <1>3, <1>5, <1>6, <1>7 DEF Covers

LEMMA KeepingTransitive ==
    ASSUME NEW s, NEW q, NEW r, Keeping(s, q), Keeping(q, r) PROVE Keeping(s, r)
BY DEF Keeping

LEMMA EndedKeeping ==
    ASSUME NEW s \in GatewayState, NEW B, NEW e \in Final, \A k \in B \cap Key : Known(s, k)
    PROVE  Keeping(s, Ended(s, B, e))
BY EndedFields DEF Keeping, Known, Final

LEMMA ExpireKeeping ==
    ASSUME NEW s \in GatewayState, NEW done
    PROVE  Keeping(s, Expire(s, done))
<1>1. "EXPIRED" \in Final /\ \A k \in Lapsed(s, done) \cap Key : Known(s, k)
  BY DEF Final, Lapsed, Known
<1> QED BY <1>1, EndedKeeping DEF Expire

LEMMA ClosedKeeping ==
    ASSUME NEW s \in GatewayState, NEW t \in Token, NEW x \in {"uncertain", "consumed"}, NEW e \in Final,
           NEW C, \A k \in C \cap Key : Known(s, k)
    PROVE  Keeping(s, Closed(s, t, x, C, e))
<1> DEFINE m == [s EXCEPT !.req[t].status = x]
<1>1. s.req \in [Token -> Request] /\ s.req[t] \in Request
  BY DEF GatewayState
<1>2. /\ m.req \in [Token -> Request]
      /\ m.req[t].status = x /\ m.req[t].ids = s.req[t].ids /\ m.req[t].count = s.req[t].count
      /\ \A u \in Token \ {t} : m.req[u] = s.req[u]
      /\ m.attempts = s.attempts
  BY <1>1 DEF Request, RequestStatus, GatewayState
<1>3. m \in GatewayState /\ m.key = s.key
  BY <1>2 DEF GatewayState
<1>4. Closed(s, t, x, C, e) = Ended(m, C, e)
  BY DEF Closed
<1> HIDE DEF m
<1>5. Keeping(s, m)
  BY <1>2, <1>3 DEF Keeping, Known
<1>6. Keeping(m, Ended(m, C, e))
  BY <1>3, EndedKeeping DEF Known
<1> QED BY <1>4, <1>5, <1>6, KeepingTransitive

LEMMA RecoveredKeeping ==
    ASSUME NEW n \in Role, NEW s \in GatewayState, Sound(n, s), NEW done
    PROVE  Keeping(s, Recovered(s, done))
<1> DEFINE req == [t \in Token |-> IF t \in Interrupted(s)
                                   THEN [s.req[t] EXCEPT !.status = "uncertain"] ELSE s.req[t]]
           m == [s EXCEPT !.req = req]
           C == UNION {s.req[t].ids : t \in Interrupted(s)}
           q == Ended(m, C, "INVALID")
<1>1. s.req \in [Token -> Request]
  BY DEF GatewayState
<1>2. /\ req \in [Token -> Request]
      /\ \A t \in Token : /\ req[t].ids = s.req[t].ids /\ req[t].count = s.req[t].count
                          /\ s.req[t].status # "none" => req[t].status # "none"
                          /\ req[t].status # "pending"
  BY <1>1 DEF Request, RequestStatus, Interrupted
<1>3. m \in GatewayState /\ m.req = req /\ m.key = s.key /\ m.attempts = s.attempts
  BY <1>2 DEF GatewayState
<1>4. \A k \in C \cap Key : Known(s, k)
  BY DEF Sound, OpenIsHeld, InFlight, Known
<1>5. "INVALID" \in Final
  BY DEF Final
<1>6. Recovered(s, done) = Expire(q, done)
  BY DEF Recovered
<1> HIDE DEF req, m, C
<1>7. Keeping(s, m)
  BY <1>2, <1>3 DEF Keeping, Known
<1>8. Keeping(m, q) /\ q \in GatewayState
  <2>1. \A k \in C \cap Key : Known(m, k)
    BY <1>3, <1>4 DEF Known
  <2>2. Keeping(m, q)
    BY <1>3, <1>5, <2>1, EndedKeeping
  <2>3. q \in GatewayState
    BY <1>3, <1>5, EndedFields
  <2> QED BY <2>2, <2>3
<1> HIDE DEF q
<1>9. Keeping(q, Expire(q, done))
  BY <1>8, ExpireKeeping
<1> QED BY <1>6, <1>7, <1>8, <1>9, KeepingTransitive

(* Two disjoint sets, one of them of n elements more.                      *)
LEMMA AddApart ==
    ASSUME NEW S, IsFiniteSet(S), NEW B, IsFiniteSet(B), S \cap B = {}
    PROVE  IsFiniteSet(S \cup B) /\ Cardinality(S \cup B) = Cardinality(S) + Cardinality(B)
<1>1. Cardinality(S \cap B) = 0
  BY FS_EmptySet
<1>2. IsFiniteSet(S \cup B) /\ Cardinality(S \cup B) = Cardinality(S) + Cardinality(B) - Cardinality(S \cap B)
  BY FS_Union
<1>3. Cardinality(S) \in Nat /\ Cardinality(B) \in Nat
  BY FS_CardinalityType
<1> QED BY <1>1, <1>2, <1>3

LEMMA KeySets ==
    ASSUME NEW B \in SUBSET Key
    PROVE  IsFiniteSet(B) /\ Cardinality(B) \in Nat
BY IngestAssumption, FS_Subset, FS_CardinalityType

LEMMA BegunCovers ==
    ASSUME NEW n \in Role, NEW s \in GatewayState, Covers(n, s), Interrupted(s) = {},
           NEW t \in Token, s.req[t].status = "none",
           NEW size \in 1..MaxBatch, s.attempts + size <= Capacity,
           NEW B \in SUBSET Key, \A k \in B : ~Known(s, k),
           n = "master" => B = {},
           n = "slave" => size = Cardinality(B)
    PROVE  /\ Covers(n, Begun(s, t, size, B)) /\ Steadfast(s, Begun(s, t, size, B))
           /\ Begun(s, t, size, B).attempts = s.attempts + size
           /\ Begun(s, t, size, B).req[t].status = "pending"
           /\ Begun(s, t, size, B).req[t].count = size
<1> DEFINE q == [status |-> "pending", count |-> size, ids |-> B]
           m == [s EXCEPT !.req[t] = q, !.attempts = @ + size]
           r == Begun(s, t, size, B)
<1>1. InFlight \in KeyRecord
  BY DEF InFlight, KeyRecord, KeyState
<1>2. q \in Request /\ q.status = "pending" /\ q.count = size /\ q.ids = B
  BY IngestAssumption DEF Request, RequestStatus
<1> HIDE DEF q
<1>3. s.req \in [Token -> Request] /\ s.attempts \in Nat /\ s.attempts + size \in 0..Capacity
  BY IngestAssumption DEF GatewayState
<1>4. /\ m \in GatewayState
      /\ m.req = [s.req EXCEPT ![t] = q]
      /\ m.key = s.key /\ m.attempts = s.attempts + size
  BY <1>2, <1>3 DEF GatewayState
<1>5. r = Marked(m, B, InFlight)
  BY DEF Begun, m, InFlight, q
<1> HIDE DEF m, r
<1>6. /\ r.req = [s.req EXCEPT ![t] = q] /\ r.attempts = s.attempts + size
      /\ \A k \in Key : r.key[k] = IF k \in B THEN InFlight ELSE s.key[k]
  BY <1>1, <1>4, <1>5, MarkedFields
<1>7. r.req[t] = q /\ \A u \in Token \ {t} : r.req[u] = s.req[u]
  BY <1>3, <1>6
<1>8. \A k \in Key : Known(r, k) <=> k \in B \/ Known(s, k)
  BY <1>6 DEF Known, InFlight
<1>9. Interrupted(r) = {t}
  BY <1>2, <1>7 DEF Interrupted
<1>10. Named(r)
  <2>1. \A u \in Token : s.req[u].ids \subseteq Key
    BY <1>3 DEF Request
  <2> QED BY <1>2, <1>7, <1>8, <2>1 DEF Named, Covers
<1>11. KnownKeys(r) = KnownKeys(s) \cup B
  BY <1>8 DEF KnownKeys
<1>12. KnownKeys(s) \cap B = {} /\ KnownKeys(s) \in SUBSET Key
  BY DEF KnownKeys
<1>13. Cardinality(KnownKeys(r)) = Cardinality(KnownKeys(s)) + Cardinality(B)
  BY <1>11, <1>12, KeySets, AddApart
<1>14. Cardinality(KnownKeys(s)) \in Nat /\ Cardinality(B) \in Nat
  BY <1>12, KeySets
<1>15. Cardinality(KnownKeys(s)) <= s.attempts
  BY DEF Covers
<1>16. Cardinality(KnownKeys(r)) <= r.attempts
  <2>1. CASE n = "master"
    <3>1. Cardinality(B) = 0
      BY <2>1, FS_EmptySet
    <3> QED BY <1>3, <1>6, <1>13, <1>14, <1>15, <3>1
  <2>2. CASE n = "slave"
    BY <1>3, <1>6, <1>13, <1>14, <1>15, <2>2
  <2> QED BY <2>1, <2>2 DEF Role
<1>17. ASSUME n = "master", NEW u \in Interrupted(r)
       PROVE  Cardinality(KnownKeys(r)) + r.req[u].count <= r.attempts
  <2>1. u = t /\ r.req[u].count = size
    BY <1>2, <1>7, <1>9, <1>17
  <2>2. Cardinality(B) = 0
    BY <1>17, FS_EmptySet
  <2>3. r.attempts = s.attempts + size
    BY <1>6
  <2> QED BY <1>3, <1>13, <1>14, <1>15, <2>1, <2>2, <2>3
<1>18. Covers(n, r)
  BY <1>10, <1>16, <1>17 DEF Covers
<1>19. Steadfast(s, r)
  BY <1>7, <1>8 DEF Steadfast
<1> QED BY <1>2, <1>6, <1>7, <1>18, <1>19 DEF r

LEMMA FetchedCovers ==
    ASSUME NEW s \in GatewayState, Covers("master", s),
           NEW t \in Token, Interrupted(s) = {t},
           NEW B \in SUBSET Key, \A k \in B : ~Known(s, k), Cardinality(B) = s.req[t].count
    PROVE  /\ Covers("master", Fetched(s, t, B)) /\ Steadfast(s, Fetched(s, t, B))
           /\ Fetched(s, t, B).attempts = s.attempts
<1> DEFINE x == [state |-> "RESERVED", material |-> TRUE]
           m == [s EXCEPT !.req[t].ids = B, !.req[t].status = "stored"]
           r == Fetched(s, t, B)
<1>1. s.req \in [Token -> Request] /\ s.req[t] \in Request /\ s.attempts \in Nat
  BY IngestAssumption DEF GatewayState
<1>2. /\ m.req \in [Token -> Request]
      /\ m.req[t].status = "stored" /\ m.req[t].ids = B /\ m.req[t].count = s.req[t].count
      /\ \A u \in Token \ {t} : m.req[u] = s.req[u]
  BY <1>1 DEF Request, RequestStatus, GatewayState
<1>3. m \in GatewayState /\ m.key = s.key /\ m.attempts = s.attempts
  BY <1>2 DEF GatewayState
<1>4. r = Marked(m, B, x) /\ x \in KeyRecord
  BY DEF Fetched, KeyRecord, KeyState
<1>5. x.state = "RESERVED"
  OBVIOUS
<1> HIDE DEF m, x, r
<1>6. /\ r.req = m.req /\ r.attempts = s.attempts
      /\ \A k \in Key : r.key[k] = IF k \in B THEN x ELSE s.key[k]
  BY <1>3, <1>4, MarkedFields
<1>7. \A k \in Key : Known(r, k) <=> k \in B \/ Known(s, k)
  BY <1>5, <1>6 DEF Known
<1>8. Interrupted(r) = {}
  BY <1>2, <1>6 DEF Interrupted
<1>9. Named(r)
  <2>1. \A u \in Token : s.req[u].ids \subseteq Key
    BY <1>1 DEF Request
  <2> QED BY <1>2, <1>6, <1>7, <2>1 DEF Named, Covers
<1>10. KnownKeys(r) = KnownKeys(s) \cup B
  BY <1>7 DEF KnownKeys
<1>11. KnownKeys(s) \cap B = {} /\ KnownKeys(s) \in SUBSET Key
  BY DEF KnownKeys
<1>12. Cardinality(KnownKeys(r)) = Cardinality(KnownKeys(s)) + Cardinality(B)
  BY <1>10, <1>11, KeySets, AddApart
<1>13. Cardinality(KnownKeys(s)) + s.req[t].count <= s.attempts
  BY DEF Covers
<1>14. Covers("master", r)
  BY <1>6, <1>8, <1>9, <1>12, <1>13 DEF Covers
<1>15. Steadfast(s, r)
  <2>1. \A u \in Token : s.req[u].status # "none" =>
          r.req[u].status # "none" /\ r.req[u].count = s.req[u].count
    BY <1>2, <1>6
  <2> QED BY <1>7, <2>1 DEF Steadfast
<1> QED BY <1>6, <1>14, <1>15 DEF r

-----------------------------------------------------------------------------
(* What the provider still owes, before and after a step.                  *)

LEMMA SteadfastReflexive == ASSUME NEW s PROVE Steadfast(s, s)
BY DEF Steadfast

LEMMA SteadfastTransitive ==
    ASSUME NEW s, NEW q, NEW r, Steadfast(s, q), Steadfast(q, r) PROVE Steadfast(s, r)
BY DEF Steadfast

(* The calls in w were made by requests of s. *)
Made(w, s) == \A t \in Token : <<"master", t>> \in w => s.req[t].status # "none"

LEMMA OwedSame ==
    ASSUME NEW w, NEW v, NEW s, NEW r, Steadfast(s, r), Made(w, s),
           \A t \in Token : <<"master", t>> \in v <=> <<"master", t>> \in w
    PROVE  Owed(v, r) = Owed(w, s)
<1>1. \A p \in Token \X (1..MaxBatch) : p[1] \in Token
  OBVIOUS
<1>2. \A t \in Token : <<"master", t>> \in w => r.req[t].count = s.req[t].count
  BY DEF Made, Steadfast
<1> QED BY <1>1, <1>2 DEF Owed

(* The keys of one call. *)
Share(t, n) == {p \in Token \X (1..MaxBatch) : p[1] = t /\ p[2] <= n}

LEMMA ShareSize ==
    ASSUME NEW t \in Token, NEW n \in 0..MaxBatch
    PROVE  IsFiniteSet(Share(t, n)) /\ Cardinality(Share(t, n)) = n
<1> DEFINE T == {t}
           N == 1..n
<1>0. MaxBatch \in Nat /\ n \in Nat
  BY IngestAssumption
<1>1. IsFiniteSet(T) /\ Cardinality(T) = 1
  BY FS_Singleton
<1>2. IsFiniteSet(N) /\ Cardinality(N) = n
  BY <1>0, FS_Interval
<1>3. Share(t, n) = T \X N
  <2>1. ASSUME NEW p \in Share(t, n) PROVE p \in T \X N
    <3>1. p \in Token \X (1..MaxBatch) /\ p[1] = t /\ p[2] <= n
      BY <2>1 DEF Share
    <3>2. p = <<p[1], p[2]>> /\ p[2] \in 1..n
      BY <1>0, <3>1
    <3> QED BY <3>1, <3>2
  <2>2. ASSUME NEW p \in T \X N PROVE p \in Share(t, n)
    <3>1. p = <<p[1], p[2]>> /\ p[1] = t /\ p[2] \in 1..n
      BY <2>2
    <3>2. p[2] \in 1..MaxBatch /\ p[2] <= n
      BY <1>0, <3>1
    <3> QED BY <3>1, <3>2 DEF Share
  <2> QED BY <2>1, <2>2
<1> HIDE DEF T, N
<1>4. IsFiniteSet(T \X N) /\ Cardinality(T \X N) = Cardinality(T) * Cardinality(N)
  BY <1>1, <1>2, FS_Product
<1> QED BY <1>0, <1>1, <1>2, <1>3, <1>4

LEMMA OwedMore ==
    ASSUME NEW w, NEW v, NEW s, NEW r, Steadfast(s, r), Made(w, s), IsFiniteSet(Owed(w, s)),
           NEW t \in Token, s.req[t].status = "none",
           NEW n \in 1..MaxBatch, r.req[t].count = n,
           v = w \cup {<<"master", t>>}
    PROVE  IsFiniteSet(Owed(v, r)) /\ Cardinality(Owed(v, r)) = Cardinality(Owed(w, s)) + n
<1>1. \A u \in Token : <<"master", u>> \in v <=> (<<"master", u>> \in w \/ u = t)
  OBVIOUS
<1>2. \A u \in Token : <<"master", u>> \in w => u # t /\ r.req[u].count = s.req[u].count
  BY DEF Made, Steadfast
<1>3. \A p \in Token \X (1..MaxBatch) : p[1] \in Token
  OBVIOUS
<1>4. Owed(v, r) = Owed(w, s) \cup Share(t, n)
  BY <1>1, <1>2, <1>3 DEF Owed, Share
<1>5. Owed(w, s) \cap Share(t, n) = {}
  BY <1>2, <1>3 DEF Owed, Share
<1>6. n \in 0..MaxBatch
  BY IngestAssumption
<1>7. IsFiniteSet(Share(t, n)) /\ Cardinality(Share(t, n)) = n
  BY <1>6, ShareSize
<1> QED BY <1>4, <1>5, <1>7, AddApart

LEMMA OwedLess ==
    ASSUME NEW w, NEW v, NEW s \in GatewayState, IsFiniteSet(Owed(w, s)),
           NEW t \in Token, <<"master", t>> \in w,
           v = w \ {<<"master", t>>}
    PROVE  /\ IsFiniteSet(Owed(v, s))
           /\ Cardinality(Owed(w, s)) = Cardinality(Owed(v, s)) + s.req[t].count
<1> DEFINE n == s.req[t].count
<1>1. \A u \in Token : <<"master", u>> \in v <=> (<<"master", u>> \in w /\ u # t)
  OBVIOUS
<1>2. n \in 0..MaxBatch
  BY DEF GatewayState, Request
<1>3. \A p \in Token \X (1..MaxBatch) : p[1] \in Token
  OBVIOUS
<1>4. Owed(w, s) = Owed(v, s) \cup Share(t, n)
  BY <1>1, <1>3 DEF Owed, Share
<1>5. Owed(v, s) \cap Share(t, n) = {}
  BY <1>1, <1>3 DEF Owed, Share
<1> HIDE DEF n
<1>6. IsFiniteSet(Owed(v, s))
  BY <1>4, FS_Subset
<1>7. IsFiniteSet(Share(t, n)) /\ Cardinality(Share(t, n)) = n
  BY <1>2, ShareSize
<1>8. Cardinality(Owed(w, s)) = Cardinality(Owed(v, s)) + n
  BY <1>4, <1>5, <1>6, <1>7, AddApart
<1> QED BY <1>6, <1>8 DEF n

-----------------------------------------------------------------------------
(* The steps balance the accounts.                                         *)

(* The gateway n changes its journal to r, and asks for nothing.           *)
LEMMA BooksStep ==
    ASSUME TypeOK, Paid, NEW n \in Role, NEW r \in GatewayState, Covers(n, r), Steadfast(st[n], r),
           st[n].attempts <= r.attempts,
           st' = [st EXCEPT ![n] = r],
           \A m \in Role, t \in Token :
              <<m, t>> \in wire' =>
                 \/ <<m, t>> \in wire /\ posted'[m][t] = posted[m][t]
                 \/ m = n /\ Recorded(n, posted'[n][t], t, r),
           prov' = prov,
           n = "master" => /\ IsFiniteSet(Owed(wire', r))
                           /\ Cardinality(Taken(prov)) + Cardinality(Owed(wire', r)) <= r.attempts
    PROVE  Paid'
<1>1. st'[n] = r /\ \A m \in Role \ {n} : st'[m] = st[m]
  BY DEF TypeOK
<1>2. \A m \in Role : Steadfast(st[m], st'[m])
  BY <1>1, SteadfastReflexive
<1>3. (\A m \in Role : Covers(m, st[m]))'
  BY <1>1 DEF Paid
<1>4. (\A k \in Key : prov[k] = "spent" => Known(st["slave"], k))'
  <2>1. "slave" \in Role
    BY DEF Role
  <2> QED BY <1>2, <2>1 DEF Paid, Steadfast
<1>5. (\A m \in Role, t \in Token : <<m, t>> \in wire => Recorded(m, posted[m][t], t, st[m]))'
  <2> SUFFICES ASSUME NEW m \in Role, NEW t \in Token, <<m, t>> \in wire'
               PROVE  Recorded(m, posted'[m][t], t, st'[m])
    BY DEF Recorded, Known
  <2>1. CASE <<m, t>> \in wire /\ posted'[m][t] = posted[m][t]
    <3>1. Recorded(m, posted[m][t], t, st[m]) /\ posted[m][t] \in Call
      BY <2>1 DEF Paid, TypeOK
    <3> QED BY <1>2, <2>1, <3>1 DEF Recorded, Steadfast, Call
  <2>2. CASE m = n /\ Recorded(n, posted'[n][t], t, r)
    BY <1>1, <2>2
  <2> QED BY <2>1, <2>2
<1>6. /\ IsFiniteSet(Owed(wire', st'["master"]))
      /\ Cardinality(Taken(prov)) + Cardinality(Owed(wire', st'["master"])) <= st'["master"].attempts
  <2>1. CASE n = "master"
    BY <1>1, <2>1
  <2>2. CASE n = "slave"
    <3>2. "master" \in Role /\ st'["master"] = st["master"]
      BY <1>1, <2>2 DEF Role
    <3>1. \A t \in Token : <<"master", t>> \in wire' => <<"master", t>> \in wire
      BY <2>2, <3>2
    <3>3. Owed(wire', st["master"]) \subseteq Owed(wire, st["master"])
      <4>1. \A p \in Token \X (1..MaxBatch) : p[1] \in Token
        OBVIOUS
      <4> QED BY <3>1, <4>1 DEF Owed
    <3>4. /\ IsFiniteSet(Owed(wire, st["master"]))
          /\ Cardinality(Taken(prov)) + Cardinality(Owed(wire, st["master"])) <= st["master"].attempts
      BY DEF Paid
    <3>5. /\ IsFiniteSet(Owed(wire', st["master"]))
          /\ Cardinality(Owed(wire', st["master"])) <= Cardinality(Owed(wire, st["master"]))
      BY <3>3, <3>4, FS_Subset
    <3>6. /\ Cardinality(Owed(wire', st["master"])) \in Nat
          /\ Cardinality(Owed(wire, st["master"])) \in Nat
      BY <3>4, <3>5, FS_CardinalityType
    <3>7. Cardinality(Taken(prov)) \in Nat
      BY KeySets DEF Taken
    <3>8. st["master"].attempts \in Nat
      BY <3>2, IngestAssumption DEF TypeOK, GatewayState
    <3> DEFINE x == Cardinality(Owed(wire', st["master"]))
               y == Cardinality(Owed(wire, st["master"]))
    <3>9. x <= y /\ x \in Nat /\ y \in Nat /\ Cardinality(Taken(prov)) + y <= st["master"].attempts
      BY <3>4, <3>5, <3>6
    <3>10. IsFiniteSet(Owed(wire', st["master"]))
      BY <3>5
    <3> HIDE DEF x, y
    <3>11. Cardinality(Taken(prov)) + x <= st["master"].attempts
      BY <3>7, <3>8, <3>9
    <3> QED BY <3>2, <3>10, <3>11 DEF x
  <2> QED BY <2>1, <2>2 DEF Role
<1> QED BY <1>3, <1>4, <1>5, <1>6 DEF Paid

(* The same, for a change that asks for nothing.                           *)
LEMMA KeepingBooks ==
    ASSUME TypeOK, Paid, NEW n \in Role, NEW r \in GatewayState, Covers(n, r), Steadfast(st[n], r),
           r.attempts = st[n].attempts,
           st' = [st EXCEPT ![n] = r],
           wire' = wire, posted' = posted, prov' = prov
    PROVE  Paid'
<1>1. r.attempts \in Nat
  BY IngestAssumption DEF GatewayState
<1>2. ASSUME n = "master"
      PROVE  /\ IsFiniteSet(Owed(wire', r))
             /\ Cardinality(Taken(prov)) + Cardinality(Owed(wire', r)) <= r.attempts
  <2>1. Made(wire, st["master"])
    BY <1>2 DEF Paid, Recorded, Made
  <2>2. Owed(wire', r) = Owed(wire, st["master"])
    BY <1>2, <2>1, OwedSame
  <2> QED BY <1>2, <2>2 DEF Paid
<1>3. st[n].attempts <= r.attempts
  BY <1>1
<1>4. \A m \in Role, t \in Token :
        <<m, t>> \in wire' => <<m, t>> \in wire /\ posted'[m][t] = posted[m][t]
  OBVIOUS
<1> QED BY <1>2, <1>3, <1>4, BooksStep

(* Neither the journals nor the provider nor its calls change.             *)
LEMMA QuietBooks ==
    ASSUME Paid, st' = st, wire' = wire, posted' = posted, prov' = prov PROVE Paid'
BY DEF Paid

(* An unserved call of the gateway n is over, and nothing was taken.       *)
LEMMA UnservedBooks ==
    ASSUME TypeOK, Paid, NEW n \in Role, NEW t \in Token, <<n, t>> \in wire,
           wire' = wire \ {<<n, t>>}, posted' = posted, st' = st, Taken(prov') = Taken(prov),
           \A k \in Key : prov'[k] = "spent" => Known(st["slave"], k)
    PROVE  Paid'
<1> DEFINE s == st["master"]
<1>1. s \in GatewayState /\ s.attempts \in Nat
  BY IngestAssumption DEF TypeOK, Role, GatewayState
<1>2. Cardinality(Taken(prov)) \in Nat
  BY KeySets DEF Taken
<1>3. /\ IsFiniteSet(Owed(wire, s))
      /\ Cardinality(Taken(prov)) + Cardinality(Owed(wire, s)) <= s.attempts
  BY DEF Paid
<1>4. Owed(wire', s) \subseteq Owed(wire, s)
  BY DEF Owed
<1>5. IsFiniteSet(Owed(wire', s)) /\ Cardinality(Owed(wire', s)) <= Cardinality(Owed(wire, s))
  BY <1>3, <1>4, FS_Subset
<1>6. Cardinality(Owed(wire', s)) \in Nat /\ Cardinality(Owed(wire, s)) \in Nat
  BY <1>3, <1>5, FS_CardinalityType
<1>7. /\ IsFiniteSet(Owed(wire', s))
      /\ Cardinality(Taken(prov')) + Cardinality(Owed(wire', s)) <= s.attempts
  BY <1>1, <1>2, <1>3, <1>5, <1>6
<1> QED BY <1>7 DEF Paid

LEMMA ChangeSets ==
    ASSUME NEW n \in Role, NEW s, NEW saved, Change(n, s, saved)
    PROVE  st' = [st EXCEPT ![n] = s]
BY DEF Change

LEMMA AskPays ==
    ASSUME Inv, Paid, NEW n \in Role, NEW t \in Token, NEW size, NEW B \in SUBSET Key,
           NEW saved \in BOOLEAN, Idle(n),
           \A k \in B : ~Known(Expire(st[n], over[n]), k),
           n = "master" => B = {},
           n = "slave" => size = Cardinality(B),
           Ask(n, Expire(st[n], over[n]), t, size, B, saved)
    PROVE  Paid'
<1> DEFINE s == Expire(st[n], over[n])
           r == Begun(s, t, size, B)
<1>1. /\ st[n] \in GatewayState /\ Sound(n, st[n]) /\ Interrupted(st[n]) = {}
      /\ Covers(n, st[n]) /\ TypeOK
  BY DEF Inv, TypeOK, Idle, Waiting, Paid
<1>2. s \in GatewayState /\ Sound(n, s) /\ s.req = st[n].req /\ s.attempts = st[n].attempts
  BY <1>1, ExpireKeeps
<1>3. Covers(n, s) /\ Steadfast(st[n], s)
  BY <1>1, ExpireKeeping, KeepingCovers
<1>4. Interrupted(s) = {}
  BY <1>1, <1>2 DEF Interrupted
<1>5. /\ st[n].req[t].status = "none"
      /\ size \in 1..MaxBatch /\ s.attempts + size <= Capacity
      /\ Change(n, r, saved) /\ prov' = prov
      /\ wire' = IF saved THEN wire \cup {<<n, t>>} ELSE wire
      /\ posted' = IF saved THEN [posted EXCEPT ![n][t] = [count |-> size, ids |-> B]] ELSE posted
  BY DEF Ask, CanAsk, Post
<1>6. \A k \in B : ~Known(s, k)
  OBVIOUS
<1> HIDE DEF s, r
<1>7. s.req[t].status = "none"
  BY <1>2, <1>5
<1>8. r \in GatewayState
  BY <1>2, <1>4, <1>5, <1>6, <1>7, BegunKeeps DEF r
<1>9. /\ Covers(n, r) /\ Steadfast(s, r)
      /\ r.attempts = s.attempts + size
      /\ r.req[t].status = "pending" /\ r.req[t].count = size
  BY <1>2, <1>3, <1>4, <1>5, <1>6, <1>7, BegunCovers DEF r
<1>10. Steadfast(st[n], r)
  BY <1>3, <1>9, SteadfastTransitive
<1>11. /\ st[n].attempts \in Nat /\ size \in Nat
       /\ r.attempts = st[n].attempts + size /\ st[n].attempts <= r.attempts
  BY <1>1, <1>2, <1>5, <1>9, IngestAssumption DEF GatewayState
<1>12. st' = [st EXCEPT ![n] = r]
  BY <1>5, ChangeSets
<1>13. \A m \in Role, u \in Token :
          <<m, u>> \in wire' =>
             \/ <<m, u>> \in wire /\ posted'[m][u] = posted[m][u]
             \/ m = n /\ Recorded(n, posted'[n][u], u, r)
  <2> SUFFICES ASSUME NEW m \in Role, NEW u \in Token, <<m, u>> \in wire'
               PROVE  \/ <<m, u>> \in wire /\ posted'[m][u] = posted[m][u]
                      \/ m = n /\ Recorded(n, posted'[n][u], u, r)
    OBVIOUS
  <2>1. posted \in [Role -> [Token -> Call]]
    BY <1>1 DEF TypeOK
  <2>2. CASE m = n /\ u = t /\ saved
    <3>1. posted'[n][t] = [count |-> size, ids |-> B]
      BY <1>5, <2>1, <2>2
    <3>2. n = "slave" => \A k \in B : Known(r, k)
      BY <1>2, <1>4, <1>5, <1>6, <1>7, BegunKeeps DEF r
    <3> QED BY <1>9, <2>2, <3>1, <3>2 DEF Recorded
  <2>3. CASE ~(m = n /\ u = t /\ saved)
    BY <1>5, <2>1, <2>3
  <2> QED BY <2>2, <2>3
<1>14. ASSUME n = "master"
       PROVE  /\ IsFiniteSet(Owed(wire', r))
              /\ Cardinality(Taken(prov)) + Cardinality(Owed(wire', r)) <= r.attempts
  <2>1. /\ Made(wire, st[n])
        /\ IsFiniteSet(Owed(wire, st[n]))
        /\ Cardinality(Taken(prov)) + Cardinality(Owed(wire, st[n])) <= st[n].attempts
    BY <1>14 DEF Paid, Recorded, Made
  <2>2. Cardinality(Taken(prov)) \in Nat /\ Cardinality(Owed(wire, st[n])) \in Nat
    BY <2>1, KeySets, FS_CardinalityType DEF Taken
  <2>3. CASE saved
    <3>1. wire' = wire \cup {<<"master", t>>}
      BY <1>5, <1>14, <2>3
    <3>2. IsFiniteSet(Owed(wire', r)) /\ Cardinality(Owed(wire', r)) = Cardinality(Owed(wire, st[n])) + size
      BY <1>5, <1>9, <1>10, <2>1, <3>1, OwedMore
    <3> QED BY <1>11, <2>1, <2>2, <3>2
  <2>4. CASE ~saved
    <3>1. wire' = wire
      BY <1>5, <2>4
    <3>2. Owed(wire', r) = Owed(wire, st[n])
      BY <1>10, <2>1, <3>1, OwedSame
    <3> QED BY <1>11, <2>1, <2>2, <3>2
  <2> QED BY <2>3, <2>4
<1> QED BY <1>1, <1>5, <1>8, <1>9, <1>10, <1>11, <1>12, <1>13, <1>14, BooksStep

(* A gateway ends keys it knows, whether it was waiting or not.            *)
LEMMA KeepingPays ==
    ASSUME Inv, Paid, NEW n \in Role, NEW r \in GatewayState, Keeping(st[n], r),
           st' = [st EXCEPT ![n] = r], wire' = wire, posted' = posted, prov' = prov
    PROVE  Paid'
<1>1. st[n] \in GatewayState /\ Covers(n, st[n]) /\ TypeOK
  BY DEF Inv, TypeOK, Paid
<1>2. Covers(n, r) /\ Steadfast(st[n], r)
  BY <1>1, KeepingCovers
<1>3. r.attempts = st[n].attempts
  BY DEF Keeping
<1> QED BY <1>1, <1>2, <1>3, KeepingBooks

LEMMA TickPays ==
    ASSUME Inv, Paid, NEW n \in Role, NEW saved \in BOOLEAN, Tick(n, saved)
    PROVE  Paid'
<1> DEFINE r == Expire(st[n], over[n])
<1>1. st[n] \in GatewayState /\ Sound(n, st[n]) /\ Interrupted(st[n]) = {}
  BY DEF Inv, TypeOK, Idle, Waiting, Tick
<1>2. r \in GatewayState /\ Keeping(st[n], r)
  BY <1>1, ExpireKeeps, ExpireKeeping
<1>3. Change(n, r, saved) /\ wire' = wire /\ posted' = posted /\ prov' = prov
  BY DEF Tick
<1> HIDE DEF r
<1> QED BY <1>2, <1>3, ChangeSets, KeepingPays

LEMMA InvalidateKeyPays ==
    ASSUME Inv, Paid, NEW n \in Role, NEW k \in Key, NEW saved \in BOOLEAN, InvalidateKey(n, k, saved)
    PROVE  Paid'
<1> DEFINE K == {k}
           r == Ended(st[n], K, "INVALID")
<1>1. st[n] \in GatewayState /\ "INVALID" \in Final
  BY DEF Inv, TypeOK, Final
<1>2. \A x \in K \cap Key : Known(st[n], x)
  BY DEF InvalidateKey, Known
<1>3. Change(n, r, saved) /\ wire' = wire /\ posted' = posted /\ prov' = prov
  BY DEF InvalidateKey
<1> HIDE DEF K
<1>4. r \in GatewayState /\ Keeping(st[n], r)
  BY <1>1, <1>2, EndedFields, EndedKeeping
<1> HIDE DEF r
<1> QED BY <1>3, <1>4, ChangeSets, KeepingPays

LEMMA RestartPays ==
    ASSUME Inv, Paid, NEW n \in Role, NEW saved \in BOOLEAN, Restart(n, saved)
    PROVE  Paid'
<1> DEFINE r == Recovered(st[n], over[n])
<1>1. r \in GatewayState /\ Keeping(st[n], r)
  BY RecoveredKeeps, RecoveredKeeping DEF Inv, TypeOK
<1>2. st' = [st EXCEPT ![n] = r] /\ wire' = wire /\ posted' = posted /\ prov' = prov
  BY DEF Restart
<1> HIDE DEF r
<1> QED BY <1>1, <1>2, KeepingPays

LEMMA CompletePays ==
    ASSUME Inv, Paid, NEW n \in Role, NEW saved \in BOOLEAN, Complete(n, saved)
    PROVE  Paid'
<1> DEFINE t == asking[n]
           B == answer[n].ids
           s == st[n]
<1>1. mode[n] = "up" /\ t \in Token
  BY DEF Complete, Change, Inv, TypeOK
<1>2. Interrupted(s) = {t} /\ s \in GatewayState /\ Sound(n, s)
  BY <1>1, IngestAssumption DEF Inv, TypeOK, Waiting
<1>3. Covers(n, s) /\ TypeOK
  BY DEF Inv, Paid
<1>4. B \in SUBSET Key
  BY DEF Inv, TypeOK, Answer
<1>5. wire' = wire /\ posted' = posted /\ prov' = prov
  BY DEF Complete
<1>6. CASE ~Good(n)
  <2> DEFINE C == s.req[t].ids \cap {k \in Key : Known(s, k)}
             r == Uncertain(s, t)
  <2>1. Change(n, r, saved)
    BY <1>6 DEF Complete
  <2>2. r = Closed(s, t, "uncertain", C, "INVALID")
    BY DEF Uncertain, Closed
  <2>3. \A k \in C \cap Key : Known(s, k)
    OBVIOUS
  <2>4. "INVALID" \in Final
    BY DEF Final
  <2>5. r \in GatewayState
    BY <1>1, <1>2, UncertainKeeps
  <2> HIDE DEF r, C, s, t
  <2>6. Keeping(s, r)
    BY <1>1, <1>2, <2>2, <2>3, <2>4, ClosedKeeping
  <2> QED BY <1>5, <2>1, <2>5, <2>6, ChangeSets, KeepingPays DEF s
<1>7. CASE Good(n) /\ n = "slave"
  <2> DEFINE C == s.req[t].ids
             r == Consumed(s, t)
  <2>1. Change(n, r, saved)
    BY <1>7 DEF Complete
  <2>2. r = Closed(s, t, "consumed", C, "CONSUMED")
    BY DEF Consumed, Closed
  <2>3. \A k \in C \cap Key : Known(s, k)
    BY <1>1, <1>3 DEF Covers, Named
  <2>4. "CONSUMED" \in Final
    BY DEF Final
  <2>5. s.req[t].status = "pending"
    BY <1>2 DEF Interrupted
  <2>6. \A k \in C : s.key[k].state = "RESERVED"
    BY <1>2 DEF Sound, OpenIsHeld, InFlight
  <2> HIDE DEF s, t
  <2>7. r \in GatewayState
    BY <1>1, <1>2, <2>5, <2>6, ConsumedKeeps
  <2> HIDE DEF r, C
  <2>8. Keeping(s, r)
    BY <1>1, <1>2, <2>2, <2>3, <2>4, ClosedKeeping
  <2> QED BY <1>5, <2>1, <2>7, <2>8, ChangeSets, KeepingPays DEF s
<1>8. CASE Good(n) /\ n = "master"
  <2> DEFINE r == Fetched(s, t, B)
  <2>1. Change(n, r, saved)
    BY <1>8 DEF Complete
  <2>2. (\A k \in B : ~Known(s, k)) /\ Cardinality(B) = s.req[t].count
    BY <1>8 DEF Good, Valid
  <2> HIDE DEF s, t, B
  <2>3. r \in GatewayState
    BY <1>1, <1>2, <1>4, <1>8, <2>2, FetchedKeeps
  <2>4. Covers(n, r) /\ Steadfast(s, r) /\ r.attempts = s.attempts
    BY <1>1, <1>2, <1>3, <1>4, <1>8, <2>2, FetchedCovers
  <2> HIDE DEF r
  <2>5. st' = [st EXCEPT ![n] = r]
    BY <2>1, ChangeSets
  <2> QED BY <1>3, <1>5, <2>3, <2>4, <2>5, KeepingBooks DEF s
<1> QED BY <1>6, <1>7, <1>8 DEF Role

LEMMA ConsumeReservationPays ==
    ASSUME Inv, Paid, NEW t \in Token, NEW saved \in BOOLEAN, ConsumeReservation(t, saved)
    PROVE  Paid'
<1> DEFINE s == Expire(st["master"], over["master"])
           B == s.req[t].ids
           r == Consumed(s, t)
<1>1. /\ st["master"] \in GatewayState /\ Sound("master", st["master"])
      /\ Interrupted(st["master"]) = {} /\ "master" \in Role
  BY DEF Inv, TypeOK, Idle, Waiting, ConsumeReservation, Role
<1>2. s \in GatewayState /\ Sound("master", s) /\ s.req = st["master"].req
  BY <1>1, ExpireKeeps
<1>3. Interrupted(s) = {}
  BY <1>1, <1>2 DEF Interrupted
<1>4. Keeping(st["master"], s)
  BY <1>1, ExpireKeeping
<1>5. /\ s.req[t].status = "stored"
      /\ \A k \in B : s.key[k].state = "RESERVED"
      /\ Change("master", r, saved) /\ wire' = wire /\ posted' = posted /\ prov' = prov
  BY DEF ConsumeReservation
<1>6. r = Closed(s, t, "consumed", B, "CONSUMED")
  BY DEF Consumed, Closed
<1>7. "CONSUMED" \in Final /\ \A k \in B \cap Key : Known(s, k)
  BY <1>5 DEF Final, Known
<1> HIDE DEF s
<1>8. r \in GatewayState
  BY <1>1, <1>2, <1>3, <1>5, ConsumedKeeps
<1> HIDE DEF r, B
<1>9. Keeping(s, r)
  BY <1>2, <1>6, <1>7, ClosedKeeping
<1>10. Keeping(st["master"], r)
  BY <1>4, <1>9, KeepingTransitive
<1> QED BY <1>1, <1>5, <1>8, <1>10, ChangeSets, KeepingPays

LEMMA ProviderPays ==
    ASSUME Inv, Paid, Provider
    PROVE  Paid'
<1>1. TypeOK /\ prov \in [Key -> {"free", "half", "spent"}]
  BY DEF Inv, TypeOK
<1>2. \A k \in Key : prov[k] = "spent" => Known(st["slave"], k)
  BY DEF Paid
<1>3. PICK t \in Token :
         \/ Retrieve(t)
         \/ \E B \in SUBSET Key : Allocate(t, B)
         \/ \E n \in Role : Refuse(n, t) \/ \E B \in SUBSET Key : Misanswer(n, t, B)
  BY DEF Provider
<1>4. CASE Retrieve(t)
  <2> DEFINE B == posted["slave"][t].ids
  <2>1. /\ <<"slave", t>> \in wire /\ wire' = wire \ {<<"slave", t>>} /\ st' = st
        /\ posted' = posted
        /\ \A k \in B : prov[k] = "half"
        /\ prov' = [k \in Key |-> IF k \in B THEN "spent" ELSE prov[k]]
    BY <1>4 DEF Retrieve, Serve
  <2>2. "slave" \in Role /\ \A k \in B : Known(st["slave"], k)
    BY <2>1 DEF Role, Paid, Recorded
  <2>3. Taken(prov') = Taken(prov)
    BY <1>1, <2>1 DEF Taken
  <2>4. \A k \in Key : prov'[k] = "spent" => Known(st["slave"], k)
    BY <1>2, <2>1, <2>2
  <2> QED BY <1>1, <2>1, <2>2, <2>3, <2>4, UnservedBooks
<1>5. CASE \E B \in SUBSET Key : Allocate(t, B)
  <2>1. PICK B \in SUBSET Key : Allocate(t, B)
    BY <1>5
  <2> DEFINE s == st["master"]
  <2>2. /\ <<"master", t>> \in wire /\ wire' = wire \ {<<"master", t>>} /\ st' = st
        /\ posted' = posted
        /\ \A k \in B : prov[k] = "free"
        /\ Cardinality(B) = s.req[t].count
        /\ prov' = [k \in Key |-> IF k \in B THEN "half" ELSE prov[k]]
    <3>1. Allocate(t, B)
      BY <2>1
    <3>2. <<"master", t>> \in wire /\ "master" \in Role
      BY <3>1 DEF Allocate, Serve, Role
    <3>3. posted["master"][t].count = s.req[t].count
      BY <3>2 DEF Paid, Recorded
    <3> QED BY <3>1, <3>3 DEF Allocate, Serve
  <2>3. s \in GatewayState /\ s.attempts \in Nat
    BY <1>1, IngestAssumption DEF TypeOK, Role, GatewayState
  <2>4. /\ IsFiniteSet(Owed(wire, s))
        /\ Cardinality(Taken(prov)) + Cardinality(Owed(wire, s)) <= s.attempts
    BY DEF Paid
  <2>5. /\ IsFiniteSet(Owed(wire', s))
        /\ Cardinality(Owed(wire, s)) = Cardinality(Owed(wire', s)) + s.req[t].count
    BY <2>2, <2>3, <2>4, OwedLess
  <2>6. Taken(prov') = Taken(prov) \cup B /\ Taken(prov) \cap B = {} /\ Taken(prov) \in SUBSET Key
    BY <2>2 DEF Taken
  <2>7. Cardinality(Taken(prov')) = Cardinality(Taken(prov)) + Cardinality(B)
    BY <2>6, KeySets, AddApart
  <2>8. /\ Cardinality(Taken(prov)) \in Nat /\ Cardinality(B) \in Nat
        /\ Cardinality(Owed(wire', s)) \in Nat
    BY <2>5, <2>6, KeySets, FS_CardinalityType
  <2> DEFINE o == Cardinality(Owed(wire, s))
             u == Cardinality(Owed(wire', s))
             a == Cardinality(Taken(prov))
             b == Cardinality(B)
  <2>9. a + b + u <= s.attempts
    <3>1. o = u + b /\ a + o <= s.attempts /\ a \in Nat /\ b \in Nat /\ u \in Nat
      BY <2>2, <2>4, <2>5, <2>8
    <3> HIDE DEF o, u, a, b, s
    <3> QED BY <2>3, <3>1
  <2>10. Cardinality(Taken(prov')) + Cardinality(Owed(wire', s)) <= s.attempts
    BY <2>7, <2>9
  <2>11. \A k \in Key : prov'[k] = "spent" => Known(st["slave"], k)
    BY <1>2, <2>2
  <2> QED BY <2>2, <2>5, <2>10, <2>11 DEF Paid
<1>6. CASE \E n \in Role : Refuse(n, t) \/ \E B \in SUBSET Key : Misanswer(n, t, B)
  <2>1. PICK n \in Role : Refuse(n, t) \/ \E B \in SUBSET Key : Misanswer(n, t, B)
    BY <1>6
  <2>2. /\ <<n, t>> \in wire /\ wire' = wire \ {<<n, t>>} /\ st' = st /\ prov' = prov
        /\ posted' = posted
    BY <2>1 DEF Refuse, Misanswer, Serve
  <2> QED BY <1>1, <1>2, <2>2, UnservedBooks
<1> QED BY <1>3, <1>4, <1>5, <1>6

LEMMA SavingPays ==
    ASSUME Inv, Paid, NEW saved \in BOOLEAN, Saving(saved)
    PROVE  Paid'
<1>1. CASE \E size \in 1..MaxBatch, t \in Token : ReserveKeys(size, t, saved)
  <2>1. PICK size \in 1..MaxBatch, t \in Token : ReserveKeys(size, t, saved)
    BY <1>1
  <2>2. "master" \in Role /\ {} \in SUBSET Key
    BY DEF Role
  <2>3. Idle("master") /\ Ask("master", Expire(st["master"], over["master"]), t, size, {}, saved)
    BY <2>1 DEF ReserveKeys
  <2> QED BY <2>2, <2>3, AskPays
<1>2. CASE \E B \in SUBSET Key, t \in Token : ConsumePeerKeys(B, t, saved)
  <2>1. PICK B \in SUBSET Key, t \in Token : ConsumePeerKeys(B, t, saved)
    BY <1>2
  <2>2. "slave" \in Role
    BY DEF Role
  <2>3. /\ Idle("slave")
        /\ \A k \in B : ~Known(Expire(st["slave"], over["slave"]), k)
        /\ Ask("slave", Expire(st["slave"], over["slave"]), t, Cardinality(B), B, saved)
    BY <2>1 DEF ConsumePeerKeys
  <2> QED BY <2>2, <2>3, AskPays
<1>3. CASE \E t \in Token : ConsumeReservation(t, saved)
  BY <1>3, ConsumeReservationPays
<1>4. CASE \E n \in Role : Gateway(n, saved)
  BY <1>4, CompletePays, InvalidateKeyPays, TickPays, RestartPays DEF Gateway
<1> QED BY <1>1, <1>2, <1>3, <1>4 DEF Saving

LEMMA NextPays ==
    ASSUME Inv, Paid, [Next]_vars
    PROVE  Paid'
<1>1. CASE UNCHANGED vars
  BY <1>1, QuietBooks DEF vars
<1>2. CASE \E n \in Role : TimeOut(n) \/ Crash(n) \/ \E t \in Token : Lapse(n, t)
  <2>1. st' = st /\ wire' = wire /\ posted' = posted /\ prov' = prov
    BY <1>2 DEF TimeOut, Crash, Lapse
  <2> QED BY <2>1, QuietBooks
<1>3. CASE \E saved \in BOOLEAN : Saving(saved)
  BY <1>3, SavingPays
<1>4. CASE Provider
  BY <1>4, ProviderPays
<1> QED BY <1>1, <1>2, <1>3, <1>4 DEF Next

LEMMA InitPaid == Init => Paid
<1> SUFFICES ASSUME Init PROVE Paid
  OBVIOUS
<1>1. /\ st = [n \in Role |-> NewGateway] /\ wire = {} /\ prov = [k \in Key |-> "free"]
  BY DEF Init
<1>2. \A n \in Role : st[n] = NewGateway
  BY <1>1
<1>3. "master" \in Role /\ NewGateway.attempts = 0
  BY DEF Role, NewGateway
<1>4. KnownKeys(NewGateway) = {} /\ Interrupted(NewGateway) = {} /\ Named(NewGateway)
  BY DEF KnownKeys, Known, Interrupted, Named, NewGateway
<1>5. Cardinality({}) = 0 /\ IsFiniteSet({})
  BY FS_EmptySet
<1>6. \A n \in Role : Covers(n, st[n])
  BY <1>2, <1>3, <1>4, <1>5 DEF Covers
<1>7. Owed(wire, st["master"]) = {} /\ Taken(prov) = {}
  BY <1>1 DEF Owed, Taken
<1>8. Cardinality(Taken(prov)) + Cardinality(Owed(wire, st["master"])) <= st["master"].attempts
  BY <1>2, <1>3, <1>5, <1>7
<1> QED BY <1>1, <1>5, <1>6, <1>7, <1>8 DEF Paid

-----------------------------------------------------------------------------
(* The theorems.                                                           *)

LEMMA Invariance == Spec => []Inv
<1>1. Inv /\ [Next]_vars => Inv'
  BY NextKeeps
<1> QED BY InitInv, <1>1, PTL DEF Spec

(* Neither gateway hands a key out for the second time, whatever crashes,  *)
(* failed writes, timeouts and wrong answers come between.                 *)
THEOREM DeliversOnce == Spec => []DeliveredOnce
<1>1. Inv => DeliveredOnce
  BY DEF Inv, GivenIsConsumed, DeliveredOnce
<1> QED BY Invariance, <1>1, PTL

(* The provider is never asked by name for the same key twice.             *)
THEOREM AsksOnce == Spec => []AskedOnce
<1>1. Inv => AskedOnce
  BY DEF Inv, AskedIsKnown, AskedOnce
<1> QED BY Invariance, <1>1, PTL

(* A reserved key belongs to a request that is stored or in flight, and    *)
(* only a stored one has bytes.                                            *)
THEOREM HoldsForRequests == Spec => []HeldForARequest
<1>1. Inv => HeldForARequest
  <2> SUFFICES ASSUME Inv PROVE HeldForARequest
    OBVIOUS
  <2>1. \A n \in Role, k \in Key :
          /\ st[n].key[k].material => st[n].key[k].state = "RESERVED" /\ n = "master"
          /\ st[n].key[k].state = "RESERVED" => Holds(st[n], k)
    BY DEF Inv, Sound, BytesAreHeld, HeldIsOpen
  <2>2. \A n \in Role : mode[n] = "up" => Interrupted(st[n]) = {asking[n]} \ {NoToken}
    BY DEF Inv, Waiting
  <2> QED BY <2>1, <2>2 DEF HeldForARequest, Holds
<1> QED BY Invariance, <1>1, PTL

(* A request is answered with exactly the keys recorded for it, or not.    *)
THEOREM AnswersWhole == Spec => []WholeBatch
<1>1. Inv => WholeBatch
  BY DEF Inv, GotIsWhole, WholeBatch
<1> QED BY Invariance, <1>1, PTL

(* No step, and no restart, takes back the outcome of a request or a key.  *)
THEOREM OutcomesStay == Spec => OutcomesAreFinal
<1>1. Inv /\ [Next]_vars =>
        [\A n \in Role :
            /\ \A t \in Token : st[n].req[t].status \in {"uncertain", "consumed"}
                    => st'[n].req[t] = st[n].req[t]
            /\ \A k \in Key : st[n].key[k].state \in {"CONSUMED", "INVALID", "EXPIRED"}
                    => st'[n].key[k] = st[n].key[k]]_vars
  BY NextKeeps DEF StepOnward, Onward, Final
<1> QED BY Invariance, <1>1, PTL DEF Spec, OutcomesAreFinal

(* The intent is on disk before the provider is asked: what it spent by    *)
(* name is known to the slave gateway, and what it took on either side,    *)
(* calls that are lost, late or cut short by a crash included, is within   *)
(* the attempts the gateways have counted.                                 *)
THEOREM IntentsFirst == Spec => []IntentFirst
<1>1. Init => Inv /\ Paid
  BY InitInv, InitPaid
<1>2. Inv /\ Paid /\ [Next]_vars => (Inv /\ Paid)'
  BY NextKeeps, NextPays
<1>3. Inv /\ Paid => IntentFirst
  <2> SUFFICES ASSUME Inv, Paid PROVE IntentFirst
    OBVIOUS
  <2>1. \A k \in Key : prov[k] = "spent" => Known(st["slave"], k)
    BY DEF Paid
  <2>2. Cardinality({k \in Key : prov[k] # "free"}) <= st["master"].attempts
    <3> DEFINE a == Cardinality(Taken(prov))
               u == Cardinality(Owed(wire, st["master"]))
    <3>1. a \in Nat
      BY KeySets DEF Taken
    <3>2. u \in Nat /\ a + u <= st["master"].attempts
      BY FS_CardinalityType DEF Paid
    <3>3. st["master"].attempts \in Nat
      BY IngestAssumption DEF Inv, TypeOK, Role, GatewayState
    <3> HIDE DEF a, u
    <3>4. a <= st["master"].attempts
      BY <3>1, <3>2, <3>3
    <3> QED BY <3>4 DEF a, Taken
  <2>3. \A n \in Role : Cardinality({k \in Key : Known(st[n], k)}) <= st[n].attempts
    BY DEF Paid, Covers, KnownKeys
  <2> QED BY <2>1, <2>2, <2>3 DEF IntentFirst
<1> QED BY <1>1, <1>2, <1>3, PTL DEF Spec
=============================================================================
