------------------------- MODULE RelayEngineProofs -------------------------
(***************************************************************************)
(* What every closure run by Engine.change does to the engine state: it    *)
(* stays well typed and never moves a record backwards; and which records  *)
(* it may create, publish or deliver, and whom it may owe a result.        *)
(***************************************************************************)
EXTENDS RelayEngine, TLAPS

(* The later record q continues the earlier record r. *)
Continues(r, q) ==
    r.role # "none" =>
        /\ q.role # "none"
        /\ r.voiding => q.voiding
        /\ r.delivered => q.delivered
        /\ ~r.material => ~q.material
        /\ r.sent => q.sent /\ q.next = r.next

(* The later engine state t continues the earlier engine state s. *)
Onward(s, t) ==
    /\ t \in EngineState
    /\ \A k \in Key : Continues(s.keys[k], t.keys[k])

LEMMA OnwardReflexive ==
    ASSUME NEW s \in EngineState
    PROVE  Onward(s, s)
BY DEF Onward, Continues

LEMMA OnwardTransitive ==
    ASSUME NEW s \in EngineState, NEW t, NEW u, Onward(s, t), Onward(t, u)
    PROVE  Onward(s, u)
BY DEF Onward, Continues

(* Replacing one record, and the outbox, by continuing ones. *)
LEMMA OnwardOneRecord ==
    ASSUME NEW s \in EngineState, NEW k \in Key,
           NEW r \in Record, NEW acks \in SUBSET Job,
           Continues(s.keys[k], r)
    PROVE  Onward(s, [keys |-> [s.keys EXCEPT ![k] = r], acks |-> acks])
BY DEF Onward, EngineState, Continues

LEMMA OnwardAcks ==
    ASSUME NEW s \in EngineState, NEW acks \in SUBSET Job
    PROVE  Onward(s, [s EXCEPT !.acks = acks])
BY DEF Onward, EngineState, Continues

(* The EXCEPT forms of the handlers, as a record of the two components.    *)
LEMMA StateShape ==
    ASSUME NEW s \in EngineState, NEW k \in Key, NEW r
    PROVE  [s EXCEPT !.keys[k] = r] = [keys |-> [s.keys EXCEPT ![k] = r], acks |-> s.acks]
BY DEF EngineState

LEMMA EnqueueOnward ==
    ASSUME NEW s \in EngineState, NEW k \in Key,
           NEW peers \in SUBSET Node, NEW status \in Status
    PROVE  Onward(s, Enqueue(s, k, peers, status))
<1> DEFINE acks == {j \in s.acks : ~(j.key = k /\ j.peer \in peers)} \cup
                   {[peer |-> p, key |-> k, status |-> status] : p \in peers}
<1>1. acks \in SUBSET Job
  BY DEF EngineState, Job
<1>2. Enqueue(s, k, peers, status) = [s EXCEPT !.acks = acks]
  BY DEF Enqueue
<1> HIDE DEF acks
<1> QED BY <1>1, <1>2, OnwardAcks

LEMMA PeersType == ASSUME NEW p \in Node \cup {NoNode} PROVE Peers(p) \in SUBSET Node
BY DEF Peers

LEMMA VoidBegunContinues ==
    ASSUME NEW r \in Record
    PROVE  VoidBegun(r) \in Record /\ Continues(r, VoidBegun(r))
<1>1. Peers(r.sender) \in SUBSET Node /\ (r.sent => {r.next} \in SUBSET Node)
  BY PeersType DEF Record, RecordFields
<1> QED BY <1>1 DEF VoidBegun, Record, RecordFields, Continues

LEMMA RequestedContinues ==
    ASSUME NEW r \in Record, NEW R \in SUBSET Node
    PROVE  Requested(r, R) \in Record /\ Continues(r, Requested(r, R))
BY DEF Requested, Record, RecordFields, Continues

LEMMA StartVoidOnward ==
    ASSUME NEW s \in EngineState, NEW k \in Key, NEW R \in SUBSET Node
    PROVE  Onward(s, StartVoid(s, k, R))
<1> DEFINE w == Requested(VoidBegun(s.keys[k]), R)
           acks == {j \in s.acks : s.keys[k].voiding \/ j.key # k}
<1>1. s.keys[k] \in Record
  BY DEF EngineState
<1>2. w \in Record /\ Continues(s.keys[k], w)
  BY <1>1, VoidBegunContinues, RequestedContinues DEF Continues
<1>3. acks \in SUBSET Job
  BY DEF EngineState
<1>4. StartVoid(s, k, R) = [keys |-> [s.keys EXCEPT ![k] = w], acks |-> acks]
  BY DEF StartVoid
<1> HIDE DEF w, acks
<1> QED BY <1>2, <1>3, <1>4, OnwardOneRecord

LEMMA FinishVoidOnward ==
    ASSUME NEW s \in EngineState, NEW k \in Key
    PROVE  Onward(s, FinishVoid(s, k))
<1>1. s.keys[k].voidRequests \in SUBSET Node
  BY DEF EngineState, Record, RecordFields
<1> QED BY <1>1, EnqueueOnward, OnwardReflexive DEF FinishVoid, Status, VoidStatus

LEMMA VoidKeyOnward ==
    ASSUME NEW s \in EngineState, NEW k \in Key, NEW R \in SUBSET Node
    PROVE  Onward(s, VoidKey(s, k, R))
<1>1. Onward(s, StartVoid(s, k, R))
  BY StartVoidOnward
<1>2. StartVoid(s, k, R) \in EngineState
  BY <1>1 DEF Onward
<1>3. Onward(StartVoid(s, k, R), FinishVoid(StartVoid(s, k, R), k))
  BY <1>2, FinishVoidOnward
<1> QED BY <1>1, <1>3, OnwardTransitive DEF VoidKey

(* StoreKey puts a fresh record where there was none. *)
LEMMA StoredOnward ==
    ASSUME NEW s \in EngineState, NEW k \in Key, ~Known(s, k)
    PROVE  Onward(s, Stored(s, k))
<1> DEFINE r == [Absent EXCEPT !.role = "source", !.material = TRUE]
<1>1. r \in Record /\ Continues(s.keys[k], r)
  BY DEF Absent, Record, RecordFields, Role, Known, Continues
<1>2. Stored(s, k) = [keys |-> [s.keys EXCEPT ![k] = r], acks |-> s.acks]
  BY StateShape DEF Stored
<1>3. s.acks \in SUBSET Job
  BY DEF EngineState
<1> HIDE DEF r
<1> QED BY <1>1, <1>2, <1>3, OnwardOneRecord

LEMMA AcceptedNewOnward ==
    ASSUME NEW s \in EngineState, NEW p \in Node, NEW k \in Key, NEW local \in BOOLEAN,
           ~Known(s, k)
    PROVE  Onward(s, AcceptedNew(s, p, k, local))
<1> DEFINE r == [Absent EXCEPT !.role     = IF local THEN "target" ELSE "relay",
                               !.sender   = p,
                               !.material = TRUE,
                               !.ready    = local]
           t == [s EXCEPT !.keys[k] = r]
<1>1. r \in Record /\ Continues(s.keys[k], r)
  BY DEF Absent, Record, RecordFields, Role, Known, Continues
<1>2. s.acks \in SUBSET Job
  BY DEF EngineState
<1>3. t = [keys |-> [s.keys EXCEPT ![k] = r], acks |-> s.acks]
  BY StateShape
<1>4. AcceptedNew(s, p, k, local) = IF local THEN Enqueue(t, k, {p}, "relayed") ELSE t
  BY DEF AcceptedNew
<1> HIDE DEF r, t
<1>5. Onward(s, t)
  BY <1>1, <1>2, <1>3, OnwardOneRecord
<1>6. t \in EngineState
  BY <1>5 DEF Onward
<1>7. Onward(t, Enqueue(t, k, {p}, "relayed"))
  BY <1>6, EnqueueOnward DEF Status
<1> QED BY <1>4, <1>5, <1>7, OnwardTransitive

LEMMA AcceptedAgainOnward ==
    ASSUME NEW s \in EngineState, NEW p \in Node, NEW k \in Key, NEW lapsed
    PROVE  Onward(s, AcceptedAgain(s, p, k, lapsed))
<1> DEFINE v == IF lapsed /\ ~s.keys[k].voiding THEN StartVoid(s, k, {p}) ELSE s
<1>1. Onward(s, v)
  BY StartVoidOnward, OnwardReflexive
<1>2. AcceptedAgain(s, p, k, lapsed) =
        IF v.keys[k].voiding THEN FinishVoid(v, k)
        ELSE IF v.keys[k].ready THEN Enqueue(v, k, {p}, "relayed") ELSE v
  BY DEF AcceptedAgain
<1> HIDE DEF v
<1>3. v \in EngineState
  BY <1>1 DEF Onward
<1>4. Onward(v, FinishVoid(v, k)) /\ Onward(v, Enqueue(v, k, {p}, "relayed")) /\ Onward(v, v)
  BY <1>3, FinishVoidOnward, EnqueueOnward, OnwardReflexive DEF Status
<1>5. Onward(v, AcceptedAgain(s, p, k, lapsed))
  BY <1>2, <1>4
<1> QED BY <1>1, <1>5, OnwardTransitive

LEMMA AcceptedOnward ==
    ASSUME NEW s \in EngineState, NEW p \in Node, NEW k \in Key,
           NEW local \in BOOLEAN, NEW lapsed
    PROVE  Onward(s, Accepted(s, p, k, local, lapsed))
BY AcceptedAgainOnward, AcceptedNewOnward DEF Accepted

LEMMA ConfirmedOnward ==
    ASSUME NEW s \in EngineState, NEW p \in Node, NEW k \in Key, NEW status
    PROVE  Onward(s, Confirmed(s, p, k, status))
<1> DEFINE r == [s.keys[k] EXCEPT !.voidPending = @ \ {p},
                                  !.voidFailed  = @ \/ status = "failed to void"]
           t == [s EXCEPT !.keys[k] = r]
<1>1. s.keys[k] \in Record /\ s.acks \in SUBSET Job
  BY DEF EngineState
<1>2. r \in Record /\ Continues(s.keys[k], r)
  BY <1>1 DEF Record, RecordFields, Continues
<1>3. t = [keys |-> [s.keys EXCEPT ![k] = r], acks |-> s.acks]
  BY StateShape
<1>4. Confirmed(s, p, k, status) = IF status \notin VoidStatus THEN s ELSE FinishVoid(t, k)
  BY DEF Confirmed
<1> HIDE DEF r, t
<1>5. Onward(s, t)
  BY <1>1, <1>2, <1>3, OnwardOneRecord
<1>6. Onward(t, FinishVoid(t, k))
  BY <1>5, FinishVoidOnward DEF Onward
<1> QED BY <1>4, <1>5, <1>6, OnwardTransitive, OnwardReflexive

LEMMA MadeReadyOnward ==
    ASSUME NEW s \in EngineState, NEW k \in Key
    PROVE  Onward(s, MadeReady(s, k))
<1> DEFINE r == [s.keys[k] EXCEPT !.ready    = TRUE,
                                  !.material = @ /\ s.keys[k].role # "relay"]
           t == [s EXCEPT !.keys[k] = r]
<1>1. s.keys[k] \in Record /\ s.acks \in SUBSET Job
  BY DEF EngineState
<1>2. r \in Record /\ Continues(s.keys[k], r) /\ r.sender = s.keys[k].sender
  BY <1>1 DEF Record, RecordFields, Continues
<1>3. t = [keys |-> [s.keys EXCEPT ![k] = r], acks |-> s.acks]
  BY StateShape
<1>4. MadeReady(s, k) = Enqueue(t, k, Peers(r.sender), "relayed")
  BY DEF MadeReady
<1>5. Peers(r.sender) \in SUBSET Node
  BY <1>2, PeersType DEF Record, RecordFields
<1> HIDE DEF r, t
<1>6. Onward(s, t)
  BY <1>1, <1>2, <1>3, OnwardOneRecord
<1>7. Onward(t, MadeReady(s, k))
  BY <1>4, <1>5, <1>6, EnqueueOnward DEF Onward, Status
<1> QED BY <1>6, <1>7, OnwardTransitive

LEMMA AcknowledgedOnward ==
    ASSUME NEW s \in EngineState, NEW p \in Node, NEW k \in Key,
           NEW status, NEW lapsed
    PROVE  Onward(s, Acknowledged(s, p, k, status, lapsed))
<1> DEFINE v == IF lapsed /\ ~s.keys[k].voiding THEN StartVoid(s, k, {}) ELSE s
<1>1. Onward(s, v)
  BY StartVoidOnward, OnwardReflexive
<1>2. Acknowledged(s, p, k, status, lapsed) =
        IF v.keys[k].voiding THEN Confirmed(v, p, k, status)
        ELSE IF status = "relayed" THEN MadeReady(v, k)
        ELSE VoidKey(v, k, {})
  BY DEF Acknowledged
<1> HIDE DEF v
<1>3. v \in EngineState
  BY <1>1 DEF Onward
<1>4. Onward(v, Acknowledged(s, p, k, status, lapsed))
  BY <1>2, <1>3, ConfirmedOnward, MadeReadyOnward, VoidKeyOnward
<1> QED BY <1>1, <1>4, OnwardTransitive

LEMMA VoidedOnward ==
    ASSUME NEW s \in EngineState, NEW p \in Node, NEW k \in Key, NEW local
    PROVE  Onward(s, Voided(s, p, k, local))
<1> DEFINE r == [Absent EXCEPT !.role    = IF local THEN "target" ELSE "relay",
                               !.sender  = p,
                               !.unknown = TRUE]
           t == WithTombstone(s, p, k, local)
<1>1. r \in Record
  BY DEF Absent, Record, RecordFields, Role
<1>2. s.acks \in SUBSET Job
  BY DEF EngineState
<1>3. t = IF Known(s, k) THEN s ELSE [keys |-> [s.keys EXCEPT ![k] = r], acks |-> s.acks]
  BY StateShape DEF WithTombstone
<1> HIDE DEF r
<1>4. Onward(s, t)
  BY <1>1, <1>2, <1>3, OnwardOneRecord, OnwardReflexive DEF Known, Continues
<1> HIDE DEF t
<1>5. Onward(t, VoidKey(t, k, {p}))
  BY <1>4, VoidKeyOnward DEF Onward
<1> QED BY <1>4, <1>5, OnwardTransitive DEF Voided, t

LEMMA WithTokenOnward ==
    ASSUME NEW s \in EngineState, NEW B \in SUBSET Key, NEW t \in Token
    PROVE  Onward(s, WithToken(s, B, t))
<1> DEFINE q(k) == IF k \in B THEN [s.keys[k] EXCEPT !.token = t] ELSE s.keys[k]
<1>1. ASSUME NEW k \in Key
      PROVE  q(k) \in Record /\ Continues(s.keys[k], q(k))
  <2>1. s.keys[k] \in Record
    BY DEF EngineState
  <2> QED BY <2>1 DEF Record, RecordFields, Continues
<1>2. WithToken(s, B, t) = [keys |-> [k \in Key |-> q(k)], acks |-> s.acks]
  BY DEF WithToken, EngineState
<1> HIDE DEF q
<1> QED BY <1>1, <1>2 DEF Onward, EngineState

LEMMA DeliveredOnward ==
    ASSUME NEW s \in EngineState, NEW B \in SUBSET Key
    PROVE  /\ Onward(s, Delivered(s, B))
           /\ \A k \in B : Delivered(s, B).keys[k].delivered
<1> DEFINE q(k) == IF k \notin B THEN s.keys[k] ELSE
                   [s.keys[k] EXCEPT !.delivered = TRUE, !.token = NoToken, !.material = FALSE]
<1>1. ASSUME NEW k \in Key
      PROVE  q(k) \in Record /\ Continues(s.keys[k], q(k)) /\ (k \in B => q(k).delivered)
  <2>1. s.keys[k] \in Record
    BY DEF EngineState
  <2> QED BY <2>1 DEF Record, RecordFields, Continues
<1>2. Delivered(s, B) = [s EXCEPT !.keys = [k \in Key |-> q(k)]]
  BY DEF Delivered
<1> HIDE DEF q
<1>3. Delivered(s, B) = [keys |-> [k \in Key |-> q(k)], acks |-> s.acks]
  BY <1>2 DEF EngineState
<1> QED BY <1>1, <1>3 DEF Onward, EngineState

LEMMA SweptOnward ==
    ASSUME NEW s \in EngineState, NEW L \in SUBSET Key
    PROVE  Onward(s, Swept(s, L))
<1> DEFINE due == {k \in L : Known(s, k) /\ ~s.keys[k].voiding}
           q(k) == IF k \in due THEN VoidBegun(s.keys[k]) ELSE s.keys[k]
           acks == {j \in s.acks : j.key \notin due}
<1>1. ASSUME NEW k \in Key
      PROVE  q(k) \in Record /\ Continues(s.keys[k], q(k))
  <2>1. s.keys[k] \in Record
    BY DEF EngineState
  <2> QED BY <2>1, VoidBegunContinues DEF Continues
<1>2. Swept(s, L) = [keys |-> [k \in Key |-> q(k)], acks |-> acks]
  BY DEF Swept
<1>3. acks \in SUBSET Job
  BY DEF EngineState
<1> HIDE DEF q, acks
<1> QED BY <1>1, <1>2, <1>3 DEF Onward, EngineState

(* A peer is pinned once: a record already sent keeps its next hop. *)
LEMMA PinnedOnward ==
    ASSUME NEW s \in EngineState, NEW k \in Key, NEW p \in Node,
           NEW candidates, p \in NextHops(s, k, candidates)
    PROVE  Onward(s, Pinned(s, k, p))
<1> DEFINE r == [s.keys[k] EXCEPT !.next = p, !.sent = TRUE]
<1>1. s.keys[k] \in Record /\ s.acks \in SUBSET Job
  BY DEF EngineState
<1>2. r \in Record /\ Continues(s.keys[k], r)
  BY <1>1 DEF Record, RecordFields, Continues, NextHops
<1>3. Pinned(s, k, p) = [keys |-> [s.keys EXCEPT ![k] = r], acks |-> s.acks]
  BY DEF Pinned, EngineState
<1> HIDE DEF r
<1> QED BY <1>1, <1>2, <1>3, OnwardOneRecord

-----------------------------------------------------------------------------
(* More closely: what a closure may do to the record of each key.          *)

(* Plain facts about one record, and about the outbox of one engine.       *)
Neighbours(r) == Peers(r.sender) \cup (IF r.sent THEN {r.next} ELSE {})

Fit(r) ==
    /\ r.role = "none" => r.sender = NoNode /\ ~r.sent /\ ~r.ready /\ ~r.voiding /\ ~r.delivered
                          /\ r.voidRequests = {}
    /\ r.sent => r.next # r.sender
    /\ r.unknown => r.voiding
    /\ r.voiding => ~r.ready /\ (r.delivered => r.voidFailed)
    /\ ~r.voiding => r.voidRequests = {} /\ ~r.voidFailed
    /\ r.voidPending \subseteq (IF r.voiding THEN Neighbours(r) \ r.voidRequests ELSE {})

(* The record r stands behind a result for the peer p: a void result is    *)
(* final, and is a failure if the key was delivered here.                  *)
Owes(r, p, status) ==
    IF status = "relayed" THEN r.ready /\ r.sender = p
    ELSE /\ r.voiding /\ r.voidPending = {} /\ p \in r.voidRequests
         /\ r.delivered => status = "failed to void"

Truthful(s) == \A j \in s.acks : Owes(s.keys[j.key], j.peer, j.status)

Tidy(s) == s \in EngineState /\ (\A k \in Key : Fit(s.keys[k])) /\ Truthful(s)

(* What stays true of a record for good.                                   *)
Evolves(r, q) ==
    r.role # "none" =>
        /\ q.role # "none" /\ q.sender = r.sender /\ q.unknown = r.unknown
        /\ r.sent => q.sent /\ q.next = r.next
        /\ r.voiding => /\ q.voiding /\ q.sent = r.sent /\ q.delivered = r.delivered
                        /\ q.voidPending \subseteq r.voidPending
                        /\ r.voidRequests \subseteq q.voidRequests
                        /\ r.voidFailed => q.voidFailed
        /\ r.delivered => q.delivered
        /\ r.ready => q.ready \/ q.voiding

(* The step from r to q for key k does nothing that the licence L does not *)
(* cover: it touches the keys L.touch, creates records for the senders and *)
(* keys L.new, publishes the keys L.ready, delivers the keys L.give, owes  *)
(* results to the peers and for the keys L.ask, and no longer waits for    *)
(* those and for L.heard, of whom it learned a failure for the keys        *)
(* L.failed.                                                               *)
Covered(r, q, k, L) ==
    /\ k \notin L.touch => q = r
    /\ r.role = "none" /\ q.role # "none" => <<q.sender, k>> \in L.new
    /\ q.ready => r.ready \/ k \in L.ready
    /\ q.delivered => r.delivered \/ k \in L.give
    /\ \A p \in q.voidRequests : p \in r.voidRequests \/ <<p, k>> \in L.ask
    /\ q.voiding => \A p \in Neighbours(q) \ q.voidPending :
          \/ r.voiding /\ p \notin r.voidPending
          \/ <<p, k>> \in L.ask /\ p \in q.voidRequests
          \/ <<p, k>> \in L.heard /\ (k \in L.failed => q.voidFailed)

(* A change of one engine from s to t under the licence L.                 *)
Moves(s, t, L) ==
    /\ Tidy(t)
    /\ \A k \in Key : Evolves(s.keys[k], t.keys[k]) /\ Covered(s.keys[k], t.keys[k], k, L)

LEMMA MovesReflexive == ASSUME NEW s, NEW L, Tidy(s) PROVE Moves(s, s, L)
BY DEF Moves, Evolves, Covered

LEMMA EvolvesTransitive ==
    ASSUME NEW r, NEW q, NEW u, Evolves(r, q), Evolves(q, u)
    PROVE  Evolves(r, u)
BY DEF Evolves

LEMMA EvolvesNeighbours ==
    ASSUME NEW r, NEW q, Evolves(r, q), r.role # "none"
    PROVE  /\ Neighbours(r) \subseteq Neighbours(q)
           /\ r.voiding => Neighbours(q) = Neighbours(r)
BY DEF Evolves, Neighbours

LEMMA CoveredTransitive ==
    ASSUME NEW r, NEW q, NEW u, NEW k, NEW L, Fit(q), Evolves(r, q), Evolves(q, u),
           Covered(r, q, k, L), Covered(q, u, k, L)
    PROVE  Covered(r, u, k, L)
<1>1. ASSUME u.voiding, NEW p \in Neighbours(u) \ u.voidPending
      PROVE  \/ r.voiding /\ p \notin r.voidPending
             \/ <<p, k>> \in L.ask /\ p \in u.voidRequests
             \/ <<p, k>> \in L.heard /\ (k \in L.failed => u.voidFailed)
  <2>1. \/ q.voiding /\ p \notin q.voidPending
        \/ <<p, k>> \in L.ask /\ p \in u.voidRequests
        \/ <<p, k>> \in L.heard /\ (k \in L.failed => u.voidFailed)
    BY <1>1 DEF Covered
  <2>2. CASE q.voiding /\ p \notin q.voidPending
    <3>1. q.role # "none"
      BY <2>2 DEF Fit
    <3>2. p \in Neighbours(q)
      BY <1>1, <2>2, <3>1, EvolvesNeighbours
    <3>3. \/ r.voiding /\ p \notin r.voidPending
          \/ <<p, k>> \in L.ask /\ p \in q.voidRequests
          \/ <<p, k>> \in L.heard /\ (k \in L.failed => q.voidFailed)
      BY <2>2, <3>2 DEF Covered
    <3>4. q.voidRequests \subseteq u.voidRequests /\ (q.voidFailed => u.voidFailed)
      BY <2>2, <3>1 DEF Evolves
    <3> QED BY <3>3, <3>4
  <2> QED BY <2>1, <2>2
<1>2. /\ k \notin L.touch => u = r
      /\ r.role = "none" /\ u.role # "none" => <<u.sender, k>> \in L.new
      /\ u.ready => r.ready \/ k \in L.ready
      /\ u.delivered => r.delivered \/ k \in L.give
      /\ \A p \in u.voidRequests : p \in r.voidRequests \/ <<p, k>> \in L.ask
  BY DEF Evolves, Covered
<1> QED BY <1>1, <1>2 DEF Covered

LEMMA MovesTransitive ==
    ASSUME NEW s, NEW t, NEW u, NEW L, Moves(s, t, L), Moves(t, u, L)
    PROVE  Moves(s, u, L)
<1> SUFFICES ASSUME NEW k \in Key
             PROVE  Evolves(s.keys[k], u.keys[k]) /\ Covered(s.keys[k], u.keys[k], k, L)
  BY DEF Moves
<1>1. /\ Evolves(s.keys[k], t.keys[k]) /\ Covered(s.keys[k], t.keys[k], k, L)
      /\ Evolves(t.keys[k], u.keys[k]) /\ Covered(t.keys[k], u.keys[k], k, L)
      /\ Fit(t.keys[k])
  BY DEF Moves, Tidy
<1> QED BY <1>1, EvolvesTransitive, CoveredTransitive

(* Replacing one record, and the outbox.                                   *)
LEMMA MovesOneRecord ==
    ASSUME NEW s, Tidy(s), NEW L, NEW k \in Key, NEW r \in Record, NEW acks \in SUBSET Job,
           Fit(r), Evolves(s.keys[k], r), k \in L.touch, Covered(s.keys[k], r, k, L),
           Truthful([keys |-> [s.keys EXCEPT ![k] = r], acks |-> acks])
    PROVE  Moves(s, [keys |-> [s.keys EXCEPT ![k] = r], acks |-> acks], L)
<1> DEFINE t == [keys |-> [s.keys EXCEPT ![k] = r], acks |-> acks]
<1>1. s.keys \in [Key -> Record]
  BY DEF Tidy, EngineState
<1>2. t.keys[k] = r /\ \A x \in Key \ {k} : t.keys[x] = s.keys[x]
  BY <1>1
<1>3. t \in EngineState
  BY <1>1 DEF EngineState
<1>4. \A x \in Key : Fit(t.keys[x])
  BY <1>2 DEF Tidy
<1>5. ASSUME NEW x \in Key
      PROVE  Evolves(s.keys[x], t.keys[x]) /\ Covered(s.keys[x], t.keys[x], x, L)
  BY <1>2 DEF Evolves, Covered
<1> QED BY <1>3, <1>4, <1>5 DEF Moves, Tidy

(* Replacing the outbox.                                                   *)
LEMMA MovesAcks ==
    ASSUME NEW s, Tidy(s), NEW L, NEW acks \in SUBSET Job, Truthful([s EXCEPT !.acks = acks])
    PROVE  Moves(s, [s EXCEPT !.acks = acks], L)
<1> DEFINE t == [s EXCEPT !.acks = acks]
<1>1. t \in EngineState /\ t.keys = s.keys
  BY DEF Tidy, EngineState
<1>2. \A k \in Key : Fit(t.keys[k]) /\ Evolves(s.keys[k], t.keys[k]) /\ Covered(s.keys[k], t.keys[k], k, L)
  BY <1>1 DEF Tidy, Evolves, Covered
<1> QED BY <1>1, <1>2 DEF Moves, Tidy

-----------------------------------------------------------------------------
(* The handlers, each with what it needs to be licensed for.               *)

LEMMA EnqueueMoves ==
    ASSUME NEW s, Tidy(s), NEW L, NEW k \in Key, NEW peers \in SUBSET Node, NEW status \in Status,
           \A p \in peers : Owes(s.keys[k], p, status)
    PROVE  Moves(s, Enqueue(s, k, peers, status), L)
<1> DEFINE acks == {j \in s.acks : ~(j.key = k /\ j.peer \in peers)} \cup
                   {[peer |-> p, key |-> k, status |-> status] : p \in peers}
<1>1. acks \in SUBSET Job
  BY DEF Tidy, EngineState, Job
<1>2. Enqueue(s, k, peers, status) = [s EXCEPT !.acks = acks]
  BY DEF Enqueue
<1>3. [s EXCEPT !.acks = acks].keys = s.keys /\ [s EXCEPT !.acks = acks].acks = acks
  BY DEF Tidy, EngineState
<1>4. ASSUME NEW j \in acks PROVE Owes(s.keys[j.key], j.peer, j.status)
  BY <1>4 DEF Tidy, Truthful
<1> HIDE DEF acks
<1>5. Truthful([s EXCEPT !.acks = acks])
  BY <1>3, <1>4 DEF Truthful
<1> QED BY <1>1, <1>2, <1>5, MovesAcks

LEMMA VoidBegunFits ==
    ASSUME NEW r \in Record, Fit(r), r.role # "none", NEW k, NEW L, k \in L.touch
    PROVE  /\ Fit(VoidBegun(r)) /\ Evolves(r, VoidBegun(r)) /\ Covered(r, VoidBegun(r), k, L)
           /\ VoidBegun(r).voiding
BY DEF VoidBegun, Fit, Evolves, Covered, Record, RecordFields, Neighbours

LEMMA RequestedFits ==
    ASSUME NEW r \in Record, Fit(r), r.role # "none", r.voiding, NEW k, NEW L, k \in L.touch,
           NEW R \in SUBSET Node, \A p \in R : <<p, k>> \in L.ask
    PROVE  /\ Fit(Requested(r, R)) /\ Evolves(r, Requested(r, R)) /\ Covered(r, Requested(r, R), k, L)
           /\ Requested(r, R).voiding /\ r.voidRequests \subseteq Requested(r, R).voidRequests
<1> DEFINE q == Requested(r, R)
<1>1. /\ q.role = r.role /\ q.sender = r.sender /\ q.next = r.next /\ q.sent = r.sent
      /\ q.ready = r.ready /\ q.delivered = r.delivered /\ q.unknown = r.unknown /\ q.voiding = r.voiding
      /\ q.voidFailed = r.voidFailed
      /\ q.voidRequests = r.voidRequests \cup R /\ q.voidPending = r.voidPending \ R
  BY DEF Requested, Record, RecordFields
<1> HIDE DEF q
<1>2. Neighbours(q) = Neighbours(r)
  BY <1>1 DEF Neighbours
<1>3. Fit(q)
  BY <1>1, <1>2 DEF Fit
<1>4. Evolves(r, q)
  BY <1>1 DEF Evolves
<1>5. Covered(r, q, k, L)
  BY <1>1, <1>2 DEF Covered
<1> QED BY <1>1, <1>3, <1>4, <1>5 DEF q

LEMMA StartVoidMoves ==
    ASSUME NEW s, Tidy(s), NEW L, NEW k \in Key, k \in L.touch, Known(s, k),
           NEW R \in SUBSET Node, \A p \in R : <<p, k>> \in L.ask
    PROVE  /\ Moves(s, StartVoid(s, k, R), L)
           /\ StartVoid(s, k, R).keys[k].voiding
           /\ R \subseteq StartVoid(s, k, R).keys[k].voidRequests
<1> DEFINE v == VoidBegun(s.keys[k])
           w == Requested(v, R)
           acks == {j \in s.acks : s.keys[k].voiding \/ j.key # k}
<1>1. s.keys[k] \in Record /\ Fit(s.keys[k]) /\ s.keys \in [Key -> Record] /\ s.acks \in SUBSET Job
  BY DEF Tidy, EngineState
<1>2. /\ v \in Record /\ Fit(v) /\ Evolves(s.keys[k], v) /\ Covered(s.keys[k], v, k, L)
      /\ v.voiding /\ v.role # "none"
  BY <1>1, VoidBegunContinues, VoidBegunFits DEF Known, Evolves
<1>3. s.keys[k].voiding => v = s.keys[k]
  BY DEF VoidBegun
<1>4. w.voidRequests = v.voidRequests \cup R
  BY <1>2 DEF Requested, Record, RecordFields
<1>5. StartVoid(s, k, R) = [keys |-> [s.keys EXCEPT ![k] = w], acks |-> acks]
  BY DEF StartVoid
<1> HIDE DEF v
<1>6. /\ w \in Record /\ Fit(w) /\ Evolves(v, w) /\ Covered(v, w, k, L) /\ w.voiding
      /\ v.voidRequests \subseteq w.voidRequests
  BY <1>2, RequestedContinues, RequestedFits
<1> HIDE DEF w
<1>7. Evolves(s.keys[k], w)
  BY <1>2, <1>6 DEF Evolves
<1>8. Covered(s.keys[k], w, k, L)
  BY <1>2, <1>6, CoveredTransitive
<1>9. acks \in SUBSET Job
  BY <1>1
<1>10. ASSUME NEW j \in acks
       PROVE  Owes([s.keys EXCEPT ![k] = w][j.key], j.peer, j.status)
  <2>1. j \in s.acks /\ j.key \in Key
    BY <1>1 DEF Job
  <2>2. CASE j.key # k
    BY <1>1, <2>1, <2>2 DEF Tidy, Truthful
  <2>3. CASE j.key = k
    <3>1. s.keys[k].voiding /\ ~s.keys[k].ready
      BY <1>1, <1>10, <2>3 DEF Fit
    <3>2. Owes(v, j.peer, j.status) /\ ~v.ready
      BY <1>3, <2>1, <2>3, <3>1 DEF Tidy, Truthful
    <3>3. w.voidPending = {} /\ (w.delivered => v.delivered) /\ v.voidRequests \subseteq w.voidRequests
      BY <1>2, <1>6, <3>2 DEF Owes, Evolves
    <3>4. Owes(w, j.peer, j.status)
      BY <1>6, <3>2, <3>3 DEF Owes
    <3> QED BY <1>1, <2>3, <3>4
  <2> QED BY <2>2, <2>3
<1> HIDE DEF acks
<1>11. Truthful([keys |-> [s.keys EXCEPT ![k] = w], acks |-> acks])
  BY <1>10 DEF Truthful
<1>12. Moves(s, StartVoid(s, k, R), L)
  BY <1>5, <1>6, <1>7, <1>8, <1>9, <1>11, MovesOneRecord
<1> QED BY <1>1, <1>4, <1>5, <1>6, <1>12

LEMMA FinishVoidMoves ==
    ASSUME NEW s, Tidy(s), NEW L, NEW k \in Key, s.keys[k].voiding
    PROVE  Moves(s, FinishVoid(s, k), L)
<1> DEFINE r == s.keys[k]
           status == IF r.voidFailed THEN "failed to void"
                     ELSE IF r.unknown THEN "key not present" ELSE "voided"
<1>1. r.voidRequests \in SUBSET Node /\ Fit(r)
  BY DEF Tidy, EngineState, Record, RecordFields
<1>2. status \in Status /\ status # "relayed" /\ (r.delivered => status = "failed to void")
  BY <1>1 DEF Status, VoidStatus, Fit
<1>3. FinishVoid(s, k) = IF r.voidPending # {} THEN s ELSE Enqueue(s, k, r.voidRequests, status)
  BY DEF FinishVoid
<1> HIDE DEF status
<1>4. r.voidPending = {} => \A p \in r.voidRequests : Owes(r, p, status)
  BY <1>2 DEF Owes
<1>5. r.voidPending = {} => Moves(s, Enqueue(s, k, r.voidRequests, status), L)
  BY <1>1, <1>2, <1>4, EnqueueMoves
<1> QED BY <1>3, <1>5, MovesReflexive

LEMMA VoidKeyMoves ==
    ASSUME NEW s, Tidy(s), NEW L, NEW k \in Key, k \in L.touch, Known(s, k),
           NEW R \in SUBSET Node, \A p \in R : <<p, k>> \in L.ask
    PROVE  Moves(s, VoidKey(s, k, R), L)
<1>1. Moves(s, StartVoid(s, k, R), L) /\ StartVoid(s, k, R).keys[k].voiding
  BY StartVoidMoves
<1>2. Moves(StartVoid(s, k, R), FinishVoid(StartVoid(s, k, R), k), L)
  BY <1>1, FinishVoidMoves DEF Moves
<1> QED BY <1>1, <1>2, MovesTransitive DEF VoidKey

LEMMA StoredMoves ==
    ASSUME NEW s, Tidy(s), NEW L, NEW k \in Key, ~Known(s, k), k \in L.touch, <<NoNode, k>> \in L.new
    PROVE  Moves(s, Stored(s, k), L)
<1> DEFINE r == [Absent EXCEPT !.role = "source", !.material = TRUE]
<1>1. s.keys[k] \in Record /\ Fit(s.keys[k]) /\ s.keys \in [Key -> Record] /\ s.acks \in SUBSET Job
  BY DEF Tidy, EngineState
<1>2. r \in Record /\ Fit(r) /\ Evolves(s.keys[k], r) /\ Covered(s.keys[k], r, k, L)
  BY DEF Absent, Record, RecordFields, Role, Known, Fit, Evolves, Covered, Neighbours
<1>3. Stored(s, k) = [keys |-> [s.keys EXCEPT ![k] = r], acks |-> s.acks]
  BY StateShape DEF Stored, Tidy
<1> HIDE DEF r
<1>4. \A j \in s.acks : j.key \in Key /\ j.key # k
  BY <1>1 DEF Tidy, Truthful, Owes, Known, Fit, Job
<1>5. Truthful([keys |-> [s.keys EXCEPT ![k] = r], acks |-> s.acks])
  BY <1>1, <1>4 DEF Tidy, Truthful
<1> QED BY <1>1, <1>2, <1>3, <1>5, MovesOneRecord

LEMMA AcceptedNewMoves ==
    ASSUME NEW s, Tidy(s), NEW L, NEW k \in Key, NEW p \in Node, NEW local \in BOOLEAN,
           ~Known(s, k), k \in L.touch, <<p, k>> \in L.new, local => k \in L.ready
    PROVE  Moves(s, AcceptedNew(s, p, k, local), L)
<1> DEFINE r == [Absent EXCEPT !.role     = IF local THEN "target" ELSE "relay",
                               !.sender   = p,
                               !.material = TRUE,
                               !.ready    = local]
           t == [s EXCEPT !.keys[k] = r]
<1>1. s.keys[k] \in Record /\ Fit(s.keys[k]) /\ s.keys \in [Key -> Record] /\ s.acks \in SUBSET Job
  BY DEF Tidy, EngineState
<1>2. /\ r \in Record /\ Fit(r) /\ Evolves(s.keys[k], r) /\ Covered(s.keys[k], r, k, L)
      /\ r.sender = p /\ r.ready = local
  BY DEF Absent, Record, RecordFields, Role, Known, Fit, Evolves, Covered, Neighbours
<1>3. t = [keys |-> [s.keys EXCEPT ![k] = r], acks |-> s.acks]
  BY StateShape DEF Tidy
<1>4. AcceptedNew(s, p, k, local) = IF local THEN Enqueue(t, k, {p}, "relayed") ELSE t
  BY DEF AcceptedNew
<1> HIDE DEF r, t
<1>5. \A j \in s.acks : j.key \in Key /\ j.key # k
  BY <1>1 DEF Tidy, Truthful, Owes, Known, Fit, Job
<1>6. Truthful([keys |-> [s.keys EXCEPT ![k] = r], acks |-> s.acks])
  BY <1>1, <1>5 DEF Tidy, Truthful
<1>7. Moves(s, t, L) /\ Tidy(t) /\ t.keys[k] = r
  BY <1>1, <1>2, <1>3, <1>6, MovesOneRecord DEF Moves
<1>8. local => Moves(t, Enqueue(t, k, {p}, "relayed"), L)
  BY <1>2, <1>7, EnqueueMoves DEF Status, Owes
<1> QED BY <1>4, <1>7, <1>8, MovesTransitive

LEMMA AcceptedAgainMoves ==
    ASSUME NEW s, Tidy(s), NEW L, NEW k \in Key, NEW p \in Node, NEW lapsed,
           Known(s, k), s.keys[k].sender = p, k \in L.touch, s.keys[k].voiding \/ <<p, k>> \in L.ask
    PROVE  Moves(s, AcceptedAgain(s, p, k, lapsed), L)
<1> DEFINE v == IF lapsed /\ ~s.keys[k].voiding THEN StartVoid(s, k, {p}) ELSE s
<1>1. Moves(s, v, L)
  BY StartVoidMoves, MovesReflexive
<1>2. AcceptedAgain(s, p, k, lapsed) =
        IF v.keys[k].voiding THEN FinishVoid(v, k)
        ELSE IF v.keys[k].ready THEN Enqueue(v, k, {p}, "relayed") ELSE v
  BY DEF AcceptedAgain
<1> HIDE DEF v
<1>3. Tidy(v) /\ v.keys[k].sender = p
  BY <1>1 DEF Moves, Evolves, Known
<1>4. v.keys[k].voiding => Moves(v, FinishVoid(v, k), L)
  BY <1>3, FinishVoidMoves
<1>5. v.keys[k].ready => Moves(v, Enqueue(v, k, {p}, "relayed"), L)
  BY <1>3, EnqueueMoves DEF Status, Owes
<1>6. Moves(v, v, L)
  BY <1>3, MovesReflexive
<1>7. Moves(v, AcceptedAgain(s, p, k, lapsed), L)
  BY <1>2, <1>4, <1>5, <1>6
<1> QED BY <1>1, <1>7, MovesTransitive

LEMMA ConfirmedMoves ==
    ASSUME NEW s, Tidy(s), NEW L, NEW k \in Key, NEW p \in Node, NEW status,
           Known(s, k), s.keys[k].voiding, k \in L.touch,
           status \in VoidStatus => <<p, k>> \in L.heard, k \in L.failed => status = "failed to void"
    PROVE  Moves(s, Confirmed(s, p, k, status), L)
<1> DEFINE r == [s.keys[k] EXCEPT !.voidPending = @ \ {p},
                                  !.voidFailed  = @ \/ status = "failed to void"]
           t == [s EXCEPT !.keys[k] = r]
<1>1. s.keys[k] \in Record /\ Fit(s.keys[k]) /\ s.keys \in [Key -> Record] /\ s.acks \in SUBSET Job
  BY DEF Tidy, EngineState
<1>2. /\ r \in Record /\ r.role = s.keys[k].role /\ r.sender = s.keys[k].sender
      /\ r.next = s.keys[k].next /\ r.sent = s.keys[k].sent /\ r.ready = s.keys[k].ready
      /\ r.delivered = s.keys[k].delivered /\ r.unknown = s.keys[k].unknown
      /\ r.voiding /\ r.voidRequests = s.keys[k].voidRequests
      /\ r.voidPending = s.keys[k].voidPending \ {p}
      /\ r.voidFailed <=> s.keys[k].voidFailed \/ status = "failed to void"
  BY <1>1 DEF Record, RecordFields
<1>3. t = [keys |-> [s.keys EXCEPT ![k] = r], acks |-> s.acks]
  BY StateShape DEF Tidy
<1>4. Confirmed(s, p, k, status) = IF status \notin VoidStatus THEN s ELSE FinishVoid(t, k)
  BY DEF Confirmed
<1> HIDE DEF r, t
<1>5. Neighbours(r) = Neighbours(s.keys[k])
  BY <1>2 DEF Neighbours
<1>6. Fit(r) /\ Evolves(s.keys[k], r)
  <2>1. Fit(r)
    BY <1>1, <1>2, <1>5 DEF Fit
  <2>2. Evolves(s.keys[k], r)
    BY <1>2 DEF Evolves
  <2> QED BY <2>1, <2>2
<1>11. status \in VoidStatus => Covered(s.keys[k], r, k, L)
  BY <1>2, <1>5 DEF Covered
<1>7. \A j \in s.acks : j.key \in Key
  BY <1>1 DEF Job
<1>8. Truthful([keys |-> [s.keys EXCEPT ![k] = r], acks |-> s.acks])
  BY <1>1, <1>2, <1>7 DEF Tidy, Truthful, Owes
<1>9. status \in VoidStatus => Moves(s, t, L) /\ t.keys[k].voiding
  BY <1>1, <1>2, <1>3, <1>6, <1>8, <1>11, MovesOneRecord
<1>10. status \in VoidStatus => Moves(t, FinishVoid(t, k), L)
  BY <1>9, FinishVoidMoves DEF Moves
<1> QED BY <1>4, <1>9, <1>10, MovesTransitive, MovesReflexive

LEMMA MadeReadyMoves ==
    ASSUME NEW s, Tidy(s), NEW L, NEW k \in Key, Known(s, k), ~s.keys[k].voiding,
           k \in L.touch, k \in L.ready
    PROVE  Moves(s, MadeReady(s, k), L)
<1> DEFINE r == [s.keys[k] EXCEPT !.ready    = TRUE,
                                  !.material = @ /\ s.keys[k].role # "relay"]
           t == [s EXCEPT !.keys[k] = r]
<1>1. s.keys[k] \in Record /\ Fit(s.keys[k]) /\ s.keys \in [Key -> Record] /\ s.acks \in SUBSET Job
  BY DEF Tidy, EngineState
<1>2. /\ r \in Record /\ r.role = s.keys[k].role /\ r.sender = s.keys[k].sender
      /\ r.next = s.keys[k].next /\ r.sent = s.keys[k].sent /\ r.ready
      /\ r.delivered = s.keys[k].delivered /\ r.unknown = s.keys[k].unknown
      /\ r.voiding = s.keys[k].voiding /\ r.voidRequests = s.keys[k].voidRequests
      /\ r.voidPending = s.keys[k].voidPending /\ r.voidFailed = s.keys[k].voidFailed
  BY <1>1 DEF Record, RecordFields
<1>3. t = [keys |-> [s.keys EXCEPT ![k] = r], acks |-> s.acks]
  BY StateShape DEF Tidy
<1>4. MadeReady(s, k) = Enqueue(t, k, Peers(r.sender), "relayed")
  BY DEF MadeReady
<1>5. Peers(r.sender) \in SUBSET Node /\ \A p \in Peers(r.sender) : r.sender = p
  BY <1>1, <1>2, PeersType DEF Record, RecordFields, Peers
<1> HIDE DEF r, t
<1>6. Fit(r) /\ Evolves(s.keys[k], r) /\ Covered(s.keys[k], r, k, L)
  BY <1>1, <1>2 DEF Fit, Evolves, Covered, Known, Neighbours
<1>7. \A j \in s.acks : j.key \in Key
  BY <1>1 DEF Job
<1>8. Truthful([keys |-> [s.keys EXCEPT ![k] = r], acks |-> s.acks])
  BY <1>1, <1>2, <1>7 DEF Tidy, Truthful, Owes
<1>9. Moves(s, t, L) /\ Tidy(t) /\ t.keys[k] = r
  BY <1>1, <1>3, <1>2, <1>6, <1>8, MovesOneRecord DEF Moves
<1>10. Moves(t, MadeReady(s, k), L)
  BY <1>2, <1>4, <1>5, <1>9, EnqueueMoves DEF Status, Owes
<1> QED BY <1>9, <1>10, MovesTransitive

LEMMA AcknowledgedMoves ==
    ASSUME NEW s, Tidy(s), NEW L, NEW k \in Key, NEW p \in Node, NEW status, NEW lapsed,
           Known(s, k), k \in L.touch, status = "relayed" => k \in L.ready,
           status \in VoidStatus => <<p, k>> \in L.heard, k \in L.failed => status = "failed to void"
    PROVE  Moves(s, Acknowledged(s, p, k, status, lapsed), L)
<1> DEFINE v == IF lapsed /\ ~s.keys[k].voiding THEN StartVoid(s, k, {}) ELSE s
<1>1. Moves(s, v, L)
  BY StartVoidMoves, MovesReflexive
<1>2. Acknowledged(s, p, k, status, lapsed) =
        IF v.keys[k].voiding THEN Confirmed(v, p, k, status)
        ELSE IF status = "relayed" THEN MadeReady(v, k)
        ELSE VoidKey(v, k, {})
  BY DEF Acknowledged
<1> HIDE DEF v
<1>3. Tidy(v) /\ Known(v, k)
  BY <1>1 DEF Moves, Evolves, Known
<1>4. v.keys[k].voiding => Moves(v, Confirmed(v, p, k, status), L)
  BY <1>3, ConfirmedMoves
<1>5. ~v.keys[k].voiding /\ status = "relayed" => Moves(v, MadeReady(v, k), L)
  BY <1>3, MadeReadyMoves
<1>6. Moves(v, VoidKey(v, k, {}), L)
  BY <1>3, VoidKeyMoves
<1>7. Moves(v, Acknowledged(s, p, k, status, lapsed), L)
  BY <1>2, <1>4, <1>5, <1>6
<1> QED BY <1>1, <1>7, MovesTransitive

(* A tombstone is voiding from the start. *)
LEMMA VoidedMoves ==
    ASSUME NEW s, Tidy(s), NEW L, NEW k \in Key, NEW p \in Node, NEW local,
           k \in L.touch, <<p, k>> \in L.ask, ~Known(s, k) => <<p, k>> \in L.new
    PROVE  Moves(s, Voided(s, p, k, local), L)
<1>1. s.keys[k] \in Record /\ Fit(s.keys[k]) /\ s.keys \in [Key -> Record] /\ s.acks \in SUBSET Job
  BY DEF Tidy, EngineState
<1>2. CASE Known(s, k)
  BY <1>2, VoidKeyMoves DEF Voided, WithTombstone
<1>3. CASE ~Known(s, k)
  <2> DEFINE r == [Absent EXCEPT !.role    = IF local THEN "target" ELSE "relay",
                                 !.sender  = p,
                                 !.unknown = TRUE]
             u == [keys |-> [s.keys EXCEPT ![k] = r], acks |-> s.acks]
             w == Requested(VoidBegun(r), {p})
             acks == {j \in s.acks : r.voiding \/ j.key # k}
             t == [keys |-> [s.keys EXCEPT ![k] = w], acks |-> acks]
  <2>1. r \in Record /\ r.role # "none" /\ r.sender = p /\ ~r.sent /\ ~r.voiding /\ ~r.ready /\ ~r.delivered
    BY DEF Absent, Record, RecordFields, Role
  <2>2. /\ w \in Record /\ w.voiding /\ ~w.ready /\ ~w.delivered /\ w.sender = p /\ w.role # "none"
        /\ w.voidRequests = {p} /\ w.voidPending = {} /\ ~w.sent
    <3> DEFINE v == VoidBegun(r)
    <3>1. v \in Record
      BY <2>1, VoidBegunContinues
    <3>2. /\ v.voiding /\ ~v.ready /\ ~v.delivered /\ v.sender = p /\ v.role # "none"
          /\ v.voidRequests = {} /\ v.voidPending \subseteq {p} /\ ~v.sent
      <4> HIDE DEF r
      <4> QED BY <2>1 DEF VoidBegun, Record, RecordFields, Peers
    <3> HIDE DEF v
    <3> QED BY <3>1, <3>2 DEF Requested, Record, RecordFields, v
  <2>3. WithTombstone(s, p, k, local) = u
    BY <1>3, StateShape DEF WithTombstone, Tidy
  <2>4. u.keys[k] = r /\ [u.keys EXCEPT ![k] = w] = [s.keys EXCEPT ![k] = w]
    BY <1>1
  <2>5. StartVoid(u, k, {p}) = t
    BY <2>4 DEF StartVoid
  <2>6. Voided(s, p, k, local) = FinishVoid(t, k)
    BY <2>3, <2>5 DEF Voided, VoidKey
  <2> HIDE DEF r, w, u
  <2>7. acks \in SUBSET Job /\ \A j \in acks : j \in s.acks /\ j.key \in Key /\ j.key # k
    BY <1>1, <2>1 DEF Job
  <2> HIDE DEF acks
  <2>8. Truthful(t)
    BY <1>1, <2>7 DEF Tidy, Truthful
  <2>9. Fit(w) /\ Evolves(s.keys[k], w) /\ Covered(s.keys[k], w, k, L)
    BY <1>3, <2>2 DEF Fit, Evolves, Covered, Known, Neighbours, Peers
  <2>10. Moves(s, t, L) /\ t.keys[k] = w
    BY <1>1, <2>2, <2>7, <2>8, <2>9, MovesOneRecord
  <2> HIDE DEF t
  <2>11. Moves(t, FinishVoid(t, k), L)
    BY <2>2, <2>10, FinishVoidMoves DEF Moves
  <2> QED BY <2>6, <2>10, <2>11, MovesTransitive
<1> QED BY <1>2, <1>3

LEMMA AcceptedMoves ==
    ASSUME NEW s, Tidy(s), NEW L, NEW k \in Key, NEW p \in Node, NEW local \in BOOLEAN, NEW lapsed,
           k \in L.touch, Known(s, k) => s.keys[k].sender = p /\ (s.keys[k].voiding \/ <<p, k>> \in L.ask),
           ~Known(s, k) => <<p, k>> \in L.new, local => k \in L.ready
    PROVE  Moves(s, Accepted(s, p, k, local, lapsed), L)
BY AcceptedAgainMoves, AcceptedNewMoves DEF Accepted

LEMMA WithTokenMoves ==
    ASSUME NEW s, Tidy(s), NEW L, NEW B \in SUBSET Key, NEW t \in Token, B \subseteq L.touch
    PROVE  Moves(s, WithToken(s, B, t), L)
<1> DEFINE q(k) == IF k \in B THEN [s.keys[k] EXCEPT !.token = t] ELSE s.keys[k]
           u == WithToken(s, B, t)
<1>1. ASSUME NEW k \in Key
      PROVE  /\ Fit(q(k)) /\ Evolves(s.keys[k], q(k)) /\ Covered(s.keys[k], q(k), k, L)
             /\ q(k).ready = s.keys[k].ready /\ q(k).sender = s.keys[k].sender
             /\ q(k).voiding = s.keys[k].voiding /\ q(k).voidRequests = s.keys[k].voidRequests
             /\ q(k).voidPending = s.keys[k].voidPending /\ q(k).delivered = s.keys[k].delivered
  <2>1. s.keys[k] \in Record /\ Fit(s.keys[k])
    BY DEF Tidy, EngineState
  <2> QED BY <2>1 DEF Record, RecordFields, Fit, Evolves, Covered, Neighbours
<1>2. u = [keys |-> [k \in Key |-> q(k)], acks |-> s.acks]
  BY DEF WithToken, Tidy, EngineState
<1>3. u \in EngineState
  BY WithTokenOnward DEF Tidy, Onward
<1> HIDE DEF q, u
<1>4. \A j \in s.acks : j.key \in Key
  BY DEF Tidy, EngineState, Job
<1>5. Truthful(u)
  BY <1>1, <1>2, <1>4 DEF Tidy, Truthful, Owes
<1> QED BY <1>1, <1>2, <1>3, <1>5 DEF Moves, Tidy, u

LEMMA DeliveredMoves ==
    ASSUME NEW s, Tidy(s), NEW L, NEW B \in SUBSET Key, \A k \in B : Known(s, k) /\ ~s.keys[k].voiding,
           B \subseteq L.touch, B \subseteq L.give
    PROVE  Moves(s, Delivered(s, B), L)
<1> DEFINE q(k) == IF k \notin B THEN s.keys[k] ELSE
                   [s.keys[k] EXCEPT !.delivered = TRUE, !.token = NoToken, !.material = FALSE]
           u == Delivered(s, B)
<1>1. ASSUME NEW k \in Key
      PROVE  /\ Fit(q(k)) /\ Evolves(s.keys[k], q(k)) /\ Covered(s.keys[k], q(k), k, L)
             /\ q(k).ready = s.keys[k].ready /\ q(k).sender = s.keys[k].sender
             /\ q(k).voiding = s.keys[k].voiding /\ q(k).voidRequests = s.keys[k].voidRequests
             /\ q(k).voidPending = s.keys[k].voidPending
             /\ q(k).voiding /\ q(k).delivered => s.keys[k].delivered
  <2>1. s.keys[k] \in Record /\ Fit(s.keys[k]) /\ (k \in B => s.keys[k].role # "none" /\ ~s.keys[k].voiding)
    BY DEF Tidy, EngineState, Known
  <2> QED BY <2>1 DEF Record, RecordFields, Fit, Evolves, Covered, Neighbours
<1>2. u = [s EXCEPT !.keys = [k \in Key |-> q(k)]]
  BY DEF Delivered
<1>3. u \in EngineState
  BY DeliveredOnward DEF Tidy, Onward
<1> HIDE DEF q, u
<1>4. u = [keys |-> [k \in Key |-> q(k)], acks |-> s.acks]
  BY <1>2 DEF Tidy, EngineState
<1>5. \A j \in s.acks : j.key \in Key
  BY DEF Tidy, EngineState, Job
<1>6. Truthful(u)
  BY <1>1, <1>4, <1>5 DEF Tidy, Truthful, Owes
<1> QED BY <1>1, <1>3, <1>4, <1>6 DEF Moves, Tidy, u

LEMMA SweptMoves ==
    ASSUME NEW s, Tidy(s), NEW L, NEW D \in SUBSET Key, D \subseteq L.touch
    PROVE  Moves(s, Swept(s, D), L)
<1> DEFINE due == {k \in D : Known(s, k) /\ ~s.keys[k].voiding}
           q(k) == IF k \in due THEN VoidBegun(s.keys[k]) ELSE s.keys[k]
           acks == {j \in s.acks : j.key \notin due}
           u == Swept(s, D)
<1>1. ASSUME NEW k \in Key
      PROVE  Fit(q(k)) /\ Evolves(s.keys[k], q(k)) /\ Covered(s.keys[k], q(k), k, L)
  <2>1. s.keys[k] \in Record /\ Fit(s.keys[k])
    BY DEF Tidy, EngineState
  <2>2. CASE k \in due
    BY <2>1, <2>2, VoidBegunFits DEF Known
  <2>3. CASE k \notin due
    BY <2>1, <2>3 DEF Evolves, Covered
  <2> QED BY <2>2, <2>3
<1>2. u = [keys |-> [k \in Key |-> q(k)], acks |-> acks]
  BY DEF Swept
<1>3. u \in EngineState
  BY SweptOnward DEF Tidy, Onward
<1>4. \A j \in acks : j \in s.acks /\ j.key \in Key /\ q(j.key) = s.keys[j.key]
  BY DEF Tidy, EngineState, Job
<1> HIDE DEF q, acks, u
<1>5. Truthful(u)
  BY <1>2, <1>4 DEF Tidy, Truthful
<1> QED BY <1>1, <1>2, <1>3, <1>5 DEF Moves, Tidy, u

LEMMA PinnedMoves ==
    ASSUME NEW s, Tidy(s), NEW L, NEW k \in Key, NEW p \in Node, NEW candidates, NEW lapsed,
           Unsettled(s, k, lapsed), p \in NextHops(s, k, candidates), s.keys[k].sender \notin candidates, k \in L.touch
    PROVE  /\ Moves(s, Pinned(s, k, p), L)
           /\ Pinned(s, k, p).keys[k].sent /\ Pinned(s, k, p).keys[k].next = p
<1> DEFINE r == [s.keys[k] EXCEPT !.next = p, !.sent = TRUE]
<1>1. s.keys[k] \in Record /\ Fit(s.keys[k]) /\ s.keys \in [Key -> Record] /\ s.acks \in SUBSET Job
  BY DEF Tidy, EngineState
<1>2. s.keys[k].role # "none" /\ ~s.keys[k].voiding
  BY DEF Unsettled
<1>3. /\ r \in Record /\ r.role = s.keys[k].role /\ r.sender = s.keys[k].sender
      /\ r.next = p /\ r.sent /\ r.ready = s.keys[k].ready
      /\ r.delivered = s.keys[k].delivered /\ r.unknown = s.keys[k].unknown
      /\ r.voiding = s.keys[k].voiding /\ r.voidRequests = s.keys[k].voidRequests
      /\ r.voidPending = s.keys[k].voidPending /\ r.voidFailed = s.keys[k].voidFailed
  BY <1>1 DEF Record, RecordFields
<1>4. (s.keys[k].sent => p = s.keys[k].next) /\ p # s.keys[k].sender
  BY <1>1 DEF NextHops, Fit
<1>5. Pinned(s, k, p) = [keys |-> [s.keys EXCEPT ![k] = r], acks |-> s.acks]
  BY DEF Pinned, Tidy, EngineState
<1> HIDE DEF r
<1>6. Fit(r) /\ Evolves(s.keys[k], r) /\ Covered(s.keys[k], r, k, L)
  BY <1>1, <1>2, <1>3, <1>4 DEF Fit, Evolves, Covered
<1>7. \A j \in s.acks : j.key \in Key
  BY <1>1 DEF Job
<1>8. Truthful([keys |-> [s.keys EXCEPT ![k] = r], acks |-> s.acks])
  BY <1>1, <1>3, <1>7 DEF Tidy, Truthful, Owes
<1>9. Moves(s, Pinned(s, k, p), L)
  BY <1>1, <1>3, <1>5, <1>6, <1>8, MovesOneRecord
<1> QED BY <1>1, <1>3, <1>5, <1>9

LEMMA FewerResultsMove ==
    ASSUME NEW s, Tidy(s), NEW L, NEW gone
    PROVE  Moves(s, [s EXCEPT !.acks = @ \ gone], L)
<1> DEFINE acks == s.acks \ gone
<1>1. acks \in SUBSET Job
  BY DEF Tidy, EngineState
<1>2. [s EXCEPT !.acks = acks].keys = s.keys /\ [s EXCEPT !.acks = acks].acks \subseteq s.acks
  BY DEF Tidy, EngineState
<1>3. Truthful([s EXCEPT !.acks = acks])
  BY <1>2 DEF Truthful, Tidy
<1> QED BY <1>1, <1>3, MovesAcks

-----------------------------------------------------------------------------
(* Who asked for a void is answered: when a void has no neighbour left to  *)
(* wait for, each requester has its result in the outbox, or had it taken  *)
(* out before.                                                             *)
HasResult(s, p, k) == \E j \in s.acks : j.peer = p /\ j.key = k /\ j.status \in VoidStatus

Settled(t, k) == t.keys[k].voidPending = {} => \A p \in t.keys[k].voidRequests : HasResult(t, p, k)

Answers(s, t) ==
    \A k \in Key : t.keys[k].voidPending = {} => \A p \in t.keys[k].voidRequests :
        \/ HasResult(t, p, k)
        \/ s.keys[k].voidPending = {} /\ p \in s.keys[k].voidRequests /\ ~HasResult(s, p, k)

(* The change from s to t is about key k alone. *)
Spares(s, t, k) ==
    \A x \in Key \ {k} : t.keys[x] = s.keys[x] /\ \A j \in s.acks : j.key = x => j \in t.acks

LEMMA SparesAnswers ==
    ASSUME NEW s, NEW t, NEW k \in Key, Spares(s, t, k), Settled(t, k)
    PROVE  Answers(s, t)
<1> SUFFICES ASSUME NEW x \in Key, t.keys[x].voidPending = {}, NEW p \in t.keys[x].voidRequests
             PROVE  \/ HasResult(t, p, x)
                    \/ s.keys[x].voidPending = {} /\ p \in s.keys[x].voidRequests /\ ~HasResult(s, p, x)
  BY DEF Answers
<1>1. CASE x = k
  BY <1>1 DEF Settled
<1>2. CASE x # k
  <2>1. t.keys[x] = s.keys[x] /\ \A j \in s.acks : j.key = x => j \in t.acks
    BY <1>2 DEF Spares
  <2>2. HasResult(s, p, x) => HasResult(t, p, x)
    BY <2>1 DEF HasResult
  <2> QED BY <2>1, <2>2
<1> QED BY <1>1, <1>2

LEMMA SameAnswers ==
    ASSUME NEW s, NEW t, t.acks = s.acks,
           \A k \in Key : /\ t.keys[k].voidPending = s.keys[k].voidPending
                          /\ t.keys[k].voidRequests = s.keys[k].voidRequests
    PROVE  Answers(s, t)
BY DEF Answers, HasResult

LEMMA LiveIsSettled ==
    ASSUME NEW t, Tidy(t), NEW k \in Key, ~t.keys[k].voiding
    PROVE  Settled(t, k)
BY DEF Tidy, Fit, Settled

LEMMA SparesTransitive ==
    ASSUME NEW s, NEW t, NEW u, NEW k, Spares(s, t, k), Spares(t, u, k)
    PROVE  Spares(s, u, k)
BY DEF Spares

LEMMA EnqueueSpares ==
    ASSUME NEW s, s = [keys |-> s.keys, acks |-> s.acks], NEW k \in Key, NEW peers, NEW status
    PROVE  /\ Spares(s, Enqueue(s, k, peers, status), k)
           /\ Enqueue(s, k, peers, status).keys = s.keys
           /\ status \in VoidStatus => \A p \in peers : HasResult(Enqueue(s, k, peers, status), p, k)
<1> DEFINE new == {[peer |-> p, key |-> k, status |-> status] : p \in peers}
           acks == {j \in s.acks : ~(j.key = k /\ j.peer \in peers)} \cup new
           t == Enqueue(s, k, peers, status)
<1>1. t.keys = s.keys /\ t.acks = acks
  BY DEF Enqueue
<1>2. \A p \in peers : [peer |-> p, key |-> k, status |-> status] \in acks
  OBVIOUS
<1>3. \A j \in s.acks : j.key # k => j \in acks
  OBVIOUS
<1> HIDE DEF t, acks
<1>4. ASSUME status \in VoidStatus, NEW p \in peers PROVE HasResult(t, p, k)
  BY <1>1, <1>2, <1>4 DEF HasResult
<1> QED BY <1>1, <1>3, <1>4 DEF Spares, t

LEMMA TidyShape == ASSUME NEW s, Tidy(s) PROVE s = [keys |-> s.keys, acks |-> s.acks]
BY DEF Tidy, EngineState

LEMMA StartVoidSpares ==
    ASSUME NEW s, Tidy(s), NEW k \in Key, NEW R
    PROVE  Spares(s, StartVoid(s, k, R), k)
BY DEF Spares, StartVoid, Tidy, EngineState

LEMMA FinishVoidSettles ==
    ASSUME NEW s, s = [keys |-> s.keys, acks |-> s.acks], NEW k \in Key
    PROVE  /\ Spares(s, FinishVoid(s, k), k) /\ Settled(FinishVoid(s, k), k)
           /\ FinishVoid(s, k).keys = s.keys
<1> DEFINE r == s.keys[k]
           status == IF r.voidFailed THEN "failed to void"
                     ELSE IF r.unknown THEN "key not present" ELSE "voided"
           t == Enqueue(s, k, r.voidRequests, status)
<1>1. status \in VoidStatus
  BY DEF VoidStatus
<1>2. FinishVoid(s, k) = IF r.voidPending # {} THEN s ELSE t
  BY DEF FinishVoid
<1> HIDE DEF status
<1>3. Spares(s, t, k) /\ t.keys = s.keys /\ \A p \in r.voidRequests : HasResult(t, p, k)
  BY <1>1, EnqueueSpares
<1> HIDE DEF t
<1>4. Settled(t, k)
  BY <1>3 DEF Settled
<1>5. r.voidPending # {} => Spares(s, s, k) /\ Settled(s, k)
  BY DEF Spares, Settled
<1> QED BY <1>2, <1>3, <1>4, <1>5

LEMMA VoidKeySettles ==
    ASSUME NEW s, Tidy(s), NEW L, NEW k \in Key, k \in L.touch, Known(s, k),
           NEW R \in SUBSET Node, \A p \in R : <<p, k>> \in L.ask
    PROVE  Spares(s, VoidKey(s, k, R), k) /\ Settled(VoidKey(s, k, R), k)
<1>1. Tidy(StartVoid(s, k, R))
  BY StartVoidMoves DEF Moves
<1> QED BY <1>1, TidyShape, StartVoidSpares, FinishVoidSettles, SparesTransitive DEF VoidKey

(* Replacing the record of a key that is not in the way of any result. *)
LEMMA LiveRecordAnswers ==
    ASSUME NEW s, Tidy(s), NEW k \in Key, NEW r, NEW t, Tidy(t), ~r.voiding,
           t = [keys |-> [s.keys EXCEPT ![k] = r], acks |-> s.acks]
    PROVE  Spares(s, t, k) /\ Settled(t, k)
<1>1. s.keys \in [Key -> Record]
  BY DEF Tidy, EngineState
<1>2. t.keys[k] = r /\ Spares(s, t, k)
  BY <1>1 DEF Spares
<1> QED BY <1>2, LiveIsSettled

LEMMA StoredAnswers ==
    ASSUME NEW s, Tidy(s), NEW k \in Key, Tidy(Stored(s, k))
    PROVE  Answers(s, Stored(s, k))
<1> DEFINE r == [Absent EXCEPT !.role = "source", !.material = TRUE]
<1>1. Stored(s, k) = [keys |-> [s.keys EXCEPT ![k] = r], acks |-> s.acks]
  BY StateShape DEF Stored, Tidy
<1>2. ~r.voiding
  BY DEF Absent
<1> HIDE DEF r
<1> QED BY <1>1, <1>2, LiveRecordAnswers, SparesAnswers

LEMMA PinnedAnswers ==
    ASSUME NEW s, Tidy(s), NEW k \in Key, NEW p, ~s.keys[k].voiding, Tidy(Pinned(s, k, p))
    PROVE  Answers(s, Pinned(s, k, p))
<1> DEFINE r == [s.keys[k] EXCEPT !.next = p, !.sent = TRUE]
<1>1. Pinned(s, k, p) = [keys |-> [s.keys EXCEPT ![k] = r], acks |-> s.acks]
  BY DEF Pinned, Tidy, EngineState
<1>2. s.keys[k] \in Record
  BY DEF Tidy, EngineState
<1>3. ~r.voiding
  BY <1>2 DEF Record, RecordFields
<1> HIDE DEF r
<1> QED BY <1>1, <1>3, LiveRecordAnswers, SparesAnswers

LEMMA TokenAnswers ==
    ASSUME NEW s, Tidy(s), NEW B, NEW t
    PROVE  Answers(s, WithToken(s, B, t))
<1> DEFINE u == WithToken(s, B, t)
<1>1. u.acks = s.acks /\ u.keys = [k \in Key |-> IF k \in B THEN [s.keys[k] EXCEPT !.token = t] ELSE s.keys[k]]
  BY DEF WithToken, Tidy, EngineState
<1>2. \A k \in Key : s.keys[k] \in Record
  BY DEF Tidy, EngineState
<1>3. \A k \in Key : /\ u.keys[k].voidPending = s.keys[k].voidPending
                     /\ u.keys[k].voidRequests = s.keys[k].voidRequests
  BY <1>1, <1>2 DEF Record, RecordFields
<1> HIDE DEF u
<1>4. u.acks = s.acks
  BY <1>1
<1>5. Answers(s, u)
  BY <1>3, <1>4 DEF Answers, HasResult
<1> QED BY <1>5 DEF u

LEMMA DeliveredAnswers ==
    ASSUME NEW s, Tidy(s), NEW B
    PROVE  Answers(s, Delivered(s, B))
<1> DEFINE u == Delivered(s, B)
           q(k) == IF k \notin B THEN s.keys[k] ELSE
                   [s.keys[k] EXCEPT !.delivered = TRUE, !.token = NoToken, !.material = FALSE]
<1>1. u.acks = s.acks /\ u.keys = [k \in Key |-> q(k)]
  BY DEF Delivered, Tidy, EngineState
<1>2. \A k \in Key : s.keys[k] \in Record
  BY DEF Tidy, EngineState
<1>3. \A k \in Key : q(k).voidPending = s.keys[k].voidPending /\ q(k).voidRequests = s.keys[k].voidRequests
  BY <1>2 DEF Record, RecordFields
<1> HIDE DEF u, q
<1>4. \A k \in Key : /\ u.keys[k].voidPending = s.keys[k].voidPending
                     /\ u.keys[k].voidRequests = s.keys[k].voidRequests
  BY <1>1, <1>3
<1> QED BY <1>1, <1>4, SameAnswers DEF u

LEMMA SweptAnswers ==
    ASSUME NEW s, Tidy(s), NEW D, D \subseteq Key
    PROVE  Answers(s, Swept(s, D))
<1> DEFINE due == {k \in D : Known(s, k) /\ ~s.keys[k].voiding}
           u == Swept(s, D)
<1>1. /\ u.keys = [k \in Key |-> IF k \in due THEN VoidBegun(s.keys[k]) ELSE s.keys[k]]
      /\ u.acks = {j \in s.acks : j.key \notin due}
  BY DEF Swept
<1> HIDE DEF u
<1> SUFFICES ASSUME NEW k \in Key, u.keys[k].voidPending = {}, NEW p \in u.keys[k].voidRequests
             PROVE  \/ HasResult(u, p, k)
                    \/ s.keys[k].voidPending = {} /\ p \in s.keys[k].voidRequests /\ ~HasResult(s, p, k)
  BY DEF Answers, u
<1>2. k \notin due
  <2> SUFFICES ASSUME k \in due PROVE FALSE
    OBVIOUS
  <2>1. s.keys[k] \in Record /\ ~s.keys[k].voiding
    BY DEF Tidy, EngineState
  <2>2. VoidBegun(s.keys[k]).voidRequests = {}
    BY <2>1 DEF VoidBegun, Record, RecordFields
  <2> QED BY <1>1, <2>2
<1>3. u.keys[k] = s.keys[k] /\ \A j \in s.acks : j.key = k => j \in u.acks
  BY <1>1, <1>2
<1> QED BY <1>3 DEF HasResult

LEMMA AcceptedAnswers ==
    ASSUME NEW s, Tidy(s), NEW L, NEW k \in Key, NEW p \in Node, NEW local \in BOOLEAN, NEW lapsed,
           k \in L.touch, Known(s, k) => s.keys[k].sender = p /\ (s.keys[k].voiding \/ <<p, k>> \in L.ask),
           ~Known(s, k) => <<p, k>> \in L.new, local => k \in L.ready
    PROVE  Answers(s, Accepted(s, p, k, local, lapsed))
<1>1. CASE Known(s, k)
  <2> DEFINE v == IF lapsed /\ ~s.keys[k].voiding THEN StartVoid(s, k, {p}) ELSE s
  <2>1. Tidy(v) /\ Spares(s, v, k)
    BY <1>1, StartVoidMoves, StartVoidSpares DEF Moves, Spares
  <2>2. AcceptedAgain(s, p, k, lapsed) =
          IF v.keys[k].voiding THEN FinishVoid(v, k)
          ELSE IF v.keys[k].ready THEN Enqueue(v, k, {p}, "relayed") ELSE v
    BY DEF AcceptedAgain
  <2> HIDE DEF v
  <2> DEFINE t == AcceptedAgain(s, p, k, lapsed)
  <2>3. CASE v.keys[k].voiding
    BY <1>1, <2>1, <2>2, <2>3, TidyShape, FinishVoidSettles, SparesTransitive, SparesAnswers DEF Accepted
  <2>4. CASE ~v.keys[k].voiding
    <3>1. Spares(v, t, k) /\ t.keys = v.keys
      BY <2>1, <2>2, <2>4, TidyShape, EnqueueSpares DEF Spares
    <3>2. Settled(t, k)
      BY <2>1, <2>4, <3>1 DEF Tidy, Fit, Settled
    <3> QED BY <1>1, <2>1, <3>1, <3>2, SparesTransitive, SparesAnswers DEF Accepted
  <2> QED BY <2>3, <2>4
<1>2. CASE ~Known(s, k)
  <2> DEFINE r == [Absent EXCEPT !.role     = IF local THEN "target" ELSE "relay",
                                 !.sender   = p,
                                 !.material = TRUE,
                                 !.ready    = local]
             t == [s EXCEPT !.keys[k] = r]
             u == AcceptedNew(s, p, k, local)
  <2>1. ~r.voiding
    BY DEF Absent
  <2>2. t = [keys |-> [s.keys EXCEPT ![k] = r], acks |-> s.acks]
    BY StateShape DEF Tidy
  <2>3. u = IF local THEN Enqueue(t, k, {p}, "relayed") ELSE t
    BY DEF AcceptedNew
  <2>4. Tidy(u)
    BY <1>2, AcceptedNewMoves DEF Moves
  <2> HIDE DEF r, u
  <2>5. t.keys[k] = r /\ Spares(s, t, k) /\ t.keys \in [Key -> {s.keys[x] : x \in Key} \cup {r}]
    BY <2>2 DEF Tidy, EngineState, Spares
  <2>6. Enqueue(t, k, {p}, "relayed").keys = t.keys /\ Spares(t, Enqueue(t, k, {p}, "relayed"), k)
    BY <2>2 DEF Enqueue, Spares
  <2>7. u.keys = t.keys /\ Spares(t, u, k)
    BY <2>3, <2>6 DEF Spares
  <2>8. Settled(u, k)
    BY <2>1, <2>4, <2>5, <2>7, LiveIsSettled
  <2> HIDE DEF t
  <2> QED BY <1>2, <2>5, <2>7, <2>8, SparesTransitive, SparesAnswers DEF Accepted, u
<1> QED BY <1>1, <1>2

LEMMA VoidedAnswers ==
    ASSUME NEW s, Tidy(s), NEW L, NEW k \in Key, NEW p \in Node, NEW local,
           k \in L.touch, <<p, k>> \in L.ask
    PROVE  Answers(s, Voided(s, p, k, local))
<1>1. CASE Known(s, k)
  BY <1>1, VoidKeySettles, SparesAnswers DEF Voided, WithTombstone
<1>2. CASE ~Known(s, k)
  <2> DEFINE u == WithTombstone(s, p, k, local)
             t == StartVoid(u, k, {p})
  <2>1. \A x \in Key \ {k} : u.keys[x] = s.keys[x]
    BY <1>2 DEF WithTombstone, Tidy, EngineState
  <2>2. u.acks = s.acks /\ ~u.keys[k].voiding /\ DOMAIN u.keys = Key
    BY <1>2 DEF WithTombstone, Tidy, EngineState, Absent
  <2> HIDE DEF u
  <2>3. t = [keys |-> t.keys, acks |-> t.acks] /\ Spares(s, t, k)
    BY <2>1, <2>2 DEF StartVoid, Spares
  <2> HIDE DEF t
  <2>4. Voided(s, p, k, local) = FinishVoid(t, k)
    BY DEF Voided, VoidKey, t, u
  <2> QED BY <2>3, <2>4, FinishVoidSettles, SparesTransitive, SparesAnswers
<1> QED BY <1>1, <1>2

(* A result received: besides, a void that is over at the peer is under    *)
(* way here, and a failure is noted unless the peer is yet to be asked.    *)
LEMMA ConfirmedSettles ==
    ASSUME NEW s, Tidy(s), NEW k \in Key, NEW p, NEW status
    PROVE  /\ Spares(s, Confirmed(s, p, k, status), k)
           /\ status \in VoidStatus => Settled(Confirmed(s, p, k, status), k)
           /\ status = "failed to void" => Confirmed(s, p, k, status).keys[k].voidFailed
<1> DEFINE r == [s.keys[k] EXCEPT !.voidPending = @ \ {p},
                                  !.voidFailed  = @ \/ status = "failed to void"]
           t == [s EXCEPT !.keys[k] = r]
<1>1. s.keys[k] \in Record /\ s.keys \in [Key -> Record]
  BY DEF Tidy, EngineState
<1>2. status = "failed to void" => r.voidFailed
  BY <1>1 DEF Record, RecordFields
<1>3. t = [keys |-> [s.keys EXCEPT ![k] = r], acks |-> s.acks]
  BY StateShape DEF Tidy
<1>4. Confirmed(s, p, k, status) = IF status \notin VoidStatus THEN s ELSE FinishVoid(t, k)
  BY DEF Confirmed
<1> HIDE DEF r, t
<1>5. t = [keys |-> t.keys, acks |-> t.acks] /\ t.keys[k] = r /\ Spares(s, t, k)
  BY <1>1, <1>3 DEF Spares
<1>6. FinishVoid(t, k).keys = t.keys
  BY <1>5, FinishVoidSettles
<1>7. Spares(s, s, k)
  BY DEF Spares
<1> QED BY <1>2, <1>4, <1>5, <1>6, <1>7, FinishVoidSettles, SparesTransitive DEF VoidStatus

LEMMA ConfirmedAnswers ==
    ASSUME NEW s, NEW v, Tidy(v), NEW k \in Key, Spares(s, v, k), v = s \/ Settled(v, k), NEW p, NEW status
    PROVE  Answers(s, Confirmed(v, p, k, status))
<1>1. CASE status \in VoidStatus
  <2>1. Spares(v, Confirmed(v, p, k, status), k) /\ Settled(Confirmed(v, p, k, status), k)
    BY <1>1, ConfirmedSettles
  <2> QED BY <2>1, SparesTransitive, SparesAnswers
<1>2. CASE status \notin VoidStatus
  <2>1. Confirmed(v, p, k, status) = v
    BY <1>2 DEF Confirmed
  <2>2. Answers(s, v)
    BY SparesAnswers, SameAnswers
  <2> QED BY <2>1, <2>2
<1> QED BY <1>1, <1>2

LEMMA MadeReadyAnswers ==
    ASSUME NEW s, Tidy(s), NEW k \in Key, ~s.keys[k].voiding, Tidy(MadeReady(s, k))
    PROVE  Answers(s, MadeReady(s, k))
<1> DEFINE r == [s.keys[k] EXCEPT !.ready    = TRUE,
                                  !.material = @ /\ s.keys[k].role # "relay"]
           u == [s EXCEPT !.keys[k] = r]
           t == MadeReady(s, k)
<1>1. s.keys[k] \in Record /\ s.keys \in [Key -> Record]
  BY DEF Tidy, EngineState
<1>2. ~r.voiding
  BY <1>1 DEF Record, RecordFields
<1>3. u = [keys |-> [s.keys EXCEPT ![k] = r], acks |-> s.acks]
  BY StateShape DEF Tidy
<1>4. t = Enqueue(u, k, Peers(r.sender), "relayed")
  BY DEF MadeReady
<1> HIDE DEF r, u, t
<1>5. u = [keys |-> u.keys, acks |-> u.acks] /\ Spares(s, u, k) /\ u.keys[k] = r
  BY <1>1, <1>3 DEF Spares
<1>6. Spares(u, t, k) /\ t.keys = u.keys
  BY <1>4, <1>5, EnqueueSpares
<1>7. Settled(t, k)
  BY <1>2, <1>5, <1>6, LiveIsSettled DEF t
<1> QED BY <1>5, <1>6, <1>7, SparesTransitive, SparesAnswers DEF t

(* The first startVoid of a record asks every neighbour. *)
LEMMA VoidKeyAsksAll ==
    ASSUME NEW s, Tidy(s), NEW k \in Key, ~s.keys[k].voiding
    PROVE  LET q == VoidKey(s, k, {}).keys[k] IN q.voiding /\ q.voidPending = Neighbours(s.keys[k])
<1> DEFINE u == StartVoid(s, k, {})
           w == Requested(VoidBegun(s.keys[k]), {})
<1>1. s.keys[k] \in Record /\ s.keys \in [Key -> Record]
  BY DEF Tidy, EngineState
<1>2. w.voiding /\ w.voidPending = Neighbours(s.keys[k])
  BY <1>1 DEF VoidBegun, Requested, Record, RecordFields, Neighbours
<1>3. u.keys[k] = w /\ u = [keys |-> u.keys, acks |-> u.acks]
  BY <1>1 DEF StartVoid
<1> HIDE DEF u, w
<1>4. VoidKey(s, k, {}) = FinishVoid(u, k)
  BY DEF VoidKey, u
<1>5. VoidKey(s, k, {}).keys = u.keys
  BY <1>3, <1>4, FinishVoidSettles
<1> QED BY <1>2, <1>3, <1>5

LEMMA StartVoidSettles ==
    ASSUME NEW s, Tidy(s), NEW k \in Key, ~s.keys[k].voiding
    PROVE  StartVoid(s, k, {}).keys[k].voiding /\ Settled(StartVoid(s, k, {}), k)
<1>1. s.keys[k] \in Record /\ s.keys \in [Key -> Record]
  BY DEF Tidy, EngineState
<1>2. Requested(VoidBegun(s.keys[k]), {}).voiding /\ Requested(VoidBegun(s.keys[k]), {}).voidRequests = {}
  BY <1>1 DEF VoidBegun, Requested, Record, RecordFields
<1> QED BY <1>1, <1>2 DEF StartVoid, Settled

(* What an acknowledgement needs of a licence, and what it leaves behind:  *)
(* a void heard starts the void here, and a failure is noted unless every  *)
(* neighbour is yet to be asked.                                           *)
Allows(L, p, k, status) ==
    /\ k \in L.touch
    /\ status = "relayed" => k \in L.ready
    /\ status \in VoidStatus => <<p, k>> \in L.heard
    /\ k \in L.failed => status = "failed to void"

Heeds(s, t, k, status) ==
    /\ status \in VoidStatus => t.keys[k].voiding
    /\ status = "failed to void" =>
          \/ t.keys[k].voidFailed
          \/ ~s.keys[k].voiding /\ t.keys[k].voidPending = Neighbours(s.keys[k])

LEMMA AcknowledgedAnswers ==
    ASSUME NEW s, Tidy(s), NEW L, NEW k \in Key, NEW p \in Node, NEW status, NEW lapsed,
           Known(s, k), Allows(L, p, k, status)
    PROVE  /\ Answers(s, Acknowledged(s, p, k, status, lapsed))
           /\ Heeds(s, Acknowledged(s, p, k, status, lapsed), k, status)
<1> DEFINE t == Acknowledged(s, p, k, status, lapsed)
<1>a. /\ k \in L.touch
      /\ status = "relayed" => k \in L.ready
      /\ status \in VoidStatus => <<p, k>> \in L.heard
      /\ k \in L.failed => status = "failed to void"
  BY DEF Allows
<1> DEFINE v == IF lapsed /\ ~s.keys[k].voiding THEN StartVoid(s, k, {}) ELSE s
<1>1. Moves(s, v, L) /\ Spares(s, v, k)
  <2>1. Spares(s, s, k) /\ Moves(s, s, L)
    BY MovesReflexive DEF Spares
  <2>2. Spares(s, StartVoid(s, k, {}), k) /\ Moves(s, StartVoid(s, k, {}), L)
    BY <1>a, StartVoidMoves, StartVoidSpares
  <2> QED BY <2>1, <2>2
<1>2. t = IF v.keys[k].voiding THEN Confirmed(v, p, k, status)
          ELSE IF status = "relayed" THEN MadeReady(v, k)
          ELSE VoidKey(v, k, {})
  BY DEF Acknowledged
<1>3. v = s \/ (v.keys[k].voiding /\ Settled(v, k))
  BY StartVoidSettles
<1>4. Tidy(v) /\ Known(v, k) /\ Moves(s, t, L) /\ Tidy(t)
  <2>1. Moves(s, Acknowledged(s, p, k, status, lapsed), L)
    BY <1>a, AcknowledgedMoves
  <2> QED BY <1>1, <2>1 DEF Moves, Evolves, Known
<1> HIDE DEF v, t
<1>5. ASSUME v.keys[k].voiding PROVE Answers(s, t) /\ Heeds(s, t, k, status)
  <2>1. t = Confirmed(v, p, k, status)
    BY <1>2, <1>5
  <2>2. Answers(s, t)
    BY <1>1, <1>3, <1>4, <1>a, <2>1, ConfirmedAnswers
  <2>3. status = "failed to void" => t.keys[k].voidFailed
    BY <1>4, <2>1, ConfirmedSettles
  <2>4. t.keys[k].voiding
    <3>1. Moves(v, t, L)
      BY <1>4, <1>5, <1>a, <2>1, ConfirmedMoves
    <3> QED BY <1>4, <1>5, <3>1 DEF Moves, Evolves, Known
  <2> QED BY <2>2, <2>3, <2>4 DEF Heeds
<1>6. ASSUME ~v.keys[k].voiding /\ status = "relayed" PROVE Answers(s, t) /\ Heeds(s, t, k, status)
  <2>1. t = MadeReady(s, k) /\ ~s.keys[k].voiding
    BY <1>2, <1>3, <1>6
  <2>2. Answers(s, t)
    BY <1>4, <2>1, MadeReadyAnswers
  <2> QED BY <1>6, <2>2 DEF Heeds, VoidStatus
<1>7. ASSUME ~v.keys[k].voiding /\ status # "relayed" PROVE Answers(s, t) /\ Heeds(s, t, k, status)
  <2>1. t = VoidKey(s, k, {}) /\ ~s.keys[k].voiding
    BY <1>2, <1>3, <1>7
  <2>2. Answers(s, t)
    <3>1. Spares(s, VoidKey(s, k, {}), k) /\ Settled(VoidKey(s, k, {}), k)
      BY <1>a, VoidKeySettles
    <3> QED BY <2>1, <3>1, SparesAnswers
  <2>3. t.keys[k].voiding /\ t.keys[k].voidPending = Neighbours(s.keys[k])
    BY <2>1, VoidKeyAsksAll
  <2> QED BY <2>1, <2>2, <2>3 DEF Heeds
<1>8. Answers(s, t) /\ Heeds(s, t, k, status)
  BY <1>5, <1>6, <1>7
<1> QED BY <1>8 DEF t
=============================================================================
