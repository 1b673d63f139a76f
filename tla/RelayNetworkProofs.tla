------------------------- MODULE RelayNetworkProofs -------------------------
(***************************************************************************)
(* Theorems about RelayNetwork, for every network, set of keys, capacity   *)
(* and number of faults: types, records that only move forwards, and at    *)
(* most one delivery of each copy.                                         *)
(***************************************************************************)
EXTENDS RelayNetwork, RelayEngineProofs

(* Every record continues the one it replaces. *)
StepContinues == \A n \in Node, k \in Key : Continues(Rec(n, k), Rec(n, k)')

(* A copy that was handed out is marked so in the journal, which is what   *)
(* keeps it from being handed out again: the strengthening that makes      *)
(* DeliveredOnce inductive.                                                *)
GivenIsRecorded ==
    \A n \in Node, k \in Key :
        /\ given[n][k] \in 0..1
        /\ given[n][k] = 1 => Known(st[n], k) /\ Rec(n, k).delivered

IInv == TypeOK /\ GivenIsRecorded

-----------------------------------------------------------------------------
LEMMA InitTypeOK == Init => TypeOK
<1> SUFFICES ASSUME Init PROVE TypeOK
  OBVIOUS
<1>1. EmptyEngine \in EngineState
  BY DEF EmptyEngine, Absent, EngineState, Record, RecordFields, Role, Job
<1> QED BY <1>1, BoundAssumption DEF Init, TypeOK

(* A journalled change that moves the engine onward keeps the types of     *)
(* what Change writes, and moves every record of the network onward.       *)
LEMMA ChangeContinues ==
    ASSUME TypeOK, NEW n \in Node, NEW s, NEW saved \in BOOLEAN,
           Change(n, s, saved), Onward(st[n], s)
    PROVE  /\ st' \in [Node -> EngineState]
           /\ mode' \in [Node -> {"up", "failed"}]
           /\ StepContinues
<1>1. s \in EngineState
  BY DEF Onward
<1>2. st' \in [Node -> EngineState] /\ st' = [st EXCEPT ![n] = s]
  BY <1>1 DEF Change, TypeOK
<1>3. mode' \in [Node -> {"up", "failed"}]
  BY DEF Change, TypeOK
<1>4. ASSUME NEW m \in Node, NEW k \in Key
      PROVE  Continues(Rec(m, k), Rec(m, k)')
  <2>1. CASE m = n
    BY <1>2, <2>1 DEF Onward, Rec, TypeOK
  <2>2. CASE m # n
    BY <1>2, <2>2 DEF Rec, TypeOK, Continues
  <2> QED BY <2>1, <2>2
<1> QED BY <1>2, <1>3, <1>4 DEF StepContinues

LEMMA CostsType ==
    ASSUME TypeOK, NEW fault, Costs(fault)
    PROVE  faults' \in 0..MaxFaults
BY BoundAssumption DEF Costs, Fault, TypeOK

LEMMA UnchangedContinues == ASSUME st' = st PROVE StepContinues
BY DEF StepContinues, Rec, Continues

LEMMA MessageTypes ==
    ASSUME NEW p \in Node, NEW n \in Node, NEW k \in Key
    PROVE  Transfer(p, n, k) \in Message /\ Void(p, n, k) \in Message
BY DEF Transfer, Void, Message

LEMMA AckType == ASSUME NEW p \in Node, NEW j \in Job PROVE Ack(p, j) \in Message
BY DEF Ack, Message, Job

LEMMA GiveToType ==
    ASSUME TypeOK, NEW n \in Node, NEW B \in SUBSET Key, NEW saved \in BOOLEAN,
           GiveTo(n, B, saved)
    PROVE  given' \in [Node -> [Key -> 0..2]]
<1>1. CASE ~saved
  BY <1>1 DEF GiveTo, TypeOK
<1>2. CASE saved
  <2> DEFINE g == [k \in Key |-> IF k \in B /\ given[n][k] < 2 THEN given[n][k] + 1
                                 ELSE given[n][k]]
  <2>1. g \in [Key -> 0..2]
    BY DEF TypeOK
  <2>2. given' = [given EXCEPT ![n] = g]
    BY <1>2 DEF GiveTo
  <2> HIDE DEF g
  <2> QED BY <2>1, <2>2 DEF TypeOK
<1> QED BY <1>1, <1>2

(* One lemma for the actions that write the journal: each passes to Change *)
(* a state that is onward of the current one.                              *)
LEMMA SavingSteps ==
    ASSUME TypeOK, NEW n \in Node, NEW saved \in BOOLEAN, Saving(n, saved)
    PROVE  TypeOK' /\ StepContinues
<1> USE DEF worker, history
<1>0. st[n] \in EngineState
  BY DEF TypeOK
<1>1. ASSUME NEW k \in Key, StoreKey(n, k, saved)
      PROVE  TypeOK' /\ StepContinues
  <2>1. Onward(st[n], Stored(st[n], k))
    BY <1>0, <1>1, StoredOnward DEF StoreKey
  <2>2. Change(n, Stored(st[n], k), saved)
    BY <1>1 DEF StoreKey
  <2> QED BY <1>1, <2>1, <2>2, ChangeContinues, CostsType DEF StoreKey, TypeOK
<1>2. ASSUME NEW B \in SUBSET Key, NEW t \in Token, ReserveKeys(n, B, t, saved)
      PROVE  TypeOK' /\ StepContinues
  <2>1. Onward(st[n], WithToken(st[n], B, t))
    BY <1>0, WithTokenOnward
  <2>2. Change(n, WithToken(st[n], B, t), saved)
    BY <1>2 DEF ReserveKeys
  <2>3. resv' \in [Token -> [ids : SUBSET Key, got : SUBSET Key]]
    BY <1>2 DEF ReserveKeys, TypeOK
  <2>4. Costs(~saved) /\ UNCHANGED <<worker, net, lapsed, given>>
    BY <1>2 DEF ReserveKeys
  <2> QED BY <2>1, <2>2, <2>3, <2>4, ChangeContinues, CostsType DEF TypeOK
<1>3. ASSUME NEW t \in Token, ConsumeReservation(n, t, saved)
      PROVE  TypeOK' /\ StepContinues
  <2> DEFINE B == Holding(st[n], t)
  <2>0. B \in SUBSET Key
    BY DEF Holding
  <2>1. Change(n, Delivered(st[n], B), saved) /\ GiveTo(n, B, saved)
    BY <1>3 DEF ConsumeReservation
  <2>2. resv' \in [Token -> [ids : SUBSET Key, got : SUBSET Key]]
    BY <1>3, <2>0 DEF ConsumeReservation, TypeOK
  <2>3. Costs(~saved) /\ UNCHANGED <<worker, net, lapsed>>
    BY <1>3 DEF ConsumeReservation
  <2> HIDE DEF B
  <2>4. Onward(st[n], Delivered(st[n], B))
    BY <1>0, <2>0, DeliveredOnward
  <2>5. given' \in [Node -> [Key -> 0..2]]
    BY <2>0, <2>1, GiveToType
  <2> QED BY <2>1, <2>2, <2>3, <2>4, <2>5, ChangeContinues, CostsType DEF TypeOK
<1>4. ASSUME NEW B \in SUBSET Key, ConsumePeerKeys(n, B, saved)
      PROVE  TypeOK' /\ StepContinues
  <2>1. Change(n, Delivered(st[n], B), saved) /\ GiveTo(n, B, saved)
    BY <1>4 DEF ConsumePeerKeys
  <2>2. Costs(~saved) /\ UNCHANGED <<worker, net, lapsed, resv>>
    BY <1>4 DEF ConsumePeerKeys
  <2>3. Onward(st[n], Delivered(st[n], B))
    BY <1>0, DeliveredOnward
  <2>4. given' \in [Node -> [Key -> 0..2]]
    BY <2>1, GiveToType
  <2> QED BY <2>1, <2>2, <2>3, <2>4, ChangeContinues, CostsType DEF TypeOK
<1>5. ASSUME NEW k \in Key, InvalidateKey(n, k, saved)
      PROVE  TypeOK' /\ StepContinues
  <2>1. Onward(st[n], VoidKey(st[n], k, {}))
    BY <1>0, VoidKeyOnward
  <2>2. Change(n, VoidKey(st[n], k, {}), saved)
    BY <1>5 DEF InvalidateKey
  <2> QED BY <1>5, <2>1, <2>2, ChangeContinues, CostsType DEF InvalidateKey, TypeOK
<1>6. ASSUME Sweep(n, saved)
      PROVE  TypeOK' /\ StepContinues
  <2>1. Onward(st[n], Swept(st[n], lapsed[n]))
    BY <1>0, SweptOnward DEF TypeOK
  <2>2. Change(n, Swept(st[n], lapsed[n]), saved)
    BY <1>6 DEF Sweep
  <2> QED BY <1>6, <2>1, <2>2, ChangeContinues, CostsType DEF Sweep, TypeOK
<1>7. ASSUME AckReturn(n, saved)
      PROVE  TypeOK' /\ StepContinues
  <2> DEFINE s == [st[n] EXCEPT !.acks = @ \ call[n]]
  <2>1. Onward(st[n], s)
    <3>1. st[n].acks \ call[n] \in SUBSET Job
      BY <1>0 DEF EngineState
    <3> QED BY <1>0, <3>1, OnwardAcks
  <2>2. Change(n, s, saved)
    BY <1>7 DEF AckReturn
  <2>3. /\ call' = [call EXCEPT ![n] = {}]
        /\ answered' = answered \ {n}
        /\ Costs(~saved) /\ UNCHANGED <<jobs, net, lapsed, history>>
    BY <1>7 DEF AckReturn
  <2> HIDE DEF s
  <2> QED BY <2>1, <2>2, <2>3, ChangeContinues, CostsType DEF TypeOK
<1>8. ASSUME NEW k \in Key, NEW p \in Node, Transmit(n, k, p, saved)
      PROVE  TypeOK' /\ StepContinues
  <2>1. Onward(st[n], Pinned(st[n], k, p))
    BY <1>0, <1>8, PinnedOnward DEF Transmit
  <2>2. Change(n, Pinned(st[n], k, p), saved)
    BY <1>8 DEF Transmit
  <2>3. net' \in SUBSET Message
    BY <1>8, MessageTypes DEF Transmit, TypeOK
  <2> QED BY <1>8, <2>1, <2>2, <2>3, ChangeContinues, CostsType DEF Transmit, TypeOK
<1>9. ASSUME NEW k \in Key, NEW p \in Node, HandleTransfer(n, p, k, saved)
      PROVE  TypeOK' /\ StepContinues
  <2>1. Onward(st[n], Accepted(st[n], p, k, n = Target, Lapsed(n, k)))
    BY <1>0, AcceptedOnward
  <2>2. Change(n, Accepted(st[n], p, k, n = Target, Lapsed(n, k)), saved)
    BY <1>9 DEF HandleTransfer
  <2>3. net' \subseteq net /\ \E fault \in BOOLEAN : Costs(fault)
    BY <1>9 DEF HandleTransfer, Arrives
  <2> QED BY <1>9, <2>1, <2>2, <2>3, ChangeContinues, CostsType DEF HandleTransfer, TypeOK
<1>10. ASSUME NEW k \in Key, NEW p \in Node, HandleVoid(n, p, k, saved)
       PROVE  TypeOK' /\ StepContinues
  <2>1. Onward(st[n], Voided(st[n], p, k, n = Target))
    BY <1>0, VoidedOnward
  <2>2. Change(n, Voided(st[n], p, k, n = Target), saved)
    BY <1>10 DEF HandleVoid
  <2>3. net' \subseteq net /\ \E fault \in BOOLEAN : Costs(fault)
    BY <1>10 DEF HandleVoid, Arrives
  <2> QED BY <1>10, <2>1, <2>2, <2>3, ChangeContinues, CostsType DEF HandleVoid, TypeOK
<1>11. ASSUME NEW j \in Job, NEW p \in Node, HandleAck(n, p, j, saved)
       PROVE  TypeOK' /\ StepContinues
  <2>1. Onward(st[n], Acknowledged(st[n], p, j.key, j.status, Lapsed(n, j.key)))
    BY <1>0, AcknowledgedOnward DEF Job
  <2>2. Change(n, Acknowledged(st[n], p, j.key, j.status, Lapsed(n, j.key)), saved)
    BY <1>11 DEF HandleAck
  <2>3. net' \subseteq net /\ answered' \subseteq answered \cup {p} /\ \E fault \in BOOLEAN : Costs(fault)
    BY <1>11 DEF HandleAck, Arrives
  <2> QED BY <1>11, <2>1, <2>2, <2>3, ChangeContinues, CostsType DEF HandleAck, TypeOK
<1> QED BY <1>1, <1>2, <1>3, <1>4, <1>5, <1>6, <1>7, <1>8, <1>9, <1>10, <1>11 DEF Saving

(* The other steps leave every journal alone. *)
LEMMA VolatileSteps ==
    ASSUME TypeOK, NEW n \in Node, Volatile(n)
    PROVE  TypeOK' /\ st' = st /\ given' = given
<1> USE DEF worker, history
<1>1. ASSUME NEW k \in Key, Lapse(n, k)
      PROVE  TypeOK' /\ st' = st /\ given' = given
  BY <1>1 DEF Lapse, TypeOK
<1>2. ASSUME TakeJobs(n)
      PROVE  TypeOK' /\ st' = st /\ given' = given
  BY <1>2 DEF TakeJobs, TypeOK, EngineState
<1>3. ASSUME NEW j \in jobs[n], SendAck(n, j)
      PROVE  TypeOK' /\ st' = st /\ given' = given
  <2>1. j \in Job /\ Ack(n, j) \in Message
    BY AckType DEF TypeOK
  <2> QED BY <1>3, <2>1 DEF SendAck, TypeOK
<1>4. ASSUME AckFails(n)
      PROVE  TypeOK' /\ st' = st /\ given' = given
  BY <1>4 DEF AckFails, EndCall, TypeOK
<1>5. ASSUME AckTimesOut(n)
      PROVE  TypeOK' /\ st' = st /\ given' = given
  BY <1>5, BoundAssumption DEF AckTimesOut, EndCall, Fault, TypeOK
<1>6. ASSUME NEW k \in Key, SendVoids(n, k)
      PROVE  TypeOK' /\ st' = st /\ given' = given
  <2>1. st[n].keys[k].voidPending \in SUBSET Node
    BY DEF TypeOK, EngineState, Record, RecordFields
  <2>2. {Void(n, p, k) : p \in st[n].keys[k].voidPending} \in SUBSET Message
    BY <2>1, MessageTypes
  <2> QED BY <1>6, <2>2 DEF SendVoids, TypeOK
<1>7. ASSUME Crash(n)
      PROVE  TypeOK' /\ st' = st /\ given' = given
  BY <1>7, BoundAssumption DEF Crash, Fault, TypeOK
<1>8. ASSUME Restart(n)
      PROVE  TypeOK' /\ st' = st /\ given' = given
  BY <1>8 DEF Restart, TypeOK
<1> QED BY <1>1, <1>2, <1>3, <1>4, <1>5, <1>6, <1>7, <1>8 DEF Volatile

LEMMA NetworkSteps ==
    ASSUME TypeOK, Network
    PROVE  TypeOK' /\ st' = st /\ given' = given
<1>1. PICK m \in net : Refuse(m) \/ Lose(m)
  BY DEF Network
<1> QED BY <1>1, BoundAssumption DEF Refuse, Lose, Fault, TypeOK, worker, history

LEMMA NextContinues ==
    ASSUME TypeOK, [Next]_vars
    PROVE  TypeOK' /\ StepContinues
<1>1. CASE UNCHANGED vars
  BY <1>1, UnchangedContinues DEF vars, TypeOK
<1>2. CASE \E n \in Node, saved \in BOOLEAN : Saving(n, saved)
  BY <1>2, SavingSteps
<1>3. CASE \E n \in Node : Volatile(n)
  BY <1>3, VolatileSteps, UnchangedContinues
<1>4. CASE Network
  BY <1>4, NetworkSteps, UnchangedContinues
<1> QED BY <1>1, <1>2, <1>3, <1>4 DEF Next

-----------------------------------------------------------------------------
(* Type correctness of the whole network, in every configuration.          *)
THEOREM TypeCorrect == Spec => []TypeOK
<1>1. Init => TypeOK
  BY InitTypeOK
<1>2. TypeOK /\ [Next]_vars => TypeOK'
  BY NextContinues
<1> QED BY <1>1, <1>2, PTL DEF Spec

(* No step, message, crash or restart revives a record (NET-005): voids,   *)
(* consumption, erased bytes and the pinned path are final on every node.  *)
THEOREM RecordsNeverRevive == Spec => NoRevival
<1>1. TypeOK /\ [Next]_vars =>
        [\A n \in Node, k \in Key :
            LET r == Rec(n, k) IN Known(st[n], k) =>
                /\ Known(st'[n], k)
                /\ r.voiding => Rec(n, k)'.voiding
                /\ r.delivered => Rec(n, k)'.delivered
                /\ ~r.material => ~Rec(n, k)'.material
                /\ r.sent => Rec(n, k)'.sent /\ Rec(n, k)'.next = r.next]_vars
  BY NextContinues DEF StepContinues, Continues, Known, Rec
<1> QED BY <1>1, TypeCorrect, PTL DEF Spec, NoRevival

(* Handing out the keys B of node n for the first time keeps the record    *)
(* that they were handed out.                                              *)
LEMMA GivingIsRecorded ==
    ASSUME IInv, NEW n \in Node, NEW B \in SUBSET Key, NEW saved \in BOOLEAN,
           \A k \in B : Usable(st[n], k, Lapsed(n, k)) /\ Known(st[n], k),
           Change(n, Delivered(st[n], B), saved), GiveTo(n, B, saved)
    PROVE  GivenIsRecorded'
<1>1. st[n] \in EngineState /\ Onward(st[n], Delivered(st[n], B))
  BY DeliveredOnward DEF IInv, TypeOK
<1>2. StepContinues
  BY <1>1, ChangeContinues DEF IInv
<1>3. \A k \in B : Rec(n, k)'.delivered
  BY <1>1, DeliveredOnward DEF Change, Rec, IInv, TypeOK
<1>4. ASSUME NEW m \in Node, NEW k \in Key
      PROVE  /\ given'[m][k] \in 0..1
             /\ given'[m][k] = 1 => Known(st'[m], k) /\ Rec(m, k)'.delivered
  <2>1. /\ given[m][k] \in 0..1
        /\ given[m][k] = 1 => Known(st[m], k) /\ Rec(m, k).delivered
    BY DEF IInv, GivenIsRecorded
  <2>2. Continues(Rec(m, k), Rec(m, k)')
    BY <1>2 DEF StepContinues
  <2>3. CASE saved /\ m = n /\ k \in B
    <3>1. ~Rec(n, k).delivered
      BY <2>3 DEF Usable, Rec
    <3>2. given[n][k] = 0
      BY <2>1, <2>3, <3>1
    <3>3. given'[n][k] = 1
      BY <2>3, <3>2 DEF GiveTo, IInv, TypeOK
    <3>4. Known(st'[n], k)
      BY <2>2, <2>3 DEF Continues, Known, Rec
    <3> QED BY <1>3, <2>3, <3>3, <3>4
  <2>4. CASE ~(saved /\ m = n /\ k \in B)
    <3>1. given'[m][k] = given[m][k]
      BY <2>4 DEF GiveTo, IInv, TypeOK
    <3> QED BY <2>1, <2>2, <3>1 DEF Continues, Known, Rec
  <2> QED BY <2>3, <2>4
<1> QED BY <1>4 DEF GivenIsRecorded

LEMMA InvariantIsInductive ==
    ASSUME IInv, [Next]_vars
    PROVE  IInv'
<1>1. TypeOK' /\ StepContinues
  BY NextContinues DEF IInv
<1>2. CASE UNCHANGED given
  BY <1>1, <1>2 DEF IInv, GivenIsRecorded, StepContinues, Continues, Known, Rec
<1>3. ASSUME NEW n \in Node, NEW t \in Token, NEW saved \in BOOLEAN,
             ConsumeReservation(n, t, saved)
      PROVE  IInv'
  <2> DEFINE B == Holding(st[n], t)
  <2>1. /\ B \in SUBSET Key
        /\ \A k \in B : Usable(st[n], k, Lapsed(n, k)) /\ Known(st[n], k)
        /\ Change(n, Delivered(st[n], B), saved)
        /\ GiveTo(n, B, saved)
    BY <1>3 DEF ConsumeReservation, Holding, Known
  <2> HIDE DEF B
  <2> QED BY <1>1, <2>1, GivingIsRecorded DEF IInv
<1>4. ASSUME NEW n \in Node, NEW B \in SUBSET Key, NEW saved \in BOOLEAN,
             ConsumePeerKeys(n, B, saved)
      PROVE  IInv'
  <2>1. /\ \A k \in B : Usable(st[n], k, Lapsed(n, k)) /\ Known(st[n], k)
        /\ Change(n, Delivered(st[n], B), saved)
        /\ GiveTo(n, B, saved)
    BY <1>4 DEF ConsumePeerKeys, Known
  <2> QED BY <1>1, <2>1, GivingIsRecorded DEF IInv
<1>5. ASSUME NEW n \in Node, NEW saved \in BOOLEAN, Saving(n, saved)
      PROVE  IInv'
  <2>1. \/ \E t \in Token : ConsumeReservation(n, t, saved)
        \/ \E B \in SUBSET Key : ConsumePeerKeys(n, B, saved)
        \/ UNCHANGED given
    BY <1>5 DEF Saving, StoreKey, ReserveKeys, InvalidateKey, Sweep, AckReturn, Transmit,
                HandleTransfer, HandleVoid, HandleAck, history
  <2> QED BY <1>2, <1>3, <1>4, <2>1
<1>6. CASE (\E n \in Node : Volatile(n)) \/ Network
  BY <1>2, <1>6, VolatileSteps, NetworkSteps DEF IInv
<1>7. CASE UNCHANGED vars
  BY <1>2, <1>7 DEF vars
<1> QED BY <1>5, <1>6, <1>7 DEF Next

(* No SAE ever receives the same key twice, with any number of keys,       *)
(* relays, losses, failed writes, crashes and restarts (NET-002).          *)
THEOREM NeverDeliveredTwice == Spec => []DeliveredOnce
<1>1. Init => IInv
  BY InitTypeOK DEF Init, IInv, GivenIsRecorded
<1>2. IInv /\ [Next]_vars => IInv'
  BY InvariantIsInductive
<1>3. IInv => DeliveredOnce
  BY DEF IInv, GivenIsRecorded, DeliveredOnce
<1> QED BY <1>1, <1>2, <1>3, PTL DEF Spec
=============================================================================
