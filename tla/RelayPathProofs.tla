-------------------------- MODULE RelayPathProofs --------------------------
(***************************************************************************)
(* Theorems about RelayNetwork that relate the records of neighbours: what *)
(* a record says of the next hop, and what a request on its way or an      *)
(* unsent result says of its sender, for every network and any faults.     *)
(***************************************************************************)
EXTENDS RelayNetworkProofs

(* What neighbours know of each other.  Every fact below stays true once   *)
(* it is, however late the message that rests on it arrives.               *)

(* Node q takes the results of a void of k from n. *)
Authorises(q, n, k) ==
    LET r == Rec(q, k) IN (r.sent /\ r.next = n) \/ (r.voiding /\ r.sender = n)

(* Node p received k from n and has published it, or did so before its end. *)
Confirms(p, n, k) ==
    LET r == Rec(p, k) IN r.sender = n /\ ~r.unknown /\ (r.ready \/ r.voiding)

Honest(n, j) ==
    IF j.status = "relayed" THEN Confirms(n, j.peer, j.key) /\ Known(st[Target], j.key)
    ELSE Owes(Rec(n, j.key), j.peer, j.status) /\ Authorises(j.peer, n, j.key)

Backed(m) ==
    LET r == Rec(m.from, m.key) IN
    /\ m.kind = "transfer" => r.sent /\ r.next = m.to
    /\ m.kind = "void" => r.voiding /\ m.to \in Neighbours(r)
    /\ m.kind = "ack" => Honest(m.from, [peer |-> m.to, key |-> m.key, status |-> m.status])

(* The records of the network fit together: the source has every key; a    *)
(* sender pinned the path to its receiver; whoever published has it from   *)
(* the next hop, and in the end from the target; results are owed to those *)
(* who take them.                                                          *)
Linked ==
    /\ \A n \in Node : Tidy(st[n])
    /\ \A n \in Node, k \in Key : Known(st[n], k) => Known(st[Source], k)
    /\ \A n, p \in Node, k \in Key : Rec(p, k).sender = n => Rec(n, k).sent /\ Rec(n, k).next = p
    /\ \A n \in Node, k \in Key : Rec(n, k).ready =>
          /\ Known(st[Target], k)
          /\ n # Target => Rec(n, k).sent /\ Confirms(Rec(n, k).next, n, k)
    /\ \A n, q \in Node, k \in Key : q \in Rec(n, k).voidRequests => Authorises(q, n, k)

PathInv ==
    /\ TypeOK
    /\ Linked
    /\ \A n \in Node : \A j \in jobs[n] \cup call[n] : Honest(n, j)
    /\ \A m \in net : Backed(m)

RecordsEvolve == \A n \in Node, k \in Key : Evolves(Rec(n, k), Rec(n, k)')

LEMMA PartTypes ==
    ASSUME TypeOK
    PROVE  /\ \A n \in Node, k \in Key : Rec(n, k) \in Record
           /\ \A n \in Node : st[n] \in EngineState
           /\ \A n \in Node : \A j \in jobs[n] \cup call[n] \cup st[n].acks :
                 j \in Job /\ j.key \in Key /\ j.peer \in Node
           /\ \A m \in net : m.from \in Node /\ m.to \in Node /\ m.key \in Key
                              /\ (m.kind = "ack" => m.status \in Status \cup {"none"})
BY DEF TypeOK, EngineState, Rec, Job, Message

(* Facts about one record, with the cases of a missing record left out.    *)
LEMMA RecordFacts ==
    ASSUME Linked, NEW n \in Node, NEW k \in Key
    PROVE  /\ Fit(Rec(n, k))
           /\ Rec(n, k).sent \/ Rec(n, k).voiding \/ Rec(n, k).ready \/ Rec(n, k).sender \in Node
                 => Rec(n, k).role # "none"
<1>1. Fit(Rec(n, k))
  BY DEF Linked, Tidy, Rec
<1> QED BY <1>1, NameAssumption DEF Fit

LEMMA AuthorisesStays ==
    ASSUME Linked, RecordsEvolve, NEW q \in Node, NEW n \in Node, NEW k \in Key, Authorises(q, n, k)
    PROVE  Authorises(q, n, k)'
BY RecordFacts DEF RecordsEvolve, Evolves, Authorises

LEMMA ConfirmsStays ==
    ASSUME Linked, RecordsEvolve, NEW p \in Node, NEW n \in Node, NEW k \in Key, Confirms(p, n, k)
    PROVE  Confirms(p, n, k)'
BY RecordFacts DEF RecordsEvolve, Evolves, Confirms

LEMMA KnownStays ==
    ASSUME RecordsEvolve, NEW n \in Node, NEW k \in Key, Known(st[n], k)
    PROVE  Known(st[n], k)'
BY DEF RecordsEvolve, Evolves, Known, Rec

LEMMA HonestStays ==
    ASSUME Linked, RecordsEvolve, NEW n \in Node, NEW j, j.key \in Key, j.peer \in Node, Honest(n, j)
    PROVE  Honest(n, j)'
<1>1. CASE j.status = "relayed"
  BY <1>1, ConfirmsStays, KnownStays, EndpointAssumption DEF Honest
<1>2. CASE j.status # "relayed"
  BY <1>2, AuthorisesStays, RecordFacts DEF Honest, Owes, RecordsEvolve, Evolves
<1> QED BY <1>1, <1>2

LEMMA BackedStays ==
    ASSUME Linked, RecordsEvolve, NEW m, m.from \in Node, m.to \in Node, m.key \in Key, Backed(m)
    PROVE  Backed(m)'
<1> DEFINE r == Rec(m.from, m.key)
           j == [peer |-> m.to, key |-> m.key, status |-> m.status]
<1>1. Evolves(r, r') /\ (r.sent \/ r.voiding => r.role # "none")
  BY RecordFacts DEF RecordsEvolve
<1>2. m.kind = "transfer" => r'.sent /\ r'.next = m.to
  BY <1>1 DEF Evolves, Backed
<1>3. m.kind = "void" => r'.voiding /\ m.to \in Neighbours(r')
  BY <1>1 DEF Evolves, Backed, Neighbours
<1>4. m.kind = "ack" => Honest(m.from, j)'
  BY HonestStays DEF Backed
<1> QED BY <1>2, <1>3, <1>4 DEF Backed

(* What the state of the network licenses node n to do. *)
Licensed(n, L) ==
    /\ \A k \in Key, p \in Node \cup {NoNode} : <<p, k>> \in L.new =>
          /\ n = Source \/ Known(st[Source], k)
          /\ p \in Node => Rec(p, k).sent /\ Rec(p, k).next = n
    /\ \A k \in L.ready : n # Target =>
          /\ Known(st[Target], k)
          /\ Rec(n, k).sent /\ Rec(n, k).next \in Node /\ Confirms(Rec(n, k).next, n, k)
    /\ \A k \in Key, p \in Node : <<p, k>> \in L.ask =>
          /\ Authorises(p, n, k)
          /\ Void(p, n, k) \in net \/ (~Rec(n, k).voiding /\ p = Rec(n, k).sender)
    /\ \A k \in Key, p \in Node : <<p, k>> \in L.heard =>
          Rec(p, k).voiding /\ (Rec(p, k).delivered => k \in L.failed)

LEMMA RecordsStep ==
    ASSUME TypeOK, Linked, NEW n \in Node, NEW t, NEW saved, NEW L,
           Change(n, t, saved), Moves(st[n], t, L), Licensed(n, L)
    PROVE  RecordsEvolve /\ Linked'
<1>1. /\ st'[n] = t
      /\ \A m \in Node \ {n} : st'[m] = st[m]
  BY DEF Change, TypeOK
<1>2. ASSUME NEW k \in Key PROVE Evolves(Rec(n, k), Rec(n, k)') /\ Covered(Rec(n, k), Rec(n, k)', k, L)
  BY <1>1 DEF Moves, Rec
<1>3. ASSUME NEW m \in Node \ {n}, NEW k \in Key PROVE Rec(m, k)' = Rec(m, k)
  BY <1>1 DEF Rec
<1>4. RecordsEvolve
  BY <1>2, <1>3 DEF RecordsEvolve, Evolves
<1>5. \A m \in Node : Tidy(st'[m])
  BY <1>1 DEF Moves, Linked
<1>6. \A m \in Node, k \in Key : Fit(Rec(m, k)') /\ Rec(m, k)' \in Record
  BY <1>5 DEF Tidy, EngineState, Rec
<1>7. \A m \in Node, k \in Key : Fit(Rec(m, k)) /\ Rec(m, k) \in Record
  BY DEF Linked, Tidy, EngineState, Rec
<1>8. ASSUME NEW m \in Node, NEW k \in Key, Known(st[m], k)'
      PROVE  Known(st[Source], k)'
  <2>1. CASE Known(st[m], k)
    BY <1>4, <2>1, KnownStays, EndpointAssumption DEF Linked
  <2>2. CASE ~Known(st[m], k)
    <3>1. m = n /\ <<Rec(n, k)'.sender, k>> \in L.new
      BY <1>2, <1>3, <1>8, <2>2 DEF Covered, Known, Rec
    <3>2. Rec(n, k)'.sender \in Node \cup {NoNode}
      BY <1>6 DEF Record, RecordFields
    <3>3. n = Source \/ Known(st[Source], k)
      BY <3>1, <3>2 DEF Licensed
    <3> QED BY <1>4, <1>8, <3>1, <3>3, KnownStays, EndpointAssumption
  <2> QED BY <2>1, <2>2
<1>9. ASSUME NEW m \in Node, NEW p \in Node, NEW k \in Key, Rec(p, k)'.sender = m
      PROVE  Rec(m, k)'.sent /\ Rec(m, k)'.next = p
  <2>1. Rec(m, k).sent /\ Rec(m, k).next = p
    <3>1. CASE Rec(p, k).sender = m
      BY <3>1 DEF Linked
    <3>2. CASE Rec(p, k).sender # m
      <4>1. p = n
        BY <1>3, <1>9, <3>2
      <4>2. Rec(n, k).role = "none" /\ Rec(n, k)'.role # "none"
        BY <1>2, <1>6, <1>9, <3>2, <4>1, NameAssumption DEF Evolves, Fit
      <4> QED BY <1>2, <1>9, <4>1, <4>2 DEF Covered, Licensed
    <3> QED BY <3>1, <3>2
  <2> QED BY <1>4, <2>1, RecordFacts DEF RecordsEvolve, Evolves
<1>10. ASSUME NEW m \in Node, NEW k \in Key, Rec(m, k)'.ready
       PROVE  /\ Known(st[Target], k)'
              /\ m # Target => Rec(m, k)'.sent /\ Confirms(Rec(m, k).next, m, k)'
  <2>1. CASE m = Target
    BY <1>6, <1>10, <2>1 DEF Fit, Known, Rec
  <2>2. CASE m # Target
    <3>1. Known(st[Target], k) /\ Rec(m, k).sent /\ Rec(m, k).next \in Node /\ Confirms(Rec(m, k).next, m, k)
      <4>1. CASE Rec(m, k).ready
        BY <1>7, <2>2, <4>1 DEF Linked, Record, RecordFields
      <4>2. CASE ~Rec(m, k).ready
        <5>1. m = n /\ k \in L.ready
          BY <1>2, <1>3, <1>10, <4>2 DEF Covered
        <5> QED BY <2>2, <5>1 DEF Licensed
      <4> QED BY <4>1, <4>2
    <3>2. Rec(m, k)'.sent /\ Rec(m, k)'.next = Rec(m, k).next
      BY <1>4, <3>1, RecordFacts DEF RecordsEvolve, Evolves
    <3>3. PICK p \in Node : p = Rec(m, k).next
      BY <3>1
    <3>4. Confirms(p, m, k)'
      BY <1>4, <3>1, <3>3, ConfirmsStays
    <3>5. Rec(m, k)'.next = p
      BY <3>2, <3>3
    <3> QED BY <1>4, <3>1, <3>2, <3>4, <3>5, KnownStays, EndpointAssumption
  <2> QED BY <2>1, <2>2
<1>11. ASSUME NEW m \in Node, NEW q \in Node, NEW k \in Key, q \in Rec(m, k)'.voidRequests
       PROVE  Authorises(q, m, k)'
  <2>1. Authorises(q, m, k)
    <3>1. CASE q \in Rec(m, k).voidRequests
      BY <3>1 DEF Linked
    <3>2. CASE q \notin Rec(m, k).voidRequests
      <4>1. m = n /\ <<q, k>> \in L.ask
        BY <1>2, <1>3, <1>11, <3>2 DEF Covered
      <4> QED BY <4>1 DEF Licensed
    <3> QED BY <3>1, <3>2
  <2> QED BY <1>4, <2>1, AuthorisesStays
<1>12. (\A m \in Node : Tidy(st[m]))' /\ (\A m \in Node, k \in Key : Known(st[m], k) => Known(st[Source], k))'
  BY <1>5, <1>8
<1>13. (\A m, p \in Node, k \in Key : Rec(p, k).sender = m => Rec(m, k).sent /\ Rec(m, k).next = p)'
  BY <1>9
<1>14. (\A m \in Node, k \in Key : Rec(m, k).ready =>
          /\ Known(st[Target], k)
          /\ m # Target => Rec(m, k).sent /\ Confirms(Rec(m, k).next, m, k))'
  BY <1>10
<1>15. (\A m, q \in Node, k \in Key : q \in Rec(m, k).voidRequests => Authorises(q, m, k))'
  BY <1>11
<1> QED BY <1>4, <1>12, <1>13, <1>14, <1>15 DEF Linked

-----------------------------------------------------------------------------
(* The licence of each action that writes the journal.                     *)

Touching(B) == [touch |-> B, new |-> {}, ready |-> {}, give |-> {}, ask |-> {}, heard |-> {}, failed |-> {}]
Storing(k)  == [Touching({k}) EXCEPT !.new = {<<NoNode, k>>}]
Giving(B)   == [Touching(B) EXCEPT !.give = B]
Hearing(p, k, status) ==
    [Touching({k}) EXCEPT !.ready  = IF status = "relayed" THEN {k} ELSE {},
                          !.heard  = IF status = "relayed" THEN {} ELSE {<<p, k>>},
                          !.failed = IF status = "failed to void" THEN {k} ELSE {}]
Obeying(n, p, k) ==
    [Touching({k}) EXCEPT !.new = IF Known(st[n], k) THEN {} ELSE {<<p, k>>}, !.ask = {<<p, k>>}]
Receiving(n, p, k) ==
    [Obeying(n, p, k) EXCEPT !.ready = IF n = Target THEN {k} ELSE {},
                             !.ask   = IF Known(st[n], k) /\ ~Rec(n, k).voiding THEN @ ELSE {}]

LEMMA TransferLicensed ==
    ASSUME PathInv, NEW n \in Node, NEW p \in Node, NEW k \in Key, NEW saved \in BOOLEAN,
           HandleTransfer(n, p, k, saved)
    PROVE  /\ Moves(st[n], Accepted(st[n], p, k, n = Target, Lapsed(n, k)), Receiving(n, p, k))
           /\ Licensed(n, Receiving(n, p, k))
           /\ Answers(st[n], Accepted(st[n], p, k, n = Target, Lapsed(n, k)))
           /\ n # Source /\ Known(st[Source], k)
<1>1. Transfer(p, n, k) \in net /\ CanAccept(n, p, k)
  BY DEF HandleTransfer, Arrives
<1>2. Rec(p, k).sent /\ Rec(p, k).next = n
  BY <1>1 DEF PathInv, Backed, Transfer
<1>3. Known(st[p], k) /\ Known(st[Source], k)
  BY <1>2, RecordFacts DEF PathInv, Linked, Known, Rec
<1>4. Authorises(p, n, k)
  BY <1>2 DEF Authorises
<1> DEFINE L == Receiving(n, p, k)
<1>L. /\ L.touch = {k} /\ L.ready = (IF n = Target THEN {k} ELSE {}) /\ L.give = {} /\ L.heard = {}
      /\ L.ask = (IF Known(st[n], k) /\ ~Rec(n, k).voiding THEN {<<p, k>>} ELSE {})
      /\ L.new = IF Known(st[n], k) THEN {} ELSE {<<p, k>>}
  BY DEF Receiving, Obeying, Touching
<1> HIDE DEF L
<1>6. Tidy(st[n])
  BY DEF PathInv, Linked
<1>7. Known(st[n], k) => st[n].keys[k].sender = p
  BY <1>1 DEF CanAccept
<1>5. Licensed(n, L)
  BY <1>2, <1>3, <1>4, <1>7, <1>L DEF Licensed, Rec
<1>9. Known(st[n], k) => st[n].keys[k].sender = p /\ (st[n].keys[k].voiding \/ <<p, k>> \in L.ask)
  BY <1>7, <1>L DEF Rec
<1>8. Moves(st[n], Accepted(st[n], p, k, n = Target, Lapsed(n, k)), L)
  BY <1>6, <1>9, <1>L, AcceptedMoves
<1>10. Answers(st[n], Accepted(st[n], p, k, n = Target, Lapsed(n, k)))
  BY <1>6, <1>9, <1>L, AcceptedAnswers
<1> QED BY <1>1, <1>3, <1>5, <1>8, <1>10 DEF CanAccept, L

LEMMA VoidLicensed ==
    ASSUME PathInv, NEW n \in Node, NEW p \in Node, NEW k \in Key, NEW saved \in BOOLEAN,
           HandleVoid(n, p, k, saved)
    PROVE  /\ Moves(st[n], Voided(st[n], p, k, n = Target), Obeying(n, p, k))
           /\ Licensed(n, Obeying(n, p, k))
           /\ Answers(st[n], Voided(st[n], p, k, n = Target))
           /\ Known(st[Source], k)
<1>1. Void(p, n, k) \in net
  BY DEF HandleVoid, Arrives
<1>2. Rec(p, k).voiding /\ n \in Neighbours(Rec(p, k))
  BY <1>1 DEF PathInv, Backed, Void
<1>3. Rec(p, k).sender = n \/ (Rec(p, k).sent /\ Rec(p, k).next = n)
  BY <1>2 DEF Neighbours, Peers
<1>4. Authorises(p, n, k)
  BY <1>2, <1>3 DEF Authorises
<1>5. Known(st[p], k) /\ Known(st[Source], k)
  BY <1>2, RecordFacts DEF PathInv, Linked, Known, Rec
<1>6. Rec(p, k).sender = n => Known(st[n], k)
  BY RecordFacts DEF PathInv, Linked, Known, Rec
<1>7. ~Known(st[n], k) => Rec(p, k).sent /\ Rec(p, k).next = n
  BY <1>3, <1>6
<1> DEFINE L == Obeying(n, p, k)
<1>L. /\ L.touch = {k} /\ L.ready = {} /\ L.give = {} /\ L.heard = {} /\ L.ask = {<<p, k>>}
      /\ L.new = IF Known(st[n], k) THEN {} ELSE {<<p, k>>}
  BY DEF Obeying, Touching
<1> HIDE DEF L
<1>8. Licensed(n, L)
  BY <1>1, <1>4, <1>5, <1>7, <1>L DEF Licensed
<1>9. Tidy(st[n])
  BY DEF PathInv, Linked
<1>10. Moves(st[n], Voided(st[n], p, k, n = Target), L)
  BY <1>9, <1>L, VoidedMoves
<1>11. Answers(st[n], Voided(st[n], p, k, n = Target))
  BY <1>9, <1>L, VoidedAnswers
<1> QED BY <1>5, <1>8, <1>10, <1>11 DEF L

LEMMA AckLicensed ==
    ASSUME PathInv, NEW n \in Node, NEW p \in Node, NEW j \in Job, NEW saved \in BOOLEAN,
           HandleAck(n, p, j, saved)
    PROVE  LET t == Acknowledged(st[n], p, j.key, j.status, Lapsed(n, j.key)) IN
           /\ Moves(st[n], t, Hearing(p, j.key, j.status))
           /\ Licensed(n, Hearing(p, j.key, j.status))
           /\ Answers(st[n], t)
           /\ j.status # "relayed" => t.keys[j.key].voiding
           /\ j.status = "failed to void" =>
                 \/ t.keys[j.key].voidFailed
                 \/ ~Rec(n, j.key).voiding /\ p \in t.keys[j.key].voidPending
<1> DEFINE L == Hearing(p, j.key, j.status)
           t == Acknowledged(st[n], p, j.key, j.status, Lapsed(n, j.key))
<1>1. j.peer = n /\ Ack(p, j) \in net /\ CanAcknowledge(st[n], p, j.key, j.status)
  BY DEF HandleAck, Arrives
<1>2. j.key \in Key /\ j.status \in Status /\ (j.status \in VoidStatus <=> j.status # "relayed")
  BY DEF Job, Status, VoidStatus
<1>3. Honest(p, [peer |-> n, key |-> j.key, status |-> j.status])
  BY <1>1 DEF PathInv, Backed, Ack
<1>4. j.status = "relayed" => Confirms(p, n, j.key) /\ Known(st[Target], j.key)
  BY <1>3 DEF Honest
<1>5. j.status = "relayed" => Rec(n, j.key).sent /\ Rec(n, j.key).next = p
  BY <1>1 DEF CanAcknowledge, Rec
<1>6. j.status # "relayed" => Owes(Rec(p, j.key), n, j.status) /\ Authorises(n, p, j.key)
  BY <1>3 DEF Honest
<1>L. /\ L.touch = {j.key} /\ L.ready = (IF j.status = "relayed" THEN {j.key} ELSE {}) /\ L.give = {}
      /\ L.ask = {} /\ L.new = {} /\ L.heard = (IF j.status = "relayed" THEN {} ELSE {<<p, j.key>>})
      /\ L.failed = (IF j.status = "failed to void" THEN {j.key} ELSE {})
  BY DEF Hearing, Touching
<1> HIDE DEF L
<1>7. Licensed(n, L)
  <2>1. ASSUME NEW k \in Key, NEW q \in Node, <<q, k>> \in L.heard
        PROVE  Rec(q, k).voiding /\ (Rec(q, k).delivered => k \in L.failed)
    <3>1. q = p /\ k = j.key /\ j.status # "relayed"
      <4>1. j.status # "relayed"
        BY <1>L, <2>1
      <4>2. L.heard = {<<p, j.key>>}
        BY <1>L, <4>1
      <4> QED BY <2>1, <4>1, <4>2
    <3> QED BY <1>6, <1>L, <3>1 DEF Owes
  <2>2. ASSUME NEW k \in L.ready, n # Target
        PROVE  /\ Known(st[Target], k)
               /\ Rec(n, k).sent /\ Rec(n, k).next \in Node /\ Confirms(Rec(n, k).next, n, k)
    BY <1>4, <1>5, <1>L, <2>2
  <2> QED BY <1>L, <2>1, <2>2 DEF Licensed
<1>8. Tidy(st[n]) /\ Known(st[n], j.key)
  BY <1>1 DEF PathInv, Linked, CanAcknowledge
<1>9. /\ j.status = "relayed" => j.key \in L.ready
      /\ j.status \in VoidStatus => <<p, j.key>> \in L.heard
      /\ j.key \in L.failed => j.status = "failed to void"
      /\ j.key \in L.touch
  BY <1>2, <1>L
<1>10. Moves(st[n], t, L)
  BY <1>2, <1>8, <1>9, AcknowledgedMoves
<1>11. /\ Answers(st[n], t)
       /\ Heeds(st[n], t, j.key, j.status)
  <2>1. Allows(L, p, j.key, j.status)
    BY <1>9 DEF Allows
  <2> QED BY <1>2, <1>8, <2>1, AcknowledgedAnswers
<1> HIDE DEF t
<1>12. j.status # "relayed" /\ ~Rec(n, j.key).voiding => p \in Neighbours(Rec(n, j.key))
  BY <1>6 DEF Authorises, Neighbours
<1>13. j.status = "failed to void" =>
          \/ t.keys[j.key].voidFailed
          \/ ~Rec(n, j.key).voiding /\ p \in t.keys[j.key].voidPending
  BY <1>2, <1>6, <1>11, <1>12 DEF Heeds, Rec
<1>14. j.status # "relayed" => t.keys[j.key].voiding
  BY <1>2, <1>11 DEF Heeds
<1> QED BY <1>7, <1>10, <1>11, <1>13, <1>14 DEF L, t

(* The other actions need no more than their own node.                     *)
LEMMA LocalLicensed ==
    ASSUME PathInv, NEW n \in Node, NEW B
    PROVE  Tidy(st[n]) /\ Licensed(n, Touching(B)) /\ Licensed(n, Giving(B))
BY DEF PathInv, Linked, Licensed, Touching, Giving

LEMMA StoringLicensed == ASSUME NEW k \in Key PROVE Licensed(Source, Storing(k))
BY NameAssumption DEF Licensed, Storing, Touching

-----------------------------------------------------------------------------
(* PathInv is inductive.                                                   *)

LEMMA MessagesStay ==
    ASSUME PathInv, RecordsEvolve
    PROVE  /\ \A n \in Node : \A j \in jobs[n] \cup call[n] : Honest(n, j)'
           /\ \A m \in net : Backed(m)'
<1>1. TypeOK /\ Linked
  BY DEF PathInv
<1>2. ASSUME NEW n \in Node, NEW j \in jobs[n] \cup call[n] PROVE Honest(n, j)'
  BY <1>1, <1>2, HonestStays, PartTypes DEF PathInv
<1>3. ASSUME NEW m \in net PROVE Backed(m)'
  BY <1>1, <1>3, BackedStays, PartTypes DEF PathInv
<1> QED BY <1>2, <1>3

(* A step of node n that writes its journal, under a licence.  It posts    *)
(* transfers at most; who asked for a void is answered, unless it was told *)
(* before; and a worker whose result was heard is answered.                *)
Noted(m) ==
    \E j \in Job : /\ call[m] = {j}
                   /\ j.status # "relayed" => Rec(j.peer, j.key)'.voiding
                   /\ j.status = "failed to void" =>
                         \/ Rec(j.peer, j.key)'.voidFailed
                         \/ ~Rec(j.peer, j.key).voiding /\ m \in Rec(j.peer, j.key)'.voidPending

Journalled(n, t, saved, L) ==
    /\ Change(n, t, saved)
    /\ Moves(st[n], t, L) /\ Licensed(n, L)
    /\ \A m \in Node : jobs'[m] \subseteq jobs[m] /\ call'[m] \subseteq call[m]
    /\ \A m \in net' : m \in net \/ (m.kind = "transfer" /\ Backed(m)')
    /\ Answers(st[n], t) \/ (n \in answered /\ t = [st[n] EXCEPT !.acks = @ \ call[n]])
    /\ \A m \in answered' : call'[m] = call[m] /\ (m \in answered \/ Noted(m))

(* One step of the handlers and of the worker that leaves its own calls.   *)
LEMMA PlainStep ==
    ASSUME NEW n \in Node, NEW t, NEW saved, NEW L,
           Change(n, t, saved), Moves(st[n], t, L), Licensed(n, L), Answers(st[n], t),
           UNCHANGED worker, \A m \in net' : m \in net \/ (m.kind = "transfer" /\ Backed(m)')
    PROVE  \E u, M : Journalled(n, u, saved, M)
<1>1. Journalled(n, t, saved, L)
  BY DEF Journalled, worker
<1> QED BY <1>1

LEMMA SavingIsJournalled ==
    ASSUME PathInv, NEW n \in Node, NEW saved \in BOOLEAN, Saving(n, saved)
    PROVE  \E t, L : Journalled(n, t, saved, L)
<1> DEFINE Goal == \E t, L : Journalled(n, t, saved, L)
<1>0. Tidy(st[n]) /\ TypeOK
  BY DEF PathInv, Linked
<1>1. ASSUME NEW k \in Key, StoreKey(n, k, saved) PROVE Goal
  <2>1. /\ n = Source /\ Change(n, Stored(st[n], k), saved) /\ ~Known(st[n], k)
        /\ UNCHANGED worker /\ net' = net
    BY <1>1 DEF StoreKey
  <2> DEFINE L == Storing(k)
  <2>2. k \in L.touch /\ <<NoNode, k>> \in L.new
    BY DEF Storing, Touching
  <2>3. Licensed(n, L)
    BY <2>1, StoringLicensed
  <2> HIDE DEF L
  <2>4. Moves(st[n], Stored(st[n], k), L)
    BY <1>0, <2>1, <2>2, StoredMoves
  <2>5. Answers(st[n], Stored(st[n], k))
    BY <1>0, <2>4, StoredAnswers DEF Moves
  <2> QED BY <2>1, <2>3, <2>4, <2>5, PlainStep
<1>2. ASSUME NEW B \in SUBSET Key, NEW t \in Token, ReserveKeys(n, B, t, saved) PROVE Goal
  <2>1. Change(n, WithToken(st[n], B, t), saved) /\ UNCHANGED worker /\ net' = net
    BY <1>2 DEF ReserveKeys
  <2>2. Moves(st[n], WithToken(st[n], B, t), Touching(B))
    BY <1>0, WithTokenMoves DEF Touching
  <2>3. Answers(st[n], WithToken(st[n], B, t))
    BY <1>0, TokenAnswers
  <2> QED BY <1>0, <2>1, <2>2, <2>3, LocalLicensed, PlainStep
<1>3. ASSUME NEW B \in SUBSET Key, Change(n, Delivered(st[n], B), saved),
             \A k \in B : Known(st[n], k) /\ ~st[n].keys[k].voiding, UNCHANGED worker, net' = net
      PROVE  Goal
  <2>1. Moves(st[n], Delivered(st[n], B), Giving(B))
    BY <1>0, <1>3, DeliveredMoves DEF Giving, Touching
  <2>2. Answers(st[n], Delivered(st[n], B))
    BY <1>0, DeliveredAnswers
  <2> QED BY <1>3, <2>1, <2>2, LocalLicensed, PlainStep
<1>4. ASSUME NEW t \in Token, ConsumeReservation(n, t, saved) PROVE Goal
  <2> DEFINE B == Holding(st[n], t)
  <2>1. /\ B \in SUBSET Key /\ Change(n, Delivered(st[n], B), saved)
        /\ \A k \in B : Known(st[n], k) /\ ~st[n].keys[k].voiding
        /\ UNCHANGED worker /\ net' = net
    BY <1>4 DEF ConsumeReservation, Holding, Known, Usable
  <2> HIDE DEF B
  <2> QED BY <1>3, <2>1
<1>5. ASSUME NEW B \in SUBSET Key, ConsumePeerKeys(n, B, saved) PROVE Goal
  <2>1. /\ Change(n, Delivered(st[n], B), saved) /\ UNCHANGED worker /\ net' = net
        /\ \A k \in B : Known(st[n], k) /\ ~st[n].keys[k].voiding
    BY <1>5 DEF ConsumePeerKeys, Known, Usable
  <2> QED BY <1>3, <2>1
<1>6. ASSUME NEW k \in Key, InvalidateKey(n, k, saved) PROVE Goal
  <2>1. Change(n, VoidKey(st[n], k, {}), saved) /\ Known(st[n], k) /\ UNCHANGED worker /\ net' = net
    BY <1>6 DEF InvalidateKey
  <2>2. Moves(st[n], VoidKey(st[n], k, {}), Touching({k}))
    BY <1>0, <2>1, VoidKeyMoves DEF Touching
  <2>3. k \in Touching({k}).touch
    BY DEF Touching
  <2>4. Answers(st[n], VoidKey(st[n], k, {}))
    BY <1>0, <2>1, <2>3, VoidKeySettles, SparesAnswers
  <2> QED BY <2>1, <2>2, <2>4, LocalLicensed, PlainStep
<1>7. ASSUME Sweep(n, saved) PROVE Goal
  <2>1. Change(n, Swept(st[n], lapsed[n]), saved) /\ UNCHANGED worker /\ net' = net
    BY <1>7 DEF Sweep
  <2>2. lapsed[n] \in SUBSET Key
    BY <1>0 DEF TypeOK
  <2>3. Moves(st[n], Swept(st[n], lapsed[n]), Touching(Key))
    BY <1>0, <2>2, SweptMoves DEF Touching
  <2>4. Answers(st[n], Swept(st[n], lapsed[n]))
    BY <1>0, <2>2, SweptAnswers
  <2> QED BY <2>1, <2>3, <2>4, LocalLicensed, PlainStep
<1>8. ASSUME AckReturn(n, saved) PROVE Goal
  <2> DEFINE t == [st[n] EXCEPT !.acks = @ \ call[n]]
  <2>1. /\ n \in answered /\ Change(n, t, saved) /\ call' = [call EXCEPT ![n] = {}]
        /\ answered' = answered \ {n} /\ jobs' = jobs /\ net' = net
    BY <1>8 DEF AckReturn
  <2>2. Moves(st[n], t, Touching({}))
    BY <1>0, FewerResultsMove
  <2>3. \A m \in Node : jobs'[m] \subseteq jobs[m] /\ call'[m] \subseteq call[m]
    BY <1>0, <2>1 DEF TypeOK
  <2>4. \A m \in answered' : call'[m] = call[m] /\ m \in answered
    BY <1>0, <2>1 DEF TypeOK
  <2>5. Licensed(n, Touching({}))
    BY LocalLicensed
  <2>6. \A m \in net' : m \in net
    BY <2>1
  <2>7. Journalled(n, t, saved, Touching({}))
    BY <2>1, <2>2, <2>3, <2>4, <2>5, <2>6 DEF Journalled
  <2> QED BY <2>7
<1>9. ASSUME NEW k \in Key, NEW p \in Node, Transmit(n, k, p, saved) PROVE Goal
  <2>1. /\ Change(n, Pinned(st[n], k, p), saved) /\ UNCHANGED worker
        /\ Unsettled(st[n], k, Lapsed(n, k)) /\ p \in NextHops(st[n], k, Candidates(n, k))
        /\ net' \subseteq net \cup {Transfer(n, p, k)}
    BY <1>9 DEF Transmit
  <2>2. /\ Moves(st[n], Pinned(st[n], k, p), Touching({k}))
        /\ Pinned(st[n], k, p).keys[k].sent /\ Pinned(st[n], k, p).keys[k].next = p
    BY <1>0, <2>1, PinnedMoves DEF Touching, Candidates
  <2>3. Rec(n, k)'.sent /\ Rec(n, k)'.next = p
    BY <1>0, <2>1, <2>2 DEF Change, Rec, TypeOK
  <2>4. Backed(Transfer(n, p, k))' /\ Transfer(n, p, k).kind = "transfer"
    BY <2>3 DEF Backed, Transfer
  <2>5. Answers(st[n], Pinned(st[n], k, p))
    BY <1>0, <2>1, <2>2, PinnedAnswers DEF Unsettled, Moves
  <2>6. \A m \in net' : m \in net \/ (m.kind = "transfer" /\ Backed(m)')
    BY <2>1, <2>4
  <2> QED BY <2>1, <2>2, <2>5, <2>6, LocalLicensed, PlainStep
<1>10. ASSUME NEW k \in Key, NEW p \in Node, HandleTransfer(n, p, k, saved) PROVE Goal
  <2>1. /\ Change(n, Accepted(st[n], p, k, n = Target, Lapsed(n, k)), saved)
        /\ UNCHANGED worker /\ net' \subseteq net
    BY <1>10 DEF HandleTransfer, Arrives
  <2>2. \A m \in net' : m \in net
    BY <2>1
  <2> QED BY <1>10, <2>1, <2>2, TransferLicensed, PlainStep
<1>11. ASSUME NEW k \in Key, NEW p \in Node, HandleVoid(n, p, k, saved) PROVE Goal
  <2>1. /\ Change(n, Voided(st[n], p, k, n = Target), saved)
        /\ UNCHANGED worker /\ net' \subseteq net
    BY <1>11 DEF HandleVoid, Arrives
  <2>2. \A m \in net' : m \in net
    BY <2>1
  <2> QED BY <1>11, <2>1, <2>2, VoidLicensed, PlainStep
<1>12. ASSUME NEW j \in Job, NEW p \in Node, HandleAck(n, p, j, saved) PROVE Goal
  <2> DEFINE t == Acknowledged(st[n], p, j.key, j.status, Lapsed(n, j.key))
             L == Hearing(p, j.key, j.status)
  <2>1. /\ Change(n, t, saved) /\ jobs' = jobs /\ call' = call /\ net' \subseteq net /\ j.peer = n
        /\ answered' \subseteq answered \cup (IF call[p] = {j} THEN {p} ELSE {})
    BY <1>12 DEF HandleAck, Arrives
  <2>2. /\ Moves(st[n], t, L) /\ Licensed(n, L) /\ Answers(st[n], t)
        /\ j.status # "relayed" => t.keys[j.key].voiding
        /\ j.status = "failed to void" =>
              \/ t.keys[j.key].voidFailed
              \/ ~Rec(n, j.key).voiding /\ p \in t.keys[j.key].voidPending
    BY <1>12, AckLicensed
  <2> HIDE DEF t, L
  <2>3. Rec(n, j.key)' = t.keys[j.key]
    BY <1>0, <2>1 DEF Change, TypeOK, Rec
  <2>4. call[p] = {j} => Noted(p)
    BY <2>1, <2>2, <2>3 DEF Noted
  <2>5. \A m \in answered' : call'[m] = call[m] /\ (m \in answered \/ Noted(m))
    BY <2>1, <2>4
  <2>6. \A m \in net' : m \in net
    BY <2>1
  <2>7. \A m \in Node : jobs'[m] \subseteq jobs[m] /\ call'[m] \subseteq call[m]
    BY <2>1
  <2>8. Journalled(n, t, saved, L)
    BY <2>1, <2>2, <2>5, <2>6, <2>7 DEF Journalled
  <2> QED BY <2>8
<1> HIDE DEF Goal
<1>13. Goal
  BY <1>1, <1>2, <1>4, <1>5, <1>6, <1>7, <1>8, <1>9, <1>10, <1>11, <1>12 DEF Saving
<1> QED BY <1>13 DEF Goal

LEMMA SavingKeepsPaths ==
    ASSUME PathInv, TypeOK', NEW n \in Node, NEW saved \in BOOLEAN, Saving(n, saved)
    PROVE  PathInv'
<1>1. PICK t, L : Journalled(n, t, saved, L)
  BY SavingIsJournalled
<1>2. RecordsEvolve /\ Linked'
  BY <1>1, RecordsStep DEF PathInv, Journalled
<1>3. /\ \A m \in Node : \A j \in jobs[m] \cup call[m] : Honest(m, j)'
      /\ \A m \in net : Backed(m)'
  BY <1>2, MessagesStay
<1>4. (\A m \in Node : \A j \in jobs[m] \cup call[m] : Honest(m, j))'
  BY <1>1, <1>3 DEF Journalled
<1>5. (\A m \in net : Backed(m))'
  BY <1>1, <1>3 DEF Journalled
<1> QED BY <1>2, <1>4, <1>5 DEF PathInv

(* A step that leaves every journal alone. *)
LEMMA QuietPathStep ==
    ASSUME PathInv, TypeOK', st' = st,
           \A n \in Node : \A j \in jobs'[n] \cup call'[n] : j \in jobs[n] \cup call[n] \/ Honest(n, j),
           \A m \in net' : m \in net \/ Backed(m)
    PROVE  PathInv'
<1>1. Linked'
  <2>1. Linked
    BY DEF PathInv
  <2>2. (\A n \in Node : Tidy(st[n]))' /\ (\A n \in Node, k \in Key : Known(st[n], k) => Known(st[Source], k))'
    BY <2>1 DEF Linked
  <2>3. (\A n, p \in Node, k \in Key : Rec(p, k).sender = n => Rec(n, k).sent /\ Rec(n, k).next = p)'
    BY <2>1 DEF Linked, Rec
  <2>4. (\A n \in Node, k \in Key : Rec(n, k).ready =>
          /\ Known(st[Target], k)
          /\ n # Target => Rec(n, k).sent /\ Confirms(Rec(n, k).next, n, k))'
    BY <2>1 DEF Linked, Rec, Confirms
  <2>5. (\A n, q \in Node, k \in Key : q \in Rec(n, k).voidRequests => Authorises(q, n, k))'
    BY <2>1 DEF Linked, Rec, Authorises
  <2> QED BY <2>2, <2>3, <2>4, <2>5 DEF Linked
<1>2. \A n \in Node : \A j \in jobs'[n] \cup call'[n] : Honest(n, j)
  BY DEF PathInv
<1>3. \A m \in net' : Backed(m)
  BY DEF PathInv
<1>4. ASSUME NEW n, NEW j, Honest(n, j) PROVE Honest(n, j)'
  <2>1. CASE j.status = "relayed"
    BY <1>4, <2>1 DEF Honest, Confirms, Known, Rec
  <2>2. CASE j.status # "relayed"
    BY <1>4, <2>2 DEF Honest, Owes, Authorises, Rec
  <2> QED BY <2>1, <2>2
<1>5. ASSUME NEW m \in net' PROVE Backed(m)'
  <2>1. m.kind = "ack" => Honest(m.from, [peer |-> m.to, key |-> m.key, status |-> m.status])'
    BY <1>3, <1>4 DEF Backed
  <2>2. m.kind = "transfer" => Rec(m.from, m.key)'.sent /\ Rec(m.from, m.key)'.next = m.to
    BY <1>3 DEF Backed, Rec
  <2>3. m.kind = "void" => Rec(m.from, m.key)'.voiding /\ m.to \in Neighbours(Rec(m.from, m.key)')
    BY <1>3 DEF Backed, Rec
  <2> QED BY <2>1, <2>2, <2>3 DEF Backed
<1>6. (\A n \in Node : \A j \in jobs[n] \cup call[n] : Honest(n, j))'
  BY <1>2, <1>4
<1>7. (\A m \in net : Backed(m))'
  BY <1>5
<1> QED BY <1>1, <1>6, <1>7 DEF PathInv

(* A queued result is honest when it is taken from the outbox. *)
LEMMA QueuedIsHonest ==
    ASSUME PathInv, NEW n \in Node, NEW j \in st[n].acks
    PROVE  Honest(n, j)
<1>1. j \in Job /\ j.key \in Key /\ j.peer \in Node
  BY PartTypes DEF PathInv
<1>2. Tidy(st[n]) /\ Fit(Rec(n, j.key)) /\ Linked
  BY <1>1, RecordFacts DEF PathInv, Linked
<1>3. CASE j.status = "relayed"
  <2>1. Rec(n, j.key).ready /\ Rec(n, j.key).sender = j.peer
    BY <1>2, <1>3 DEF Tidy, Truthful, Owes, Rec
  <2> QED BY <1>1, <1>2, <1>3, <2>1 DEF Honest, Confirms, Linked, Fit
<1>4. CASE j.status # "relayed"
  <2>1. Owes(Rec(n, j.key), j.peer, j.status) /\ j.peer \in Rec(n, j.key).voidRequests
    BY <1>2, <1>4 DEF Tidy, Truthful, Owes, Rec
  <2> QED BY <1>1, <1>2, <1>4, <2>1 DEF Honest, Linked
<1> QED BY <1>3, <1>4

LEMMA VolatileKeepsPaths ==
    ASSUME PathInv, TypeOK', NEW n \in Node, Volatile(n)
    PROVE  PathInv'
<1> USE DEF worker
<1>0. TypeOK
  BY DEF PathInv
<1>1. ASSUME NEW k \in Key, Lapse(n, k) PROVE PathInv'
  BY <1>1, QuietPathStep DEF Lapse
<1>2. CASE TakeJobs(n)
  <2>1. st' = st /\ net' = net /\ call' = call /\ jobs' = [jobs EXCEPT ![n] = st[n].acks]
    BY <1>2 DEF TakeJobs
  <2>2. \A m \in Node : \A j \in jobs'[m] \cup call'[m] : j \in jobs[m] \cup call[m] \/ Honest(m, j)
    BY <1>0, <2>1, QueuedIsHonest DEF TypeOK
  <2> QED BY <2>1, <2>2, QuietPathStep
<1>3. ASSUME NEW j \in jobs[n], SendAck(n, j) PROVE PathInv'
  <2>1. /\ st' = st /\ net' = net \cup {Ack(n, j)} /\ j \in Job
        /\ jobs' = [jobs EXCEPT ![n] = @ \ {j}] /\ call' = [call EXCEPT ![n] = {j}]
    BY <1>0, <1>3 DEF SendAck, TypeOK
  <2>2. \A m \in Node : jobs'[m] \cup call'[m] \subseteq jobs[m] \cup call[m]
    BY <1>0, <2>1 DEF TypeOK
  <2>3. Honest(n, j) /\ j = [peer |-> j.peer, key |-> j.key, status |-> j.status]
    BY <2>1 DEF PathInv, Job
  <2>4. Backed(Ack(n, j))
    BY <2>3 DEF Backed, Ack
  <2> QED BY <2>1, <2>2, <2>4, QuietPathStep
<1>4. CASE AckFails(n) \/ AckTimesOut(n)
  <2>1. st' = st /\ net' = net /\ jobs' = jobs /\ call' = [call EXCEPT ![n] = {}]
    BY <1>4 DEF AckFails, AckTimesOut, EndCall
  <2>2. \A m \in Node : jobs'[m] \cup call'[m] \subseteq jobs[m] \cup call[m]
    BY <1>0, <2>1 DEF TypeOK
  <2> QED BY <2>1, <2>2, QuietPathStep
<1>5. ASSUME NEW k \in Key, SendVoids(n, k) PROVE PathInv'
  <2>1. /\ UNCHANGED <<st, jobs, call>> /\ Rec(n, k).voiding
        /\ net' = net \cup {Void(n, p, k) : p \in Rec(n, k).voidPending}
    BY <1>5 DEF SendVoids, Rec
  <2>2. Rec(n, k).voidPending \subseteq Neighbours(Rec(n, k))
    BY <2>1, RecordFacts DEF PathInv, Fit
  <2>3. \A p \in Rec(n, k).voidPending : Backed(Void(n, p, k))
    BY <2>1, <2>2 DEF Backed, Void
  <2> QED BY <2>1, <2>3, QuietPathStep
<1>6. CASE Crash(n)
  BY <1>6, QuietPathStep DEF Crash
<1>7. CASE Restart(n)
  <2>1. st' = st /\ net' = net /\ jobs' = [jobs EXCEPT ![n] = {}] /\ call' = [call EXCEPT ![n] = {}]
    BY <1>7 DEF Restart
  <2>2. \A m \in Node : jobs'[m] \cup call'[m] \subseteq jobs[m] \cup call[m]
    BY <1>0, <2>1 DEF TypeOK
  <2> QED BY <2>1, <2>2, QuietPathStep
<1> QED BY <1>1, <1>2, <1>3, <1>4, <1>5, <1>6, <1>7 DEF Volatile

LEMMA NetworkKeepsPaths ==
    ASSUME PathInv, TypeOK', Network
    PROVE  PathInv'
<1>1. st' = st /\ jobs' = jobs /\ call' = call /\ net' \subseteq net
  BY DEF Network, Refuse, Lose, worker
<1> QED BY <1>1, QuietPathStep

LEMMA InitPaths == Init => PathInv
<1> SUFFICES ASSUME Init PROVE PathInv
  OBVIOUS
<1>1. TypeOK
  BY InitTypeOK
<1>2. \A n \in Node, k \in Key : Rec(n, k) = Absent
  BY DEF Init, EmptyEngine, Rec
<1>3. Fit(Absent)
  BY DEF Fit, Absent
<1>4. ASSUME NEW n \in Node PROVE Tidy(st[n])
  <2>1. st[n] \in EngineState /\ st[n].acks = {}
    BY <1>1 DEF TypeOK, Init, EmptyEngine
  <2> QED BY <1>2, <1>3, <2>1 DEF Tidy, Truthful, Rec
<1>5. Linked
  BY <1>2, <1>4, NameAssumption DEF Linked, Known, Rec, Absent
<1> QED BY <1>1, <1>5 DEF PathInv, Init

LEMMA PathsKept == PathInv /\ [Next]_vars => PathInv'
<1> SUFFICES ASSUME PathInv, [Next]_vars PROVE PathInv'
  OBVIOUS
<1>1. TypeOK'
  BY NextContinues DEF PathInv
<1>2. CASE UNCHANGED vars
  BY <1>1, <1>2, QuietPathStep DEF vars, worker
<1> QED BY <1>1, <1>2, SavingKeepsPaths, VolatileKeepsPaths, NetworkKeepsPaths DEF Next

LEMMA PathsAlways == Spec => []PathInv
BY InitPaths, PathsKept, PTL DEF Spec

-----------------------------------------------------------------------------
(* What PathInv is for.                                                    *)

(* Two nodes that hold a key they received from the same neighbour are one *)
(* node: sendRecord saves the choice of the next hop before it posts, and  *)
(* no loss, crash, retry or late request ever opens a second branch.       *)
THEOREM OnePathPerKey == Spec => []SinglePath
<1>1. PathInv => SinglePath
  BY DEF PathInv, Linked, SinglePath
<1> QED BY <1>1, PathsAlways, PTL

(* A record that says "ready" away from the target has a next hop that     *)
(* took the key from this node and has published it, or is discarding it   *)
(* by now, however late the "relayed" result was handled by Acknowledge.   *)
THEOREM PublishedMeansHeld == Spec => []ReadyMeansNextHolds
<1>1. PathInv => ReadyMeansNextHolds
  <2> SUFFICES ASSUME PathInv, NEW n \in Node, NEW k \in Key, Rec(n, k).ready, n # Target
               PROVE  LET d == Rec(Rec(n, k).next, k) IN
                      Rec(n, k).next \in Node /\ d.sender = n /\ ~d.unknown /\ (d.ready \/ d.voiding)
    BY DEF ReadyMeansNextHolds
  <2>1. Rec(n, k) \in Record /\ Rec(n, k).sent /\ Confirms(Rec(n, k).next, n, k)
    BY PartTypes DEF PathInv, Linked
  <2> QED BY <2>1 DEF Record, Confirms
<1> QED BY <1>1, PathsAlways, PTL

LEMMA HonestIsTaken ==
    ASSUME PathInv, NEW n \in Node, NEW j, j.key \in Key, j.peer \in Node, Honest(n, j)
    PROVE  CanAcknowledge(st[j.peer], n, j.key, j.status)
<1> DEFINE r == Rec(j.peer, j.key)
<1>1. (r.sent /\ r.next = n) \/ (j.status # "relayed" /\ r.voiding /\ r.sender = n)
  <2>1. CASE j.status = "relayed"
    BY <2>1 DEF Honest, Confirms, PathInv, Linked
  <2>2. CASE j.status # "relayed"
    BY <2>2 DEF Honest, Authorises
  <2> QED BY <2>1, <2>2
<1>2. r.role # "none"
  BY <1>1, RecordFacts DEF PathInv
<1> QED BY <1>1, <1>2 DEF CanAcknowledge, Known, Rec

(* Whatever is queued, in a worker's hands or on the wire as a result is   *)
(* one Acknowledge authorises: none is refused for good, so a stale result *)
(* can always leave the outbox.                                            *)
THEOREM ResultsAreAcceptable == Spec => []AcksAcceptable
<1>1. PathInv => AcksAcceptable
  <2> SUFFICES ASSUME PathInv PROVE AcksAcceptable
    OBVIOUS
  <2>1. ASSUME NEW n \in Node, NEW j \in st[n].acks \cup jobs[n] \cup call[n]
        PROVE  CanAcknowledge(st[j.peer], n, j.key, j.status)
    <3>1. Honest(n, j)
      BY QueuedIsHonest DEF PathInv
    <3>2. j.key \in Key /\ j.peer \in Node
      BY PartTypes DEF PathInv
    <3> QED BY <3>1, <3>2, HonestIsTaken
  <2>2. ASSUME NEW m \in net, m.kind = "ack" PROVE Acceptable(m)
    <3>1. Honest(m.from, [peer |-> m.to, key |-> m.key, status |-> m.status])
      BY <2>2 DEF PathInv, Backed
    <3>2. m.from \in Node /\ m.to \in Node /\ m.key \in Key
      BY PartTypes DEF PathInv
    <3>3. CanAcknowledge(st[m.to], m.from, m.key, m.status)
      BY <3>1, <3>2, HonestIsTaken
    <3> QED BY <2>2, <3>3 DEF Acceptable
  <2> QED BY <2>1, <2>2 DEF AcksAcceptable
<1> QED BY <1>1, PathsAlways, PTL

-----------------------------------------------------------------------------
(* What becomes of a void at the neighbours.                               *)

(* Node p, which asked n to discard k, knows the outcome: if n consumed    *)
(* its copy, p noted the failure, or still waits for a result of n.        *)
Told(n, p, k) ==
    /\ Rec(p, k).voiding
    /\ Rec(n, k).delivered =>
          \/ Rec(p, k).voidFailed
          \/ n \in Rec(p, k).voidPending /\ Void(n, p, k) \notin net

(* A voiding node waits no more for a neighbour only when that neighbour   *)
(* discards the key too, or is the sender and owed a result.               *)
VoidsSpread ==
    \A n \in Node, k \in Key : Rec(n, k).voiding =>
        \A p \in Neighbours(Rec(n, k)) \ Rec(n, k).voidPending :
            Rec(p, k).voiding \/ (p = Rec(n, k).sender /\ p \in Rec(n, k).voidRequests)

(* A finished void has its result in the outbox for whoever asked, or told *)
(* them.                                                                   *)
RequestersTold ==
    \A n \in Node, k \in Key : Rec(n, k).voidPending = {} =>
        \A p \in Rec(n, k).voidRequests : HasResult(st[n], p, k) \/ Told(n, p, k)

(* A node that still asks whom it owes a result crossed with that one:     *)
(* both discard the key.                                                   *)
CrossingsVoid ==
    \A n, p \in Node, k \in Key :
        p \in Rec(n, k).voidRequests /\ Void(n, p, k) \in net => Rec(p, k).voiding

(* A call is answered only once its receiver took note of the result.      *)
AnswersNoted ==
    \A n \in answered :
        /\ call[n] # {}
        /\ \A j \in call[n] : j.status # "relayed" => Told(n, j.peer, j.key)

VoidInv == PathInv /\ VoidsSpread /\ RequestersTold /\ CrossingsVoid /\ AnswersNoted

(* Facts used throughout: a void goes on, and who asked is kept.           *)
LEMMA VoidingStays ==
    ASSUME PathInv, RecordsEvolve, NEW n \in Node, NEW k \in Key, Rec(n, k).voiding
    PROVE  /\ Rec(n, k)'.voiding /\ Rec(n, k)'.sender = Rec(n, k).sender
           /\ Rec(n, k)'.delivered = Rec(n, k).delivered
           /\ Rec(n, k)'.voidPending \subseteq Rec(n, k).voidPending
           /\ Rec(n, k).voidRequests \subseteq Rec(n, k)'.voidRequests
           /\ Neighbours(Rec(n, k)') = Neighbours(Rec(n, k))
           /\ Rec(n, k).voidFailed => Rec(n, k)'.voidFailed
<1>1. Rec(n, k).role # "none" /\ Evolves(Rec(n, k), Rec(n, k)')
  BY RecordFacts DEF PathInv, RecordsEvolve
<1> QED BY <1>1, EvolvesNeighbours DEF Evolves

(* The requesters of a void, and what a void result in hand says.          *)
LEMMA RequestFacts ==
    ASSUME PathInv, NEW n \in Node, NEW k \in Key
    PROVE  /\ Rec(n, k).voidRequests \subseteq Node /\ Neighbours(Rec(n, k)) \subseteq Node
           /\ Rec(n, k).voidRequests # {} => Rec(n, k).voiding
           /\ Rec(n, k).voidPending \subseteq Neighbours(Rec(n, k)) \ Rec(n, k).voidRequests
<1>1. Rec(n, k) \in Record /\ Fit(Rec(n, k))
  BY PartTypes, RecordFacts DEF PathInv
<1>2. Peers(Rec(n, k).sender) \subseteq Node /\ (Rec(n, k).sent => Rec(n, k).next \in Node)
  BY <1>1, PeersType DEF Record, RecordFields
<1>3. Rec(n, k).voidRequests \subseteq Node
  BY <1>1 DEF Record, RecordFields
<1>4. Neighbours(Rec(n, k)) \subseteq Node
  BY <1>2 DEF Neighbours
<1> QED BY <1>1, <1>3, <1>4 DEF Fit

LEMMA CallFacts ==
    ASSUME PathInv, NEW n \in Node, NEW j \in call[n], j.status # "relayed"
    PROVE  /\ j.peer \in Node /\ j.key \in Key
           /\ Rec(n, j.key).voiding /\ Rec(n, j.key).voidPending = {}
           /\ j.peer \in Rec(n, j.key).voidRequests
           /\ Rec(n, j.key).delivered => j.status = "failed to void"
<1>1. Honest(n, j) /\ j.peer \in Node /\ j.key \in Key
  BY PartTypes DEF PathInv
<1> QED BY <1>1 DEF Honest, Owes

LEMMA VoidIsBacked ==
    ASSUME PathInv, NEW n \in Node, NEW p \in Node, NEW k \in Key, Void(n, p, k) \in net
    PROVE  Rec(n, k).voiding
BY DEF PathInv, Backed, Void

(* The records of a step that writes the journal of n. *)
LEMMA ChangedRecords ==
    ASSUME PathInv, NEW n \in Node, NEW t, NEW saved, NEW L, Change(n, t, saved), Moves(st[n], t, L)
    PROVE  /\ \A k \in Key : /\ Rec(n, k)' = t.keys[k]
                             /\ Fit(Rec(n, k)) /\ Fit(Rec(n, k)')
                             /\ Evolves(Rec(n, k), Rec(n, k)') /\ Covered(Rec(n, k), Rec(n, k)', k, L)
           /\ \A m \in Node \ {n}, k \in Key : Rec(m, k)' = Rec(m, k)
<1>1. st'[n] = t /\ \A m \in Node \ {n} : st'[m] = st[m]
  BY DEF Change, PathInv, TypeOK
<1>2. /\ \A k \in Key : /\ Fit(st[n].keys[k]) /\ Fit(t.keys[k])
                        /\ Evolves(st[n].keys[k], t.keys[k]) /\ Covered(st[n].keys[k], t.keys[k], k, L)
  BY DEF Moves, Tidy, PathInv, Linked
<1> QED BY <1>1, <1>2 DEF Rec

LEMMA JournalledRecords ==
    ASSUME PathInv, NEW n \in Node, NEW t, NEW saved, NEW L, Journalled(n, t, saved, L)
    PROVE  /\ \A k \in Key : Evolves(Rec(n, k), Rec(n, k)') /\ Covered(Rec(n, k), Rec(n, k)', k, L)
           /\ \A m \in Node, k \in Key : Rec(m, k)' \in Record /\ (m # n => Rec(m, k)' = Rec(m, k))
<1>1. /\ \A k \in Key : Evolves(Rec(n, k), Rec(n, k)') /\ Covered(Rec(n, k), Rec(n, k)', k, L)
      /\ \A m \in Node \ {n}, k \in Key : Rec(m, k)' = Rec(m, k)
      /\ \A k \in Key : Rec(n, k)' = t.keys[k]
  BY ChangedRecords DEF Journalled
<1>2. \A k \in Key : t.keys[k] \in Record
  BY DEF Journalled, Moves, Tidy, EngineState
<1>3. \A m \in Node, k \in Key : Rec(m, k) \in Record
  BY PartTypes DEF PathInv
<1> QED BY <1>1, <1>2, <1>3

(* Nobody who knows the outcome of a void forgets it.                      *)
LEMMA ToldStays ==
    ASSUME PathInv, NEW n \in Node, NEW t, NEW saved, NEW L, Journalled(n, t, saved, L), RecordsEvolve,
           NEW m \in Node, NEW p \in Node, NEW k \in Key, Rec(m, k).voiding, Told(m, p, k)
    PROVE  Told(m, p, k)'
<1>1. Rec(p, k)'.voiding /\ Rec(m, k)'.delivered = Rec(m, k).delivered
  BY VoidingStays DEF Told
<1>2. Rec(p, k).voidFailed => Rec(p, k)'.voidFailed
  BY VoidingStays DEF Told
<1>3. ASSUME Rec(m, k).delivered, m \in Rec(p, k).voidPending, Void(m, p, k) \notin net
      PROVE  Rec(p, k)'.voidFailed \/ (m \in Rec(p, k)'.voidPending /\ Void(m, p, k) \notin net')
  <2>1. Void(m, p, k) \notin net'
    BY <1>3 DEF Journalled, Void
  <2>2. m \in Rec(p, k)'.voidPending \/ Rec(p, k)'.voidFailed
    <3>1. CASE p # n
      BY <1>3, <3>1, JournalledRecords
    <3>2. ASSUME p = n, m \notin Rec(n, k)'.voidPending PROVE Rec(n, k)'.voidFailed
      <4>1. Covered(Rec(n, k), Rec(n, k)', k, L)
        BY JournalledRecords
      <4>2. m \in Neighbours(Rec(n, k)') \ Rec(n, k)'.voidPending /\ Rec(n, k).voiding /\ Rec(n, k)'.voiding
        BY <1>1, <1>3, <3>2, RequestFacts, VoidingStays DEF Told
      <4>3. <<m, k>> \in L.ask \/ (<<m, k>> \in L.heard /\ (k \in L.failed => Rec(n, k)'.voidFailed))
        BY <1>3, <3>2, <4>1, <4>2 DEF Covered
      <4>4. <<m, k>> \notin L.ask
        BY <1>3, <3>2, <4>2 DEF Journalled, Licensed
      <4>5. <<m, k>> \in L.heard => k \in L.failed
        BY <1>3 DEF Journalled, Licensed
      <4> QED BY <4>3, <4>4, <4>5
    <3> QED BY <3>1, <3>2
  <2> QED BY <2>1, <2>2
<1> QED BY <1>1, <1>2, <1>3 DEF Told

LEMMA SavingSpreads ==
    ASSUME VoidInv, NEW n \in Node, NEW t, NEW saved, NEW L, Journalled(n, t, saved, L), RecordsEvolve
    PROVE  VoidsSpread'
<1>1. PathInv
  BY DEF VoidInv
<1> SUFFICES ASSUME NEW m \in Node, NEW k \in Key, Rec(m, k)'.voiding,
                    NEW p \in Neighbours(Rec(m, k)') \ Rec(m, k)'.voidPending
             PROVE  Rec(p, k)'.voiding \/ (p = Rec(m, k)'.sender /\ p \in Rec(m, k)'.voidRequests)
  BY DEF VoidsSpread
<1>2. Rec(m, k)' \in Record
  BY <1>1, JournalledRecords
<1>3. p \in Node
  <2>1. Peers(Rec(m, k)'.sender) \subseteq Node /\ (Rec(m, k)'.sent => Rec(m, k)'.next \in Node)
    BY <1>2, PeersType DEF Record, RecordFields
  <2> QED BY <2>1 DEF Neighbours
<1>4. ASSUME Rec(m, k).voiding, p \in Neighbours(Rec(m, k)) \ Rec(m, k).voidPending
      PROVE  Rec(p, k)'.voiding \/ (p = Rec(m, k)'.sender /\ p \in Rec(m, k)'.voidRequests)
  <2>1. Rec(p, k).voiding \/ (p = Rec(m, k).sender /\ p \in Rec(m, k).voidRequests)
    BY <1>4 DEF VoidInv, VoidsSpread
  <2> QED BY <1>1, <1>3, <1>4, <2>1, VoidingStays
<1>5. CASE m # n
  <2>1. Rec(m, k)' = Rec(m, k)
    BY <1>1, <1>5, JournalledRecords
  <2> QED BY <1>4, <2>1
<1>6. CASE m = n
  <2>1. Covered(Rec(n, k), Rec(n, k)', k, L) /\ Evolves(Rec(n, k), Rec(n, k)') /\ Licensed(n, L)
    BY <1>1, JournalledRecords DEF Journalled
  <2>2. CASE Rec(n, k).voiding /\ p \notin Rec(n, k).voidPending
    BY <1>1, <1>4, <1>6, <2>2, VoidingStays
  <2>3. CASE <<p, k>> \in L.ask /\ p \in Rec(n, k)'.voidRequests
    <3>1. Void(p, n, k) \in net \/ p = Rec(n, k).sender
      BY <1>3, <2>1, <2>3 DEF Licensed
    <3>2. Void(p, n, k) \in net => Rec(p, k)'.voiding
      BY <1>1, <1>3, VoidIsBacked, VoidingStays
    <3>3. p = Rec(n, k).sender => p = Rec(n, k)'.sender
      BY <1>1, <1>3, <2>1, RecordFacts DEF Evolves, PathInv
    <3> QED BY <1>6, <2>3, <3>1, <3>2, <3>3
  <2>4. CASE <<p, k>> \in L.heard
    <3>1. Rec(p, k).voiding
      BY <1>3, <2>1, <2>4 DEF Licensed
    <3> QED BY <1>1, <1>3, <3>1, VoidingStays
  <2> QED BY <1>6, <2>1, <2>2, <2>3, <2>4 DEF Covered
<1> QED BY <1>5, <1>6

LEMMA SavingTells ==
    ASSUME VoidInv, NEW n \in Node, NEW t, NEW saved, NEW L, Journalled(n, t, saved, L), RecordsEvolve
    PROVE  RequestersTold'
<1>1. PathInv
  BY DEF VoidInv
<1>2. st'[n] = t /\ \A m \in Node \ {n} : st'[m] = st[m]
  BY <1>1 DEF Journalled, Change, PathInv, TypeOK
<1> SUFFICES ASSUME NEW m \in Node, NEW k \in Key, Rec(m, k)'.voidPending = {},
                    NEW p \in Rec(m, k)'.voidRequests
             PROVE  HasResult(st'[m], p, k) \/ Told(m, p, k)'
  BY DEF RequestersTold
<1>3. ASSUME Rec(m, k).voidPending = {}, p \in Rec(m, k).voidRequests, ~HasResult(st[m], p, k)
      PROVE  Told(m, p, k)'
  <2>1. Told(m, p, k)
    BY <1>3 DEF VoidInv, RequestersTold
  <2>2. Rec(m, k).voiding /\ p \in Node
    BY <1>1, <1>3, RequestFacts
  <2> QED BY <1>1, <2>1, <2>2, ToldStays
<1>4. CASE m # n
  <2>1. st'[m] = st[m] /\ Rec(m, k)' = Rec(m, k)
    BY <1>2, <1>4 DEF Rec
  <2> QED BY <1>3, <2>1
<1>5. CASE m = n /\ Answers(st[n], t)
  <2>1. t.keys[k] = Rec(n, k)' /\ st[n].keys[k] = Rec(n, k)
    BY <1>2 DEF Rec
  <2>2. HasResult(t, p, k) \/ (Rec(n, k).voidPending = {} /\ p \in Rec(n, k).voidRequests /\ ~HasResult(st[n], p, k))
    BY <1>5, <2>1 DEF Answers
  <2> QED BY <1>2, <1>3, <1>5, <2>2
<1>6. CASE m = n /\ n \in answered /\ t = [st[n] EXCEPT !.acks = @ \ call[n]]
  <2>1. t.keys = st[n].keys /\ t.acks = st[n].acks \ call[n]
    BY <1>1, <1>6, PartTypes DEF EngineState, PathInv
  <2>2. Rec(n, k)' = Rec(n, k)
    BY <1>2, <2>1 DEF Rec
  <2>3. CASE HasResult(st[n], p, k)
    <3>1. PICK j \in st[n].acks : j.peer = p /\ j.key = k /\ j.status \in VoidStatus
      BY <2>3 DEF HasResult
    <3>2. CASE j \notin call[n]
      BY <1>2, <1>6, <2>1, <3>1, <3>2 DEF HasResult
    <3>3. CASE j \in call[n]
      <4>1. j.status # "relayed"
        BY <3>1 DEF VoidStatus
      <4>2. Told(n, p, k)
        BY <1>6, <3>1, <3>3, <4>1 DEF VoidInv, AnswersNoted
      <4>3. Rec(n, k).voiding /\ p \in Node
        BY <1>1, <1>6, <2>2, RequestFacts
      <4> QED BY <1>1, <1>6, <4>2, <4>3, ToldStays
    <3> QED BY <3>2, <3>3
  <2> QED BY <1>3, <1>6, <2>2, <2>3
<1> QED BY <1>4, <1>5, <1>6 DEF Journalled

LEMMA SavingCrosses ==
    ASSUME VoidInv, NEW n \in Node, NEW t, NEW saved, NEW L, Journalled(n, t, saved, L), RecordsEvolve
    PROVE  CrossingsVoid'
<1>1. PathInv
  BY DEF VoidInv
<1> SUFFICES ASSUME NEW m \in Node, NEW p \in Node, NEW k \in Key,
                    p \in Rec(m, k)'.voidRequests, Void(m, p, k) \in net'
             PROVE  Rec(p, k)'.voiding
  BY DEF CrossingsVoid
<1>2. Void(m, p, k) \in net
  BY DEF Journalled, Void
<1>3. CASE p \in Rec(m, k).voidRequests
  BY <1>1, <1>2, <1>3, VoidingStays DEF VoidInv, CrossingsVoid
<1>4. CASE p \notin Rec(m, k).voidRequests
  <2>1. m = n /\ <<p, k>> \in L.ask
    BY <1>1, <1>4, JournalledRecords DEF Covered
  <2>2. Rec(m, k).voiding
    BY <1>1, <1>2, VoidIsBacked
  <2>3. Void(p, n, k) \in net
    BY <2>1, <2>2 DEF Journalled, Licensed
  <2> QED BY <1>1, <2>3, VoidIsBacked, VoidingStays
<1> QED BY <1>3, <1>4

LEMMA SavingNotes ==
    ASSUME VoidInv, TypeOK', NEW n \in Node, NEW t, NEW saved, NEW L, Journalled(n, t, saved, L), RecordsEvolve
    PROVE  AnswersNoted'
<1>1. PathInv
  BY DEF VoidInv
<1> SUFFICES ASSUME NEW m \in answered' PROVE call'[m] # {} /\ \A j \in call'[m] : j.status # "relayed" => Told(m, j.peer, j.key)'
  BY DEF AnswersNoted
<1>2. call'[m] = call[m] /\ (m \in answered \/ Noted(m))
  BY DEF Journalled
<1>3. m \in Node
  <2>1. answered' \subseteq Node
    BY DEF TypeOK
  <2> QED BY <2>1
<1>4. CASE m \in answered
  <2>1. call[m] # {}
    BY <1>4 DEF VoidInv, AnswersNoted
  <2>2. ASSUME NEW j \in call[m], j.status # "relayed" PROVE Told(m, j.peer, j.key)'
    <3>1. Told(m, j.peer, j.key)
      BY <1>4, <2>2 DEF VoidInv, AnswersNoted
    <3>2. Rec(m, j.key).voiding /\ j.peer \in Node /\ j.key \in Key
      BY <1>1, <1>3, <2>2, CallFacts
    <3> QED BY <1>1, <1>3, <3>1, <3>2, ToldStays
  <2> QED BY <1>2, <2>1, <2>2
<1>5. CASE Noted(m)
  <2>1. PICK j \in Job : /\ call[m] = {j}
                         /\ j.status # "relayed" => Rec(j.peer, j.key)'.voiding
                         /\ j.status = "failed to void" =>
                              \/ Rec(j.peer, j.key)'.voidFailed
                              \/ ~Rec(j.peer, j.key).voiding /\ m \in Rec(j.peer, j.key)'.voidPending
    BY <1>5 DEF Noted
  <2>2. ASSUME j.status # "relayed" PROVE Told(m, j.peer, j.key)'
    <3>1. /\ j.peer \in Node /\ j.key \in Key /\ Rec(m, j.key).voiding
          /\ j.peer \in Rec(m, j.key).voidRequests
          /\ Rec(m, j.key).delivered => j.status = "failed to void"
      BY <1>1, <1>3, <2>1, <2>2, CallFacts
    <3>2. Rec(m, j.key)'.delivered => j.status = "failed to void"
      BY <1>1, <1>3, <3>1, VoidingStays
    <3>3. ~Rec(j.peer, j.key).voiding => Void(m, j.peer, j.key) \notin net'
      <4>1. ~Rec(j.peer, j.key).voiding => Void(m, j.peer, j.key) \notin net
        BY <1>3, <3>1 DEF VoidInv, CrossingsVoid
      <4> QED BY <4>1 DEF Journalled, Void
    <3> QED BY <2>1, <2>2, <3>2, <3>3 DEF Told
  <2> QED BY <1>2, <2>1, <2>2
<1> QED BY <1>2, <1>4, <1>5

LEMMA SavingKeepsVoids ==
    ASSUME VoidInv, TypeOK', NEW n \in Node, NEW saved \in BOOLEAN, Saving(n, saved)
    PROVE  VoidInv'
<1>1. PathInv /\ PathInv'
  BY SavingKeepsPaths DEF VoidInv
<1>2. PICK t, L : Journalled(n, t, saved, L)
  BY <1>1, SavingIsJournalled
<1>3. RecordsEvolve
  BY <1>1, <1>2, RecordsStep DEF PathInv, Journalled
<1> QED BY <1>1, <1>2, <1>3, SavingSpreads, SavingTells, SavingCrosses, SavingNotes DEF VoidInv

(* A step that leaves every journal alone: it posts a void only to those   *)
(* the sender waits for.                                                   *)
LEMMA QuietVoidStep ==
    ASSUME VoidInv, PathInv', st' = st,
           \A m \in net' : m \in net \/ m.kind # "void" \/ m.to \in Rec(m.from, m.key).voidPending,
           \A n \in answered' : n \in answered /\ call'[n] = call[n]
    PROVE  VoidInv'
<1>1. PathInv /\ \A n \in Node, k \in Key : Rec(n, k)' = Rec(n, k)
  BY DEF VoidInv, Rec
<1>2. VoidsSpread'
  BY DEF VoidInv, VoidsSpread, Rec
<1>3. ASSUME NEW n \in Node, NEW p \in Node, NEW k \in Key,
             Void(n, p, k) \in net', p \notin Rec(n, k).voidPending
      PROVE  Void(n, p, k) \in net
  BY <1>3 DEF Void
<1>4. ASSUME NEW n \in Node, NEW p \in Node, NEW k \in Key, Rec(n, k).voidPending = {}, Told(n, p, k)
      PROVE  Told(n, p, k)'
  BY <1>1, <1>3, <1>4 DEF Told
<1>5. RequestersTold'
  <2> SUFFICES ASSUME NEW n \in Node, NEW k \in Key, Rec(n, k)'.voidPending = {},
                      NEW p \in Rec(n, k)'.voidRequests
               PROVE  HasResult(st'[n], p, k) \/ Told(n, p, k)'
    BY DEF RequestersTold
  <2>1. Rec(n, k).voidPending = {} /\ p \in Rec(n, k).voidRequests
    BY <1>1
  <2>2. HasResult(st[n], p, k) \/ Told(n, p, k)
    BY <2>1 DEF VoidInv, RequestersTold
  <2>3. p \in Node
    BY <1>1, <2>1, RequestFacts
  <2> QED BY <1>4, <2>1, <2>2, <2>3
<1>6. CrossingsVoid'
  <2> SUFFICES ASSUME NEW n \in Node, NEW p \in Node, NEW k \in Key,
                      p \in Rec(n, k)'.voidRequests, Void(n, p, k) \in net'
               PROVE  Rec(p, k)'.voiding
    BY DEF CrossingsVoid
  <2>1. p \in Rec(n, k).voidRequests /\ p \notin Rec(n, k).voidPending
    BY <1>1, RequestFacts
  <2>2. Void(n, p, k) \in net
    BY <1>3, <2>1
  <2>3. Rec(p, k).voiding
    BY <2>1, <2>2 DEF VoidInv, CrossingsVoid
  <2> QED BY <1>1, <2>3
<1>7. AnswersNoted'
  <2> SUFFICES ASSUME NEW n \in answered'
               PROVE  call'[n] # {} /\ \A j \in call'[n] : j.status # "relayed" => Told(n, j.peer, j.key)'
    BY DEF AnswersNoted
  <2>1. n \in answered /\ n \in Node /\ call'[n] = call[n] /\ call[n] # {}
    BY DEF VoidInv, AnswersNoted, PathInv, TypeOK
  <2>2. ASSUME NEW j \in call[n], j.status # "relayed" PROVE Told(n, j.peer, j.key)'
    <3>1. Told(n, j.peer, j.key)
      BY <2>1, <2>2 DEF VoidInv, AnswersNoted
    <3>2. j.peer \in Node /\ j.key \in Key /\ Rec(n, j.key).voidPending = {}
      BY <1>1, <2>1, <2>2, CallFacts
    <3> QED BY <1>4, <2>1, <3>1, <3>2
  <2> QED BY <2>1, <2>2
<1> QED BY <1>2, <1>5, <1>6, <1>7 DEF VoidInv

LEMMA VolatileKeepsVoids ==
    ASSUME VoidInv, PathInv', NEW n \in Node, Volatile(n)
    PROVE  VoidInv'
<1> USE DEF worker
<1>0. TypeOK
  BY DEF VoidInv, PathInv
<1>1. ASSUME NEW k \in Key, Lapse(n, k) PROVE VoidInv'
  BY <1>1, QuietVoidStep DEF Lapse
<1>2. CASE TakeJobs(n)
  BY <1>2, QuietVoidStep DEF TakeJobs
<1>3. ASSUME NEW j \in jobs[n], SendAck(n, j) PROVE VoidInv'
  <2>1. /\ st' = st /\ net' = net \cup {Ack(n, j)} /\ answered' = answered /\ call[n] = {}
        /\ call' = [call EXCEPT ![n] = {j}]
    BY <1>3 DEF SendAck
  <2>2. Ack(n, j).kind # "void"
    BY DEF Ack
  <2>3. n \notin answered
    BY <2>1 DEF VoidInv, AnswersNoted
  <2>4. \A m \in answered' : m \in answered /\ call'[m] = call[m]
    BY <1>0, <2>1, <2>3 DEF TypeOK
  <2> QED BY <2>1, <2>2, <2>4, QuietVoidStep
<1>4. CASE AckFails(n) \/ AckTimesOut(n)
  <2>1. st' = st /\ net' = net /\ answered' = answered \ {n} /\ call' = [call EXCEPT ![n] = {}]
    BY <1>4 DEF AckFails, AckTimesOut, EndCall
  <2>2. \A m \in answered' : m \in answered /\ call'[m] = call[m]
    BY <1>0, <2>1 DEF TypeOK
  <2> QED BY <2>1, <2>2, QuietVoidStep
<1>5. ASSUME NEW k \in Key, SendVoids(n, k) PROVE VoidInv'
  <2>1. /\ UNCHANGED <<st, call, answered>>
        /\ net' = net \cup {Void(n, p, k) : p \in Rec(n, k).voidPending}
    BY <1>5 DEF SendVoids, Rec
  <2>2. \A m \in net' : m \in net \/ m.to \in Rec(m.from, m.key).voidPending
    BY <2>1 DEF Void
  <2> QED BY <2>1, <2>2, QuietVoidStep
<1>6. CASE Crash(n)
  BY <1>6, QuietVoidStep DEF Crash
<1>7. CASE Restart(n)
  <2>1. st' = st /\ net' = net /\ answered' = answered \ {n} /\ call' = [call EXCEPT ![n] = {}]
    BY <1>7 DEF Restart
  <2>2. \A m \in answered' : m \in answered /\ call'[m] = call[m]
    BY <1>0, <2>1 DEF TypeOK
  <2> QED BY <2>1, <2>2, QuietVoidStep
<1> QED BY <1>1, <1>2, <1>3, <1>4, <1>5, <1>6, <1>7 DEF Volatile

LEMMA NetworkKeepsVoids ==
    ASSUME VoidInv, PathInv', Network
    PROVE  VoidInv'
<1>1. st' = st /\ answered' = answered /\ call' = call /\ net' \subseteq net
  BY DEF Network, Refuse, Lose, worker
<1> QED BY <1>1, QuietVoidStep

LEMMA InitVoids == Init => VoidInv
<1> SUFFICES ASSUME Init PROVE VoidInv
  OBVIOUS
<1>1. \A n \in Node, k \in Key : ~Rec(n, k).voiding /\ Rec(n, k).voidRequests = {}
  BY DEF Init, EmptyEngine, Absent, Rec
<1>2. answered = {}
  BY DEF Init
<1> QED BY <1>1, <1>2, InitPaths DEF VoidInv, VoidsSpread, RequestersTold, CrossingsVoid, AnswersNoted

LEMMA VoidsKept == VoidInv /\ [Next]_vars => VoidInv'
<1> SUFFICES ASSUME VoidInv, [Next]_vars PROVE VoidInv'
  OBVIOUS
<1>1. PathInv'
  BY PathsKept DEF VoidInv
<1>2. TypeOK'
  BY <1>1 DEF PathInv
<1>3. CASE UNCHANGED vars
  BY <1>1, <1>3, QuietVoidStep DEF vars, worker
<1> QED BY <1>1, <1>2, <1>3, SavingKeepsVoids, VolatileKeepsVoids, NetworkKeepsVoids DEF Next

LEMMA VoidsAlways == Spec => []VoidInv
BY InitVoids, VoidsKept, PTL DEF Spec

(* When a void has come to its end at a node, no neighbour of that node    *)
(* still offers the key: the next hop discards it, and so does the sender, *)
(* or the result that makes it do so is in the outbox.  The property is    *)
(* the closing rule of finishVoid, seen across nodes that crash and        *)
(* messages that overtake each other.                                      *)
THEOREM VoidsReachNeighbours == Spec => []HopVoided
<1>1. VoidInv => HopVoided
  <2> SUFFICES ASSUME VoidInv, NEW n \in Node, NEW k \in Key, Rec(n, k).voiding, Rec(n, k).voidPending = {}
               PROVE  /\ Rec(n, k).sent => Rec(Rec(n, k).next, k).voiding
                      /\ Rec(n, k).sender \in Node =>
                            Rec(Rec(n, k).sender, k).voiding \/ HasResult(st[n], Rec(n, k).sender, k)
    BY DEF HopVoided, HasResult
  <2> DEFINE r == Rec(n, k)
  <2>1. \A p \in Neighbours(r) : Rec(p, k).voiding \/ (p = r.sender /\ p \in r.voidRequests)
    BY DEF VoidInv, VoidsSpread
  <2>2. r.sent => r.next \in Neighbours(r) /\ r.next # r.sender
    BY RecordFacts DEF VoidInv, PathInv, Neighbours, Fit
  <2>3. r.sender \in Node => r.sender \in Neighbours(r)
    BY NameAssumption DEF Neighbours, Peers
  <2>4. r.sender \in r.voidRequests => HasResult(st[n], r.sender, k) \/ Rec(r.sender, k).voiding
    BY DEF VoidInv, RequestersTold, Told
  <2> QED BY <2>1, <2>2, <2>3, <2>4
<1> QED BY <1>1, VoidsAlways, PTL

(* A node that consumed its copy never finishes a void behind the back of  *)
(* those who asked for it: the result "failed to void" is in its outbox,   *)
(* or they noted the failure, or they wait for this node and will ask      *)
(* again.  It is about enqueue, finishVoid and the void results of         *)
(* Acknowledge together with the worker's removal of answered results.     *)
THEOREM ConsumptionIsAdmitted == Spec => []FailureNotForgotten
<1>1. VoidInv => FailureNotForgotten
  <2> SUFFICES ASSUME VoidInv, NEW n \in Node, NEW k \in Key, NEW p \in Rec(n, k).voidRequests,
                      Rec(n, k).delivered, Rec(n, k).voidPending = {}
               PROVE  \/ [peer |-> p, key |-> k, status |-> "failed to void"] \in st[n].acks
                      \/ Rec(p, k).voidFailed
                      \/ n \in Rec(p, k).voidPending
    BY DEF FailureNotForgotten
  <2>1. HasResult(st[n], p, k) \/ Told(n, p, k)
    BY DEF VoidInv, RequestersTold
  <2>2. CASE HasResult(st[n], p, k)
    <3>1. PICK j \in st[n].acks : j.peer = p /\ j.key = k /\ j.status \in VoidStatus
      BY <2>2 DEF HasResult
    <3>2. j \in Job /\ j.status # "relayed"
      BY <3>1 DEF VoidInv, PathInv, TypeOK, EngineState, VoidStatus
    <3>3. Owes(Rec(n, k), p, j.status)
      BY <3>1 DEF VoidInv, PathInv, Linked, Tidy, Truthful, Rec
    <3>4. j.status = "failed to void"
      BY <3>2, <3>3 DEF Owes
    <3>5. j = [peer |-> p, key |-> k, status |-> "failed to void"]
      BY <3>1, <3>2, <3>4 DEF Job
    <3> QED BY <3>1, <3>5
  <2>3. CASE Told(n, p, k)
    BY <2>3 DEF Told
  <2> QED BY <2>1, <2>2, <2>3
<1> QED BY <1>1, VoidsAlways, PTL

-----------------------------------------------------------------------------
(* The network implements KeyDelivery.                                     *)

MasterOf(r) ==
    IF r.role = "none" THEN "none" ELSE IF r.delivered THEN "given"
    ELSE IF r.voiding THEN "dead" ELSE IF r.ready THEN "offered" ELSE "stored"

SlaveOf(r) ==
    IF r.role = "none" THEN "none" ELSE IF r.delivered THEN "given"
    ELSE IF r.voiding THEN "dead" ELSE "offered"

LEMMA CopiesOf ==
    /\ MasterCopy = [k \in Key |-> MasterOf(Rec(Source, k))]
    /\ SlaveCopy = [k \in Key |-> SlaveOf(Rec(Target, k))]
    /\ MasterCopy' = [k \in Key |-> MasterOf(Rec(Source, k)')]
    /\ SlaveCopy' = [k \in Key |-> SlaveOf(Rec(Target, k)')]
BY DEF MasterCopy, SlaveCopy, MasterOf, SlaveOf, Known, Rec

(* What may become of either copy in a step that delivers nothing.         *)
LEMMA MasterMoves ==
    ASSUME NEW r, NEW q, NEW k, NEW L, Fit(r), Fit(q), Evolves(r, q), Covered(r, q, k, L),
           k \notin L.give, \A p : <<p, k>> \notin L.new, MasterOf(q) # MasterOf(r)
    PROVE  \/ MasterOf(r) \in {"stored", "offered"} /\ MasterOf(q) = "dead"
           \/ MasterOf(r) = "stored" /\ MasterOf(q) = "offered" /\ k \in L.ready /\ k \in L.touch
BY DEF MasterOf, Evolves, Covered, Fit

LEMMA SlaveMoves ==
    ASSUME NEW r, NEW q, NEW k, NEW L, Fit(r), Fit(q), Evolves(r, q), Covered(r, q, k, L),
           k \notin L.give, SlaveOf(q) # SlaveOf(r)
    PROVE  /\ k \in L.touch
           /\ \/ SlaveOf(r) = "none" /\ SlaveOf(q) \in {"offered", "dead"} /\ <<q.sender, k>> \in L.new
              \/ SlaveOf(r) = "offered" /\ SlaveOf(q) = "dead"
BY DEF SlaveOf, Evolves, Covered, Fit

(* A step under a licence to touch records, and nothing more, at most      *)
(* discards copies.                                                        *)
LEMMA TouchingDiscards ==
    ASSUME PathInv, NEW n \in Node, NEW t, NEW saved, NEW L, Change(n, t, saved), Moves(st[n], t, L),
           L.new = {}, L.ready = {}, L.give = {}
    PROVE  EndToEnd!Discard
<1>1. /\ \A k \in Key : /\ Fit(Rec(n, k)) /\ Fit(Rec(n, k)')
                        /\ Evolves(Rec(n, k), Rec(n, k)') /\ Covered(Rec(n, k), Rec(n, k)', k, L)
      /\ \A m \in Node \ {n}, k \in Key : Rec(m, k)' = Rec(m, k)
  BY ChangedRecords
<1>2. ASSUME NEW k \in Key, MasterCopy'[k] # MasterCopy[k]
      PROVE  MasterCopy[k] \in {"stored", "offered"} /\ MasterCopy'[k] = "dead"
  <2>1. n = Source
    BY <1>1, <1>2, CopiesOf, EndpointAssumption
  <2> QED BY <1>1, <1>2, <2>1, CopiesOf, MasterMoves
<1>3. ASSUME NEW k \in Key, SlaveCopy'[k] # SlaveCopy[k]
      PROVE  /\ SlaveCopy[k] \in {"none", "offered"} /\ SlaveCopy'[k] = "dead"
             /\ MasterCopy[k] # "none"
  <2>1. n = Target
    BY <1>1, <1>3, CopiesOf, EndpointAssumption
  <2>2. SlaveOf(Rec(Target, k)) = "offered" /\ SlaveOf(Rec(Target, k)') = "dead"
    BY <1>1, <1>3, <2>1, CopiesOf, SlaveMoves
  <2>3. Known(st[Source], k)
    BY <2>2, EndpointAssumption DEF SlaveOf, PathInv, Linked, Known, Rec
  <2> QED BY <2>2, <2>3, CopiesOf DEF MasterOf, Known, Rec
<1>4. MasterCopy' \in [Key -> EndToEnd!MasterState] /\ SlaveCopy' \in [Key -> EndToEnd!SlaveState]
  BY CopiesOf DEF MasterOf, SlaveOf, EndToEnd!MasterState, EndToEnd!SlaveState
<1> QED BY <1>2, <1>3, <1>4 DEF EndToEnd!Discard

(* A handler touches one key.  At the source it may publish the copy of    *)
(* the master, and only when the target has the key; at the target it may  *)
(* bring the copy of the slave, and only when the source has the key.      *)
LEMMA HandlerPromises ==
    ASSUME PathInv, NEW n \in Node, NEW t, NEW saved, NEW L, NEW k \in Key,
           Change(n, t, saved), Moves(st[n], t, L), Licensed(n, L),
           L.touch = {k}, L.give = {}, n = Source => L.new = {},
           n = Target => Known(st[Source], k)
    PROVE  EndToEnd!Next
<1>1. /\ \A x \in Key : /\ Fit(Rec(n, x)) /\ Fit(Rec(n, x)')
                        /\ Evolves(Rec(n, x), Rec(n, x)') /\ Covered(Rec(n, x), Rec(n, x)', x, L)
      /\ \A m \in Node \ {n}, x \in Key : Rec(m, x)' = Rec(m, x)
  BY ChangedRecords
<1>2. \A x \in Key \ {k} : Rec(n, x)' = Rec(n, x)
  BY <1>1 DEF Covered
<1>3. MasterCopy' \in [Key -> EndToEnd!MasterState] /\ SlaveCopy' \in [Key -> EndToEnd!SlaveState]
  BY CopiesOf DEF MasterOf, SlaveOf, EndToEnd!MasterState, EndToEnd!SlaveState
<1>4. CASE n \notin {Source, Target}
  <2>1. MasterCopy' = MasterCopy /\ SlaveCopy' = SlaveCopy
    BY <1>1, <1>4, CopiesOf, EndpointAssumption
  <2> QED BY <2>1 DEF EndToEnd!Next, EndToEnd!Discard
<1>5. CASE n = Source
  <2>1. SlaveCopy' = SlaveCopy
    BY <1>1, <1>5, CopiesOf, EndpointAssumption
  <2>2. \A x \in Key \ {k} : MasterCopy'[x] = MasterCopy[x]
    BY <1>2, <1>5, CopiesOf
  <2>3. CASE MasterCopy'[k] = MasterCopy[k] \/ (MasterCopy[k] \in {"stored", "offered"} /\ MasterCopy'[k] = "dead")
    BY <1>3, <2>1, <2>2, <2>3 DEF EndToEnd!Next, EndToEnd!Discard
  <2>4. CASE MasterCopy[k] = "stored" /\ MasterCopy'[k] = "offered" /\ k \in L.ready
    <3>1. SlaveCopy[k] # "none"
      BY <1>5, <2>4, CopiesOf, EndpointAssumption DEF Licensed, SlaveOf, Known, Rec
    <3>2. MasterCopy' = [x \in Key |-> IF x \in {k} THEN "offered" ELSE MasterCopy[x]]
      BY <2>2, <2>4, CopiesOf
    <3> QED BY <2>1, <2>4, <3>1, <3>2 DEF EndToEnd!Next, EndToEnd!Offer, EndToEnd!Move
  <2> QED BY <1>1, <1>5, <2>3, <2>4, CopiesOf, MasterMoves
<1>6. CASE n = Target
  <2>1. MasterCopy' = MasterCopy
    BY <1>1, <1>6, CopiesOf, EndpointAssumption
  <2>2. \A x \in Key \ {k} : SlaveCopy'[x] = SlaveCopy[x]
    BY <1>2, <1>6, CopiesOf
  <2>3. MasterCopy[k] # "none"
    BY <1>6, CopiesOf DEF MasterOf, Known, Rec
  <2>4. CASE SlaveCopy'[k] = SlaveCopy[k] \/ (SlaveCopy[k] \in {"none", "offered"} /\ SlaveCopy'[k] = "dead")
    BY <1>3, <2>1, <2>2, <2>3, <2>4 DEF EndToEnd!Next, EndToEnd!Discard
  <2>5. CASE SlaveCopy[k] = "none" /\ SlaveCopy'[k] = "offered"
    <3>1. SlaveCopy' = [x \in Key |-> IF x \in {k} THEN "offered" ELSE SlaveCopy[x]]
      BY <2>2, <2>5, CopiesOf
    <3> QED BY <2>1, <2>3, <2>5, <3>1 DEF EndToEnd!Next, EndToEnd!Arrive, EndToEnd!Move
  <2> QED BY <1>1, <1>6, <2>4, <2>5, CopiesOf, SlaveMoves
<1> QED BY <1>4, <1>5, <1>6

LEMMA StorePromises ==
    ASSUME PathInv, NEW k \in Key, NEW saved, NEW n \in Node, StoreKey(n, k, saved)
    PROVE  EndToEnd!Store(k)
<1>1. /\ n = Source /\ ~Known(st[Source], k)
      /\ st'[Source] = Stored(st[Source], k) /\ st'[Target] = st[Target]
  BY EndpointAssumption DEF StoreKey, Change, PathInv, TypeOK
<1>2. st[Source] \in EngineState
  BY EndpointAssumption DEF PathInv, TypeOK
<1>3. /\ \A x \in Key \ {k} : Rec(Source, x)' = Rec(Source, x)
      /\ Rec(Source, k)' = [Absent EXCEPT !.role = "source", !.material = TRUE]
      /\ \A x \in Key : Rec(Target, x)' = Rec(Target, x)
  BY <1>1, <1>2 DEF Stored, EngineState, Rec
<1>4. MasterCopy[k] = "none" /\ SlaveCopy' = SlaveCopy
  BY <1>1, <1>3, CopiesOf DEF MasterOf, Known, Rec
<1>5. MasterOf(Rec(Source, k)') = "stored"
  BY <1>3 DEF MasterOf, Absent
<1>6. MasterCopy' = [x \in Key |-> IF x \in {k} THEN "stored" ELSE MasterCopy[x]]
  BY <1>3, <1>5, CopiesOf
<1> QED BY <1>4, <1>6 DEF EndToEnd!Store, EndToEnd!Move

LEMMA DeliveryPromises ==
    ASSUME PathInv, NEW n \in {Source, Target}, NEW B \in SUBSET Key, NEW saved,
           Change(n, Delivered(st[n], B), saved), B # {},
           \A k \in B : /\ Rec(n, k).role # "none" /\ Rec(n, k).ready
                       /\ ~Rec(n, k).voiding /\ ~Rec(n, k).delivered
    PROVE  EndToEnd!GiveMaster(B) \/ EndToEnd!GiveSlave(B)
<1>1. n \in Node /\ st[n] \in EngineState
  BY EndpointAssumption DEF PathInv, TypeOK
<1>2. /\ \A k \in Key \ B : Rec(n, k)' = Rec(n, k)
      /\ \A k \in B : Rec(n, k)'.delivered /\ Rec(n, k)'.role # "none"
      /\ \A m \in Node \ {n}, k \in Key : Rec(m, k)' = Rec(m, k)
  <2>1. Moves(st[n], Delivered(st[n], B), Giving(B))
    <3>1. Tidy(st[n]) /\ \A k \in B : Known(st[n], k) /\ ~st[n].keys[k].voiding
      BY <1>1 DEF PathInv, Linked, Known, Rec
    <3>2. B \subseteq Giving(B).touch /\ B \subseteq Giving(B).give
      BY DEF Giving, Touching
    <3> QED BY <3>1, <3>2, DeliveredMoves
  <2>2. \A k \in B : Delivered(st[n], B).keys[k].delivered
    BY <1>1, DeliveredOnward
  <2>3. /\ \A k \in Key : /\ Rec(n, k)' = Delivered(st[n], B).keys[k]
                          /\ Evolves(Rec(n, k), Rec(n, k)')
                          /\ Covered(Rec(n, k), Rec(n, k)', k, Giving(B))
        /\ \A m \in Node \ {n}, k \in Key : Rec(m, k)' = Rec(m, k)
    BY <1>1, <2>1, ChangedRecords
  <2>4. Giving(B).touch = B
    BY DEF Giving, Touching
  <2> QED BY <2>2, <2>3, <2>4 DEF Covered, Evolves
<1>3. CASE n = Source
  <2>1. SlaveCopy' = SlaveCopy /\ \A k \in B : MasterCopy[k] = "offered"
    BY <1>2, <1>3, CopiesOf, EndpointAssumption DEF MasterOf
  <2>2. MasterCopy' = [k \in Key |-> IF k \in B THEN "given" ELSE MasterCopy[k]]
    BY <1>2, <1>3, CopiesOf DEF MasterOf
  <2> QED BY <2>1, <2>2 DEF EndToEnd!GiveMaster, EndToEnd!Move
<1>4. CASE n = Target
  <2>1. MasterCopy' = MasterCopy /\ \A k \in B : SlaveCopy[k] = "offered"
    BY <1>2, <1>4, CopiesOf, EndpointAssumption DEF SlaveOf
  <2>2. SlaveCopy' = [k \in Key |-> IF k \in B THEN "given" ELSE SlaveCopy[k]]
    BY <1>2, <1>4, CopiesOf DEF SlaveOf
  <2> QED BY <2>1, <2>2 DEF EndToEnd!GiveSlave, EndToEnd!Move
<1> QED BY <1>3, <1>4

LEMMA SavingPromises ==
    ASSUME PathInv, NEW n \in Node, NEW saved \in BOOLEAN, Saving(n, saved)
    PROVE  EndToEnd!Next
<1>0. Tidy(st[n]) /\ TypeOK
  BY DEF PathInv, Linked
<1>1. ASSUME NEW k \in Key, StoreKey(n, k, saved) PROVE EndToEnd!Next
  BY <1>1, StorePromises DEF EndToEnd!Next
<1>2. ASSUME NEW t, NEW B, Change(n, t, saved), Moves(st[n], t, Touching(B)) PROVE EndToEnd!Next
  <2>1. Touching(B).new = {} /\ Touching(B).ready = {} /\ Touching(B).give = {}
    BY DEF Touching
  <2> QED BY <1>2, <2>1, TouchingDiscards DEF EndToEnd!Next
<1>3. ASSUME NEW B \in SUBSET Key, NEW t \in Token, ReserveKeys(n, B, t, saved) PROVE EndToEnd!Next
  <2>1. Change(n, WithToken(st[n], B, t), saved)
    BY <1>3 DEF ReserveKeys
  <2>2. Moves(st[n], WithToken(st[n], B, t), Touching(B))
    BY <1>0, WithTokenMoves DEF Touching
  <2> QED BY <1>2, <2>1, <2>2
<1>4. ASSUME NEW t \in Token, ConsumeReservation(n, t, saved) PROVE EndToEnd!Next
  <2> DEFINE B == Holding(st[n], t)
  <2>1. /\ n = Source /\ B \in SUBSET Key /\ B # {} /\ Change(n, Delivered(st[n], B), saved)
        /\ \A k \in B : /\ Rec(n, k).role # "none" /\ Rec(n, k).ready
                       /\ ~Rec(n, k).voiding /\ ~Rec(n, k).delivered
    BY <1>4 DEF ConsumeReservation, Holding, Usable, Rec
  <2> HIDE DEF B
  <2> QED BY <2>1, DeliveryPromises DEF EndToEnd!Next
<1>5. ASSUME NEW B \in SUBSET Key, ConsumePeerKeys(n, B, saved) PROVE EndToEnd!Next
  <2>1. /\ n = Target /\ B # {} /\ Change(n, Delivered(st[n], B), saved)
        /\ \A k \in B : /\ Rec(n, k).role # "none" /\ Rec(n, k).ready
                       /\ ~Rec(n, k).voiding /\ ~Rec(n, k).delivered
    BY <1>5 DEF ConsumePeerKeys, Usable, Rec
  <2> QED BY <2>1, DeliveryPromises DEF EndToEnd!Next
<1>6. ASSUME NEW k \in Key, InvalidateKey(n, k, saved) PROVE EndToEnd!Next
  <2>1. Change(n, VoidKey(st[n], k, {}), saved) /\ Known(st[n], k)
    BY <1>6 DEF InvalidateKey
  <2>2. Moves(st[n], VoidKey(st[n], k, {}), Touching({k}))
    BY <1>0, <2>1, VoidKeyMoves DEF Touching
  <2> QED BY <1>2, <2>1, <2>2
<1>7. ASSUME Sweep(n, saved) PROVE EndToEnd!Next
  <2>1. Change(n, Swept(st[n], lapsed[n]), saved) /\ lapsed[n] \in SUBSET Key
    BY <1>0, <1>7 DEF Sweep, TypeOK
  <2>2. Moves(st[n], Swept(st[n], lapsed[n]), Touching(Key))
    BY <1>0, <2>1, SweptMoves DEF Touching
  <2> QED BY <1>2, <2>1, <2>2
<1>8. ASSUME AckReturn(n, saved) PROVE EndToEnd!Next
  <2>1. Change(n, [st[n] EXCEPT !.acks = @ \ call[n]], saved)
    BY <1>8 DEF AckReturn
  <2>2. Moves(st[n], [st[n] EXCEPT !.acks = @ \ call[n]], Touching({}))
    BY <1>0, FewerResultsMove
  <2> QED BY <1>2, <2>1, <2>2
<1>9. ASSUME NEW k \in Key, NEW p \in Node, Transmit(n, k, p, saved) PROVE EndToEnd!Next
  <2>1. /\ Change(n, Pinned(st[n], k, p), saved)
        /\ Unsettled(st[n], k, Lapsed(n, k)) /\ p \in NextHops(st[n], k, Candidates(n, k))
    BY <1>9 DEF Transmit
  <2>2. Moves(st[n], Pinned(st[n], k, p), Touching({k}))
    BY <1>0, <2>1, PinnedMoves DEF Touching, Candidates
  <2> QED BY <1>2, <2>1, <2>2
<1>10. ASSUME NEW k \in Key, NEW p \in Node, HandleTransfer(n, p, k, saved) PROVE EndToEnd!Next
  <2> DEFINE L == Receiving(n, p, k)
  <2>1. Change(n, Accepted(st[n], p, k, n = Target, Lapsed(n, k)), saved)
    BY <1>10 DEF HandleTransfer, Arrives
  <2>2. /\ Moves(st[n], Accepted(st[n], p, k, n = Target, Lapsed(n, k)), L)
        /\ Licensed(n, L) /\ n # Source /\ Known(st[Source], k)
    BY <1>10, TransferLicensed
  <2>3. L.touch = {k} /\ L.give = {}
    BY DEF Receiving, Obeying, Touching
  <2> HIDE DEF L
  <2> QED BY <2>1, <2>2, <2>3, HandlerPromises
<1>11. ASSUME NEW k \in Key, NEW p \in Node, HandleVoid(n, p, k, saved) PROVE EndToEnd!Next
  <2> DEFINE L == Obeying(n, p, k)
  <2>1. Change(n, Voided(st[n], p, k, n = Target), saved)
    BY <1>11 DEF HandleVoid, Arrives
  <2>2. /\ Moves(st[n], Voided(st[n], p, k, n = Target), L)
        /\ Licensed(n, L) /\ Known(st[Source], k)
    BY <1>11, VoidLicensed
  <2>3. L.touch = {k} /\ L.give = {} /\ (n = Source => L.new = {})
    BY <2>2 DEF Obeying, Touching
  <2> HIDE DEF L
  <2> QED BY <2>1, <2>2, <2>3, HandlerPromises
<1>12. ASSUME NEW j \in Job, NEW p \in Node, HandleAck(n, p, j, saved) PROVE EndToEnd!Next
  <2> DEFINE L == Hearing(p, j.key, j.status)
  <2>1. /\ Change(n, Acknowledged(st[n], p, j.key, j.status, Lapsed(n, j.key)), saved)
        /\ j.key \in Key /\ Known(st[n], j.key)
    BY <1>12 DEF HandleAck, CanAcknowledge, Job
  <2>2. /\ Moves(st[n], Acknowledged(st[n], p, j.key, j.status, Lapsed(n, j.key)), L)
        /\ Licensed(n, L)
    BY <1>12, AckLicensed
  <2>3. L.touch = {j.key} /\ L.give = {} /\ L.new = {}
    BY DEF Hearing, Touching
  <2> HIDE DEF L
  <2>4. Known(st[Source], j.key)
    BY <2>1 DEF PathInv, Linked
  <2> QED BY <2>1, <2>2, <2>3, <2>4, HandlerPromises
<1> QED BY <1>1, <1>3, <1>4, <1>5, <1>6, <1>7, <1>8, <1>9, <1>10, <1>11, <1>12 DEF Saving

LEMMA InitPromises == Init => EndToEnd!Init
BY CopiesOf, EndpointAssumption DEF Init, EmptyEngine, Absent, EndToEnd!Init, MasterCopy, SlaveCopy, Known, Rec

LEMMA NextPromises == PathInv /\ [Next]_vars => [EndToEnd!Next]_<<MasterCopy, SlaveCopy>>
<1> SUFFICES ASSUME PathInv, [Next]_vars PROVE [EndToEnd!Next]_<<MasterCopy, SlaveCopy>>
  OBVIOUS
<1>1. CASE st' = st
  <2>1. MasterCopy' = MasterCopy /\ SlaveCopy' = SlaveCopy
    BY <1>1 DEF MasterCopy, SlaveCopy, Known, Rec
  <2> QED BY <2>1
<1>2. CASE \E n \in Node, saved \in BOOLEAN : Saving(n, saved)
  BY <1>2, SavingPromises
<1>3. CASE UNCHANGED vars
  BY <1>1, <1>3 DEF vars
<1>4. ASSUME NEW n \in Node, Volatile(n) PROVE st' = st
  BY <1>4, VolatileSteps DEF PathInv
<1>5. CASE Network
  BY <1>1, <1>5, NetworkSteps DEF PathInv
<1> QED BY <1>1, <1>2, <1>3, <1>4, <1>5 DEF Next

(* Whatever is lost, delayed, repeated or forgotten in a crash, and over   *)
(* any network of relays, the two ends behave as the copies of             *)
(* KeyDelivery: Reserve is never offered a key the target does not have    *)
(* (or has used or discarded), and a copy that was consumed or voided at   *)
(* either end never comes back.                                            *)
THEOREM NetworkKeepsPromise == Spec => PromiseKept
BY InitPromises, NextPromises, PathsAlways, PTL DEF Spec, PromiseKept, EndToEnd!Spec
=============================================================================
