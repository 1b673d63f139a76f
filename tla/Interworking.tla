---------------------------- MODULE Interworking ----------------------------
(***************************************************************************)
(* One relay engine among the KMS of other vendors: several associations   *)
(* share its records, its capacity and its routes, a request carries       *)
(* several keys or a whole association, and the peers send whatever the    *)
(* interface allows, as often and in whatever order they like.             *)
(*                                                                         *)
(* RelayNetwork connects engines of this program with each other; here the *)
(* neighbours are any programs that speak ETSI 020.  Reservations, an      *)
(* operator, failed writes and lost requests are modelled there.           *)
(***************************************************************************)
EXTENDS RelayEngine, SequencesExt

CONSTANTS
    Association,    \* the enabled associations: records with a master and a slave SAE
    NoAssociation,  \* what an unused identifier belongs to
    LocalSAE,       \* the SAEs of this node
    Route,          \* Route[x]: the next hops of the remote slave SAE x, in order
    Incoming,       \* the peers that may send transfers
    Content,        \* what a key identifier may stand for: material and extensions
    NoContent,      \* the content of a record that never received one
    Capacity,       \* records the engine may ever create, terminal ones included
    MaxBatch,       \* bound: keys in one request
    MayLapse,       \* bound: keys whose lifetime may end
    MaySettle,      \* bound: keys that peers report on or name in a void
    MayVoidAll      \* bound: <<peer, association>> that may be voided as a whole

Slave == {a.slave : a \in Association}
Local(x) == x \in LocalSAE

(* peering.Config.Validate: a route is a list of distinct peers, and no    *)
(* route leads to an SAE of this node.                                     *)
ASSUME RoutingAssumption ==
    /\ Incoming \subseteq Node
    /\ \A x \in DOMAIN Route :
        /\ Route[x] \in Seq(Node) \ {<< >>} /\ IsInjective(Route[x])
        /\ ~Local(x)

ASSUME AbsenceAssumption == NoContent \notin Content /\ NoAssociation \notin Association

ASSUME LimitAssumption ==
    /\ Capacity \in Nat \ {0}
    /\ MaxBatch \in Nat \ {0}
    /\ MayLapse \subseteq Key /\ MaySettle \subseteq Key
    /\ MayVoidAll \subseteq Node \X Association

VARIABLES
    st,         \* the engine state that RelayEngine describes
    info,       \* info[k]: association, content and candidate hops of the record k
    cursor,     \* cursor[x]: where in its route the next key for x starts
    empties,    \* <<peer, association>>: "key not present" results without identifiers
    jobs,       \* results of the worker's snapshot still to be sent
    lapsed,     \* keys whose lifetime is over
    agreed,     \* history: agreed[k], the transfers of k that were answered 202
    asked,      \* history: <<peer, key>> of every void answered 202
    told        \* history: told[p][k], the last result for k that p took

engine == <<st, info, cursor, empties>>
history == <<agreed, asked, told>>
vars == <<engine, jobs, lapsed, history>>

NoInfo == [pair |-> NoAssociation, content |-> NoContent, hops |-> << >>]

(* The batches of a request: Validate refuses a repeated identifier.       *)
Batches(K) == {b \in BoundedSeq(K, MaxBatch) : b # << >> /\ IsInjective(b)}

Rec(k) == st.keys[k]

Init ==
    /\ st = EmptyEngine
    /\ info = [k \in Key |-> NoInfo]
    /\ cursor = [x \in DOMAIN Route |-> 1]
    /\ empties = {}
    /\ jobs = {}
    /\ lapsed = {}
    /\ agreed = [k \in Key |-> {}]
    /\ asked = {}
    /\ told = [p \in Node |-> [k \in Key |-> "nothing"]]

-----------------------------------------------------------------------------
(* The route of a new key.                                                 *)

(* Plausible bug: every key starts at the first hop of its route. *)
HopsFixed(x, start, sender) ==
    FoldLeft(LAMBDA hops, p : IF p = sender THEN hops ELSE Append(hops, p), << >>, Route[x])

(* candidates: the route of slave SAE x from the position "start" on,      *)
(* without the peer the key came from.                                     *)
Hops(x, start, sender) ==
    LET n == Len(Route[x])
        rotated == [i \in 1..n |-> Route[x][((start + i - 2) % n) + 1]]
    IN  FoldLeft(LAMBDA hops, p : IF p = sender THEN hops ELSE Append(hops, p), << >>, rotated)

Advanced(c, x) == [c EXCEPT ![x] = (@ % Len(Route[x])) + 1]

(* A batch is handled key by key on the copy that change() hands out: the  *)
(* record of k is created with what the request says of it.                *)
Draft == [st |-> st, info |-> info, cursor |-> cursor]

WithInfo(e, k, a, c, sender) ==
    LET remote == ~Local(a.slave)
    IN  [e EXCEPT !.info[k] = [pair |-> a, content |-> c,
                               hops |-> IF remote THEN Hops(a.slave, e.cursor[a.slave], sender)
                                        ELSE << >>],
                  !.cursor  = IF remote THEN Advanced(@, a.slave) ELSE @]

Commit(e) ==
    /\ st' = e.st
    /\ info' = e.info
    /\ cursor' = e.cursor

-----------------------------------------------------------------------------
(* StoreKey: a key of a local master SAE.                                  *)

StoreKey(k, a, c) ==
    /\ Local(a.master) /\ ~Local(a.slave)
    /\ ~Known(st, k) /\ Room(st, {k}, Capacity)
    /\ a.slave \in DOMAIN Route
    /\ Commit(WithInfo([Draft EXCEPT !.st = Stored(st, k)], k, a, c, NoNode))
    /\ UNCHANGED <<empties, jobs, lapsed, history>>

-----------------------------------------------------------------------------
(* Accept: peer p transfers the keys of the batch with association a; c[k] *)
(* is what it sends under k.                                               *)

AcceptOne(e, p, a, c, k) ==
    LET t == [e EXCEPT !.st = Accepted(@, p, k, Local(a.slave), k \in lapsed)]
    IN  IF Known(e.st, k) THEN t ELSE WithInfo(t, k, a, c[k], p)

AcceptEach(e, p, a, c, batch) ==
    FoldLeft(LAMBDA d, k : AcceptOne(d, p, a, c, k), e, batch)

(* Plausible bug: a known identifier is not compared with its first use. *)
BatchAcceptableUnread(p, a, c, batch) ==
    LET new == {k \in ToSet(batch) : ~Known(st, k)}
    IN  /\ \A k \in ToSet(batch) \ new : Rec(k).sender = p /\ info[k].pair = a
        /\ Room(st, new, Capacity)
        /\ new # {} /\ ~Local(a.slave) =>
               a.slave \in DOMAIN Route /\ ToSet(Route[a.slave]) \ {p} # {}

(* Plausible bug: the keys that a batch adds are not counted. *)
BatchAcceptableUncounted(p, a, c, batch) ==
    LET new == {k \in ToSet(batch) : ~Known(st, k)}
    IN  /\ \A k \in ToSet(batch) \ new :
               /\ Rec(k).sender = p /\ info[k].pair = a
               /\ Rec(k).unknown \/ info[k].content = c[k]
        /\ Room(st, {}, Capacity - 1)
        /\ new # {} /\ ~Local(a.slave) =>
               a.slave \in DOMAIN Route /\ ToSet(Route[a.slave]) \ {p} # {}

(* The checks on the whole batch; a route without another peer is only     *)
(* found out at the first new key, and then undoes the whole request.      *)
BatchAcceptable(p, a, c, batch) ==
    LET new == {k \in ToSet(batch) : ~Known(st, k)}
    IN  /\ \A k \in ToSet(batch) \ new :
               /\ Rec(k).sender = p /\ info[k].pair = a
               /\ Rec(k).unknown \/ info[k].content = c[k]
        /\ Room(st, new, Capacity)
        /\ new # {} /\ ~Local(a.slave) =>
               a.slave \in DOMAIN Route /\ ToSet(Route[a.slave]) \ {p} # {}

Accept(p, a, c, batch) ==
    /\ p \in Incoming
    /\ ~Local(a.master)
    /\ BatchAcceptable(p, a, c, batch)
    /\ Commit(AcceptEach(Draft, p, a, c, batch))
    /\ agreed' = [k \in Key |-> IF k \in ToSet(batch) /\ ~Rec(k).unknown
                                THEN agreed[k] \cup {c[k]} ELSE agreed[k]]
    /\ UNCHANGED <<empties, jobs, lapsed, asked, told>>

-----------------------------------------------------------------------------
(* Acknowledge: peer p reports a status for each key of the batch.         *)

PeerStatus == Status \cup {"failed"}

AcknowledgeEach(s, p, status, batch) ==
    FoldLeft(LAMBDA t, k : Acknowledged(t, p, k, status[k], k \in lapsed), s, batch)

Acknowledge(p, a, status, batch) ==
    /\ \A k \in ToSet(batch) :
        CanAcknowledge(st, p, k, status[k]) /\ info[k].pair = a
    /\ st' = AcknowledgeEach(st, p, status, batch)
    /\ UNCHANGED <<info, cursor, empties, jobs, lapsed, history>>

-----------------------------------------------------------------------------
(* Void: peer p asks to discard the keys of the batch, or (an empty batch) *)
(* every key of association a that it exchanged with this node.            *)

VoidOne(e, p, a, k) ==
    LET t == [e EXCEPT !.st = Voided(@, p, k, Local(a.slave))]
    IN  IF Known(e.st, k) THEN t
        ELSE [t EXCEPT !.info[k] = [NoInfo EXCEPT !.pair = a]]

VoidEach(e, p, a, batch) ==
    FoldLeft(LAMBDA d, k : VoidOne(d, p, a, k), e, batch)

Discard(p, a, batch) ==
    LET new == {k \in ToSet(batch) : ~Known(st, k)}
    IN  /\ \A k \in ToSet(batch) :
               CanVoid(st, p, k, p \in Incoming) /\ (k \notin new => info[k].pair = a)
        /\ Room(st, new, Capacity)
        /\ Commit(VoidEach(Draft, p, a, batch))
        /\ asked' = asked \cup ({p} \X ToSet(batch))
        /\ UNCHANGED <<empties, jobs, lapsed, agreed, told>>

VoidKeys(p, a, batch) == Discard(p, a, batch)

Shared(p, a) ==
    {k \in Key : Known(st, k) /\ info[k].pair = a /\ (Rec(k).sender = p \/ Rec(k).next = p)}

VoidAll(p, a) ==
    /\ Shared(p, a) # {}
    /\ Discard(p, a, SetToSeq(Shared(p, a)))

(* Nothing to discard: the answer names no key, and is owed once.          *)
VoidNothing(p, a) ==
    /\ Shared(p, a) = {}
    /\ empties' = empties \cup {<<p, a>>}
    /\ UNCHANGED <<st, info, cursor, jobs, lapsed, history>>

-----------------------------------------------------------------------------
(* The local SAE and the clock.                                            *)

ConsumePeerKeys(a, B) ==
    /\ Local(a.slave)
    /\ B # {}
    /\ \A k \in B : /\ Known(st, k) /\ info[k].pair = a /\ Rec(k).role = "target"
                    /\ Usable(st, k, k \in lapsed)
    /\ st' = Delivered(st, B)
    /\ UNCHANGED <<info, cursor, empties, jobs, lapsed, history>>

Lapse(k) ==
    /\ k \in MayLapse \ lapsed
    /\ Known(st, k) /\ ~Rec(k).voiding
    /\ lapsed' = lapsed \cup {k}
    /\ UNCHANGED <<engine, jobs, history>>

-----------------------------------------------------------------------------
(* The worker.                                                             *)

VisitingRecords == jobs = {}

Sweep ==
    /\ VisitingRecords
    /\ \E k \in lapsed : Known(st, k) /\ ~Rec(k).voiding
    /\ st' = Swept(st, lapsed)
    /\ UNCHANGED <<info, cursor, empties, jobs, lapsed, history>>

TakeJobs ==
    /\ VisitingRecords
    /\ st.acks # {}
    /\ jobs' = st.acks
    /\ UNCHANGED <<engine, lapsed, history>>

(* One result of the snapshot is sent; the peer may take it although the   *)
(* worker gets an error.  Others may change the engine while the call      *)
(* lasts: they do so before this step, which sends what the snapshot says. *)
Deliver(j, taken, ok) ==
    /\ j \in jobs
    /\ ok => taken
    /\ jobs' = jobs \ {j}
    /\ st' = IF ok THEN [st EXCEPT !.acks = @ \ {j}] ELSE st
    /\ told' = IF taken THEN [told EXCEPT ![j.peer][j.key] = j.status] ELSE told
    /\ UNCHANGED <<info, cursor, empties, lapsed, agreed, asked>>

(* Nothing else reads these results: the exchange is one step. *)
AnswerNothing(w) ==
    /\ empties' = empties \ {w}
    /\ UNCHANGED <<st, info, cursor, jobs, lapsed, history>>

(* A record's first intent names any candidate, for any of them may be the *)
(* first to answer the probe.                                              *)
Transmit(k, p) ==
    /\ VisitingRecords
    /\ Unsettled(st, k, k \in lapsed)
    /\ p \in NextHops(st, k, ToSet(info[k].hops))
    /\ st' = Pinned(st, k, p)
    /\ UNCHANGED <<info, cursor, empties, jobs, lapsed, history>>

(* The process stops at any moment and starts again from its journal. *)
Restart ==
    /\ jobs' = {}
    /\ UNCHANGED <<engine, lapsed, history>>

Next ==
    \/ \E a \in Association :
        \/ \E k \in Key, c \in Content : StoreKey(k, a, c)
        \/ \E B \in SUBSET Key : ConsumePeerKeys(a, B)
        \/ \E p \in Node :
            \/ \E batch \in Batches(Key) : \E c \in [ToSet(batch) -> Content] : Accept(p, a, c, batch)
            \/ \E batch \in Batches(MaySettle) :
                \/ \E status \in [ToSet(batch) -> PeerStatus] : Acknowledge(p, a, status, batch)
                \/ VoidKeys(p, a, batch)
    \/ \E w \in MayVoidAll : VoidAll(w[1], w[2]) \/ VoidNothing(w[1], w[2])
    \/ \E k \in Key : Lapse(k)
    \/ Sweep
    \/ TakeJobs
    \/ \E j \in jobs, taken, ok \in BOOLEAN : Deliver(j, taken, ok)
    \/ \E w \in empties : AnswerNothing(w)
    \/ \E k \in Key, p \in Node : Transmit(k, p)
    \/ Restart

Spec == Init /\ [][Next]_vars

-----------------------------------------------------------------------------
(* Properties.                                                             *)

(* Every variable stays in its type, and the records never outgrow the     *)
(* capacity, whatever mix of batches, voids of unknown keys and repeated   *)
(* requests created them.                                                  *)
TypeOK ==
    /\ st \in EngineState
    /\ \A k \in Key :
        IF Known(st, k) THEN
            /\ info[k].pair \in Association
            /\ info[k].content \in Content \cup {NoContent}
            /\ ToSet(info[k].hops) \subseteq Node
        ELSE info[k] = NoInfo
    /\ \A x \in DOMAIN Route : cursor[x] \in DOMAIN Route[x]
    /\ empties \subseteq Node \X Association
    /\ jobs \subseteq Job
    /\ lapsed \subseteq Key
    /\ Cardinality({k \in Key : Known(st, k)}) <= Capacity

Verdict(r) ==
    IF r.voidFailed THEN "failed to void"
    ELSE IF r.unknown THEN "key not present" ELSE "voided"

(* The queued results say what the records say now: whatever was overtaken *)
(* by a void, an expiry or a late report of failure has left the outbox,   *)
(* and a peer is owed at most one result per key.                          *)
OutboxTruthful ==
    /\ \A j \in st.acks :
        LET r == Rec(j.key) IN
        IF j.status = "relayed" THEN r.ready /\ r.sender = j.peer
        ELSE /\ r.voiding /\ r.voidPending = {}
             /\ j.peer \in r.voidRequests
             /\ j.status = Verdict(r)
    /\ \A i, j \in st.acks : i.peer = j.peer /\ i.key = j.key => i = j

(* Every peer whose void was accepted, alone, in a batch or for a whole    *)
(* association, has been told how it ended, or that result is queued, or   *)
(* this node still waits for another neighbour: no void and no later       *)
(* report of failure is lost between the requests of several peers.        *)
VoidsAnswered ==
    \A w \in asked :
        LET p == w[1]
            k == w[2]
            status == Verdict(Rec(k))
        IN  /\ Rec(k).voiding
            /\ \/ Rec(k).voidPending # {}
               \/ [peer |-> p, key |-> k, status |-> status] \in st.acks
               \/ told[p][k] = status

(* A key identifier stands for one content: however often it is offered    *)
(* again, alone or in a batch, before or after it was used, only the first *)
(* content is ever accepted (ETSI020_PROFILE.md, "Different material,      *)
(* extensions or association cannot overwrite an existing ID").            *)
OneContent == \A k \in Key : Cardinality(agreed[k]) <= 1

(* The keys of a slave SAE are spread over its next hops as evenly as      *)
(* their number allows, wherever they come from and however they are       *)
(* batched (ETSI020_PROFILE.md, "Static routes distribute distinct keys    *)
(* round-robin"), as long as no sender is itself one of the hops.          *)
FirstChoices(x, p) ==
    {k \in Key : info[k].hops # << >> /\ info[k].pair.slave = x /\ info[k].hops[1] = p}

EvenSplit ==
    \A x \in DOMAIN Route :
        Incoming \cap ToSet(Route[x]) = {} =>
            \A p, q \in ToSet(Route[x]) :
                Cardinality(FirstChoices(x, p)) <= Cardinality(FirstChoices(x, q)) + 1
=============================================================================
