---------------------------- MODULE RelayEngine ----------------------------
(***************************************************************************)
(* The state of one relay engine (src/internal/relay/engine.go) and the    *)
(* transformations its handlers apply to it.                               *)
(*                                                                         *)
(* Every operation of the engine runs one closure inside Engine.change:    *)
(* the closure rewrites a private copy of the state, the copy is written   *)
(* to the journal, and only then becomes visible.  A closure is therefore  *)
(* an operator here: a guard on the engine state s (the early returns) and *)
(* the state it leaves behind.  RelayNetwork turns them into the steps of  *)
(* several engines that carry one association; Interworking into those of  *)
(* one engine with several associations, batches and arbitrary peers.      *)
(*                                                                         *)
(* What the configuration decides (is the slave SAE local, does the peer   *)
(* send transfers, which hops are configured) is a parameter.  Key bytes   *)
(* are reduced to the bit "the record still holds 32 bytes" and the retry  *)
(* clocks to "any time".                                                   *)
(***************************************************************************)
EXTENDS Naturals, FiniteSets

CONSTANTS
    Node,       \* the KMS gateways and relays, by the names peers have for them
    Key,        \* key identifiers
    Token,      \* reservation tokens a source may hand out
    NoNode,     \* the empty peer name
    NoToken     \* the empty reservation token

ASSUME NameAssumption == NoNode \notin Node /\ NoToken \notin Token

-----------------------------------------------------------------------------
(* Records, outbox jobs and the state of one engine.                       *)

Role == {"none", "source", "relay", "target"}
VoidStatus == {"voided", "failed to void", "key not present"}
Status == {"relayed"} \cup VoidStatus

RecordFields ==
    [role         : Role,                  \* "none": no record under this ID
     sender       : Node \cup {NoNode},    \* upstream peer
     next         : Node \cup {NoNode},    \* pinned downstream peer
     sent         : BOOLEAN,               \* outbound intent committed
     ready        : BOOLEAN,
     delivered    : BOOLEAN,               \* handed to the local SAE
     material     : BOOLEAN,               \* still holds the key bytes
     token        : Token \cup {NoToken},
     voiding      : BOOLEAN,
     voidFailed   : BOOLEAN,
     unknown      : BOOLEAN,               \* tombstone of an ID never received
     voidPending  : SUBSET Node,           \* neighbours that must still confirm
     voidRequests : SUBSET Node]           \* neighbours owed a confirmation

(* A committed intent always names the peer it was committed to.           *)
Record == {r \in RecordFields : r.sent => r.next \in Node}

Job == [peer : Node, key : Key, status : Status]

EngineState == [keys : [Key -> Record], acks : SUBSET Job]

Absent ==
    [role |-> "none", sender |-> NoNode, next |-> NoNode, sent |-> FALSE,
     ready |-> FALSE, delivered |-> FALSE, material |-> FALSE,
     token |-> NoToken, voiding |-> FALSE, voidFailed |-> FALSE,
     unknown |-> FALSE, voidPending |-> {}, voidRequests |-> {}]

EmptyEngine == [keys |-> [k \in Key |-> Absent], acks |-> {}]

Known(s, k) == s.keys[k].role # "none"

(* Plausible bug: the empty peer name is taken for a peer. *)
PeersOrNone(p) == {p}

(* A peer name as the set of peers it stands for. *)
Peers(p) == {p} \ {NoNode}

(* Plausible bug: a key that has its record already is counted again. *)
RoomForMore(s, B, capacity) ==
    Cardinality({k \in Key : Known(s, k)}) + Cardinality(B) <= capacity

(* The records the keys B would add stay within the lifetime capacity,     *)
(* which terminal records use up like any other.                           *)
Room(s, B, capacity) == Cardinality({k \in Key : Known(s, k)} \cup B) <= capacity

-----------------------------------------------------------------------------
(* Helpers shared by the handlers.                                         *)

(* enqueue: at most one pending result per key and peer.                   *)
Enqueue(s, k, peers, status) ==
    [s EXCEPT !.acks =
        {j \in @ : ~(j.key = k /\ j.peer \in peers)} \cup
        {[peer |-> p, key |-> k, status |-> status] : p \in peers}]

(* Plausible bug: a repeated void starts the bookkeeping over. *)
VoidBegunAgain(r) ==
    [r EXCEPT !.voiding      = TRUE,
              !.ready        = FALSE,
              !.token        = NoToken,
              !.material     = FALSE,
              !.voidFailed   = @ \/ r.delivered,
              !.voidRequests = {},
              !.voidPending  = Peers(r.sender) \cup (IF r.sent THEN {r.next} ELSE {})]

(* The first startVoid of a record discards the bytes and the token and    *)
(* owes a void to both neighbours; it also owns up to a past delivery.     *)
VoidBegun(r) ==
    IF r.voiding THEN r ELSE
    [r EXCEPT !.voiding      = TRUE,
              !.ready        = FALSE,
              !.token        = NoToken,
              !.material     = FALSE,
              !.voidFailed   = r.delivered,
              !.voidRequests = {},
              !.voidPending  = Peers(r.sender) \cup (IF r.sent THEN {r.next} ELSE {})]

(* The requesters R (one peer, or none for a local cause) are owed a       *)
(* confirmation and need not be asked for theirs.                          *)
Requested(r, R) ==
    [r EXCEPT !.voidRequests = @ \cup R, !.voidPending = @ \ R]

(* Plausible bug: the results queued for a key outlive its void. *)
StartVoidKeepsResults(s, k, R) ==
    [keys |-> [s.keys EXCEPT ![k] = Requested(VoidBegun(s.keys[k]), R)],
     acks |-> s.acks]

(* startVoid: the first one also forgets the results queued for the key.   *)
StartVoid(s, k, R) ==
    [keys |-> [s.keys EXCEPT ![k] = Requested(VoidBegun(s.keys[k]), R)],
     acks |-> {j \in s.acks : s.keys[k].voiding \/ j.key # k}]

(* finishVoid: once every neighbour confirmed, confirm to the requesters.  *)
FinishVoid(s, k) ==
    LET r == s.keys[k]
        status == IF r.voidFailed THEN "failed to void"
                  ELSE IF r.unknown THEN "key not present" ELSE "voided"
    IN  IF r.voidPending # {} THEN s ELSE Enqueue(s, k, r.voidRequests, status)

(* The two calls always made together when a void begins or is repeated.   *)
VoidKey(s, k, R) == FinishVoid(StartVoid(s, k, R), k)

-----------------------------------------------------------------------------
(* StoreKey, on the source.                                                *)

Stored(s, k) ==
    [s EXCEPT !.keys[k] = [Absent EXCEPT !.role = "source", !.material = TRUE]]

-----------------------------------------------------------------------------
(* Accept: a transfer of key k from peer p; "local" is whether the slave   *)
(* SAE is, "lapsed" the outcome of comparing the clock with the record's   *)
(* expiry.                                                                 *)

AcceptedAgain(s, p, k, lapsed) ==
    LET v == IF lapsed /\ ~s.keys[k].voiding THEN StartVoid(s, k, {p}) ELSE s
    IN  IF v.keys[k].voiding THEN FinishVoid(v, k)
        ELSE IF v.keys[k].ready THEN Enqueue(v, k, {p}, "relayed") ELSE v

(* Plausible bug: a relay confirms a transfer as soon as it accepts it. *)
AcceptedNewEagerly(s, p, k, local) ==
    LET r == [Absent EXCEPT !.role     = IF local THEN "target" ELSE "relay",
                            !.sender   = p,
                            !.material = TRUE,
                            !.ready    = local]
    IN  Enqueue([s EXCEPT !.keys[k] = r], k, {p}, "relayed")

AcceptedNew(s, p, k, local) ==
    LET r == [Absent EXCEPT !.role     = IF local THEN "target" ELSE "relay",
                            !.sender   = p,
                            !.material = TRUE,
                            !.ready    = local]
        t == [s EXCEPT !.keys[k] = r]
    IN  IF local THEN Enqueue(t, k, {p}, "relayed") ELSE t

(* Plausible bug: a repeated transfer starts the record afresh. *)
AcceptedAfresh(s, p, k, local, lapsed) == AcceptedNew(s, p, k, local)

Accepted(s, p, k, local, lapsed) ==
    IF Known(s, k) THEN AcceptedAgain(s, p, k, lapsed)
    ELSE AcceptedNew(s, p, k, local)

-----------------------------------------------------------------------------
(* Acknowledge: result "status" for key k from peer p.                     *)

(* Plausible bug: only the downstream peer may ever send results. *)
CanAcknowledgeFromNextOnly(s, p, k, status) ==
    /\ Known(s, k)
    /\ s.keys[k].next = p
    /\ status = "relayed" => s.keys[k].sent

CanAcknowledge(s, p, k, status) ==
    LET r == s.keys[k] IN
    /\ Known(s, k)
    /\ r.next = p \/ (r.voiding /\ r.sender = p)
    /\ status = "relayed" => r.sent /\ p = r.next

(* Plausible bug: any result counts as the confirmation of a void. *)
ConfirmedByAnyStatus(s, p, k, status) ==
    LET r == [s.keys[k] EXCEPT !.voidPending = @ \ {p},
                               !.voidFailed  = @ \/ status = "failed to void"]
    IN  FinishVoid([s EXCEPT !.keys[k] = r], k)

(* A result received while voiding: only the void results count. *)
Confirmed(s, p, k, status) ==
    LET r == [s.keys[k] EXCEPT !.voidPending = @ \ {p},
                               !.voidFailed  = @ \/ status = "failed to void"]
    IN  IF status \notin VoidStatus THEN s ELSE FinishVoid([s EXCEPT !.keys[k] = r], k)

(* A "relayed" result for a live record: publish it, forget the bytes if   *)
(* this node is an intermediate, pass the result upstream.                 *)
MadeReady(s, k) ==
    LET r == [s.keys[k] EXCEPT !.ready    = TRUE,
                               !.material = @ /\ s.keys[k].role # "relay"]
    IN  Enqueue([s EXCEPT !.keys[k] = r], k, Peers(r.sender), "relayed")

Acknowledged(s, p, k, status, lapsed) ==
    LET v == IF lapsed /\ ~s.keys[k].voiding THEN StartVoid(s, k, {}) ELSE s
    IN  IF v.keys[k].voiding THEN Confirmed(v, p, k, status)
        ELSE IF status = "relayed" THEN MadeReady(v, k)
        ELSE VoidKey(v, k, {})

-----------------------------------------------------------------------------
(* Void: peer p asks to discard key k.                                     *)

CanVoid(s, p, k, incoming) ==
    IF Known(s, k) THEN s.keys[k].sender = p \/ s.keys[k].next = p ELSE incoming

(* An ID never received gets a terminal record first. *)
WithTombstone(s, p, k, local) ==
    LET r == [Absent EXCEPT !.role    = IF local THEN "target" ELSE "relay",
                            !.sender  = p,
                            !.unknown = TRUE]
    IN  IF Known(s, k) THEN s ELSE [s EXCEPT !.keys[k] = r]

Voided(s, p, k, local) == VoidKey(WithTombstone(s, p, k, local), k, {p})

-----------------------------------------------------------------------------
(* ReserveKeys, ConsumeReservation and ConsumePeerKeys.                    *)

Usable(s, k, lapsed) ==
    LET r == s.keys[k] IN
    r.ready /\ ~r.voiding /\ ~r.delivered /\ ~lapsed /\ r.material

CanReserve(s, k, lapsed) ==
    /\ s.keys[k].role = "source"
    /\ s.keys[k].token = NoToken
    /\ Usable(s, k, lapsed)

WithToken(s, B, t) ==
    [s EXCEPT !.keys =
        [k \in Key |-> IF k \in B THEN [s.keys[k] EXCEPT !.token = t] ELSE s.keys[k]]]

Holding(s, t) == {k \in Key : s.keys[k].token = t}

(* Delivery to the SAE: terminal, and the bytes are gone. *)
Delivered(s, B) ==
    [s EXCEPT !.keys =
        [k \in Key |-> IF k \notin B THEN s.keys[k] ELSE
            [s.keys[k] EXCEPT !.delivered = TRUE,
                              !.token     = NoToken,
                              !.material  = FALSE]]]

-----------------------------------------------------------------------------
(* The worker (Step and sendRecord).                                       *)

(* The expiry sweep: every live record in L is voided in one change.  No   *)
(* requester is owed anything yet, so finishVoid has nobody to answer.     *)
Swept(s, L) ==
    LET due == {k \in L : Known(s, k) /\ ~s.keys[k].voiding}
    IN  [keys |-> [k \in Key |-> IF k \in due THEN VoidBegun(s.keys[k]) ELSE s.keys[k]],
         acks |-> {j \in s.acks : j.key \notin due}]

(* The condition under which sendRecord commits the intent to send. *)
Unsettled(s, k, lapsed) ==
    LET r == s.keys[k] IN
    /\ r.role \in {"source", "relay"}
    /\ ~r.voiding
    /\ ~r.ready
    /\ ~r.delivered
    /\ ~lapsed

(* Once sent, a key stays pinned to its peer; before that, any candidate   *)
(* may be the first to answer the probe.                                   *)
NextHops(s, k, candidates) == IF s.keys[k].sent THEN {s.keys[k].next} ELSE candidates

Pinned(s, k, p) ==
    [s EXCEPT !.keys[k] = [@ EXCEPT !.next = p, !.sent = TRUE]]
=============================================================================
