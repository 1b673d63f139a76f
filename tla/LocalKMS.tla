------------------------------ MODULE LocalKMS ------------------------------
(***************************************************************************)
(* One gateway without a network: the ETSI 014 handlers of                 *)
(* src/internal/etsi014/server.go serving concurrent requests from the     *)
(* in-memory repository.  enc_keys reserves and then consumes, two         *)
(* operations between which any other request may run; dec_keys and the    *)
(* rest are one operation each.  The clock moves at any time.              *)
(***************************************************************************)
EXTENDS Memory

CONSTANT Caller     \* the enc_keys requests that may be in progress at once

VARIABLES
    repo,       \* the repository
    past,       \* keys whose lifetime is over
    call,       \* call[c]: where request c stands between its two operations
    \* History.
    reply,      \* reply[c]: what the last request of c asked for and was given
    given       \* given[side][k]: how often the copy of that side was handed out

vars == <<repo, past, call, reply, given>>

Side == {"master", "slave"}
Call == [stage : {"idle", "reserved"}, pair : Pair, token : Token, count : 0..MaxBatch]
Reply == [asked : 0..MaxBatch, got : SUBSET Key]
NoKeys == [asked |-> 0, got |-> {}]
Idle == [stage |-> "idle", pair |-> NoPair,
         token |-> CHOOSE t \in Token : TRUE, count |-> 0]

Init ==
    /\ repo = NewMemory
    /\ past = {}
    /\ call = [c \in Caller |-> Idle]
    /\ reply = [c \in Caller |-> NoKeys]
    /\ given = [s \in Side |-> [k \in Key |-> 0]]

Hand(side, B) ==
    given' = [given EXCEPT ![side] =
                 [k \in Key |-> IF k \in B /\ @[k] < 2 THEN @[k] + 1 ELSE @[k]]]

-----------------------------------------------------------------------------
StoreKey(k, a) ==
    /\ CanStoreKey(repo, k, past)
    /\ repo' = AfterStoreKey(repo, k, a)
    /\ UNCHANGED <<past, call, reply, given>>

Pass(k) ==
    /\ k \in Stored(repo) \ past
    /\ past' = past \cup {k}
    /\ UNCHANGED <<repo, call, reply, given>>

(* enc_keys: first the reservation ... *)
EncReserve(c, a, n, B, t) ==
    /\ call[c].stage = "idle"
    /\ repo.reserved[t].ids = {}
    /\ CanReserveKeys(repo, a, n, B, past)
    /\ repo' = AfterReserveKeys(repo, a, B, t, past)
    /\ call' = [call EXCEPT ![c] = [stage |-> "reserved", pair |-> a, token |-> t, count |-> n]]
    /\ reply' = [reply EXCEPT ![c] = NoKeys]
    /\ UNCHANGED <<past, given>>

EncUnavailable(c, a, n) ==
    /\ call[c].stage = "idle"
    /\ Cardinality(Offerable(repo, a, past)) < n
    /\ repo' = AfterReserveKeysFails(repo, past)
    /\ UNCHANGED <<past, call, reply, given>>

(* Plausible bug: an expired key is left out of the answer. *)
EncConsumeUsable(c) ==
    LET q == call[c]
        B == repo.reserved[q.token].ids \ Unreserved(repo, q.token, past)
    IN
    /\ q.stage = "reserved"
    /\ repo' = AfterConsumeReservation(repo, q.token)
    /\ call' = [call EXCEPT ![c] = Idle]
    /\ reply' = [reply EXCEPT ![c] = [asked |-> q.count, got |-> B]]
    /\ Hand("master", B)
    /\ UNCHANGED past

(* ... then its consumption; an error leaves the reservation behind. *)
EncConsume(c) ==
    LET q == call[c] IN
    /\ q.stage = "reserved"
    /\ CanConsumeReservation(repo, q.pair, q.token, past)
    /\ repo' = AfterConsumeReservation(repo, q.token)
    /\ call' = [call EXCEPT ![c] = Idle]
    /\ reply' = [reply EXCEPT ![c] = [asked |-> q.count, got |-> repo.reserved[q.token].ids]]
    /\ Hand("master", repo.reserved[q.token].ids)
    /\ UNCHANGED past

EncFails(c) ==
    LET q == call[c] IN
    /\ q.stage = "reserved"
    /\ \E k \in Unreserved(repo, q.token, past) :
        /\ \A x \in Unreserved(repo, q.token, past) \ {k} : ~Earlier(repo, x, k)
        /\ repo' = AfterConsumeReservationFails(repo, q.token, k, past)
    /\ call' = [call EXCEPT ![c] = Idle]
    /\ UNCHANGED <<past, reply, given>>

-----------------------------------------------------------------------------
Dec(a, B) ==
    /\ CanConsumePeerKeys(repo, a, B, past)
    /\ repo' = AfterConsumePeerKeys(repo, B)
    /\ Hand("slave", B)
    /\ UNCHANGED <<past, call, reply>>

(* The first bad identifier of the request may be any of them. *)
DecFails(a, k) ==
    /\ k \in Undeliverable(repo, a, {k}, past)
    /\ repo' = AfterConsumePeerKeysFails(repo, a, k, past)
    /\ UNCHANGED <<past, call, reply, given>>

InvalidateKey(k) ==
    /\ k \in Stored(repo)
    /\ repo' = AfterInvalidateKey(repo, k, past)
    /\ UNCHANGED <<past, call, reply, given>>

Look ==
    /\ \/ repo' = AfterInventory(repo, past)
       \/ \E k \in Stored(repo) : repo' = AfterMetadata(repo, k, past)
    /\ UNCHANGED <<past, call, reply, given>>

Enc(c) ==
    \/ \E a \in Pair, n \in 1..MaxBatch :
        \/ EncUnavailable(c, a, n)
        \/ \E B \in SUBSET Key, t \in Token : EncReserve(c, a, n, B, t)
    \/ EncConsume(c)
    \/ EncFails(c)

Next ==
    \/ \E k \in Key, a \in Pair : StoreKey(k, a)
    \/ \E k \in Key : Pass(k)
    \/ \E c \in Caller : Enc(c)
    \/ \E a \in Pair, B \in SUBSET Key : Dec(a, B)
    \/ \E a \in Pair, k \in Key : DecFails(a, k)
    \/ \E k \in Key : InvalidateKey(k)
    \/ Look

Spec == Init /\ [][Next]_vars

-----------------------------------------------------------------------------
(* Properties.                                                             *)

(* Every variable stays in its type. *)
TypeOK ==
    /\ repo \in Repository
    /\ past \subseteq Key
    /\ call \in [Caller -> Call]
    /\ reply \in [Caller -> Reply]
    /\ given \in [Side -> [Key -> 0..2]]

(* Neither side is ever handed the same key twice, however the two halves  *)
(* of concurrent enc_keys requests interleave (CORE-004).                  *)
DeliveredOnce == \A s \in Side, k \in Key : given[s][k] <= 1

(* A request is answered with exactly the number of keys it asked for, or  *)
(* with none, although keys expire or are invalidated between its halves.  *)
WholeBatch == \A c \in Caller : Cardinality(reply[c].got) \in {0, reply[c].asked}

(* The slave's copy is released only by the delivery of the master's, and  *)
(* the delivery of the slave's copy never comes first.                     *)
SlaveAfterMaster ==
    \A k \in Key :
        (repo.keys[k].slave \in {"AVAILABLE", "CONSUMED"} \/ given["slave"][k] > 0)
            => given["master"][k] = 1

(* Two reservations never hold the same key, and a key is held back from   *)
(* the inventory only by a reservation that can still be redeemed, or one  *)
(* whose request failed because another of its keys ended.                 *)
Holders(k) == {t \in Token : k \in repo.reserved[t].ids}
Redeeming(t) == \E c \in Caller : call[c].stage = "reserved" /\ call[c].token = t

OnlyExpiryStrands ==
    /\ \A k \in Key : Cardinality(Holders(k)) <= 1
    /\ \A k \in Key : repo.keys[k].master = "RESERVED" =>
        \E t \in Holders(k) :
            Redeeming(t) \/ \E x \in repo.reserved[t].ids : x \in past \/ repo.keys[x].master \in Terminal

(* No copy is handed out after its lifetime, nor one that was discarded,   *)
(* although expiry is noticed lazily.                                      *)
NoStaleDelivery ==
    [][/\ \A s \in Side, k \in Key : given'[s][k] > given[s][k] => k \notin past
       /\ \A k \in Key : given'["master"][k] > given["master"][k] => repo.keys[k].master = "RESERVED"
       /\ \A k \in Key : given'["slave"][k] > given["slave"][k] => repo.keys[k].slave = "AVAILABLE"]_vars

(* The gateway alone keeps the same promise as the network, KeyDelivery:   *)
(* each copy is offered, and then handed out once or discarded for good.   *)
(* Nothing is delivered out of a discarded or a consumed key, and a key    *)
(* that once existed never returns (CORE-003, CORE-004).                   *)
Copy(s) ==
    CASE s = "absent" -> "none"
      [] s \in {"AVAILABLE", "RESERVED"} -> "offered"
      [] s = "CONSUMED" -> "given"
      [] s \in {"INVALID", "EXPIRED"} -> "dead"

MasterCopy == [k \in Key |-> Copy(repo.keys[k].master)]
SlaveCopy == [k \in Key |-> Copy(repo.keys[k].slave)]

Promise == INSTANCE KeyDelivery WITH master <- MasterCopy, slave <- SlaveCopy

PromiseKept == Promise!Spec
=============================================================================
