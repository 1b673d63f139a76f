------------------------------- MODULE Memory -------------------------------
(***************************************************************************)
(* The in-memory key repository (src/internal/storage/memory.go): two      *)
(* delivery records per key, one for the master SAE and one for the slave. *)
(*                                                                         *)
(* Every operation holds one lock, so it is an operator on the repository  *)
(* m: a guard, and the repository it leaves behind.  Expiry is lazy: an    *)
(* operation marks the expired entries it looks at, no others.  "past" is  *)
(* the set of keys whose lifetime is over on the clock.  A copy's bytes    *)
(* are cleared in the very lines that make its state terminal, so the      *)
(* state stands for them.                                                  *)
(***************************************************************************)
EXTENDS Naturals, Sequences, FiniteSets

CONSTANTS
    Key,        \* key identifiers
    Pair,       \* associations: ordered <<master SAE, slave SAE>> pairs
    Token,      \* reservation tokens
    Capacity,   \* entries a repository may ever hold, terminal ones included
    MaxBatch    \* keys in one request

ASSUME MemoryAssumption ==
    /\ Pair # {}
    /\ Token # {}
    /\ Capacity \in Nat \ {0}
    /\ MaxBatch \in Nat \ {0}

Terminal == {"CONSUMED", "INVALID", "EXPIRED"}
State == {"AVAILABLE", "RESERVED"} \cup Terminal

(* "absent" stands for an identifier the repository has never seen. *)
Entry == [pair : Pair, master : State, slave : State]
           \cup [pair : Pair, master : {"absent"}, slave : {"absent"}]

Reservation == [pair : Pair, ids : SUBSET Key]

Repository == [keys : [Key -> Entry], order : Seq(Key), reserved : [Token -> Reservation]]

NoPair == CHOOSE a \in Pair : TRUE      \* of no meaning: read only behind a guard

NewMemory ==
    [keys     |-> [k \in Key |-> [pair |-> NoPair, master |-> "absent", slave |-> "absent"]],
     order    |-> << >>,
     reserved |-> [t \in Token |-> [pair |-> NoPair, ids |-> {}]]]

Stored(m) == {k \in Key : m.keys[k].master # "absent"}

Earlier(m, x, y) ==
    \E i, j \in DOMAIN m.order : i < j /\ m.order[i] = x /\ m.order[j] = y

-----------------------------------------------------------------------------
(* Plausible bug: expiry and invalidation overwrite a consumed copy. *)
EndedAlways(copy, s) == s

(* A copy that is not terminal yet ends in state s. *)
Ended(copy, s) == IF copy \in Terminal THEN copy ELSE s

Discarded(e, s) == [e EXCEPT !.master = Ended(@, s), !.slave = Ended(@, s)]

(* expire, for the entries V an operation visits. *)
Expire(m, V, past) ==
    [m EXCEPT !.keys = [k \in Key |->
        IF k \in V \cap past \cap Stored(m) THEN Discarded(m.keys[k], "EXPIRED") ELSE m.keys[k]]]

(* Plausible bug: the identifier of a finished key may be stored again. *)
CanStoreKeyAgain(m, k, past) ==
    /\ m.keys[k].master \in Terminal \cup {"absent"}
    /\ m.keys[k].slave \in Terminal \cup {"absent"}
    /\ k \notin past
    /\ Cardinality(Stored(m)) < Capacity

CanStoreKey(m, k, past) ==
    /\ k \notin Stored(m)
    /\ k \notin past
    /\ Cardinality(Stored(m)) < Capacity

AfterStoreKey(m, k, a) ==
    [m EXCEPT !.keys[k] = [pair |-> a, master |-> "AVAILABLE", slave |-> "RESERVED"],
              !.order   = Append(@, k)]

-----------------------------------------------------------------------------
(* ReserveKeys: the first n available keys of the association, in order of *)
(* insertion.  Everything up to the last of them has been visited.         *)

(* Plausible bug: a reserved key is still on offer. *)
OfferableAgain(m, a, past) ==
    {k \in Stored(m) \ past : m.keys[k].pair = a /\ m.keys[k].master \notin Terminal}

Offerable(m, a, past) ==
    {k \in Stored(m) \ past : m.keys[k].pair = a /\ m.keys[k].master = "AVAILABLE"}

CanReserveKeys(m, a, n, B, past) ==
    /\ B \subseteq Offerable(m, a, past)
    /\ Cardinality(B) = n
    /\ \A x \in Offerable(m, a, past) \ B, y \in B : ~Earlier(m, x, y)

Visited(m, B) == {k \in Stored(m) : k \in B \/ \E y \in B : Earlier(m, k, y)}

AfterReserveKeys(m, a, B, t, past) ==
    LET e == Expire(m, Visited(m, B), past)
    IN  [e EXCEPT !.keys        = [k \in Key |-> IF k \in B THEN [e.keys[k] EXCEPT !.master = "RESERVED"]
                                                 ELSE e.keys[k]],
                  !.reserved[t] = [pair |-> a, ids |-> B]]

(* Too few keys: the whole inventory has been visited. *)
AfterReserveKeysFails(m, past) == Expire(m, Key, past)

-----------------------------------------------------------------------------
(* ConsumeReservation: all keys of the batch, or an error at the first key *)
(* that is no longer reserved, which may have been found expired.          *)

(* Plausible bug: expiry is left to the sweep of the inventory. *)
UnreservedByState(m, t, past) ==
    {k \in m.reserved[t].ids : m.keys[k].master # "RESERVED"}

Unreserved(m, t, past) ==
    {k \in m.reserved[t].ids : k \in past \/ m.keys[k].master # "RESERVED"}

CanConsumeReservation(m, a, t, past) ==
    /\ m.reserved[t].ids # {}
    /\ m.reserved[t].pair = a
    /\ Unreserved(m, t, past) = {}

AfterConsumeReservation(m, t) ==
    [m EXCEPT !.keys =
                 [k \in Key |-> IF k \in m.reserved[t].ids
                                THEN [m.keys[k] EXCEPT !.master = "CONSUMED", !.slave = "AVAILABLE"]
                                ELSE m.keys[k]],
              !.reserved[t] = [pair |-> NoPair, ids |-> {}]]

AfterConsumeReservationFails(m, t, k, past) == Expire(m, {k}, past)

-----------------------------------------------------------------------------
(* ConsumePeerKeys: all the identifiers named, or an error at the first    *)
(* one the association cannot have.                                        *)

(* Plausible bug: a copy that waits for the master counts as deliverable. *)
UndeliverableUnlessLive(m, a, B, past) ==
    {k \in B : m.keys[k].pair # a \/ k \in past \/ m.keys[k].slave \in Terminal \cup {"absent"}}

Undeliverable(m, a, B, past) ==
    {k \in B : m.keys[k].pair # a \/ k \in past \/ m.keys[k].slave # "AVAILABLE"}

CanConsumePeerKeys(m, a, B, past) ==
    /\ Cardinality(B) \in 1..MaxBatch
    /\ Undeliverable(m, a, B, past) = {}

AfterConsumePeerKeys(m, B) ==
    [m EXCEPT !.keys = [k \in Key |-> IF k \in B THEN [m.keys[k] EXCEPT !.slave = "CONSUMED"]
                                      ELSE m.keys[k]]]

(* The entry is looked at only when the association owns it. *)
AfterConsumePeerKeysFails(m, a, k, past) ==
    IF m.keys[k].pair = a THEN Expire(m, {k}, past) ELSE m

-----------------------------------------------------------------------------
AfterInvalidateKey(m, k, past) ==
    LET e == Expire(m, {k}, past)
    IN  [e EXCEPT !.keys[k] = Discarded(@, "INVALID")]

(* Metadata and Inventory only look. *)
AfterMetadata(m, k, past) == Expire(m, {k}, past)
AfterInventory(m, past) == Expire(m, Key, past)
=============================================================================
