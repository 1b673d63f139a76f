------------------------------- MODULE Ingest -------------------------------
(***************************************************************************)
(* Segmented mode (src/internal/ingest/repository.go): two gateways take   *)
(* ready-made key pairs from an upstream provider, the master gateway by   *)
(* asking for n keys, the slave gateway by naming identifiers, and keep    *)
(* their own durable record of what they asked for and what became of it.  *)
(*                                                                         *)
(* A gateway serves one request at a time: the lock is held across the     *)
(* call to the provider.  What can happen during that call is a crash, an  *)
(* answer that is lost, late or wrong, and the passing of time.  The       *)
(* provider is external; it is known only through the 014 client.          *)
(***************************************************************************)
EXTENDS Naturals, FiniteSets

CONSTANTS
    Key,         \* key identifiers, the same at the provider and both gateways
    Token,       \* request tokens
    NoToken,     \* no request is in progress
    Capacity,    \* key slots a gateway may ever ask for, failed attempts included
    MaxBatch,    \* keys in one request
    MaxFaults    \* bound: crashes, failed writes, timeouts and wrong answers

ASSUME IngestAssumption ==
    /\ NoToken \notin Token
    /\ IsFiniteSet(Key)
    /\ Capacity \in Nat \ {0}
    /\ MaxBatch \in Nat \ {0}
    /\ MaxFaults \in Nat

VARIABLES
    st,         \* st[n]: the state in n's journal, which is what n holds in memory while it is up
    mode,       \* mode[n]: "failed" is a process that is gone or refuses service after a failed write
    asking,     \* asking[n]: the request n is waiting for the provider to answer
    answer,     \* answer[n]: what came back, not yet looked at
    wire,       \* calls to the provider not served yet
    posted,     \* posted[n][t]: what the call for request t says: how many keys, or which
    prov,       \* prov[k]: the provider's copies, "half" once the master's is spent
    over,       \* over[n]: requests whose lifetime has ended on n's clock
    faults,
    \* History.
    given,      \* given[n][k]: how often n handed k to its SAE
    got,        \* got[n][t]: the keys handed out for request t
    asked       \* asked[k]: how often the provider was asked for k by name

process == <<mode, asking, answer>>
history == <<given, got, asked>>
vars == <<st, mode, asking, answer, wire, posted, prov, over, faults, given, got, asked>>

Role == {"master", "slave"}          \* one gateway of each role, named by it
RequestStatus == {"none", "pending", "stored", "consumed", "uncertain"}
KeyState == {"absent", "RESERVED", "CONSUMED", "INVALID", "EXPIRED"}

Request == [status : RequestStatus, count : 0..MaxBatch, ids : SUBSET Key]
Call == [count : 0..MaxBatch, ids : SUBSET Key]
KeyRecord == [state : KeyState, material : BOOLEAN]
GatewayState == [req : [Token -> Request], key : [Key -> KeyRecord], attempts : 0..Capacity]

Answer == [kind : {"none", "error"}, ids : {{}}] \cup [kind : {"keys"}, ids : SUBSET Key]
NoAnswer == [kind |-> "none", ids |-> {}]
Failure == [kind |-> "error", ids |-> {}]

NewGateway ==
    [req      |-> [t \in Token |-> [status |-> "none", count |-> 0, ids |-> {}]],
     key      |-> [k \in Key |-> [state |-> "absent", material |-> FALSE]],
     attempts |-> 0]

Init ==
    /\ st = [n \in Role |-> NewGateway]
    /\ mode = [n \in Role |-> "up"]
    /\ asking = [n \in Role |-> NoToken]
    /\ answer = [n \in Role |-> NoAnswer]
    /\ wire = {}
    /\ posted = [n \in Role |-> [t \in Token |-> [count |-> 0, ids |-> {}]]]
    /\ prov = [k \in Key |-> "free"]
    /\ over = [n \in Role |-> {}]
    /\ faults = 0
    /\ given = [n \in Role |-> [k \in Key |-> 0]]
    /\ got = [n \in Role |-> [t \in Token |-> {}]]
    /\ asked = [k \in Key |-> 0]

-----------------------------------------------------------------------------
(* Changes of one gateway's state.                                         *)

Known(s, k) == s.key[k].state # "absent"

Marked(s, B, record) ==
    [s EXCEPT !.key = [k \in Key |-> IF k \in B THEN record ELSE s.key[k]]]

Ended(s, B, state) == Marked(s, B, [state |-> state, material |-> FALSE])

(* Plausible bug: a finished key expires all the same. *)
LapsedAnyway(s, done) == {k \in Key : Known(s, k) /\ \E t \in done : k \in s.req[t].ids}

(* expire: keys carry the deadline of their request. *)
Lapsed(s, done) == {k \in Key : s.key[k].state = "RESERVED" /\ \E t \in done : k \in s.req[t].ids}
Expire(s, done) == Ended(s, Lapsed(s, done), "EXPIRED")

(* begin: the intent, before the provider is asked. *)
Begun(s, t, n, B) ==
    LET r == [s EXCEPT !.req[t] = [status |-> "pending", count |-> n, ids |-> B],
                       !.attempts = @ + n]
    IN  Marked(r, B, [state |-> "RESERVED", material |-> FALSE])

(* Plausible bug: only the request is marked, its keys stay as they are. *)
UncertainRequestOnly(s, t) == [s EXCEPT !.req[t].status = "uncertain"]

(* uncertain: whatever the provider did, these identifiers are never used. *)
Uncertain(s, t) ==
    Ended([s EXCEPT !.req[t].status = "uncertain"], s.req[t].ids \cap {k \in Key : Known(s, k)}, "INVALID")

(* Plausible bug: any answer of the right size is accepted. *)
ValidBySize(s, n, t, B, done) == Cardinality(B) = s.req[t].count /\ t \notin done

(* validate: the client and the repository both check the answer. *)
Valid(s, n, t, B, done) ==
    /\ Cardinality(B) = s.req[t].count
    /\ t \notin done
    /\ IF n = "slave" THEN B \subseteq s.req[t].ids ELSE \A k \in B : ~Known(s, k)

Fetched(s, t, B) ==
    Marked([s EXCEPT !.req[t].ids = B, !.req[t].status = "stored"],
           B, [state |-> "RESERVED", material |-> TRUE])

Consumed(s, t) == Ended([s EXCEPT !.req[t].status = "consumed"], s.req[t].ids, "CONSUMED")

(* Open: requests that were in flight are uncertain now. *)
Interrupted(s) == {t \in Token : s.req[t].status = "pending"}

(* Plausible bug: an interrupted request is forgotten on restart. *)
RecoveredAfresh(s, done) ==
    LET r == [s EXCEPT !.req = [t \in Token |-> IF t \in Interrupted(s)
                                    THEN [status |-> "none", count |-> 0, ids |-> {}] ELSE s.req[t]]]
    IN  Marked(r, UNION {s.req[t].ids : t \in Interrupted(s)}, [state |-> "absent", material |-> FALSE])

Recovered(s, done) ==
    LET r == [s EXCEPT !.req = [t \in Token |-> IF t \in Interrupted(s)
                                    THEN [s.req[t] EXCEPT !.status = "uncertain"] ELSE s.req[t]]]
        q == Ended(r, UNION {s.req[t].ids : t \in Interrupted(s)}, "INVALID")
    IN  Expire(q, done)

-----------------------------------------------------------------------------
(* save: as in the relay, a write may fail after the new state is on disk; *)
(* the process then refuses all further service.                           *)

Fault == faults < MaxFaults /\ faults' = faults + 1

Idle(n) == mode[n] = "up" /\ asking[n] = NoToken

Change(n, s, saved) ==
    /\ mode[n] = "up"
    /\ st' = [st EXCEPT ![n] = s]
    /\ IF saved THEN UNCHANGED <<mode, faults>>
       ELSE Fault /\ mode' = [mode EXCEPT ![n] = "failed"]

Settled(n) ==
    /\ asking' = [asking EXCEPT ![n] = NoToken]
    /\ answer' = [answer EXCEPT ![n] = NoAnswer]

GiveTo(n, t, B, saved) ==
    IF ~saved THEN UNCHANGED <<given, got>> ELSE
    /\ given' = [given EXCEPT ![n] = [k \in Key |-> IF k \in B /\ @[k] < 2 THEN @[k] + 1 ELSE @[k]]]
    /\ got' = [got EXCEPT ![n][t] = B]

-----------------------------------------------------------------------------
(* The two consuming requests, up to the call to the provider.             *)

Post(n, t, size, B) ==
    /\ wire' = wire \cup {<<n, t>>}
    /\ posted' = [posted EXCEPT ![n][t] = [count |-> size, ids |-> B]]
    /\ asked' = [k \in Key |-> IF k \in B /\ asked[k] < 2 THEN asked[k] + 1 ELSE asked[k]]

CanAsk(n, s, t, size) ==
    /\ st[n].req[t].status = "none"
    /\ size \in 1..MaxBatch
    /\ s.attempts + size <= Capacity

(* Plausible bug: the provider is asked before the intent is on the disk.  *)
AskEarly(n, s, t, size, B, saved) ==
    /\ CanAsk(n, s, t, size)
    /\ Post(n, t, size, B)
    /\ IF saved THEN Change(n, Begun(s, t, size, B), TRUE) /\ asking' = [asking EXCEPT ![n] = t]
       ELSE Fault /\ mode' = [mode EXCEPT ![n] = "failed"] /\ UNCHANGED <<st, asking>>
    /\ UNCHANGED <<answer, prov, over, given, got>>

Ask(n, s, t, size, B, saved) ==
    /\ CanAsk(n, s, t, size)
    /\ Change(n, Begun(s, t, size, B), saved)
    /\ IF saved THEN Post(n, t, size, B) /\ asking' = [asking EXCEPT ![n] = t]
       ELSE UNCHANGED <<asking, wire, posted, asked>>
    /\ UNCHANGED <<answer, prov, over, given, got>>

ReserveKeys(size, t, saved) ==
    /\ Idle("master")
    /\ Ask("master", Expire(st["master"], over["master"]), t, size, {}, saved)

ConsumePeerKeys(B, t, saved) ==
    LET s == Expire(st["slave"], over["slave"]) IN
    /\ Idle("slave")
    /\ \A k \in B : ~Known(s, k)
    /\ Ask("slave", s, t, Cardinality(B), B, saved)

-----------------------------------------------------------------------------
(* The provider, external: it serves a call it received even if the caller *)
(* is gone by then.  It may refuse for reasons of its own, and the master  *)
(* gateway cannot know that a wrong answer is wrong unless it checks.  All  *)
(* it goes by is what the call says.                                       *)

Return(n, t, a) ==
    answer' = IF asking[n] = t /\ answer[n] = NoAnswer THEN [answer EXCEPT ![n] = a] ELSE answer

Serve(n, t, a) ==
    /\ <<n, t>> \in wire
    /\ wire' = wire \ {<<n, t>>}
    /\ Return(n, t, a)
    /\ UNCHANGED <<st, mode, asking, posted, over, history>>

Allocate(t, B) ==
    /\ \A k \in B : prov[k] = "free"
    /\ Cardinality(B) = posted["master"][t].count
    /\ Serve("master", t, [kind |-> "keys", ids |-> B])
    /\ prov' = [k \in Key |-> IF k \in B THEN "half" ELSE prov[k]]
    /\ UNCHANGED faults

Retrieve(t) ==
    LET B == posted["slave"][t].ids IN
    /\ \A k \in B : prov[k] = "half"
    /\ Serve("slave", t, [kind |-> "keys", ids |-> B])
    /\ prov' = [k \in Key |-> IF k \in B THEN "spent" ELSE prov[k]]
    /\ UNCHANGED faults

Refuse(n, t) ==
    /\ Serve(n, t, Failure)
    /\ UNCHANGED <<prov, faults>>

Misanswer(n, t, B) ==
    /\ Serve(n, t, [kind |-> "keys", ids |-> B])
    /\ Fault
    /\ UNCHANGED prov

(* The client gives up after two seconds; the call may still be served. *)
TimeOut(n) ==
    /\ mode[n] = "up" /\ asking[n] # NoToken /\ answer[n] = NoAnswer
    /\ answer' = [answer EXCEPT ![n] = Failure]
    /\ Fault
    /\ UNCHANGED <<st, mode, asking, wire, posted, prov, over, history>>

-----------------------------------------------------------------------------
(* The rest of the two requests: one commit decides what became of them.   *)

Good(n) ==
    /\ answer[n].kind = "keys"
    /\ Valid(st[n], n, asking[n], answer[n].ids, over[n])

Complete(n, saved) ==
    LET t == asking[n]
        B == answer[n].ids
    IN
    /\ t # NoToken /\ answer[n] # NoAnswer
    /\ Settled(n)
    /\ IF Good(n) /\ n = "slave" THEN GiveTo(n, t, B, saved) ELSE UNCHANGED <<given, got>>
    /\ Change(n, IF ~Good(n) THEN Uncertain(st[n], t)
                 ELSE IF n = "slave" THEN Consumed(st[n], t)
                 ELSE Fetched(st[n], t, B), saved)
    /\ UNCHANGED <<wire, posted, prov, over, asked>>

(* Plausible bug: a reservation is redeemed by its status alone. *)
ConsumeReservationByStatus(t, saved) ==
    LET s == Expire(st["master"], over["master"])
        B == {k \in s.req[t].ids : s.key[k].material}
    IN
    /\ Idle("master")
    /\ s.req[t].status = "stored" /\ t \notin over["master"]
    /\ Change("master", Consumed(s, t), saved)
    /\ GiveTo("master", t, B, saved)
    /\ UNCHANGED <<asking, answer, wire, posted, prov, over, asked>>

ConsumeReservation(t, saved) ==
    LET s == Expire(st["master"], over["master"]) IN
    /\ Idle("master")
    /\ s.req[t].status = "stored" /\ t \notin over["master"]
    /\ \A k \in s.req[t].ids : s.key[k] = [state |-> "RESERVED", material |-> TRUE]
    /\ Change("master", Consumed(s, t), saved)
    /\ GiveTo("master", t, s.req[t].ids, saved)
    /\ UNCHANGED <<asking, answer, wire, posted, prov, over, asked>>

InvalidateKey(n, k, saved) ==
    /\ Idle(n)
    /\ st[n].key[k].state = "RESERVED"
    /\ Change(n, Ended(st[n], {k}, "INVALID"), saved)
    /\ UNCHANGED <<asking, answer, wire, posted, prov, over, history>>

(* Run, every second, and every refused request: expire and save. *)
Tick(n, saved) ==
    /\ Idle(n)
    /\ Lapsed(st[n], over[n]) # {}
    /\ Change(n, Expire(st[n], over[n]), saved)
    /\ UNCHANGED <<asking, answer, wire, posted, prov, over, history>>

-----------------------------------------------------------------------------
(* The clock of n passes the deadline of request t. *)
Lapse(n, t) ==
    /\ st[n].req[t].status \in {"pending", "stored"}
    /\ t \notin over[n]
    /\ over' = [over EXCEPT ![n] = @ \cup {t}]
    /\ UNCHANGED <<st, process, wire, posted, prov, faults, history>>

Crash(n) ==
    /\ mode[n] = "up"
    /\ Fault
    /\ mode' = [mode EXCEPT ![n] = "failed"]
    /\ UNCHANGED <<st, asking, answer, wire, posted, prov, over, history>>

(* Open: recover, expire, save; a failed save leaves the process down. *)
Restart(n, saved) ==
    /\ mode[n] = "failed"
    /\ st' = [st EXCEPT ![n] = Recovered(@, over[n])]
    /\ Settled(n)
    /\ IF saved THEN mode' = [mode EXCEPT ![n] = "up"] /\ UNCHANGED faults
       ELSE Fault /\ UNCHANGED mode
    /\ UNCHANGED <<wire, posted, prov, over, history>>

Gateway(n, saved) ==
    \/ Complete(n, saved)
    \/ \E k \in Key : InvalidateKey(n, k, saved)
    \/ Tick(n, saved)
    \/ Restart(n, saved)

Saving(saved) ==
    \/ \E size \in 1..MaxBatch, t \in Token : ReserveKeys(size, t, saved)
    \/ \E B \in SUBSET Key, t \in Token : ConsumePeerKeys(B, t, saved)
    \/ \E t \in Token : ConsumeReservation(t, saved)
    \/ \E n \in Role : Gateway(n, saved)

Provider ==
    \E t \in Token :
        \/ Retrieve(t)
        \/ \E B \in SUBSET Key : Allocate(t, B)
        \/ \E n \in Role : Refuse(n, t) \/ \E B \in SUBSET Key : Misanswer(n, t, B)

Next ==
    \/ \E saved \in BOOLEAN : Saving(saved)
    \/ Provider
    \/ \E n \in Role : TimeOut(n) \/ Crash(n) \/ \E t \in Token : Lapse(n, t)

Spec == Init /\ [][Next]_vars

-----------------------------------------------------------------------------
(* Properties.                                                             *)

(* Every variable stays in its type. *)
TypeOK ==
    /\ st \in [Role -> GatewayState]
    /\ mode \in [Role -> {"up", "failed"}]
    /\ asking \in [Role -> Token \cup {NoToken}]
    /\ answer \in [Role -> Answer]
    /\ wire \subseteq Role \X Token
    /\ posted \in [Role -> [Token -> Call]]
    /\ prov \in [Key -> {"free", "half", "spent"}]
    /\ over \in [Role -> SUBSET Token]
    /\ faults \in 0..MaxFaults
    /\ given \in [Role -> [Key -> 0..2]]
    /\ got \in [Role -> [Token -> SUBSET Key]]
    /\ asked \in [Key -> 0..2]

(* Neither gateway hands out the same key twice, whenever it crashes, a    *)
(* write fails, or the provider answers late or wrongly (EAGLE-004).         *)
DeliveredOnce == \A n \in Role, k \in Key : given[n][k] <= 1

(* "Consuming requests are never automatically retried", and a restart     *)
(* quarantines what was in flight: no identifier is asked for twice.       *)
AskedOnce == \A k \in Key : asked[k] <= 1

(* "Requests commit before upstream consumption": whatever the provider    *)
(* spent on a gateway, that gateway's journal has the intent, and its      *)
(* count of attempts covers it, lost answers and crashes included.         *)
IntentFirst ==
    /\ \A k \in Key : prov[k] = "spent" => Known(st["slave"], k)
    /\ Cardinality({k \in Key : prov[k] # "free"}) <= st["master"].attempts
    /\ \A n \in Role : Cardinality({k \in Key : Known(st[n], k)}) <= st[n].attempts

(* A key is held only for a request that is still open: with its bytes,    *)
(* for a stored request at the master gateway; without, for a request in   *)
(* flight, of which a running gateway has only the one it is waiting for.  *)
(* Every other outcome ends the key and leaves no bytes behind.            *)
HeldForARequest ==
    /\ \A n \in Role, k \in Key :
        LET r == st[n].key[k] IN
        /\ r.material => r.state = "RESERVED" /\ n = "master"
        /\ r.state = "RESERVED" =>
            \E t \in Token : /\ k \in st[n].req[t].ids
                              /\ st[n].req[t].status = IF r.material THEN "stored" ELSE "pending"
    /\ \A n \in Role : mode[n] = "up" => Interrupted(st[n]) = {asking[n]} \ {NoToken}

(* Each request is answered with all of its keys or with none, although    *)
(* keys expire or are invalidated while they are reserved.                 *)
WholeBatch == \A n \in Role, t \in Token : got[n][t] \in {{}, st[n].req[t].ids}

(* An outcome is final: an uncertain or consumed request, and a key that   *)
(* was consumed, invalidated or expired, stay so across restarts.          *)
OutcomesAreFinal ==
    [][\A n \in Role :
        /\ \A t \in Token : st[n].req[t].status \in {"uncertain", "consumed"}
                => st'[n].req[t] = st[n].req[t]
        /\ \A k \in Key : st[n].key[k].state \in {"CONSUMED", "INVALID", "EXPIRED"}
                => st'[n].key[k] = st[n].key[k]]_vars
=============================================================================
