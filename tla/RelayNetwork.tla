---------------------------- MODULE RelayNetwork ----------------------------
(***************************************************************************)
(* Relay engines that move keys hop by hop from the source to the target:  *)
(* handlers running concurrently with one serialized worker per node,      *)
(* requests that are delayed, reordered or lost, journal writes that fail, *)
(* and nodes that stop and restart from their journal.                     *)
(*                                                                         *)
(* One association (one master SAE, one slave SAE) is modelled; a request  *)
(* carries one key, as those of an engine do.                              *)
(***************************************************************************)
EXTENDS RelayEngine

CONSTANTS
    Source,         \* the node where the master SAE is local
    Target,         \* the node where the slave SAE is local
    Route,          \* Route[n]: the next hops configured for the slave SAE
    Capacity,       \* Capacity[n]: records n may ever create, terminal ones included
    MaxFaults,      \* bound: losses, timeouts, crashes and failed journal writes
    MayLapse,       \* bound: the <<node, key>> records whose lifetime may end
    MayInvalidate   \* bound: the <<node, key>> records an operator may invalidate

(* peering.Config.Validate: a route names configured peers, and no peer of *)
(* a node is the node itself.                                              *)
ASSUME EndpointAssumption == Source \in Node /\ Target \in Node /\ Source # Target

ASSUME RouteAssumption ==
    /\ Route \in [Node -> SUBSET Node]
    /\ \A n \in Node : n \notin Route[n]

ASSUME CapacityAssumption == Capacity \in [Node -> Nat \ {0}]

ASSUME BoundAssumption ==
    /\ MaxFaults \in Nat
    /\ MayLapse \subseteq Node \X Key
    /\ MayInvalidate \subseteq Node \X Key

VARIABLES
    st,        \* st[n]: the engine state in n's journal; what n holds in memory while it is up
    mode,      \* mode[n]: "failed" is a process that is gone or refuses service after a failed write
    jobs,      \* jobs[n]: results of the worker's snapshot of the outbox still to be sent
    call,      \* call[n]: the result the worker is sending right now, if any
    answered,  \* nodes whose call was accepted by the peer
    net,       \* requests posted and not yet handled
    lapsed,    \* lapsed[n]: keys whose lifetime ended on n's clock
    given,     \* given[n][k]: history, how often n handed k to its SAE (2 is "more than once")
    resv,      \* resv[t]: history, the keys promised behind token t and those it delivered
    faults     \* faults so far

worker == <<jobs, call, answered>>
history == <<given, resv>>
vars == <<st, mode, jobs, call, answered, net, lapsed, given, resv, faults>>

Transfer(p, n, k) == [kind |-> "transfer", from |-> p, to |-> n, key |-> k, status |-> "none"]
Void(p, n, k)     == [kind |-> "void", from |-> p, to |-> n, key |-> k, status |-> "none"]
Ack(p, j)         == [kind |-> "ack", from |-> p, to |-> j.peer, key |-> j.key, status |-> j.status]

Message == [kind : {"transfer", "void", "ack"}, from : Node, to : Node,
            key : Key, status : Status \cup {"none"}]

(* The peers a node accepts transfers from (peering.Peer.Incoming).        *)
Incoming(n) == {p \in Node : n \in Route[p]}

HasRoom(n, k) == Room(st[n], {k}, Capacity[n])

Up(n) == mode[n] = "up"
Lapsed(n, k) == k \in lapsed[n]

(* Inside Step the records are visited after the snapshot of results.      *)
VisitingRecords(n) == jobs[n] = {} /\ call[n] = {}

Init ==
    /\ st = [n \in Node |-> EmptyEngine]
    /\ mode = [n \in Node |-> "up"]
    /\ jobs = [n \in Node |-> {}]
    /\ call = [n \in Node |-> {}]
    /\ answered = {}
    /\ net = {}
    /\ lapsed = [n \in Node |-> {}]
    /\ given = [n \in Node |-> [k \in Key |-> 0]]
    /\ resv = [t \in Token |-> [ids |-> {}, got |-> {}]]
    /\ faults = 0

-----------------------------------------------------------------------------
(* Engine.change.  The journal write may fail after the new snapshot was   *)
(* renamed into place: the state is on disk, but the process is poisoned   *)
(* and the caller gets an error ("saved" is FALSE).  A write that fails    *)
(* before the rename leaves what Crash leaves.                             *)

Fault == faults < MaxFaults /\ faults' = faults + 1

Costs(fault) == IF fault THEN Fault ELSE UNCHANGED faults

Change(n, s, saved) ==
    /\ Up(n)
    /\ st' = [st EXCEPT ![n] = s]
    /\ mode' = IF saved THEN mode ELSE [mode EXCEPT ![n] = "failed"]

-----------------------------------------------------------------------------
(* The 014 side: provisioning, reservation and consumption.                *)

StoreKey(n, k, saved) ==
    /\ n = Source
    /\ ~Known(st[n], k) /\ HasRoom(n, k)
    /\ Route[n] # {}
    /\ Change(n, Stored(st[n], k), saved)
    /\ Costs(~saved)
    /\ UNCHANGED <<worker, net, lapsed, history>>

ReserveKeys(n, B, t, saved) ==
    /\ n = Source
    /\ B # {}
    /\ \A k \in B : CanReserve(st[n], k, Lapsed(n, k))
    /\ Holding(st[n], t) = {} /\ resv[t].ids = {}
    /\ Change(n, WithToken(st[n], B, t), saved)
    /\ Costs(~saved)
    /\ resv' = IF saved THEN [resv EXCEPT ![t].ids = B] ELSE resv
    /\ UNCHANGED <<worker, net, lapsed, given>>

(* The SAE receives the bytes only after the consumption was saved.        *)
GiveTo(n, B, saved) ==
    given' = IF ~saved THEN given ELSE
        [given EXCEPT ![n] = [k \in Key |-> IF k \in B /\ @[k] < 2 THEN @[k] + 1 ELSE @[k]]]

(* Plausible bug: a reservation is consumed whether or not its keys are usable. *)
ConsumeReservationUnchecked(n, t, saved) ==
    LET B == resv[t].ids IN
    /\ n = Source
    /\ B # {}
    /\ Change(n, Delivered(st[n], B), saved)
    /\ Costs(~saved)
    /\ GiveTo(n, B, saved)
    /\ resv' = IF saved THEN [resv EXCEPT ![t].got = B] ELSE resv
    /\ UNCHANGED <<worker, net, lapsed>>

(* A caller that was given the token t redeems it. *)
ConsumeReservation(n, t, saved) ==
    LET B == Holding(st[n], t) IN
    /\ n = Source
    /\ resv[t].ids # {}
    /\ B # {}
    /\ \A k \in B : st[n].keys[k].role = "source" /\ Usable(st[n], k, Lapsed(n, k))
    /\ Change(n, Delivered(st[n], B), saved)
    /\ Costs(~saved)
    /\ GiveTo(n, B, saved)
    /\ resv' = IF saved THEN [resv EXCEPT ![t].got = B] ELSE resv
    /\ UNCHANGED <<worker, net, lapsed>>

(* Plausible bug: the bytes leave before the consumption is durable. *)
ConsumePeerKeysEarly(n, B, saved) ==
    /\ n = Target
    /\ B # {}
    /\ \A k \in B : st[n].keys[k].role = "target" /\ Usable(st[n], k, Lapsed(n, k))
    /\ \/ Change(n, Delivered(st[n], B), saved) /\ Costs(~saved)
       \/ Up(n) /\ Fault /\ mode' = [mode EXCEPT ![n] = "failed"] /\ UNCHANGED st
    /\ GiveTo(n, B, TRUE)
    /\ UNCHANGED <<worker, net, lapsed, resv>>

ConsumePeerKeys(n, B, saved) ==
    /\ n = Target
    /\ B # {}
    /\ \A k \in B : st[n].keys[k].role = "target" /\ Usable(st[n], k, Lapsed(n, k))
    /\ Change(n, Delivered(st[n], B), saved)
    /\ Costs(~saved)
    /\ GiveTo(n, B, saved)
    /\ UNCHANGED <<worker, net, lapsed, resv>>

InvalidateKey(n, k, saved) ==
    /\ <<n, k>> \in MayInvalidate
    /\ Known(st[n], k)
    /\ Change(n, VoidKey(st[n], k, {}), saved)
    /\ Costs(~saved)
    /\ UNCHANGED <<worker, net, lapsed, history>>

(* The clock of n passes the expiry of a live record. *)
Lapse(n, k) ==
    /\ <<n, k>> \in MayLapse
    /\ Known(st[n], k) /\ ~st[n].keys[k].voiding
    /\ ~Lapsed(n, k)
    /\ lapsed' = [lapsed EXCEPT ![n] = @ \cup {k}]
    /\ UNCHANGED <<st, mode, worker, net, history, faults>>

-----------------------------------------------------------------------------
(* The worker.  Run calls Step every 100 ms; Step sweeps expired records,  *)
(* takes a snapshot of the outbox, sends those results one at a time, then *)
(* visits every record.                                                    *)

(* Plausible bug: a key behind a reservation is left to its caller. *)
SweepUnreserved(n, saved) ==
    LET L == {k \in lapsed[n] : st[n].keys[k].token = NoToken} IN
    /\ VisitingRecords(n)
    /\ \E k \in L : Known(st[n], k) /\ ~st[n].keys[k].voiding
    /\ Change(n, Swept(st[n], L), saved)
    /\ Costs(~saved)
    /\ UNCHANGED <<worker, net, lapsed, history>>

Sweep(n, saved) ==
    /\ VisitingRecords(n)
    /\ \E k \in lapsed[n] : Known(st[n], k) /\ ~st[n].keys[k].voiding
    /\ Change(n, Swept(st[n], lapsed[n]), saved)
    /\ Costs(~saved)
    /\ UNCHANGED <<worker, net, lapsed, history>>

TakeJobs(n) ==
    /\ Up(n) /\ VisitingRecords(n)
    /\ st[n].acks # {}
    /\ jobs' = [jobs EXCEPT ![n] = st[n].acks]
    /\ UNCHANGED <<st, mode, call, answered, net, lapsed, history, faults>>

(* A poisoned process still sends what is left of the snapshot. *)
SendAck(n, j) ==
    /\ j \in jobs[n] /\ call[n] = {}
    /\ jobs' = [jobs EXCEPT ![n] = @ \ {j}]
    /\ call' = [call EXCEPT ![n] = {j}]
    /\ net' = net \cup {Ack(n, j)}
    /\ UNCHANGED <<st, mode, answered, lapsed, history, faults>>

(* Plausible bug: an accepted result drops every result owed for the key. *)
AckReturnClearsKey(n, saved) ==
    /\ n \in answered
    /\ Change(n, [st[n] EXCEPT !.acks = {j \in @ : \A c \in call[n] : j.key # c.key}], saved)
    /\ Costs(~saved)
    /\ call' = [call EXCEPT ![n] = {}]
    /\ answered' = answered \ {n}
    /\ UNCHANGED <<jobs, net, lapsed, history>>

(* Plausible bug: an accepted result stays queued. *)
AckReturnKeeps(n, saved) ==
    /\ n \in answered
    /\ Change(n, st[n], saved)
    /\ Costs(~saved)
    /\ call' = [call EXCEPT ![n] = {}]
    /\ answered' = answered \ {n}
    /\ UNCHANGED <<jobs, net, lapsed, history>>

(* The peer answered 200: the result leaves the outbox. *)
AckReturn(n, saved) ==
    /\ n \in answered
    /\ Change(n, [st[n] EXCEPT !.acks = @ \ call[n]], saved)
    /\ Costs(~saved)
    /\ call' = [call EXCEPT ![n] = {}]
    /\ answered' = answered \ {n}
    /\ UNCHANGED <<jobs, net, lapsed, history>>

EndCall(n) ==
    /\ call[n] # {}
    /\ call' = [call EXCEPT ![n] = {}]
    /\ answered' = answered \ {n}
    /\ UNCHANGED <<st, mode, jobs, net, lapsed, history>>

(* The request was lost or refused, or the journal no longer takes the     *)
(* outcome: the result stays in the outbox for a later Step.               *)
AckFails(n) ==
    /\ ~Up(n) \/ (n \notin answered /\ \A j \in call[n] : Ack(n, j) \notin net)
    /\ EndCall(n)
    /\ UNCHANGED faults

(* The client gives up on a request that may still arrive, or whose answer *)
(* was on its way.                                                         *)
AckTimesOut(n) ==
    /\ Up(n)
    /\ EndCall(n)
    /\ Fault

Candidates(n, k) == Route[n] \ {st[n].keys[k].sender}

(* Plausible bug: the transfer is posted before the intent is saved. *)
TransmitUncommitted(n, k, p, saved) ==
    /\ VisitingRecords(n)
    /\ Unsettled(st[n], k, Lapsed(n, k))
    /\ p \in NextHops(st[n], k, Candidates(n, k))
    /\ \/ Change(n, Pinned(st[n], k, p), saved) /\ Costs(~saved)
       \/ Up(n) /\ Fault /\ mode' = [mode EXCEPT ![n] = "failed"] /\ UNCHANGED st
    /\ net' = net \cup {Transfer(n, p, k)}
    /\ UNCHANGED <<worker, lapsed, history>>

(* Plausible bug: a key is posted once and never again. *)
TransmitOnce(n, k, p, saved) ==
    /\ VisitingRecords(n)
    /\ Unsettled(st[n], k, Lapsed(n, k)) /\ ~st[n].keys[k].sent
    /\ p \in NextHops(st[n], k, Candidates(n, k))
    /\ Change(n, Pinned(st[n], k, p), saved)
    /\ Costs(~saved)
    /\ net' = IF saved THEN net \cup {Transfer(n, p, k)} ELSE net
    /\ UNCHANGED <<worker, lapsed, history>>

(* sendRecord for a live record: save the intent, then post.  The request  *)
(* carries the bytes read before the probe; the guard of the saved intent  *)
(* makes them the record's own.                                            *)
Transmit(n, k, p, saved) ==
    /\ VisitingRecords(n)
    /\ Unsettled(st[n], k, Lapsed(n, k))
    /\ p \in NextHops(st[n], k, Candidates(n, k))
    /\ Change(n, Pinned(st[n], k, p), saved)
    /\ Costs(~saved)
    /\ net' = IF saved THEN net \cup {Transfer(n, p, k)} ELSE net
    /\ UNCHANGED <<worker, lapsed, history>>

(* sendRecord for a voiding record: ask every neighbour still pending. *)
SendVoids(n, k) ==
    /\ Up(n) /\ VisitingRecords(n)
    /\ st[n].keys[k].voiding /\ st[n].keys[k].voidPending # {}
    /\ net' = net \cup {Void(n, p, k) : p \in st[n].keys[k].voidPending}
    /\ UNCHANGED <<st, mode, worker, lapsed, history, faults>>

-----------------------------------------------------------------------------
(* The handlers of the 020 interface.                                      *)

(* A request reaches its handler.  Its sender may have posted it again     *)
(* while this copy was delayed: then another one is still on its way.      *)
Arrives(m, saved, again) ==
    /\ m \in net
    /\ net' = IF again THEN net ELSE net \ {m}
    /\ Costs(~saved \/ again)

CanAccept(n, p, k) ==
    /\ p \in Incoming(n)
    /\ n # Source
    /\ IF Known(st[n], k) THEN st[n].keys[k].sender = p
       ELSE HasRoom(n, k) /\ (n = Target \/ Route[n] \ {p} # {})

HandleTransfer(n, p, k, saved) ==
    /\ \E again \in BOOLEAN : Arrives(Transfer(p, n, k), saved, again)
    /\ CanAccept(n, p, k)
    /\ Change(n, Accepted(st[n], p, k, n = Target, Lapsed(n, k)), saved)
    /\ UNCHANGED <<worker, lapsed, history>>

CanDiscard(n, p, k) == CanVoid(st[n], p, k, p \in Incoming(n)) /\ HasRoom(n, k)

HandleVoid(n, p, k, saved) ==
    /\ \E again \in BOOLEAN : Arrives(Void(p, n, k), saved, again)
    /\ CanDiscard(n, p, k)
    /\ Change(n, Voided(st[n], p, k, n = Target), saved)
    /\ UNCHANGED <<worker, lapsed, history>>

HandleAck(n, p, j, saved) ==
    /\ j.peer = n
    /\ CanAcknowledge(st[n], p, j.key, j.status)
    /\ Change(n, Acknowledged(st[n], p, j.key, j.status, Lapsed(n, j.key)), saved)
    /\ \E again \in BOOLEAN :
        /\ Arrives(Ack(p, j), saved, again)
        /\ \/ answered' = IF saved /\ call[p] = {j} THEN answered \cup {p} ELSE answered
           \/ again /\ UNCHANGED answered
    /\ UNCHANGED <<jobs, call, lapsed, history>>

Acceptable(m) ==
    CASE m.kind = "transfer" -> CanAccept(m.to, m.from, m.key)
      [] m.kind = "void"     -> CanDiscard(m.to, m.from, m.key)
      [] m.kind = "ack"      -> CanAcknowledge(st[m.to], m.from, m.key, m.status)

(* Connection refused, a poisoned engine, or a handler that rejects. *)
Refuse(m) ==
    /\ ~(Up(m.to) /\ Acceptable(m))
    /\ net' = net \ {m}
    /\ UNCHANGED <<st, mode, worker, lapsed, history, faults>>

Lose(m) ==
    /\ Fault
    /\ net' = net \ {m}
    /\ UNCHANGED <<st, mode, worker, lapsed, history>>

-----------------------------------------------------------------------------
(* Processes.                                                              *)

Crash(n) ==
    /\ Up(n)
    /\ Fault
    /\ mode' = [mode EXCEPT ![n] = "failed"]
    /\ UNCHANGED <<st, worker, net, lapsed, history>>

(* Open: the engine resumes from its journal; the worker starts over. *)
Restart(n) ==
    /\ ~Up(n)
    /\ mode' = [mode EXCEPT ![n] = "up"]
    /\ jobs' = [jobs EXCEPT ![n] = {}]
    /\ call' = [call EXCEPT ![n] = {}]
    /\ answered' = answered \ {n}
    /\ UNCHANGED <<st, net, lapsed, history, faults>>

Saving(n, saved) ==
    \/ \E k \in Key : StoreKey(n, k, saved)
    \/ \E B \in SUBSET Key, t \in Token : ReserveKeys(n, B, t, saved)
    \/ \E t \in Token : ConsumeReservation(n, t, saved)
    \/ \E B \in SUBSET Key : ConsumePeerKeys(n, B, saved)
    \/ \E k \in Key : InvalidateKey(n, k, saved)
    \/ Sweep(n, saved)
    \/ AckReturn(n, saved)
    \/ \E k \in Key, p \in Node : Transmit(n, k, p, saved)
    \/ \E k \in Key, p \in Node : HandleTransfer(n, p, k, saved)
    \/ \E k \in Key, p \in Node : HandleVoid(n, p, k, saved)
    \/ \E j \in Job, p \in Node : HandleAck(n, p, j, saved)

Volatile(n) ==
    \/ \E k \in Key : Lapse(n, k)
    \/ TakeJobs(n)
    \/ \E j \in jobs[n] : SendAck(n, j)
    \/ AckFails(n)
    \/ AckTimesOut(n)
    \/ \E k \in Key : SendVoids(n, k)
    \/ Crash(n)
    \/ Restart(n)

Network == \E m \in net : Refuse(m) \/ Lose(m)

Next ==
    \/ \E n \in Node, saved \in BOOLEAN : Saving(n, saved)
    \/ \E n \in Node : Volatile(n)
    \/ Network

Spec == Init /\ [][Next]_vars

-----------------------------------------------------------------------------
(* Fairness.  Run ticks every 100 ms and a tick visits the outbox and      *)
(* every record, so a worker step that keeps becoming possible is taken    *)
(* (strong for the steps a busy outbox disables again and again); a        *)
(* request that is neither lost nor refused is handled; a stopped node is  *)
(* started again.  Nothing obliges an SAE, an operator, a clock or a fault.*)

SweepAny(n)          == \E saved \in BOOLEAN : Sweep(n, saved)
AckReturnAny(n)      == \E saved \in BOOLEAN : AckReturn(n, saved)
SendAnyAck(n)        == \E j \in jobs[n] : SendAck(n, j)
TransmitAny(n, k)    == \E p \in Node, saved \in BOOLEAN : Transmit(n, k, p, saved)
HandleFrom(n, p)     ==
    \E saved \in BOOLEAN :
        \/ \E k \in Key : HandleTransfer(n, p, k, saved) \/ HandleVoid(n, p, k, saved)
        \/ \E j \in Job : HandleAck(n, p, j, saved)
RefuseAny            == \E m \in net : Refuse(m)

Fairness ==
    /\ \A n \in Node :
        /\ WF_vars(Restart(n))
        /\ WF_vars(TakeJobs(n))
        /\ WF_vars(SendAnyAck(n))
        /\ WF_vars(AckReturnAny(n))
        /\ WF_vars(AckFails(n))
        /\ SF_vars(SweepAny(n))
        /\ \A k \in Key : SF_vars(TransmitAny(n, k)) /\ SF_vars(SendVoids(n, k))
        /\ \A p \in Node \ {n} : WF_vars(HandleFrom(n, p))
    /\ WF_vars(RefuseAny)

LiveSpec == Spec /\ Fairness

-----------------------------------------------------------------------------
(* Properties.                                                             *)

Rec(n, k) == st[n].keys[k]

(* Every variable stays in its type; in particular a node never waits for  *)
(* a confirmation from the empty peer.                                     *)
TypeOK ==
    /\ st \in [Node -> EngineState]
    /\ mode \in [Node -> {"up", "failed"}]
    /\ jobs \in [Node -> SUBSET Job]
    /\ call \in [Node -> SUBSET Job]
    /\ answered \subseteq Node
    /\ net \subseteq Message
    /\ lapsed \in [Node -> SUBSET Key]
    /\ given \in [Node -> [Key -> 0..2]]
    /\ resv \in [Token -> [ids : SUBSET Key, got : SUBSET Key]]
    /\ faults \in 0..MaxFaults

(* No SAE ever receives the same key twice, whatever is retried, lost,     *)
(* crashed or restarted around the consumption (NET-002, CORE-004).        *)
DeliveredOnce == \A n \in Node, k \in Key : given[n][k] <= 1

(* A key is published at a hop only while the next hop, which received it  *)
(* from this node, has published it too or is already discarding it; at    *)
(* the source this is "offered only once the target holds it" (NET-003).   *)
ReadyMeansNextHolds ==
    \A n \in Node, k \in Key :
        LET r == Rec(n, k) IN
        r.ready /\ n # Target =>
            LET d == Rec(r.next, k) IN
            r.next \in Node /\ d.sender = n /\ ~d.unknown /\ (d.ready \/ d.voiding)

(* A node's key is never held by two of its downstream neighbours: the     *)
(* path is pinned through losses, crashes and retries (NET-004).           *)
SinglePath ==
    \A n \in Node, k \in Key : \A p, q \in Node :
        (/\ Known(st[p], k) /\ Rec(p, k).sender = n
         /\ Known(st[q], k) /\ Rec(q, k).sender = n) => p = q

(* A step never revives a record: void and consumption are final, erased   *)
(* bytes never come back, a committed path is never changed, and this      *)
(* holds across late messages, crashes and restarts (NET-005).             *)
NoRevival ==
    [][\A n \in Node, k \in Key :
        LET r == Rec(n, k) IN Known(st[n], k) =>
            /\ Known(st'[n], k)
            /\ r.voiding => Rec(n, k)'.voiding
            /\ r.delivered => Rec(n, k)'.delivered
            /\ ~r.material => ~Rec(n, k)'.material
            /\ r.sent => Rec(n, k)'.sent /\ Rec(n, k)'.next = r.next]_vars

(* When a node stops waiting for confirmations of a void, its next hop has *)
(* discarded the key, and so has its sender unless it is about to be told: *)
(* no copy outlives the end of the void at a neighbour.                    *)
HopVoided ==
    \A n \in Node, k \in Key :
        LET r == Rec(n, k) IN
        r.voiding /\ r.voidPending = {} =>
            /\ r.sent => Rec(r.next, k).voiding
            /\ r.sender \in Node =>
                  \/ Rec(r.sender, k).voiding
                  \/ \E j \in st[n].acks : /\ j.peer = r.sender /\ j.key = k
                                            /\ j.status \in VoidStatus

(* Every result in an outbox, in a worker's hands or on the wire is one    *)
(* its receiver authorises, even a stale one: no job can be rejected for   *)
(* ever and keep the outbox from draining.                                 *)
AcksAcceptable ==
    /\ \A n \in Node : \A j \in st[n].acks \cup jobs[n] \cup call[n] :
           CanAcknowledge(st[j.peer], n, j.key, j.status)
    /\ \A m \in net : m.kind = "ack" => Acceptable(m)

(* A node that consumed its copy and has finished the void has told every  *)
(* neighbour that asked, still has that result to send, or will be asked   *)
(* again by a neighbour that waits for it: no late, repeated or overtaken  *)
(* result hides the consumption from those who asked.                      *)
FailureNotForgotten ==
    \A n \in Node, k \in Key : \A p \in Rec(n, k).voidRequests :
        Rec(n, k).delivered /\ Rec(n, k).voidPending = {} =>
            \/ [peer |-> p, key |-> k, status |-> "failed to void"] \in st[n].acks
            \/ Rec(p, k).voidFailed
            \/ n \in Rec(p, k).voidPending

(* "Repository operations are atomic across each entire batch"             *)
(* (core/key.go): a reservation delivers all of its keys or none.          *)
WholeBatch == \A t \in Token : resv[t].got \in {{}, resv[t].ids}

(* "failed to void propagates if a recipient already consumed its copy"    *)
(* (ETSI020_PROFILE.md): when a void has come to rest everywhere, a source *)
(* that discarded its own copy knows that the target consumed the other.   *)
AtRest(k) ==
    /\ \A n \in Node : Rec(n, k).voidPending = {}
    /\ \A n \in Node : \A j \in st[n].acks \cup jobs[n] \cup call[n] : j.key # k
    /\ \A m \in net : m.key # k

FailureReachesSource ==
    \A k \in Key :
        AtRest(k) /\ Rec(Source, k).voiding /\ Rec(Target, k).delivered
            => Rec(Source, k).voidFailed

(* Tombstones keep their place for ever: n will never take a request about *)
(* a key it does not know.                                                 *)
Closed(n, k) == ~Known(st[n], k) /\ ~HasRoom(n, k)

(* Every key taken in at the source is eventually published or discarded,  *)
(* unless it is on its way to a node that is full.                         *)
TransferSettles ==
    \A k \in Key : Known(st[Source], k) ~>
        \/ Rec(Source, k).ready \/ Rec(Source, k).voiding
        \/ \E n \in Node : Rec(n, k).sent /\ Closed(Rec(n, k).next, k)

(* A void started anywhere ends: every node that has a record discards it, *)
(* and none is left waiting for a confirmation, except for that of a full  *)
(* node that never had the key.                                            *)
VoidSpreads ==
    \A n \in Node, k \in Key :
        Rec(n, k).voiding ~>
            \A p \in Node : Known(st[p], k) =>
                Rec(p, k).voiding /\ \A q \in Rec(p, k).voidPending : Closed(q, k)

(* Once its lifetime is over, a node erases a key's bytes and gives up the *)
(* reservation that held it back, also when the caller with the token is   *)
(* gone: the worker comes round to its sweep between its calls.            *)
ErasedWhenLapsed ==
    \A n \in Node, k \in Key :
        Lapsed(n, k) ~> ~Rec(n, k).material /\ Rec(n, k).token = NoToken

Quiet == \A n \in Node : st[n].acks = {}

(* Two neighbours owe each other the result of the same void. *)
Crossed ==
    \E n, p \in Node, k \in Key :
        n \in Rec(p, k).voidRequests /\ p \in Rec(n, k).voidRequests

(* The outboxes empty for good, except after voids of the same key that    *)
(* crossed on a link.                                                      *)
OutboxDrainsUnlessCrossed == <>[]Quiet \/ <>Crossed

(* "Step drains a bounded snapshot of the outbox" (relay/engine.go): once  *)
(* nothing new happens the outboxes empty for good.                        *)
OutboxDrains == <>[]Quiet

(* End to end, the network behaves as the two local copies KeyDelivery     *)
(* promises (NET-002, NET-003): the copies at the source and the target    *)
(* read as below.                                                          *)
MasterCopy ==
    [k \in Key |-> LET r == Rec(Source, k) IN
        IF ~Known(st[Source], k) THEN "none"
        ELSE IF r.delivered THEN "given"
        ELSE IF r.voiding THEN "dead"
        ELSE IF r.ready THEN "offered" ELSE "stored"]

SlaveCopy ==
    [k \in Key |-> LET r == Rec(Target, k) IN
        IF ~Known(st[Target], k) THEN "none"
        ELSE IF r.delivered THEN "given"
        ELSE IF r.voiding THEN "dead" ELSE "offered"]

EndToEnd == INSTANCE KeyDelivery WITH master <- MasterCopy, slave <- SlaveCopy

PromiseKept == EndToEnd!Spec
=============================================================================
