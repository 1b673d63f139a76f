# TLA+ verification of the TransEuroOGS KMS

This directory models the key management gateway of this repository in TLA+,
checks the models with TLC and proves part of what they promise with TLAPS. The
models are translated from the Go sources; `PROJECT.json` maps each definition
to the lines it stands for. Source paths below are relative to `src/internal/`
unless they begin with `cmd/` or `docs/`.

## 1. The system

A gateway hands symmetric keys to applications (SAEs) over ETSI GS QKD 014:
the *master* SAE of an association asks for keys (`enc_keys`), tells the *slave*
SAE their identifiers, and the slave fetches its copies by identifier
(`dec_keys`). Behind that interface a gateway runs one of three repositories,
all of the type `core.Repository`:

| Component | State | Operations | Concurrency and failure |
| --- | --- | --- | --- |
| `storage.Memory` | entries with a master and a slave copy, insertion order, reservations | StoreKey, ReserveKeys, ConsumeReservation, ConsumePeerKeys, InvalidateKey, Metadata, Inventory | one lock; expiry noticed lazily |
| `relay.Engine` | a record per key (role, peers, sent, ready, delivered, voiding ...), an outbox of results, a cursor per route, a journal | the same, and Accept, Acknowledge, Void from peers; Step, the worker | handlers run while the worker waits for a peer; every change is saved first; a failed save poisons the process |
| `ingest.Repository` | requests (pending, stored, consumed, uncertain), keys, attempts, a journal | ReserveKeys, ConsumeReservation, ConsumePeerKeys, InvalidateKey, expiry timer | one lock, held across the call to an upstream provider that may answer late, wrongly or never |
| the daemon (`cmd/kms`, `synthetic`) | the process: its stage, its worker, the lock on the state directory | open, seed, listen, serve, shut down, close | several processes on one directory; requests that outlive the shutdown; kills |

Around them: `etsi014` (server and client), `etsi020` (the asynchronous
interface between gateways and relays: versions, transfer, ack, void),
`durable` (the encrypted snapshot both durable repositories use), and
configuration, certificates and demonstration programs.

How they interact. The 014 server calls the repository; `enc_keys` makes *two*
calls, reserve and consume. Relay engines talk to each other in one-way
requests: a transfer is accepted with 202 and confirmed much later by an ack
request in the other direction; a void likewise. Acks wait in a durable outbox
until the peer answered 200. `Run` calls `Step` every 100 ms: sweep expired
records, send a snapshot of the outbox, then visit every record and post its
transfer or its voids. In segmented mode there are no peers: two gateways each
ask the same external provider. The daemon opens the engine, may store synthetic
keys in it, serves its handlers and runs its worker, and closes it at the end.

What is hard to get right, and what makes each part correct:

* **Relay between gateways of this kind.** A key crosses trusted hops while
  requests are lost, answers time out, results are sent from a stale snapshot,
  both ends start voids of their own, records expire on different clocks, a node
  may be full, and any process may stop between the commit of an intent and the
  request. Correct means: no SAE gets a key twice; a key is offered only once the
  target holds it; a key has one path; void is final and reaches everyone;
  results get through or are given up.
* **Relay among other vendors' gateways.** Peers may batch, repeat and reorder
  whatever the interface allows, name keys never seen, and void associations as a
  whole. Correct means: an identifier keeps its first content; every accepted
  void is answered with its final verdict; the outbox says what the records say;
  the capacity counts tombstones too; keys are spread evenly over a route.
* **Journal.** Correct means: what was acted on survives any stop or power loss,
  and a process never resumes from an older state.
* **Daemon.** Correct means: what a peer was told is not overwritten by a
  straggling request or the next process; only a fresh directory is seeded; the
  process ends when told to.
* **Ingestion.** Correct means: an identifier is asked for once, a request
  whose outcome is unknown is closed for good, and the count of attempts covers
  everything the provider may have spent.
* **Memory and 014.** Correct means: batches are whole, nothing is delivered
  twice, too early or too late, although a request is two operations.

`PROJECT.json` lists each hazard at the line where it bites, with the properties
that cover it. One has none: the journal directory's own entry is not synced
when it is first made (`durable/journal.go:28`), so that a power loss may take
the whole directory. The engine then starts as a new node, which its local
checks cannot tell from the first start; `Journal` begins with the directory in
place.

## 2. The modules

| Module | Models | Rests on |
| --- | --- | --- |
| `RelayEngine` | the state of one engine and each closure it runs inside `Engine.change` | |
| `RelayNetwork` | engines of this program, their workers, the requests between them, failed writes, crashes, restarts, clocks | `RelayEngine`; refines `KeyDelivery` |
| `Interworking` | one engine among arbitrary peers: several associations, batches, contents, routes | `RelayEngine` |
| `KeyDelivery` | the promise to the two applications of an association (abstract) | |
| `Memory` | the in-memory repository, one operator per operation | |
| `LocalKMS` | the 014 handlers over it, several requests at a time | `Memory`; refines `KeyDelivery` |
| `Ingest` | both gateways of segmented mode and the provider | |
| `Journal` | the files, directory syncs, processes and power losses under both durable repositories | refines `AtomicSave` |
| `AtomicSave` | what the owners of a journal assume of a save (abstract) | |
| `Daemon` | processes in network mode around one state directory, from open to exit | |
| `RelayEngineProofs`, `RelayNetworkProofs`, `InterworkingProofs`, `LocalKMSProofs`, `IngestProofs`, `JournalProofs`, `DaemonProofs` | theorems | the modules they are named for; `RelayNetworkProofs` and `InterworkingProofs` both use `RelayEngineProofs` |
| `RelayPathProofs` | theorems about neighbours | continues `RelayNetworkProofs` |
| `MCRelay`, `MCInterworking`, `MCLocalKMS`, `MCIngest`, `MCJournal`, `MCDaemon` | topologies, bounds and symmetry for TLC | |

Conventions. A handler that holds a lock from start to end is one action. An
early return that changes nothing is the negation of the action's guard; one
that does change something (an expiry noticed on the way, a tombstone) is an
action or a branch of its own. `saved` is the outcome of a journal write. A
definition introduced by "Plausible bug" is not part of the model: it is a
mutated form of the definition after it, kept to show that the runs notice.

### RelayEngine

One record per key carries the fields of the Go `record` that decide anything:
`role`, `sender`, `next`, `sent`, `ready`, `delivered`, `material` (are the bytes
still there), `token`, `voiding`, `voidFailed`, `unknown`, `voidPending`,
`voidRequests`. The outbox is a set of jobs. The module gives each handler a
guard (`CanAcknowledge`, `CanVoid`, `CanReserve`, ...) and a resulting state
(`Accepted`, `Acknowledged`, `Voided`, ...) for one key, built from `Enqueue`,
`StartVoid` and `FinishVoid` as the code is from `enqueue`, `startVoid` and
`finishVoid`. Two modules compose them in different surroundings.

### RelayNetwork

| Action | Code |
| --- | --- |
| `StoreKey`, `ReserveKeys`, `ConsumeReservation`, `ConsumePeerKeys`, `InvalidateKey` | the operations of the same name |
| `HandleTransfer`, `HandleAck`, `HandleVoid`, `Refuse` | `Accept`, `Acknowledge`, `Void` behind the 020 handler, or its error answers |
| `Sweep`, `TakeJobs`, `SendAck`, `AckReturn`, `AckFails`, `AckTimesOut` | `Step`, cut where it releases the lock |
| `Transmit`, `SendVoids` | `sendRecord` for a live and for a voiding record |
| `Crash`, `Restart` | the process stops; `Open` |
| `Lapse`, `Lose` | the clock passes an expiry; a request is lost |

The state of a running engine is its journal, since `change` publishes a state
only after it was saved. A failed save leaves either the old or the new state on
disk and poisons the process: `saved = FALSE` takes the second case, `Crash` the
first. `Restart` resumes what is on disk. This is what `Journal` justifies (see
below). A request posted stays in `net` after its sender timed out, crashed or
restarted, and is handled at any later time or never. A set does not count copies:
posting a request again while the first copy is outstanding leaves `net` as it is.
That copy is left behind when the other one is handled instead: in `Arrives` the
request may stay in `net` (`again`, at the cost of a fault), and the answer to a
delayed copy of a result need not reach the sender. So handlers meet duplicates
also late, after the record and its sender have moved on.

`Capacity[n]` is the number of records a node may ever create; tombstones count.
A full node refuses transfers and voids alike, and the run `live_full` has one.

Abstractions: one association, and requests with one key, which is what an engine
of this program sends; a queued result is always due, and one that `Step` would
skip because its retry time is still ahead is, in the model, sent and lost (a
fault, which the theorems do not bound); the position in the route
and the outcome of probes are a free choice among the configured next hops, so
every choice the code makes is possible; key bytes, digests and extensions are
dropped, because repeated transfers by an engine carry the same ones.

### Interworking

What `RelayNetwork` leaves out, for a single engine whose neighbours are *any*
programs that speak the interface: a batch is handled key by key on one copy of
the state and committed as a whole (the folds `AcceptEach`, `AcknowledgeEach` and
`VoidEach`, which `Accept`, `Acknowledge` and `Discard` commit); `info[k]` holds the association, the content (bytes
and extensions, of which the code keeps a digest) and the candidate hops, which
`Hops` rotates by `cursor`; `VoidAll` is a void without identifiers, and
`VoidNothing` the one that finds no key and owes a result without identifiers
(`empties`). `agreed`, `asked` and `told` record what was answered to whom.
`Deliver` is one result of the worker's snapshot: the peer may take it and the
worker still see an error, so results are repeated. Reservations, the operator,
failed writes and lost requests are left to `RelayNetwork`; a stopped process
resumes with `Restart`.

### Memory, LocalKMS and KeyDelivery

`Memory` has, for each operation, the guard, the result, and what a failed call
leaves behind: expiry is lazy, so a failed call may still mark entries expired.
Insertion order is kept, since ReserveKeys takes the first keys of the pair.
`LocalKMS` runs several `enc_keys` requests: `EncReserve` and then `EncConsume`
or `EncFails`, with any other request, expiry or invalidation between them.

`KeyDelivery` says what two applications are promised without saying how: a copy
for each, offered, then given once or discarded, the master's only after the
slave's is in place. Both `RelayNetwork` (`EndToEnd`: the records at the source
and the target) and `LocalKMS` (`Promise`: the two states of an entry) implement
it. They differ in how keys appear: `Store`, `Arrive`, `Offer` in a network,
`Provision` in one gateway.

### Ingest

The gateways of both roles, with `asking` and `answer` standing for the call to
the provider during which the lock is held. What can happen in between is a
crash, a timeout, and the passing of time. The provider is external: it
serves a call at most once, also after the caller is gone, may refuse, and, as
a fault, may answer with any set of keys. It knows nothing of the journals and
goes by what the call says (`posted`: how many keys, or which), so a call made
before its intent was on the disk shows in `IntentFirst`: its mutant is that bug.
The status `uncertain` and the
recovery in `Open` are modelled as in the code: only an answer that passes
`validate` before the deadline becomes `stored` or `consumed`.

### Journal and Daemon

In `Journal` files are names whose contents are replaced by rename. `disk` is
what processes see, `after` is the set of contents a power loss may leave under
each name; syncing the directory collapses it. `acted` is the newest snapshot on
which some process has acted (answered a request, posted a message). Owners save
what they loaded before they act on it, as `relay.Open` and `ingest.Open` do. The
run shows: `acted` survives, and a process resumes from the newest snapshot acted
on or from the one whose write was interrupted.

`AtomicSave` says this without files: one process at a time acts on the state
(`Serve`), a save begins (`Try`) and from then on nobody acts until it has turned
out to have happened or not, and a process that goes away leaves that open
(`Leave`). `Journal` implements it (`SavesAtomically`) with the serving process
and the snapshot in its memory as `server`, `acted` as `kept`, and the newest
snapshot a power loss may leave as `tried`. That is the assumption under which
`RelayNetwork`, `Ingest` and `Daemon` make a save one step. They decide at the
failure whether the new state is on disk, `AtomicSave` when the next process has
looked; nobody acts in between, so the two cannot be told apart.

`Daemon` takes a save as one step and looks at who may make one. A process opens
the directory, compares `--synthetic-keys` with what is there (`CheckFresh`),
seeds, listens, and then has requests (`Arrive`, `Commit`, `Finish`) and a worker
(`StepBegins`, `Commit`, `Finish`) that change the state it holds in memory and
write all of it. `Signal` is the cancelled context, after which `Shutdown` waits
at most five seconds: `ShutdownReturns` does not wait for requests, and those
still running meet the closed engine. `ServeFails` is a listener that fails,
where `main` does not call `Shutdown` and open connections stay. `Close` marks
the engine broken and gives the lock back before the process is gone.

## 3. Runs

| Run | Instance | Question and answer |
| --- | --- | --- |
| `direct_faults` | source and target, 1 key, 2 faults, expiry and invalidation on both sides | the two ends implement `KeyDelivery`; no second delivery, no revival, every result is acceptable where it arrives, no copy outlives a finished void at a neighbour, a consumed copy is not forgotten |
| `paths` | source, two parallel relays, target, 1 key, 1 fault, expiry at the source | a key never gets two paths, and is offered only while the next hop holds it |
| `live_full` | source and target, 2 keys, room for one at the target, 1 fault, one key may expire at the source | transfers settle unless the next hop is full, voids end, outboxes empty unless two voids crossed |
| `live_chain` | source, relay, target, 1 key, 1 reservation, no faults, expiry at the source | voids pass through both hops; an expired key is erased and leaves its reservation |
| `interworking` | one node between `up` and the hops `d1`, `d2`, 3 associations, 3 keys, 2 contents, capacity 2, batches of 2 | outbox and records agree, voids are answered, identifiers keep their content, routes are used evenly |
| `local_kms` | 2 pairs, 3 keys, 2 requests at once, batches of 2 | whole batches, single, timely and ordered delivery, nothing stranded without a cause; the gateway implements `KeyDelivery` |
| `segmented` | both gateways, 2 keys, 2 requests, 2 faults | nothing asked for or delivered twice; intent covers what the provider spent; keys are held only for open requests; outcomes are final |
| `journal` | 2 processes, 4 snapshots, 2 wrapping keys | what was acted on survives, key and snapshot stay together, nobody goes back; the journal implements `AtomicSave` |
| `daemon` | 2 processes, 1 request, 1 step of the worker, up to 2 synthetic keys | nothing told is overwritten, only a fresh directory is seeded, a process told to stop exits |
| `relay_partial_batch`, `relay_failure_lost`, `relay_endless_results` | small direct links | expected violations, section 5 |

Why the bounds are enough to be of interest. Two faults let a failure strike
during the recovery from another (a lost answer, then a crash of the peer). One
key suffices for the relay properties that speak of one key, because handlers
touch the records of other keys only in the sweep, in a reservation, in the
capacity test and in batches; `live_full` has two keys for the capacity, and
`interworking` three for batches. The chain is the shortest network with a node
that is neither source nor target, `paths` the shortest with a choice.
`MayLapse` and `MayInvalidate` name which records may expire or be invalidated
by an operator; where a run narrows them its table row says so.

In `interworking` only `k1` may be reported on, named in a void, or expire
(`MaySettle`, `MayLapse`), and only one association may be voided as a whole
(`MayVoidAll`). Batches of several keys come from `Accept` and `VoidAll`, the two
places where the keys of a batch interact: through the capacity, the cursor, and
the order in which a batch creates records. `Acknowledge` with several keys does
to each key what it does alone, and so does a void that names keys known to the
node. The capacity of 2 for 3 keys makes every batch meet a full node.

In `daemon` one request suffices because a straggler needs only to outlive its
own process, and two processes because a third is to the second what the second
is to the first. Two synthetic keys let the seeding stop half-way.

`CHECK_DEADLOCK FALSE` is used where the system may come to rest: every key
finished, capacity used up, no message outstanding. In `journal` and `daemon` a
stopped process can always be started, so deadlock is checked there.

Fairness of the relay (in the `live_*` and `relay_endless_results` runs). `Run`
ticks every 100 ms and `Step` visits the outbox and every record, so a worker
step that stays possible is taken (weak fairness); `Sweep`, `Transmit` and
`SendVoids` wait for the outbox snapshot of the same `Step` to be worked off and
so become possible again and again, which the sequence inside `Step` turns into
being taken (strong fairness). HTTP requests not lost are handled or refused.
A stopped node is started again by its operator. Nothing is assumed of SAEs,
clocks, operators, faults, or of timeouts. Faults are finite in number, so these
runs say what happens once the network behaves.

Fairness of the daemon. The steps of stopping are `main`'s own, one after the
other, and a step the worker has begun comes to its end, because its calls have
deadlines (weak fairness). When the ticker and the cancelled context are both
ready, Go's `select` picks one at random, so the worker may begin further steps,
but not for ever (strong fairness for `WorkerStops`). Nothing is assumed of
request handlers: a request may hang, and `StopsWhenAsked` holds all the same.

Each property of a passing run has a mutant in `PROJECT.json`: a change of the
model such as a careless edit of the code would make (a guard dropped, a result
queued for the wrong peer, an intent posted before it is saved), which the same
run then refutes.

## 4. Proofs

Every theorem below holds for all values of the constants that satisfy the named
assumptions of its module, which TLC evaluates in the runs of that module.

**The relay network** (`RelayNetworkProofs`), for every set of nodes, keys and
tokens, every routing, any capacities and any number of faults:

* `TypeCorrect`: `Spec => []TypeOK`. Its substance is that a record with a
  committed intent names a peer, and that the sets of peers a void waits for
  never contain the empty peer name.
* `RecordsNeverRevive`: `Spec => NoRevival`.
* `NeverDeliveredTwice`: `Spec => []DeliveredOnce`.

The inductive invariant is `TypeOK /\ GivenIsRecorded`, where `GivenIsRecorded`
says that a key handed out by a node is recorded there as delivered and its
record exists. `DeliveredOnce` alone is not inductive: a state with one delivery
and an unmarked record would allow a second one. With the strengthening, the
delivery actions require `~delivered`, every other action keeps `delivered`, and
`delivered` is in the journal before the count rises, so crashes do not matter.
`RelayEngineProofs` supplies the facts about single handlers on which this
rests: each transformation of an engine state returns an engine state and moves
no record backwards (`Onward`).

`RelayPathProofs` continues with what neighbours may rely on, in the same
generality: `OnePathPerKey` (`[]SinglePath`), `PublishedMeansHeld`
(`[]ReadyMeansNextHolds`), `ResultsAreAcceptable` (`[]AcksAcceptable`) and
`NetworkKeepsPromise` (`PromiseKept`, the refinement of `KeyDelivery`). The
invariant `PathInv` ties the messages to the records at both ends: a transfer on
its way is from a node whose committed intent names the receiver, a record with
a sender is the one that sender's intent names, a queued or posted "relayed" is
from a node that published or voids the key, and a void result is from a voiding
node that the receiver committed to, or received the key from and voids as well.
Each fact about another node is one that node cannot undo (a committed path
stays, a voiding record stays voiding), so a message may be arbitrarily late.
That is why the step is proved in two halves: `RelayEngineProofs` shows how each
closure of the engine moves a record (`Moves`, given the licence of the step: who
may be recorded as sender, whose result is taken), and `RelayPathProofs` shows
that every action of the network holds such a licence (`Licensed`) and that the
invariant survives any change that does. The refinement needs from all this one
step only, the one that offers a key at the source: the target has it by
`ReadyMeansNextHolds` along the path, and every other step changes one end by
its own record.

Two more theorems are about the end of a void: `VoidsReachNeighbours`
(`[]HopVoided`) and `ConsumptionIsAdmitted` (`[]FailureNotForgotten`). Neither is
inductive, nor are they together: a node stops waiting for a neighbour in several
ways (it got a result, it was asked itself, its outbox entry was answered), and
each must leave a trace that the property can be read from. `VoidInv` adds those
traces to `PathInv`: a neighbour no longer waited for voids the key as well, or is
the sender and a requester (`VoidsSpread`); a requester has its result in the
outbox or was `Told` (`RequestersTold`); requests that crossed on a link mean
that both ends void the key (`CrossingsVoid`); and a worker's call is answered
only once the receiver has taken note (`AnswersNoted`), so that what the worker
then removes from the outbox was not needed any more. `Told` is about a pair of
records that other nodes do not touch, and stays true: no result that arrives
late, twice or out of order takes back what a requester knows.

**One node among arbitrary peers** (`InterworkingProofs`), for any neighbours,
associations, routes, batches and capacity: `TypeCorrect` (`[]TypeOK`),
`OutboxTruth` (`[]OutboxTruthful`), `VoidAnswers` (`[]VoidsAnswered`),
`OneContentEach` (`[]OneContent`) and `SplitEven` (`[]EvenSplit`). Nothing is
assumed of the peers, so the invariant `Inv` has no second node to lean on. Its
parts are:

* `Sane`: the engine state is well-formed, its outbox has one result per key and
  peer (`Single`) and only results that the records justify (`Truthful`), and
  each known key has its association and no hop back to its sender (`Detailed`).
  It is stated about a draft, the copy that `change` hands to its closure, and so
  holds between two keys of a batch too.
* `Spread`, within `Sane`: the hops before the cursor have had exactly one key
  more than the others. `EvenSplit` is what remains of it when the cursor is
  forgotten, and is not inductive: an even distribution with a misplaced cursor
  is one key away from an uneven one. As in the property, no peer that sends
  transfers is itself one of the hops; the code skips the sender and then does
  not split evenly.
* `Counted`, the capacity; `SnapshotSingle`, about the results the worker holds.
* `Exact` and `Answered`: a queued result of a discarded key is the current
  verdict, and a requester has it queued, or was told it and no other result is
  on its way. The last clause is what a failure needs that is learnt after a
  "voided" was already answered.
* `Agreed` ties the contents ever accepted to the record.

A batch is a fold over its keys. `SetInduction` (a set of numbers with 0 and
every successor has them all, from the well-foundedness of `<`) gives
`FoldExists` and `FoldEnds`, and these one lemma for each kind of batch
(`AcceptEachFits`, `AcknowledgeEachFits`, `VoidEachFits`). That `VoidAll` takes its
keys in any order costs nothing, because these hold for every list
(`SetListed`).

**The gateway with the in-memory repository**, for any inventory, associations
and number of concurrent requests. `LocalKMSProofs` proves `HandedOutOnce`
(`[]DeliveredOnce`), `MasterComesFirst` (`[]SlaveAfterMaster`) and
`NothingStaleIsDelivered` (`NoStaleDelivery`). The inductive invariant adds to
types and these that the repository remembers what was handed out
(`Remembered`): a copy given away stays `CONSUMED`, which is the only thing that
keeps a second request, whatever ran between its two halves, from getting it.
The lemmas `...Keeps` show this for one repository operation each, expiry on the
way included; `QuietStep` lifts them to every step that hands out nothing.
`GatewayKeepsPromise` (`PromiseKept`) is the refinement of `KeyDelivery`: each
step moves the copies as an abstract step does (`Provision`, `GiveMaster`,
`GiveSlave`, `Discard`) or not at all.

The last part of `LocalKMSProofs` is about reservations: `AnsweredWhole`
(`[]WholeBatch`) and `OnlyEndedKeysStrand` (`[]OnlyExpiryStrands`). Its invariant
is about the time between the two halves of `enc_keys`: the reservation behind a caller's token
still holds exactly as many keys as it asked for (`Booked`), no two reservations
and no two callers share anything (`Exclusive`), and a key in the state
`RESERVED` is in a reservation that is still redeemable or has lost another key
(`Backed`).

**Segmented mode** (`IngestProofs`), for any number of keys, requests, crashes,
failed writes, timeouts and wrong answers: `DeliversOnce` (`[]DeliveredOnce`),
`AsksOnce` (`[]AskedOnce`), `HoldsForRequests` (`[]HeldForARequest`),
`AnswersWhole` (`[]WholeBatch`) and `OutcomesStay` (`OutcomesAreFinal`). The
invariant `Inv` says that each journal is sound (every key belongs to one
request, in the state that the request's status allows), that a running gateway
waits for the one request in flight, that whatever was asked for is in the
journal of the gateway that asked, and that whatever was given away is recorded
as consumed. A timeout, a crash and a restart are then harmless because none of
them returns a request to `pending`.

`IntentsFirst` (`[]IntentFirst`) needs accounts beside `Inv`. A call may be served
long after its gateway gave up, crashed or began another request, so that the
attempts must cover what the provider took *and* what it may still take.
`Owed` is that rest, as a set with one element for each key of each unserved call
of the master gateway; `Paid` says that the keys taken and `Owed` together are at
most the attempts. A set is used instead of a sum because its size changes by
known amounts, once a call on the wire is known to say what the journal has of it
(`Recorded`): making a call adds the share of one request, serving or losing it
removes that share, and the facts about finite sets of the library do the rest.
At the slave, and for what each journal knows, `Covers` says the same of one
journal, with the request in flight counted at the master before its keys are
known.

**The journal** (`JournalProofs`), for any number of processes, snapshots,
wrapping keys and power losses: `NothingActedOnIsLost` (`[]ActedSurvives`),
`SnapshotAndKeyStayTogether` (`[]Readable`), `NoProcessGoesBack` (`NoRollback`)
and `SaveIsOneStep` (`SavesAtomically`, the refinement of `AtomicSave`), from
`JournalAssumption`. The inductive invariant `Inv` says that
each snapshot that may come back is the one acted on last or its successor
(`Recent`) and is opened by each wrapping key that may come back (`Matching`), and
what the one process past the lock knows at each stage (`StageInv`): until the
new key is synced there is no snapshot, from then on no other key can come back,
and while it serves nothing but its own snapshot can. The stages are needed
because a step writes on the strength of what earlier steps made permanent. In
the refinement only the `Sync` after a write is a `Serve`; by `Recent` and
`StageInv` the snapshot it makes permanent is `kept` or `tried`, and every other
step that changes anything leaves nobody serving, as `Try` and `Leave` do.

**The daemon** (`DaemonProofs`), for any number of processes, requests, steps of
the worker and kills: `NothingToldIsLost` (`[]ActedStays`) and `SeededOnce`
(`OnlyFreshIsSeeded`). The argument is ownership: a process that can still save
holds the lock (`Ownership`), and what it holds in memory is what the directory
holds (`Current`), so that writing all of it loses nothing. `Fresh` adds that a
process that was allowed to seed and has not begun to serve is alone with its
seeds. A process that lost the lock is broken, which is why a straggler cannot
save.

Only model-checked:

* liveness (`TransferSettles`, `VoidSpreads`, `ErasedWhenLapsed`,
  `OutboxDrainsUnlessCrossed`, `StopsWhenAsked`): fairness and ENABLED are beyond
  the prover;
* what the runs of section 5 show: a theorem says what cannot happen, and these
  runs show what can.

All safety invariants and action properties of the passing runs have a theorem.

## 5. Where the code and its documents disagree

* **Partial batches** (`relay_partial_batch`). If one key of a reservation expires
  or is voided before the token is redeemed, `ConsumeReservation` delivers the
  rest: `startVoid` clears the token of the record, and the loop over records
  with that token no longer sees it. `core/key.go:116` calls repository
  operations "atomic across each entire batch"; the in-memory and the ingesting
  repository refuse in this situation (`WholeBatch` in `local_kms` and `segmented`).
* **A consumed copy the source never hears of** (`relay_failure_lost`). If the
  target starts the void itself, its request upstream cannot say that the copy
  was used. `docs/ETSI020_PROFILE.md` says that "`failed to void` propagates".
  What does hold is `FailureNotForgotten`: a node that consumed its copy and *is*
  asked says so. It is about the node itself, not about what it heard: a relay
  that answers "voided" and only then learns of a failure queues the better
  result, but the earlier one may still be on its way and arrive last.
* **Results without end** (`relay_endless_results`). After voids that crossed on
  a link, both sides owe each other a result, and each result received queues
  the own one again. `OutboxDrainsUnlessCrossed` shows that this is the only
  cause.

A full node is not in this list, because `docs/ETSI020_PROFILE.md:106` says that
terminal records count against the lifetime capacity. What it costs is visible in `live_full`: a void sent to a full node that
never had the key is refused for ever, so the sender keeps asking (`VoidSpreads`
and `TransferSettles` except it by `Closed`).

## 6. What is not modelled

* HTTP, TLS, JSON, identifier and format checks: no state; a request they refuse
  changes nothing (`Refuse`). The shape checks that decide what a batch may look
  like are in `Interworking`.
* Parsing of configuration and of peering files: the outcome is the constants
  and their assumptions. A journal is bound to the configuration it was made
  under, so the constants do not change at a restart.
* The daemon in local mode, which keeps nothing on disk; the delayed laboratory
  provider (it refuses until a date: `Refuse` of `Ingest`); test certificates and
  demonstration programs.
* Key material: only whether a record still has it, and in `Interworking`
  whether two contents are the same.
* Reservations, an operator and failed writes in a node with several
  associations: `RelayNetwork` has them for one association, and none of them
  looks at more than the records of its own.

## 7. Plan

Done: relay engine and network, abstract delivery and its two refinements,
interworking with batches, associations and routes, a full node, memory
repository and 014 handlers, ingestion, journal, daemon, and the theorems of
section 4.

Next:

1. A node of the network with failed writes and several associations at once.
