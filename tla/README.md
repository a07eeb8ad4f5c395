# Verification of mpubsub

mpubsub is publish/subscribe over IPv6 multicast without a broker. A topic is
hashed to a multicast group and to a CRC; a publisher sends UDP datagrams to
the group, receivers join the group and dispatch on the CRC. The protocol is
implemented four times: an ESPHome component (C++), a bridge to MQTT (Go), a
Home Assistant integration and a plain asyncio library (both Python), with a
Python reference under `tests/unit/` that the others are tested against.

UDP gives no delivery guarantee, so publishers may repeat each datagram, a
finite number of times or until the next publication on the topic. Encrypted
datagrams carry a timestamp and a nonce, and a receiver may refuse those that
are stale or were seen before.

The project consists of TLA+ modules for these mechanisms, TLC configurations
that check them on small instances, and proofs for every instance, which TLAPS
checks. `tlc -config X.cfg M.tla` runs a configuration of module `M`; `tlapm
M.tla` checks the proofs of module `M`.

## Inventory

For each part: its state, its operations, whom it meets, what is hard, and what
makes it correct.

**Replay guard** (`tests/unit/reference.py`, `components/mpubsub/replay_guard.h`,
`bridges/mqtt-go/replay.go`).
State: a window, and the latest accepted nonces with their stamps in arrival
order, at most a fixed number of them. One operation, `accept(now, now_valid,
timestamp, nonce)`, called by each receiver for every authentic datagram. Hard:
stamps arrive out of order, the cache overflows, the clock is unset, wrong or
set back, a reboot empties the cache, each implementation stores the cache in
another way. Correct: nothing is accepted twice as long as the cache still had
to know it, nothing is refused without a reason, and the three implementations
decide alike.

**ESPHome publisher** (`multicast_pubsub.cpp`, `automation.h`).
State: the socket, `retransmit_count_`, the map `indefinite_jobs_` from topic to
a function, the scheduler's timeouts. Operations: `setup`, `publish`,
`PublishAction::play`, the closures the timeouts run. All run on one loop. Hard:
a chain is a map entry and a timeout found by different keys (topic, CRC); the
two must not drift apart, over any sequence of finite, indefinite, refused and
failed calls. Correct: a chain repeats the latest value and lasts until it is
superseded; a superseded value is silent; a finite publication is sent exactly
as often as asked.

**ESPHome receiver** (the same files). State: the subscriptions with their
callbacks, `require_encryption` and `joined`, the counters. Operations:
`subscribe`, `loop`, `on_packet_`, `handle_encrypted_`, `deliver_`,
`publish_metrics_`. Hard: callbacks that subscribe or publish while they are
called, late and failed joins, CRC collisions, counters of mixed traffic.
Correct: each datagram reaches each callback of its topic once, plaintext never
reaches a topic that demands encryption, the counters add up.

**Go bridge, MQTT to mpubsub** (`bridge.go`, `mcast.go`). State: the map
`indefiniteJobs` from topic to a cancel channel, the goroutines of the
publications, the socket, the progress of `Run`. Operations: `handleMQTTMessage`
(one message at a time, on the MQTT client's goroutine), the goroutines'
steps, the shutdown. Hard: real concurrency between handler, goroutines and
shutdown; `select` picks at random. Correct: a channel is closed once and every
running chain can be reached; told goroutines end; counts are kept; `Run`
returns.

**Go bridge, mpubsub to MQTT** (`bridge.go`). State: the routes by CRC, fixed
before the receive loop starts, and a replay guard. Operation: one pass of
`mcastReceiveLoop`. Correct: each route gets exactly the datagrams of its
encoding, schema and encryption policy.

**Python clients** (`custom_components/mpubsub/client.py`,
`python/mpubsub/aio.py`, twins). State: the subscriptions by topic and by CRC, the
joined groups, timer handles of finite and indefinite retransmissions, transport
and socket. Operations: start, stop, subscribe, unsubscribe, publish, the timers,
`handle_datagram`. Hard: unsubscribing during dispatch, stopping while a start
awaits, CRC collisions, handles that are replaced by the timer they belong to.
Correct: the two indexes agree, a group is joined as long as it has a listener,
nothing is sent after stop.

**Home Assistant integration around its client** (`__init__.py`, `config_flow.py`
of `custom_components/mpubsub`). State: the entry and its options, the client in
`hass.data`, the services, the listeners of the entry, the calls of the listen
service that sleep. Operations: the user's form and the options form, setup,
reload, unload, removal, stop, publish, listen. Hard: each reload makes a new
client while calls and timers of the old one are still about; options saved
during a setup. Correct: one socket, nothing left of a client that is gone, the
saved options in force.

**Home Assistant entities** (`entity.py`, `sensor.py`, `binary_sensor.py`,
`switch.py`). State: value, availability, two timers. Operations: a message, an
expiry, an off delay, a command, removal. Hard: two timers race on one state.

**Wire codec** (`wire_format.*`, `wire.go`, `wire.py`, `reference.py`), **schemas
and protobuf** (`proto_emitter.py`, `dynamic_message.*`, `schema.go`, `proto.go`,
`json_proto.go`), **configuration** (`__init__.py`, `config.go`,
`config_flow.py`), **cryptography and hashing** (`chacha20poly1305.*`,
`sha256.*`, `topic_hash.*`): pure functions. Correct: they agree with each other
and reject alike.

How the parts meet: a publisher encodes once and hands the same bytes to the
network several times; the network may lose, duplicate, delay and reorder them; a
receiver decodes, authenticates, asks its replay guard, and dispatches on the
CRC. The Go bridge is both, with MQTT on the other side. Publisher and receiver
share nothing but datagrams and the wall clock.

## Modules

| Module | What it is |
|---|---|
| `ReplayEnv` | clock, reboots and datagrams around a replay guard |
| `ReplayGuard` | the Python reference guard, the specification of the others |
| `ReplayRing` | the C++ ring; `ImplementsReference` maps it to `ReplayGuard` |
| `ReplayGo` | the Go slice and map; `ImplementsReference` likewise |
| `ReplayGuardProofs` | theorems about `ReplayGuard` |
| `ReplayImplProofs` | `ReplayRing` and `ReplayGo` implement `ReplayGuard` |
| `EspPublisher` | the ESPHome publisher and its timeouts |
| `EspPublisherProofs` | theorems about `EspPublisher` |
| `GoPublisher` | the Go bridge's publishing half and its shutdown |
| `GoPublisherProofs` | theorems about `GoPublisher` |
| `AioClient` | the asyncio client: its tables, timers, sockets and dispatch |
| `AioClientProofs` | theorems about `AioClient` |
| `HaClient` | the Home Assistant config entry, its clients, services and forms |
| `HaClientProofs` | theorems about `HaClient` |
| `HaEntity` | one Home Assistant entity of any platform |
| `HaEntityProofs` | theorems about `HaEntity` |
| `Delivery` | what subscribers on a node are promised, the specification of `Fabric` |
| `Fabric` | publishers, a network, and a node with `ReplayGuard` (by INSTANCE) |
| `FabricProofs` | `Fabric` implements `Delivery` |
| `MC...` | constants, symmetry and views for TLC |

In each module some operators have a sibling whose name says what it gets wrong
(`ExpiredAtTheEdge` beside `Expired`). No specification uses these: put in the
place of the operator they stand beside, they must break a property, which shows
that the property depends on that piece of code.

### The replay guards

`ReplayEnv` holds what is outside: the receiver's clock `now`, which ticks, may be
set back and becomes valid at some time after a boot (`synced`), and reboots. The
network is not constrained at all: in every state any stamp may arrive with any
nonce, any number of times. That covers loss, duplication, delay, reordering and
senders with wrong clocks. `Fresh` is the part of `accept` before the cache. The
histories `log`, `high` and `last` record what was accepted when, the latest
reading of the clock since the boot, and the latest verdict; no guard reads them.

`ReplayGuard` has `order` and `seen` for the deque and the keys of the dict, and
one action per way out of `accept`: disabled, stale, seen, accepted. `_prune` is
part of the last two, as in the code. `ReplayRing` has the array, head and count;
slots outside the live part keep their old contents. `ReplayGo` computes the
cutoff of `prune` modulo 2^Width. A guard's mutex makes an `accept` one step.

The properties of the reference:

* `CacheAgrees`: dict and deque describe the same cache, bounded and without a
  nonce twice.
* `CacheIsTail`: what the cache forgot, it was allowed to forget.
* `NonceReuse`, `AtMostOnce`: within one boot a nonce (a datagram) is recorded
  twice only if `MaxEntries` others were recorded since, or the clock passed the
  end of its window (and was set back after that).
* `NoFalseDrop`: a fresh datagram is refused only if one of the latest
  `MaxEntries` records has its nonce.

`ImplementsReference` says of the ring and of the Go guard that every step is a
step of the reference on the same input, with the same verdict and the same
memory afterwards. With it the properties above carry over.

### The ESPHome publisher

A publication is a pair of a topic and the number of the call. `jobs` is
`indefinite_jobs_`, `timer` the timeout under each scheduler id, `pending` the
anonymous timeouts. A call and a timeout are one step each, as on the ESPHome
loop. `Crc` maps topics to ids and is a parameter, so that distinct CRCs are an
assumption where one is needed and not a fact of the model. A transmission may
fail wherever `sendto` may. `socket` distinguishes a socket that could not be
made from one that could not be bound, since `publish` tests the pointer only.
The module follows the socket branch of the source. The ESP8266 branch has the
same control, but drops a pcb it cannot bind.

`PublishAction` is the automation's action: it overrides `retransmit_count_` for
the length of a call and puts it back. Its count comes from generated code, which
casts the result of a template to 16 signed bits for a typed message and to 8
unsigned bits for a raw payload (`TypedCount`, `RawCount`), where -1 becomes the
largest byte. `Byte` is the number of values of the one type and `Half` that of the
negative values of the other, so that the bounds can be small. `ExactCount` speaks
of the count the call received, after the cast.

Time is left out: a timeout may run at any time once it is set. Every order of
timeouts that the real delays produce is among these.

### The Go publisher

Messages are numbered as the broker delivers them, and a message's number also
names its cancel channel and its goroutine. A handler is four steps (receive,
cancel, send, schedule), between which goroutines and shutdown may run. A
goroutine of an indefinite publication has a step for its start, for each arm of
its select, and for its transmission; the ticker fills a channel of one. A
critical section under `indefiniteMu` is one step. The configuration (count,
delay, `promote_qos`) is chosen at the start among those that `validate` lets
through.

### The asyncio client

`subs` and `index` are the dictionaries `_subs` and `_crc_index`, functions whose
domains are the keys there are; `crc` is chosen at the start and may map two
topics to one value. `armed` is what the event loop holds, `finite` and `chain`
what the client remembers of it. A step is what runs between two suspension
points: `start()` is three, since the loop reads from the socket before `start()`
is resumed. Nothing in `start()` looks at what an earlier one left, so it may also be
called again on a client that has a socket, and its await may raise (`StartFails`),
which leaves `_sock` set to a socket that is closed. Subscriptions made before are
then in no group of the socket in use, and stay so until their last listener goes;
the history `lost` names their topics, and `GroupsFollowSubs` speaks of the others.
A group that cannot be left (the `OSError` that `_unsubscribe` logs) is one the socket
is not in, or one of a closed socket, so `LeaveGroup` has one outcome. A datagram is handled without suspension, but calls subscribers back:
`Handle` takes the copy of the topics, `NextTopic` the copy of one topic's
callbacks, `Dispatch` begins one callback. While a callback runs (`calling`) it may
subscribe, unsubscribe anyone and publish, as often as it likes, and nothing else
is enabled before `HandleReturns`. A topic whose last listener goes is taken out of
what is still to be visited, since the code goes on with the old, empty object
even if somebody subscribes to the topic again.

### The Home Assistant integration

`HaClient` numbers the clients as `async_setup_entry` makes them. `stage` is where
the entry is: Home Assistant holds one lock over setup and unload, so these do
not overlap, and everything else (services, timers, forms, the stop event) comes
between their steps. `Subscribe`, `Unsubscribe`, `Publish` and `Close` are the
client's methods on any client, dead ones included, since an `unsub` belongs to
the client it was made by. `conf` is what the latest client was made with,
`options` what is saved, `missed` that options were saved during the setup that
had already read them. A setup may fail while the socket is made and while its
endpoint is opened. Home Assistant also removes an entry whose unload failed, and
asks for a restart; the model takes the user to restart, so the entry stays as it is.
`ChainsAreSpaced` excepts the chains that `promote_qos` made of a finite count and no
others. The order of the retransmissions of one publication is
left to `AioClient`, whose code is the twin.

`HaEntity` is one entity with its two timers. Time is counted in the unit of the
delays, and a timer that is due runs before the next unit passes, before or after
a message of that moment. All combinations of options that the platforms' schemas
accept are initial states.

### Publishers and a node

`Fabric` composes the publishing side of the Python clients, a network, and a
receiving node with `ReplayGuard` as its guard. A datagram may be of another encoding
than RAW (`raw`): nobody hears it, but a sealed one is recorded by the guard all the
same and may push another out. A node with a replay window has a key, which every
configuration demands. A publication is a record of the
fields of its datagram, encoded once; `wire` is the set of publications with a
copy under way, from which a copy may be lost, may arrive and may stay for another
arrival, which covers loss, duplication, delay and reordering. A publisher's clock
may be right, one behind, or unset. Nonces are drawn from few values, so that two
publications may have the same. A node that reloads or reboots forgets its guard
and its subscriptions. A node is a Python client, which unsubscribes, or an
ESPHome one, whose subscriptions stay and may require encryption (`strict`).

`Delivery` says what this comes to without nonces, stamps, windows or a network:
there are publications, the node takes some, a sealed one under a guard not again
before `Remembered` others, and its listeners hear what the node takes and, on a
strict topic, only what is sealed. `ImplementsDelivery` maps the fabric to it.

## Runs

| Run | Instance | What it shows |
|---|---|---|
| `MCReplayGuard` | 2 entries, 3 nonces, 3 times, windows 0 and 1, a set-back and a reboot, 3 records | the properties of the reference |
| `MCReplayRing` | 3 slots, 4 nonces, 4 times, windows 0 to 2, set-backs up to 2, a reboot, 6 records | the ring implements the reference |
| `MCReplayGo` | the same with times 2 to 5, a 3-bit clock and 5 records | the Go guard implements the reference |
| `MCReplayRingReboot` | 2 slots, 3 nonces | refutes a comment, see below |
| `MCEspPublisher` | 2 topics with 2 calls each, base count 1, actions with a count of 2, a raw and a typed template of -1, a typed one that leaves its range, a byte of 4 values, 8 negative values | jobs and timeouts in step, exact counts, silence, completion |
| `MCGoPublisher` | 2 topics, 2 messages, delays 0 and 1000, counts -1, 1, 2 | channels and goroutines in step, counts, termination |
| `MCGoPublisherStale`, `MCGoPublisherSpacing` | 1 topic, 2 messages | refute a comment and the documentation |
| `MCAioClient` | 2 topics with one CRC or two, 2 starts, 3 calls, of which at most 2 publish, base count 1, QoS 0 to 2 | tables agree, groups follow subscriptions, timers are tracked, dispatch skips nobody, finite publications complete |
| `MCHaClient` | 2 topics, an entity, 1 listen call at a time, counts 0, 1, -1, delays and windows 0 and 1, 3 clients | nothing leaks, groups have listeners, options in force, chains keep their distance |
| `MCHaEntity` | delays 0, 1, 3 and none, every configuration | quiet after removal, known values are recent, on is brief |
| `MCFabric` | 1 topic, 2 publications, counts -1, 1, 2, 2 nonces, a guard of 1 entry or none, windows 0 and 1, 2 times, a reload | the fabric implements `Delivery`, chains prevail |

Why the bounds are enough. A guard's cache of 2 (3) entries overflows
and is pruned with 3 (5) records, the head of a full ring comes round its end
with 6, and times span more than a window on
both sides of the clock. With two slots the oldest, a middle and the newest
record can each be the one a nonce is compared with. The ring and Go runs use a
view that leaves the histories out: no later step depends on them, and TLC
compares each step with the reference before it looks whether the state is new.
The publishers' topics interact only through ids (`Crc`) or the shared map, in
pairs; two publications on a topic make one that supersedes and one that is
superseded. A third changes nothing for the two, and the proofs of
the safety properties cover all numbers. Counters of transmissions saturate at 3, which is
no less than the largest finite count checked. In the Go guard's run the clock is
at least a window past the epoch; see the divergences.

Three calls on the asyncio client make two subscribers of one topic and one of
another with the same CRC, a subscriber on each side of a publication, or two
publications of one topic, and QoS turns its count of 1 into 3 and into a chain;
two starts let a stop fall into a start and the second socket meet what the first
left. Three clients of the integration let a listen call outlive the client in
between. The delays 0, 1 and 3 of an entity make `off_delay` shorter than, equal
to and longer than `expire_after`, and `MaxAge` is longer than each. In the fabric
one guard entry overflows with two publications, two times put a stamp inside and
outside each window, and two nonces are as many as the publications; the other
topics of a node do not interact with the one but through the guard, and the
proof covers them. Its view leaves the histories of the guard out, on which no
step depends while `MaxAccepted` is out of reach, and, where there is no window,
the stamps and nonces of publications, at which nobody looks then (`Told`).

### Fairness

Only the liveness properties use it. ESPHome: the loop runs each timeout that is
due, so `FireChain` and `FireFinite` are weakly fair; a failed component's
timeouts are not run, which is their guard. Calls of `publish`, failures and the
setup are not fair. Go: a goroutine that can run does, so starting, sending and
the shutdown's steps are weakly fair. `ChainExit` is strongly fair: each tick
takes the goroutine out of its select for a while, and `select` picks at random
among the ready cases, so a closed channel is taken in the end. Nothing is
assumed of messages or of the interruption. Asyncio: the loop finishes the
datagram it handles and comes round to each timer that is due. The latter is
strong fairness, because handling disables the timers for a while, however often
datagrams arrive. Fabric: the timer of a chain keeps firing, and of a datagram
that is sent for ever some copy arrives (strong fairness of `Receive`; a network
that lost every copy would refute any promise). Nothing is assumed of the other
actions.

* `FiniteCompletes`, `ChainPersists` (ESPHome): finite retransmissions are made,
  a chain transmits until it is superseded, even when transmissions fail.
* `CancelledStops`, `ShutdownCompletes` (Go): a told goroutine ends, and `Run`
  returns although its receive loop may be blocked in a read.
* `TransmissionsComplete` (asyncio): a finite publication that has begun is sent as
  often as promised unless the client is stopped.
* `ChainPrevails` (fabric): a chain brings listeners back to its value again and
  again, whatever late copies of older publications arrive, if the guard does not
  look at it. The exception is real: a guarded node takes the chain's value once,
  and an older publication that it takes afterwards stays.

## Proofs

`ReplayGuardProofs` proves, for all windows, capacities, nonces and clocks,
`TypeOK`, `CacheAgrees`, `CacheIsTail`, `NonceReuse`, `AtMostOnce` and the action
property `NoFalseDrop`. `NonceReuse` is not inductive: it speaks of two records, while a
step looks at the cache only. The invariant that closes the gap is
`CacheIsTail`, together with bounds on the history: the cache is a suffix of the
log, and all that is not in it was let go for a reason that stays true. If a
nonce is accepted it is not in `seen`, by `CacheAgrees` not in `order`, so an
earlier record of it is among the ones let go.

`ReplayImplProofs` proves that the ring and the Go guard implement the reference
(`RingRefinesReference`, `GoRefinesReference`), for all windows, capacities, nonces
and clocks, so that `NonceReuse`, `AtMostOnce` and `NoFalseDrop` hold of them too
(`RingKeepsPromises`, `GoKeepsPromises`). The argument is a step by step one: each
way out of `accept` is the same way out of the reference, on the refinement mapping
of `ReplayRing`, which reads the deque off the ring from the oldest slot on.

* The ring needs of its own state only that `head`, `count` and the slots have their
  types (`RingTypeCorrect`). The rest is arithmetic modulo the capacity: what lies
  `k` slots after the head lies `k + i` slots after it once `i` entries are pruned
  (`SlotShift`, `LiveIsOrder`), a record goes to the first free slot, and a full
  ring has none, so the oldest entry is overwritten, which is what the reference
  removes. The invariant of the reference is used under the mapping: the keys of its
  dict are the nonces of its deque, which the ring searches instead, and its times
  are numbers, on which the two tests for expiry, written differently, agree.
* The Go guard has the reference's variables. The steps agree where the uint32
  cutoff is the number `now - window`, that is where the clock is at least a window
  past the epoch. That is the theorems' hypothesis `PastEpoch`, and it is needed:
  with `MinTime` 1 and a window of 2 TLC finds a run of `MCReplayGo` that accepts a
  datagram twice. The assumption `2 ^ Width \in
  Nat` in `GoAssumption` is a fact of arithmetic that no prover here knows.

`EspPublisherProofs` proves, for all topics, counts and bounds, `TypeOK`,
`ChainIsLatest`, `ExactCount` and `SupersededIsSilent` for any function `Crc`,
and `ChainArmed` if `Crc` is injective. The inductive invariant adds that the
timeout of an id belongs to a job of a topic with that id (`TimerHasJob`), that
calls not made left no trace (`NotYet`), and that only finite publications have
pending timeouts (`PendingIsFinite`). That silence needs no injective CRC and
persistence does is worth knowing: a collision of CRCs can end a chain, but
never brings an old value back.

`GoPublisherProofs` proves, for all topics, configurations and bounds, `TypeOK`,
`JobIsChain` and `FiniteBounded` in every interleaving of the handler, the
goroutines and the shutdown. `JobIsChain` alone is not inductive: a new chain
must find its topic's place in the map free, although the handler cancelled the
old one several steps earlier. `HandlerAlone` says that this stays so: only the
handler fills the map, and it handles one message at a time. `NoTrace` and
`ChainIsIndefinite` say that the chain's channel is still open and that a chain
and a finite goroutine never belong to the same message.

On the same invariant rest two theorems about statements that no run checks. They
say what is left of two claims the code does not keep. `SupersededIsTold`: the channel of a superseded chain is closed
before the new message goes out, in every interleaving (the handler works on the
last message delivered, nothing later went out, and a chain that ended was told to:
`TurnsInv`); that the chain then ends is `CancelledStops`, which TLC checks.
`SpacedUnlessPromoted`: without `promote_qos` every chain keeps the delay that
`validate` demands.

`HaEntityProofs` proves `TypeOK`, `RemovedIsQuiet`, `KnownIsRecent` and `OnIsBrief`
for all delays. The invariant says that age and what is left of a timer add up to
its delay, that only an entity that was added takes messages and has timers, and
that the timer of `off_delay` runs alone only when the other has fired.

`AioClientProofs` proves every safety property of the asyncio client, for all
topics, CRCs and bounds: `TypeOK`, `TablesAgree`, `NobodySkipped`,
`GroupsFollowSubs`, `TimersTracked`, `ChainIsLatest` and `FiniteAccounted`. There are
four inductive invariants, each about what one group of handlers shares:

* `GroupsInv`: a socket that no start has used yet is in no group, and the client's
  own socket has been used.
* `TimersInv`: which publication a handle belongs to and what it still has to send.
  `FiniteAccounted` counts timers, so its proof goes through the cardinality of
  what a publication has left.
* `TablesInv`: `TablesAgree` and the types of its lists. What makes the proof work is
  that a list without repetitions from which one element is taken has exactly
  the other elements left, in their order (`RemoveFirstFacts`), and that the index
  loses a CRC exactly when the last of its topics goes (`UnindexedFacts`).
* `HandlingInv`: of the subscribers a datagram came for, each who still listens was
  reached, is in the copy of the list that is being walked, or waits with a topic
  that is still to come (`Awaited`); and a topic is still to come only if none of
  its subscribers was visited (`VisitedOnce`). `NobodySkipped` alone is not
  inductive: it says nothing of the rest of the walk. The second half is why nobody
  is reached again from a later topic of the same CRC.

`HaClientProofs` proves `TypeOK`, `NothingLeaks`, `GroupsHaveListeners`,
`OptionsInForce` and `ChainsAreSpaced` for any number of reloads, topics, calls and
options. The inductive invariant has one part for each thing that could drift
apart: `StageInv` (which client is in which state at which stage), `OptionsInv`
(the options and the listener that reloads), `TimersInv` (timers and the tables
that cancel them) and `TablesInv` (subscribers, groups and the calls that hold
them). Each is kept by every action given the ones before it.

`FabricProofs` proves `TypeOK` and that `Fabric` implements `Delivery`, for any
number of publications, windows and capacities. It rests on the theorem about
`ReplayGuard` that its invariant is inductive, and adds one link
(`TakenIsCached`): the guard's deque is the end of what `Delivery` remembers, and
what is remembered beyond it is older than the window. A publication that is
taken again would have its nonce in the cache, or a stamp older than the window,
and the guard refuses it in both cases.

The assumptions are the modules' named `ASSUME`s, which TLC evaluates in the
runs, and the two hypotheses named above: an injective CRC for `ChainsStayArmed`, a
clock past the epoch for the theorems about the Go guard. All type invariants,
safety invariants, action properties and refinements that the passing runs check
are proved. Model-checked only are the liveness properties, which are out of the
prover's reach.

## Where code and documentation part

Each of these has a run that ends in a counterexample:

* `MCReplayRingReboot`: `replay_guard.h:20-24` calls the empty cache after a
  reboot harmless. Datagrams younger than the window are then accepted again.
* `MCGoPublisherStale`: `bridge.go:244-245` says a new publish supersedes a chain.
  Its goroutine may still send the old value once, after the new one.
* `MCGoPublisherSpacing`: an indefinite count "requires `retransmit_delay >= 1s`",
  but `promote_qos` makes a QoS 2 message indefinite with any delay; with a delay
  of 0 the bridge panics.

Met while modelling, without a run of their own. Where a model follows the code
in one of these, its properties say so.

In the publishers:

* With two topics of one CRC, an ESPHome chain may stop for good, since the
  scheduler id is the CRC (`multicast_pubsub.cpp:814`; `ChainsStayArmed` therefore
  assumes distinct CRCs).
* `multicast_pubsub.h:270-273` says `publish` cancels the earlier chain at its top.
  It does so at its end (`schedule_retransmits_`, called after
  `multicast_pubsub.cpp:717`), and not at all when the first transmission fails;
  the other implementations cancel first.
* A templated `retransmit_count` of a raw publish action is generated as `uint8`
  (`components/mpubsub/__init__.py:593`, against `int16` at 633), so the -1 that
  `docs/CONFIG.md:78` offers becomes 255 transmissions.
* A publish action may ask for -1 whatever the component's delay is
  (`__init__.py:548-550`), while `docs/CONFIG.md:32` demands `retransmit_delay >= 1s`.
* QoS 2 promotion makes a chain with a delay below 1 s in both Python clients
  (`client.py:462`, `aio.py:455`), as in the Go bridge; `ChainsAreSpaced` excepts it.
* The finite retransmissions of an older message go out after a newer message, in
  every implementation; a receiver without a replay guard shows the older value
  last. A chain wins in the end (`ChainPrevails`).
* The stamp of a chain is taken once: after a window, a node that joins late hears
  nothing of it.
* A message handled during the shutdown of the bridge may start a chain after the
  sweep (`bridge.go:194`), which then writes to a closed socket until the process
  ends.

In the receivers:

* `tests/unit/reference.py:431-433` says that the three guards agree for any clock,
  stamp and nonce. While the clock is less than a window past the epoch the Go
  guard's cutoff wraps (`replay.go:85`), it forgets everything at each datagram, and
  accepts a repeated one.
* Guards prune in arrival order and not in the order of stamps, so the oldest live
  entry is not always in front (`replay_guard.h:91-93`), which costs room in the
  cache and no decision.
* `require_encryption` is a property of a topic on ESPHome and of a route on the Go
  bridge, where another route for the same topic may still take plaintext.

In the Python clients and the integration:

* `stop()` of the asyncio client while `start()` awaits finds no transport; `start()`
  then stores one that reads from a socket the client has forgotten (`aio.py:230`,
  `266`). A later `stop()` closes it unless another `start()` came in between.
  `GroupsFollowSubs` and `TimersTracked` hold all the same.
* A `start()` that fails, is cancelled or is repeated leaves the earlier subscriptions
  in `_subs` without a group on the new socket, and a further `subscribe` to such a
  topic finds it there and joins nothing (`aio.py:229`, `304`). `GroupsFollowSubs`
  excepts these topics.
* Options saved while a setup that has read the old ones awaits its socket are not
  applied until the next reload, since the listener is added afterwards
  (`custom_components/mpubsub/__init__.py:162`, `177`). `OptionsInForce` excepts it.
* Two user forms submitted together make two entries: the form looks at the entries
  before it awaits the probe (`config_flow.py:169`, `178`).
* An `off_delay` that is not shorter than `expire_after` turns an expired binary
  sensor "off", which nothing expires (`binary_sensor.py:103-109`). `KnownIsRecent`
  excepts it.

## Hazards no property covers

PROJECT.json lists them with the reason. They are the wrapped cutoff of the Go guard
(outside `PastEpoch`), the death of a chain whose topic shares its CRC with another,
the ESPHome timeouts that wait on a socket that could not be bound, a client set up
after Home Assistant's stop event, options saved during a setup, promoted chains with
a delay nobody checked, and the -1 that becomes 255. In each the code does what the
models show, and the properties named above state the exception.

## Not modelled

* The Go bridge from mpubsub to MQTT: one pass of its loop is a filter over routes
  that never change. What precedes it is in `Fabric` and `ReplayGo`, how it ends in
  `GoPublisher`.
* Of the ESPHome receiver: joining of groups, the packet counters, typed callbacks,
  and callbacks that subscribe while they are called, which moves the vector that
  is being walked and has no defined outcome to model. Reboots of a node and its
  strict topics are in `Fabric`.
* The layout of bytes and the errors of malformed datagrams: every error has one
  effect, the datagram is dropped.
* Cryptography and hashing: bit-level arithmetic, tested with published vectors. A
  sealed body is taken as unforgeable and the CRC as a function of the topic.
* Schema ids, protobuf codecs and JSON translation, code generation and YAML
  schemas (except the rules named above), the texts of the config flow, the
  command line.
* Actual delays, except in `HaEntity` and in the rules for chains: only their order
  matters to the properties. The number of a chain's retransmissions is counted up
  to a bound.
* Two callers that subscribe or publish at the same moment on different threads:
  the Python code runs on one loop and does not lock.

## Plan

What is left, in the order of importance:

1. The counters and joins of the ESPHome receiver, as a module beside `Fabric`.
