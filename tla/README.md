# A TLA+ model of zigbee2mqtt-rs

zigbee2mqtt-rs bridges a Zigbee network, reached through a TI ZNP adapter on a
serial port, to an MQTT broker. This directory holds specifications of its core,
translated from the code under `src/`, the TLC configurations that check them on
small instances, and proofs of the properties that matter most for every
instance. Paths in this text are relative to the crate's `src/`.

    tlc -config MCDeviceRegistry.cfg MCDeviceRegistry.tla
    tlapm DeviceRegistryProofs.tla

`PROJECT.json` lists the components, the runs with their properties, the lines
each definition stands for, the hazards and the theorems.

## The system

| Component | State it keeps | Operations | Talks to |
|---|---|---|---|
| Device registry (`devices/mod.rs`) | devices by IEEE address; indexes by network address and friendly name | add, update_nwk_addr, rename, remove_by_ieee, lookups | shared (`Arc`) by main loop, retry tasks and saver |
| Bridge main loop (`bridge.rs`) | `InterviewTracker`, `PermitJoin`, `LookupLimiter` | one handler per coordinator event, MQTT command, housekeeping tick (10 s), shutdown | all others |
| Interview tasks (`bridge.rs`) | address and attempt number | ask for active endpoints up to 3 times, 20 s apart; ask for descriptors; set up endpoints | registry, coordinator (behind a `Mutex`) |
| Persistence (`persistence.rs`, `database.rs`) | `database.db`, `state.json`, `last_written` | load, periodic save (30 s, blocking pool), save at shutdown | registry, file system |
| ZNP coordinator (`coordinator/znp/mod.rs`, `commands.rs`) | coordinator's identity | start-up sequence, ZDO and AF requests, event pump translating AREQs | transport, main loop by a channel of 64 |
| ZNP transport (`coordinator/znp/transport.rs`) | pending request, count of timeouts in a row | actor: write one request at a time, pair its response, time it out, pass on indications | serial port; requests and events by channels of 256 |
| ZNP frames (`coordinator/znp/frame.rs`) | undecoded bytes | encode, decode with resynchronisation | transport |
| MQTT link (`mqtt/mod.rs`) | connection state, bounded request channel | publish with a 5 s limit, event loop, topic parsing | broker, main loop by a channel |
| Device state, set and get (`bridge.rs`, `zigbee/zcl/`) | a device's merged state | parse a report and merge it; turn a payload into ZCL commands; publish the accepted ones | registry, coordinator, MQTT |
| ZCL clusters, Home Assistant discovery, attribute output, configuration | none | conversions | bridge |

The bridge is one tokio task, so its handlers never overlap each other, but a
handler can wait for the coordinator's lock and for MQTT, while retry tasks, the
saver, the event pump, the transport's actor and the MQTT event loop run. What
is hard:

* **Addresses change hands.** A Zigbee device has a permanent IEEE address and a
  network address that changes; nearly every message names only the latter. The
  registry's indexes and the interview tracker are keyed by it.
* **Answers are lost, late and out of order.** An interview takes two round
  trips over the radio, retried by tasks that do not know of each other; a
  serial response carries no number, only the shape of its request.
* **Things stop in the middle.** The process can crash between any two writes; a
  periodic save can still be under way when the last save starts; the adapter
  can fall silent with callers waiting.
* **Bounded queues and limits.** Channels of 64 and 256, an attempt limit, a
  timeout limit, a rate limit, an 8-bit duration.

What makes each component correct:

* *registry*: an index never dangles or lies; an operation on one device never
  makes another unreachable; names find their devices;
* *interview*: every device that stays is interviewed in the end, discovery
  describes the whole device, and the tracker does not grow for ever;
* *transport*: a call gets the response to its own request, each call returns,
  and a dead adapter, no other, is given up;
* *persistence*: what was stored stays stored, foreign records survive, the
  files follow the registry;
* *coordinator*: an unexpected reset or lost port always ends the main loop, and
  no start-up reset is mistaken for one;
* *MQTT link*: retained state is republished after each reconnection and no task
  waits for itself;
* *permit join, lookup limiter*: the published window is the coordinator's, and
  a chatty stranger is asked about once per interval;
* *device state*: published state holds what was reported or accepted, no
  momentary actions of the past.

## Modules

    AddressBook  <-- implemented by --  DeviceRegistry  <-- instantiated by --  Interview
                                              |                             |
                                     DeviceRegistryProofs            InterviewProofs

    PermitJoin --+                                 ZnpTransport -- ZnpTransportProofs
                 +-- MainLoop -- MainLoopProofs
    DeviceState -+

    Selection --+-- Coordinator --+
       |        +-- Persistence --+-- CoordinatorProofs, PersistenceProofs,
       |        +-- MqttLink -----+       MqttLinkProofs
    SelectionProofs --------------+

`MainLoop` composes the permit-join window with a device's state by extending
both; it implements each of them (`PermitSpec`, `StateSpec`), which is proved.
The other modules meet at what one assumes of the other: a request that times
out or is answered in `Coordinator` is one whose pairing is the business of
`ZnpTransport`; what `MqttLink` publishes are versions of the states and of
`bridge/info` that `MainLoop` shows; the interview of `DeviceState` is one step
where `Interview` has all of it.

`Selection` is the operator `Select(s, T)`, the elements of a sequence that are
in T, in their order, written as a recursive function so that it can be proved
about.

`MC<Module>.tla` and its `.cfg` files give the constants of a module small
values. A few operators are followed or preceded by a variation with a mistake
in it (`UpdateKeepingOld`, `MatchAnything`, `QueueFirst` before `EarlyFirst`,
...), unused by the specifications: putting one in the place of its original
makes TLC refute the property that guards against that mistake.

### AddressBook and DeviceRegistry

`AddressBook` is what the registry promises about network addresses: a message
from address n belongs to the device that claimed n last, until that device
claims another address or leaves. It has no indexes and no records.

`DeviceRegistry` has the three maps (`dev`, `byNwk`, `byName`) and one operator
per method: `Add`, `UpdateNwkAddr`, `Rename`, `RemoveByIeee`, with `remove_if`
as `ClearOwn` and the lookups as `GetByNwk`, `FindByName`. Around them are the
callers: `ImportRecord` (database.db, which may repeat devices, addresses and
names), `ApplyDeviceConfig` (entries in any order, as the map yields them), and
the main loop's `DeviceSeen` and `DeviceLeft`. Each is one step: the methods run
to the end within one handler, and no other task writes to the registry. A
record is reduced to address and name; the spelling of a configuration key to
whether `as_hex` would write it so (`CanonicalKey`).

### Interview

Composes an instance of `DeviceRegistry` with the tracker (`pending`), the retry
tasks, each device's described endpoints and `interview_complete`, and the
network: which device holds which address (`at`) and the set of messages under
way (`air`). Delivery picks any message, so they are reordered at will; a set
delivers each once, and repetition comes from the retries. The handlers
`DeviceJoined`, `DeviceLeft`, `AddressResolved`, `ActiveEndpoints`,
`SimpleDescriptor`, `Expire` and `Retry` are those of `bridge.rs`, registry
operation, tracker and publication in one step each. Devices and radio are
external: they arrive, depart, report, answer, refuse, and messages get lost.

`Spec` lets expiry and retries happen at any moment. `TimelySpec` restricts them
as the constants of the code do: a retry wakes after 20 s, longer than a round
trip, and an interview expires 90 s after its last ActiveEpRsp, longer than the
three attempts of a task. `published` and `disturbed` are history: the endpoints
discovery was published from, and the addresses whose interview was cut short.

### ZnpTransport

The callers' side of `request`, the actor (`pending`, `consecutive_timeouts`,
the channel), the serial line in both directions and an adapter that answers in
order, rejects, ignores or babbles, at any delay. `Accept`, `WriteFails`,
`TimeOut`, `Receive` and `SerialFails` are the branches of the actor's
`select!`; `Stop` is what dropping the actor does to open calls. Requests are
numbered for the properties only: `match_srsp` compares shapes, and so does
`Match`. `ended` is history.

### Persistence

The registry as the saver sees it, both files, `last_written`, and `Store::save`
step by step for its two users: the saver (blocking pool) and the main task at
shutdown. A save copies the registry device by device (`Copy`: iterating a
DashMap is not atomic), reads and merges the existing file (`Read`), compares
under the lock (`Skip`, or `Write` with the temporary file) and renames
(`Replace`), first for database.db, then for state.json. `ReadFails` and
`WriteFails` are its error paths. The process stops cleanly (the runtime waits
for a save under way), after an error (`process::exit` does not wait), or by
`Crash` between any two steps; `Start` reads what is on disk, and may be unable
to use some records or a whole file. The fields of a record are one version
number, the time of the last change to the device; a line that is no device's
record keeps its content, as a number.

### Coordinator

`start()` request by request, with the statuses and refusals it tolerates
(`Tolerated`), its waits for the reset and for the network (`AwaitReset`,
`AwaitNoReset`, `AwaitNetwork`, `AwaitNoNetwork`), and `Drain`, which hands what
came early to the event pump. `ReadResponse`, `ReadIndication`,
`RequestTimesOut` and `ActorStops` are the transport's actor as seen from above,
with the queue of indications that it fills without waiting. `PumpTakes`,
`PumpSends` and `PumpEnds` are `event_pump`: early events first, a reset ends
it, and room in the channel to the main loop is awaited. The main loop is
reduced to what it does to queues and lock: it handles an event and may spawn a
task (`HandleEvent`), makes a request (`HandleCommand`, and the first request of
`run`), or finds the events closed (`ConnectionLost`). `lock` is the tokio
mutex: its holder first, then its waiters in order; `Call` is one request under
it. The adapter answers, refuses, ignores and resets when it likes. `Translate`
says which indications are dropped: those cut short, failed address answers, and
leaves with the rejoin flag.

### MqttLink

The connection (`session`), the flag `LinkState` keeps of it, the library's
request channel and what it has sent without acknowledgement, the broker's
retained topics, and the commands on their way to the main loop. `Send`,
`Notice`, `ConnectFails`, `Wake`, `Connect` are `run_event_loop`;
`SubscribeAndNotify` is the task it spawns for each connection; `Publish`,
`PublishWaited`, `PublishTimesOut` are `MqttBridge::publish`; `CommandOf` is
`command_from_publish`, for topics that are sequences of segments. Of what is
published only the topic and its version count; `DeviceTopics` and `Flattened`
are `publish_state` and `flatten_attribute_output`. The client library and the
broker are external: on a reconnection the library sends again what was not
acknowledged, or drops it.

### PermitJoin

Time in ticks, the adapter's window and the bridge's idea of it
(`PermitJoin.until`, `keep_enabled`), what `bridge/info` shows, and the main
loop's handlers as far as they touch these: `PermitCommand` with
`CommandAccepted` or `CommandFails`, `Housekeeping` (refresh once no more than
the margin is left, otherwise expiry) with `RefreshAccepted` or `RefreshFails`,
`Republish`, and `OtherStarts`/`OtherEnds` for handlers that only take time, as
much as they like: requests to devices answered just in time, waits for the
coordinator's lock (`Send` is the step that gets it), publishes to a broker that
stalls, the republish of all devices. Only a request that has been sent is
bounded, by `Timeout`. The window that is refreshed counts from before the
request, one that is asked for from after it. A request can be refused, lost, or
taken by the adapter after the bridge has given it up, and its answer can be
taken for that of the next one. `lag` measures for how long housekeeping has
neither been content with the window nor had an answer to its request: what
handlers of any length can do to the window is said in terms of it.

### DeviceState

One device and the bridge's record of it: a lamp that reports what it does, one
that does not, an IAS zone sensor or a remote control (`kind`). `Message` is the
handler of an incoming message: `Values` is `parse_message` for the clusters
whose outcome depends on what was heard before, `DirectionAfter` and the zone
type are what it remembers, momentary keys are published and removed again;
linkquality and last_seen (`Heard`) are there because with them no device that
was ever heard has an empty state.
`SetDevice`, `SendAccepted`, `SendFails` and `SetEnds` are `handle_set` with the
conversions of its payload; `GetDevice`, `RepublishState`, `CompleteInterview`
and `RestartState` are the other places that publish or load a state. The frames
under way in either direction keep their order.

### MainLoop

The two together under the rule of the select loop: one handler at a time. While
a set command makes its requests time passes, adapter and device act, but no
message, command or housekeeping is handled. The reconnection and the restart
are one step of both parts.

## Runs

| Run | Checks | States | Bounds |
|---|---|---|---|
| `registry` | `TypeOK`, `IndexesSound`, `FoundByName`, `StaysReachable`, `BookSpec` | 1936 | 3 devices, 2 addresses, 2 devices with one configured name; any number of steps |
| `registry_names` | refutes `ConfiguredNameKept` | | the same |
| `interview` | `TypeOK`, `PartialNeedsDisturbance`, `CompleteIsPublished` under `Spec` | 2.7 million | 2 devices with 2 endpoints passing 1 address, 3 moves, 1 loss, retries only while fewer than 2 messages are under way |
| `interview_progress` | `EventuallyInterviewed`, `TrackerDrains` under `TimelySpec` | 344 thousand | 2 devices, 2 addresses, 2 moves, 2 losses |
| `interview_partial` | refutes `NoPartialDiscovery` | | 3 moves, no loss |
| `transport` | `TypeOK`, `MispairedOnlyAfterTimeout`, `GivesUpWhenSilent`, `InOrder`, `EveryCallReturns` | 655 thousand | 4 requests of up to 3 shapes, 1 unsolicited response |
| `transport_stale` | refutes `OwnAnswer` | | 3 requests |
| `persistence` | `TypeOK`, `KeptUnlessLeft`, `MergeKeepsOthers`, `SavedAtExit`, `EventuallySaved` | 713 thousand | 2 devices, 2 changes, 1 failure, 2 starts; 2 initial databases, one with a repeated device |
| `persistence_skipped` | refutes `RemovedOnlyIfLeft` | | 1 change, 1 failure, 1 start |
| `coordinator` | `TypeOK`, `OwnResetHarmless`, `UnregisteredNoticed`, `NothingLost`, `StartEnds`, `ResetEndsLoop`, `LoopReturns` | 223 thousand | room for 1 indication and 1 event, 1 task of 1 request, 1 NV item, 2 messages, 1 reset nobody asked for |
| `mqtt_link` | `TypeOK`, `QueuedOrRepublished`, `CommandsAsAsked`, `RetainedCatchesUp`, `SubscribedAgain`, `BridgeReturns` | 217 thousand | 1 device, 3 topics, channel of 1, 1 unacknowledged, 2 versions, 1 outage besides those before the first connection, 1 command |
| `main_loop` | `TypeOK`, `OpenIsShown`, `KeptOpen`, `StaysClosed`, `LampShown`, `ActionShownOnce`, `AlarmReachesHA` | 1.71 million | a window of 5 ticks with a margin of 3, a period and a timeout of 1, handlers of any length; 2 requests of clients for 0, 2, 4 or for ever, 2 failures; 1 device of each kind or none, 2 set commands of 5 payloads, 2 acts by other hands, 1 loss |

Why the bounds are enough for the cases meant:

* three devices and two addresses let a device take an address over while its
  former owner moves or leaves, with a bystander to be harmed by it; the
  registry has no counters, so that run covers behaviours of every length;
* one address shared by two devices in `interview` makes every confusion of
  devices possible; three moves are a join, a leave and the other's join. Two
  endpoints are the least for a partial interview. The two losses of
  `interview_progress` are one fewer than `MAX_ATTEMPTS`, the most that the code
  claims to survive;
* four requests are three timeouts in a row, which makes the actor give up, and
  one more call; three of one shape show a shifted response, two shapes a
  response that must not match;
* one place in each queue of `coordinator` makes every wait for room and every
  dropped indication possible; two messages show an order; one reset is the one
  that ends the bridge, next to the one start() asks for. One task is the least
  that competes with the main loop for the lock;
* a channel of one place in `mqtt_link` is full after any publish, so that every
  publish can wait, time out or be dropped; two versions tell a stale topic from
  a fresh one; the device's name is a path of two segments and its state a
  colour, the cases topic parsing and flattening treat specially;
* the window of `main_loop` is long enough for a refresh in time, one that times
  out and is repeated within the margin, a late one, and expiry, while handlers
  of any length come between; the durations asked for lie on either side of the
  margin. Two failures are a request that is late or lost and another that is
  refused, or whose answer is taken for the next one's.
  `MCMainLoop` composes the whole of permit join with no device, and the window
  that is kept open with each kind of device (`OneAtATime`, by which no request
  for it fails there and housekeeping is at most a tick late); `FewEvents` keeps
  a lamp that reports to three events. The payloads have a level beyond 254, a
  state that contradicts a level, and one of four requests;
* two changes are enough for a device to leave and come back while a save holds
  a copy of it, or to change between the copies of two overlapping saves; one
  failure hits any of the reads and writes; the second start sees what any crash
  of the first left behind.

`CHECK_DEADLOCK FALSE` stands where the bounds on calls, moves, messages,
versions and failures let everything come to rest, and where the process may
have ended.

What the passing runs show:

* *registry*: it implements the address book, and no history of joins, moves,
  renames and leaves makes a device unreachable by address or name;
* *interview*: discovery is published from part of a device's endpoints, or from
  another's, only if an interview was cut short; a device that stays is interviewed
  in spite of two lost messages, and the tracker empties;
* *transport*: it hands out a foreign response only after a timeout of the same
  shape, ends calls in order, ends each of them, and gives up exactly after
  three timeouts in a row;
* *persistence*: a stored device is found again in that version or a later one
  after crashes, failed writes and overlapping saves; a rewritten database keeps
  what is not the bridge's;
* *coordinator*: the reset of start() never ends the bridge and another one
  always does, unless its indication was dropped from a full queue, came before
  start() was done, or the registration had been refused with a status; messages
  reach the main loop in order and once, from the reset of start() on; pump,
  actor, main loop and tasks never wait for each other in a circle;
* *MQTT link*: after an outage every topic catches up, except one whose publish
  timed out on a connection that was up; no echo is taken for a command;
  commands are heard again after each connection; no handler is held up for
  good;
* *main loop*: an open window is shown as open as long as no request has been
  refused or lost, none was for 255 (a duration for the bridge, for ever for
  the adapter), and handlers have not held housekeeping up for longer than the
  margin; with `permit_join: true` the window closes on its own only if
  housekeeping was held up for the margin less the time an answer takes; one
  that was closed explicitly stays closed until a client or a restart opens it;
  what is shown of a lamp that nothing is under way to is what it does; a press
  is published once; an alarm reaches Home Assistant.

### Fairness

`Interview`: the select loop receives every event in turn, the retry tasks' and
the housekeeping timer fire, and a device on the network that the registry does
not know goes on reporting. Nothing forces a device to arrive, and lost or
refused messages are only bounded. `ZnpTransport`: the actor is scheduled and
its timer fires (`Accept`, `TimeOut`); nothing is assumed of the adapter or of
the order in which ready branches are taken. `Persistence`: the saver's interval
ticks and a save on the blocking pool goes on; crashes, failures and shutdown
are never forced, so the property speaks of a process that keeps running.
`Coordinator`: the adapter takes what is sent to it (it may leave it
unanswered), the actor, start(), the pump and the tasks run and their deadlines
pass: weak fairness. The main loop's `select!` picks at random among the
branches that are ready, so a branch that is ready again and again is taken:
strong fairness of `HandleEvent` and `ConnectionLost`, without which commands
could keep the loop from noticing a reset. Nothing makes messages, resets or
commands happen. `MqttLink`: the event loop and the main loop run, delays and
timeouts pass, the spawned task gets its turn, and a broker that is connected
acknowledges; that the broker can be reached is not assumed but the hypothesis
of the properties. `MainLoop` states no fairness, and checks no liveness: time
is a counter there, and the window has to be refreshed before it gets too far.

### Where the code and its comments differ

* `registry_names`: a configuration key in another spelling (upper case, no
  `0x`) names the device at startup, where keys are parsed
  (`apply_device_configs`), but not when it joins, where the exact string is
  looked up (bridge.rs:164).
* `interview_partial`: a descriptor for an address the tracker does not know
  completes the interview (`record` returns true, bridge.rs:1119), so a device
  that leaves and rejoins with an old descriptor request under way gets
  discovery from some of its endpoints, against bridge.rs:255-257. Descriptors
  that follow publish nothing more.
* `transport_stale`: a response later than its timeout is taken for that of the
  next request of the same shape (`match_srsp`, transport.rs:90), against
  transport.rs:77 and :83. `MispairedOnlyAfterTimeout` says how far the damage
  goes.
* `persistence_skipped`: records that could not be imported, one by one or all
  after a failed read at startup, are deleted from database.db by the first save
  although their devices never left (persistence.rs:230), against
  persistence.rs:10-11 and :103.

## Proofs

`DeviceRegistryProofs` (for all devices, addresses, names and configurations
that satisfy `RegistryAssumption`). Both startup and main loop only use the four
operations, so the invariants are proved for one `Step` and carried over by
`HandlersStep`.

* `TypeCorrect`: `Spec => []TypeOK`. `MapsOK`, the part about the maps, is
  inductive alone.
* `IndexSoundness`: `Spec => []IndexesSound`, inductive with `MapsOK`.
* `ImplementsAddressBook`: `Spec => BookSpec`. `Add` and `UpdateNwkAddr` are
  claims, `RemoveByIeee` leaves, `Rename` stutters; index soundness is what
  makes clearing a device's own entry the same as clearing all its entries.
* `NamesFound`: `Spec => []FoundByName`, by the stronger `OwnNames`: a device's
  name is one of the two it can have, and, if it shares them with nobody, it is
  indexed under it. Without the first half a rename of another device might take
  the name.
* `ReachabilityKept`: `Spec => StaysReachable`, from the lemmas that a claim
  cuts off at most the former owner of the address.

`InterviewProofs` (for any devices with any endpoints, any addresses and any
bounds on moves, losses and messages under way; TLC's instance has one address).

* `InterviewTypes` and `Completion` (`CompleteIsPublished`), inductive together
  with the soundness of the registry's address index.
* `NoPartialInterview` (`PartialNeedsDisturbance`), by `FreshInv`: about an
  address that was not cut short, everything stems from the device that holds
  it. Only that device owns the address in the registry; the endpoints listed in
  an answer under way or awaited by the tracker are exactly its own; what the
  tracker counts as received is described; and while a descriptor is under way
  its address is tracked or its owner complete (`FromHolder`). The last is the
  point: a descriptor for an address that is not tracked counts as the last one
  (bridge.rs:1119), which does harm only where an interview was cut short.

`ZnpTransportProofs` (for any set of shapes and any bounds).

* `TypeCorrect`: `Spec => []TypeOK`, strengthened by `timeouts` being below the
  limit while the actor runs (`TypeInv`).
* `GivesUp`: `Spec => []GivesUpWhenSilent`, by `SilenceInv`: the counter is the
  length of the run of timeouts at the end of the history.
* `MispairingNeedsTimeout`: `Spec => []MispairedOnlyAfterTimeout`. The invariant
  `PairingInv` adds `OrderInv` (the requests under way back, those under way to
  the adapter and those queued come in the order they were made) and
  `TransitInv` (a response that is still to come belongs to the pending request,
  or to one that timed out or was itself given a foreign response; one to
  nothing has a shape no request has). When a response of the pending shape
  arrives, it is either the pending request's own, or an earlier one's, and then
  that one's timeout, or the one that explains its mispairing, is the one to
  point to.
* `CallsEndInOrder`: `Spec => []InOrder`, with `OpenInv`, that a call which has
  not ended is the pending one or waits to be written, and with the order of the
  queue, which is part of `PairingInv`.

`CoordinatorProofs` (for any tasks, sizes of the queues, NV items, and numbers
of messages and resets). `Base` is what all four use: the types; which requests
`start()` has left (`Steps`); that pump and main loop wait for it (`Awaited`);
and that one request at a time is under way, behind the reset, and then one
response to it (`Asked`).

* `TypeCorrect`: `Spec => []TypeOK`.
* `OwnResetDoesNoHarm` (`OwnResetHarmless`), by `OwnFirst`: the reset that
  `start()` asks for is ahead of the answer to its first request, wherever both
  are, so that by the time the pump exists it has been taken.
* `LostEndpointIsNoticed` (`UnregisteredNoticed`), by `Registers`: an answer
  that confirms the registration is under way only if the registration still
  holds or a reset follows it on the line; once `start()` is past that step, the
  endpoint is registered or its loss is on its way, was missed (`unseen`), or has
  ended the loop (`Heard`).
* `NoMessageLost` (`NothingLost`): the messages the queue has accepted are those
  delivered, then those in the channel, then the one in the pump's hand, then
  the early ones, then the ones queued (`Pending`), in this order. Each step
  moves one across a border or adds one at the end.

`PersistenceProofs` (for any finite set of devices, any files and any numbers of
changes, failures and starts). `PersistenceAssumption` asks that the sentinels
differ from what they stand beside, and that the files found at first are older
than any change. The first part says what merging and rendering produce: one
line for each device of the registry, and the lines of others as they were. The
second has the invariant, `IInv`: `Saves` (what a save has rendered lists what
its copy of the registry held), `Written` (`last_written`, where it is known, is
what the file holds, so that skipping a save is right), `Past` and `Later` (no
version is from the future, and a registry that is up is no older than what was
stored or is about to be), `Final` and `Exit` (how far the last save has come).

* `TypeCorrect`: `Spec => []TypeOK`.
* `StoredIsKept` (`KeptUnlessLeft`), a conjunct of `IInv`.
* `OtherLinesAreKept` (`MergeKeepsOthers`): an action property, from `Saves`.
* `ShutdownSaves` (`SavedAtExit`), from `Exit`: of a last save that meets no
  failure and no save by the saver.

`MainLoopProofs` proves the parts first, then the composition.

*Permit join*, for any window, margin, period and timeout with
`Timeout <= Margin < Max`, and handlers of any length:

* `PermitTypes`, `OpenWindowIsShown` (`OpenIsShown`), `ConfiguredWindowIsKept`
  (`KeptOpen`), `ClosedWindowStaysClosed` (`StaysClosed`), all from one
  invariant, `IInv`: `Pairing` (an answer belongs to the request awaited, unless
  there is doubt), `Refreshing` (only a window that is kept is refreshed, and a
  refresh has run for as long as its request), `StillOpen` (for as long as
  housekeeping is not overdue something is left of the window that is kept open,
  and at least what `until` says but for the time an answer takes), `InTime`
  (nor has its `until` passed), `InStep` (without doubt the adapter's window is
  the bridge's, after a refresh longer, for it is dated back) and `Showing`.
  Nothing is assumed of how long a handler takes: of a set command whose four
  answers each come just in time, which takes some 40 s, the theorem says what
  `KeptOpen` says, that the window stays open for as long as housekeeping was
  held up no longer than the margin less the timeout.

*Device state*, for any payloads, presses and zone types that satisfy the
assumptions:

* `StateTypesHold`: types, one case for each kind of device.
* `AlarmShown` (`AlarmReachesHA`): by `AlarmInv`: the last status under way, or
  the state when none is, says what the alarm is, under the key of the type
  known when it was decoded; published agrees with the state; and the last
  discovery announced the key of the type known then. In the usual order,
  discovery before the zone type, these are two keys, and the theorem promises
  no more.
* `PressShownOnce` (`ActionShownOnce`): by `ReleasesMatch`, that each release
  under way has its hold before it, or the direction remembered when none is,
  and by `PressShown`, that the momentary keys published are those of the last
  press, and none after anything else has been published.
* `LampShownTruly` (`LampShown`): by `LampInv`, for a lamp that has not gone
  astray. Of one that reports, the last report of an attribute under way says
  what the lamp does (`LastReported`); and where no report is under way and no
  command that would change the attribute, what is known is right (`Agreed`).
  Known is the state, or, while a set command goes on, the state with the
  command's optimistic values over it (`View`). A lamp that does not report has
  nothing but the commands: what is known is what those under way, one after the
  other, will make of the lamp (`Foreseen`). `Asking` is about the requests a
  set command has yet to make: those before them, and, for the lamp that does
  not report, that they agree with one another.

*Composition*. Every step is a step or a stutter of each part
(`LoopImplementsPermitJoin`, `LoopImplementsDeviceState`), so that
`LoopShowsOpenWindow`, `LoopKeepsWindow`, `LoopLeavesClosed`,
`LoopShowsPressOnce`, `LoopShowsAlarm` and `LoopShowsLamp` follow from the
theorems about the parts; `LoopTypes` adds that requests are under way only
while the loop is busy.

`MqttLinkProofs` (for any names, states, capacities and numbers of outages).

* `LinkTypes`: `Spec => []TypeOK`, with `Beginning`, which says that the task of
  the first connection notifies once and before anything else, and with the fact
  that a bounded set of numbers has a greatest one, for the last request of a
  topic that the broker took.
* `NothingLeftBehind`: `Spec => []QueuedOrRepublished`, inductive with the
  types, `Beginning`, and `CmdsListed` (the commands are a sequence). A publish
  makes its topic fresh and leaves the others as they are; the broker's taking
  the first request moves a topic from under way to retained; an outage
  falsifies the condition, and the notice that follows keeps it false until the
  main loop republishes.
* `OnlyClientsCommand`: `Unambiguous` implies `Spec => []CommandsAsAsked`, by
  `AskedInv`: the commands handled and then those in the channel, without the
  notices of connections, are the ones clients asked for. `Unambiguous` excludes
  what `command_from_publish` cannot tell apart: names that begin with `bridge`,
  names that end like a command topic, fields called `set` or `get`. The
  configuration may hold such names, and their echoes can pass for commands, so
  it is a hypothesis of the theorem and not an assumption of the module; TLC
  evaluates it for the instance (`NamesUnambiguous`).

`SelectionProofs` holds lemmas only: what `Select` does with an appended
element, a concatenation, the head of a sequence, a selection or an image.
`Induction` and `SequenceInduction` say that a set with 0, or the empty
sequence, and with what follows each of its members, has all of them, for else
there would be a least number missing. Being about a set, they can be used where
the library's theorems, whose parameter is an operator, cannot be instantiated.

The proofs assume nothing but the named `ASSUME`s of the modules and
`Unambiguous`, all of which TLC evaluates. Every safety property that a run
finds to hold is proved; only the liveness properties are not: `StartEnds`,
`ResetEndsLoop`, `LoopReturns`, `EveryCallReturns`, `EventuallyInterviewed`,
`TrackerDrains`, `EventuallySaved`, `RetainedCatchesUp`, `SubscribedAgain` and
`BridgeReturns` need fairness, and thereby `ENABLED`, which the proof system
used here does not handle.

## Limits of the code the models bring out

Not contradicted by any text of the repository, so no run refutes anything, but
each shapes a property's condition, and a change of the code could lift it:

* a publish that times out while the link is up is dropped and never repeated
  (mqtt/mod.rs:230); `gaveUp` in `QueuedOrRepublished`;
* a permit-join request that is refused counts as done (znp/mod.rs:435), one
  that times out as not done though the adapter may do it, 255 is shown as a
  duration: `doubt` and `last # Forever` in `OpenIsShown`. After an explicit
  disable that times out, the refresh opens the window again; after a restart
  the configuration does;
* the refresh margin is 54 s, of which an answer to a refresh may take 10: once
  handlers have kept housekeeping for 44 s from renewing the window, by a set
  command whose four requests are each answered just in time, a wait for the
  coordinator's lock behind tasks and publishes that wait 5 s each, or refreshes
  have timed out for as long, the configured window may close: `lag` in
  `KeptOpen`, and in `OpenIsShown`, for the bridge's time counts from before a
  refresh and may pass first;
* a registration refused with a status, a reset's indication dropped from a full
  queue, and a reset during start-up leave a bridge that hears nothing
  (`unseen`);
* in the usual order the discovery of a sensor comes before its zone type is
  read, and is not published again then, only after the next connection to the
  broker; until then Home Assistant watches `contact` and the status comes under
  another key. Neither zone type nor the direction of an arrow that is held
  survives a restart, after which an alarm shows as `contact` until the type is
  read again: `untyped` in `AlarmReachesHA`. A key once published stays in the
  state;
* of a payload whose state and brightness contradict each other the first
  request decides what is shown and the second what the lamp does; a lamp that
  reports corrects that, one that does not is excepted in `LampShown`
  (`Contradictory`). An optimistic change leaves `brightness_percent` as it was;
* a `get` of a device without a state publishes an empty object as its retained
  state; the retained topics of a device that left stay with the broker;
* names of devices that end in a segment `set` or `get` are taken for commands
  when their states come back: `Unambiguous` excludes them;
* `battery_low` is written by two clusters, the later report wins.

## Not modelled

* The ZNP frame decoder. It is arithmetic over bytes with unit tests of its own;
  what a damaged line does to the rest, lost requests, responses and
  indications, is in `ZnpTransport` and `Coordinator`.
* Byte layouts (ZNP, ZCL, ZDO), JSON and YAML: messages are records of what they
  carry. The stateless scalings of measurements are tables that unit tests
  cover.
* Endpoint setup after a descriptor (bindings, reporting, IAS enrolment) beyond
  the lock it takes and the zone type it asks for: it changes nothing else in
  the bridge.
* The documents of Home Assistant discovery other than the alarm's: the clusters
  of the device determine them.
* `LookupLimiter`, which only delays `Report` in `Interview`.
* Logging, argument parsing, error texts.
* Within the modelled parts: fire-and-forget sends of the transport; in
  `Interview` the wait of a retry task for the coordinator's lock (its request
  may be under way for arbitrarily long instead); in
  `DeviceState` a second device and the values of colours; in `Persistence`
  other programs writing to `database.db` and a power failure that undoes a
  rename (the directory is not synchronised), where a crash or kill of the
  process does not.

Next would be the decoder's resynchronisation after a spurious start byte,
against a reference definition over short byte strings.
