# Verification of alert-distributor

alert-distributor reads alerts from Kafka and sends each one to the people who
may see its unit: at once over the WebSockets they have open, and as a push
message through Amazon SNS to their mobile devices. Who may see what comes from
a read model, kept in memory, of the control plane of siscom-admin-api.

This directory holds TLA+ models of its parts, the TLC configurations that check
them on small instances, and proofs for TLAPS. `PROJECT.json` lists the runs, the
mutations each property is tested against, the source lines behind every
definition, the findings and the hazards.

Run a model with `tlc -config <run>.cfg <module>.tla` and the proofs with
`tlapm <module>.tla` on each of `RecursionFacts`, `ControlPlaneEventsProofs`,
`ControlPlaneCacheProofs`, `ControlPlaneSyncProofs`, `MainLoopProofs`,
`WebSocketAlertsProofs`, `WsHeartbeatProofs` and `SnsDeliveryProofs`.

## 1. Inventory

| Part | Source (`src/src/`) | State | Operations |
|---|---|---|---|
| Read model | `permissions/cache.rs` | users, memberships, grants, equipment, mobile devices, and four derived indexes, behind one `RwLock` | one write operation per kind of change, queries `users_for_unit`, `units_for`, `devices_for` |
| Control-plane events | `kafka/control_plane.rs` (`apply_event`) | none | one message to one write operation, or skipped |
| Startup and control consumer | `kafka/control_plane.rs`, `permissions/loader.rs`, `main.rs` | noted offsets, next offset per partition | note offsets, load five views, assign, consume |
| Control-plane health | `kafka/control_plane.rs`, `websocket/handler.rs` | three atomics | probe, mark ok / applied / error, `/health` |
| Connection registry | `websocket/registry.rs` | connections, index by unit, index by user, behind one `RwLock` | add, remove, senders for a unit |
| WebSocket connections | `websocket/handler.rs` | one task per connection, a bounded channel, `last_pong` | handshake, `select!` over channel, socket and heartbeat, cleanup |
| WebSocket dispatcher | `websocket/dispatcher.rs` | none | `try_send` to each sender of the unit |
| SNS dispatcher and queue | `sns/dispatcher.rs`, `sns/publisher.rs` | a broadcast channel of 1000 | resolve devices, queue one item each |
| SNS worker | `main.rs`, `sns/client.rs`, `sns/db_update.rs` | the batch and its deliveries | collect, publish with retries, deactivate |
| SNS metrics | `sns/metrics.rs` | five counters | count, report and reset each minute |
| Alerts consumer | `kafka/consumer.rs` | position, committed offsets | parse, dispatch to both, commit |
| Authentication | `websocket/auth.rs` | none | the `Authorization` header to a person and an organization, or an error |
| Configuration, alert texts, pool, logging | `config`, `models`, `db`, `logging`, `errors` | none | none that changes state |

How they interact. The control-plane consumer and the SNS worker write the read
model; the SNS dispatcher reads it for every alert, and the WebSocket handshake
reads it once per connection. The alerts consumer takes one alert at a time and
awaits both dispatchers; these hand over through in-memory channels (one per
connection, one for SNS) and never wait for a receiver. `main` runs the alerts
consumer, the control-plane consumer and the HTTP server in one `select!`: the
end of any of them ends the process.

What is hard:

- four indexes derived from two maps, updated by hand in each operation, and two
  queries that answer the same question from different indexes;
- a snapshot taken by five separate queries, and messages older and newer than it
  that are applied on top;
- a registry entry removed from two places while senders cloned from it are in
  use;
- peers that are slow, silent, or stop reading;
- pushes that wait in queues and retries while the device they name changes hands
  or endpoint, and a deactivation that names the device only by id;
- offsets that are committed without waiting, lost with a rebalance or a crash,
  and messages that do not parse between those that do;
- a health that four places write, from news of different moments, and a probe
  that blocks the task it shares with everything `main` polls.

What makes each part correct: the read model follows the documented rule and its
indexes never drift; startup and consumption end in what the database says; the
registry has an entry exactly for the connections whose task will remove it;
alerts reach a connection in order and none is lost while there is room; a
dispatch always ends; silent peers are closed and living ones kept; every push is
accounted for once and only dead endpoints cost a person their device; what is
committed was handed to both dispatchers, and every alert is in the end; health
and lag settle on the truth once the faults are over.

## 2. Modules

| Module | Models | Used by |
|---|---|---|
| `ControlPlaneState` | `struct State`, its queries and operations, as functions | all read-model modules, `SnsDelivery` |
| `ControlPlaneEvents` | `apply_event` and the messages | `ControlPlaneCache`, `ControlPlaneSync`, `SnsDelivery` |
| `AccessRule` | the documented rule, with no index: abstract specification | refined by `ControlPlaneCache` |
| `ControlPlaneCache` | the cache under any sequence of messages, and the SNS worker | `MCControlPlaneCache` |
| `RowReplica` | a replica of a source, one row at a time: abstract specification | refined by `ControlPlaneSync` |
| `ControlPlaneSync` | source database, topic, startup row by row, consumption, crash | `MCControlPlaneSync` |
| `ControlPlaneHistory` | the same with a history of who was ever authorized | `MCControlPlaneHistory` |
| `ControlPlaneHealth` | the atomics, the loop and the probe behind `/health`, with a clock and faults | `MainLoop` |
| `AlertConsumer` | positions and commits of the alerts consumer, rebalances and crashes | `MainLoop` |
| `MainLoop` | the two consumers in the one task of `main`: composition of the last two | `MCMainLoop` |
| `JwtValidator` | `validate_bearer`, as a function | `WebSocketAlerts` |
| `ConnectionRegistry` | the registry, as functions | `WebSocketAlerts` |
| `WebSocketAlerts` | handshakes and connection tasks against the dispatcher | `MCWebSocketAlerts` |
| `WsHeartbeat` | the clock of one connection | `MCWsHeartbeat` |
| `SnsDelivery` | resolution, queue, worker, deactivation and reporter, against re-registration | `MCSnsDelivery` |

| Proofs | Of | Cite |
|---|---|---|
| `RecursionFacts` | lemmas: induction on numbers and on the subsets of a finite set, recursion over these subsets, sums | |
| `ControlPlaneEventsProofs` | lemmas: messages and operations keep the types, the indexes, the holders of devices and the organizations of units | |
| `ControlPlaneCacheProofs` | types, indexes, devices, defaults, the rule and the refinement of `AccessRule` | `ControlPlaneEventsProofs` |
| `ControlPlaneSyncProofs` | startup and consumption, row by row and as a whole, and the refinement of `RowReplica` | `ControlPlaneEventsProofs`, `RecursionFacts` |
| `MainLoopProofs` | health, lag and commits, of the two consumers in one task | `RecursionFacts` |
| `WebSocketAlertsProofs` | registry, connections and the flow of alerts | `RecursionFacts` |
| `WsHeartbeatProofs` | the heartbeat | `RecursionFacts` |
| `SnsDeliveryProofs` | types, counters, removals, devices | `ControlPlaneEventsProofs` |

### Correspondence with the code

*Read model.* A value of `State` is the content of the `RwLock`. Maps of maps
are functions on pairs, `None` stands for an absent key, and a count of 0 for an
absent entry of `units_by_org` (the code removes an entry at 0). The vector of
devices of a person is a set, because nothing depends on its order. Each
operation takes the lock once and is one step. The token of a device is left
out; its platform is a constant of `SnsDelivery`, taken not to change under one
id. A device handed to `upsert_user_device` carries its own user.

*Messages.* `Payload` is every message the code tells apart: each entity with
each optional field present or absent, data that does not decode, an envelope
that does not decode, a foreign entity, and schema versions absent, 1 and other.
`UnitOrgs` says which organizations messages name for a unit: with one each, the
runs show what holds while units stay where they are; with two, what a transfer
does.

*Startup.* `NoteOffset` is one `fetch_watermarks`; `Query` one query of the
snapshot, which is what the database has then; `InsertRow` one turn of the loop
over its rows; `Assign` the assignment. Writes, publications and crashes fall
between any two of them. `Write` and `Publish` stand for siscom-admin-api,
which is not in this repository; of it the model assumes that a message carries
the whole row, that messages leave in commit order, and that the messages of one
row go to one partition. Any end of the process is `Crash`. A failed startup is a
crash; only the one that finds no topic is left out. The SNS worker's own `UPDATE`
and removal (`main.rs:275-287`), which no message follows, are not in
`ControlPlaneSync`: its properties are about what siscom-admin-api writes.
`SnsDelivery` has them, in any order with the messages about the device, and
`CacheFollowsRows` says what is left of exactness there.

*Health.* The three atomics are stored together, because each arm of the loop
writes them without an await in between. Messages are counted, not looked into: a
skipped one moves the offsets like an applied one. A fault is a broker out of
reach or READ taken away: `fetch_metadata` and `fetch_watermarks` need no READ, so
the probe succeeds under the second. Messages that librdkafka fetched before the
fault still come out of the stream, in any number, and an error may come out once
or more, while the fault lasts or after. Time passes in units; `Ask` is one
`fetch_watermarks`, each of which may block for up to `ProbeTimeout`; the first that
fails ends the probe, as `lag()` does. Ticks that were missed are owed, as tokio's
default `Burst` has it, up to `MaxOwed`.

*Alerts.* A message is what `process_message` tells apart: an alert, an alert of
no unit, one that does not parse, an empty one. The two calls of `join!` end in
any order. A commit is a request to the broker that may arrive late or never; a
rebalance or a start goes on from what the broker has, and it refuses the
requests of the generation before. `handed` is a history of what each dispatcher
was given.

*Main.* Every step of `MainLoop` is a step of one consumer, or of both (start and
end of the process), the other left alone. What makes it more than the two is
`Polled`: while a probe blocks the thread nothing else is polled; and `Reachable`:
the two share the broker. The HTTP server, the third branch, has no state of its
own here; its connections are tasks of the runtime.

*Handshake.* `Handshake`, `Unauthorized` and `Forbidden` are the three answers of
`ws_handler`: the token is looked at once, then the units of the person in the
organization. A token is what the checks tell apart, the signature a flag of it.
`allowed` stands for the read model, by membership; `ChangePermission` is the
environment, which changes it at any time.

*WebSocket.* `task[c]` is the await point at which `handle_socket` is. A write
(`writing`) may take for ever: `Written` has no fairness. The senders cloned by
`senders_for_unit` are `targets`; the lock is released before the first
`try_send`, so registration, removal and the end of the receiver interleave with
it. `try_send` finds the receiver closed only once the task returned. The reason
a loop ends is not told apart in `WebSocketAlerts`; `WsHeartbeat` has the clock.
Both a period of 0 and a capacity of 0 pass `AppConfig::from_env`, and `Open`
says what they do.

*Heartbeat.* Time passes in units, when the loop has nothing ready or awaits a
write. `MissedTickBehavior::Delay` is the reset of `due` at the tick that was
taken. A peer that stops reading does so for good.

*SNS.* The broadcast channel keeps `Capacity` items and overwrites the oldest
(the code asks for 1000, which tokio rounds up to 1024); `missed` counts what the
worker will be told it lost. A batch may end with items left in the channel: the
deadline is only one of the things `timeout_at` looks at. Each delivery of a
batch is a task with three await points: publish, `UPDATE`, `deactivate_device`.
The platform check of the dispatcher leaves a device without a push; it compares
a platform with the service an endpoint names. `client.rs:112-118` takes an
`InvalidParameter` for a dead endpoint when the text of the error names the
endpoint; the model assumes that SNS sends such a text only of an endpoint that is
dead (`Answers`), which is a promise of the service and not of this code. `Register` is the whole of what
siscom-admin-api does to the row of a device; its message goes to `stream` and
through `ApplyEvent` of `ControlPlaneEvents`, like in `ControlPlaneCache`. The
reporter takes the counters one after the other (`TakeCounter`), with everybody
else in between.

## 3. Runs

| Run | Module | Shows | Bounds |
|---|---|---|---|
| `cache_rule` | `MCControlPlaneCache` | the cache implements `AccessRule`; both queries are the same relation; the indexes agree; `unit_org` outlives the moves of equipment | 2 organizations with a unit each, 1 person, 3 pieces of equipment, 1 device |
| `cache_people` | `MCControlPlaneCache` | one holder per device; incomplete messages and deletions never widen access | 2 people, 1 device with 2 endpoints, 1 unit with 1 piece of equipment |
| `cache_transfer` | `MCControlPlaneCache` | **violated**: owners lose a unit after a transfer | 2 organizations, 1 unit, 2 pieces of equipment |
| `sync` | `MCControlPlaneSync` | every settled row is exact; a caught-up cache is what a new process would load; row by row the cache implements `RowReplica`; the process converges | 3 writes out of 12, 2 partitions, 1 crash, 2 people |
| `sync_replay` | `MCControlPlaneHistory` | **violated**: a replayed grant authorizes for a while somebody who never was | 4 writes, 1 partition |
| `main_loop` | `MCMainLoop` | outages show in `/health` and pass, the lag settles on what is unread and is never a guess, probes keep up where they fit their interval; commits cover only what both dispatchers were given and never go back, and every alert is handed over | control topic of 2 partitions, one added later, 1 message each, probe every 2 units with a timeout of 1, 1 fault; alerts topic of one malformed message, one alert and one alert of no unit, 1 crash or rebalance |
| `ws_flow` | `MCWebSocketAlerts` | registry, no orphan, order, no loss with room, dispatches end, connections that left are forgotten | 2 connections of one person and 1 that is refused, 2 units, 2 alerts, channels of 1, 1 change of permission |
| `ws_revoked` | `MCWebSocketAlerts` | **violated**: an open connection keeps the units of its handshake | 1 alert, 1 change |
| `ws_heartbeat` | `MCWsHeartbeat` | silent peers are closed in time, living ones kept | interval 3, timeout 8, round trip up to 4 |
| `ws_stalled` | `MCWsHeartbeat` | **violated**: a peer that stops reading is never closed | interval 2, timeout 4 |
| `sns` | `MCSnsDelivery` | every push is accounted for once, in a counter or in a report; only dead endpoints cost a device; a device in the cache is where its row says; the worker drains its backlog | 2 people, 1 device, 2 endpoints, 2 alerts, channel of 1, batches of 2, 1 retry, 1 write from outside, 1 report |
| `sns_reactivated` | `MCSnsDelivery` | **violated**: an old push deactivates a device registered again | 1 device, 2 endpoints, 1 alert, 1 write |

Why these bounds are enough to be worth having.

- *Read model.* Its operations touch one person, one unit, one organization, one
  piece of equipment and one device. Three pieces let a unit keep one while
  another leaves and a third arrives; two units let equipment move; two people
  let a device change hands. Messages are unbounded: these runs cover every
  sequence of them.
- *Startup.* Three writes with a crash let a row be written before, between and
  after the queries, on the partition of another row and on the other one. The
  replay needs four: a member, equipment, and a grant that comes and goes.
- *Main.* Two partitions let the watermarks be asked at different moments and let
  one be added after the start; one message in each lets the lag be of either.
  With a timeout of one unit and two units between ticks, the probe of one
  partition fits, and that of two, when both answer slowly, lasts until the next
  tick: probes follow each other with no time in between. Ticks that pile up
  further are not reached (`MaxOwed` is never met). An alert behind a message that
  does not parse, and another message to commit behind it, with a crash or
  rebalance at any point, meet every order of handing over, committing and
  resuming. Two failures or another alert multiply the states without a new
  case; that the safety properties hold for every topic and any number of
  failures is proved.
- *WebSocket.* Two connections are one that is slow beside one that is not, one
  named by `sub` and one by `user_id`; the change of permission leaves one
  subscribed to both units and the other to one of them. The third is refused for
  its token, and either may be refused for want of units. With a channel of one,
  the second alert meets room, a full channel and a closed one.
- *Heartbeat.* The round trip exceeds the interval, so that two Pings are under
  way; the timeout leaves more than one interval. Time saturates, so the run
  covers every length of connection. `LivingPeerIsKept` asks that the round trip
  is shorter than what the timeout leaves after one interval: 4 < 8 - 3.
- *SNS.* An alert reaches two people, and a device that changes hands between
  the two lookups is pushed to for both, so one alert may queue two items and two
  alerts three: a channel of one overflows while the batch is collected or
  delivered, and meets the lagged receiver after it. One retry makes the retry and
  its limit happen; one report falls between any two counts.

Deadlock is checked where the system never stops (the read model). The other
models stop at their bounds, and a crashed or closed one may stop for good.

### Findings

The violated runs each state what a document or comment of the repository says;
`PROJECT.json` quotes it.

1. `cache_transfer`: `unassign_device` drops the organization of a unit when the
   last equipment of *one* organization leaves, although equipment of another is
   still there.
2. `sync_replay`: replaying messages older than the snapshot is harmless for the
   final state, not on the way: the cache goes through states the database never
   had.
3. `ws_revoked`: an open connection keeps the units it had at its handshake.
4. `ws_stalled`: the heartbeat is not polled while a write is awaited, so the peer
   it is meant to find, one that hangs, holds its connection.
5. `sns_reactivated`: the deactivation of an endpoint names the device by id only:
   a push to the old endpoint takes away the device that was registered again
   meanwhile.

More are in the models, or were seen while writing them, and have no run:

- `WS_CHANNEL_CAPACITY=0` passes the configuration and panics each connection
  (`Open`).
- A deactivation that crosses an UPSERT of the same device leaves database and
  cache apart until the next push or restart (`MarkInactive`, `RemoveFromCache`,
  `ConsumeDevice`).
- With READ on the control topic taken away, the probe still succeeds and
  `/health` answers 200; only the lag grows (`LagSettles` states as much as holds).
- From six partitions on, a probe that every partition answers just within its
  5 s outlasts its interval of 30 s, and the missed ticks are made up for one right
  after the other (one that fails ends at the first error,
  `control_plane.rs:403-405`, and takes 5 s). `ProbesKeepUp` says what holds where
  the probes fit their interval, `EveryAlertHanded` what holds where they do not.
- A partition added to the control topic after the start is neither read nor
  counted in the lag. `LagSettles` is about the partitions listed at the start, like
  the code, and no property would notice the one left out.
- `README.md` shows how to mint test tokens without `exp`, which `JwtClaims` and
  the validation require: such a token is answered with 401 (`Decodes`).
- A claim `user_id` that is no UUID hides a valid `sub` (`ClaimedUser`).
- An alert's offset is committed once its pushes are queued in memory: a crash
  loses the queue.

### Fairness

`ControlPlaneSync!FairSpec`: the source publishes what it committed (a promise
of siscom-admin-api), and the runtime goes on with a startup and with the
messages of each partition, which `select!` and librdkafka serve in turn. Writes
and crashes have none. `WebSocketAlerts!FairSpec`: the dispatcher, which nothing
makes wait, and a task that has left its loop; no write ever has to return, no
alert to come. `MainLoop!FairSpec`: a process that ended is started again; time
passes, and a call of the probe ends at its timeout at the latest (weak fairness
of `Prepare`, `Run`, `Probing`, `Pass`); the branches of `select!` are taken in
random order, so one that is ready again and again is taken although every probe
interrupts it (strong fairness of `Process` and, while the broker is in reach,
of `Receive` for each partition). Faults and crashes need not end, and no commit
has to arrive. `SnsDelivery!FairSpec`: dispatcher and worker; here a call to SNS
or the database must come back, with an answer or an error. The SDK is used
without an operation timeout, so this is an assumption about the network, not
about the code.

## 4. Proofs

For all values of the constants under the assumptions below: all sets of
organizations, people, units, equipment, devices and endpoints, all sequences of
messages, all topics, capacities and periods.

| Theorem | Module | States |
|---|---|---|
| `TypeCorrect` | `ControlPlaneCacheProofs` | `Spec => []TypeOK` |
| `IndexesCorrect` | `ControlPlaneCacheProofs` | `Spec => []IndexesAgree` |
| `DevicesHaveOneHolder` | `ControlPlaneCacheProofs` | `Spec => []OneHolderPerDevice` |
| `DefaultsAreClosed` | `ControlPlaneCacheProofs` | `Spec => []NeverWidens` |
| `OrgOutlivesMoves` | `ControlPlaneCacheProofs` | `Spec => []EquippedUnitHasItsOrg` |
| `QueriesAgree` | `ControlPlaneCacheProofs` | `AtMostOneOrg => (Spec => []SameRule)` |
| `CacheImplementsRule` | `ControlPlaneCacheProofs` | `AtMostOneOrg => (Spec => ImplementsRule)` |
| `SyncTypes` | `ControlPlaneSyncProofs` | `Spec => []TypeOK` |
| `SettledRowsAreExact` | `ControlPlaneSyncProofs` | `Spec => []SettledRowsExact` |
| `CaughtUpCacheIsExact` | `ControlPlaneSyncProofs` | `AtMostOneOrg => (Spec => []CaughtUpIsExact)` |
| `SyncImplementsReplica` | `ControlPlaneSyncProofs` | `Spec => ImplementsReplica` |
| `MainLoopTypes` | `MainLoopProofs` | `Spec => []TypeOK` |
| `ProbesInTime` | `MainLoopProofs` | `Spec => []ProbesKeepUp` |
| `LagIsNoGuess` | `MainLoopProofs` | `Spec => LagIsBracketed` |
| `CommitsAreEarned` | `MainLoopProofs` | `Spec => []CommittedWasHanded` |
| `CommitsAreParsed` | `MainLoopProofs` | `Spec => []CommitFollowsParse` |
| `CommitsAreFinal` | `MainLoopProofs` | `Spec => CommittedIsFinal` |
| `WebSocketTypes` | `WebSocketAlertsProofs` | `Spec => []TypeOK` |
| `RegistryStaysIndexed` | `WebSocketAlertsProofs` | `Spec => []RegistryIndexed` |
| `EveryEntryHasItsTask` | `WebSocketAlertsProofs` | `HeartbeatInterval > 0 => (Spec => []NoOrphan)` |
| `FlowStaysInOrder` | `WebSocketAlertsProofs` | `Spec => []FlowsInOrder` |
| `RoomLosesNothing` | `WebSocketAlertsProofs` | `Spec => []NothingLostWithRoom` |
| `HeartbeatTypes` | `WsHeartbeatProofs` | `Spec => []TypeOK` |
| `SilentPeersAreClosed` | `WsHeartbeatProofs` | `Spec => []SilentPeerIsClosed` |
| `LivingPeersAreKept` | `WsHeartbeatProofs` | `Spec => []LivingPeerIsKept` |
| `DeliveryTypes` | `SnsDeliveryProofs` | `Spec => []TypeOK` |
| `CountsAddUp` | `SnsDeliveryProofs` | `Spec => []CountersAddUp` |
| `OnlyTheDeadAreRemoved` | `SnsDeliveryProofs` | `Spec => OnlyDeadEndpointsRemoved` |
| `DevicesFollowRows` | `SnsDeliveryProofs` | `Spec => []CacheFollowsRows` |

Assumptions. The sentinels are not values (`None` and `NoArn` in
`StateAssumption`, `EventsAssumption` and `SyncAssumption`, `None` and `NotUuid`
in `WsAssumption`, `None` in `HealthAssumption` and `AlertsAssumption`);
equipment, devices and partitions are finite, so that they can be counted;
messages name organizations for units. The snapshot that `SnsDelivery` starts
from has each device once, as a table with a primary key does, and `None` is no
person and no endpoint (`SnsAssumption`). Timeouts exceed intervals where the
configuration checks it (`HeartbeatAssumption`). `AtMostOneOrg` says that no unit changes
organization. Without it the three theorems that name it are false: `unit_org`
then depends on the order of the messages, which is what `cache_transfer` shows.
`HeartbeatInterval > 0` is needed because `tokio::time::interval` panics on 0,
after the connection was registered, and `AppConfig::from_env` lets a 0 pass.

*Indexes.* `IndexesAgree` is inductive together with `TypeOK`, which gives each
map its range, so that every update stays a function of the right type. The proof
is by cases on the operations, each in a lemma about one `State`: operations on
people leave equipment and grants alone (`PeopleIndexes`, `UserDeviceFrame`); the
grant operations update `user_units` and `unit_users` together
(`UserUnitIndexes`); removing a piece of equipment takes one element out of the
set the counter counts (`UnassignEquipment`, `CountedEquipment`,
`UnassignIndexes`); adding one puts one in that was not there, because the
operation unassigned it first (`AssignIndexes`, `UnassignFrees`). `UpsertIndexes`
and `DeleteIndexes` put them together for a message.

*Devices.* `OneHolder` is inductive by itself: a device is added only after it
was taken from whoever held it (`DeactivateHolders`, `UserDeviceHolders`).

*Devices and their rows.* `CacheFollowsRows` compares the cache with the database
while the worker removes from both without a message. Its invariant is
`RowsFollowed`, for each device: the last of its messages still to come is of the
person and endpoint its row has, and if none is to come, neither has the cache
anything else. A registration adds such a message (`RegisterKeepsRows`), the
worker's `UPDATE` leaves person and endpoint of the row alone (`MarkKeepsRows`),
its removal only takes away (`RemoveKeepsRows`), and a message files the device as
it carries it (`ApplyMessage`, `ConsumeKeepsRows`). Whether the cache has the device
at all is not promised: a message on its way when the device was deactivated puts
it back.

*Defaults.* `NeverWidens` compares the answers before and after one message that
leaves something out; it holds of every `State`, reachable or not, so its proof
is one case per entity, from the default the message falls back on.

*The rule.* `EquippedUnitHasItsOrg` is not inductive alone: that `unit_org` is
dropped with the last piece of equipment needs the counters to be exact. The
invariant is `Inv == TypeOK /\ IndexInv(cp) /\ OrgsGiven(cp) /\ OrgKnown(cp)`:
with one organization per unit, a count of 1 means that the piece that leaves is
the only one (`UnassignKeepsRule`), and a new one agrees with those already there
(`AssignKeepsRule`). Under it the four indexes say the same of a unit
(`OrgIffEquipped`, `GrantIffListed`), so each query, computed from its own, is
the documented rule on the facts (`RecipientsByRule`, `SubscriptionsByRule`).
`QueriesAgree` follows, and so does the refinement: every message changes at most
one fact (`EventStep`) and the answers follow the rule before and after
(`AnswersByRule`, `RuleNext`).

*Startup.* A row is settled when no message about it is unpublished or unread.
`SettledRowsExact` says nothing of a row that is not, so the invariant `SyncInv`
says where the newest version of a row is meanwhile: in the outbox, else last in
its partition (`Newest`), which is the row's own (`Published`); and, for a settled
row, in the cache already or still among the rows of the query under way
(`Rebuilt`). The step that matters is a message consumed: it leaves every other
row alone, and if it is the last about its row it carries what the database has
(`EntryAfter`). The offsets were noted first, so a write after its row was
queried is always unread.

*The replica.* `RowReplica` promises three things of a row: it holds something it
once was; it moves only while news of it are under way, and no other row moves in
that step; the last of the news leaves the truth. It promises nothing of two rows
together, and that is all there is: `sync_replay` shows what a reader of two rows
may see. In the refinement a committed write is `Update`, a publication and the
whole startup are nothing (nobody is served yet), the assignment is `Serve`, a
message consumed is `Hear` of its row, and a crash of a running process is `Stop`.
To `SyncInv` the proof adds `Known`: what is in the database, in the rows of a
query and in each entry of the cache was committed once. `SettledRowsExact` of
the state after the step gives the truth of the rows that are not stale.

*The whole cache.* `CaughtUpIsExact` compares two states, indexes included. A
state in order (`Sound`: types, indexes, organizations, devices) is determined by
its entries (`SameState`): each index is a function of the maps it derives from
(`SameIndexes`), and each device is filed under the user it names
(`SameDevices`). What is left is that both have the same entries. The cache has
them by `SettledRowsExact`, with nothing unread, and holds entries of no other
rows (`Only`). `View` has them because each of its five folds leaves, for a row
it inserts, the row's content and every other entry alone (`InsertedRows`), and a
row that no view shows has nothing to be known (`HiddenIsAbsent`).

*Alerts.* `CommittedWasHanded` needs all of `AlertsInv`: requests under way are as
good as committed (`CommitsEarned`), everything behind the position was handed
over but for the message at hand (`ReadWasHanded`), no commit is ahead of the
process (`CommitsBehind`), which makes a restart go back and never forward, and
the message at hand is the last one read (`CurrentIsLast`). That commits only go
forward (`CommittedIsFinal`) needs that those under way lie ahead of what is
committed and in the order of their messages (`CommitsOrdered`): the broker takes
them in the order one connection sent them, and a rebalance or a restart, which
goes back, drops those of the generation before.

*Probes.* Nothing in the code sees to it that the timeouts of all partitions fit
between two ticks; `ProbesKeepUp` is about the runs in which they do (`ProbesFit`,
of the partitions listed at the start, which do not change while it runs:
`SameFit`). A tick that is served at once starts a probe at the very beginning of
an interval; from then on `ProbeInterval - due`, the time since, is at most what
the partitions asked and the one being asked may have taken (`ClockInv`), and all
partitions but one plus one timeout are less than the interval (`AskedFit`).

*Lag.* A probe adds up one partition at a time while messages arrive. `LagInv`
brackets the sum on its way: it is no more than what waits now in the partitions
asked, and with what waits in those still to ask it is no less than what waited
when the probe began. Each step moves one partition from one sum to the other, or
lets what waits grow, so the proof is about sums over sets (`SumRemove`,
`SumMonotone`).

*Main.* Each step of `MainLoop` is a step of `ControlPlaneHealth` or leaves its
variables alone, and the same of `AlertConsumer`; `MainInv` is the invariant of
the one and of the other, which each step keeps.

*Registry.* `RegistryIndexed` is inductive together with the types, by what
adding and removing a connection does to the two indexes: an id is listed under
exactly the keys it was registered with, once, so removing it from those lists
removes it from all, and removing it again changes nothing. `NoOrphan` then
needs a case for every way a task ends.

*Flow.* An alert on its way to a peer is received, in the hands of the task, or in
the channel; `Flow` is the three in a row. The invariant (`ConnectionInv`) says of
each connection that a registered one has the units of its handshake, that all
that flows was owed, rises in number, and is older than the alert the dispatcher
has still to try, so one more at the end keeps the order; and that a connection
in its loop whose channel never was the limit misses at most that one alert.

*Heartbeat.* For silent peers: the next look at `last_pong` comes before it is an
interval too old (`LookIsNear`). For living ones: `last_pong` ages at most an
interval before the next Ping leaves, then as long as the oldest Ping under way,
and no further once its Pong waits (`LastPongIsRecent`); `Kept` adds that the
loop is not closing. The bound on what is under way in `TypeOK` is no matter of
types: it holds because Pings leave an interval apart (`PingsAreSpaced`), so that
no more are younger than a round trip than intervals fit into it (`SpacedFit`).

*Counters.* That a push is counted once needs that two deliveries of the same
push cannot be taken for one, in a set of deliveries. Items carry the number they
were queued with, and numbers rise from the batch to the channel (`Serial`). Under
it the queued items are those overwritten, waiting, in a batch or in delivery,
plus those counted: two sums (`Balanced`) that every step keeps, the reporter's
included, since what it takes out of a counter it adds to what it logged.

*Removals.* A delivery past its publication is about an endpoint that died
(`Blamed`), and dead endpoints stay dead (`DeadStay`).

Only model-checked: liveness, that is `Converges`, `DispatchEnds`,
`LeftIsForgotten`, `OutageShows`, `Recovers`, `LagSettles`, `EveryAlertHanded` and
`Drains`; fairness and ENABLED are out of the prover's reach. Every other property
of a passing run has its theorem.

The library states induction with an operator for a parameter, which none of the
provers can instantiate. `RecursionFacts` states what is needed of it for sets and
functions: a set of numbers, or of subsets of a finite set, closed under one more,
is all of them, from the well-foundedness of `<`; and a function that recurses
over the subsets of a finite set exists. With that the folds of the community
modules can be unfolded one element at a time (`SumUnfolds`,
`InsertRowsUnfolds`, `ViewUnfolds`). `ConnectionRegistry` takes ids out of a list
with a recursive function for the same reason.

## 5. Not modelled

- Texts: `models/alert_event.rs`, the payloads of SNS and of the WebSocket. They
  are wording, no state. That a message parses, and that its `unit_id` is a UUID,
  are outcomes of the model.
- `config/mod.rs`: it reads the environment once. What it checks, and what it does
  not, are the assumptions on the constants.
- `db/postgres.rs`, `errors/mod.rs`, `logging/mod.rs`: wrappers of libraries. An
  error of the pool is an error of the query.
- The numbers `/health` and the log print (`counts`, `connection_count`,
  `connections_for_user`): read, never used.

## 6. Plan

Every component with state is modelled. What could be added:

1. Handshakes against the read model itself: `WebSocketAlerts` over
   `ControlPlaneCache` in the place of `allowed`, and the alerts of
   `AlertConsumer` in the place of those it takes from nowhere.
2. An abstract specification of a connection, a queue that may drop its newest
   entries and keeps the order of the rest, that each connection of
   `WebSocketAlerts` implements.
