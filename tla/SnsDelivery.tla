------------------------------ MODULE SnsDelivery ------------------------------
(***************************************************************************)
(* Push messages: `SnsDispatcher::dispatch_event` of src/sns/dispatcher.rs *)
(* resolves the devices of an alert against the ControlPlaneCache, the     *)
(* `SnsBroadcaster` of src/sns/publisher.rs queues one item per device,    *)
(* and `sns_worker_task` of src/main.rs takes them in batches, publishes   *)
(* them with retries (src/sns/client.rs), and deactivates the devices      *)
(* whose endpoint proved invalid.  Each counts what it does in SnsMetrics, *)
(* and the reporter of src/sns/metrics.rs empties the counters every       *)
(* minute.                                                                 *)
(*                                                                         *)
(* Meanwhile people open the app, on the device they registered or on one  *)
(* that changed hands or endpoint: siscom-admin-api updates the row of the *)
(* device and its message reaches the cache later.  Endpoints die.         *)
(*                                                                         *)
(* SNS is enabled: without its worker the queue has no receiver and takes  *)
(* nothing.  All alerts are of one unit.                                   *)
(***************************************************************************)
EXTENDS ControlPlaneEvents, Sequences, SequencesExt

CONSTANTS
  Snapshot,      \* the cache at startup, a State
  PlatformOf,    \* [DeviceId -> platform]
  ChannelOf,     \* [Arn -> EndpointChannel]: the kind named in the endpoint
  Capacity,      \* items the broadcast channel keeps
  BatchSize,     \* items of a batch, 256 in the code
  MaxRetries,    \* SNS_MAX_RETRIES
  MaxAlerts,     \* bound on dispatched alerts
  MaxRegisters,  \* bound on writes to the device rows from outside
  MaxReports     \* bound on windows of the metrics reporter

Devices(s) == UNION {s.user_devices[u] : u \in User}

(***************************************************************************)
(* Every device has a row, so it is in the snapshot; endpoints are of one  *)
(* device each.  The snapshot was loaded with upsert_user_device, and can  *)
(* be counted.                                                             *)
(***************************************************************************)
ASSUME SnsAssumption ==
  /\ Snapshot \in State /\ OneHolder(Snapshot)
  /\ None \notin User \cup Arn
  /\ IsFiniteSet(UserDevice)
  /\ {d.id : d \in Devices(Snapshot)} = DeviceId
  /\ PlatformOf \in [DeviceId -> {"android", "ios", "other"}]
  /\ ChannelOf \in [Arn -> {"Gcm", "Apns", "ApnsSandbox", "Unknown"}]
  /\ Capacity \in Nat \ {0} /\ BatchSize \in Nat \ {0, 1}
  /\ MaxRetries \in Nat /\ MaxAlerts \in Nat /\ MaxRegisters \in Nat /\ MaxReports \in Nat

VARIABLES
  cp,          \* the ControlPlaneCache
  rows,        \* user_devices in the database: id -> row
  registered,  \* history: id -> the row as the app last left it
  stream,      \* messages about devices that the cache has not applied
  dead,        \* endpoints that SNS answers are invalid
  alerts,      \* alerts dispatched
  registers,   \* writes from outside
  lookup,      \* users whose devices the current alert still needs
  targets,     \* devices resolved for it and not queued yet
  channel,     \* items in the broadcast channel, as the worker sees it
  missed,      \* items overwritten before the worker took them
  phase,       \* the worker: "waiting", "collecting", "delivering"
  batch,       \* items collected
  deliveries,  \* tasks of the batch that have not finished
  metrics,     \* SnsMetrics: counter -> its value since it was last reset
  logged,      \* counter -> the sum of what the reporter logged of it
  reporting,   \* counters the reporter has still to take for this window
  reports      \* windows begun

outside    == <<rows, registered, stream, dead, registers>>
dispatcher == <<alerts, lookup, targets>>
worker     == <<phase, batch, deliveries>>
queue      == <<channel, missed>>
reporter   == <<logged, reporting, reports>>
vars       == <<cp, outside, dispatcher, queue, worker, metrics, reporter>>

\* In the order the reporter takes them.
Counters == <<"resolved", "enqueued", "lagged", "published", "failed">>
Counts   == [ToSet(Counters) -> Nat]

Item     == [n : Nat, device : UserDevice]
Delivery == [item : Item, tries : 0..MaxRetries, pc : {"publishing", "marking", "removing"}]

\* The message of a row carries all of it.
Message(d) == [event_type |-> "UPSERT", entity |-> "user_device",
               schema_version |-> SCHEMA_VERSION, data |-> d]
Messages   == [event_type : {"UPSERT"}, entity : {"user_device"},
               schema_version : {SCHEMA_VERSION}, data : UserDevice]

TypeOK ==
  /\ cp \in State
  /\ rows \in [DeviceId -> UserDevice] /\ registered \in [DeviceId -> UserDevice]
  /\ stream \in Seq(Messages)
  /\ dead \subseteq Arn
  /\ alerts \in 0..MaxAlerts /\ registers \in 0..MaxRegisters
  /\ lookup \subseteq User
  /\ targets \in Seq(UserDevice)
  /\ channel \in Seq(Item) /\ Len(channel) <= Capacity
  /\ missed \in Nat
  /\ phase \in {"waiting", "collecting", "delivering"}
  /\ batch \in Seq(Item) /\ Len(batch) <= BatchSize
  /\ deliveries \subseteq Delivery
  /\ metrics \in Counts /\ logged \in Counts
  /\ reporting \in Seq(ToSet(Counters)) /\ reports \in 0..MaxReports

RowAt(id) == CHOOSE d \in Devices(Snapshot) : d.id = id

Init ==
  /\ cp = Snapshot
  /\ rows = [id \in DeviceId |-> RowAt(id)] /\ registered = rows
  /\ stream = <<>> /\ dead = {} /\ registers = 0
  /\ alerts = 0 /\ lookup = {} /\ targets = <<>>
  /\ channel = <<>> /\ missed = 0
  /\ phase = "waiting" /\ batch = <<>> /\ deliveries = {}
  /\ metrics = [m \in ToSet(Counters) |-> 0] /\ logged = metrics
  /\ reporting = <<>> /\ reports = 0

Count(m, k) == metrics' = [metrics EXCEPT ![m] = @ + k]
Total(m)    == metrics[m] + logged[m]

-----------------------------------------------------------------------------
(* The outside *)

\* admin-api writes the row of a device and publishes it.
Register(id) ==
  /\ registers < MaxRegisters
  /\ registers' = registers + 1
  /\ \E d \in UserDevice :
       /\ d.id = id
       /\ d.endpoint_arn \in Arn \ dead
       /\ \A e \in DeviceId \ {id} : rows[e].endpoint_arn # d.endpoint_arn
       /\ rows' = [rows EXCEPT ![id] = d]
       /\ registered' = [registered EXCEPT ![id] = d]
       /\ stream' = Append(stream, Message(d))
  /\ UNCHANGED <<cp, dead, dispatcher, queue, worker, metrics, reporter>>

EndpointDies(a) ==
  /\ dead' = dead \cup {a}
  /\ UNCHANGED <<cp, rows, registered, stream, registers, dispatcher, queue, worker,
                 metrics, reporter>>

\* The control-plane consumer applies the next message.
ConsumeDevice ==
  /\ stream # <<>>
  /\ cp' = ApplyEvent(cp, Head(stream))
  /\ stream' = Tail(stream)
  /\ UNCHANGED <<rows, registered, dead, registers, dispatcher, queue, worker,
                 metrics, reporter>>

-----------------------------------------------------------------------------
(* The dispatcher *)

Idle == lookup = {} /\ targets = <<>>

\* users_for_unit, under one lock
Dispatch(x) ==
  /\ Idle
  /\ alerts < MaxAlerts
  /\ alerts' = alerts + 1
  /\ lookup' = {m[2] : m \in UsersForUnit(cp, x)}
  /\ UNCHANGED <<cp, outside, targets, queue, worker, metrics, reporter>>

\* endpoint_is_supported_for_platform, of a device that has an endpoint
EndpointIsSupported(d) ==
  /\ d.endpoint_arn # NoArn
  /\ \/ PlatformOf[d.id] = "android" /\ ChannelOf[d.endpoint_arn] = "Gcm"
     \/ PlatformOf[d.id] = "ios" /\ ChannelOf[d.endpoint_arn] # "Unknown"

\* devices_for, under another lock for each user
LookUp(u) ==
  /\ u \in lookup
  /\ lookup' = lookup \ {u}
  /\ LET found == {d \in DevicesFor(cp, u) : d.is_active /\ EndpointIsSupported(d)}
     IN /\ targets' = targets \o SetToSeq(found)
        /\ Count("resolved", Cardinality(found))
  /\ UNCHANGED <<cp, outside, alerts, queue, worker, reporter>>

\* Mutation: a full channel refuses the item and it is not counted.
Enqueue_Refuses ==
  /\ lookup = {} /\ targets # <<>>
  /\ targets' = Tail(targets)
  /\ LET item == [n |-> Total("enqueued") + 1, device |-> Head(targets)]
     IN channel' = IF Len(channel) < Capacity THEN Append(channel, item) ELSE channel
  /\ Count("enqueued", 1)
  /\ UNCHANGED <<cp, outside, alerts, lookup, missed, worker, reporter>>

\* Mutation: the channel grows.
Enqueue_Unbounded ==
  /\ lookup = {} /\ targets # <<>>
  /\ targets' = Tail(targets)
  /\ channel' = Append(channel, [n |-> Total("enqueued") + 1, device |-> Head(targets)])
  /\ Count("enqueued", 1)
  /\ UNCHANGED <<cp, outside, alerts, lookup, missed, worker, reporter>>

\* broadcast send: a full channel overwrites its oldest item
Enqueue ==
  /\ lookup = {} /\ targets # <<>>
  /\ targets' = Tail(targets)
  /\ LET item == [n |-> Total("enqueued") + 1, device |-> Head(targets)]
     IN \/ /\ Len(channel) < Capacity
           /\ channel' = Append(channel, item)
           /\ UNCHANGED missed
        \/ /\ Len(channel) = Capacity
           /\ channel' = Append(Tail(channel), item)
           /\ missed' = missed + 1
  /\ Count("enqueued", 1)
  /\ UNCHANGED <<cp, outside, alerts, lookup, worker, reporter>>

-----------------------------------------------------------------------------
(* The worker *)

Deliver(items) ==
  /\ phase' = "delivering"
  /\ batch' = <<>>
  /\ deliveries' = {[item |-> items[k], tries |-> 0, pc |-> "publishing"] : k \in 1..Len(items)}

\* Lagged(skipped): counted, and the receiver goes on with what is left
ReceiveLag ==
  /\ phase \in {"waiting", "collecting"}
  /\ missed > 0
  /\ missed' = 0
  /\ Count("lagged", missed)
  /\ UNCHANGED <<cp, outside, dispatcher, channel, worker, reporter>>

\* The first item, then further ones until the batch is full.
Receive ==
  /\ phase \in {"waiting", "collecting"}
  /\ missed = 0 /\ channel # <<>>
  /\ channel' = Tail(channel)
  /\ LET items == Append(batch, Head(channel))
     IN IF phase = "collecting" /\ Len(items) >= BatchSize
        THEN Deliver(items)
        ELSE phase' = "collecting" /\ batch' = items /\ UNCHANGED deliveries
  /\ UNCHANGED <<cp, outside, dispatcher, missed, metrics, reporter>>

\* The deadline of the batch
BatchTimeout ==
  /\ phase = "collecting"
  /\ Deliver(batch)
  /\ UNCHANGED <<cp, outside, dispatcher, queue, metrics, reporter>>

BatchDone ==
  /\ phase = "delivering" /\ deliveries = {}
  /\ phase' = "waiting"
  /\ UNCHANGED <<cp, outside, dispatcher, queue, batch, deliveries, metrics, reporter>>

-----------------------------------------------------------------------------
(* One delivery *)

Invalid == {"EndpointDisabled", "NotFound", "InvalidParameter of the endpoint"}

\* What Publish may come back with.  client.rs takes an InvalidParameter for
\* that of the endpoint when its text names an endpoint; assumed of SNS: it does
\* so only for an endpoint that is dead.
Answers(arn) ==
  {"Throttled", "InternalError", "no response", "AuthorizationError",
   "PlatformApplicationDisabled", "InvalidParameter of the message"}
  \cup IF arn \in dead THEN Invalid ELSE {"ok"}

\* Mutation: a disabled platform credential is taken for a dead endpoint.
Classify_BlamesDevice(answer) ==
  CASE answer \in Invalid \cup {"PlatformApplicationDisabled"} -> "InvalidEndpoint"
    [] answer = "AuthorizationError"            -> "AuthError"
    [] answer = "Throttled"                     -> "Throttled"
    [] answer \in {"InternalError", "no response"} -> "NetworkError"
    [] OTHER                                    -> "Unknown"

\* classify_sdk_error, classify_publish_error
Classify(answer) ==
  CASE answer \in Invalid                       -> "InvalidEndpoint"
    [] answer = "PlatformApplicationDisabled"   -> "PlatformDisabled"
    [] answer = "AuthorizationError"            -> "AuthError"
    [] answer = "Throttled"                     -> "Throttled"
    [] answer \in {"InternalError", "no response"} -> "NetworkError"
    [] OTHER                                    -> "Unknown"

IsRetryable(error) == error \in {"Throttled", "NetworkError"}

Becomes(d, e) == deliveries' = (deliveries \ {d}) \cup {e}
Finished(d)   == deliveries' = deliveries \ {d}

\* Mutation: the count of attempts starts again, and no answer is the last.
Publish_Forever(d) ==
  /\ d.pc = "publishing"
  /\ \E answer \in Answers(d.item.device.endpoint_arn) :
       LET error == Classify(answer)
       IN \/ /\ answer = "ok"
             /\ Count("published", 1) /\ Finished(d)
          \/ /\ answer # "ok" /\ IsRetryable(error)
             /\ Becomes(d, [d EXCEPT !.tries = (@ + 1) % (MaxRetries + 1)])
             /\ UNCHANGED metrics
          \/ /\ answer # "ok" /\ ~IsRetryable(error)
             /\ Count("failed", 1)
             /\ IF error = "InvalidEndpoint" THEN Becomes(d, [d EXCEPT !.pc = "marking"])
                ELSE Finished(d)
  /\ UNCHANGED <<cp, outside, dispatcher, queue, phase, batch, reporter>>

\* publish_to_endpoint, one attempt
Publish(d) ==
  /\ d.pc = "publishing"
  /\ \E answer \in Answers(d.item.device.endpoint_arn) :
       LET error == Classify(answer)
           again == IsRetryable(error) /\ d.tries < MaxRetries
       IN \/ /\ answer = "ok"
             /\ Count("published", 1) /\ Finished(d)
          \/ /\ answer # "ok" /\ again
             /\ Becomes(d, [d EXCEPT !.tries = @ + 1]) /\ UNCHANGED metrics
          \/ /\ answer # "ok" /\ ~again
             /\ Count("failed", 1)
             /\ IF error = "InvalidEndpoint" THEN Becomes(d, [d EXCEPT !.pc = "marking"])
                ELSE Finished(d)
  /\ UNCHANGED <<cp, outside, dispatcher, queue, phase, batch, reporter>>

\* Mutation: the row is saved as the worker knows it.
MarkInactive_SavesItem(d) ==
  /\ d.pc = "marking"
  /\ \/ /\ rows' = [rows EXCEPT ![d.item.device.id] = [d.item.device EXCEPT !.is_active = FALSE]]
        /\ Becomes(d, [d EXCEPT !.pc = "removing"])
     \/ Finished(d) /\ UNCHANGED rows
  /\ UNCHANGED <<cp, registered, stream, dead, registers, dispatcher, queue, phase,
                 batch, metrics, reporter>>

\* mark_device_inactive: by id, whatever the row holds now; it may fail
MarkInactive(d) ==
  /\ d.pc = "marking"
  /\ \/ /\ rows' = [rows EXCEPT ![d.item.device.id].is_active = FALSE]
        /\ Becomes(d, [d EXCEPT !.pc = "removing"])
     \/ Finished(d) /\ UNCHANGED rows
  /\ UNCHANGED <<cp, registered, stream, dead, registers, dispatcher, queue, phase,
                 batch, metrics, reporter>>

\* deactivate_device
RemoveFromCache(d) ==
  /\ d.pc = "removing"
  /\ cp' = DeactivateDevice(cp, d.item.device.id)
  /\ Finished(d)
  /\ UNCHANGED <<outside, dispatcher, queue, phase, batch, metrics, reporter>>

-----------------------------------------------------------------------------
(* run_metrics_reporter *)

\* The ticker: a window ends.
StartReport ==
  /\ reporting = <<>> /\ reports < MaxReports
  /\ reporting' = Counters
  /\ reports' = reports + 1
  /\ UNCHANGED <<cp, outside, dispatcher, queue, worker, metrics, logged>>

\* Mutation: the counters are read one by one and reset together.
TakeCounter_ResetsLate ==
  /\ reporting # <<>>
  /\ LET m == Head(reporting)
     IN /\ logged' = [logged EXCEPT ![m] = @ + metrics[m]]
        /\ metrics' = IF Tail(reporting) = <<>> THEN [c \in ToSet(Counters) |-> 0] ELSE metrics
  /\ reporting' = Tail(reporting)
  /\ UNCHANGED <<cp, outside, dispatcher, queue, worker, reports>>

\* swap(0) of the next counter; the others go on counting.
TakeCounter ==
  /\ reporting # <<>>
  /\ LET m == Head(reporting)
     IN /\ logged' = [logged EXCEPT ![m] = @ + metrics[m]]
        /\ metrics' = [metrics EXCEPT ![m] = 0]
  /\ reporting' = Tail(reporting)
  /\ UNCHANGED <<cp, outside, dispatcher, queue, worker, reports>>

ProcessSnsDelivery(d) == Publish(d) \/ MarkInactive(d) \/ RemoveFromCache(d)

Worker ==
  \/ ReceiveLag \/ Receive \/ BatchTimeout \/ BatchDone
  \/ \E d \in deliveries : ProcessSnsDelivery(d)

Dispatcher == Enqueue \/ \E u \in User : LookUp(u)

Next ==
  \/ \E id \in DeviceId : Register(id)
  \/ \E a \in Arn : EndpointDies(a)
  \/ ConsumeDevice
  \/ \E x \in Unit : Dispatch(x)
  \/ Dispatcher
  \/ Worker
  \/ StartReport \/ TakeCounter

Spec == Init /\ [][Next]_vars

(***************************************************************************)
(* The runtime runs the tasks that are ready, and a call to SNS or to the  *)
(* database comes back with an answer or an error.                         *)
(***************************************************************************)
FairSpec == Spec /\ WF_vars(Worker) /\ WF_vars(Dispatcher)

-----------------------------------------------------------------------------
(* Properties *)

Publishing == {d \in deliveries : d.pc = "publishing"}

(***************************************************************************)
(* The counters of SnsMetrics add up: each resolved device is queued once, *)
(* and each queued item is overwritten and counted as lagged, or waits, or *)
(* is in the worker's hands, or was counted published or failed exactly    *)
(* once, however many attempts it took and whatever it led to; and what    *)
(* the reporter took out of a counter is in what it logged.                *)
(***************************************************************************)
CountersAddUp ==
  /\ Total("resolved") = Total("enqueued") + Len(targets)
  /\ Total("enqueued") = Total("lagged") + missed + Len(channel) + Len(batch)
                         + Cardinality(Publishing) + Total("published") + Total("failed")

(***************************************************************************)
(* The worker takes a device away from its user only on account of an      *)
(* endpoint of that device that really died: never for a credential of the *)
(* platform, a malformed message or a bad network, which would silence     *)
(* people whose devices work (docs/eventos-de-control.md, "no desactiva a  *)
(* nadie").                                                                *)
(***************************************************************************)
OnlyDeadEndpointsRemoved ==
  [][ \A u \in User : \A d \in cp.user_devices[u] \ cp'.user_devices[u] :
        \/ stream' # stream
        \/ \E e \in deliveries : /\ e.item.device.id = d.id
                                 /\ e.item.device.endpoint_arn \in dead ]_vars

(***************************************************************************)
(* Deactivations race registrations: the worker updates the row, then      *)
(* removes the device from the cache, of whoever has it by then, and       *)
(* messages written before either reach the cache after both.  Whatever    *)
(* the order, a device with no message left to apply, if the cache has it, *)
(* is under the person of its row and has the endpoint of its row: no push *)
(* goes on to someone who handed the device over, and the worker costs it  *)
(* at most its is_active.                                                  *)
(***************************************************************************)
CacheFollowsRows ==
  \A u \in User : \A d \in DevicesFor(cp, u) :
    d.id \notin {m.data.id : m \in ToSet(stream)}
      => d.user_id = u /\ rows[d.id] \in {d, [d EXCEPT !.is_active = FALSE]}

Backlog == targets # <<>> \/ missed > 0 \/ channel # <<>> \/ batch # <<>> \/ deliveries # {}

(***************************************************************************)
(* The worker always gets through what it has: retries are bounded, a      *)
(* batch that fills or times out is delivered, and lag stops nothing.      *)
(***************************************************************************)
Drains == []<>(~Backlog)

Quiet == Idle /\ ~Backlog /\ stream = <<>>

(***************************************************************************)
(* "Si el usuario vuelve a abrir la app, admin-api reactiva la fila y el   *)
(* UPSERT lo devuelve aquí" (docs/eventos-de-control.md): once everything  *)
(* is handled, a device registered last with an endpoint that works is in  *)
(* the cache.                                                              *)
(***************************************************************************)
ReactivationHolds ==
  Quiet => \A id \in DeviceId :
    registered[id].is_active /\ registered[id].endpoint_arn \notin dead
      => registered[id] \in Devices(cp)
=============================================================================
