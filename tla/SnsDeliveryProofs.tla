--------------------------- MODULE SnsDeliveryProofs ---------------------------
(***************************************************************************)
(* The safety of SnsDelivery for every cache at startup, any devices and   *)
(* endpoints, and every capacity, batch size and number of retries.        *)
(***************************************************************************)
EXTENDS SnsDelivery, ControlPlaneEventsProofs, FiniteSetTheorems, TLAPS

-----------------------------------------------------------------------------
(* Type correctness *)

\* Where the worker keeps what it has taken.
Hands ==
  /\ Len(batch) < BatchSize
  /\ phase # "collecting" => batch = <<>>
  /\ phase # "delivering" => deliveries = {}

TypeInv == TypeOK /\ Hands

LEMMA CounterNames ==
  ToSet(Counters) = {"resolved", "enqueued", "lagged", "published", "failed"}
BY DEF ToSet, Counters

LEMMA DevicesFinite ==
  ASSUME NEW s \in State, NEW u \in User
  PROVE  IsFiniteSet(DevicesFor(s, u)) /\ DevicesFor(s, u) \subseteq UserDevice
<1>1. DevicesFor(s, u) \in SUBSET UserDevice
  BY DEF DevicesFor, State
<1> QED BY <1>1, FS_Subset, SnsAssumption

\* SetToSeq lists each element of a finite set once.
LEMMA Listed ==
  ASSUME NEW S, NEW T \in SUBSET S, IsFiniteSet(T)
  PROVE  SetToSeq(T) \in Seq(S) /\ Len(SetToSeq(T)) = Cardinality(T)
<1> DEFINE n == Cardinality(T)
<1>1. n \in Nat /\ ExistsBijection(1..n, T)
  BY FS_CardinalityType
<1>2. \E f \in [1..n -> T] : IsInjective(f)
  BY <1>1, Zenon DEF ExistsBijection, Bijection, Injection, IsInjective
<1>3. SetToSeq(T) \in [1..n -> T]
  BY <1>2, Zenon DEF SetToSeq
<1> HIDE DEF n
<1>4. SetToSeq(T) \in [1..n -> S]
  BY <1>3
<1> QED BY <1>1, <1>4 DEF n

\* A message about a device files it as it is.
LEMMA ApplyMessage ==
  ASSUME NEW s \in State, NEW p \in Messages
  PROVE  p.data \in UserDevice /\ ApplyEvent(s, p) = UpsertUserDevice(s, p.data)
<1>1. /\ p.data \in UserDevice /\ p.event_type = "UPSERT" /\ p.entity = "user_device"
      /\ p.schema_version = SCHEMA_VERSION
  BY DEF Messages
<1>2. /\ DOMAIN p = {"event_type", "entity", "schema_version", "data"}
      /\ DOMAIN p.data = {"id", "user_id", "endpoint_arn", "is_active"}
  BY <1>1 DEF Messages, UserDevice
<1>3. DOMAIN Unreadable = {"unreadable"} /\ DOMAIN Broken = {"broken"}
  BY DEF Unreadable, Broken
<1>4. p # Unreadable /\ p.data # Broken
  BY <1>2, <1>3
<1>5. p.data.user_id # None
  BY <1>1, SnsAssumption DEF UserDevice
<1>6. Outcome(p) = "Yes"
  BY <1>1, <1>4, <1>5 DEF Outcome, Entity, LacksField
<1>7. /\ Default(p.data.endpoint_arn, NoArn) = p.data.endpoint_arn
      /\ Default(p.data.is_active, FALSE) = p.data.is_active
  <2>1. p.data.endpoint_arn = None => p.data.endpoint_arn = NoArn
    BY <1>1, SnsAssumption DEF UserDevice
  <2>2. p.data.is_active = None => p.data.is_active = FALSE
    BY <1>1, EventsAssumption DEF UserDevice
  <2> QED BY <2>1, <2>2 DEF Default
<1>8. p.data = [id           |-> p.data.id,
                user_id      |-> p.data.user_id,
                endpoint_arn |-> Default(p.data.endpoint_arn, NoArn),
                is_active    |-> Default(p.data.is_active, FALSE)]
  BY <1>1, <1>7 DEF UserDevice
<1>9. Upsert(s, p.entity, p.data) = UpsertUserDevice(s, p.data)
  BY <1>1, <1>8 DEF Upsert
<1> QED BY <1>1, <1>6, <1>9 DEF ApplyEvent

LEMMA InitTypes == Init => TypeInv
<1> SUFFICES ASSUME Init PROVE TypeInv
  OBVIOUS
<1>1. cp \in State
  BY SnsAssumption DEF Init
<1>2. rows \in [DeviceId -> UserDevice] /\ registered = rows
  <2>1. \A u \in User : Snapshot.user_devices[u] \subseteq UserDevice
    BY SnsAssumption DEF State
  <2>2. ASSUME NEW id \in DeviceId PROVE RowAt(id) \in UserDevice
    <3>1. PICK d \in Devices(Snapshot) : d.id = id
      BY SnsAssumption
    <3>2. RowAt(id) \in Devices(Snapshot)
      BY <3>1 DEF RowAt
    <3> QED BY <2>1, <3>2 DEF Devices
  <2> QED BY <2>2 DEF Init
<1>3. metrics \in Counts /\ logged \in Counts
  BY DEF Init, Counts
<1> QED
  BY <1>1, <1>2, <1>3, SnsAssumption DEF Init, TypeInv, TypeOK, Hands

LEMMA OutsideTypes ==
  ASSUME TypeInv,
         \/ \E id \in DeviceId : Register(id)
         \/ \E a \in Arn : EndpointDies(a)
         \/ ConsumeDevice
  PROVE  TypeInv'
<1> USE DEF TypeInv, TypeOK, Hands, dispatcher, worker, queue, reporter
<1>1. CASE \E id \in DeviceId : Register(id)
  <2>1. PICK id \in DeviceId, d \in UserDevice :
          /\ registers < MaxRegisters /\ registers' = registers + 1
          /\ rows' = [rows EXCEPT ![id] = d] /\ registered' = [registered EXCEPT ![id] = d]
          /\ stream' = Append(stream, Message(d))
          /\ UNCHANGED <<cp, dead, dispatcher, queue, worker, metrics, reporter>>
    BY <1>1 DEF Register
  <2>2. Message(d) \in Messages
    BY DEF Message, Messages
  <2>3. stream' \in Seq(Messages)
    BY <2>1, <2>2
  <2>4. registers' \in 0..MaxRegisters
    BY <2>1, SnsAssumption
  <2> QED BY <2>1, <2>3, <2>4
<1>2. CASE \E a \in Arn : EndpointDies(a)
  BY <1>2 DEF EndpointDies
<1>3. CASE ConsumeDevice
  <2>1. Head(stream) \in Messages /\ stream' \in Seq(Messages)
    BY <1>3 DEF ConsumeDevice
  <2>2. cp' \in State
    BY <1>3, <2>1, ApplyMessage, UserDeviceType DEF ConsumeDevice
  <2> QED BY <1>3, <2>1, <2>2 DEF ConsumeDevice
<1> QED BY <1>1, <1>2, <1>3

LEMMA CountType ==
  ASSUME metrics \in Counts, NEW m \in ToSet(Counters), NEW k \in Nat, Count(m, k)
  PROVE  metrics' \in Counts
<1>1. metrics[m] + k \in Nat
  BY DEF Counts
<1> QED BY <1>1 DEF Count, Counts

LEMMA DispatcherTypes ==
  ASSUME TypeInv, (\E x \in Unit : Dispatch(x)) \/ Dispatcher
  PROVE  TypeInv'
<1> USE DEF TypeInv, TypeOK, Hands, outside, worker, queue, reporter
<1>1. CASE \E x \in Unit : Dispatch(x)
  <2>1. PICK x \in Unit : Dispatch(x)
    BY <1>1
  <2>2. {m[2] : m \in UsersForUnit(cp, x)} \subseteq User
    <3>1. \A m \in UsersForUnit(cp, x) : \E u \in User : m = <<cp.unit_org[x], u>>
      BY DEF UsersForUnit, State
    <3> QED BY <3>1
  <2>3. alerts' \in 0..MaxAlerts
    BY <2>1, SnsAssumption DEF Dispatch
  <2> QED BY <2>1, <2>2, <2>3 DEF Dispatch
<1>2. CASE \E u \in User : LookUp(u)
  <2>1. PICK u \in User : LookUp(u)
    BY <1>2
  <2> DEFINE found == {d \in DevicesFor(cp, u) : d.is_active /\ EndpointIsSupported(d)}
  <2>2. found \in SUBSET UserDevice /\ IsFiniteSet(found)
    BY DevicesFinite, FS_Subset
  <2>3. SetToSeq(found) \in Seq(UserDevice) /\ Cardinality(found) \in Nat
    BY <2>2, Listed, FS_CardinalityType
  <2>4. targets' = targets \o SetToSeq(found) /\ Count("resolved", Cardinality(found))
    BY <2>1 DEF LookUp
  <2> HIDE DEF found
  <2>5. metrics' \in Counts
    BY <2>3, <2>4, CountType, CounterNames
  <2>6. targets' \in Seq(UserDevice)
    BY <2>3, <2>4
  <2> QED BY <2>1, <2>5, <2>6 DEF LookUp
<1>3. CASE Enqueue
  <2> DEFINE item == [n |-> Total("enqueued") + 1, device |-> Head(targets)]
  <2>1. Total("enqueued") \in Nat
    BY CounterNames DEF Total, Counts
  <2>2. targets # <<>> /\ targets' = Tail(targets)
    BY <1>3 DEF Enqueue
  <2>3. Head(targets) \in UserDevice /\ targets' \in Seq(UserDevice)
    BY <2>2
  <2>4. item \in Item
    BY <2>1, <2>3 DEF Item
  <2>5. \/ Len(channel) < Capacity /\ channel' = Append(channel, item) /\ UNCHANGED missed
        \/ Len(channel) = Capacity /\ channel' = Append(Tail(channel), item) /\ missed' = missed + 1
    BY <1>3, Zenon DEF Enqueue
  <2> HIDE DEF item
  <2>6. channel \in Seq(Item) /\ Capacity \in Nat /\ Capacity > 0
    BY SnsAssumption
  <2>7. ASSUME Len(channel) < Capacity, channel' = Append(channel, item), UNCHANGED missed
        PROVE  missed' \in Nat /\ channel' \in Seq(Item) /\ Len(channel') <= Capacity
    <3>1. channel' \in Seq(Item) /\ Len(channel') = Len(channel) + 1
      BY <2>4, <2>6, <2>7
    <3>2. Len(channel') <= Capacity /\ missed' \in Nat
      BY <2>6, <2>7, <3>1
    <3> QED BY <3>1, <3>2
  <2>8. ASSUME Len(channel) = Capacity, channel' = Append(Tail(channel), item), missed' = missed + 1
        PROVE  missed' \in Nat /\ channel' \in Seq(Item) /\ Len(channel') <= Capacity
    <3>1. Tail(channel) \in Seq(Item) /\ Len(Tail(channel)) = Len(channel) - 1
      BY <2>6, <2>8
    <3>2. channel' \in Seq(Item) /\ Len(channel') = Len(Tail(channel)) + 1
      BY <2>4, <2>8, <3>1
    <3>3. Len(channel') <= Capacity /\ missed' \in Nat
      BY <2>6, <2>8, <3>1, <3>2
    <3> QED BY <3>2, <3>3
  <2>9. metrics' \in Counts
    BY <1>3, CountType, CounterNames DEF Enqueue
  <2>10. missed' \in Nat /\ channel' \in Seq(Item) /\ Len(channel') <= Capacity
    BY <2>5, <2>7, <2>8
  <2> QED BY <1>3, <2>3, <2>9, <2>10 DEF Enqueue
<1> QED BY <1>1, <1>2, <1>3 DEF Dispatcher

\* Starting the deliveries of a batch.
LEMMA DeliverTypes ==
  ASSUME NEW items \in Seq(Item), Deliver(items)
  PROVE  phase' = "delivering" /\ batch' = <<>> /\ deliveries' \subseteq Delivery
<1>1. MaxRetries \in Nat
  BY SnsAssumption
<1>2. ASSUME NEW k \in 1..Len(items)
      PROVE  [item |-> items[k], tries |-> 0, pc |-> "publishing"] \in Delivery
  BY <1>1 DEF Delivery
<1> QED BY <1>2 DEF Deliver

LEMMA ReceiveTypes ==
  ASSUME TypeInv, ReceiveLag \/ Receive \/ BatchTimeout \/ BatchDone
  PROVE  TypeInv'
<1> USE DEF TypeInv, TypeOK, Hands, outside, dispatcher, worker, queue, reporter
<1>1. CASE ReceiveLag
  <2>1. metrics' \in Counts
    BY <1>1, CountType, CounterNames DEF ReceiveLag
  <2> QED BY <1>1, <2>1 DEF ReceiveLag
<1>2. CASE Receive
  <2> DEFINE items == Append(batch, Head(channel))
  <2>1. Head(channel) \in Item /\ channel' \in Seq(Item) /\ Len(channel') <= Capacity
    <3>1. channel # <<>> /\ channel' = Tail(channel) /\ channel \in Seq(Item)
      BY <1>2 DEF Receive
    <3>2. Head(channel) \in Item /\ channel' \in Seq(Item) /\ Len(channel') = Len(channel) - 1
      BY <3>1
    <3> QED BY <3>2, SnsAssumption
  <2>2. items \in Seq(Item) /\ Len(items) = Len(batch) + 1
    BY <2>1
  <2>3. /\ phase \in {"waiting", "collecting"}
        /\ IF phase = "collecting" /\ Len(items) >= BatchSize
           THEN Deliver(items)
           ELSE phase' = "collecting" /\ batch' = items /\ UNCHANGED deliveries
        /\ UNCHANGED <<cp, outside, dispatcher, missed, metrics, reporter>>
    BY <1>2 DEF Receive
  <2> HIDE DEF items
  <2>4. BatchSize \in Nat /\ BatchSize > 1
    BY SnsAssumption
  <2>5. CASE phase = "collecting" /\ Len(items) >= BatchSize
    <3>1. phase' = "delivering" /\ batch' = <<>> /\ deliveries' \subseteq Delivery
      BY <2>2, <2>3, <2>5, DeliverTypes
    <3> QED BY <2>1, <2>3, <2>4, <3>1
  <2>6. CASE ~(phase = "collecting" /\ Len(items) >= BatchSize)
    <3>1. phase' = "collecting" /\ batch' = items /\ deliveries' = deliveries
      BY <2>3, <2>6
    <3>2. deliveries = {}
      BY <2>3
    <3>3. Len(items) < BatchSize
      <4>1. CASE phase = "collecting"
        BY <2>2, <2>4, <2>6, <4>1
      <4>2. CASE phase = "waiting"
        BY <2>2, <2>4, <4>2
      <4> QED BY <2>3, <4>1, <4>2
    <3> QED BY <2>1, <2>2, <2>3, <2>4, <3>1, <3>2, <3>3
  <2> QED BY <2>5, <2>6
<1>3. CASE BatchTimeout
  <2>1. phase' = "delivering" /\ batch' = <<>> /\ deliveries' \subseteq Delivery
    BY <1>3, DeliverTypes DEF BatchTimeout
  <2> QED BY <1>3, <2>1, SnsAssumption DEF BatchTimeout
<1>4. CASE BatchDone
  BY <1>4 DEF BatchDone
<1> QED BY <1>1, <1>2, <1>3, <1>4

\* What becomes of a delivery after one answer to Publish.
Answered(d) ==
  \/ Count("published", 1) /\ Finished(d)
  \/ d.tries < MaxRetries /\ Becomes(d, [d EXCEPT !.tries = @ + 1]) /\ UNCHANGED metrics
  \/ /\ Count("failed", 1)
     /\ \/ Finished(d)
        \/ /\ d.item.device.endpoint_arn \in dead
           /\ Becomes(d, [d EXCEPT !.pc = "marking"])

LEMMA PublishAnswered ==
  ASSUME NEW d, Publish(d)
  PROVE  Answered(d) /\ d.pc = "publishing"
<1>1. PICK answer \in Answers(d.item.device.endpoint_arn) :
        LET error == Classify(answer)
            again == IsRetryable(error) /\ d.tries < MaxRetries
        IN \/ /\ answer = "ok"
              /\ Count("published", 1) /\ Finished(d)
           \/ /\ answer # "ok" /\ again
              /\ Becomes(d, [d EXCEPT !.tries = @ + 1]) /\ UNCHANGED metrics
           \/ /\ answer # "ok" /\ ~again
              /\ Count("failed", 1)
              /\ IF error = "InvalidEndpoint" THEN Becomes(d, [d EXCEPT !.pc = "marking"])
                 ELSE Finished(d)
  BY DEF Publish
<1>2. Classify(answer) = "InvalidEndpoint" => d.item.device.endpoint_arn \in dead
  BY <1>1 DEF Answers, Invalid, Classify
<1> QED BY <1>1, <1>2, Zenon DEF Answered, Publish

LEMMA ProcessTypes ==
  ASSUME TypeInv, NEW d \in deliveries, ProcessSnsDelivery(d), phase = "delivering"
  PROVE  TypeInv'
<1> USE DEF TypeInv, TypeOK, Hands, outside, dispatcher, queue, reporter
<1>1. d \in Delivery /\ d.item.device \in UserDevice
  BY DEF Delivery, Item
<1>2. CASE Publish(d)
  <2>1. Answered(d) /\ UNCHANGED <<cp, outside, dispatcher, queue, phase, batch, reporter>>
    BY <1>2, PublishAnswered DEF Publish
  <2>2. metrics' \in Counts
    BY <2>1, CountType, CounterNames DEF Answered
  <2>3. deliveries' \subseteq Delivery
    <3>1. d.tries < MaxRetries => [d EXCEPT !.tries = @ + 1] \in Delivery
      <4>1. SUFFICES ASSUME d.tries < MaxRetries PROVE [d EXCEPT !.tries = @ + 1] \in Delivery
        OBVIOUS
      <4>2. d.tries \in 0..MaxRetries
        BY <1>1 DEF Delivery
      <4>3. d.tries + 1 \in 0..MaxRetries
        BY <4>1, <4>2, SnsAssumption
      <4> QED BY <1>1, <4>3 DEF Delivery
    <3>2. [d EXCEPT !.pc = "marking"] \in Delivery
      BY <1>1 DEF Delivery
    <3> QED BY <2>1, <3>1, <3>2 DEF Answered, Becomes, Finished
  <2> QED BY <2>1, <2>2, <2>3
<1>3. CASE MarkInactive(d)
  <2>1. [d EXCEPT !.pc = "removing"] \in Delivery
    BY <1>1 DEF Delivery
  <2>2. deliveries' \subseteq Delivery
    BY <1>3, <2>1 DEF MarkInactive, Becomes, Finished
  <2>3. rows' \in [DeviceId -> UserDevice]
    <3>1. d.item.device.id \in DeviceId
      BY <1>1 DEF UserDevice
    <3>2. [rows[d.item.device.id] EXCEPT !.is_active = FALSE] \in UserDevice
      <4>1. rows[d.item.device.id] \in UserDevice
        BY <3>1
      <4> QED BY <4>1 DEF UserDevice
    <3> QED BY <1>3, <3>1, <3>2 DEF MarkInactive
  <2> QED BY <1>3, <2>2, <2>3 DEF MarkInactive
<1>4. CASE RemoveFromCache(d)
  <2>1. cp' \in State
    BY <1>4, DeactivateType DEF RemoveFromCache
  <2> QED BY <1>4, <2>1 DEF RemoveFromCache, Finished
<1> QED BY <1>2, <1>3, <1>4 DEF ProcessSnsDelivery

LEMMA ReporterTypes ==
  ASSUME TypeInv, StartReport \/ TakeCounter
  PROVE  TypeInv'
<1> USE DEF TypeInv, TypeOK, Hands, outside, dispatcher, worker, queue
<1>1. CASE StartReport
  <2>1. Counters \in Seq(ToSet(Counters))
    BY CounterNames DEF Counters
  <2>2. reports' \in 0..MaxReports
    BY <1>1, SnsAssumption DEF StartReport
  <2> QED BY <1>1, <2>1, <2>2 DEF StartReport
<1>2. CASE TakeCounter
  <2>1. Head(reporting) \in ToSet(Counters) /\ reporting' \in Seq(ToSet(Counters))
    BY <1>2 DEF TakeCounter
  <2>2. logged[Head(reporting)] + metrics[Head(reporting)] \in Nat
    <3>1. logged[Head(reporting)] \in Nat /\ metrics[Head(reporting)] \in Nat
      BY <2>1 DEF Counts
    <3> QED BY <3>1
  <2>3. metrics' \in Counts /\ logged' \in Counts
    BY <1>2, <2>1, <2>2 DEF TakeCounter, Counts
  <2> QED BY <1>2, <2>1, <2>3 DEF TakeCounter
<1> QED BY <1>1, <1>2

LEMMA NextTypes == TypeInv /\ [Next]_vars => TypeInv'
<1> SUFFICES ASSUME TypeInv, [Next]_vars PROVE TypeInv'
  OBVIOUS
<1>1. CASE UNCHANGED vars
  BY <1>1 DEF TypeInv, TypeOK, Hands, vars, outside, dispatcher, worker, queue, reporter
<1>2. CASE Worker
  <2>1. CASE \E d \in deliveries : ProcessSnsDelivery(d)
    <3>1. phase = "delivering"
      BY <2>1 DEF TypeInv, Hands
    <3> QED BY <2>1, <3>1, ProcessTypes
  <2> QED BY <1>2, <2>1, ReceiveTypes DEF Worker
<1> QED
  BY <1>1, <1>2, OutsideTypes, DispatcherTypes, ReporterTypes DEF Next

(***************************************************************************)
(* Every variable keeps its type: the channel never holds more than its    *)
(* capacity, a batch no more than its size, a delivery is tried no more    *)
(* often than the configuration says.                                      *)
(***************************************************************************)
THEOREM DeliveryTypes == Spec => []TypeOK
<1>1. TypeInv => TypeOK
  BY DEF TypeInv
<1> QED BY <1>1, InitTypes, NextTypes, PTL DEF Spec

-----------------------------------------------------------------------------
(* Devices *)

\* The cache changes by a message or by a deactivation.
LEMMA CacheStep ==
  ASSUME TypeInv, [Next]_vars
  PROVE  \/ cp' = cp
         \/ /\ stream' # stream
            /\ \E d \in UserDevice : cp' = UpsertUserDevice(cp, d)
         \/ \E d \in deliveries : d.pc = "removing" /\ cp' = DeactivateDevice(cp, d.item.device.id)
<1> USE DEF TypeInv
<1>1. CASE UNCHANGED vars
  BY <1>1 DEF vars
<1>2. CASE (\E id \in DeviceId : Register(id)) \/ (\E a \in Arn : EndpointDies(a))
  BY <1>2 DEF Register, EndpointDies
<1>3. CASE ConsumeDevice
  <2>1. stream \in Seq(Messages) /\ stream # <<>> /\ cp \in State
    BY <1>3 DEF ConsumeDevice, TypeOK
  <2>2. Head(stream) \in Messages /\ Len(Tail(stream)) = Len(stream) - 1 /\ Len(stream) \in Nat
    BY <2>1
  <2>3. stream' # stream
    <3>1. stream' = Tail(stream)
      BY <1>3 DEF ConsumeDevice
    <3>2. stream' = stream => Len(stream) = Len(stream) - 1
      BY <2>2, <3>1
    <3> QED BY <2>2, <3>2
  <2> QED BY <1>3, <2>1, <2>2, <2>3, ApplyMessage DEF ConsumeDevice
<1>4. CASE (\E x \in Unit : Dispatch(x)) \/ Dispatcher
  BY <1>4 DEF Dispatch, Dispatcher, Enqueue, LookUp
<1>5. CASE ReceiveLag \/ Receive \/ BatchTimeout \/ BatchDone
  BY <1>5 DEF ReceiveLag, Receive, BatchTimeout, BatchDone
<1>6. CASE \E d \in deliveries : ProcessSnsDelivery(d)
  BY <1>6 DEF ProcessSnsDelivery, Publish, MarkInactive, RemoveFromCache
<1>7. CASE StartReport \/ TakeCounter
  BY <1>7 DEF StartReport, TakeCounter
<1> QED
  BY <1>1, <1>2, <1>3, <1>4, <1>5, <1>6, <1>7 DEF Next, Worker

\* What the row of a device is, of rows r, after it was written as d.
Agrees(r, d) == r[d.id] \in {d, [d EXCEPT !.is_active = FALSE]}

\* The last message about a device says what its row says, and so does the
\* cache of a device without messages.
RowsFollowed ==
  /\ \A k \in 1..Len(stream) :
       (\A j \in 1..Len(stream) : k < j => stream[j].data.id # stream[k].data.id)
         => Agrees(rows, stream[k].data)
  /\ \A u \in User : \A d \in cp.user_devices[u] :
       /\ d.user_id = u
       /\ (\A k \in 1..Len(stream) : stream[k].data.id # d.id) => Agrees(rows, d)

LEMMA StreamType ==
  ASSUME TypeInv, NEW k \in 1..Len(stream)
  PROVE  stream[k].data \in UserDevice /\ stream[k].data.id \in DeviceId
<1>1. stream \in Seq(Messages)
  BY DEF TypeInv, TypeOK
<1>2. stream[k] \in Messages
  BY <1>1
<1> QED BY <1>2 DEF Messages, UserDevice

LEMMA CachedType ==
  ASSUME cp \in State, NEW u \in User, NEW d \in cp.user_devices[u]
  PROVE  d \in UserDevice /\ d.id \in DeviceId
BY DEF State, UserDevice

\* Marking a row leaves what agreed with it in agreement.
LEMMA MarkKeepsRows ==
  ASSUME TypeInv, RowsFollowed, NEW d \in deliveries, MarkInactive(d)
  PROVE  RowsFollowed'
<1>1. /\ UNCHANGED <<cp, stream>> /\ rows \in [DeviceId -> UserDevice] /\ cp \in State
      /\ \/ rows' = rows
         \/ rows' = [rows EXCEPT ![d.item.device.id].is_active = FALSE]
  BY DEF MarkInactive, TypeInv, TypeOK
<1>2. ASSUME NEW e \in UserDevice, Agrees(rows, e) PROVE Agrees(rows', e)
  <2>1. e.id \in DeviceId
    BY DEF UserDevice
  <2>2. rows'[e.id] \in {rows[e.id], [rows[e.id] EXCEPT !.is_active = FALSE]}
    BY <1>1, <2>1
  <2> QED BY <1>2, <2>2 DEF Agrees, UserDevice
<1> QED BY <1>1, <1>2, StreamType, CachedType DEF RowsFollowed

\* A row that is written and its message change together.
LEMMA RegisterKeepsRows ==
  ASSUME TypeInv, RowsFollowed, NEW id \in DeviceId, Register(id)
  PROVE  RowsFollowed'
<1>1. PICK d \in UserDevice :
        /\ d.id = id /\ rows' = [rows EXCEPT ![id] = d] /\ stream' = Append(stream, Message(d))
  BY DEF Register
<1>2. /\ cp' = cp /\ cp \in State
      /\ stream \in Seq(Messages) /\ rows \in [DeviceId -> UserDevice]
  BY DEF Register, TypeInv, TypeOK
<1>3. /\ Message(d).data = d
      /\ Len(stream') = Len(stream) + 1 /\ Len(stream) \in Nat
      /\ stream'[Len(stream) + 1] = Message(d)
      /\ \A k \in 1..Len(stream) : stream'[k] = stream[k]
  BY <1>1, <1>2 DEF Message
<1>4. Agrees(rows', d)
  BY <1>1, <1>2 DEF Agrees
<1>5. ASSUME NEW e, e.id \in DeviceId, e.id # id, Agrees(rows, e) PROVE Agrees(rows', e)
  BY <1>1, <1>2, <1>5 DEF Agrees
<1>6. ASSUME NEW k \in 1..Len(stream'),
             \A j \in 1..Len(stream') : k < j => stream'[j].data.id # stream'[k].data.id
      PROVE  Agrees(rows', stream'[k].data)
  <2>1. CASE k = Len(stream) + 1
    BY <1>3, <1>4, <2>1
  <2>2. CASE k # Len(stream) + 1
    <3>1. /\ k \in 1..Len(stream) /\ stream'[k] = stream[k]
          /\ Len(stream) + 1 \in 1..Len(stream') /\ k < Len(stream) + 1
      BY <1>3, <2>2
    <3>2. stream[k].data.id # id
      BY <1>1, <1>3, <1>6, <3>1
    <3>3. \A j \in 1..Len(stream) : k < j => stream[j].data.id # stream[k].data.id
      BY <1>3, <1>6, <3>1
    <3> QED BY <1>5, <3>1, <3>2, <3>3, StreamType DEF RowsFollowed
  <2> QED BY <2>1, <2>2
<1>7. ASSUME NEW u \in User, NEW e \in cp.user_devices[u]
      PROVE  /\ e.user_id = u
             /\ (\A k \in 1..Len(stream') : stream'[k].data.id # e.id) => Agrees(rows', e)
  <2>1. e.user_id = u /\ e.id \in DeviceId
    BY <1>2, CachedType DEF RowsFollowed
  <2>2. ASSUME \A k \in 1..Len(stream') : stream'[k].data.id # e.id PROVE Agrees(rows', e)
    <3>1. e.id # id
      BY <1>1, <1>3, <2>2
    <3>2. \A k \in 1..Len(stream) : stream[k].data.id # e.id
      BY <1>3, <2>2
    <3> QED BY <1>5, <2>1, <3>1, <3>2 DEF RowsFollowed
  <2> QED BY <2>1, <2>2
<1> QED BY <1>2, <1>6, <1>7 DEF RowsFollowed

\* Of a device, the cache has after a message what the message says.
LEMMA ConsumeKeepsRows ==
  ASSUME TypeInv, RowsFollowed, ConsumeDevice
  PROVE  RowsFollowed'
<1> DEFINE m == Head(stream).data
<1>1. /\ stream # <<>> /\ stream \in Seq(Messages) /\ cp \in State
      /\ stream' = Tail(stream) /\ rows' = rows
      /\ cp' = ApplyEvent(cp, Head(stream))
  BY DEF ConsumeDevice, TypeInv, TypeOK
<1>2. /\ 1 \in 1..Len(stream) /\ Head(stream) = stream[1] /\ Head(stream) \in Messages
      /\ \A k \in 1..Len(stream') : k + 1 \in 1..Len(stream) /\ stream'[k] = stream[k + 1]
      /\ \A k \in 1..Len(stream) : 1 < k => k - 1 \in 1..Len(stream') /\ stream[k] = stream'[k - 1]
  BY <1>1
<1>3. cp' = UpsertUserDevice(cp, m) /\ m \in UserDevice /\ m.user_id \in User
  BY <1>1, <1>2, ApplyMessage DEF Messages, UserDevice
<1>4. rows' = rows
  BY <1>1
<1>5. ASSUME NEW k \in 1..Len(stream'),
             \A j \in 1..Len(stream') : k < j => stream'[j].data.id # stream'[k].data.id
      PROVE  Agrees(rows, stream'[k].data)
  <2>1. k + 1 \in 1..Len(stream) /\ stream'[k] = stream[k + 1]
    BY <1>2
  <2>2. ASSUME NEW j \in 1..Len(stream), k + 1 < j PROVE stream[j].data.id # stream[k + 1].data.id
    <3>1. 1 < j /\ k < j - 1
      BY <2>2
    <3>2. j - 1 \in 1..Len(stream') /\ stream[j] = stream'[j - 1]
      BY <1>2, <3>1
    <3> QED BY <1>5, <2>1, <3>1, <3>2
  <2> QED BY <2>1, <2>2 DEF RowsFollowed
<1> HIDE DEF m
<1>6. ASSUME NEW u \in User, NEW d \in cp'.user_devices[u]
      PROVE  \/ d = m /\ u = m.user_id
             \/ d \in cp.user_devices[u] /\ d.id # m.id
  <2> DEFINE t == DeactivateDevice(cp, m.id)
  <2>1. t \in State /\ t.user_devices[u] = {e \in cp.user_devices[u] : e.id # m.id}
    BY <1>1, DeactivateType DEF DeactivateDevice, State
  <2> HIDE DEF t
  <2>2. \/ cp' = t
        \/ cp' = [t EXCEPT !.user_devices[m.user_id] = @ \cup {m}]
    BY <1>3 DEF UpsertUserDevice, t
  <2>3. d \in t.user_devices[u] \/ (d = m /\ u = m.user_id)
    BY <2>1, <2>2 DEF State
  <2> QED BY <2>1, <2>3
<1>7. ASSUME NEW u \in User, NEW d \in cp'.user_devices[u]
      PROVE  /\ d.user_id = u
             /\ (\A k \in 1..Len(stream') : stream'[k].data.id # d.id) => Agrees(rows, d)
  <2>1. d.user_id = u
    BY <1>6 DEF RowsFollowed
  <2>2. ASSUME \A k \in 1..Len(stream') : stream'[k].data.id # d.id PROVE Agrees(rows, d)
    <3>1. \A k \in 1..Len(stream) : 1 < k => stream[k].data.id # d.id
      BY <1>2, <2>2
    <3>2. CASE d = m
      BY <1>2, <3>1, <3>2 DEF RowsFollowed, m
    <3>3. CASE d \in cp.user_devices[u] /\ d.id # m.id
      <4>1. \A k \in 1..Len(stream) : k = 1 \/ 1 < k
        OBVIOUS
      <4>2. \A k \in 1..Len(stream) : stream[k].data.id # d.id
        BY <1>2, <3>1, <3>3, <4>1 DEF m
      <4> QED BY <3>3, <4>2 DEF RowsFollowed
    <3> QED BY <1>6, <3>2, <3>3
  <2> QED BY <2>1, <2>2
<1> QED BY <1>4, <1>5, <1>7 DEF RowsFollowed

LEMMA RemoveKeepsRows ==
  ASSUME TypeInv, RowsFollowed, NEW d \in deliveries, RemoveFromCache(d)
  PROVE  RowsFollowed'
<1>1. /\ cp \in State /\ cp' = DeactivateDevice(cp, d.item.device.id)
      /\ UNCHANGED <<rows, stream>>
  BY DEF RemoveFromCache, outside, TypeInv, TypeOK
<1>2. \A u \in User : cp'.user_devices[u] \subseteq cp.user_devices[u]
  BY <1>1 DEF DeactivateDevice, State
<1> QED BY <1>1, <1>2 DEF RowsFollowed, Agrees

LEMMA NextKeepsRows == TypeInv /\ RowsFollowed /\ [Next]_vars => RowsFollowed'
<1> SUFFICES ASSUME TypeInv, RowsFollowed, [Next]_vars PROVE RowsFollowed'
  OBVIOUS
<1> USE DEF outside
<1>1. CASE UNCHANGED <<cp, rows, stream>>
  BY <1>1 DEF RowsFollowed, Agrees
<1>2. CASE UNCHANGED vars
  BY <1>1, <1>2 DEF vars
<1>3. CASE \E id \in DeviceId : Register(id)
  BY <1>3, RegisterKeepsRows
<1>4. CASE \E a \in Arn : EndpointDies(a)
  BY <1>1, <1>4 DEF EndpointDies
<1>5. CASE ConsumeDevice
  BY <1>5, ConsumeKeepsRows
<1>6. CASE (\E x \in Unit : Dispatch(x)) \/ Dispatcher
  BY <1>1, <1>6 DEF Dispatch, Dispatcher, Enqueue, LookUp
<1>7. CASE ReceiveLag \/ Receive \/ BatchTimeout \/ BatchDone
  BY <1>1, <1>7 DEF ReceiveLag, Receive, BatchTimeout, BatchDone
<1>8. CASE \E d \in deliveries : ProcessSnsDelivery(d)
  <2>1. CASE \E d \in deliveries : Publish(d)
    BY <1>1, <2>1 DEF Publish
  <2> QED BY <1>8, <2>1, MarkKeepsRows, RemoveKeepsRows DEF ProcessSnsDelivery
<1>9. CASE StartReport \/ TakeCounter
  BY <1>1, <1>9 DEF StartReport, TakeCounter
<1> QED
  BY <1>2, <1>3, <1>4, <1>5, <1>6, <1>7, <1>8, <1>9 DEF Next, Worker

LEMMA InitRows == Init => RowsFollowed
<1> SUFFICES ASSUME Init PROVE RowsFollowed
  OBVIOUS
<1>1. /\ stream = <<>> /\ cp = Snapshot /\ rows = [id \in DeviceId |-> RowAt(id)]
  BY DEF Init
<1>2. ASSUME NEW u \in User, NEW d \in cp.user_devices[u]
      PROVE  d.user_id = u /\ Agrees(rows, d)
  <2>1. /\ Snapshot \in State /\ d \in UserDevice /\ d.id \in DeviceId
        /\ d.user_id = u /\ d \in Devices(Snapshot)
    BY <1>1, SnsAssumption, CachedType DEF OneHolder, DevicesFor, Devices
  <2>2. RowAt(d.id) \in Devices(Snapshot) /\ RowAt(d.id).id = d.id
    BY <2>1 DEF RowAt
  <2>3. \A e \in Devices(Snapshot) : e.id = d.id => e = d
    BY <2>1, SnsAssumption DEF OneHolder, DevicesFor, Devices
  <2> HIDE DEF RowAt
  <2>4. rows[d.id] = d
    BY <1>1, <2>1, <2>2, <2>3
  <2> QED BY <2>1, <2>4 DEF Agrees
<1> QED BY <1>1, <1>2 DEF RowsFollowed

(***************************************************************************)
(* Whatever order registrations, their messages and deactivations come in, *)
(* a device the cache has is where its row says, once its messages are     *)
(* applied: a deactivation only ever removes it, and a message that is     *)
(* still to come brings what was written last.                             *)
(***************************************************************************)
THEOREM DevicesFollowRows == Spec => []CacheFollowsRows
<1>1. TypeInv /\ RowsFollowed => CacheFollowsRows
  <2> SUFFICES ASSUME TypeInv, RowsFollowed,
                      NEW u \in User, NEW d \in DevicesFor(cp, u),
                      d.id \notin {m.data.id : m \in ToSet(stream)}
               PROVE  d.user_id = u /\ Agrees(rows, d)
    BY DEF CacheFollowsRows, Agrees
  <2>1. \A k \in 1..Len(stream) : stream[k].data.id # d.id
    BY DEF ToSet, TypeInv, TypeOK
  <2> QED BY <2>1 DEF RowsFollowed, DevicesFor
<1> QED BY <1>1, InitTypes, NextTypes, InitRows, NextKeepsRows, PTL DEF Spec

\* Deliveries past their publication are about an endpoint that died.
Blamed == \A d \in deliveries : d.pc # "publishing" => d.item.device.endpoint_arn \in dead

LEMMA DeadStay == TypeInv /\ [Next]_vars => dead \subseteq dead'
<1> SUFFICES ASSUME [Next]_vars PROVE dead \subseteq dead'
  OBVIOUS
<1> USE DEF outside
<1>1. CASE UNCHANGED vars
  BY <1>1 DEF vars
<1>2. CASE \/ \E id \in DeviceId : Register(id)
           \/ \E a \in Arn : EndpointDies(a)
           \/ ConsumeDevice
  BY <1>2 DEF Register, EndpointDies, ConsumeDevice
<1>3. CASE (\E x \in Unit : Dispatch(x)) \/ Dispatcher
  BY <1>3 DEF Dispatch, Dispatcher, Enqueue, LookUp
<1>4. CASE ReceiveLag \/ Receive \/ BatchTimeout \/ BatchDone
  BY <1>4 DEF ReceiveLag, Receive, BatchTimeout, BatchDone
<1>5. CASE \E d \in deliveries : ProcessSnsDelivery(d)
  BY <1>5 DEF ProcessSnsDelivery, Publish, MarkInactive, RemoveFromCache
<1>6. CASE StartReport \/ TakeCounter
  BY <1>6 DEF StartReport, TakeCounter
<1> QED
  BY <1>1, <1>2, <1>3, <1>4, <1>5, <1>6 DEF Next, Worker

\* A delivery of the next state is one of this one, or one that goes on from it, or new.
LEMMA DeliveryStep ==
  ASSUME TypeInv, [Next]_vars, NEW e \in deliveries', e \notin deliveries
  PROVE  \/ e.pc = "publishing"
         \/ \E d \in deliveries : /\ d.item = e.item
                                  /\ d.pc # "publishing" \/ d.item.device.endpoint_arn \in dead
<1> USE DEF worker
<1>1. CASE UNCHANGED vars
  BY <1>1 DEF vars
<1>2. CASE \/ \E id \in DeviceId : Register(id)
           \/ \E a \in Arn : EndpointDies(a)
           \/ ConsumeDevice
  BY <1>2 DEF Register, EndpointDies, ConsumeDevice
<1>3. CASE (\E x \in Unit : Dispatch(x)) \/ Dispatcher
  BY <1>3 DEF Dispatch, Dispatcher, Enqueue, LookUp
<1>4. CASE ReceiveLag \/ Receive \/ BatchTimeout \/ BatchDone
  <2>1. ASSUME NEW items, Deliver(items) PROVE e.pc = "publishing"
    BY <2>1 DEF Deliver
  <2> QED BY <1>4, <2>1 DEF ReceiveLag, Receive, BatchTimeout, BatchDone
<1>5. CASE \E d \in deliveries : ProcessSnsDelivery(d)
  <2>1. PICK d \in deliveries : ProcessSnsDelivery(d)
    BY <1>5
  <2>2. d \in Delivery
    BY DEF TypeInv, TypeOK
  <2>3. CASE Publish(d)
    <3>1. \/ e = [d EXCEPT !.tries = @ + 1]
          \/ e = [d EXCEPT !.pc = "marking"] /\ d.item.device.endpoint_arn \in dead
      BY <2>3, PublishAnswered DEF Answered, Becomes, Finished
    <3> QED BY <2>2, <2>3, <3>1 DEF Delivery, Publish
  <2>4. CASE MarkInactive(d)
    <3>1. e = [d EXCEPT !.pc = "removing"] /\ d.pc = "marking"
      BY <2>4 DEF MarkInactive, Becomes, Finished
    <3> QED BY <2>2, <3>1 DEF Delivery
  <2>5. CASE RemoveFromCache(d)
    BY <2>5 DEF RemoveFromCache, Finished
  <2> QED BY <2>1, <2>3, <2>4, <2>5 DEF ProcessSnsDelivery
<1>6. CASE StartReport \/ TakeCounter
  BY <1>6 DEF StartReport, TakeCounter
<1> QED
  BY <1>1, <1>2, <1>3, <1>4, <1>5, <1>6 DEF Next, Worker

(***************************************************************************)
(* A device leaves its user by a message of its owner, or on account of an *)
(* endpoint of that device that really died.                               *)
(***************************************************************************)
THEOREM OnlyTheDeadAreRemoved == Spec => OnlyDeadEndpointsRemoved
<1>1. Init => Blamed
  BY DEF Init, Blamed
<1>2. TypeInv /\ Blamed /\ [Next]_vars => Blamed'
  BY DeadStay, DeliveryStep DEF Blamed
<1>3. TypeInv /\ Blamed /\ [Next]_vars =>
        [ \A u \in User : \A d \in cp.user_devices[u] \ cp'.user_devices[u] :
            \/ stream' # stream
            \/ \E e \in deliveries : /\ e.item.device.id = d.id
                                     /\ e.item.device.endpoint_arn \in dead ]_vars
  <2> SUFFICES ASSUME TypeInv, Blamed, [Next]_vars, stream' = stream,
                      NEW u \in User, NEW d \in cp.user_devices[u] \ cp'.user_devices[u]
               PROVE  \E e \in deliveries : /\ e.item.device.id = d.id
                                            /\ e.item.device.endpoint_arn \in dead
    OBVIOUS
  <2>1. PICK e \in deliveries : e.pc = "removing" /\ cp' = DeactivateDevice(cp, e.item.device.id)
    BY CacheStep
  <2>2. cp'.user_devices[u] = {f \in cp.user_devices[u] : f.id # e.item.device.id}
    BY <2>1 DEF DeactivateDevice, State, TypeInv, TypeOK
  <2>3. e.item.device.id = d.id /\ e.item.device.endpoint_arn \in dead
    BY <2>1, <2>2 DEF Blamed
  <2> QED BY <2>3
<1> QED
  BY <1>1, <1>2, <1>3, InitTypes, NextTypes, PTL DEF Spec, OnlyDeadEndpointsRemoved

-----------------------------------------------------------------------------
(* Counters *)

Numbered(items) == \A i, j \in 1..Len(items) : i < j => items[i].n < items[j].n

\* Items carry the number they were queued with, so no two are the same.
Serial ==
  /\ Numbered(batch) /\ Numbered(channel)
  /\ \A i \in 1..Len(batch), j \in 1..Len(channel) : batch[i].n < channel[j].n
  /\ \A i \in 1..Len(batch) : batch[i].n <= Total("enqueued")
  /\ \A j \in 1..Len(channel) : channel[j].n <= Total("enqueued")
  /\ \A d, e \in deliveries : d.item.n = e.item.n => d = e
  /\ IsFiniteSet(deliveries)

\* What the worker holds or has lost: the items that are queued and not yet counted.
Held == missed + Len(channel) + Len(batch) + Cardinality(Publishing)

Counted == Total("lagged") + Total("published") + Total("failed")

\* CountersAddUp, in two sums.
Balanced ==
  /\ Total("resolved") = Total("enqueued") + Len(targets)
  /\ Total("enqueued") = Held + Counted

CountInv == TypeInv /\ Serial /\ Balanced

LEMMA TotalType ==
  ASSUME TypeInv, NEW m \in ToSet(Counters)
  PROVE  Total(m) \in Nat
<1>1. metrics[m] \in Nat /\ logged[m] \in Nat
  BY DEF TypeInv, TypeOK, Counts
<1> QED BY <1>1 DEF Total

\* Counting m moves its total, and no other.
LEMMA CountTotal ==
  ASSUME TypeInv, NEW m \in ToSet(Counters), NEW k \in Nat, Count(m, k), UNCHANGED logged
  PROVE  \A c \in ToSet(Counters) : Total(c)' = IF c = m THEN Total(c) + k ELSE Total(c)
<1> SUFFICES ASSUME NEW c \in ToSet(Counters)
             PROVE  Total(c)' = IF c = m THEN Total(c) + k ELSE Total(c)
  OBVIOUS
<1>1. metrics \in [ToSet(Counters) -> Nat] /\ metrics[c] \in Nat /\ logged[c] \in Nat
  BY DEF TypeInv, TypeOK, Counts
<1>2. metrics'[c] = IF c = m THEN metrics[c] + k ELSE metrics[c]
  BY <1>1 DEF Count
<1>3. Total(c)' = metrics'[c] + logged[c]
  BY DEF Total
<1> QED BY <1>1, <1>2, <1>3 DEF Total

\* The reporter moves what it takes from the counter to what it logged.
LEMMA TakeTotal ==
  ASSUME TypeInv, TakeCounter
  PROVE  \A c \in ToSet(Counters) : Total(c)' = Total(c)
<1> SUFFICES ASSUME NEW c \in ToSet(Counters) PROVE Total(c)' = Total(c)
  OBVIOUS
<1>1. /\ metrics \in [ToSet(Counters) -> Nat] /\ metrics[c] \in Nat
      /\ logged \in [ToSet(Counters) -> Nat] /\ logged[c] \in Nat
  BY DEF TypeInv, TypeOK, Counts
<1> DEFINE m == Head(reporting)
<1>2. logged'[c] = (IF c = m THEN logged[c] + metrics[c] ELSE logged[c])
      /\ metrics'[c] = (IF c = m THEN 0 ELSE metrics[c])
  BY <1>1 DEF TakeCounter
<1>3. Total(c)' = metrics'[c] + logged'[c]
  BY DEF Total
<1> QED BY <1>1, <1>2, <1>3 DEF Total

LEMMA InitCounts == Init => CountInv
<1> SUFFICES ASSUME Init PROVE CountInv
  OBVIOUS
<1>1. \A m \in ToSet(Counters) : Total(m) = 0
  BY DEF Init, Total
<1>2. Publishing = {} /\ Cardinality({}) = 0 /\ IsFiniteSet({})
  BY FS_EmptySet DEF Init, Publishing
<1>3. Len(channel) = 0 /\ Len(batch) = 0 /\ Len(targets) = 0 /\ missed = 0 /\ deliveries = {}
  BY DEF Init
<1>4. Serial
  BY <1>2, <1>3 DEF Serial, Numbered
<1>5. Balanced
  BY <1>1, <1>2, <1>3, CounterNames DEF Balanced, Held, Counted
<1> QED BY <1>4, <1>5, InitTypes DEF CountInv

\* Deliveries of a batch are as many as its items.
LEMMA DeliverCounts ==
  ASSUME NEW items \in Seq(Item), Numbered(items), Deliver(items)
  PROVE  /\ IsFiniteSet(deliveries') /\ Cardinality(deliveries') = Len(items)
         /\ \A d, e \in deliveries' : d.item.n = e.item.n => d = e
         /\ Publishing' = deliveries'
<1> DEFINE task(k) == [item |-> items[k], tries |-> 0, pc |-> "publishing"]
           f == [k \in 1..Len(items) |-> task(k)]
<1>1. deliveries' = {task(k) : k \in 1..Len(items)} /\ Len(items) \in Nat
  BY DEF Deliver
<1>2. \A i, j \in 1..Len(items) : items[i].n = items[j].n => i = j
  <2> SUFFICES ASSUME NEW i \in 1..Len(items), NEW j \in 1..Len(items), items[i].n = items[j].n
               PROVE  i = j
    OBVIOUS
  <2>1. items[i] \in Item /\ items[j] \in Item
    OBVIOUS
  <2>2. items[i].n \in Nat /\ items[j].n \in Nat
    BY <2>1 DEF Item
  <2>3. ~(i < j) /\ ~(j < i)
    BY <2>2 DEF Numbered
  <2> QED BY <1>1, <2>3
<1>3. \A i, j \in 1..Len(items) : task(i) = task(j) => i = j
  BY <1>2
<1>4. f \in Surjection(1..Len(items), deliveries') /\ f \in Injection(1..Len(items), deliveries')
  <2>1. f \in [1..Len(items) -> deliveries']
    BY <1>1
  <2>2. \A d \in deliveries' : \E k \in 1..Len(items) : f[k] = d
    BY <1>1
  <2>3. \A i, j \in 1..Len(items) : f[i] = f[j] => i = j
    BY <1>3
  <2> QED BY <2>1, <2>2, <2>3 DEF Surjection, Injection, IsInjective
<1>5. IsFiniteSet(1..Len(items)) /\ Cardinality(1..Len(items)) = Len(items)
  <2>1. 1 \in Int /\ Len(items) \in Int /\ Len(items) >= 0
    BY <1>1
  <2>2. Cardinality(1..Len(items)) = IF 1 > Len(items) THEN 0 ELSE Len(items) - 1 + 1
    BY <2>1, FS_Interval
  <2>3. IsFiniteSet(1..Len(items))
    BY <2>1, FS_Interval
  <2> QED BY <2>1, <2>2, <2>3
<1>6. IsFiniteSet(deliveries') /\ Cardinality(deliveries') = Len(items)
  BY <1>4, <1>5, FS_Surjection
<1>7. \A d, e \in deliveries' : d.item.n = e.item.n => d = e
  BY <1>1, <1>2
<1>8. Publishing' = deliveries'
  BY <1>1 DEF Publishing
<1> QED BY <1>6, <1>7, <1>8

LEMMA HeldType ==
  ASSUME TypeInv, Serial
  PROVE  /\ missed \in Nat /\ Len(channel) \in Nat /\ Len(batch) \in Nat /\ Len(targets) \in Nat
         /\ IsFiniteSet(Publishing) /\ Cardinality(Publishing) \in Nat
         /\ Held \in Nat
<1>1. missed \in Nat /\ Len(channel) \in Nat /\ Len(batch) \in Nat /\ Len(targets) \in Nat
  BY DEF TypeInv, TypeOK
<1>2. IsFiniteSet(Publishing) /\ Cardinality(Publishing) \in Nat
  <2>1. Publishing \in SUBSET deliveries
    BY DEF Publishing
  <2> QED BY <2>1, FS_Subset, FS_CardinalityType DEF Serial
<1> QED BY <1>1, <1>2 DEF Held

LEMMA CountedType == TypeInv => Counted \in Nat
<1> SUFFICES ASSUME TypeInv PROVE Counted \in Nat
  OBVIOUS
<1>1. Total("lagged") \in Nat /\ Total("published") \in Nat /\ Total("failed") \in Nat
  BY TotalType, CounterNames
<1> QED BY <1>1 DEF Counted

LEMMA SumsAgree == TypeInv /\ Serial => (CountersAddUp <=> Balanced)
<1> SUFFICES ASSUME TypeInv, Serial PROVE CountersAddUp <=> Balanced
  OBVIOUS
<1> DEFINE l == Total("lagged")
           q == Total("published")
           f == Total("failed")
           a == Len(channel)
           b == Len(batch)
           p == Cardinality(Publishing)
<1>1. l \in Nat /\ q \in Nat /\ f \in Nat
  BY TotalType, CounterNames
<1>2. missed \in Nat /\ a \in Nat /\ b \in Nat /\ p \in Nat
  BY HeldType
<1>3. Held = missed + a + b + p /\ Counted = l + q + f
  BY DEF Held, Counted
<1>4. CountersAddUp <=> /\ Total("resolved") = Total("enqueued") + Len(targets)
                        /\ Total("enqueued") = l + missed + a + b + p + q + f
  BY DEF CountersAddUp
<1> HIDE DEF l, q, f, a, b, p
<1>5. l + missed + a + b + p + q + f = (missed + a + b + p) + (l + q + f)
  BY <1>1, <1>2
<1> QED BY <1>3, <1>4, <1>5 DEF Balanced

\* A count of what left the worker's hands.
LEMMA CountedMoves ==
  ASSUME TypeInv, NEW m \in {"lagged", "published", "failed"}, NEW k \in Nat,
         Count(m, k), UNCHANGED logged
  PROVE  /\ Counted' = Counted + k
         /\ Total("resolved")' = Total("resolved") /\ Total("enqueued")' = Total("enqueued")
<1> DEFINE l == Total("lagged")
           q == Total("published")
           f == Total("failed")
           l1 == Total("lagged")'
           q1 == Total("published")'
           f1 == Total("failed")'
<1>1. m \in ToSet(Counters)
  BY CounterNames
<1>2. \A c \in ToSet(Counters) : Total(c)' = IF c = m THEN Total(c) + k ELSE Total(c)
  BY <1>1, CountTotal
<1>3. l \in Nat /\ q \in Nat /\ f \in Nat
  BY TotalType, CounterNames
<1>4. /\ l1 = (IF m = "lagged" THEN l + k ELSE l)
      /\ q1 = (IF m = "published" THEN q + k ELSE q)
      /\ f1 = (IF m = "failed" THEN f + k ELSE f)
  BY <1>2, CounterNames
<1>5. Counted = l + q + f /\ Counted' = l1 + q1 + f1
  BY DEF Counted
<1>6. Total("resolved")' = Total("resolved") /\ Total("enqueued")' = Total("enqueued")
  BY <1>2, CounterNames
<1> HIDE DEF l, q, f, l1, q1, f1
<1>7. l1 + q1 + f1 = l + q + f + k
  BY <1>3, <1>4
<1> QED BY <1>5, <1>6, <1>7

\* Nothing the invariant is about changes but the totals, which stay.
LEMMA CountFrame ==
  ASSUME CountInv, UNCHANGED <<targets, queue, batch, deliveries>>,
         \A c \in ToSet(Counters) : Total(c)' = Total(c)
  PROVE  Serial' /\ Balanced'
<1>1. Publishing' = Publishing
  BY DEF Publishing
<1>2. Serial'
  BY CounterNames DEF CountInv, Serial, Numbered, queue
<1>3. Balanced'
  BY <1>1, CounterNames DEF CountInv, Balanced, Held, Counted, queue
<1> QED BY <1>2, <1>3

LEMMA LookUpCounts ==
  ASSUME CountInv, NEW u \in User, LookUp(u)
  PROVE  Serial' /\ Balanced'
<1> DEFINE found == {d \in DevicesFor(cp, u) : d.is_active /\ EndpointIsSupported(d)}
<1>1. found \in SUBSET UserDevice /\ IsFiniteSet(found)
  BY DevicesFinite, FS_Subset DEF CountInv, TypeInv, TypeOK
<1>2. SetToSeq(found) \in Seq(UserDevice) /\ Len(SetToSeq(found)) = Cardinality(found)
      /\ Cardinality(found) \in Nat
  BY <1>1, Listed, FS_CardinalityType
<1>3. /\ targets' = targets \o SetToSeq(found) /\ Count("resolved", Cardinality(found))
      /\ UNCHANGED <<queue, batch, deliveries, logged>>
  BY DEF LookUp, worker, reporter
<1> HIDE DEF found
<1>4. targets \in Seq(UserDevice)
  BY DEF CountInv, TypeInv, TypeOK
<1>5. Len(targets') = Len(targets) + Cardinality(found)
  BY <1>2, <1>3, <1>4
<1>6. \A c \in ToSet(Counters) :
        Total(c)' = IF c = "resolved" THEN Total(c) + Cardinality(found) ELSE Total(c)
  BY <1>2, <1>3, CountTotal, CounterNames DEF CountInv
<1>7. Publishing' = Publishing
  BY <1>3 DEF Publishing
<1>8. Serial'
  BY <1>3, <1>6, CounterNames DEF CountInv, Serial, Numbered, queue
<1>9. Balanced'
  <2>1. Total("resolved") \in Nat /\ Total("enqueued") \in Nat /\ Len(targets) \in Nat
    BY <1>4, TotalType, CounterNames DEF CountInv
  <2>2. Held' = Held /\ Counted' = Counted
    BY <1>3, <1>6, <1>7, CounterNames DEF Held, Counted, queue
  <2>3. Total("enqueued")' = Total("enqueued")
        /\ Total("resolved")' = Total("resolved") + Cardinality(found)
    BY <1>6, CounterNames
  <2>4. Total("resolved") = Total("enqueued") + Len(targets) /\ Total("enqueued") = Held + Counted
    BY DEF CountInv, Balanced
  <2>5. Total("resolved")' = Total("enqueued")' + Len(targets')
    BY <1>2, <1>5, <2>1, <2>3, <2>4
  <2> QED BY <2>2, <2>3, <2>4, <2>5 DEF Balanced
<1> QED BY <1>8, <1>9

LEMMA EnqueueCounts ==
  ASSUME CountInv, Enqueue
  PROVE  Serial' /\ Balanced'
<1> DEFINE item == [n |-> Total("enqueued") + 1, device |-> Head(targets)]
<1>1. /\ targets # <<>> /\ targets' = Tail(targets)
      /\ \/ Len(channel) < Capacity /\ channel' = Append(channel, item) /\ UNCHANGED missed
         \/ Len(channel) = Capacity /\ channel' = Append(Tail(channel), item) /\ missed' = missed + 1
      /\ Count("enqueued", 1)
      /\ UNCHANGED <<batch, deliveries, logged>>
  BY Zenon DEF Enqueue, worker, reporter
<1>2. Total("enqueued") \in Nat
  BY TotalType, CounterNames DEF CountInv
<1>3. \A c \in ToSet(Counters) : Total(c)' = IF c = "enqueued" THEN Total(c) + 1 ELSE Total(c)
  BY <1>1, CountTotal, CounterNames DEF CountInv
<1>4. Total("enqueued")' = Total("enqueued") + 1
  BY <1>3, CounterNames
<1>5. /\ targets \in Seq(UserDevice) /\ channel \in Seq(Item) /\ missed \in Nat
      /\ Capacity \in Nat /\ Capacity > 0
      /\ \A j \in 1..Len(channel) : channel[j].n \in Nat
  <2>1. \A j \in 1..Len(channel) : channel[j] \in Item
    BY DEF CountInv, TypeInv, TypeOK
  <2> QED BY <2>1, SnsAssumption DEF CountInv, TypeInv, TypeOK, Item
<1>6. item \in Item /\ item.n = Total("enqueued") + 1
  <2>1. Head(targets) \in UserDevice
    BY <1>1, <1>5
  <2> QED BY <1>2, <2>1 DEF Item
<1> HIDE DEF item
\* The channel after it: what was kept of it, and the item behind.
<1>7. \E kept \in Seq(Item) :
        /\ channel' = Append(kept, item)
        /\ missed' + Len(kept) = missed + Len(channel)
        /\ \E k \in {0, 1} : /\ Len(kept) = Len(channel) - k
                             /\ \A j \in 1..Len(kept) : kept[j] = channel[j + k]
  <2>1. CASE Len(channel) < Capacity /\ channel' = Append(channel, item) /\ UNCHANGED missed
    <3>1. \A j \in 1..Len(channel) : channel[j] = channel[j + 0]
      BY <1>5
    <3>2. Len(channel) = Len(channel) - 0
      BY <1>5
    <3> QED BY <1>5, <2>1, <3>1, <3>2
  <2>2. CASE Len(channel) = Capacity /\ channel' = Append(Tail(channel), item) /\ missed' = missed + 1
    <3>1. /\ Tail(channel) \in Seq(Item) /\ Len(Tail(channel)) = Len(channel) - 1
          /\ \A j \in 1..Len(Tail(channel)) : Tail(channel)[j] = channel[j + 1]
      BY <1>5, <2>2
    <3>2. missed' + Len(Tail(channel)) = missed + Len(channel)
      <4>1. Len(channel) \in Nat /\ missed' = missed + 1
        BY <1>5, <2>2
      <4> QED BY <1>5, <3>1, <4>1
    <3> QED BY <2>2, <3>1, <3>2
  <2> QED BY <1>1, <2>1, <2>2
<1>8. PICK kept \in Seq(Item), k \in {0, 1} :
        /\ channel' = Append(kept, item)
        /\ missed' + Len(kept) = missed + Len(channel)
        /\ Len(kept) = Len(channel) - k
        /\ \A j \in 1..Len(kept) : kept[j] = channel[j + k]
  BY <1>7
<1>9. /\ Len(channel') = Len(kept) + 1 /\ Len(kept) \in Nat
      /\ \A j \in 1..Len(kept) : channel'[j] = channel[j + k] /\ j + k \in 1..Len(channel)
      /\ channel'[Len(kept) + 1] = item
  BY <1>5, <1>6, <1>8
<1>10. Serial'
  <2>1. Numbered(channel')
    <3> SUFFICES ASSUME NEW i \in 1..Len(kept) + 1, NEW j \in 1..Len(kept) + 1, i < j
                 PROVE  channel'[i].n < channel'[j].n
      BY <1>9 DEF Numbered
    <3>1. i \in 1..Len(kept)
      BY <1>9
    <3>2. channel'[i] = channel[i + k] /\ i + k \in 1..Len(channel)
      BY <1>9, <3>1
    <3>3. CASE j = Len(kept) + 1
      BY <1>2, <1>5, <1>6, <1>9, <3>2, <3>3 DEF CountInv, Serial
    <3>4. CASE j # Len(kept) + 1
      <4>1. j \in 1..Len(kept)
        BY <1>9, <3>4
      <4>2. channel'[j] = channel[j + k] /\ j + k \in 1..Len(channel) /\ i + k < j + k
        BY <1>9, <4>1
      <4> QED BY <3>2, <4>2 DEF CountInv, Serial, Numbered
    <3> QED BY <3>3, <3>4
  <2>2. \A j \in 1..Len(channel') : channel'[j].n <= Total("enqueued")'
    <3> SUFFICES ASSUME NEW j \in 1..Len(kept) + 1 PROVE channel'[j].n <= Total("enqueued") + 1
      BY <1>4, <1>9
    <3>1. CASE j = Len(kept) + 1
      BY <1>2, <1>6, <1>9, <3>1
    <3>2. CASE j # Len(kept) + 1
      <4>1. channel'[j] = channel[j + k] /\ j + k \in 1..Len(channel)
        BY <1>9, <3>2
      <4> QED BY <1>2, <1>5, <4>1 DEF CountInv, Serial
    <3> QED BY <3>1, <3>2
  <2>3. \A i \in 1..Len(batch) : batch[i].n \in Nat /\ batch[i].n <= Total("enqueued")
    <3>1. \A i \in 1..Len(batch) : batch[i] \in Item
      BY DEF CountInv, TypeInv, TypeOK
    <3> QED BY <3>1 DEF CountInv, Serial, Item
  <2>4. \A i \in 1..Len(batch), j \in 1..Len(channel') : batch[i].n < channel'[j].n
    <3> SUFFICES ASSUME NEW i \in 1..Len(batch), NEW j \in 1..Len(kept) + 1
                 PROVE  batch[i].n < channel'[j].n
      BY <1>9
    <3>1. CASE j = Len(kept) + 1
      BY <1>2, <1>6, <1>9, <2>3, <3>1
    <3>2. CASE j # Len(kept) + 1
      <4>1. channel'[j] = channel[j + k] /\ j + k \in 1..Len(channel)
        BY <1>9, <3>2
      <4> QED BY <4>1 DEF CountInv, Serial
    <3> QED BY <3>1, <3>2
  <2>5. \A i \in 1..Len(batch) : batch[i].n <= Total("enqueued")'
    BY <1>2, <1>4, <2>3
  <2> QED BY <1>1, <2>1, <2>2, <2>4, <2>5 DEF CountInv, Serial
<1>11. Balanced'
  <2> DEFINE a == Len(channel)
             a1 == Len(channel')
             b == Len(batch)
             p == Cardinality(Publishing)
             m1 == missed'
  <2>1. a \in Nat /\ b \in Nat /\ p \in Nat /\ missed \in Nat /\ Held \in Nat
    BY HeldType DEF CountInv
  <2>2. m1 + a1 = missed + a + 1 /\ m1 \in Nat /\ a1 \in Nat
    <3>1. m1 \in Nat /\ m1 + Len(kept) = missed + a
      BY <1>1, <1>5, <1>8
    <3>2. a1 = Len(kept) + 1 /\ Len(kept) \in Nat
      BY <1>9
    <3> HIDE DEF a, a1, m1
    <3> QED BY <2>1, <3>1, <3>2
  <2>3. Held = missed + a + b + p /\ Held' = m1 + a1 + b + p
    BY <1>1 DEF Held, Publishing
  <2>4. Held' = Held + 1
    <3> HIDE DEF a, a1, b, p, m1
    <3> QED BY <2>1, <2>2, <2>3
  <2>5. Counted' = Counted /\ Total("resolved")' = Total("resolved")
    BY <1>3, CounterNames DEF Counted
  <2>6. Len(targets') = Len(targets) - 1 /\ Len(targets) \in Nat
    BY <1>1, <1>5
  <2>7. Total("resolved") = Total("enqueued") + Len(targets) /\ Total("enqueued") = Held + Counted
    BY DEF CountInv, Balanced
  <2>8. Total("resolved")' = Total("enqueued")' + Len(targets')
    BY <1>2, <1>4, <2>5, <2>6, <2>7
  <2>9. Counted \in Nat
    BY CountedType DEF CountInv
  <2>10. Total("enqueued")' = Held' + Counted'
    BY <1>2, <1>4, <2>1, <2>4, <2>5, <2>7, <2>9
  <2> QED BY <2>8, <2>10 DEF Balanced
<1> QED BY <1>10, <1>11

\* Where no total changes, what the worker holds must not change either.
LEMMA HeldStays ==
  ASSUME CountInv, Held' = Held, UNCHANGED <<targets, metrics, logged>>
  PROVE  Balanced'
BY DEF CountInv, Balanced, Counted, Total

LEMMA LagCounts ==
  ASSUME CountInv, ReceiveLag
  PROVE  Serial' /\ Balanced'
<1>1. /\ missed' = 0 /\ Count("lagged", missed)
      /\ UNCHANGED <<targets, channel, batch, deliveries, logged>>
  BY DEF ReceiveLag, dispatcher, worker, reporter
<1>2. /\ missed \in Nat /\ Len(channel) \in Nat /\ Len(batch) \in Nat
      /\ Cardinality(Publishing) \in Nat /\ Held \in Nat /\ Counted \in Nat
      /\ Total("enqueued") \in Nat
  BY HeldType, CountedType, TotalType, CounterNames DEF CountInv
<1>3. /\ Counted' = Counted + missed
      /\ Total("resolved")' = Total("resolved") /\ Total("enqueued")' = Total("enqueued")
  BY <1>1, <1>2, CountedMoves DEF CountInv
<1>4. Held' + missed = Held
  <2> DEFINE a == Len(channel)
             b == Len(batch)
             p == Cardinality(Publishing)
  <2>1. Held = missed + a + b + p /\ Held' = 0 + a + b + p
    BY <1>1 DEF Held, Publishing
  <2>2. a \in Nat /\ b \in Nat /\ p \in Nat
    BY <1>2
  <2> HIDE DEF a, b, p
  <2> QED BY <1>2, <2>1, <2>2
<1>5. Serial'
  BY <1>1, <1>3 DEF CountInv, Serial, Numbered
<1>6. Balanced'
  <2>1. Total("resolved") = Total("enqueued") + Len(targets) /\ Total("enqueued") = Held + Counted
    BY DEF CountInv, Balanced
  <2>2. Total("enqueued") = Held' + missed + Counted
    BY <1>4, <2>1
  <2>3. Held' \in Nat
    <3>1. Held' = Len(channel) + Len(batch) + Cardinality(Publishing)
      BY <1>1, <1>2 DEF Held, Publishing
    <3> QED BY <1>2, <3>1
  <2>4. Total("enqueued")' = Held' + Counted'
    BY <1>2, <1>3, <2>2, <2>3
  <2> QED BY <1>1, <1>3, <2>1, <2>4 DEF Balanced
<1> QED BY <1>5, <1>6

LEMMA ReceiveCounts ==
  ASSUME CountInv, Receive
  PROVE  Serial' /\ Balanced'
<1> DEFINE items == Append(batch, Head(channel))
           a == Len(channel)
           b == Len(batch)
<1>1. /\ phase \in {"waiting", "collecting"} /\ missed = 0 /\ channel # <<>>
      /\ channel' = Tail(channel)
      /\ IF phase = "collecting" /\ Len(items) >= BatchSize
         THEN Deliver(items)
         ELSE phase' = "collecting" /\ batch' = items /\ UNCHANGED deliveries
      /\ UNCHANGED <<targets, missed, metrics, logged>>
  BY DEF Receive, dispatcher, reporter
<1>2. /\ channel \in Seq(Item) /\ batch \in Seq(Item) /\ deliveries = {} /\ missed \in Nat
  BY <1>1 DEF CountInv, TypeInv, TypeOK, Hands
<1>3. a \in Nat /\ a > 0 /\ b \in Nat
  BY <1>1, <1>2
<1>4. /\ Len(channel') = a - 1
      /\ \A j \in 1..(a - 1) : channel'[j] = channel[j + 1] /\ j + 1 \in 1..a
      /\ Head(channel) = channel[1] /\ 1 \in 1..a
  BY <1>1, <1>2, <1>3
<1>5. /\ items \in Seq(Item) /\ Len(items) = b + 1
      /\ \A i \in 1..b : items[i] = batch[i]
      /\ items[b + 1] = channel[1]
  BY <1>1, <1>2, <1>4
<1> HIDE DEF items
<1>6. Total("enqueued")' = Total("enqueued")
  BY <1>1 DEF Total
<1>7. Numbered(items)
  <2> SUFFICES ASSUME NEW i \in 1..(b + 1), NEW j \in 1..(b + 1), i < j
               PROVE  items[i].n < items[j].n
    BY <1>5 DEF Numbered
  <2>1. i \in 1..b
    BY <1>3
  <2>2. CASE j = b + 1
    BY <1>4, <1>5, <2>1, <2>2 DEF CountInv, Serial
  <2>3. CASE j # b + 1
    <3>1. j \in 1..b
      BY <1>3, <2>3
    <3> QED BY <1>5, <2>1, <3>1 DEF CountInv, Serial, Numbered
  <2> QED BY <2>2, <2>3
<1>8. Numbered(channel')
  <2> SUFFICES ASSUME NEW i \in 1..(a - 1), NEW j \in 1..(a - 1), i < j
               PROVE  channel'[i].n < channel'[j].n
    BY <1>4 DEF Numbered
  <2>1. /\ channel'[i] = channel[i + 1] /\ i + 1 \in 1..a
        /\ channel'[j] = channel[j + 1] /\ j + 1 \in 1..a /\ i + 1 < j + 1
    BY <1>3, <1>4
  <2> QED BY <2>1 DEF CountInv, Serial, Numbered
<1>9. \A i \in 1..(b + 1), j \in 1..(a - 1) : items[i].n < channel'[j].n
  <2> SUFFICES ASSUME NEW i \in 1..(b + 1), NEW j \in 1..(a - 1)
               PROVE  items[i].n < channel'[j].n
    OBVIOUS
  <2>1. channel'[j] = channel[j + 1] /\ j + 1 \in 1..a /\ 1 < j + 1
    BY <1>3, <1>4
  <2>2. CASE i = b + 1
    BY <1>4, <1>5, <2>1, <2>2 DEF CountInv, Serial, Numbered
  <2>3. CASE i # b + 1
    <3>1. i \in 1..b
      BY <1>3, <2>3
    <3> QED BY <1>5, <2>1, <3>1 DEF CountInv, Serial
  <2> QED BY <2>2, <2>3
<1>10. \A i \in 1..(b + 1) : items[i].n <= Total("enqueued")
  <2> SUFFICES ASSUME NEW i \in 1..(b + 1) PROVE items[i].n <= Total("enqueued")
    OBVIOUS
  <2>1. CASE i = b + 1
    BY <1>4, <1>5, <2>1 DEF CountInv, Serial
  <2>2. CASE i # b + 1
    <3>1. i \in 1..b
      BY <1>3, <2>2
    <3> QED BY <1>5, <3>1 DEF CountInv, Serial
  <2> QED BY <2>1, <2>2
<1>11. \A j \in 1..(a - 1) : channel'[j].n <= Total("enqueued")'
  BY <1>4, <1>6 DEF CountInv, Serial
<1>12. Publishing = {} /\ Cardinality({}) = 0
  BY <1>2, FS_EmptySet DEF Publishing
<1>13. Held = missed + a + b
  BY <1>2, <1>3, <1>12 DEF Held
<1>14. CASE phase = "collecting" /\ Len(items) >= BatchSize
  <2>1. /\ batch' = <<>> /\ Len(batch') = 0
        /\ IsFiniteSet(deliveries') /\ Cardinality(deliveries') = b + 1
        /\ \A d, e \in deliveries' : d.item.n = e.item.n => d = e
        /\ Publishing' = deliveries'
    <3>1. Deliver(items)
      BY <1>1, <1>14
    <3> QED BY <1>5, <1>7, <3>1, DeliverCounts DEF Deliver
  <2>2. Serial'
    BY <1>4, <1>8, <1>11, <2>1 DEF Serial, Numbered
  <2>3. Held' = missed + (a - 1) + 0 + (b + 1)
    BY <1>1, <1>4, <2>1 DEF Held
  <2>4. Held' = Held
    <3> HIDE DEF a, b
    <3> QED BY <1>2, <1>3, <1>13, <2>3
  <2> QED BY <1>1, <2>2, <2>4, HeldStays
<1>15. CASE ~(phase = "collecting" /\ Len(items) >= BatchSize)
  <2>1. batch' = items /\ deliveries' = {} /\ Publishing' = {}
    BY <1>1, <1>2, <1>15 DEF Publishing
  <2>2. IsFiniteSet({})
    BY FS_EmptySet
  <2>3. Serial'
    BY <1>4, <1>5, <1>6, <1>7, <1>8, <1>9, <1>10, <1>11, <2>1, <2>2 DEF Serial
  <2>4. Held' = missed + (a - 1) + (b + 1) + 0
    BY <1>1, <1>4, <1>5, <1>12, <2>1 DEF Held
  <2>5. Held' = Held
    <3> HIDE DEF a, b
    <3> QED BY <1>2, <1>3, <1>13, <2>4
  <2> QED BY <1>1, <2>3, <2>5, HeldStays
<1> QED BY <1>14, <1>15

LEMMA TimeoutCounts ==
  ASSUME CountInv, BatchTimeout
  PROVE  Serial' /\ Balanced'
<1>1. /\ phase = "collecting" /\ Deliver(batch)
      /\ UNCHANGED <<targets, channel, missed, metrics, logged>>
  BY DEF BatchTimeout, dispatcher, queue, reporter
<1>2. batch \in Seq(Item) /\ deliveries = {} /\ missed \in Nat /\ Len(channel) \in Nat
      /\ Len(batch) \in Nat
  BY <1>1 DEF CountInv, TypeInv, TypeOK, Hands
<1>3. /\ batch' = <<>> /\ Len(batch') = 0
      /\ IsFiniteSet(deliveries') /\ Cardinality(deliveries') = Len(batch)
      /\ \A d, e \in deliveries' : d.item.n = e.item.n => d = e
      /\ Publishing' = deliveries'
  BY <1>1, <1>2, DeliverCounts DEF CountInv, Serial, Deliver
<1>4. Total("enqueued")' = Total("enqueued")
  BY <1>1 DEF Total
<1>5. Serial'
  BY <1>1, <1>3, <1>4 DEF CountInv, Serial, Numbered
<1>6. Held' = Held
  <2>1. Publishing = {} /\ Cardinality({}) = 0
    BY <1>2, FS_EmptySet DEF Publishing
  <2>2. Held = missed + Len(channel) + Len(batch) + 0
    BY <2>1 DEF Held
  <2>3. Held' = missed + Len(channel) + 0 + Len(batch)
    BY <1>1, <1>3 DEF Held
  <2> QED BY <1>2, <2>2, <2>3
<1> QED BY <1>1, <1>5, <1>6, HeldStays

\* A delivery that ends, or goes on under its number.
LEMMA SerialGoesOn ==
  ASSUME CountInv, NEW d \in deliveries,
         \/ deliveries' = deliveries \ {d}
         \/ \E e \in Delivery : e.item = d.item /\ Becomes(d, e),
         UNCHANGED <<channel, batch>>, Total("enqueued")' = Total("enqueued")
  PROVE  Serial'
<1>1. IsFiniteSet(deliveries \ {d})
  BY FS_RemoveElement DEF CountInv, Serial
<1>2. CASE deliveries' = deliveries \ {d}
  BY <1>1, <1>2 DEF CountInv, Serial, Numbered
<1>3. CASE \E e \in Delivery : e.item = d.item /\ Becomes(d, e)
  <2>1. PICK e \in Delivery : e.item = d.item /\ deliveries' = (deliveries \ {d}) \cup {e}
    BY <1>3 DEF Becomes
  <2>2. IsFiniteSet(deliveries')
    BY <1>1, <2>1, FS_AddElement
  <2>3. \A f \in deliveries \ {d} : f.item.n # d.item.n
    BY DEF CountInv, Serial
  <2>4. \A f, g \in deliveries' : f.item.n = g.item.n => f = g
    BY <2>1, <2>3 DEF CountInv, Serial
  <2> QED BY <2>2, <2>4 DEF CountInv, Serial, Numbered
<1> QED BY <1>2, <1>3

LEMMA PublishCounts ==
  ASSUME CountInv, NEW d \in deliveries, Publish(d)
  PROVE  Serial' /\ Balanced'
<1>1. /\ Answered(d) /\ d.pc = "publishing"
      /\ UNCHANGED <<targets, channel, missed, batch, logged>>
  BY PublishAnswered DEF Publish, dispatcher, queue, reporter
<1>2. d \in Delivery
  BY DEF CountInv, TypeInv, TypeOK
<1>3. d \in Publishing
  BY <1>1 DEF Publishing
<1>4. /\ IsFiniteSet(Publishing) /\ Cardinality(Publishing) \in Nat
      /\ missed \in Nat /\ Len(channel) \in Nat /\ Len(batch) \in Nat
      /\ Held \in Nat /\ Counted \in Nat /\ Total("enqueued") \in Nat
  BY HeldType, CountedType, TotalType, CounterNames DEF CountInv
<1>5. Cardinality(Publishing \ {d}) = Cardinality(Publishing) - 1
      /\ IsFiniteSet(Publishing \ {d})
  BY <1>3, <1>4, FS_RemoveElement
<1>6. CASE d.tries < MaxRetries /\ Becomes(d, [d EXCEPT !.tries = @ + 1]) /\ UNCHANGED metrics
  <2> DEFINE e == [d EXCEPT !.tries = @ + 1]
  <2>1. e.item = d.item /\ e.pc = "publishing" /\ e \in Delivery
    <3>1. d.tries \in 0..MaxRetries
      BY <1>2 DEF Delivery
    <3>2. d.tries + 1 \in 0..MaxRetries
      BY <1>6, <3>1, SnsAssumption
    <3>3. e.item = d.item /\ e.pc = d.pc
      BY <1>2 DEF Delivery
    <3> QED BY <1>1, <1>2, <3>2, <3>3 DEF Delivery
  <2>2. Becomes(d, e)
    BY <1>6
  <2> HIDE DEF e
  <2>3. Total("enqueued")' = Total("enqueued")
    BY <1>1, <1>6 DEF Total
  <2>4. Serial'
    BY <1>1, <2>1, <2>2, <2>3, SerialGoesOn
  <2>5. Publishing' = (Publishing \ {d}) \cup {e}
    BY <2>1, <2>2 DEF Publishing, Becomes
  <2>6. e \notin Publishing \ {d}
    BY <2>1 DEF CountInv, Serial, Publishing
  <2>7. Cardinality(Publishing') = Cardinality(Publishing) - 1 + 1
    BY <1>5, <2>5, <2>6, FS_AddElement
  <2>8. Cardinality(Publishing') = Cardinality(Publishing)
    BY <1>4, <2>7
  <2>9. Held' = Held
    BY <1>1, <2>8 DEF Held
  <2> QED BY <1>1, <1>6, <2>4, <2>9, HeldStays
<1>7. ASSUME NEW m \in {"published", "failed"}, Count(m, 1),
             \/ Finished(d)
             \/ Becomes(d, [d EXCEPT !.pc = "marking"])
      PROVE  Serial' /\ Balanced'
  <2>1. /\ Counted' = Counted + 1
        /\ Total("resolved")' = Total("resolved") /\ Total("enqueued")' = Total("enqueued")
    BY <1>1, <1>7, CountedMoves DEF CountInv
  <2>2. [d EXCEPT !.pc = "marking"] \in Delivery
        /\ [d EXCEPT !.pc = "marking"].item = d.item /\ [d EXCEPT !.pc = "marking"].pc = "marking"
    BY <1>2 DEF Delivery
  <2>3. Serial'
    BY <1>1, <1>7, <2>1, <2>2, SerialGoesOn DEF Finished
  <2>4. Publishing' = Publishing \ {d}
    BY <1>7, <2>2 DEF Publishing, Finished, Becomes
  <2>5. Held = missed + Len(channel) + Len(batch) + Cardinality(Publishing)
        /\ Held' = missed + Len(channel) + Len(batch) + (Cardinality(Publishing) - 1)
    BY <1>1, <1>5, <2>4 DEF Held
  <2>6. Held' = Held - 1
    <3> DEFINE a == Len(channel)
               b == Len(batch)
               p == Cardinality(Publishing)
    <3>1. Held = missed + a + b + p /\ Held' = missed + a + b + (p - 1)
      BY <2>5
    <3>2. a \in Nat /\ b \in Nat /\ p \in Nat
      BY <1>4
    <3> HIDE DEF a, b, p
    <3> QED BY <1>4, <3>1, <3>2
  <2>7. Total("enqueued") = Held + Counted /\ Total("resolved") = Total("enqueued") + Len(targets)
    BY DEF CountInv, Balanced
  <2>8. Total("enqueued")' = Held' + Counted'
    BY <1>4, <2>1, <2>6, <2>7
  <2> QED BY <1>1, <2>1, <2>3, <2>7, <2>8 DEF Balanced
<1> QED BY <1>1, <1>6, <1>7 DEF Answered

LEMMA RemovalCounts ==
  ASSUME CountInv, NEW d \in deliveries, MarkInactive(d) \/ RemoveFromCache(d)
  PROVE  Serial' /\ Balanced'
<1>1. /\ d.pc \in {"marking", "removing"}
      /\ \/ Becomes(d, [d EXCEPT !.pc = "removing"])
         \/ Finished(d)
      /\ UNCHANGED <<targets, channel, missed, batch, metrics, logged>>
  BY DEF MarkInactive, RemoveFromCache, dispatcher, queue, reporter
<1>2. [d EXCEPT !.pc = "removing"] \in Delivery
      /\ [d EXCEPT !.pc = "removing"].item = d.item /\ [d EXCEPT !.pc = "removing"].pc = "removing"
  BY DEF CountInv, TypeInv, TypeOK, Delivery
<1>3. Total("enqueued")' = Total("enqueued")
  BY <1>1 DEF Total
<1>4. Serial'
  BY <1>1, <1>2, <1>3, SerialGoesOn DEF Finished
<1>5. Publishing' = Publishing
  BY <1>1, <1>2 DEF Publishing, Becomes, Finished
<1>6. Held' = Held
  BY <1>1, <1>5 DEF Held
<1> QED BY <1>1, <1>4, <1>6, HeldStays

LEMMA NextCounts == CountInv /\ [Next]_vars => CountInv'
<1> SUFFICES ASSUME CountInv, [Next]_vars PROVE Serial' /\ Balanced'
  BY NextTypes DEF CountInv
<1>1. ASSUME UNCHANGED <<targets, queue, batch, deliveries, metrics, logged>>
      PROVE  Serial' /\ Balanced'
  <2>1. \A c \in ToSet(Counters) : Total(c)' = Total(c)
    BY <1>1 DEF Total
  <2> QED BY <1>1, <2>1, CountFrame
<1>2. CASE UNCHANGED vars
  BY <1>1, <1>2 DEF vars, dispatcher, worker, reporter
<1>3. CASE \/ \E id \in DeviceId : Register(id)
           \/ \E a \in Arn : EndpointDies(a)
           \/ ConsumeDevice
  BY <1>1, <1>3 DEF Register, EndpointDies, ConsumeDevice, dispatcher, worker, reporter
<1>4. CASE \E x \in Unit : Dispatch(x)
  BY <1>1, <1>4 DEF Dispatch, worker, reporter
<1>5. CASE Dispatcher
  BY <1>5, LookUpCounts, EnqueueCounts DEF Dispatcher
<1>6. CASE ReceiveLag \/ Receive \/ BatchTimeout
  BY <1>6, LagCounts, ReceiveCounts, TimeoutCounts
<1>7. CASE BatchDone
  BY <1>1, <1>7 DEF BatchDone, dispatcher, reporter
<1>8. CASE \E d \in deliveries : ProcessSnsDelivery(d)
  BY <1>8, PublishCounts, RemovalCounts DEF ProcessSnsDelivery
<1>9. CASE StartReport
  BY <1>1, <1>9 DEF StartReport, dispatcher, worker
<1>10. CASE TakeCounter
  <2>1. \A c \in ToSet(Counters) : Total(c)' = Total(c)
    BY <1>10, TakeTotal DEF CountInv
  <2>2. UNCHANGED <<targets, queue, batch, deliveries>>
    BY <1>10 DEF TakeCounter, dispatcher, worker
  <2> QED BY <2>1, <2>2, CountFrame
<1> QED
  BY <1>2, <1>3, <1>4, <1>5, <1>6, <1>7, <1>8, <1>9, <1>10 DEF Next, Worker

(***************************************************************************)
(* Every push that was resolved is queued or about to be, and every queued *)
(* one is waiting, in the worker's hands, or was counted lagged, published *)
(* or failed once, whatever the channel, the batches, the retries and the  *)
(* reporter did.                                                           *)
(***************************************************************************)
THEOREM CountsAddUp == Spec => []CountersAddUp
<1>1. CountInv => TypeInv /\ Serial /\ Balanced
  BY DEF CountInv
<1>2. CountInv => CountersAddUp
  BY <1>1, SumsAgree
<1> QED
  BY <1>2, InitCounts, NextCounts, PTL DEF Spec
=============================================================================
