---------------------------- MODULE WebSocketAlerts ----------------------------
(***************************************************************************)
(* Alerts over WebSocket: `ws_handler` and `handle_socket` of              *)
(* src/websocket/handler.rs, one task per connection, against              *)
(* `AlertDispatcher::dispatch_event` of src/websocket/dispatcher.rs, that  *)
(* the alerts consumer awaits for one alert at a time.  They share the     *)
(* ConnectionRegistry and one bounded channel per connection.              *)
(*                                                                         *)
(* A write to a socket waits for the peer and may never return.  Why a     *)
(* connection ends (close frame, error, heartbeat) is not distinguished    *)
(* here: WsHeartbeat models the clock.                                     *)
(***************************************************************************)
EXTENDS ConnectionRegistry, SequencesExt

CONSTANTS
  Org,               \* organizations
  User,              \* people
  NotUuid,           \* a claim that is no UUID
  Authorization,     \* [Conn -> Header]: what each sends at its handshake
  Capacity,          \* WS_CHANNEL_CAPACITY
  HeartbeatInterval, \* WS_HEARTBEAT_INTERVAL_SECS
  FirstAllowed,      \* [Key -> SUBSET Unit]: what each membership sees at first
  MaxAlerts,         \* bound on dispatched alerts
  MaxRevokes         \* bound on changes of permission

INSTANCE JwtValidator

Alert == [n : 1..MaxAlerts, unit : Unit]

(***************************************************************************)
(* AppConfig::from_env parses capacity and interval as unsigned and asks   *)
(* nothing else of them.  The key of a connection is what its token says.  *)
(***************************************************************************)
ASSUME WsAssumption ==
  /\ None \notin Org \cup User /\ NotUuid \notin Org \cup User /\ NotUuid # None
  /\ None \notin Org \X User /\ Key = Org \X User
  /\ Authorization \in [Conn -> Header]
  /\ \A c \in Conn : ValidateBearer(Authorization[c]) \in {KeyOf[c], None}
  /\ Capacity \in Nat /\ HeartbeatInterval \in Nat
  /\ FirstAllowed \in [Key -> SUBSET Unit]
  /\ MaxAlerts \in Nat /\ MaxRevokes \in Nat
  /\ None \notin Alert

VARIABLES
  registry,   \* the ConnectionRegistry
  task,       \* connection -> where handle_socket is
  unit_ids,   \* connection -> units resolved at the handshake
  channel,    \* connection -> alerts in its mpsc channel
  inflight,   \* connection -> alerts handed to ws_sender.send, one at most
  received,   \* connection -> alerts its peer got
  allowed,    \* key -> units that membership may see now (units_for)
  targets,    \* senders still to try for the current alert
  current,    \* the alert being dispatched, or None
  count,      \* alerts dispatched so far
  owed,       \* history: connection -> alerts dispatched while it was registered
  revokes     \* permission changes so far

conns      == <<registry, task, unit_ids, channel, inflight, received>>
dispatcher == <<targets, current, count, owed>>
vars       == <<conns, allowed, dispatcher, revokes>>

Pc == {"none", "refused", "upgrading", "select", "writing", "leaving", "removed", "done",
       "panicked"}

TypeOK ==
  /\ registry \in Registry
  /\ task \in [Conn -> Pc]
  /\ unit_ids \in [Conn -> SUBSET Unit]
  /\ channel \in [Conn -> Seq(Alert)] /\ inflight \in [Conn -> Seq(Alert)]
  /\ received \in [Conn -> Seq(Alert)] /\ owed \in [Conn -> Seq(Alert)]
  /\ \A c \in Conn : Len(channel[c]) <= Capacity /\ Len(inflight[c]) <= 1
  /\ allowed \in [Key -> SUBSET Unit]
  /\ targets \in Seq(Conn)
  /\ current \in Alert \cup {None}
  /\ count \in 0..MaxAlerts
  /\ revokes \in 0..MaxRevokes

NoAlerts == [c \in Conn |-> <<>>]

Init ==
  /\ registry = EmptyRegistry
  /\ task = [c \in Conn |-> "none"]
  /\ unit_ids = [c \in Conn |-> {}]
  /\ channel = NoAlerts /\ inflight = NoAlerts /\ received = NoAlerts
  /\ allowed = FirstAllowed
  /\ targets = <<>> /\ current = None /\ count = 0
  /\ owed = NoAlerts
  /\ revokes = 0

\* The receiver lives until handle_socket returns or unwinds.
ReceiverAlive(c) == task[c] \notin {"done", "panicked"}

-----------------------------------------------------------------------------
(* One connection *)

GoTo(c, pc) == task' = [task EXCEPT ![c] = pc]

Authenticated(c) == ValidateBearer(Authorization[c]) # None

\* 401
Unauthorized(c) ==
  /\ task[c] = "none"
  /\ ~Authenticated(c)
  /\ GoTo(c, "refused")
  /\ UNCHANGED <<registry, unit_ids, channel, inflight, received, allowed, dispatcher,
                 revokes>>

\* 403: a membership with no units, or none at all
Forbidden(c) ==
  /\ task[c] = "none"
  /\ Authenticated(c) /\ allowed[KeyOf[c]] = {}
  /\ GoTo(c, "refused")
  /\ UNCHANGED <<registry, unit_ids, channel, inflight, received, allowed, dispatcher,
                 revokes>>

\* ws_handler: token and units are looked at once.
Handshake(c) ==
  /\ task[c] = "none"
  /\ Authenticated(c) /\ allowed[KeyOf[c]] # {}
  /\ unit_ids' = [unit_ids EXCEPT ![c] = allowed[KeyOf[c]]]
  /\ GoTo(c, "upgrading")
  /\ UNCHANGED <<registry, channel, inflight, received, allowed, dispatcher, revokes>>

\* The client gives up before the upgrade completes.
UpgradeFails(c) ==
  /\ task[c] = "upgrading"
  /\ GoTo(c, "done")
  /\ UNCHANGED <<registry, unit_ids, channel, inflight, received, allowed, dispatcher,
                 revokes>>

(***************************************************************************)
(* mpsc::channel panics on capacity 0, before the connection is            *)
(* registered; tokio::time::interval panics on a period of 0, after it.    *)
(***************************************************************************)
Open(c) ==
  /\ task[c] = "upgrading"
  /\ registry' = IF Capacity = 0 THEN registry
                 ELSE AddConnection(registry, c, unit_ids[c])
  /\ GoTo(c, IF Capacity = 0 \/ HeartbeatInterval = 0 THEN "panicked" ELSE "select")
  /\ UNCHANGED <<unit_ids, channel, inflight, received, allowed, dispatcher, revokes>>

\* receiver.recv(), then ws_sender.send is awaited
Forward(c) ==
  /\ task[c] = "select"
  /\ channel[c] # <<>>
  /\ inflight' = [inflight EXCEPT ![c] = <<Head(channel[c])>>]
  /\ channel' = [channel EXCEPT ![c] = Tail(@)]
  /\ GoTo(c, "writing")
  /\ UNCHANGED <<registry, unit_ids, received, allowed, dispatcher, revokes>>

\* A Ping of the heartbeat, or the Pong that answers the peer's Ping.
WriteControlFrame(c) ==
  /\ task[c] = "select"
  /\ GoTo(c, "writing")
  /\ UNCHANGED <<registry, unit_ids, channel, inflight, received, allowed, dispatcher,
                 revokes>>

Written(c) ==
  /\ task[c] = "writing"
  /\ received' = [received EXCEPT ![c] = @ \o inflight[c]]
  /\ inflight' = [inflight EXCEPT ![c] = <<>>]
  /\ GoTo(c, "select")
  /\ UNCHANGED <<registry, unit_ids, channel, allowed, dispatcher, revokes>>

\* Mutation: `return` where the loop has `break`.
Leave_Returns(c) ==
  /\ task[c] \in {"select", "writing"}
  /\ GoTo(c, "done")
  /\ UNCHANGED <<registry, unit_ids, channel, inflight, received, allowed, dispatcher,
                 revokes>>

\* Every `break` of the loop: the write failed, or select! saw the end.
Leave(c) ==
  /\ task[c] \in {"select", "writing"}
  /\ GoTo(c, "leaving")
  /\ UNCHANGED <<registry, unit_ids, channel, inflight, received, allowed, dispatcher,
                 revokes>>

\* Mutation: the entry is left to the dispatcher.
Unregister_Forgotten(c) ==
  /\ task[c] = "leaving"
  /\ GoTo(c, "removed")
  /\ UNCHANGED <<registry, unit_ids, channel, inflight, received, allowed, dispatcher,
                 revokes>>

Unregister(c) ==
  /\ task[c] = "leaving"
  /\ registry' = RemoveConnection(registry, c)
  /\ GoTo(c, "removed")
  /\ UNCHANGED <<unit_ids, channel, inflight, received, allowed, dispatcher, revokes>>

\* handle_socket returns and drops the receiver with what it still holds.
Return(c) ==
  /\ task[c] = "removed"
  /\ GoTo(c, "done")
  /\ UNCHANGED <<registry, unit_ids, channel, inflight, received, allowed, dispatcher,
                 revokes>>

-----------------------------------------------------------------------------
(* The dispatcher *)

\* senders_for_unit clones the senders; the lock is released before the first send.
Dispatch(x) ==
  /\ current = None
  /\ count < MaxAlerts
  /\ count' = count + 1
  /\ LET ids == SendersForUnit(registry, x)
         a   == [n |-> count + 1, unit |-> x]
     IN /\ targets' = ids
        /\ current' = IF ids = <<>> THEN None ELSE a
        /\ owed' = [c \in Conn |-> IF c \in ToSet(ids) THEN Append(owed[c], a) ELSE owed[c]]
  /\ UNCHANGED <<conns, allowed, revokes>>

NextTarget ==
  /\ targets' = Tail(targets)
  /\ current' = IF Len(targets) = 1 THEN None ELSE current
  /\ UNCHANGED <<count, owed>>

\* Mutation: `send`, that waits for room, instead of `try_send`.
TrySend_Blocks ==
  /\ targets # <<>>
  /\ LET c == Head(targets)
     IN /\ ReceiverAlive(c) => Len(channel[c]) < Capacity
        /\ IF ReceiverAlive(c)
           THEN /\ channel' = [channel EXCEPT ![c] = Append(@, current)]
                /\ UNCHANGED registry
           ELSE /\ registry' = RemoveConnection(registry, c)
                /\ UNCHANGED channel
  /\ NextTarget
  /\ UNCHANGED <<task, unit_ids, inflight, received, allowed, revokes>>

\* Mutation: one full channel ends the dispatch for the senders behind it.
TrySend_GivesUp ==
  /\ targets # <<>>
  /\ LET c    == Head(targets)
         full == ReceiverAlive(c) /\ Len(channel[c]) = Capacity
     IN /\ registry' = IF ReceiverAlive(c) THEN registry ELSE RemoveConnection(registry, c)
        /\ channel' = IF ReceiverAlive(c) /\ ~full
                      THEN [channel EXCEPT ![c] = Append(@, current)] ELSE channel
        /\ targets' = IF full THEN <<>> ELSE Tail(targets)
        /\ current' = IF full \/ Len(targets) = 1 THEN None ELSE current
  /\ UNCHANGED <<count, owed, task, unit_ids, inflight, received, allowed, revokes>>

\* Mutation: an unbounded channel.
TrySend_Unbounded ==
  /\ targets # <<>>
  /\ LET c == Head(targets)
     IN IF ReceiverAlive(c)
        THEN channel' = [channel EXCEPT ![c] = Append(@, current)] /\ UNCHANGED registry
        ELSE registry' = RemoveConnection(registry, c) /\ UNCHANGED channel
  /\ NextTarget
  /\ UNCHANGED <<task, unit_ids, inflight, received, allowed, revokes>>

\* try_send: queued, dropped because the channel is full, or closed and cleaned up.
TrySend ==
  /\ targets # <<>>
  /\ LET c == Head(targets)
     IN \/ /\ ReceiverAlive(c)
           /\ Len(channel[c]) < Capacity
           /\ channel' = [channel EXCEPT ![c] = Append(@, current)]
           /\ UNCHANGED registry
        \/ /\ ReceiverAlive(c)
           /\ Len(channel[c]) = Capacity
           /\ UNCHANGED <<registry, channel>>
        \/ /\ ~ReceiverAlive(c)
           /\ registry' = RemoveConnection(registry, c)
           /\ UNCHANGED channel
  /\ NextTarget
  /\ UNCHANGED <<task, unit_ids, inflight, received, allowed, revokes>>

\* The control plane changes what a membership may see.
ChangePermission(k) ==
  /\ revokes < MaxRevokes
  /\ revokes' = revokes + 1
  /\ \E units \in SUBSET Unit : allowed' = [allowed EXCEPT ![k] = units]
  /\ UNCHANGED <<conns, dispatcher>>

Connection(c) ==
  \/ Unauthorized(c) \/ Forbidden(c) \/ Handshake(c) \/ UpgradeFails(c) \/ Open(c)
  \/ Forward(c) \/ WriteControlFrame(c) \/ Written(c)
  \/ Leave(c) \/ Unregister(c) \/ Return(c)

Next ==
  \/ \E c \in Conn : Connection(c)
  \/ \E k \in Key : ChangePermission(k)
  \/ \E x \in Unit : Dispatch(x)
  \/ TrySend

Spec == Init /\ [][Next]_vars

(***************************************************************************)
(* The runtime runs what is ready: the dispatcher, and a connection that   *)
(* has left its loop.  A write waits for the peer, so Written has no       *)
(* fairness; nothing makes alerts come or connections end.                 *)
(***************************************************************************)
FairSpec ==
  /\ Spec
  /\ WF_vars(TrySend)
  /\ \A c \in Conn : WF_vars(Unregister(c)) /\ WF_vars(Return(c))

-----------------------------------------------------------------------------
(* Properties *)

(***************************************************************************)
(* The three maps of the registry agree, although the dispatcher may       *)
(* remove a connection the task removes too: a connection is in each list  *)
(* it belongs to once, and in no list when it is not registered.           *)
(***************************************************************************)
RegistryIndexed == Indexed(registry)

(***************************************************************************)
(* A registered connection has a task that will take it out: no path out   *)
(* of handle_socket leaves an entry behind.                                *)
(***************************************************************************)
NoOrphan ==
  \A c \in Registered(registry) : task[c] \in {"select", "writing", "leaving"}

Flow(c) == received[c] \o inflight[c] \o channel[c]

InOrder(seq) == \A i, j \in 1..Len(seq) : i < j => seq[i].n < seq[j].n

(***************************************************************************)
(* What a peer sees, with what is on its way to it, is in dispatch order   *)
(* without repetitions, and only of units resolved at its handshake.       *)
(***************************************************************************)
FlowsInOrder ==
  \A c \in Conn :
    /\ InOrder(Flow(c))
    /\ \A a \in ToSet(Flow(c)) : a.unit \in unit_ids[c] /\ a \in ToSet(owed[c])

\* The room of a channel was never the limit for c.
NeverFull(c) == Len(owed[c]) <= Capacity

(***************************************************************************)
(* A slow peer costs the others nothing: a connection in its loop that was *)
(* owed no more alerts than its channel holds has or will get every one,   *)
(* whatever happened to the senders tried before it.                       *)
(***************************************************************************)
NothingLostWithRoom ==
  \A c \in Conn :
    task[c] \in {"select", "writing"} /\ NeverFull(c) /\ c \notin ToSet(targets)
      => Flow(c) = owed[c]

(***************************************************************************)
(* Every dispatch ends although no peer ever reads: back-pressure drops    *)
(* the alert, it does not stop the alerts consumer.                        *)
(***************************************************************************)
DispatchEnds == current # None ~> current = None

(***************************************************************************)
(* A connection that left its loop, or whose receiver is gone, leaves the  *)
(* registry for good.                                                      *)
(***************************************************************************)
LeftIsForgotten ==
  \A c \in Conn : task[c] = "leaving" ~> [](c \notin Registered(registry))

(***************************************************************************)
(* README: an alert "se envía solo a clientes autorizados para ese         *)
(* unit_id": whoever is a target when the alert is dispatched may see the  *)
(* unit then.                                                              *)
(***************************************************************************)
OnlyAuthorized ==
  [][ \A c \in ToSet(targets') \ ToSet(targets) : current'.unit \in allowed[KeyOf[c]] ]_vars
=============================================================================
