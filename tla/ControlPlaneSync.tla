--------------------------- MODULE ControlPlaneSync ---------------------------
(***************************************************************************)
(* How the read model comes to agree with the source database: the startup *)
(* of src/main.rs, prepare_control_plane_consumer and                      *)
(* run_control_plane_consumer of src/kafka/control_plane.rs, and           *)
(* load_control_plane_snapshot of src/permissions/loader.rs.               *)
(*                                                                         *)
(* The process notes the end of every partition, then reads five views one *)
(* query after the other, then consumes each partition from the noted      *)
(* offset.  Meanwhile siscom-admin-api, outside this repository, commits   *)
(* rows and publishes one message per committed row.                       *)
(*                                                                         *)
(* What is assumed of it: a message carries the whole row, messages leave  *)
(* in commit order, and all messages of one row go to one partition.       *)
(*                                                                         *)
(* The SNS worker's own update and removal of a device, which no message   *)
(* follows, are not here: SnsDelivery has them.                            *)
(***************************************************************************)
EXTENDS ControlPlaneEvents, Sequences, SequencesExt

CONSTANTS
  Change,        \* the row writes the source may commit: a subset of Envelope
  Partition,     \* partitions of control-plane-events
  PartitionOf,   \* [rows of Change -> Partition]
  MaxWrites,     \* bound on committed writes
  MaxCrashes     \* bound on crashes of the process

\* The primary key of the row a message is about.
RowOf(p) ==
  LET d == p.data
  IN CASE p.entity = "user"              -> <<"user", d.id>>
       [] p.entity = "organization_user" -> <<p.entity, d.organization_id, d.user_id>>
       [] p.entity = "user_unit"         -> <<p.entity, d.user_id, d.unit_id>>
       [] p.entity = "unit_device"       -> <<p.entity, d.device_id>>
       [] p.entity = "user_device"       -> <<p.entity, d.id>>

Row == {RowOf(c) : c \in Change}

(***************************************************************************)
(* Every write is a message this service understands, and users are not    *)
(* deleted ("Los usuarios no se borran por API").                          *)
(***************************************************************************)
ASSUME SyncAssumption ==
  /\ Change \subseteq {c \in Envelope : Outcome(c) = "Yes"} /\ None \notin Change
  /\ \A c \in Change : c.entity = "user" => c.event_type = "UPSERT"
  /\ PartitionOf \in [Row -> Partition]
  /\ MaxWrites \in Nat /\ MaxCrashes \in Nat

Tables == <<"user", "organization_user", "user_unit", "unit_device", "user_device">>

VARIABLES
  db,       \* the source: row -> its last committed write, or None
  outbox,   \* committed messages that are not published yet
  log,      \* partition -> published messages
  writes,   \* number of committed writes
  phase,    \* "down", "noting", "loading", "running"
  next,     \* partition -> messages before the one to read; None until noted
  loaded,   \* how many of Tables were queried
  rows,     \* what the last query returned and is not in the cache yet
  cache,    \* the ControlPlaneCache, a State
  crashes   \* number of crashes

source  == <<db, outbox, log, writes>>
process == <<phase, next, loaded, rows, cache, crashes>>
vars    == <<source, process>>

NotNoted == [p \in Partition |-> None]

TypeOK ==
  /\ db \in [Row -> Change \cup {None}]
  /\ outbox \in Seq(Change)
  /\ log \in [Partition -> Seq(Change)]
  /\ writes \in 0..MaxWrites
  /\ phase \in {"down", "noting", "loading", "running"}
  /\ next \in [Partition -> Nat \cup {None}]
  /\ \A p \in Partition : next[p] \in (0..Len(log[p])) \cup {None}
  /\ loaded \in 0..Len(Tables) /\ rows \subseteq Change
  /\ cache \in State
  /\ crashes \in 0..MaxCrashes

Init ==
  /\ db = [r \in Row |-> None]
  /\ outbox = <<>>
  /\ log = [p \in Partition |-> <<>>]
  /\ writes = 0
  /\ phase = "down"
  /\ next = NotNoted
  /\ loaded = 0 /\ rows = {}
  /\ cache = EmptyState
  /\ crashes = 0

-----------------------------------------------------------------------------
(* siscom-admin-api *)

Write(c) ==
  /\ writes < MaxWrites
  /\ writes' = writes + 1
  /\ db' = [db EXCEPT ![RowOf(c)] = c]
  /\ outbox' = Append(outbox, c)
  /\ UNCHANGED <<log, process>>

Publish ==
  /\ outbox # <<>>
  /\ log' = [log EXCEPT ![PartitionOf[RowOf(Head(outbox))]] = Append(@, Head(outbox))]
  /\ outbox' = Tail(outbox)
  /\ UNCHANGED <<db, writes, process>>

-----------------------------------------------------------------------------
(* The process *)

Start ==
  /\ phase = "down"
  /\ phase' = "noting"
  /\ UNCHANGED <<source, next, loaded, rows, cache, crashes>>

\* Mutation: one message too far.
HighWatermark_OffByOne(p) == IF log[p] = <<>> THEN 0 ELSE Len(log[p]) + 1

\* fetch_watermarks
HighWatermark(p) == Len(log[p])

NoteOffset(p) ==
  /\ phase = "noting"
  /\ next[p] = None
  /\ next' = [next EXCEPT ![p] = HighWatermark(p)]
  /\ phase' = IF \A q \in Partition \ {p} : next[q] # None THEN "loading" ELSE phase
  /\ UNCHANGED <<source, loaded, rows, cache, crashes>>

\* Rows the view of a table shows; user_devices is read WHERE is_active.
Visible(entity) ==
  {c \in {db[r] : r \in Row} \ {None} :
     /\ c.entity = entity
     /\ c.event_type = "UPSERT"
     /\ entity = "user_device" => Default(c.data.is_active, FALSE)}

\* fetch_all of the next view; nobody reads the cache yet.
Query ==
  /\ phase = "loading" /\ rows = {}
  /\ loaded < Len(Tables)
  /\ rows' = Visible(Tables[loaded + 1])
  /\ loaded' = loaded + 1
  /\ UNCHANGED <<source, phase, next, cache, crashes>>

\* Each row goes in through the same operation an UPSERT of it uses.
InsertRow(c) ==
  /\ c \in rows
  /\ cache' = Upsert(cache, c.entity, c.data)
  /\ rows' = rows \ {c}
  /\ UNCHANGED <<source, phase, next, loaded, crashes>>

\* Mutation: the consumer is assigned the end of each partition as of now.
StartOffsets_Latest == [p \in Partition |-> HighWatermark(p)]

\* consumer.assign: the offsets noted before the snapshot
StartOffsets == next

\* Mutation: it serves before the last rows are in.
Assign_Early ==
  /\ phase = "loading"
  /\ loaded = Len(Tables)
  /\ next' = StartOffsets
  /\ phase' = "running"
  /\ UNCHANGED <<source, loaded, rows, cache, crashes>>

Assign ==
  /\ phase = "loading"
  /\ loaded = Len(Tables) /\ rows = {}
  /\ next' = StartOffsets
  /\ phase' = "running"
  /\ UNCHANGED <<source, loaded, rows, cache, crashes>>

\* Mutation: a DELETE is counted and not applied.
Consume_Lazy(p) ==
  /\ phase = "running"
  /\ next[p] < Len(log[p])
  /\ cache' = IF log[p][next[p] + 1].event_type = "DELETE" THEN cache
              ELSE ApplyEvent(cache, log[p][next[p] + 1])
  /\ next' = [next EXCEPT ![p] = @ + 1]
  /\ UNCHANGED <<source, phase, loaded, rows, crashes>>

Consume(p) ==
  /\ phase = "running"
  /\ next[p] < Len(log[p])
  /\ cache' = ApplyEvent(cache, log[p][next[p] + 1])
  /\ next' = [next EXCEPT ![p] = @ + 1]
  /\ UNCHANGED <<source, phase, loaded, rows, crashes>>

\* The process ends and with it all it keeps, whatever it was doing.
Crash ==
  /\ phase # "down"
  /\ crashes < MaxCrashes
  /\ crashes' = crashes + 1
  /\ phase' = "down"
  /\ next' = NotNoted
  /\ loaded' = 0 /\ rows' = {}
  /\ cache' = EmptyState
  /\ UNCHANGED source

Load == Query \/ (\E c \in rows : InsertRow(c)) \/ Assign

Process == Start \/ (\E p \in Partition : NoteOffset(p)) \/ Load

Next ==
  \/ \E c \in Change : Write(c)
  \/ Publish
  \/ Process
  \/ \E p \in Partition : Consume(p)
  \/ Crash

Spec == Init /\ [][Next]_vars

(***************************************************************************)
(* The source publishes what it committed; the process starts, and once it *)
(* runs its select! loop takes the messages of each partition.  Nothing    *)
(* makes the source write or the process crash.                            *)
(***************************************************************************)
FairSpec ==
  /\ Spec
  /\ WF_vars(Publish)
  /\ WF_vars(Process)
  /\ \A p \in Partition : WF_vars(Consume(p))

-----------------------------------------------------------------------------
(* Properties *)

\* What the cache knows of one row.
Entry(s, r) ==
  CASE r[1] = "user"              -> s.user_active[r[2]]
    [] r[1] = "organization_user" -> s.memberships[<<r[2], r[3]>>]
    [] r[1] = "user_unit"         -> s.user_units[<<r[2], r[3]>>]
    [] r[1] = "unit_device"       -> s.unit_devices[r[2]]
    [] r[1] = "user_device"       -> {d \in UNION {s.user_devices[u] : u \in User} : d.id = r[2]}

\* What it should know: nothing of a row that is not there,
Absent(r) ==
  CASE r[1] = "user" -> "absent" [] r[1] = "user_device" -> {} [] OTHER -> None

\* the fields of one that is, and of a device only while a push can reach it.
Fields(c) ==
  LET d == c.data
  IN CASE c.entity = "user" -> IF d.status = "ACTIVE" THEN "active" ELSE "inactive"
       [] c.entity = "organization_user" ->
            [owner |-> d.role = "owner", active |-> d.status = "ACTIVE"]
       [] c.entity = "user_unit"   -> d.organization_id
       [] c.entity = "unit_device" -> <<d.unit_id, d.organization_id>>
       [] c.entity = "user_device" ->
            IF d.is_active \in {None, FALSE} \/ d.endpoint_arn \in {None, NoArn} THEN {}
            ELSE {[id |-> d.id, user_id |-> d.user_id,
                   endpoint_arn |-> d.endpoint_arn, is_active |-> TRUE]}

Content(r, c) == IF c = None \/ c.event_type = "DELETE" THEN Absent(r) ELSE Fields(c)

About(r, msgs) == \E k \in 1..Len(msgs) : RowOf(msgs[k]) = r

Unread(p) == SubSeq(log[p], next[p] + 1, Len(log[p]))

Settled(r) == ~About(r, outbox) /\ ~About(r, Unread(PartitionOf[r]))

(***************************************************************************)
(* Row by row: once every message about a row was consumed, the cache has  *)
(* that row as the database has it.  Nothing written around the snapshot   *)
(* is lost, whichever of the five queries saw it, and no replayed message  *)
(* leaves an older row behind, although other rows still lag.              *)
(***************************************************************************)
SettledRowsExact ==
  phase = "running" => \A r \in Row : Settled(r) => Entry(cache, r) = Content(r, db[r])

\* What a process that loads the views now would hold.
InsertRows(s, entity) ==
  FoldSet(LAMBDA c, t : Upsert(t, entity, c.data), s, Visible(entity))
View == FoldLeft(InsertRows, EmptyState, Tables)

CaughtUp ==
  phase = "running" /\ outbox = <<>> /\ \A p \in Partition : next[p] = Len(log[p])

(***************************************************************************)
(* A process that has read everything holds, indexes included, what a      *)
(* process started now would load: starting from a snapshot taken by five  *)
(* separate queries and replaying is as good as one consistent read.       *)
(***************************************************************************)
CaughtUpIsExact == CaughtUp => cache = View

(***************************************************************************)
(* When writes and crashes stop, the process ends up running with exactly  *)
(* the access the database gives, for good.                                *)
(***************************************************************************)
Converges == <>[](phase = "running" /\ cache = View)

-----------------------------------------------------------------------------
(* Row by row *)

\* All the source ever committed, published or not.
Committed == ToSet(outbox) \cup UNION {ToSet(log[p]) : p \in Partition}

Contents(r, msgs) == {Content(r, c) : c \in {m \in msgs : RowOf(m) = r}}

\* The replica that the cache is, and the source that the database is.
Serving == phase = "running"
Truth   == [r \in Row |-> Content(r, db[r])]
Past    == [r \in Row |-> {Absent(r)} \cup Contents(r, Committed)]
Held    == [r \in Row |-> IF Serving THEN Entry(cache, r) ELSE Absent(r)]
Stale   == {r \in Row : Serving /\ ~Settled(r)}

Replica ==
  INSTANCE RowReplica
  WITH Value   <- [r \in Row |-> Contents(r, Change)],
       Nothing <- [r \in Row |-> Absent(r)],
       truth   <- Truth,
       past    <- Past,
       serving <- Serving,
       held    <- Held,
       stale   <- Stale

(***************************************************************************)
(* Row by row the cache is a replica of the source, whatever the snapshot  *)
(* and the replay do: each entry was once true of its row, only a row with *)
(* messages under way moves, one at a time, and the last message leaves it *)
(* as the database has it ("Lo publicado entre 1 y 2 se aplica dos veces,  *)
(* lo cual no hace daño", src/src/kafka/control_plane.rs:13).  Between     *)
(* rows nothing is promised: during a replay one row may go back and its   *)
(* neighbour not.                                                          *)
(***************************************************************************)
ImplementsReplica == Replica!Spec
=============================================================================
