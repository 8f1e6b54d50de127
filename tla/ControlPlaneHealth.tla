-------------------------- MODULE ControlPlaneHealth --------------------------
(***************************************************************************)
(* What GET /health says of the control-plane consumer, and when: the      *)
(* atomics of `ControlPlaneHealth`, the select! loop of                    *)
(* run_control_plane_consumer that writes them, and the probe `lag` that   *)
(* asks the broker for the end of every partition, all in                  *)
(* src/kafka/control_plane.rs.                                             *)
(*                                                                         *)
(* Messages are counted, not looked into: one that is skipped (malformed,  *)
(* of another schema version) moves the offsets like one that is applied.  *)
(* The probe blocks the thread, and with it the loop and whatever main     *)
(* polls beside it, for up to ProbeTimeout per partition that answers, and *)
(* once that for the one that does not: `lag` returns at the first error.  *)
(*                                                                         *)
(* Time passes in units.  What is ready is handled before the next unit,   *)
(* except that a message or an error of the stream may come at any time.   *)
(***************************************************************************)
EXTENDS Naturals, FiniteSets, Functions

CONSTANTS
  Partition,      \* partitions the topic may have
  AtFirst,        \* those it has when the process looks at it first
  ProbeInterval,  \* PROBE_INTERVAL, in units
  ProbeTimeout,   \* the timeout of fetch_watermarks in the probe, in units
  None,           \* no probe
  MaxOwed,        \* bound on ticks that wait to be served
  MaxMessages,    \* bound on messages of a partition
  MaxFaults       \* bound on faults

Offset == 0..MaxMessages
Total  == 0..(Cardinality(Partition) * MaxMessages)

Probe == [asked : SUBSET Partition, total : Total, waited : 0..ProbeTimeout, before : Total]

(***************************************************************************)
(* 30 s and 5 s in the code.  Nothing in the code keeps the probe of all   *)
(* partitions shorter than the interval: if each takes almost its timeout  *)
(* to answer, from six partitions on it is not, and nothing here says so   *)
(* either.                                                                 *)
(***************************************************************************)
HealthAssumption ==
  /\ IsFiniteSet(Partition) /\ AtFirst \subseteq Partition /\ AtFirst # {}
  /\ ProbeInterval \in Nat \ {0} /\ ProbeTimeout \in Nat
  /\ MaxOwed \in Nat \ {0} /\ MaxMessages \in Nat /\ MaxFaults \in Nat
  /\ None \notin Probe

VARIABLES
  exists,    \* partitions of the topic now
  high,      \* partition -> messages published
  fault,     \* "none", "unreachable" (the broker), or "denied" (the reads)
  faults,    \* faults so far
  fetched,   \* partition -> messages librdkafka had when the fault began
  failing,   \* the stream has an error to hand out
  phase,     \* "down", "loading", "running"
  listed,    \* partitions found at the start
  position,  \* partition -> offset of the next message of the stream
  next,      \* partition -> what the loop takes it for
  ok, applied_offset, lag,  \* the atomics
  due,       \* units to the next tick
  owed,      \* ticks that passed and were not served
  probe      \* the probe under way, or None

topic    == <<exists, high, fault, faults>>
stream   == <<fetched, failing, position>>
atomics  == <<ok, applied_offset, lag>>
clock    == <<due, owed, probe>>
vars     == <<topic, stream, phase, listed, next, atomics, clock>>

TypeOK ==
  /\ AtFirst \subseteq exists /\ exists \subseteq Partition
  /\ high \in [Partition -> Offset]
  /\ fault \in {"none", "unreachable", "denied"} /\ faults \in 0..MaxFaults
  /\ fetched \in [Partition -> Offset] /\ failing \in BOOLEAN
  /\ phase \in {"down", "loading", "running"}
  /\ listed \subseteq exists
  /\ position \in [Partition -> Offset] /\ next \in [Partition -> Offset]
  /\ ok \in BOOLEAN /\ applied_offset \in Offset /\ lag \in Total
  /\ due \in 1..ProbeInterval /\ owed \in 0..MaxOwed
  /\ probe \in Probe \cup {None}

Nowhere == [p \in Partition |-> 0]

Init ==
  /\ exists = AtFirst /\ high = Nowhere
  /\ fault = "none" /\ faults = 0
  /\ fetched = Nowhere /\ failing = FALSE
  /\ phase = "down" /\ listed = {}
  /\ position = Nowhere /\ next = Nowhere
  /\ ok = FALSE /\ applied_offset = 0 /\ lag = 0
  /\ due = ProbeInterval /\ owed = 0 /\ probe = None

\* Messages of each partition, and of the listed ones, that the loop has not handled.
Behind == [p \in Partition |-> high[p] - position[p]]
Unread == SumFunctionOnSet(Behind, listed)

-----------------------------------------------------------------------------
(* The broker *)

Publish(p) ==
  /\ p \in exists
  /\ high[p] < MaxMessages
  /\ high' = [high EXCEPT ![p] = @ + 1]
  /\ UNCHANGED <<exists, fault, faults, stream, phase, listed, next, atomics, clock>>

AddPartition(p) ==
  /\ p \notin exists
  /\ exists' = exists \cup {p}
  /\ UNCHANGED <<high, fault, faults, stream, phase, listed, next, atomics, clock>>

\* How far librdkafka may have read ahead of the loop.
ReadAhead(p) == IF phase = "running" /\ p \in listed THEN high[p] ELSE position[p]

\* Messages that librdkafka already fetched still come out of the stream.
Fault(kind) ==
  /\ fault = "none"
  /\ faults < MaxFaults
  /\ faults' = faults + 1
  /\ fault' = kind
  /\ failing' = (phase # "down")
  /\ \E f \in [Partition -> Offset] :
       /\ \A p \in Partition : f[p] \in position[p]..ReadAhead(p)
       /\ fetched' = f
  /\ UNCHANGED <<exists, high, position, phase, listed, next, atomics, clock>>

Repair ==
  /\ fault # "none"
  /\ fault' = "none"
  /\ fetched' = Nowhere
  /\ UNCHANGED <<exists, high, faults, failing, position, phase, listed, next, atomics, clock>>

-----------------------------------------------------------------------------
(* Startup *)

\* prepare_control_plane_consumer: an unreachable broker ends the process; READ
\* is not what fetch_metadata and fetch_watermarks need.
Prepare ==
  /\ phase = "down"
  /\ fault # "unreachable"
  /\ phase' = "loading"
  /\ listed' = exists
  /\ position' = [p \in Partition |-> IF p \in exists THEN high[p] ELSE 0]
  /\ next' = position'
  /\ UNCHANGED <<topic, fetched, failing, atomics, clock>>

\* The snapshot is loaded; assign, mark_ok(0), and the first tick, at once.
Run ==
  /\ phase = "loading"
  /\ phase' = "running"
  /\ ok' = TRUE /\ lag' = 0
  /\ due' = ProbeInterval
  /\ failing' = (failing \/ fault # "none")
  /\ UNCHANGED <<topic, fetched, position, listed, next, applied_offset, owed, probe>>

-----------------------------------------------------------------------------
(* The select! loop *)

InSelect == phase = "running" /\ probe = None

Readable(p) == IF fault = "none" THEN high[p] ELSE fetched[p]

\* Mutant: next holds the offset that was read, not the one that follows.
OnMessage_OffByOne(p) ==
  /\ InSelect
  /\ p \in listed
  /\ position[p] < Readable(p)
  /\ position' = [position EXCEPT ![p] = @ + 1]
  /\ next' = [next EXCEPT ![p] = position[p]]
  /\ applied_offset' = position[p]
  /\ ok' = TRUE
  /\ UNCHANGED <<topic, fetched, failing, phase, listed, lag, clock>>

\* A message, applied or skipped: next.insert(offset + 1), mark_applied(offset)
OnMessage(p) ==
  /\ InSelect
  /\ p \in listed
  /\ position[p] < Readable(p)
  /\ position' = [position EXCEPT ![p] = @ + 1]
  /\ next' = [next EXCEPT ![p] = position[p] + 1]
  /\ applied_offset' = position[p]
  /\ ok' = TRUE
  /\ UNCHANGED <<topic, fetched, failing, phase, listed, lag, clock>>

\* Err: mark_error.  A fault may be reported more than once, and late.
OnError ==
  /\ InSelect
  /\ failing
  /\ failing' \in {FALSE, fault # "none"}
  /\ ok' = FALSE
  /\ UNCHANGED <<topic, fetched, position, phase, listed, next, applied_offset, lag, clock>>

\* probe.tick(): a tick that was missed is served at once (Burst).
OnTick ==
  /\ InSelect
  /\ owed > 0
  /\ owed' = owed - 1
  /\ probe' = [asked |-> {}, total |-> 0, waited |-> 0, before |-> Unread]
  /\ UNCHANGED <<topic, stream, phase, listed, next, atomics, due>>

\* Mutant: the probe stores the lag and leaves ok as it is.
Ask_LagOnly(p) ==
  /\ probe # None
  /\ p \in listed \ probe.asked
  /\ fault # "unreachable"
  /\ LET asked == probe.asked \cup {p}
         total == probe.total + (IF high[p] > next[p] THEN high[p] - next[p] ELSE 0)
     IN IF asked = listed
        THEN lag' = total /\ probe' = None
        ELSE /\ probe' = [probe EXCEPT !.asked = asked, !.total = total, !.waited = 0]
             /\ UNCHANGED lag
  /\ UNCHANGED <<topic, stream, phase, listed, next, ok, applied_offset, due, owed>>

\* Mutant: the total is that of the last partition.
Ask_Last(p) ==
  /\ probe # None
  /\ p \in listed \ probe.asked
  /\ fault # "unreachable"
  /\ LET asked == probe.asked \cup {p}
         total == IF high[p] > next[p] THEN high[p] - next[p] ELSE 0
     IN IF asked = listed
        THEN lag' = total /\ ok' = TRUE /\ probe' = None
        ELSE /\ probe' = [probe EXCEPT !.asked = asked, !.total = total, !.waited = 0]
             /\ UNCHANGED <<ok, lag>>
  /\ UNCHANGED <<topic, stream, phase, listed, next, applied_offset, due, owed>>

\* One fetch_watermarks of `lag` returns; the last one is followed by mark_ok.
Ask(p) ==
  /\ probe # None
  /\ p \in listed \ probe.asked
  /\ fault # "unreachable"
  /\ LET asked == probe.asked \cup {p}
         total == probe.total + (IF high[p] > next[p] THEN high[p] - next[p] ELSE 0)
     IN IF asked = listed
        THEN lag' = total /\ ok' = TRUE /\ probe' = None
        ELSE /\ probe' = [probe EXCEPT !.asked = asked, !.total = total, !.waited = 0]
             /\ UNCHANGED <<ok, lag>>
  /\ UNCHANGED <<topic, stream, phase, listed, next, applied_offset, due, owed>>

\* Mutant: a probe that fails is logged, and ok stays.
AskFails_Silently ==
  /\ probe # None
  /\ fault = "unreachable"
  /\ probe' = None
  /\ UNCHANGED <<topic, stream, phase, listed, next, atomics, due, owed>>

\* Mutant: a partition that does not answer is asked again.
AskFails_Retries ==
  /\ probe # None
  /\ fault = "unreachable"
  /\ ok' = FALSE
  /\ probe' = [probe EXCEPT !.waited = 0]
  /\ UNCHANGED <<topic, stream, phase, listed, next, applied_offset, lag, due, owed>>

\* It fails, at once or when its timeout is over: mark_error.
AskFails ==
  /\ probe # None
  /\ fault = "unreachable"
  /\ ok' = FALSE
  /\ probe' = None
  /\ UNCHANGED <<topic, stream, phase, listed, next, applied_offset, lag, due, owed>>

\* The timeout of a call, or a tick, is due now.
Ready ==
  \/ InSelect /\ owed > 0
  \/ probe # None /\ probe.waited = ProbeTimeout

Pass ==
  /\ phase = "running"
  /\ ~Ready
  /\ due = 1 => owed < MaxOwed
  /\ due' = IF due = 1 THEN ProbeInterval ELSE due - 1
  /\ owed' = IF due = 1 THEN owed + 1 ELSE owed
  /\ probe' = IF probe = None THEN None ELSE [probe EXCEPT !.waited = @ + 1]
  /\ UNCHANGED <<topic, stream, phase, listed, next, atomics>>

\* The end of the process, whatever it was doing: a crash, ctrl-c, a restart.
End ==
  /\ phase # "down"
  /\ phase' = "down" /\ listed' = {}
  /\ position' = Nowhere /\ next' = Nowhere /\ failing' = FALSE /\ fetched' = Nowhere
  /\ ok' = FALSE /\ applied_offset' = 0 /\ lag' = 0
  /\ due' = ProbeInterval /\ owed' = 0 /\ probe' = None
  /\ UNCHANGED topic

Probing == OnTick \/ AskFails \/ \E p \in Partition : Ask(p)

Next ==
  \/ \E p \in Partition : Publish(p) \/ AddPartition(p)
  \/ (\E kind \in {"unreachable", "denied"} : Fault(kind)) \/ Repair
  \/ Prepare \/ Run
  \/ (\E p \in Partition : OnMessage(p)) \/ OnError
  \/ Probing
  \/ Pass
  \/ End

Spec == Init /\ [][Next]_vars

-----------------------------------------------------------------------------
(* Properties *)

\* health_handler
Status == IF ok THEN 200 ELSE 503

\* However slowly every partition answers, the probe is shorter than its interval.
ProbesFit == Cardinality(listed) * ProbeTimeout < ProbeInterval

(***************************************************************************)
(* Where the probes fit their interval they keep up with their ticks: a    *)
(* probe has ended before the next tick is due, however slowly the broker  *)
(* answers or fails, so the loop, the alerts consumer and the server that  *)
(* share its task get time in between.  Where they do not, ticks pile up   *)
(* and a probe may follow the other at once (tokio's Burst); what happens  *)
(* to the alerts then is EveryAlertHanded of MainLoop.                     *)
(***************************************************************************)
ProbesKeepUp == ProbesFit => owed <= 1 /\ (owed = 1 => probe = None)

(***************************************************************************)
(* A lag that a probe reports is no guess: partition by partition the      *)
(* answers are of different moments, and still it lies between what was    *)
(* unread when the probe began and what is unread when it ends.            *)
(***************************************************************************)
LagIsBracketed ==
  [][ probe # None /\ probe' = None /\ ok' /\ phase' = "running"
      => probe.before <= lag' /\ lag' <= Unread' ]_vars

(***************************************************************************)
(* docs/eventos-de-control.md: "Responde 503 si el consumidor no puede     *)
(* leer": while the broker stays out of reach, /health ends up saying so,  *)
(* although messages fetched before still arrive and mark the state ok.    *)
(***************************************************************************)
OutageShows ==
  <>[](phase = "running" /\ fault = "unreachable") => <>[](Status = 503)

(***************************************************************************)
(* "eso lo recupera tras una caída sin esperar un evento": once faults are *)
(* over, /health answers 200 for good, whether or not messages come, and   *)
(* although errors of the fault are still in the stream.                   *)
(***************************************************************************)
Recovers == <>[](fault = "none") => <>[](Status = 200)

(***************************************************************************)
(* "y da el lag": once the broker can be asked, the lag settles on what is *)
(* really unread in the partitions listed at the start, skipped messages   *)
(* not counted.  When reads are denied and the broker still answers the    *)
(* probe, /health says 200: then the lag is what tells that messages wait. *)
(***************************************************************************)
LagSettles == <>[](fault # "unreachable") => <>[](lag = Unread)
=============================================================================
