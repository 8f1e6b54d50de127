------------------------------- MODULE MainLoop -------------------------------
(***************************************************************************)
(* `main` of src/main.rs once everything is built: one select! polls, in   *)
(* one task, the control-plane consumer (ControlPlaneHealth), the alerts   *)
(* consumer (AlertConsumer) and the HTTP server.  The two consumers share  *)
(* the broker and the life of the process, and while the probe of the      *)
(* control-plane consumer blocks the thread nothing else is polled.        *)
(***************************************************************************)
EXTENDS Naturals

CONSTANTS
  Partition, AtFirst, MaxMessages,      \* the control-plane topic
  ProbeInterval, ProbeTimeout,
  MaxOwed,                              \* bound on ticks that wait
  MaxFaults,                            \* bound on faults of the broker
  AlertPartition, Topic,                \* the alerts topic
  MaxFailures,                          \* bound on crashes and rebalances
  None

VARIABLES
  exists, high, fault, faults, fetched, failing, phase, listed, tail, next,
  ok, applied_offset, lag, due, owed, probe,
  position, current, dispatching, requests, committed, handed, failures

\* `tail` is the position of the control-plane consumer in its stream.
Health == INSTANCE ControlPlaneHealth WITH position <- tail

\* main polls the alerts consumer from the moment it polls the other one.
Alerts == INSTANCE AlertConsumer WITH
            Partition <- AlertPartition, up <- (phase = "running")

health == <<exists, high, fault, faults, fetched, failing, phase, listed, tail, next,
            ok, applied_offset, lag, due, owed, probe>>
alerts == <<position, current, dispatching, requests, committed, handed, failures>>
vars   == <<health, alerts>>

ASSUME MainLoopAssumption == Health!HealthAssumption /\ Alerts!AlertsAssumption

TypeOK == Health!TypeOK /\ Alerts!TypeOK

Init == Health!Init /\ Alerts!Init

-----------------------------------------------------------------------------
Reachable == fault # "unreachable"

\* The thread of main is not inside block_in_place.
Polled == phase = "running" /\ probe = None

\* Both consumers begin, and end, with the select! of main.
Run == Health!Run /\ Alerts!Start
End == Health!End /\ Alerts!Crash

Prepare == Health!Prepare /\ UNCHANGED alerts
Probing == Health!Probing /\ UNCHANGED alerts
Pass    == Health!Pass /\ UNCHANGED alerts

\* The control-plane branch takes what its stream has.
ControlPlane ==
  /\ (\E p \in Partition : Health!OnMessage(p)) \/ Health!OnError
  /\ UNCHANGED alerts

\* The alerts branch: a message, and what process_message does with it.
Receive(p) == Polled /\ UNCHANGED health /\ Alerts!Receive(p)

Process ==
  /\ Polled
  /\ UNCHANGED health
  /\ (\E s \in Alerts!Sink : Alerts!Dispatch(s)) \/ Alerts!Commit

\* The broker and the topics.
Broker ==
  \/ /\ \/ \E p \in Partition : Health!Publish(p) \/ Health!AddPartition(p)
        \/ (\E kind \in {"unreachable", "denied"} : Health!Fault(kind)) \/ Health!Repair
     /\ UNCHANGED alerts
  \/ /\ UNCHANGED health
     /\ \/ Alerts!CommitLost
        \/ Reachable /\ Alerts!CommitArrives
        \/ Reachable /\ Polled /\ Alerts!Rebalance

Next ==
  \/ Prepare \/ Run \/ End
  \/ Probing \/ Pass \/ ControlPlane
  \/ (\E p \in AlertPartition : Receive(p)) \/ Process
  \/ Broker

Spec == Init /\ [][Next]_vars

(***************************************************************************)
(* A process that ended is started again; time passes, and a call to the   *)
(* broker ends at its timeout at the latest.  select! takes its branches   *)
(* in random order, so a branch that is ready again and again is taken,    *)
(* although every probe interrupts it.  Faults need not happen nor end,    *)
(* and no commit has to arrive.                                            *)
(***************************************************************************)
FairSpec ==
  /\ Spec
  /\ WF_vars(Prepare) /\ WF_vars(Run)
  /\ WF_vars(Probing) /\ WF_vars(Pass)
  /\ SF_vars(Process)
  /\ \A p \in AlertPartition : SF_vars(Reachable /\ Receive(p))

-----------------------------------------------------------------------------
(* Properties: those of the parts, for the whole *)

\* The parts state what these say, and of which code.
ProbesKeepUp       == Health!ProbesKeepUp
LagIsBracketed     == Health!LagIsBracketed
OutageShows        == Health!OutageShows
Recovers           == Health!Recovers
LagSettles         == Health!LagSettles
CommittedWasHanded == Alerts!CommittedWasHanded
CommitFollowsParse == Alerts!CommitFollowsParse
CommittedIsFinal   == Alerts!CommittedIsFinal

(***************************************************************************)
(* Every alert of the topic is given to both dispatchers in the end, if    *)
(* the broker stays within reach: although commits are lost, the process   *)
(* crashes, messages before it do not parse, and probes block the task.    *)
(***************************************************************************)
EveryAlertHanded == <>[]Reachable => Alerts!EveryAlertHanded
=============================================================================
