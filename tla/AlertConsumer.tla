----------------------------- MODULE AlertConsumer -----------------------------
(***************************************************************************)
(* `AlertsConsumer` of src/kafka/consumer.rs: messages are taken one at a  *)
(* time, each parsed alert is given to both dispatchers and its offset is  *)
(* committed without waiting for the broker.                               *)
(*                                                                         *)
(* The broker keeps the topic and the offsets of the group.  It may take   *)
(* the partitions away and give them back (the session of the consumer     *)
(* expired), and the process may end at any moment; in both cases reading  *)
(* goes on from the committed offsets.  Commits that are under way then    *)
(* arrive before the partitions are assigned again or not at all, because  *)
(* the coordinator refuses those of an older generation.                   *)
(*                                                                         *)
(* One process in the group.  What the dispatchers do with an alert is in  *)
(* WebSocketAlerts and SnsDelivery.                                        *)
(***************************************************************************)
EXTENDS Naturals, Sequences

CONSTANTS
  Partition,    \* partitions of the alerts topic
  Topic,        \* partition -> its messages
  None,         \* no message
  MaxFailures   \* bound on crashes and rebalances

\* What process_message tells apart.
Kind == {"alert", "alert of no unit", "malformed", "empty"}

\* serde_json::from_slice::<AlertEvent> succeeds; unit_id may be any string.
Parsed(kind) == kind \in {"alert", "alert of no unit"}

Sink == {"ws", "sns"}

AlertsAssumption ==
  /\ Topic \in [Partition -> Seq(Kind)]
  /\ MaxFailures \in Nat
  /\ None \notin [partition : Partition, offset : Nat]

VARIABLES
  up,           \* the process runs
  position,     \* partition -> offset of the next message of the stream
  current,      \* the message process_message is at, or None
  dispatching,  \* calls of join! that have not returned
  requests,     \* commits on their way to the broker
  committed,    \* partition -> offset the group resumes from
  handed,       \* history: dispatcher -> alerts it was given
  failures      \* crashes and rebalances so far

consumer == <<position, current, dispatching>>
broker   == <<requests, committed>>
vars     == <<up, consumer, broker, handed, failures>>

\* Offsets as Kafka has them: the first message of a partition is at 0.
End(p)   == Len(Topic[p])
Position == [partition : Partition, offset : Nat]
At(m)    == Topic[m.partition][m.offset + 1]

TypeOK ==
  /\ up \in BOOLEAN
  /\ position \in [Partition -> Nat] /\ committed \in [Partition -> Nat]
  /\ \A p \in Partition : position[p] <= End(p) /\ committed[p] <= End(p)
  /\ current \in Position \cup {None}
  /\ dispatching \subseteq Sink
  /\ requests \in Seq(Position)
  /\ handed \in [Sink -> SUBSET Position]
  /\ failures \in 0..MaxFailures

Init ==
  /\ up = FALSE
  /\ position = [p \in Partition |-> 0]
  /\ current = None /\ dispatching = {}
  /\ requests = <<>>
  /\ committed = [p \in Partition |-> 0]
  /\ handed = [s \in Sink |-> {}]
  /\ failures = 0

-----------------------------------------------------------------------------
(* The group coordinator and the end of the process *)

\* subscribe; without a committed offset, auto.offset.reset = earliest.
Resume ==
  /\ position' = committed
  /\ requests' = <<>>

Start ==
  /\ ~up
  /\ up' = TRUE
  /\ Resume
  /\ UNCHANGED <<current, dispatching, committed, handed, failures>>

\* Served while the stream is polled, so between two messages.
Rebalance ==
  /\ up /\ current = None
  /\ failures < MaxFailures
  /\ failures' = failures + 1
  /\ Resume
  /\ UNCHANGED <<up, current, dispatching, committed, handed>>

Crash ==
  /\ up
  /\ failures < MaxFailures
  /\ failures' = failures + 1
  /\ up' = FALSE
  /\ position' = [p \in Partition |-> 0] /\ current' = None /\ dispatching' = {}
  /\ UNCHANGED <<broker, handed>>

CommitArrives ==
  /\ requests # <<>>
  /\ committed' = [committed EXCEPT ![Head(requests).partition] = Head(requests).offset]
  /\ requests' = Tail(requests)
  /\ UNCHANGED <<up, consumer, handed, failures>>

CommitLost ==
  /\ requests # <<>>
  /\ requests' = Tail(requests)
  /\ UNCHANGED <<up, consumer, committed, handed, failures>>

-----------------------------------------------------------------------------
(* process_message *)

\* Mutant: a message that does not parse is committed like any other.
Receive_CommitsAll(p) ==
  /\ up /\ current = None
  /\ position[p] < End(p)
  /\ position' = [position EXCEPT ![p] = @ + 1]
  /\ LET m == [partition |-> p, offset |-> position[p]]
     IN IF Parsed(At(m)) THEN current' = m /\ dispatching' = Sink /\ UNCHANGED requests
        ELSE /\ requests' = Append(requests, [m EXCEPT !.offset = @ + 1])
             /\ UNCHANGED <<current, dispatching>>
  /\ UNCHANGED <<up, committed, handed, failures>>

\* Mutant: a message that does not parse is read again until it does.
Receive_Retries(p) ==
  /\ up /\ current = None
  /\ position[p] < End(p)
  /\ LET m == [partition |-> p, offset |-> position[p]]
     IN /\ Parsed(At(m))
        /\ current' = m /\ dispatching' = Sink
  /\ position' = [position EXCEPT ![p] = @ + 1]
  /\ UNCHANGED <<up, broker, handed, failures>>

\* stream.next(): an empty or malformed message is logged and left behind.
Receive(p) ==
  /\ up /\ current = None
  /\ position[p] < End(p)
  /\ position' = [position EXCEPT ![p] = @ + 1]
  /\ LET m == [partition |-> p, offset |-> position[p]]
     IN IF Parsed(At(m)) THEN current' = m /\ dispatching' = Sink
        ELSE UNCHANGED <<current, dispatching>>
  /\ UNCHANGED <<up, broker, handed, failures>>

\* One dispatch_event of join!; a unit_id that is no UUID ends it at once.
Dispatch(s) ==
  /\ s \in dispatching
  /\ dispatching' = dispatching \ {s}
  /\ handed' = IF At(current) = "alert" THEN [handed EXCEPT ![s] = @ \cup {current}]
               ELSE handed
  /\ UNCHANGED <<up, position, current, broker, failures>>

\* Mutant: the dispatchers are spawned, and the commit does not wait for them.
Commit_AtOnce ==
  /\ current # None
  /\ current' = None /\ dispatching' = {}
  /\ \/ requests' = Append(requests, [current EXCEPT !.offset = @ + 1])
     \/ UNCHANGED requests
  /\ UNCHANGED <<up, position, committed, handed, failures>>

\* Mutant: the offset behind the one that commit_message already commits.
Commit_OffByOne ==
  /\ current # None /\ dispatching = {}
  /\ current' = None
  /\ \/ requests' = Append(requests, [current EXCEPT !.offset = @ + 2])
     \/ UNCHANGED requests
  /\ UNCHANGED <<up, position, dispatching, committed, handed, failures>>

\* Mutant: messages are handled side by side, and commits overtake each other.
Commit_Overtakes ==
  /\ current # None /\ dispatching = {}
  /\ current' = None
  /\ \/ requests' = <<[current EXCEPT !.offset = @ + 1]>> \o requests
     \/ UNCHANGED requests
  /\ UNCHANGED <<up, position, dispatching, committed, handed, failures>>

\* commit_message(Async): a request, or an error that is logged.
Commit ==
  /\ current # None /\ dispatching = {}
  /\ current' = None
  /\ \/ requests' = Append(requests, [current EXCEPT !.offset = @ + 1])
     \/ UNCHANGED requests
  /\ UNCHANGED <<up, position, dispatching, committed, handed, failures>>

ProcessMessage == Commit \/ (\E p \in Partition : Receive(p)) \/ (\E s \in Sink : Dispatch(s))

Next == Start \/ Rebalance \/ Crash \/ CommitArrives \/ CommitLost \/ ProcessMessage

Spec == Init /\ [][Next]_vars

-----------------------------------------------------------------------------
(* Properties *)

Message(p, o) == [partition |-> p, offset |-> o]

AlertAt(p, o) == Topic[p][o + 1] = "alert"

(***************************************************************************)
(* A commit covers nothing that was not done: every alert below the        *)
(* committed offset was given to both dispatchers, by this run of the      *)
(* process or an earlier one.  A crash between the two calls, between      *)
(* them and the commit, or while commits are under way repeats alerts and  *)
(* skips none; neither do the malformed messages left behind on the way.   *)
(***************************************************************************)
CommittedWasHanded ==
  \A p \in Partition : \A o \in 0..(committed[p] - 1) :
    AlertAt(p, o) => \A s \in Sink : Message(p, o) \in handed[s]

(***************************************************************************)
(* README: "Commit manual de offsets solo cuando el parseo es exitoso":    *)
(* the group never resumes right behind a message that did not parse, so   *)
(* such a message at the end of a partition is read, and logged, by every  *)
(* run of the process until an alert follows it.                           *)
(***************************************************************************)
CommitFollowsParse ==
  \A p \in Partition : committed[p] > 0 => Parsed(Topic[p][committed[p]])

(***************************************************************************)
(* What the broker took as committed is over: the committed offset of a    *)
(* partition never goes back, although commits are sent without waiting    *)
(* for the one before, and what lost commits, rebalances and restarts make *)
(* this consumer read again is nothing that the group has behind it.       *)
(***************************************************************************)
CommittedIsFinal ==
  [][ /\ \A p \in Partition : committed'[p] >= committed[p]
      /\ current' # None => current'.offset >= committed'[current'.partition] ]_vars

(***************************************************************************)
(* Every alert of the topic is given to both dispatchers in the end (what  *)
(* it takes is in MainLoop).                                               *)
(***************************************************************************)
EveryAlertHanded ==
  \A p \in Partition : \A o \in 0..(End(p) - 1) :
    AlertAt(p, o) => <>(\A s \in Sink : Message(p, o) \in handed[s])
=============================================================================
