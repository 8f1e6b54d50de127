---------------------------- MODULE MainLoopProofs ----------------------------
(***************************************************************************)
(* The safety of the whole process: of each of its two consumers, whose    *)
(* invariants come first, and then of both, when they share the task, the  *)
(* broker and the life of the process.                                     *)
(***************************************************************************)
EXTENDS MainLoop, Sequences, RecursionFacts

\* An instance has operators of its own for what the libraries define.
LEMMA SameFiniteSets ==
  ASSUME NEW S
  PROVE  Health!IsFiniteSet(S) = IsFiniteSet(S) /\ Health!Cardinality(S) = Cardinality(S)
BY DEF Health!IsFiniteSet, IsFiniteSet, Health!Cardinality, Cardinality

LEMMA SameSums ==
  ASSUME NEW f, NEW S
  PROVE  Health!SumFunctionOnSet(f, S) = SumFunctionOnSet(f, S)
BY Zenon DEF Health!SumFunctionOnSet, SumFunctionOnSet, Health!FoldFunctionOnSet, FoldFunctionOnSet,
             Health!MapThenFoldSet, MapThenFoldSet

-----------------------------------------------------------------------------
(* ControlPlaneHealth: the probes and the clock *)

\* How long the probe under way may have blocked the thread so far.
Blocked == Cardinality(probe.asked) * ProbeTimeout + probe.waited

PartitionsListed ==
  /\ AtFirst \subseteq exists /\ exists \subseteq Partition
  /\ listed \subseteq Partition
  /\ phase \in {"loading", "running"} => listed # {}

ProbeTyped ==
  probe # None =>
    /\ probe.asked \subseteq listed /\ probe.asked # listed
    /\ probe.waited \in 0..ProbeTimeout
    /\ probe = [asked |-> probe.asked, total |-> probe.total, waited |-> probe.waited,
                before |-> probe.before]

ClockInv ==
  /\ due \in 1..ProbeInterval
  /\ owed \in 0..MaxOwed
  /\ phase # "running" => owed = 0 /\ probe = None
  /\ Health!ProbesFit =>
       /\ owed \in {0, 1}
       /\ owed = 1 => probe = None /\ due = ProbeInterval
       /\ probe # None => ProbeInterval - due <= Blocked

HealthInv == PartitionsListed /\ ProbeTyped /\ ClockInv

-----------------------------------------------------------------------------
LEMMA AskedType ==
  ASSUME Health!HealthAssumption, NEW A \in SUBSET Partition
  PROVE  IsFiniteSet(A) /\ Cardinality(A) \in Nat /\ Cardinality(A) * ProbeTimeout \in Nat
<1>1. IsFiniteSet(Partition) /\ ProbeTimeout \in Nat
  BY SameFiniteSets DEF Health!HealthAssumption
<1>2. IsFiniteSet(A) /\ Cardinality(A) \in Nat
  BY <1>1, FS_Subset, FS_CardinalityType
<1> DEFINE a == Cardinality(A)
<1>3. a \in Nat
  BY <1>2
<1> HIDE DEF a
<1>4. a * ProbeTimeout \in Nat
  BY <1>1, <1>3
<1> QED BY <1>2, <1>4 DEF a

\* Where the probe of all the listed fits, that of any but one and one timeout more does.
LEMMA AskedFit ==
  ASSUME Health!HealthAssumption, Health!ProbesFit, listed \subseteq Partition,
         NEW A \in SUBSET listed, A # listed
  PROVE  Cardinality(A) * ProbeTimeout + ProbeTimeout < ProbeInterval
<1>1. /\ ProbeTimeout \in Nat /\ ProbeInterval \in Nat
      /\ Cardinality(listed) * ProbeTimeout < ProbeInterval
  BY SameFiniteSets DEF Health!HealthAssumption, Health!ProbesFit
<1>2. PICK x \in listed : x \notin A
  OBVIOUS
<1>3. A \in SUBSET Partition /\ listed \in SUBSET Partition
  OBVIOUS
<1>4. /\ IsFiniteSet(A) /\ Cardinality(A) \in Nat
      /\ IsFiniteSet(listed) /\ Cardinality(listed) \in Nat
      /\ Cardinality(listed) * ProbeTimeout \in Nat
  BY <1>3, AskedType
<1>5. Cardinality(A) + 1 <= Cardinality(listed)
  <2>1. Cardinality(A \cup {x}) = Cardinality(A) + 1
    BY <1>2, <1>4, FS_AddElement
  <2>2. A \cup {x} \subseteq listed
    BY <1>2
  <2> QED BY <1>4, <2>1, <2>2, FS_Subset
<1> DEFINE a == Cardinality(A)
<1> DEFINE n == Cardinality(listed)
<1> HIDE DEF a, n
<1>6. \A i, j, t \in Nat : i + 1 <= j => i * t \in Nat /\ i * t + t <= j * t
  OBVIOUS
<1>7. a * ProbeTimeout \in Nat /\ a * ProbeTimeout + ProbeTimeout <= n * ProbeTimeout
  BY <1>1, <1>4, <1>5, <1>6 DEF a, n
<1>8. n * ProbeTimeout \in Nat /\ n * ProbeTimeout < ProbeInterval
  BY <1>1, <1>4 DEF n
<1> QED BY <1>1, <1>7, <1>8 DEF a

LEMMA InitKeepsHealth == ASSUME Health!HealthAssumption, Health!Init PROVE HealthInv
BY DEF Health!HealthAssumption, Health!Init, HealthInv, PartitionsListed, ProbeTyped, ClockInv

\* The broker, and the loop when no probe is involved, leave all of it alone.
LEMMA SameFit == UNCHANGED listed => Health!ProbesFit' = Health!ProbesFit
BY DEF Health!ProbesFit

LEMMA OthersKeepsHealth ==
  ASSUME Health!HealthAssumption, HealthInv, AtFirst \subseteq exists', exists' \subseteq Partition,
         UNCHANGED <<phase, listed, due, owed, probe>>
  PROVE  HealthInv'
BY SameFit DEF HealthInv, PartitionsListed, ProbeTyped, ClockInv, Blocked

LEMMA BrokerKeepsHealth ==
  ASSUME Health!HealthAssumption, HealthInv,
         NEW p \in Partition, NEW kind,
         Health!Publish(p) \/ Health!AddPartition(p) \/ Health!Fault(kind) \/ Health!Repair
  PROVE  HealthInv'
<1>1. AtFirst \subseteq exists' /\ exists' \subseteq Partition
      /\ UNCHANGED <<phase, listed, Health!clock>>
  BY DEF HealthInv, PartitionsListed, Health!Publish, Health!AddPartition, Health!Fault,
         Health!Repair
<1> QED BY <1>1, OthersKeepsHealth DEF Health!clock

LEMMA LoopKeepsHealth ==
  ASSUME Health!HealthAssumption, HealthInv,
         (\E p \in Partition : Health!OnMessage(p)) \/ Health!OnError
  PROVE  HealthInv'
<1>1. UNCHANGED <<Health!topic, phase, listed, Health!clock>>
  BY DEF Health!OnMessage, Health!OnError
<1> QED BY <1>1, OthersKeepsHealth DEF Health!topic, Health!clock, HealthInv, PartitionsListed

LEMMA StartupKeepsHealth ==
  ASSUME Health!HealthAssumption, HealthInv, Health!Prepare \/ Health!Run \/ Health!End
  PROVE  HealthInv'
<1>1. CASE Health!Prepare
  BY <1>1 DEF HealthInv, PartitionsListed, ProbeTyped, ClockInv, Blocked, Health!Prepare,
              Health!topic, Health!clock,
              Health!HealthAssumption
<1>2. CASE Health!Run
  BY <1>2, SameFit DEF HealthInv, PartitionsListed, ProbeTyped, ClockInv, Health!Run, Health!topic,
              Health!HealthAssumption
<1>3. CASE Health!End
  BY <1>3 DEF HealthInv, PartitionsListed, ProbeTyped, ClockInv, Health!End, Health!topic,
              Health!HealthAssumption
<1> QED BY <1>1, <1>2, <1>3

LEMMA OnTickKeepsHealth == ASSUME Health!HealthAssumption, HealthInv, Health!OnTick PROVE HealthInv'
<1>1. /\ phase = "running" /\ owed > 0 /\ owed' = owed - 1
      /\ UNCHANGED <<Health!topic, phase, listed, due>>
  BY DEF Health!OnTick, Health!InSelect
<1>2. /\ probe' = [asked |-> {}, total |-> 0, waited |-> 0, before |-> Health!Unread]
      /\ probe'.asked = {} /\ probe'.waited = 0
  BY DEF Health!OnTick
<1>3. PartitionsListed'
  BY <1>1 DEF HealthInv, PartitionsListed, Health!topic
<1>4. ProbeTyped'
  <2>1. listed # {} /\ 0 \in 0..ProbeTimeout
    BY <1>1 DEF HealthInv, PartitionsListed, Health!HealthAssumption
  <2> HIDE DEF Health!Unread
  <2> QED BY <1>1, <1>2, <2>1 DEF ProbeTyped
<1>5. ClockInv'
  <2>1. Blocked' = 0
    BY <1>2, FS_EmptySet DEF Blocked, Health!HealthAssumption
  <2>2. /\ ProbeInterval \in Nat \ {0} /\ MaxOwed \in Nat
        /\ due \in 1..ProbeInterval /\ owed \in 0..MaxOwed
    BY DEF Health!HealthAssumption, HealthInv, ClockInv
  <2>3. due' \in 1..ProbeInterval /\ owed' \in 0..MaxOwed
    BY <1>1, <2>2
  <2>4. ASSUME Health!ProbesFit' PROVE owed' = 0 /\ ProbeInterval - due' <= Blocked'
    <3>1. Health!ProbesFit
      BY <1>1, <2>4, SameFit
    <3>2. owed = 1 /\ due = ProbeInterval
      BY <1>1, <2>2, <3>1 DEF HealthInv, ClockInv
    <3> QED BY <1>1, <2>1, <2>2, <3>2
  <2> QED BY <1>1, <2>3, <2>4 DEF ClockInv
<1> QED BY <1>3, <1>4, <1>5 DEF HealthInv

\* An answer adds to the partitions asked at least the time it took.
LEMMA AskKeepsHealth ==
  ASSUME Health!HealthAssumption, HealthInv, NEW p \in Partition, Health!Ask(p)
  PROVE  HealthInv'
<1> DEFINE A == probe.asked
<1> DEFINE B == probe.asked \cup {p}
<1>1. /\ probe # None /\ p \in listed \ A
      /\ \/ B = listed /\ probe' = None
         \/ /\ B # listed
            /\ \E t : probe' = [probe EXCEPT !.asked = B, !.total = t, !.waited = 0]
      /\ UNCHANGED <<Health!topic, phase, listed, due, owed>>
  BY DEF Health!Ask, Health!topic
<1>2. /\ A \subseteq listed /\ A # listed
      /\ probe.waited \in 0..ProbeTimeout
      /\ probe = [asked |-> A, total |-> probe.total, waited |-> probe.waited,
                  before |-> probe.before]
  BY <1>1 DEF HealthInv, ProbeTyped
<1>3. PartitionsListed'
  BY <1>1 DEF HealthInv, PartitionsListed, Health!topic
<1>4. CASE probe' = None
  <2>1. Health!ProbesFit' = Health!ProbesFit
    BY <1>1, SameFit
  <2> QED BY <1>1, <1>3, <1>4, <2>1 DEF HealthInv, ProbeTyped, ClockInv
<1>5. CASE B # listed /\ \E t : probe' = [probe EXCEPT !.asked = B, !.total = t, !.waited = 0]
  <2>1. PICK t : probe' = [probe EXCEPT !.asked = B, !.total = t, !.waited = 0]
    BY <1>5
  <2>2. /\ probe'.asked = B /\ probe'.waited = 0
        /\ probe' = [asked |-> B, total |-> t, waited |-> 0, before |-> probe.before]
    BY <1>2, <2>1
  <2>3. /\ probe'.total = t /\ probe'.before = probe.before
    BY <2>2
  <2>4. /\ B \subseteq listed /\ listed \subseteq Partition
    BY <1>1, <1>2 DEF HealthInv, PartitionsListed
  <2>5. 0 \in 0..ProbeTimeout /\ ProbeTimeout \in Nat /\ ProbeInterval \in Nat
    BY DEF Health!HealthAssumption
  <2> HIDE DEF A, B
  <2>6. ProbeTyped'
    BY <1>1, <1>5, <2>2, <2>3, <2>4, <2>5 DEF ProbeTyped
  <2>7. Blocked <= Blocked' /\ Blocked \in Nat /\ Blocked' \in Nat
    <3> DEFINE a == Cardinality(A)
    <3> DEFINE b == Cardinality(B)
    <3>1. a \in Nat /\ b \in Nat /\ a * ProbeTimeout \in Nat /\ b * ProbeTimeout \in Nat
      BY <1>2, <2>4, AskedType
    <3>2. b = a + 1
      <4>1. IsFiniteSet(A)
        BY <1>2, <2>4, AskedType
      <4> QED BY <1>1, <4>1, FS_AddElement DEF A, B
    <3>3. Blocked = a * ProbeTimeout + probe.waited /\ Blocked' = b * ProbeTimeout + 0
      BY <2>2 DEF Blocked, A
    <3> HIDE DEF a, b
    <3>4. (a + 1) * ProbeTimeout = a * ProbeTimeout + ProbeTimeout
      BY <3>1, <2>5
    <3> QED BY <1>2, <2>5, <3>1, <3>2, <3>3, <3>4
  <2>8. /\ due \in 1..ProbeInterval /\ owed \in 0..MaxOwed /\ phase = "running"
        /\ Health!ProbesFit => owed = 0 /\ ProbeInterval - due <= Blocked
        /\ due' = due /\ owed' = owed /\ phase' = phase
        /\ Health!ProbesFit' = Health!ProbesFit
    BY <1>1, SameFit DEF HealthInv, ClockInv
  <2>9. ASSUME Health!ProbesFit PROVE ProbeInterval - due <= Blocked'
    <3> HIDE DEF Blocked
    <3> DEFINE before == Blocked
    <3> DEFINE after == Blocked'
    <3>1. before \in Nat /\ after \in Nat /\ before <= after /\ ProbeInterval - due <= before
      BY <2>7, <2>8, <2>9
    <3> HIDE DEF before, after
    <3>2. ProbeInterval - due <= after
      BY <2>5, <2>8, <3>1
    <3> QED BY <3>2 DEF after
  <2>10. ClockInv'
    BY <2>8, <2>9 DEF ClockInv
  <2> QED BY <1>3, <2>6, <2>10 DEF HealthInv
<1> QED BY <1>1, <1>4, <1>5

LEMMA AskFailsKeepsHealth ==
  ASSUME Health!HealthAssumption, HealthInv, Health!AskFails
  PROVE  HealthInv'
<1>1. probe' = None /\ UNCHANGED <<Health!topic, phase, listed, due, owed>>
  BY DEF Health!AskFails
<1> QED BY <1>1, SameFit DEF HealthInv, PartitionsListed, ProbeTyped, ClockInv, Health!topic

\* Time that passes in a probe is time the probe was allowed, so no tick is due if it fits.
LEMMA PassKeepsHealth == ASSUME Health!HealthAssumption, HealthInv, Health!Pass PROVE HealthInv'
<1>1. /\ phase = "running" /\ ~Health!Ready
      /\ due' = (IF due = 1 THEN ProbeInterval ELSE due - 1)
      /\ owed' = (IF due = 1 THEN owed + 1 ELSE owed)
      /\ probe' = IF probe = None THEN None ELSE [probe EXCEPT !.waited = @ + 1]
      /\ UNCHANGED <<Health!topic, phase, listed>>
      /\ due = 1 => owed < MaxOwed
      /\ Health!ProbesFit' = Health!ProbesFit
  BY SameFit DEF Health!Pass
<1>2. PartitionsListed'
  BY <1>1 DEF HealthInv, PartitionsListed, Health!topic
<1>3. /\ due \in 1..ProbeInterval /\ ProbeInterval \in Nat \ {0} /\ ProbeTimeout \in Nat
      /\ MaxOwed \in Nat /\ owed \in 0..MaxOwed
  BY DEF HealthInv, ClockInv, Health!HealthAssumption
<1>4. due' \in 1..ProbeInterval /\ owed' \in 0..MaxOwed
  BY <1>1, <1>3
<1>5. CASE probe = None
  <2>1. owed = 0
    BY <1>1, <1>3, <1>5 DEF Health!Ready, Health!InSelect
  <2>2. owed' \in {0, 1} /\ (owed' = 1 => due' = ProbeInterval)
    BY <1>1, <1>3, <2>1
  <2> QED BY <1>1, <1>2, <1>4, <1>5, <2>2 DEF HealthInv, ProbeTyped, ClockInv
<1>6. CASE probe # None
  <2> DEFINE A == probe.asked
  <2> DEFINE w == probe.waited
  <2>1. /\ A \subseteq listed /\ A # listed /\ listed \subseteq Partition
        /\ w \in 0..ProbeTimeout
        /\ probe = [asked |-> A, total |-> probe.total, waited |-> w, before |-> probe.before]
    BY <1>6 DEF HealthInv, ProbeTyped, PartitionsListed
  <2>2. w + 1 \in 0..ProbeTimeout
    BY <1>1, <1>3, <1>6, <2>1 DEF Health!Ready
  <2>3. probe' = [asked |-> A, total |-> probe.total, waited |-> w + 1, before |-> probe.before]
    BY <1>1, <1>6, <2>1
  <2>4. /\ probe'.asked = A /\ probe'.waited = w + 1
        /\ probe'.total = probe.total /\ probe'.before = probe.before
    BY <2>3
  <2> HIDE DEF A, w
  <2>5. ProbeTyped'
    BY <1>1, <2>1, <2>2, <2>3, <2>4 DEF ProbeTyped
  <2>6. ASSUME Health!ProbesFit
        PROVE  owed' = 0 /\ ProbeInterval - due' <= Blocked'
    <3> DEFINE blocked == Cardinality(A) * ProbeTimeout
    <3>1. /\ blocked \in Nat /\ blocked + ProbeTimeout < ProbeInterval
          /\ Blocked = blocked + w /\ Blocked' = blocked + (w + 1)
      BY <2>1, <2>4, <2>6, AskedType, AskedFit DEF Blocked, A, w
    <3> HIDE DEF blocked
    <3>2. ProbeInterval - due <= Blocked /\ owed = 0
      BY <1>6, <2>6 DEF HealthInv, ClockInv
    <3>3. due > 1
      BY <1>3, <2>1, <2>2, <3>1, <3>2
    <3>4. due' = due - 1 /\ owed' = 0
      BY <1>1, <1>3, <3>2, <3>3
    <3> QED BY <1>3, <2>1, <3>1, <3>2, <3>3, <3>4
  <2>7. ClockInv'
    BY <1>1, <1>4, <2>6 DEF ClockInv
  <2> QED BY <1>2, <2>5, <2>7 DEF HealthInv
<1> QED BY <1>5, <1>6

LEMMA NextKeepsHealth ==
  ASSUME Health!HealthAssumption, HealthInv, [Health!Next]_(Health!vars)
  PROVE  HealthInv'
<1>1. CASE UNCHANGED Health!vars
  BY <1>1, OthersKeepsHealth DEF Health!vars, Health!topic, Health!clock, HealthInv,
                                 PartitionsListed
<1>2. CASE Health!Prepare \/ Health!Run \/ Health!End
  BY <1>2, StartupKeepsHealth
<1>3. CASE (\E p \in Partition : Health!OnMessage(p)) \/ Health!OnError
  BY <1>3, LoopKeepsHealth
<1>4. CASE Health!Probing
  BY <1>4, OnTickKeepsHealth, AskFailsKeepsHealth, AskKeepsHealth DEF Health!Probing
<1>5. CASE Health!Pass
  BY <1>5, PassKeepsHealth
<1>6. CASE \E p \in Partition : Health!Publish(p) \/ Health!AddPartition(p)
  BY <1>6, BrokerKeepsHealth
<1>7. CASE \E kind \in {"unreachable", "denied"} : Health!Fault(kind)
  <2>1. PICK kind : Health!Fault(kind)
    BY <1>7
  <2>2. PICK p \in Partition : TRUE
    BY DEF Health!HealthAssumption
  <2> QED BY <2>1, <2>2, BrokerKeepsHealth
<1>8. CASE Health!Repair
  <2>1. PICK p \in Partition : TRUE
    BY DEF Health!HealthAssumption
  <2> QED BY <1>8, <2>1, BrokerKeepsHealth
<1> QED
  BY <1>1, <1>2, <1>3, <1>4, <1>5, <1>6, <1>7, <1>8 DEF Health!Next

-----------------------------------------------------------------------------
(* ControlPlaneHealth: the offsets and the lag *)

\* The loop is nowhere ahead of the topic, and takes its position for what it is.
OffsetsInv ==
  /\ listed \subseteq exists
  /\ high \in [Partition -> Health!Offset] /\ fetched \in [Partition -> Health!Offset]
  /\ tail \in [Partition -> Health!Offset] /\ next = tail
  /\ \A p \in Partition : tail[p] <= high[p] /\ fetched[p] <= high[p]
  /\ fault \in {"none", "unreachable", "denied"} /\ faults \in 0..MaxFaults
  /\ failing \in BOOLEAN /\ phase \in {"down", "loading", "running"}
  /\ ok \in BOOLEAN /\ applied_offset \in Health!Offset

LEMMA InitKeepsOffsets == ASSUME Health!HealthAssumption, Health!Init PROVE OffsetsInv
<1>1. 0 \in Health!Offset /\ 0 \in 0..MaxFaults
  BY DEF Health!HealthAssumption, Health!Offset
<1>2. Health!Nowhere \in [Partition -> Health!Offset] /\ \A p \in Partition : Health!Nowhere[p] = 0
  BY <1>1 DEF Health!Nowhere
<1>3. \A p \in Partition : Health!Nowhere[p] <= Health!Nowhere[p]
  BY DEF Health!Nowhere
<1> QED BY <1>1, <1>2, <1>3 DEF Health!Init, OffsetsInv

LEMMA NextKeepsOffsets ==
  ASSUME Health!HealthAssumption, HealthInv, OffsetsInv, [Health!Next]_(Health!vars)
  PROVE  OffsetsInv'
<1> USE DEF Health!topic, Health!stream, Health!atomics, Health!clock
<1>1. 0 \in Health!Offset /\ Health!Offset \subseteq Nat /\ MaxFaults \in Nat
      /\ exists \subseteq Partition
  BY DEF Health!HealthAssumption, Health!Offset, HealthInv, PartitionsListed
<1>2. CASE UNCHANGED Health!vars
  BY <1>2 DEF OffsetsInv, Health!vars
<1>3. ASSUME NEW p \in Partition, Health!Publish(p) PROVE OffsetsInv'
  <2>1. high[p] + 1 \in Health!Offset /\ high[p] \in Nat
    BY <1>3 DEF Health!Publish, OffsetsInv, Health!Offset, Health!HealthAssumption
  <2>2. /\ high' \in [Partition -> Health!Offset]
        /\ \A q \in Partition : high[q] <= high'[q] /\ high'[q] \in Nat /\ high[q] \in Nat
    BY <1>1, <1>3, <2>1 DEF Health!Publish, OffsetsInv, Health!Offset
  <2>3. \A q \in Partition : tail[q] <= high'[q] /\ fetched[q] <= high'[q]
    BY <1>1, <2>2 DEF OffsetsInv, Health!Offset
  <2> QED BY <1>3, <2>2, <2>3 DEF Health!Publish, OffsetsInv
<1>4. ASSUME NEW p \in Partition, Health!AddPartition(p) PROVE OffsetsInv'
  BY <1>4 DEF Health!AddPartition, OffsetsInv
<1>5. ASSUME NEW kind \in {"unreachable", "denied"}, Health!Fault(kind) PROVE OffsetsInv'
  <2>1. PICK f \in [Partition -> Health!Offset] :
          (\A p \in Partition : f[p] \in tail[p]..Health!ReadAhead(p)) /\ fetched' = f
    BY <1>5 DEF Health!Fault
  <2>2. \A p \in Partition : fetched'[p] <= high[p]
    <3> TAKE p \in Partition
    <3>1. Health!ReadAhead(p) \in Nat /\ Health!ReadAhead(p) <= high[p] /\ high[p] \in Nat
          /\ tail[p] \in Nat
      BY <1>1 DEF Health!ReadAhead, OffsetsInv, Health!Offset
    <3> QED BY <2>1, <3>1
  <2>3. faults' \in 0..MaxFaults
    BY <1>1, <1>5 DEF Health!Fault, OffsetsInv
  <2> QED BY <1>5, <2>1, <2>2, <2>3 DEF Health!Fault, OffsetsInv
<1>6. CASE Health!Repair
  <2>1. fetched' \in [Partition -> Health!Offset] /\ \A p \in Partition : fetched'[p] = 0
    BY <1>1, <1>6 DEF Health!Repair, Health!Nowhere
  <2>2. \A p \in Partition : fetched'[p] <= high[p]
    BY <1>1, <2>1 DEF OffsetsInv, Health!Offset
  <2> QED BY <1>6, <2>1, <2>2 DEF Health!Repair, OffsetsInv
<1>7. CASE Health!Prepare
  <2>1. /\ tail' \in [Partition -> Health!Offset]
        /\ \A p \in Partition : tail'[p] <= high[p]
    BY <1>1, <1>7 DEF Health!Prepare, OffsetsInv, Health!Offset
  <2> QED BY <1>7, <2>1 DEF Health!Prepare, OffsetsInv
<1>8. CASE Health!Run
  BY <1>8 DEF Health!Run, OffsetsInv
<1>9. ASSUME NEW p \in Partition, Health!OnMessage(p) PROVE OffsetsInv'
  <2>1. /\ tail[p] \in Health!Offset /\ high[p] \in Health!Offset /\ fetched[p] \in Health!Offset
        /\ tail[p] < high[p]
    BY <1>9 DEF Health!OnMessage, Health!Readable, OffsetsInv, Health!Offset,
                Health!HealthAssumption
  <2>2. tail[p] + 1 \in Health!Offset /\ tail[p] + 1 <= high[p]
    BY <2>1 DEF Health!Offset, Health!HealthAssumption
  <2>3. /\ tail' = [tail EXCEPT ![p] = tail[p] + 1] /\ next' = [next EXCEPT ![p] = tail[p] + 1]
    BY <1>9 DEF Health!OnMessage, OffsetsInv
  <2>4. /\ tail' \in [Partition -> Health!Offset] /\ next' = tail'
        /\ \A q \in Partition : tail'[q] <= high[q]
    BY <2>2, <2>3 DEF OffsetsInv
  <2> QED BY <1>9, <2>1, <2>4 DEF Health!OnMessage, OffsetsInv
<1>10. CASE Health!OnError
  BY <1>10 DEF Health!OnError, OffsetsInv
<1>11. CASE Health!OnTick
  BY <1>11 DEF Health!OnTick, OffsetsInv
<1>12. CASE Health!AskFails
  BY <1>12 DEF Health!AskFails, OffsetsInv
<1>13. ASSUME NEW p \in Partition, Health!Ask(p) PROVE OffsetsInv'
  <2>1. ok' \in BOOLEAN
    BY <1>13 DEF Health!Ask, OffsetsInv
  <2> QED BY <1>13, <2>1 DEF Health!Ask, OffsetsInv
<1>14. CASE Health!Pass
  BY <1>14 DEF Health!Pass, OffsetsInv
<1>15. CASE Health!End
  <2>1. /\ Health!Nowhere \in [Partition -> Health!Offset]
        /\ \A p \in Partition : Health!Nowhere[p] <= high[p]
    BY <1>1 DEF Health!Nowhere, OffsetsInv, Health!Offset
  <2> QED BY <1>1, <1>15, <2>1 DEF Health!End, OffsetsInv
<1> QED
  BY <1>2, <1>3, <1>4, <1>5, <1>6, <1>7, <1>8, <1>9, <1>10, <1>11, <1>12, <1>13, <1>14, <1>15
     DEF Health!Next, Health!Probing

-----------------------------------------------------------------------------
\* What waits in the partitions a probe has asked is what it counted, or more
\* came since; with what waits in the others it is no less than at its start.
LagInv ==
  /\ lag \in Health!Total
  /\ probe # None =>
       /\ probe.total \in Health!Total /\ probe.before \in Health!Total
       /\ probe.before <= probe.total + SumFunctionOnSet(Health!Behind, listed \ probe.asked)
       /\ probe.total <= SumFunctionOnSet(Health!Behind, probe.asked)

LEMMA TotalFits ==
  ASSUME Health!HealthAssumption, NEW y \in Health!Total, NEW x \in Nat, x <= y
  PROVE  x \in Health!Total /\ y \in Nat
<1> DEFINE m == Cardinality(Partition) * MaxMessages
<1>1. m \in Nat
  BY SameFiniteSets, FS_CardinalityType DEF Health!HealthAssumption
<1>2. Health!Total = 0..m
  BY SameFiniteSets DEF Health!Total
<1> HIDE DEF m
<1> QED BY <1>1, <1>2

LEMMA TotalType ==
  ASSUME Health!HealthAssumption
  PROVE  0 \in Health!Total /\ Health!Total \subseteq Nat
<1> DEFINE m == Cardinality(Partition) * MaxMessages
<1>1. m \in Nat
  BY SameFiniteSets, FS_CardinalityType DEF Health!HealthAssumption
<1>2. Health!Total = 0..m
  BY SameFiniteSets DEF Health!Total
<1> HIDE DEF m
<1> QED BY <1>1, <1>2

LEMMA UnreadIsSum == Health!Unread = SumFunctionOnSet(Health!Behind, listed)
BY SameSums DEF Health!Unread

LEMMA BehindType ==
  ASSUME Health!HealthAssumption, OffsetsInv, NEW p \in Partition
  PROVE  Health!Behind[p] \in Nat /\ Health!Behind[p] <= MaxMessages
BY DEF Health!HealthAssumption, OffsetsInv, Health!Offset, Health!Behind

\* The messages that wait are at most all there can be.
LEMMA SumFits ==
  ASSUME Health!HealthAssumption, OffsetsInv, NEW S \in SUBSET Partition
  PROVE  /\ IsFiniteSet(S) /\ SumFunctionOnSet(Health!Behind, S) \in Health!Total
         /\ SumFunctionOnSet(Health!Behind, S) \in Nat
<1>1. \A p \in Partition : Health!Behind[p] \in Nat /\ Health!Behind[p] <= MaxMessages
  BY BehindType
<1>2. IsFiniteSet(Partition) /\ MaxMessages \in Nat
  BY SameFiniteSets DEF Health!HealthAssumption
<1>3. IsFiniteSet(S) /\ Cardinality(S) <= Cardinality(Partition)
  BY <1>2, FS_Subset
<1>4. SumFunctionOnSet(Health!Behind, S) \in Nat
  <2> HIDE DEF Health!Behind
  <2> QED BY <1>1, <1>3, SumType
<1>5. SumFunctionOnSet(Health!Behind, S) <= Cardinality(S) * MaxMessages
  <2> HIDE DEF Health!Behind
  <2> QED BY <1>1, <1>2, <1>3, SumBounded
<1> DEFINE s == Cardinality(S)
<1> DEFINE n == Cardinality(Partition)
<1>6. s \in Nat /\ n \in Nat /\ s <= n
  BY <1>2, <1>3, FS_CardinalityType
<1> HIDE DEF s, n
<1>7. s * MaxMessages <= n * MaxMessages /\ s * MaxMessages \in Nat /\ n * MaxMessages \in Nat
  <2>1. PICK d \in Nat : n = s + d
    <3>1. n - s \in Nat /\ n = s + (n - s)
      BY <1>6
    <3> QED BY <3>1
  <2>2. n * MaxMessages = s * MaxMessages + d * MaxMessages
    BY <1>2, <1>6, <2>1
  <2>3. d * MaxMessages \in Nat /\ s * MaxMessages \in Nat
    BY <1>2, <1>6, <2>1
  <2> QED BY <2>2, <2>3
<1>8. Health!Total = 0..(n * MaxMessages)
  BY SameFiniteSets DEF Health!Total, n
<1> QED BY <1>3, <1>4, <1>5, <1>7, <1>8 DEF s

\* While a probe is under way, messages come and none is handled.
LEMMA WaitingKeepsLag ==
  ASSUME Health!HealthAssumption, HealthInv, OffsetsInv, OffsetsInv', LagInv,
         UNCHANGED <<lag, listed>>,
         \A p \in Partition : Health!Behind[p] <= Health!Behind[p]',
         probe # None /\ probe' # None =>
           probe'.asked = probe.asked /\ probe'.total = probe.total /\ probe'.before = probe.before,
         probe = None => probe' = None
  PROVE  LagInv'
<1>1. CASE probe' = None
  BY <1>1 DEF LagInv, Health!Total
<1>2. CASE probe' # None
  <2> DEFINE A == probe.asked
  <2> DEFINE B == Health!Behind
  <2> DEFINE C == Health!Behind'
  <2>1. probe # None /\ probe'.asked = A /\ probe'.total = probe.total
        /\ probe'.before = probe.before
    BY <1>2
  <2>2. /\ probe.total \in Nat /\ probe.before \in Nat
        /\ probe.before <= probe.total + SumFunctionOnSet(B, listed \ A)
        /\ probe.total <= SumFunctionOnSet(B, A)
    BY <2>1, TotalType DEF LagInv
  <2>3. A \in SUBSET Partition /\ listed \ A \in SUBSET Partition
    BY <2>1 DEF HealthInv, ProbeTyped, PartitionsListed
  <2>4. \A p \in Partition : B[p] \in Nat /\ C[p] \in Nat /\ B[p] <= C[p]
    <3>1. \A p \in Partition : B[p] \in Nat
      BY BehindType
    <3>2. \A p \in Partition : C[p] \in Nat
      BY DEF Health!HealthAssumption, OffsetsInv, Health!Offset, Health!Behind
    <3> QED BY <3>1, <3>2
  <2>5. IsFiniteSet(A) /\ IsFiniteSet(listed \ A)
    BY <2>3, SumFits
  <2> HIDE DEF A, B, C
  <2>6. SumFunctionOnSet(B, A) <= SumFunctionOnSet(C, A)
    BY <2>3, <2>4, <2>5, SumMonotone
  <2>7. SumFunctionOnSet(B, listed \ A) <= SumFunctionOnSet(C, listed \ A)
    BY <2>3, <2>4, <2>5, SumMonotone
  <2>8. /\ SumFunctionOnSet(B, A) \in Nat /\ SumFunctionOnSet(C, A) \in Nat
        /\ SumFunctionOnSet(B, listed \ A) \in Nat /\ SumFunctionOnSet(C, listed \ A) \in Nat
    BY <2>3, <2>4, <2>5, SumType
  <2>9. /\ probe.before <= probe.total + SumFunctionOnSet(C, listed \ A)
        /\ probe.total <= SumFunctionOnSet(C, A)
    BY <2>2, <2>6, <2>7, <2>8
  <2>10. /\ lag' \in Health!Total' /\ probe.total \in Health!Total'
         /\ probe.before \in Health!Total'
    BY <2>1 DEF LagInv, Health!Total
  <2> QED BY <2>1, <2>2, <2>9, <2>10 DEF LagInv, A, C
<1> QED BY <1>1, <1>2

\* A probe begins with nothing asked.
LEMMA OnTickKeepsLag ==
  ASSUME Health!HealthAssumption, HealthInv, OffsetsInv, LagInv, Health!OnTick
  PROVE  LagInv'
<1> DEFINE B == Health!Behind
<1>1. /\ probe' = [asked |-> {}, total |-> 0, waited |-> 0, before |-> Health!Unread]
      /\ UNCHANGED <<lag, listed, high, tail>>
  BY DEF Health!OnTick, Health!topic, Health!stream, Health!atomics
<1>2. probe'.asked = {} /\ probe'.total = 0 /\ probe'.before = SumFunctionOnSet(B, listed)
  BY <1>1, UnreadIsSum
<1>3. B' = B
  BY <1>1 DEF Health!Behind
<1>4. /\ SumFunctionOnSet(B, listed) \in Nat /\ SumFunctionOnSet(B, listed) \in Health!Total
      /\ listed \ {} = listed
  BY SumFits DEF HealthInv, PartitionsListed
<1>5. SumFunctionOnSet(B, {}) = 0
  BY SumEmpty
<1>6. lag' \in Health!Total'
  BY <1>1 DEF LagInv, Health!Total
<1> HIDE DEF B
<1>7. /\ probe'.total \in Health!Total /\ probe'.before \in Health!Total
      /\ probe'.before <= probe'.total + SumFunctionOnSet(B, listed \ probe'.asked)
      /\ probe'.total <= SumFunctionOnSet(B, probe'.asked)
  BY <1>2, <1>4, <1>5, TotalType
<1> QED BY <1>1, <1>3, <1>6, <1>7 DEF LagInv, B, Health!Total

\* An answer moves what waits in its partition from the rest to the total.
LEMMA AskKeepsLag ==
  ASSUME Health!HealthAssumption, HealthInv, OffsetsInv, LagInv,
         NEW p \in Partition, Health!Ask(p)
  PROVE  /\ LagInv'
         /\ probe' = None => probe.before <= lag' /\ lag' <= Health!Unread'
<1> DEFINE A == probe.asked
<1> DEFINE D == probe.asked \cup {p}
<1> DEFINE B == Health!Behind
<1> DEFINE Sum(S) == SumFunctionOnSet(B, S)
<1> DEFINE t == probe.total + B[p]
<1>1. /\ A \subseteq listed /\ listed \subseteq Partition /\ p \in listed \ A /\ probe # None
      /\ probe = [asked |-> A, total |-> probe.total, waited |-> probe.waited,
                  before |-> probe.before]
  BY DEF Health!Ask, HealthInv, ProbeTyped, PartitionsListed
<1>2. /\ probe.total \in Nat /\ probe.before \in Nat /\ probe.before \in Health!Total
      /\ probe.before <= probe.total + Sum(listed \ A)
      /\ probe.total <= Sum(A)
  BY <1>1, TotalType DEF LagInv
<1>3. B' = B /\ listed' = listed
  BY DEF Health!Ask, Health!topic, Health!stream, Health!Behind
<1>4. (IF high[p] > next[p] THEN high[p] - next[p] ELSE 0) = B[p]
  BY DEF OffsetsInv, Health!Offset, Health!Behind
<1>5. \/ D = listed /\ lag' = t /\ probe' = None
      \/ /\ D # listed /\ lag' = lag
         /\ probe' = [probe EXCEPT !.asked = D, !.total = t, !.waited = 0]
  BY <1>4 DEF Health!Ask
<1>6. \A x \in Partition : B[x] \in Nat
  BY BehindType
<1>7. \A S \in SUBSET Partition : IsFiniteSet(S) /\ Sum(S) \in Nat /\ Sum(S) \in Health!Total
  BY SumFits
<1>8. Sum(D) = B[p] + Sum(A)
  <2>1. D \in SUBSET Partition /\ p \in D /\ D \ {p} = A
    BY <1>1
  <2> HIDE DEF B, D
  <2> QED BY <1>6, <1>7, <2>1, SumRemove
<1>9. Sum(listed \ A) = B[p] + Sum(listed \ D)
  <2>1. listed \ A \in SUBSET Partition /\ p \in listed \ A /\ (listed \ A) \ {p} = listed \ D
    BY <1>1
  <2> HIDE DEF B, D
  <2> QED BY <1>6, <1>7, <2>1, SumRemove
<1>10. /\ B[p] \in Nat /\ Sum(D) \in Nat /\ Sum(A) \in Nat
       /\ Sum(listed \ D) \in Nat /\ Sum(listed \ A) \in Nat
  <2>1. /\ A \in SUBSET Partition /\ D \in SUBSET Partition
        /\ listed \ A \in SUBSET Partition /\ listed \ D \in SUBSET Partition
    BY <1>1
  <2> HIDE DEF A, B, D, Sum
  <2> QED BY <1>6, <1>7, <2>1
<1> HIDE DEF A, B, Sum
<1>11. /\ t \in Nat
       /\ probe.before <= t + Sum(listed \ D)
       /\ t <= Sum(D)
  <2> HIDE DEF D
  <2> QED BY <1>2, <1>8, <1>9, <1>10
<1> HIDE DEF t
<1>12. t \in Health!Total
  <2>1. D \in SUBSET Partition
    BY <1>1 DEF A
  <2>2. Sum(D) \in Health!Total
    BY <1>7, <2>1
  <2> QED BY <1>11, <2>2, TotalFits
<1>13. CASE D = listed /\ lag' = t /\ probe' = None
  <2>1. Sum(listed \ D) = 0
    <3>1. listed \ D = {}
      BY <1>13
    <3> QED BY <3>1, SumEmpty DEF Sum
  <2>2. probe.before <= t /\ t <= Sum(listed)
    <3> HIDE DEF D
    <3> QED BY <1>2, <1>11, <1>13, <2>1
  <2>3. Health!Unread' = Sum(listed)
    <3>1. Health!Unread' = SumFunctionOnSet(Health!Behind', listed')
      BY SameSums DEF Health!Unread
    <3> QED BY <1>3, <3>1 DEF Sum, B
  <2> QED BY <1>13, <1>12, <2>2, <2>3 DEF LagInv, Health!Total
<1>14. CASE /\ D # listed /\ lag' = lag
            /\ probe' = [probe EXCEPT !.asked = D, !.total = t, !.waited = 0]
  <2>1. /\ probe' = [asked |-> D, total |-> t, waited |-> 0, before |-> probe.before]
    BY <1>1, <1>14
  <2>2. probe'.asked = D /\ probe'.total = t /\ probe'.before = probe.before
    BY <2>1
  <2>3. probe' \in Health!Probe
    <3>1. D \in SUBSET Partition /\ 0 \in 0..ProbeTimeout
      BY <1>1 DEF A, Health!HealthAssumption
    <3> HIDE DEF D
    <3> QED BY <1>2, <1>12, <2>1, <3>1 DEF Health!Probe
  <2>4. probe' # None
    BY <2>3 DEF Health!HealthAssumption
  <2>5. LagInv'
    BY <1>2, <1>3, <1>11, <1>14, <1>12, <2>2 DEF LagInv, Health!Total, Sum, B
  <2> QED BY <2>4, <2>5
<1> QED BY <1>5, <1>13, <1>14

LEMMA InitKeepsLag == ASSUME Health!HealthAssumption, Health!Init PROVE LagInv
BY TotalType DEF Health!Init, LagInv

LEMMA NextKeepsLag ==
  ASSUME Health!HealthAssumption, HealthInv, OffsetsInv, LagInv, [Health!Next]_(Health!vars)
  PROVE  LagInv'
<1> USE DEF Health!topic, Health!stream, Health!atomics, Health!clock
<1>1. OffsetsInv'
  BY NextKeepsOffsets
<1>2. \A p \in Partition : Health!Behind[p] \in Nat
  BY BehindType
<1>3. CASE UNCHANGED <<high, tail, lag, listed>> /\ (probe' = None \/ probe' = probe)
  <2>1. \A p \in Partition : Health!Behind[p] <= Health!Behind[p]'
    BY <1>2, <1>3 DEF Health!Behind
  <2> QED BY <1>1, <1>3, <2>1, WaitingKeepsLag
<1>4. CASE probe' = None /\ lag' \in {0, lag}
  BY <1>4, TotalType DEF LagInv, Health!Total
<1>5. ASSUME NEW p \in Partition, Health!Publish(p) PROVE LagInv'
  <2>1. \A q \in Partition : Health!Behind[q] <= Health!Behind[q]'
    <3> SUFFICES ASSUME NEW q \in Partition PROVE high[q] - tail[q] <= high'[q] - tail'[q]
      BY DEF Health!Behind
    <3>1. high[q] \in Nat /\ tail[q] \in Nat /\ high[p] \in Nat
      BY DEF OffsetsInv, Health!Offset, Health!HealthAssumption
    <3>2. tail'[q] = tail[q] /\ high'[q] = (IF q = p THEN high[p] + 1 ELSE high[q])
      BY <1>5 DEF Health!Publish, OffsetsInv
    <3> QED BY <3>1, <3>2
  <2> QED BY <1>1, <1>5, <2>1, WaitingKeepsLag DEF Health!Publish
<1>6. CASE Health!Pass
  <2>1. \A p \in Partition : Health!Behind[p] <= Health!Behind[p]'
    BY <1>2, <1>6 DEF Health!Behind, Health!Pass
  <2>2. probe # None /\ probe' # None =>
          probe'.asked = probe.asked /\ probe'.total = probe.total /\ probe'.before = probe.before
    BY <1>6 DEF Health!Pass, HealthInv, ProbeTyped
  <2> QED BY <1>1, <1>6, <2>1, <2>2, WaitingKeepsLag DEF Health!Pass
<1>7. CASE Health!OnTick
  BY <1>7, OnTickKeepsLag
<1>8. ASSUME NEW p \in Partition, Health!Ask(p) PROVE LagInv'
  BY <1>8, AskKeepsLag
<1>9. CASE UNCHANGED Health!vars
  BY <1>3, <1>9 DEF Health!vars
<1>10. ASSUME NEW p \in Partition, Health!AddPartition(p) PROVE LagInv'
  BY <1>3, <1>10 DEF Health!AddPartition
<1>11. ASSUME NEW kind, Health!Fault(kind) PROVE LagInv'
  BY <1>3, <1>11 DEF Health!Fault
<1>12. CASE Health!Repair
  BY <1>3, <1>12 DEF Health!Repair
<1>13. CASE Health!Prepare \/ Health!Run \/ Health!End
  BY <1>4, <1>13 DEF Health!Prepare, Health!Run, Health!End, HealthInv, ClockInv
<1>14. CASE (\E p \in Partition : Health!OnMessage(p)) \/ Health!OnError
  BY <1>4, <1>14 DEF Health!OnMessage, Health!OnError, Health!InSelect
<1>15. CASE Health!AskFails
  BY <1>4, <1>15 DEF Health!AskFails
<1> QED
  BY <1>5, <1>6, <1>7, <1>8, <1>9, <1>10, <1>11, <1>12, <1>13, <1>14, <1>15
     DEF Health!Next, Health!Probing

\* The only step that ends a probe with an answer is the last Ask.
LEMMA LagBracketed ==
  ASSUME Health!HealthAssumption, HealthInv, OffsetsInv, LagInv, [Health!Next]_(Health!vars),
         probe # None, probe' = None, ok', phase' = "running"
  PROVE  probe.before <= lag' /\ lag' <= Health!Unread'
<1> USE DEF Health!topic, Health!stream, Health!atomics, Health!clock
<1>1. CASE \E p \in Partition : Health!Ask(p)
  BY <1>1, AskKeepsLag
<1>2. CASE Health!AskFails
  BY <1>2 DEF Health!AskFails
<1>3. CASE Health!End
  BY <1>3 DEF Health!End
<1>4. ~ UNCHANGED probe
  OBVIOUS
<1>5. CASE Health!OnTick \/ Health!Run \/ Health!Prepare \/ Health!OnError
  BY <1>4, <1>5 DEF Health!OnTick, Health!Run, Health!Prepare, Health!OnError, Health!InSelect
<1>6. CASE \E p \in Partition : Health!OnMessage(p) \/ Health!Publish(p) \/ Health!AddPartition(p)
  BY <1>4, <1>6 DEF Health!OnMessage, Health!Publish, Health!AddPartition
<1>7. CASE Health!Repair \/ \E kind \in {"unreachable", "denied"} : Health!Fault(kind)
  BY <1>4, <1>7 DEF Health!Repair, Health!Fault
<1>8. CASE Health!Pass
  <2>1. /\ probe.asked \in SUBSET Partition /\ probe.total \in Health!Total
        /\ probe.before \in Health!Total /\ probe.waited + 1 \in 0..ProbeTimeout
        /\ probe' = [asked |-> probe.asked, total |-> probe.total, waited |-> probe.waited + 1,
                     before |-> probe.before]
    BY <1>8 DEF Health!Pass, Health!Ready, HealthInv, ProbeTyped, PartitionsListed, LagInv,
                Health!HealthAssumption
  <2>2. probe' \in Health!Probe
    BY <2>1 DEF Health!Probe
  <2> QED BY <2>2 DEF Health!HealthAssumption
<1> QED
  BY <1>1, <1>2, <1>3, <1>4, <1>5, <1>6, <1>7, <1>8 DEF Health!Next, Health!Probing, Health!vars

LEMMA HealthTyped ==
  ASSUME Health!HealthAssumption, HealthInv, OffsetsInv, LagInv
  PROVE  Health!TypeOK
<1>1. probe # None => probe \in Health!Probe
  <2> SUFFICES ASSUME probe # None PROVE probe \in Health!Probe
    OBVIOUS
  <2>1. /\ probe.asked \in SUBSET Partition /\ probe.waited \in 0..ProbeTimeout
        /\ probe.total \in Health!Total /\ probe.before \in Health!Total
        /\ probe = [asked |-> probe.asked, total |-> probe.total, waited |-> probe.waited,
                    before |-> probe.before]
    BY DEF HealthInv, ProbeTyped, PartitionsListed, LagInv
  <2> QED BY <2>1 DEF Health!Probe
<1> QED
  BY <1>1 DEF Health!TypeOK, HealthInv, PartitionsListed, ClockInv, OffsetsInv, LagInv

-----------------------------------------------------------------------------
(* AlertConsumer *)

\* Everything below offset n of partition p was given to both dispatchers.
HandedBelow(p, n) ==
  \A o \in Nat : o < n /\ o < Alerts!End(p) /\ Alerts!AlertAt(p, o)
    => \A s \in Alerts!Sink : Alerts!Message(p, o) \in handed[s]

\* What a commit stands for, on its way to the broker or there.
Earned(p, n) ==
  /\ n <= Alerts!End(p)
  /\ HandedBelow(p, n)
  /\ n > 0 => Alerts!Parsed(Topic[p][n])

CommitsEarned ==
  /\ \A p \in AlertPartition : Earned(p, committed[p])
  /\ \A i \in 1..Len(requests) :
       requests[i].offset > 0 /\ Earned(requests[i].partition, requests[i].offset)

\* What the process has behind it, but for the message it is at.
ReadWasHanded ==
  \A p \in AlertPartition : \A o \in Nat :
    o < position[p] /\ Alerts!AlertAt(p, o)
      => \A s \in Alerts!Sink : \/ Alerts!Message(p, o) \in handed[s]
                                \/ current = Alerts!Message(p, o) /\ s \in dispatching

\* While the process runs, no commit is ahead of it.
CommitsBehind ==
  phase = "running" =>
    /\ \A p \in AlertPartition : committed[p] <= position[p]
    /\ \A i \in 1..Len(requests) : requests[i].offset <= position[requests[i].partition]

CurrentIsLast ==
  current # None =>
    /\ phase = "running"
    /\ position[current.partition] = current.offset + 1
    /\ Alerts!Parsed(Alerts!At(current))
    /\ committed[current.partition] <= current.offset
    /\ \A i \in 1..Len(requests) :
         requests[i].partition = current.partition => requests[i].offset <= current.offset

DispatchingCurrent == dispatching # {} => current # None

AlertsInv ==
  /\ Alerts!TypeOK
  /\ CommitsEarned
  /\ ReadWasHanded
  /\ CommitsBehind
  /\ CurrentIsLast
  /\ DispatchingCurrent

-----------------------------------------------------------------------------
LEMMA TopicLength ==
  ASSUME Alerts!AlertsAssumption, NEW p \in AlertPartition
  PROVE  Alerts!End(p) \in Nat
BY DEF Alerts!AlertsAssumption, Alerts!End

LEMMA RequestTyped ==
  ASSUME Alerts!TypeOK, NEW i \in 1..Len(requests)
  PROVE  requests[i].partition \in AlertPartition /\ requests[i].offset \in Nat
<1>1. requests \in Seq(Alerts!Position)
  BY DEF Alerts!TypeOK
<1>2. requests[i] \in Alerts!Position
  BY <1>1
<1> QED BY <1>2 DEF Alerts!Position

LEMMA InitKeepsAlerts == ASSUME Alerts!AlertsAssumption, Alerts!Init PROVE AlertsInv
<1>1. \A p \in AlertPartition : Alerts!End(p) \in Nat
  BY TopicLength
<1>2. /\ position \in [AlertPartition -> Nat] /\ committed \in [AlertPartition -> Nat]
      /\ \A p \in AlertPartition : position[p] = 0 /\ committed[p] = 0
  BY DEF Alerts!Init
<1>3. /\ phase # "running" /\ current = None /\ dispatching = {}
      /\ Len(requests) = 0 /\ requests \in Seq(Alerts!Position)
      /\ handed \in [Alerts!Sink -> SUBSET Alerts!Position]
  BY DEF Alerts!Init
<1>4. Alerts!TypeOK
  <2>1. \A p \in AlertPartition : position[p] <= Alerts!End(p) /\ committed[p] <= Alerts!End(p)
    <3> TAKE p \in AlertPartition
    <3> QED BY <1>1, <1>2
  <2>2. failures \in 0..MaxFailures
    BY DEF Alerts!Init, Alerts!AlertsAssumption
  <2> QED
    BY <1>2, <1>3, <2>1, <2>2 DEF Alerts!TypeOK, Alerts!Sink
<1>5. CommitsEarned
  BY <1>1, <1>2, <1>3 DEF CommitsEarned, Earned, HandedBelow
<1>6. ReadWasHanded
  BY <1>2 DEF ReadWasHanded
<1>7. CommitsBehind /\ CurrentIsLast /\ DispatchingCurrent
  BY <1>3 DEF CommitsBehind, CurrentIsLast, DispatchingCurrent
<1> QED
  BY <1>4, <1>5, <1>6, <1>7 DEF AlertsInv

\* A commit that arrives was earned, and one less is under way.
LEMMA ArrivesKeepsAlerts ==
  ASSUME Alerts!AlertsAssumption, AlertsInv, Alerts!CommitArrives
  PROVE  AlertsInv'
<1> DEFINE c == Head(requests)
<1>1. /\ Alerts!TypeOK /\ requests # <<>>
      /\ committed' = [committed EXCEPT ![c.partition] = c.offset]
      /\ requests' = Tail(requests)
      /\ UNCHANGED <<phase = "running", position, current, dispatching, handed, failures>>
  BY DEF AlertsInv, Alerts!CommitArrives, Alerts!consumer
<1>2. requests \in Seq(Alerts!Position) /\ Len(requests) > 0 /\ c = requests[1]
  BY <1>1 DEF Alerts!TypeOK
<1>3. c.partition \in AlertPartition /\ c.offset \in Nat /\ Earned(c.partition, c.offset)
  <2>1. c \in Alerts!Position
    BY <1>2
  <2>2. 1 \in 1..Len(requests)
    BY <1>2
  <2>3. Earned(requests[1].partition, requests[1].offset)
    BY <2>2 DEF AlertsInv, CommitsEarned
  <2> HIDE DEF c
  <2> QED BY <1>2, <2>1, <2>3 DEF Alerts!Position
<1>4. /\ requests' \in Seq(Alerts!Position)
      /\ \A i \in 1..Len(requests') : i + 1 \in 1..Len(requests) /\ requests'[i] = requests[i + 1]
  BY <1>1, <1>2
<1>5. /\ committed' \in [AlertPartition -> Nat]
     
      /\ \A p \in AlertPartition :
           committed'[p] = IF p = c.partition THEN c.offset ELSE committed[p]
  BY <1>1, <1>3 DEF Alerts!TypeOK
<1> HIDE DEF c
<1>6. Alerts!TypeOK'
  <2>1. \A p \in AlertPartition : position'[p] <= Alerts!End(p) /\ committed'[p] <= Alerts!End(p)
    <3> TAKE p \in AlertPartition
    <3> QED BY <1>1, <1>3, <1>5 DEF Alerts!TypeOK, Earned
  <2> QED BY <1>1, <1>4, <1>5, <2>1 DEF Alerts!TypeOK
<1>7. \A p \in AlertPartition : \A n \in Nat : Earned(p, n) => Earned(p, n)'
  BY <1>1 DEF Earned, HandedBelow
<1>8. CommitsEarned'
  <2>1. \A p \in AlertPartition : Earned(p, committed'[p])
    BY <1>3, <1>5 DEF AlertsInv, CommitsEarned
  <2>2. \A i \in 1..Len(requests') :
          requests'[i].offset > 0 /\ Earned(requests'[i].partition, requests'[i].offset)
    BY <1>4 DEF AlertsInv, CommitsEarned
  <2> QED BY <1>1, <2>1, <2>2 DEF CommitsEarned, Earned, HandedBelow
<1>9. ReadWasHanded' /\ DispatchingCurrent'
  BY <1>1 DEF AlertsInv, ReadWasHanded, DispatchingCurrent
<1>10. CommitsBehind'
  BY <1>1, <1>2, <1>3, <1>4, <1>5 DEF AlertsInv, CommitsBehind
<1>11. CurrentIsLast'
  BY <1>1, <1>2, <1>3, <1>4, <1>5 DEF AlertsInv, CurrentIsLast
<1> QED
  BY <1>6, <1>8, <1>9, <1>10, <1>11 DEF AlertsInv

LEMMA LostKeepsAlerts ==
  ASSUME Alerts!AlertsAssumption, AlertsInv, Alerts!CommitLost
  PROVE  AlertsInv'
<1>1. /\ Alerts!TypeOK /\ requests # <<>>
      /\ requests' = Tail(requests)
     
      /\ UNCHANGED <<phase = "running", position, current, dispatching, committed, handed>>
      /\ failures' = failures
  BY DEF AlertsInv, Alerts!CommitLost, Alerts!consumer
<1>2. requests \in Seq(Alerts!Position) /\ Len(requests) > 0
  BY <1>1 DEF Alerts!TypeOK
<1>3. /\ requests' \in Seq(Alerts!Position)
      /\ \A i \in 1..Len(requests') : i + 1 \in 1..Len(requests) /\ requests'[i] = requests[i + 1]
  BY <1>1, <1>2
<1>4. Alerts!TypeOK'
  BY <1>1, <1>3 DEF Alerts!TypeOK
<1>5. CommitsEarned'
  <2>1. \A i \in 1..Len(requests') :
          requests'[i].offset > 0 /\ Earned(requests'[i].partition, requests'[i].offset)
    BY <1>3 DEF AlertsInv, CommitsEarned
  <2> QED BY <1>1, <2>1 DEF AlertsInv, CommitsEarned, Earned, HandedBelow
<1>6. ReadWasHanded' /\ DispatchingCurrent'
  BY <1>1 DEF AlertsInv, ReadWasHanded, DispatchingCurrent
<1>7. CommitsBehind'
  BY <1>1, <1>3 DEF AlertsInv, CommitsBehind
<1>8. CurrentIsLast'
  BY <1>1, <1>3 DEF AlertsInv, CurrentIsLast
<1> QED
  BY <1>4, <1>5, <1>6, <1>7, <1>8 DEF AlertsInv

\* Reading goes on from the commits, below which everything was handed.
LEMMA ResumeKeepsAlerts ==
  ASSUME Alerts!AlertsAssumption, AlertsInv, Alerts!Resume,
         (phase' = "running") \in BOOLEAN, failures' \in 0..MaxFailures,
         current' = None, dispatching' = {}, UNCHANGED <<committed, handed>>
  PROVE  AlertsInv'
<1>1. /\ Alerts!TypeOK /\ position' = committed /\ committed' = committed /\ handed' = handed
      /\ requests' \in Seq(Alerts!Position) /\ Len(requests') = 0
  BY DEF AlertsInv, Alerts!Resume
<1>2. Alerts!TypeOK'
  BY <1>1 DEF Alerts!TypeOK
<1>3. CommitsEarned'
  BY <1>1 DEF AlertsInv, CommitsEarned, Earned, HandedBelow
<1>4. ReadWasHanded'
  <2> SUFFICES ASSUME NEW p \in AlertPartition, NEW o \in Nat, o < committed[p], Alerts!AlertAt(p,
                      o), NEW s \in Alerts!Sink
               PROVE  Alerts!Message(p, o) \in handed[s]
    BY <1>1 DEF ReadWasHanded
  <2>1. Alerts!End(p) \in Nat /\ committed[p] \in Nat /\ committed[p] <= Alerts!End(p)
    BY <1>1, TopicLength DEF Alerts!TypeOK
  <2>2. HandedBelow(p, committed[p])
    BY DEF AlertsInv, CommitsEarned, Earned
  <2> QED BY <2>1, <2>2 DEF HandedBelow
<1>5. CommitsBehind'
  BY <1>1 DEF CommitsBehind, Alerts!TypeOK
<1>6. CurrentIsLast' /\ DispatchingCurrent'
  BY DEF CurrentIsLast, DispatchingCurrent
<1> QED
  BY <1>2, <1>3, <1>4, <1>5, <1>6 DEF AlertsInv

LEMMA StartKeepsAlerts == ASSUME Alerts!AlertsAssumption, AlertsInv, Alerts!Start PROVE AlertsInv'
<1>1. current = None /\ dispatching = {}
  BY DEF AlertsInv, Alerts!Start, CurrentIsLast, DispatchingCurrent
<1> QED
  BY <1>1, ResumeKeepsAlerts DEF AlertsInv, Alerts!TypeOK, Alerts!Start

LEMMA RebalanceKeepsAlerts ==
  ASSUME Alerts!AlertsAssumption, AlertsInv, Alerts!Rebalance
  PROVE  AlertsInv'
<1>1. dispatching = {} /\ failures \in 0..MaxFailures /\ MaxFailures \in Nat
  BY DEF AlertsInv, Alerts!Rebalance, DispatchingCurrent, Alerts!TypeOK, Alerts!AlertsAssumption
<1>2. failures' \in 0..MaxFailures
  BY <1>1 DEF Alerts!Rebalance
<1> QED
  BY <1>1, <1>2, ResumeKeepsAlerts DEF AlertsInv, Alerts!TypeOK, Alerts!Rebalance

LEMMA CrashKeepsAlerts == ASSUME Alerts!AlertsAssumption, AlertsInv, Alerts!Crash PROVE AlertsInv'
<1>1. /\ Alerts!TypeOK /\ (phase' = "running") = FALSE /\ current' = None /\ dispatching' = {}
      /\ UNCHANGED <<requests, committed, handed>>
      /\ position' \in [AlertPartition -> Nat] /\ \A p \in AlertPartition : position'[p] = 0
  BY DEF AlertsInv, Alerts!Crash, Alerts!broker
<1>2. Alerts!TypeOK'
  <2>1. \A p \in AlertPartition : position'[p] <= Alerts!End(p) /\ committed'[p] <= Alerts!End(p)
    <3> TAKE p \in AlertPartition
    <3> QED BY <1>1, TopicLength DEF Alerts!TypeOK
  <2>2. failures' \in 0..MaxFailures
    BY DEF Alerts!Crash, AlertsInv, Alerts!TypeOK, Alerts!AlertsAssumption
  <2> QED BY <1>1, <2>1, <2>2 DEF Alerts!TypeOK
<1>3. CommitsEarned'
  BY <1>1 DEF AlertsInv, CommitsEarned, Earned, HandedBelow
<1>4. ReadWasHanded'
  BY <1>1 DEF ReadWasHanded
<1>5. CommitsBehind' /\ CurrentIsLast' /\ DispatchingCurrent'
  BY <1>1 DEF CommitsBehind, CurrentIsLast, DispatchingCurrent
<1> QED
  BY <1>2, <1>3, <1>4, <1>5 DEF AlertsInv

\* A message that is left behind is no alert; one that is taken is the current one.
LEMMA ReceiveKeepsAlerts ==
  ASSUME Alerts!AlertsAssumption, AlertsInv, NEW q \in AlertPartition, Alerts!Receive(q)
  PROVE  AlertsInv'
<1> DEFINE m == Alerts!Message(q, position[q])
<1>1. /\ Alerts!TypeOK /\ phase = "running" /\ current = None /\ dispatching = {}
      /\ UNCHANGED <<phase = "running", requests, committed, handed, failures>>
      /\ position[q] < Alerts!End(q)
      /\ position' = [position EXCEPT ![q] = @ + 1]
  BY DEF AlertsInv, DispatchingCurrent, Alerts!Receive, Alerts!broker
<1>2. m \in Alerts!Position /\ m # None /\ m.partition = q /\ m.offset = position[q]
  BY <1>1 DEF Alerts!TypeOK, Alerts!Position, Alerts!Message, Alerts!AlertsAssumption
<1>3. \/ Alerts!Parsed(Alerts!At(m)) /\ current' = m /\ dispatching' = Alerts!Sink
      \/ ~Alerts!Parsed(Alerts!At(m)) /\ current' = None /\ dispatching' = {}
  BY <1>1 DEF Alerts!Receive, Alerts!Message
<1>4. Alerts!At(m) = "alert" <=> Alerts!AlertAt(q, position[q])
  BY <1>2 DEF Alerts!At, Alerts!AlertAt
<1>5. /\ position' \in [AlertPartition -> Nat]
      /\ \A p \in AlertPartition : position'[p] = IF p = q THEN position[q] + 1 ELSE position[p]
  BY <1>1 DEF Alerts!TypeOK
<1> HIDE DEF m
<1>6. Alerts!TypeOK'
  <2>1. \A p \in AlertPartition : position'[p] <= Alerts!End(p) /\ committed'[p] <= Alerts!End(p)
    <3> TAKE p \in AlertPartition
    <3> QED BY <1>1, <1>5, TopicLength DEF Alerts!TypeOK
  <2>2. current' \in Alerts!Position \cup {None} /\ dispatching' \subseteq Alerts!Sink
    BY <1>2, <1>3
  <2> QED BY <1>1, <1>5, <2>1, <2>2 DEF Alerts!TypeOK
<1>7. CommitsEarned'
  BY <1>1 DEF AlertsInv, CommitsEarned, Earned, HandedBelow
<1>8. ReadWasHanded'
  <2> SUFFICES ASSUME NEW p \in AlertPartition, NEW o \in Nat, o < position'[p], Alerts!AlertAt(p,
                      o), NEW s \in Alerts!Sink
               PROVE  Alerts!Message(p, o) \in handed[s] \/ (current' = Alerts!Message(p, o)
                      /\ s \in dispatching')
    BY <1>1 DEF ReadWasHanded
  <2>1. CASE o < position[p]
    BY <1>1, <2>1 DEF AlertsInv, ReadWasHanded
  <2>2. CASE ~(o < position[p])
    <3>1. p = q /\ o = position[q]
      BY <1>1, <1>5, <2>2 DEF Alerts!TypeOK
    <3>2. Alerts!Parsed(Alerts!At(m)) /\ m = Alerts!Message(p, o)
      BY <1>4, <3>1 DEF Alerts!Parsed, m
    <3> QED BY <1>3, <3>2
  <2> QED BY <2>1, <2>2
<1>9. CommitsBehind'
  <2>1. \A p \in AlertPartition : committed[p] <= position'[p]
    BY <1>1, <1>5 DEF AlertsInv, CommitsBehind, Alerts!TypeOK
  <2>2. ASSUME NEW i \in 1..Len(requests)
        PROVE  requests[i].offset <= position'[requests[i].partition]
    <3>1. requests[i].partition \in AlertPartition /\ requests[i].offset \in Nat
      BY <1>1, RequestTyped
    <3> QED BY <1>1, <1>5, <3>1 DEF AlertsInv, CommitsBehind, Alerts!TypeOK
  <2> QED BY <1>1, <2>1, <2>2 DEF CommitsBehind
<1>10. CurrentIsLast'
  <2>1. CASE current' = None
    BY <2>1 DEF CurrentIsLast
  <2>2. CASE Alerts!Parsed(Alerts!At(m)) /\ current' = m
    BY <1>1, <1>2, <1>5, <2>2 DEF AlertsInv, CommitsBehind, CurrentIsLast, Alerts!At
  <2> QED BY <1>3, <2>1, <2>2
<1>11. DispatchingCurrent'
  BY <1>2, <1>3 DEF DispatchingCurrent
<1> QED
  BY <1>6, <1>7, <1>8, <1>9, <1>10, <1>11 DEF AlertsInv

LEMMA DispatchKeepsAlerts ==
  ASSUME Alerts!AlertsAssumption, AlertsInv, NEW t \in Alerts!Sink, Alerts!Dispatch(t)
  PROVE  AlertsInv'
<1>1. /\ Alerts!TypeOK /\ t \in dispatching /\ current # None /\ current \in Alerts!Position
      /\ dispatching' = dispatching \ {t}
      /\ UNCHANGED <<phase = "running", position, current, requests, committed, failures>>
  BY DEF AlertsInv, Alerts!TypeOK, DispatchingCurrent, Alerts!Dispatch, Alerts!broker
<1>2. /\ handed' \in [Alerts!Sink -> SUBSET Alerts!Position]
      /\ \A s \in Alerts!Sink : handed[s] \subseteq handed'[s]
      /\ Alerts!At(current) = "alert" => current \in handed'[t]
  BY <1>1 DEF Alerts!Dispatch, Alerts!TypeOK
<1>3. Alerts!TypeOK'
  BY <1>1, <1>2 DEF Alerts!TypeOK
<1>4. \A p \in AlertPartition : \A n \in Nat : Earned(p, n) => Earned(p, n)'
  BY <1>2 DEF Earned, HandedBelow
<1>5. CommitsEarned'
  <2>1. \A p \in AlertPartition : Earned(p, committed[p])'
    BY <1>1, <1>4 DEF AlertsInv, CommitsEarned, Alerts!TypeOK
  <2>2. ASSUME NEW i \in 1..Len(requests)
        PROVE  requests[i].offset > 0 /\ Earned(requests[i].partition, requests[i].offset)'
    <3>1. requests[i].partition \in AlertPartition /\ requests[i].offset \in Nat
      BY <1>1, RequestTyped
    <3> QED BY <1>1, <1>4, <3>1 DEF AlertsInv, CommitsEarned
  <2> QED BY <1>1, <2>1, <2>2 DEF CommitsEarned
<1>6. ReadWasHanded'
  <2> SUFFICES ASSUME NEW p \in AlertPartition, NEW o \in Nat, o < position[p], Alerts!AlertAt(p,
                      o), NEW s \in Alerts!Sink
               PROVE  Alerts!Message(p, o) \in handed'[s] \/ (current = Alerts!Message(p, o)
                      /\ s \in dispatching')
    BY <1>1 DEF ReadWasHanded
  <2>1. CASE Alerts!Message(p, o) \in handed[s]
    BY <1>2, <2>1
  <2>2. CASE current = Alerts!Message(p, o) /\ s \in dispatching /\ s # t
    BY <1>1, <2>2
  <2>3. CASE current = Alerts!Message(p, o) /\ s = t
    <3>1. Alerts!At(current) = "alert"
      BY <2>3 DEF Alerts!At, Alerts!AlertAt, Alerts!Message
    <3> QED BY <1>2, <2>3, <3>1
  <2> QED BY <2>1, <2>2, <2>3 DEF AlertsInv, ReadWasHanded
<1>7. CommitsBehind' /\ CurrentIsLast' /\ DispatchingCurrent'
  BY <1>1 DEF AlertsInv, CommitsBehind, CurrentIsLast, DispatchingCurrent, Alerts!At
<1> QED
  BY <1>3, <1>5, <1>6, <1>7 DEF AlertsInv

\* With both calls over, the message commits everything up to itself.
LEMMA CommitKeepsAlerts == ASSUME Alerts!AlertsAssumption, AlertsInv, Alerts!Commit PROVE AlertsInv'
<1> DEFINE p == current.partition
<1> DEFINE n == current.offset + 1
<1> DEFINE c == [current EXCEPT !.offset = @ + 1]
<1>1. /\ Alerts!TypeOK /\ current # None /\ current \in Alerts!Position /\ dispatching = {}
      /\ current' = None /\ dispatching' = {}
      /\ requests' = Append(requests, c) \/ requests' = requests
      /\ UNCHANGED <<phase = "running", position, committed, handed, failures>>
  BY DEF AlertsInv, Alerts!TypeOK, Alerts!Commit
<1>2. /\ p \in AlertPartition /\ n \in Nat /\ n > 0
      /\ c \in Alerts!Position /\ c.partition = p /\ c.offset = n
  BY <1>1 DEF Alerts!Position
<1>3. phase = "running" /\ position[p] = n /\ Alerts!Parsed(Alerts!At(current))
  BY <1>1 DEF AlertsInv, CurrentIsLast
<1>4. Earned(p, n)
  <2>1. n <= Alerts!End(p)
    BY <1>1, <1>2, <1>3 DEF Alerts!TypeOK
  <2>2. HandedBelow(p, n)
    BY <1>1, <1>2, <1>3 DEF AlertsInv, ReadWasHanded, HandedBelow
  <2>3. Alerts!Parsed(Topic[p][n])
    BY <1>3 DEF Alerts!At
  <2> QED BY <2>1, <2>2, <2>3 DEF Earned
<1> HIDE DEF p, n, c
<1>5. requests \in Seq(Alerts!Position)
  BY <1>1 DEF Alerts!TypeOK
<1>6. /\ requests' \in Seq(Alerts!Position)
      /\ \A i \in 1..Len(requests') :
           \/ i \in 1..Len(requests) /\ requests'[i] = requests[i]
           \/ requests'[i] = c
  BY <1>1, <1>2, <1>5
<1>7. Alerts!TypeOK'
  BY <1>1, <1>6 DEF Alerts!TypeOK
<1>8. CommitsEarned'
  <2>1. ASSUME NEW i \in 1..Len(requests')
        PROVE  requests'[i].offset > 0 /\ Earned(requests'[i].partition, requests'[i].offset)
    BY <1>2, <1>4, <1>6 DEF AlertsInv, CommitsEarned
  <2> QED BY <1>1, <2>1 DEF AlertsInv, CommitsEarned, Earned, HandedBelow
<1>9. ReadWasHanded'
  BY <1>1 DEF AlertsInv, ReadWasHanded
<1>10. CommitsBehind'
  <2>1. ASSUME NEW i \in 1..Len(requests')
        PROVE  requests'[i].offset <= position[requests'[i].partition]
    BY <1>2, <1>3, <1>6 DEF AlertsInv, CommitsBehind
  <2> QED BY <1>1, <1>3, <2>1 DEF AlertsInv, CommitsBehind
<1>11. CurrentIsLast' /\ DispatchingCurrent'
  BY <1>1 DEF CurrentIsLast, DispatchingCurrent
<1> QED
  BY <1>7, <1>8, <1>9, <1>10, <1>11 DEF AlertsInv

LEMMA NextKeepsAlerts ==
  ASSUME Alerts!AlertsAssumption, AlertsInv, [Alerts!Next]_(Alerts!vars)
  PROVE  AlertsInv'
<1>1. CASE UNCHANGED Alerts!vars
  BY <1>1 DEF Alerts!vars, Alerts!consumer, Alerts!broker, AlertsInv, Alerts!TypeOK,
              CommitsEarned, Earned, HandedBelow,
              ReadWasHanded, CommitsBehind, CurrentIsLast, DispatchingCurrent, Alerts!At
<1>2. CASE Alerts!Start
  BY <1>2, StartKeepsAlerts
<1>3. CASE Alerts!Rebalance
  BY <1>3, RebalanceKeepsAlerts
<1>4. CASE Alerts!Crash
  BY <1>4, CrashKeepsAlerts
<1>5. CASE Alerts!CommitArrives
  BY <1>5, ArrivesKeepsAlerts
<1>6. CASE Alerts!CommitLost
  BY <1>6, LostKeepsAlerts
<1>7. CASE Alerts!ProcessMessage
  BY <1>7, ReceiveKeepsAlerts, DispatchKeepsAlerts, CommitKeepsAlerts DEF Alerts!ProcessMessage
<1> QED
  BY <1>1, <1>2, <1>3, <1>4, <1>5, <1>6, <1>7 DEF Alerts!Next

LEMMA AlertsSafe ==
  ASSUME Alerts!AlertsAssumption, AlertsInv
  PROVE  Alerts!TypeOK /\ Alerts!CommittedWasHanded /\ Alerts!CommitFollowsParse
<1>1. Alerts!TypeOK
  BY DEF AlertsInv
<1>2. \A p \in AlertPartition : committed[p] \in Nat /\ Earned(p, committed[p])
  BY <1>1 DEF AlertsInv, Alerts!TypeOK, CommitsEarned
<1>3. Alerts!CommittedWasHanded
  <2> SUFFICES ASSUME NEW p \in AlertPartition, NEW o \in 0..(committed[p] - 1), Alerts!AlertAt(p,
                      o), NEW s \in Alerts!Sink
               PROVE  Alerts!Message(p, o) \in handed[s]
    BY DEF Alerts!CommittedWasHanded
  <2>1. o \in Nat /\ o < committed[p] /\ o < Alerts!End(p)
    BY <1>2, TopicLength DEF Earned
  <2> QED BY <1>2, <2>1 DEF Earned, HandedBelow
<1>4. Alerts!CommitFollowsParse
  BY <1>2 DEF Alerts!CommitFollowsParse, Earned
<1> QED
  BY <1>1, <1>3, <1>4

\* The commits under way are in order, and none is behind what is committed.
CommitsOrdered ==
  \A i \in 1..Len(requests) :
    /\ committed[requests[i].partition] <= requests[i].offset
    /\ \A j \in 1..Len(requests) :
         i < j /\ requests[i].partition = requests[j].partition
           => requests[i].offset <= requests[j].offset

LEMMA NextKeepsOrder ==
  ASSUME Alerts!AlertsAssumption, AlertsInv, CommitsOrdered, [Alerts!Next]_(Alerts!vars)
  PROVE  /\ CommitsOrdered'
         /\ \A p \in AlertPartition : committed'[p] >= committed[p]
<1> USE DEF Alerts!broker, Alerts!consumer
<1>1. /\ requests \in Seq(Alerts!Position) /\ committed \in [AlertPartition -> Nat]
      /\ current \in Alerts!Position \cup {None}
      /\ \A i \in 1..Len(requests) :
           requests[i].partition \in AlertPartition /\ requests[i].offset \in Nat
  BY RequestTyped DEF AlertsInv, Alerts!TypeOK
<1>2. CASE UNCHANGED <<requests, committed>>
  BY <1>1, <1>2 DEF CommitsOrdered
<1>3. CASE requests' = <<>> /\ committed' = committed
  BY <1>1, <1>3 DEF CommitsOrdered
<1>4. CASE Alerts!CommitArrives \/ Alerts!CommitLost
  <2>1. /\ requests # <<>> /\ requests' = Tail(requests)
    BY <1>4 DEF Alerts!CommitArrives, Alerts!CommitLost
  <2>2. /\ Len(requests) > 0 /\ Head(requests) = requests[1] /\ 1 \in 1..Len(requests)
        /\ \A i \in 1..Len(requests') : i + 1 \in 1..Len(requests)
                                       /\ requests'[i] = requests[i + 1]
    BY <1>1, <2>1
  <2>3. ASSUME NEW i \in 1..Len(requests'), NEW j \in 1..Len(requests'), i < j,
               requests'[i].partition = requests'[j].partition
        PROVE  requests'[i].offset <= requests'[j].offset
    <3>1. i + 1 \in 1..Len(requests) /\ j + 1 \in 1..Len(requests) /\ i + 1 < j + 1
      BY <2>2, <2>3
    <3> QED BY <2>2, <2>3, <3>1 DEF CommitsOrdered
  <2>4. CASE committed' = committed
    <3>1. ASSUME NEW i \in 1..Len(requests')
          PROVE  committed[requests'[i].partition] <= requests'[i].offset
      <4>1. i + 1 \in 1..Len(requests) /\ requests'[i] = requests[i + 1]
        BY <2>2
      <4> QED BY <4>1 DEF CommitsOrdered
    <3> QED BY <1>1, <2>4, <2>3, <3>1 DEF CommitsOrdered
  <2>5. CASE committed' = [committed EXCEPT ![requests[1].partition] = requests[1].offset]
    <3>1. \A p \in AlertPartition :
            committed'[p] = IF p = requests[1].partition THEN requests[1].offset ELSE committed[p]
      BY <1>1, <2>5
    <3>2. \A p \in AlertPartition : committed'[p] >= committed[p]
      BY <1>1, <2>2, <3>1 DEF CommitsOrdered
    <3>3. ASSUME NEW i \in 1..Len(requests')
          PROVE  committed'[requests'[i].partition] <= requests'[i].offset
      <4>1. i + 1 \in 1..Len(requests) /\ 1 < i + 1 /\ requests'[i] = requests[i + 1]
        BY <2>2
      <4> QED BY <1>1, <2>2, <3>1, <4>1 DEF CommitsOrdered
    <3> QED BY <2>3, <3>2, <3>3 DEF CommitsOrdered
  <2> QED BY <1>4, <2>2, <2>4, <2>5 DEF Alerts!CommitArrives, Alerts!CommitLost
<1>5. CASE Alerts!Commit
  <2> DEFINE c == [current EXCEPT !.offset = @ + 1]
  <2>1. /\ current # None /\ current \in Alerts!Position /\ committed' = committed
        /\ requests' = Append(requests, c) \/ requests' = requests
    BY <1>1, <1>5 DEF Alerts!Commit
  <2>2. /\ c \in Alerts!Position /\ c.partition = current.partition
        /\ c.offset = current.offset + 1 /\ current.offset \in Nat
        /\ c.partition \in AlertPartition
    BY <2>1 DEF Alerts!Position
  <2>3. /\ committed[c.partition] <= c.offset
        /\ \A i \in 1..Len(requests) :
             requests[i].partition = c.partition => requests[i].offset <= c.offset
    BY <1>1, <2>1, <2>2 DEF AlertsInv, CurrentIsLast
  <2> HIDE DEF c
  <2>4. CASE requests' = Append(requests, c)
    <3>1. /\ Len(requests') = Len(requests) + 1 /\ Len(requests) \in Nat
          /\ requests'[Len(requests) + 1] = c
          /\ \A i \in 1..Len(requests) : requests'[i] = requests[i]
          /\ \A i \in 1..Len(requests') : i \in 1..Len(requests) \/ i = Len(requests) + 1
      BY <1>1, <2>2, <2>4
    <3>2. ASSUME NEW i \in 1..Len(requests')
          PROVE  committed[requests'[i].partition] <= requests'[i].offset
      BY <2>3, <3>1 DEF CommitsOrdered
    <3>3. ASSUME NEW i \in 1..Len(requests'), NEW j \in 1..Len(requests'), i < j,
                 requests'[i].partition = requests'[j].partition
          PROVE  requests'[i].offset <= requests'[j].offset
      <4>1. i \in 1..Len(requests)
        BY <3>1, <3>3
      <4> QED BY <2>3, <3>1, <3>3, <4>1 DEF CommitsOrdered
    <3> QED BY <1>1, <2>1, <3>2, <3>3 DEF CommitsOrdered
  <2> QED BY <1>1, <2>1, <2>4 DEF CommitsOrdered
<1>6. CASE Alerts!Start \/ Alerts!Rebalance
  BY <1>3, <1>6 DEF Alerts!Start, Alerts!Rebalance, Alerts!Resume
<1>7. CASE Alerts!Crash
  BY <1>2, <1>7 DEF Alerts!Crash
<1>8. CASE (\E p \in AlertPartition : Alerts!Receive(p)) \/ \E s \in Alerts!Sink : Alerts!Dispatch(s)
  BY <1>2, <1>8 DEF Alerts!Receive, Alerts!Dispatch
<1>9. CASE UNCHANGED Alerts!vars
  BY <1>2, <1>9 DEF Alerts!vars
<1> QED
  BY <1>4, <1>5, <1>6, <1>7, <1>8, <1>9 DEF Alerts!Next, Alerts!ProcessMessage

-----------------------------------------------------------------------------
(* A step of the whole is a step of each part, or none of it *)

LEMMA Constants == Health!HealthAssumption /\ Alerts!AlertsAssumption
BY MainLoopAssumption

\* A step of the other consumer is none of the alerts consumer.
LEMMA AlertsStutter ==
  ASSUME UNCHANGED alerts, phase' = phase \/ (phase # "running" /\ phase' # "running")
  PROVE  UNCHANGED Alerts!vars
BY DEF alerts, Alerts!vars, Alerts!consumer, Alerts!broker

LEMMA AlertsStep == [Next]_vars => [Alerts!Next]_(Alerts!vars)
<1> SUFFICES ASSUME [Next]_vars PROVE [Alerts!Next]_(Alerts!vars)
  OBVIOUS
<1>1. CASE UNCHANGED vars
  BY <1>1, AlertsStutter DEF vars, health
<1>2. CASE Run \/ End
  BY <1>2 DEF Run, End, Alerts!Next
<1>3. CASE Prepare
  BY <1>3, AlertsStutter DEF Prepare, Health!Prepare
<1>4. CASE Probing
  BY <1>4, AlertsStutter DEF Probing, Health!Probing, Health!OnTick, Health!AskFails, Health!Ask
<1>5. CASE Pass
  BY <1>5, AlertsStutter DEF Pass, Health!Pass
<1>6. CASE ControlPlane
  BY <1>6, AlertsStutter DEF ControlPlane, Health!OnMessage, Health!OnError
<1>7. CASE (\E p \in AlertPartition : Receive(p)) \/ Process
  BY <1>7 DEF Receive, Process, Alerts!Next, Alerts!ProcessMessage
<1>8. CASE Broker
  BY <1>8, AlertsStutter DEF Broker, Alerts!Next, Health!Publish, Health!AddPartition, Health!Fault,
                             Health!Repair
<1> QED
  BY <1>1, <1>2, <1>3, <1>4, <1>5, <1>6, <1>7, <1>8 DEF Next

LEMMA HealthStep == [Next]_vars => [Health!Next]_(Health!vars)
<1> SUFFICES ASSUME [Next]_vars PROVE [Health!Next]_(Health!vars)
  OBVIOUS
<1>1. CASE UNCHANGED health
  BY <1>1 DEF health, Health!vars, Health!topic, Health!stream, Health!atomics, Health!clock
<1>2. CASE Prepare \/ Run \/ End \/ Probing \/ Pass \/ ControlPlane
  BY <1>2 DEF Prepare, Run, End, Probing, Pass, ControlPlane, Health!Next
<1>3. CASE Broker
  BY <1>1, <1>3 DEF Broker, Health!Next
<1> QED
  BY <1>1, <1>2, <1>3 DEF Next, vars, Receive, Process

MainInv == HealthInv /\ OffsetsInv /\ LagInv /\ AlertsInv /\ CommitsOrdered

LEMMA MainInit == Init => MainInv
<1>1. Alerts!Init => CommitsOrdered
  BY DEF Alerts!Init, CommitsOrdered
<1> QED
  BY <1>1, Constants, InitKeepsHealth, InitKeepsOffsets, InitKeepsLag, InitKeepsAlerts
     DEF Init, MainInv

LEMMA MainNext == MainInv /\ [Next]_vars => MainInv'
BY Constants, HealthStep, AlertsStep, NextKeepsHealth, NextKeepsOffsets, NextKeepsLag,
   NextKeepsAlerts, NextKeepsOrder
   DEF MainInv

-----------------------------------------------------------------------------
(***************************************************************************)
(* In the whole process, for every topic, any number of partitions, and    *)
(* any faults and crashes, every variable of both consumers keeps its      *)
(* type: no lag is larger than the topic, and no position or commit is     *)
(* past the end of its partition.                                          *)
(***************************************************************************)
THEOREM MainLoopTypes == Spec => []TypeOK
<1>1. MainInv => TypeOK
  BY Constants, HealthTyped DEF MainInv, TypeOK, AlertsInv
<1> QED
  BY <1>1, MainInit, MainNext, PTL DEF Spec

(***************************************************************************)
(* In every run of the process whose listed partitions fit the interval,   *)
(* with one timeout each, a probe is over before the next tick is due,     *)
(* whatever the broker does: a partition that fails ends it.               *)
(***************************************************************************)
THEOREM ProbesInTime == Spec => []ProbesKeepUp
<1>1. MainInv => ProbesKeepUp
  BY DEF MainInv, HealthInv, ClockInv, ProbesKeepUp, Health!ProbesKeepUp, Health!ProbesFit
<1> QED
  BY <1>1, MainInit, MainNext, PTL DEF Spec

(***************************************************************************)
(* The lag a probe reports lies between what was unread when it began and  *)
(* what is unread when it ends, however many partitions it asks one after  *)
(* the other and whatever is published in between.                         *)
(***************************************************************************)
THEOREM LagIsNoGuess == Spec => LagIsBracketed
<1>1. MainInv /\ [Next]_vars =>
        [probe # None /\ probe' = None /\ ok' /\ phase' = "running"
           => probe.before <= lag' /\ lag' <= Health!Unread']_(Health!vars)
  BY Constants, HealthStep, LagBracketed DEF MainInv
<1> QED
  BY <1>1, MainInit, MainNext, PTL DEF Spec, LagIsBracketed, Health!LagIsBracketed

(***************************************************************************)
(* What is committed was handed to both dispatchers.                       *)
(***************************************************************************)
THEOREM CommitsAreEarned == Spec => []CommittedWasHanded
<1>1. MainInv => CommittedWasHanded
  BY Constants, AlertsSafe DEF MainInv, CommittedWasHanded
<1> QED
  BY <1>1, MainInit, MainNext, PTL DEF Spec

(***************************************************************************)
(* The last message committed of a partition is one that parsed.           *)
(***************************************************************************)
THEOREM CommitsAreParsed == Spec => []CommitFollowsParse
<1>1. MainInv => CommitFollowsParse
  BY Constants, AlertsSafe DEF MainInv, CommitFollowsParse
<1> QED
  BY <1>1, MainInit, MainNext, PTL DEF Spec

(***************************************************************************)
(* What is committed stays committed, and is never gone through again: the *)
(* commits under way are in the order of the messages, and those of an     *)
(* earlier assignment are gone when reading starts again.                  *)
(***************************************************************************)
THEOREM CommitsAreFinal == Spec => CommittedIsFinal
<1>1. MainInv /\ MainInv' /\ [Next]_vars =>
        [ /\ \A p \in AlertPartition : committed'[p] >= committed[p]
          /\ current' # None => current'.offset >= committed'[current'.partition] ]_(Alerts!vars)
  <2> SUFFICES ASSUME MainInv, MainInv', [Next]_vars
               PROVE  /\ \A p \in AlertPartition : committed'[p] >= committed[p]
                      /\ current' # None =>
                           current'.offset >= committed'[current'.partition]
    OBVIOUS
  <2>1. \A p \in AlertPartition : committed'[p] >= committed[p]
    BY Constants, AlertsStep, NextKeepsOrder DEF MainInv
  <2>2. ASSUME current' # None PROVE current'.offset >= committed'[current'.partition]
    <3>1. /\ current' \in Alerts!Position /\ committed' \in [AlertPartition -> Nat]
          /\ committed'[current'.partition] <= current'.offset
      BY <2>2 DEF MainInv, AlertsInv, CurrentIsLast, Alerts!TypeOK
    <3>2. current'.offset \in Nat /\ committed'[current'.partition] \in Nat
      BY <3>1 DEF Alerts!Position
    <3> QED BY <3>1, <3>2
  <2> QED BY <2>1, <2>2
<1> QED
  BY <1>1, MainInit, MainNext, PTL DEF Spec, CommittedIsFinal, Alerts!CommittedIsFinal
=============================================================================
