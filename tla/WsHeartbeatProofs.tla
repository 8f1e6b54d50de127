--------------------------- MODULE WsHeartbeatProofs ---------------------------
(***************************************************************************)
(* The heartbeat of WsHeartbeat, for any interval, timeout and round trip: *)
(* silent peers are found out in time and living ones are kept.            *)
(***************************************************************************)
EXTENDS WsHeartbeat, RecursionFacts

\* What the arguments below need of TypeOK; the rest bounds the run.
Typed ==
  /\ loop \in {"select", "writing", "timeout", "ended"}
  /\ since \in Nat /\ due \in 0..Interval
  /\ pings \in Seq(0..MaxRtt) /\ pongs \in Nat
  /\ alive \in BOOLEAN /\ reading \in BOOLEAN

\* The next look at last_pong comes before it is too old by an interval.
LookIsNear == Open /\ reading => since + due < Timeout + Interval

Inv == Typed /\ LookIsNear

\* The loop is not held by a peer that stopped reading.
Moving == loop = "select" \/ (loop = "writing" /\ reading)

\* No Ping is on its way, none is being written and no Pong waits.
Quiet == pings = <<>> /\ pongs = 0

(***************************************************************************)
(* How old last_pong may be while the peer lives: it ages up to an         *)
(* interval before the next Ping leaves, then with the oldest Ping, and no *)
(* further once its Pong has arrived.                                      *)
(***************************************************************************)
LastPongIsRecent ==
  /\ pongs > 0 => since <= Interval + MaxRtt
  /\ pongs = 0 /\ pings # <<>> => since <= Interval + pings[1]
  /\ Quiet /\ loop = "writing" /\ frame = "ping" => since <= Interval
  /\ Quiet /\ ~(loop = "writing" /\ frame = "ping") => since + due <= Interval

Kept ==
  alive /\ MaxRtt + Interval < Timeout =>
    /\ loop # "timeout"
    /\ Moving => LastPongIsRecent

-----------------------------------------------------------------------------
LEMMA ConstantsTyped ==
  /\ Interval \in Nat \ {0} /\ Timeout \in Nat /\ MaxRtt \in Nat /\ Timeout > Interval
BY HeartbeatAssumption

LEMMA InitInv == Init => Inv /\ Kept
BY ConstantsTyped DEF Init, Inv, Typed, LookIsNear, Open, Kept, Moving, LastPongIsRecent, Quiet

\* What a Pass may do to the clocks.
LEMMA PassClocks ==
  ASSUME Typed, Pass
  PROVE  /\ since' \in Nat /\ since' <= since + 1
         /\ due' \in 0..Interval
         /\ due > 0 => due' = due - 1
         /\ due = 0 => due' = 0
         /\ pings' \in Seq(0..MaxRtt) /\ Len(pings') = Len(pings)
         /\ \A k \in 1..Len(pings) : pings'[k] = pings[k] + 1
         /\ UNCHANGED <<loop, frame, pongs, alive, reading>>
<1>1. /\ since \in Nat /\ due \in 0..Interval /\ pings \in Seq(0..MaxRtt)
      /\ Interval \in Nat /\ MaxRtt \in Nat
  BY ConstantsTyped DEF Typed
<1>2. since' \in Nat /\ since' <= since + 1
  BY <1>1 DEF Pass
<1>3. due' \in 0..Interval /\ (due > 0 => due' = due - 1) /\ (due = 0 => due' = 0)
  BY <1>1 DEF Pass
<1>4. /\ pings' = [k \in 1..Len(pings) |-> pings[k] + 1]
      /\ \A k \in 1..Len(pings) : pings[k] < MaxRtt
  BY DEF Pass
<1>5. \A k \in 1..Len(pings) : pings[k] + 1 \in 0..MaxRtt
  BY <1>1, <1>4
<1>6. Len(pings) \in Nat
  BY <1>1
<1>7. pings' \in Seq(0..MaxRtt) /\ Len(pings') = Len(pings)
  BY <1>4, <1>5, <1>6
<1> QED
  BY <1>2, <1>3, <1>4, <1>7 DEF Pass

LEMMA NextTyped == Typed /\ [Next]_vars => Typed'
<1> SUFFICES ASSUME Typed, [Next]_vars PROVE Typed'
  OBVIOUS
<1> USE ConstantsTyped DEF Typed
<1>1. CASE UNCHANGED vars
  BY <1>1 DEF vars, server, peer
<1>2. CASE Tick
  BY <1>2 DEF Tick, StartWrite, peer
<1>3. CASE ReadPong
  BY <1>3 DEF ReadPong
<1>4. CASE WriteOther
  BY <1>4 DEF WriteOther, StartWrite, peer
<1>5. CASE Written
  <2>1. 0 \in 0..MaxRtt /\ (pings' = pings \/ pings' = Append(pings, 0))
    BY <1>5 DEF Written
  <2>2. pings \in Seq(0..MaxRtt)
    OBVIOUS
  <2>3. pings' \in Seq(0..MaxRtt)
    BY <2>1, <2>2
  <2> QED BY <1>5, <2>3 DEF Written
<1>6. CASE End
  BY <1>6 DEF End, peer
<1>7. CASE Answer
  <2>1. pings' \in Seq(0..MaxRtt)
    BY <1>7 DEF Answer
  <2> QED BY <1>7, <2>1 DEF Answer, server
<1>8. CASE Vanish
  <2>1. pings' \in Seq(0..MaxRtt)
    BY <1>8 DEF Vanish
  <2> QED BY <1>8, <2>1 DEF Vanish, server
<1>9. CASE StopReading
  BY <1>9 DEF StopReading, server
<1>10. CASE Pass
  BY <1>10, PassClocks
<1> QED
  BY <1>1, <1>2, <1>3, <1>4, <1>5, <1>6, <1>7, <1>8, <1>9, <1>10 DEF Next

LEMMA NextInv == Inv /\ [Next]_vars => Inv'
<1> SUFFICES ASSUME Inv, [Next]_vars PROVE LookIsNear'
  BY NextTyped DEF Inv
<1> USE ConstantsTyped DEF Inv, LookIsNear, Open
<1>0. Typed
  OBVIOUS
<1>1. CASE UNCHANGED vars
  BY <1>1 DEF vars, server, peer
<1>2. CASE Tick
  BY <1>0, <1>2 DEF Typed, Tick, StartWrite, peer
<1>3. CASE ReadPong
  BY <1>0, <1>3 DEF Typed, ReadPong
<1>4. CASE WriteOther
  BY <1>4 DEF WriteOther, StartWrite, peer
<1>5. CASE Written
  BY <1>5 DEF Written
<1>6. CASE End
  BY <1>6 DEF End, peer
<1>7. CASE Answer \/ Vanish \/ StopReading
  BY <1>7 DEF Answer, Vanish, StopReading, server
<1>8. CASE Pass
  <2>1. reading /\ Open => loop = "select" /\ due # 0
    BY <1>8 DEF Pass, Ready
  <2>2. since \in Nat /\ due \in 0..Interval
    BY <1>0 DEF Typed
  <2>3. /\ since' \in Nat /\ since' <= since + 1 /\ (due > 0 => due' = due - 1)
        /\ loop' = loop /\ reading' = reading
    BY <1>0, <1>8, PassClocks
  <2> QED BY <2>1, <2>2, <2>3
<1> QED
  BY <1>1, <1>2, <1>3, <1>4, <1>5, <1>6, <1>7, <1>8 DEF Next

(***************************************************************************)
(* A peer that is silent and still takes what is written to it is found    *)
(* out within the timeout and one interval, for any of the two.            *)
(***************************************************************************)
THEOREM SilentPeersAreClosed == Spec => []SilentPeerIsClosed
<1>1. Inv => SilentPeerIsClosed
  BY ConstantsTyped DEF Inv, Typed, LookIsNear, SilentPeerIsClosed
<1>2. Inv /\ [Next]_vars => Inv'
  BY NextInv
<1> QED
  BY <1>1, <1>2, InitInv, PTL DEF Spec

-----------------------------------------------------------------------------
(* Living peers *)

\* A unit passes: one more since the last Pong, one less to the next tick.
LEMMA UnitPasses ==
  \A s, t, d, i \in Nat : t <= s + 1 /\ d > 0 /\ s + d <= i => t + (d - 1) <= i
OBVIOUS

LEMMA UnitGains ==
  \A a, d, e, i \in Nat : a + d >= i /\ e + 1 >= d => (a + 1) + e >= i
OBVIOUS

\* Typing that the steps below use, stated once.
LEMMA Ages ==
  ASSUME Typed
  PROVE  /\ since \in Nat /\ due \in 0..Interval /\ pongs \in Nat
         /\ pings \in Seq(0..MaxRtt)
         /\ pings # <<>> => pings[1] \in 0..MaxRtt
<1>1. pings \in Seq(0..MaxRtt)
  BY DEF Typed
<1>2. pings # <<>> => pings[1] \in 0..MaxRtt
  <2> DEFINE R == 0..MaxRtt
  <2>1. pings \in Seq(R)
    BY <1>1
  <2> HIDE DEF R
  <2>2. pings # <<>> => pings[1] \in R
    BY <2>1
  <2> QED BY <2>2 DEF R
<1> QED BY <1>1, <1>2 DEF Typed

LEMMA NextKept == Inv /\ Kept /\ [Next]_vars => Kept'
<1> SUFFICES ASSUME Inv, Kept, [Next]_vars, alive', MaxRtt + Interval < Timeout
             PROVE  loop' # "timeout" /\ (Moving' => LastPongIsRecent')
  BY DEF Kept
<1>1. alive
  BY DEF Inv, Typed, Next, vars, server, peer, Tick, ReadPong, WriteOther, Written, End, Answer,
         Vanish, StopReading, Pass
<1>2. loop # "timeout" /\ (Moving => LastPongIsRecent)
  BY <1>1 DEF Kept
<1>3. /\ since \in Nat /\ due \in 0..Interval /\ pongs \in Nat
      /\ pings \in Seq(0..MaxRtt)
      /\ pings # <<>> => pings[1] \in 0..MaxRtt
  BY Ages DEF Inv
<1> USE ConstantsTyped
<1>4. CASE UNCHANGED vars
  BY <1>2, <1>4 DEF vars, server, peer, Moving, LastPongIsRecent, Quiet
<1>5. CASE Tick
  <2>1. loop = "select" /\ due = 0 /\ pings' = pings /\ pongs' = pongs /\ since' = since
    BY <1>5 DEF Tick, peer
  <2>2. LastPongIsRecent
    BY <1>2, <2>1 DEF Moving
  <2>3. since <= Interval + MaxRtt
    BY <1>3, <2>1, <2>2 DEF LastPongIsRecent, Quiet
  <2>4. loop' = "writing" /\ frame' = "ping"
    BY <1>3, <1>5, <2>3 DEF Tick, StartWrite
  <2> QED BY <1>3, <2>1, <2>2, <2>4 DEF LastPongIsRecent, Quiet
<1>6. CASE ReadPong
  BY <1>3, <1>6 DEF ReadPong, LastPongIsRecent, Quiet
<1>7. CASE WriteOther
  BY <1>2, <1>3, <1>7 DEF WriteOther, StartWrite, peer, Moving, LastPongIsRecent, Quiet
<1>8. CASE Written
  <2>1. /\ loop = "writing" /\ loop' = "select" /\ Moving
        /\ since' = since /\ due' = due /\ pongs' = pongs
    BY <1>8 DEF Written, Moving
  <2>2. LastPongIsRecent
    BY <1>2, <2>1
  <2>3. CASE frame = "ping"
    <3>1. pings' = Append(pings, 0)
      BY <1>1, <1>8, <2>3 DEF Written
    <3>2. pings' # <<>> /\ pings'[1] = IF pings = <<>> THEN 0 ELSE pings[1]
      BY <1>3, <3>1
    <3> QED BY <1>3, <2>1, <2>2, <2>3, <3>2 DEF LastPongIsRecent, Quiet
  <2>4. CASE frame # "ping"
    <3>1. pings' = pings
      BY <1>8, <2>4 DEF Written
    <3> QED BY <1>3, <2>1, <2>2, <2>4, <3>1 DEF LastPongIsRecent, Quiet
  <2> QED BY <2>3, <2>4
<1>9. CASE End
  BY <1>9 DEF End, Moving
<1>10. CASE Answer
  <2>1. /\ pings # <<>> /\ pongs' = pongs + 1
        /\ since' = since /\ loop' = loop /\ (Moving' <=> Moving)
    BY <1>10 DEF Answer, server, Moving
  <2>2. Moving => since <= Interval + MaxRtt
    BY <1>2, <1>3, <2>1 DEF LastPongIsRecent
  <2> QED BY <1>2, <1>3, <2>1, <2>2 DEF LastPongIsRecent, Quiet
<1>11. CASE Vanish
  BY <1>11 DEF Vanish
<1>12. CASE StopReading
  BY <1>2, <1>12 DEF StopReading, server, Moving, LastPongIsRecent, Quiet
<1>13. CASE Pass
  <2>1. /\ since' \in Nat /\ since' <= since + 1
        /\ due > 0 => due' = due - 1
        /\ UNCHANGED <<loop, frame, pongs, alive, reading>>
        /\ pings' \in Seq(0..MaxRtt) /\ Len(pings') = Len(pings)
        /\ \A k \in 1..Len(pings) : pings'[k] = pings[k] + 1
    BY <1>13, PassClocks DEF Inv
  <2>2. Moving => loop = "select" /\ due > 0 /\ pongs = 0
    BY <1>3, <1>13 DEF Pass, Ready, Moving
  <2>3. (pings' = <<>>) <=> (pings = <<>>)
    BY <1>3, <2>1
  <2>4. pings # <<>> => pings'[1] = pings[1] + 1
    BY <1>3, <2>1
  <2>5. ASSUME Moving PROVE LastPongIsRecent'
    <3>1. LastPongIsRecent /\ loop = "select" /\ due > 0 /\ pongs = 0
      BY <1>2, <2>2, <2>5
    <3>2. pings # <<>> => since' <= Interval + pings'[1]
      BY <1>3, <2>1, <2>4, <3>1 DEF LastPongIsRecent
    <3>3. pings = <<>> => since' + due' <= Interval
      <4>1. pings = <<>> => since + due <= Interval
        BY <3>1 DEF LastPongIsRecent, Quiet
      <4>2. due' = due - 1 /\ since' \in Nat /\ since' <= since + 1
        BY <2>1, <3>1
      <4>3. since \in Nat /\ due \in Nat /\ due > 0 /\ Interval \in Nat
        BY <1>3, <3>1
      <4>4. since + due <= Interval => since' + (due - 1) <= Interval
        BY <4>2, <4>3, UnitPasses
      <4> QED BY <4>1, <4>2, <4>4
    <3> QED BY <2>1, <2>3, <3>1, <3>2, <3>3 DEF LastPongIsRecent, Quiet
  <2> QED BY <1>2, <2>1, <2>5 DEF Moving
<1> QED
  BY <1>4, <1>5, <1>6, <1>7, <1>8, <1>9, <1>10, <1>11, <1>12, <1>13 DEF Next

(***************************************************************************)
(* A peer whose Pongs are back within what the timeout leaves after one    *)
(* interval is never taken for dead, however many Pings are under way and  *)
(* whatever else is written.                                               *)
(***************************************************************************)
THEOREM LivingPeersAreKept == Spec => []LivingPeerIsKept
<1>1. Kept => LivingPeerIsKept
  BY DEF Kept, LivingPeerIsKept
<1>2. Inv /\ Kept /\ [Next]_vars => Inv' /\ Kept'
  BY NextInv, NextKept
<1> QED
  BY <1>1, <1>2, InitInv, PTL DEF Spec

-----------------------------------------------------------------------------
(* How many Pings and Pongs are under way *)

\* Whole intervals that a round trip may take.
Rounds == MaxRtt \div Interval

PingLeaves == loop = "writing" /\ frame = "ping" /\ reading

(***************************************************************************)
(* Pings leave an interval apart, oldest first, and the next one leaves no *)
(* sooner than an interval after the last.                                 *)
(***************************************************************************)
PingsAreSpaced ==
  /\ \A i \in 1..(Len(pings) - 1) : pings[i] >= pings[i + 1] + Interval
  /\ pings # <<>> => pings[Len(pings)] + due >= Interval

\* No unit passes over a Pong that waits, unless a write holds the loop, and then no Ping leaves.
FewUnderWay ==
  /\ PingLeaves => due = Interval /\ (pings # <<>> => pings[Len(pings)] >= Interval)
  /\ pongs + Len(pings) <= Rounds + 2
  /\ (Moving /\ due < Interval) \/ PingLeaves => pongs + Len(pings) <= Rounds + 1

TypeInv ==
  /\ Typed
  /\ since <= Horizon
  /\ frame \in {"none", "ping", "alert", "pong"}
  /\ (loop = "select" => frame = "none") /\ (loop = "writing" => frame # "none")
  /\ PingsAreSpaced
  /\ FewUnderWay

LEMMA Quotient ==
  ASSUME NEW M \in Nat, NEW I \in Nat \ {0}
  PROVE  M \div I \in Nat /\ M < ((M \div I) + 1) * I
OBVIOUS

\* Values at least step apart, none above most, are no more than fit.
LEMMA SpacedFit ==
  ASSUME NEW most \in Nat, NEW step \in Nat \ {0}, NEW s \in Seq(0..most),
         \A i \in 1..(Len(s) - 1) : s[i] >= s[i + 1] + step
  PROVE  most \div step \in Nat /\ Len(s) <= (most \div step) + 1
<1>1. PICK fits \in Nat : fits = most \div step /\ most < (fits + 1) * step
  BY Quotient
<1>2. Len(s) \in Nat /\ \A i \in 1..Len(s) : s[i] \in Nat /\ s[i] <= most
  OBVIOUS
<1> DEFINE P == {n \in Nat : n < Len(s) => s[Len(s) - n] >= n * step}
<1>3. 0 \in P
  BY <1>2
<1>4. ASSUME NEW n \in P PROVE n + 1 \in P
  <2> SUFFICES ASSUME n + 1 < Len(s) PROVE s[Len(s) - (n + 1)] >= (n + 1) * step
    OBVIOUS
  <2>0. Len(s) - (n + 1) \in 1..(Len(s) - 1) /\ (Len(s) - (n + 1)) + 1 = Len(s) - n
    <3>1. Len(s) \in Nat /\ n \in Nat
      BY <1>2
    <3> QED BY <3>1
  <2>1. PICK i \in 1..(Len(s) - 1) : i = Len(s) - (n + 1) /\ i + 1 = Len(s) - n
    BY <2>0
  <2>2. s[i] >= s[i + 1] + step
    BY <1>2
  <2>3. i \in 1..Len(s) /\ i + 1 \in 1..Len(s)
    BY <1>2
  <2>4. s[i] \in Nat /\ s[i + 1] \in Nat
    BY <1>2, <2>3
  <2>5. s[i + 1] >= n * step
    BY <1>2, <2>1
  <2>6. (n + 1) * step = n * step + step /\ n * step \in Nat
    OBVIOUS
  <2>7. s[i] >= (n + 1) * step
    BY <2>2, <2>4, <2>5, <2>6
  <2> QED BY <2>1, <2>7
<1>5. P = Nat
  <2>1. P \in SUBSET Nat
    OBVIOUS
  <2> HIDE DEF P
  <2> QED BY <1>3, <1>4, <2>1, Induction
<1> HIDE DEF P
<1>6. SUFFICES ASSUME Len(s) > fits + 1 PROVE FALSE
  BY <1>1, <1>2
<1>7. s[Len(s) - (fits + 1)] >= (fits + 1) * step
  <2>1. fits + 1 \in P
    BY <1>5
  <2> QED BY <1>2, <1>6, <2>1 DEF P
<1>8. s[Len(s) - (fits + 1)] <= most /\ s[Len(s) - (fits + 1)] \in Nat
  BY <1>2, <1>6
<1>9. (fits + 1) * step \in Nat
  OBVIOUS
<1> QED BY <1>1, <1>7, <1>8, <1>9

LEMMA FewPings ==
  ASSUME Typed, \A i \in 1..(Len(pings) - 1) : pings[i] >= pings[i + 1] + Interval
  PROVE  Rounds \in Nat /\ Len(pings) \in Nat /\ Len(pings) <= Rounds + 1
<1>1. pings \in Seq(0..MaxRtt)
  BY DEF Typed
<1>2. MaxRtt \div Interval \in Nat /\ Len(pings) <= (MaxRtt \div Interval) + 1
  BY <1>1, ConstantsTyped, SpacedFit
<1>3. Len(pings) \in Nat
  BY <1>1
<1> QED BY <1>2, <1>3 DEF Rounds

\* What is on its way after a Ping has left.
LEMMA OneMore ==
  ASSUME NEW s \in Seq(Nat), NEW most \in Nat,
         \A i \in 1..(Len(s) - 1) : s[i] >= s[i + 1] + most,
         s # <<>> => s[Len(s)] >= most
  PROVE  LET t == Append(s, 0)
         IN  /\ \A i \in 1..(Len(t) - 1) : t[i] >= t[i + 1] + most
             /\ Len(t) = Len(s) + 1 /\ t[Len(t)] = 0
<1> DEFINE t == Append(s, 0)
<1>1. /\ Len(t) = Len(s) + 1 /\ t[Len(s) + 1] = 0 /\ Len(s) \in Nat
      /\ \A i \in 1..Len(s) : t[i] = s[i]
  OBVIOUS
<1>2. ASSUME NEW i \in 1..Len(s) PROVE t[i] >= t[i + 1] + most
  <2>1. CASE i = Len(s)
    BY <1>1, <2>1
  <2>2. CASE i # Len(s)
    <3>1. i \in 1..(Len(s) - 1) /\ i + 1 \in 1..Len(s)
      BY <1>1, <2>2
    <3> QED BY <1>1, <3>1
  <2> QED BY <2>1, <2>2
<1> QED BY <1>1, <1>2

LEMMA AfterTheFirst ==
  ASSUME NEW s \in Seq(Nat), s # <<>>, NEW most \in Nat,
         \A i \in 1..(Len(s) - 1) : s[i] >= s[i + 1] + most
  PROVE  LET t == Tail(s)
         IN  /\ \A i \in 1..(Len(t) - 1) : t[i] >= t[i + 1] + most
             /\ Len(t) = Len(s) - 1 /\ (t # <<>> => t[Len(t)] = s[Len(s)])
<1> DEFINE t == Tail(s)
<1>1. /\ Len(t) = Len(s) - 1 /\ Len(s) \in Nat /\ Len(s) > 0
      /\ \A i \in 1..(Len(s) - 1) : t[i] = s[i + 1]
  OBVIOUS
<1>2. t # <<>> => Len(t) \in 1..(Len(s) - 1)
  BY <1>1
<1> HIDE DEF t
<1>3. ASSUME NEW i \in 1..(Len(t) - 1) PROVE t[i] >= t[i + 1] + most
  <2>1. i \in 1..(Len(s) - 1) /\ i + 1 \in 1..(Len(s) - 1)
    BY <1>1
  <2> QED BY <1>1, <2>1
<1>4. t # <<>> => t[Len(t)] = s[Len(s)]
  BY <1>1, <1>2
<1> QED BY <1>1, <1>3, <1>4 DEF t

LEMMA TypeInvInit == Init => TypeInv
<1> SUFFICES ASSUME Init PROVE TypeInv
  OBVIOUS
<1> USE DEF Init
<1>1. Typed
  BY InitInv DEF Inv
<1>2. PingsAreSpaced
  BY DEF PingsAreSpaced
<1>3. Rounds \in Nat
  BY ConstantsTyped, Quotient DEF Rounds
<1>4. FewUnderWay
  BY <1>3 DEF FewUnderWay, PingLeaves
<1>5. Horizon \in Nat
  BY ConstantsTyped DEF Horizon
<1> QED BY <1>1, <1>2, <1>4, <1>5 DEF TypeInv

\* since, loop and frame
LEMMA ClockTyped ==
  ASSUME TypeInv, [Next]_vars
  PROVE  /\ Typed' /\ since' <= Horizon
         /\ frame' \in {"none", "ping", "alert", "pong"}
         /\ (loop' = "select" => frame' = "none") /\ (loop' = "writing" => frame' # "none")
<1>1. Typed'
  BY NextTyped DEF TypeInv
<1>2. since \in Nat /\ since <= Horizon /\ Horizon \in Nat
  BY ConstantsTyped DEF TypeInv, Typed, Horizon
<1>3. since' \in {since, 0} \/ Pass
  BY DEF Next, vars, server, peer, Tick, ReadPong, WriteOther, Written, End, Answer, Vanish,
         StopReading
<1>4. since' <= Horizon
  <2>1. CASE Pass
    BY <1>2, <2>1 DEF Pass
  <2> QED BY <1>2, <1>3, <2>1
<1>5. /\ frame' \in {"none", "ping", "alert", "pong"}
      /\ (loop' = "select" => frame' = "none") /\ (loop' = "writing" => frame' # "none")
  BY DEF TypeInv, Next, vars, server, peer, Tick, StartWrite, ReadPong, WriteOther, Written, End,
         Answer, Vanish, StopReading, Pass
<1> QED BY <1>1, <1>4, <1>5

LEMMA UnderWayNext ==
  ASSUME TypeInv, [Next]_vars
  PROVE  PingsAreSpaced' /\ FewUnderWay'
<1>1. /\ pings \in Seq(0..MaxRtt) /\ pings \in Seq(Nat) /\ pongs \in Nat /\ due \in 0..Interval
      /\ Interval \in Nat \ {0} /\ MaxRtt \in Nat
      /\ loop \in {"select", "writing", "timeout", "ended"}
      /\ alive \in BOOLEAN /\ reading \in BOOLEAN
  BY ConstantsTyped DEF TypeInv, Typed
<1>2. /\ \A i \in 1..(Len(pings) - 1) : pings[i] >= pings[i + 1] + Interval
      /\ pings # <<>> => pings[Len(pings)] + due >= Interval
  BY DEF TypeInv, PingsAreSpaced
<1>3. /\ PingLeaves => due = Interval /\ (pings # <<>> => pings[Len(pings)] >= Interval)
      /\ pongs + Len(pings) <= Rounds + 2
      /\ (Moving /\ due < Interval) \/ PingLeaves => pongs + Len(pings) <= Rounds + 1
  BY DEF TypeInv, FewUnderWay
<1>4. Rounds \in Nat /\ Len(pings) \in Nat /\ Len(pings) <= Rounds + 1
  BY <1>2, FewPings DEF TypeInv
<1>5. pings # <<>> => pings[Len(pings)] \in Nat /\ Len(pings) > 0
  BY <1>1
<1>6. CASE UNCHANGED vars
  BY <1>2, <1>3, <1>6 DEF vars, server, peer, PingsAreSpaced, FewUnderWay, PingLeaves, Moving
<1>7. CASE Tick
  <2>1. /\ loop = "select" /\ due = 0 /\ pings' = pings /\ pongs' = pongs
        /\ \/ loop' = "timeout" /\ due' = due
           \/ loop' = "writing" /\ due' = Interval
    BY <1>7 DEF Tick, StartWrite, peer
  <2>2. pongs + Len(pings) <= Rounds + 1 /\ (pings # <<>> => pings[Len(pings)] >= Interval)
    BY <1>1, <1>2, <1>3, <1>5, <2>1 DEF Moving
  <2>3. PingsAreSpaced'
    BY <1>1, <1>2, <1>5, <2>1 DEF PingsAreSpaced
  <2>4. FewUnderWay'
    BY <1>1, <1>4, <2>1, <2>2 DEF FewUnderWay, PingLeaves, Moving
  <2> QED BY <2>3, <2>4
<1>8. CASE ReadPong
  BY <1>1, <1>2, <1>3, <1>4, <1>8 DEF ReadPong, PingsAreSpaced, FewUnderWay, PingLeaves, Moving
<1>9. CASE WriteOther
  BY <1>1, <1>2, <1>3, <1>9 DEF WriteOther, StartWrite, peer, PingsAreSpaced, FewUnderWay,
     PingLeaves, Moving
<1>10. CASE Written
  <2>1. /\ loop = "writing" /\ reading /\ loop' = "select" /\ frame' = "none"
        /\ due' = due /\ pongs' = pongs
    BY <1>10 DEF Written
  <2>2. CASE pings' = pings
    <3>1. (Moving /\ due < Interval) \/ PingLeaves \/ due >= Interval
      BY <1>1, <2>1 DEF Moving
    <3> QED BY <1>1, <1>2, <1>3, <1>4, <2>1, <2>2, <3>1
            DEF PingsAreSpaced, FewUnderWay, PingLeaves, Moving
  <2>3. CASE pings' = Append(pings, 0) /\ frame = "ping"
    <3>1. /\ due = Interval /\ (pings # <<>> => pings[Len(pings)] >= Interval)
          /\ pongs + Len(pings) <= Rounds + 1
      BY <1>3, <2>1, <2>3 DEF PingLeaves
    <3>2. /\ \A i \in 1..(Len(pings') - 1) : pings'[i] >= pings'[i + 1] + Interval
          /\ Len(pings') = Len(pings) + 1 /\ pings'[Len(pings')] = 0
      BY <1>1, <1>2, <2>3, <3>1, OneMore
    <3>3. PingsAreSpaced'
      BY <1>1, <2>1, <3>1, <3>2 DEF PingsAreSpaced
    <3>4. FewUnderWay'
      BY <1>1, <1>4, <2>1, <3>1, <3>2 DEF FewUnderWay, PingLeaves, Moving
    <3> QED BY <3>3, <3>4
  <2> QED BY <1>10, <2>2, <2>3 DEF Written
<1>11. CASE End
  BY <1>1, <1>2, <1>3, <1>11 DEF End, peer, PingsAreSpaced, FewUnderWay, PingLeaves, Moving
<1>12. CASE Answer
  <2>1. /\ pings # <<>> /\ pings' = Tail(pings) /\ pongs' = pongs + 1
        /\ UNCHANGED server /\ reading' = reading
    BY <1>12 DEF Answer
  <2>2. /\ \A i \in 1..(Len(pings') - 1) : pings'[i] >= pings'[i + 1] + Interval
        /\ Len(pings') = Len(pings) - 1
        /\ pings' # <<>> => pings'[Len(pings')] = pings[Len(pings)]
    BY <1>1, <1>2, <2>1, AfterTheFirst
  <2>3. PingsAreSpaced'
    BY <1>2, <2>1, <2>2 DEF PingsAreSpaced, server
  <2>4. pongs' + Len(pings') = pongs + Len(pings)
    BY <1>1, <1>4, <2>1, <2>2
  <2>5. FewUnderWay'
    BY <1>3, <2>1, <2>2, <2>4 DEF FewUnderWay, PingLeaves, Moving, server
  <2> QED BY <2>3, <2>5
<1>13. CASE Vanish
  <2>1. pings' = <<>> /\ pongs' = pongs /\ UNCHANGED server /\ reading' = reading /\ Len(<<>>) = 0
    BY <1>13 DEF Vanish
  <2>2. /\ pongs + 0 <= Rounds + 2
        /\ (Moving /\ due < Interval) \/ PingLeaves => pongs + 0 <= Rounds + 1
    BY <1>1, <1>3, <1>4
  <2> QED BY <1>3, <2>1, <2>2 DEF PingsAreSpaced, FewUnderWay, PingLeaves, Moving, server
<1>14. CASE StopReading
  <2>1. /\ pings' = pings /\ pongs' = pongs /\ UNCHANGED server /\ reading' = FALSE /\ reading
    BY <1>1, <1>14 DEF StopReading
  <2>2. ~PingLeaves' /\ (Moving' => Moving)
    BY <2>1 DEF PingLeaves, Moving, server
  <2> QED BY <1>2, <1>3, <2>1, <2>2 DEF PingsAreSpaced, FewUnderWay, server
<1>15. CASE Pass
  <2>1. /\ due > 0 => due' = due - 1
        /\ due = 0 => due' = 0
        /\ Len(pings') = Len(pings)
        /\ \A k \in 1..Len(pings) : pings'[k] = pings[k] + 1
        /\ UNCHANGED <<loop, frame, pongs, alive, reading>> /\ pings' \in Seq(0..MaxRtt)
    BY <1>15, PassClocks DEF TypeInv
  <2>2. \A k \in 1..Len(pings) : pings[k] \in Nat
    BY <1>1
  <2>3. ASSUME NEW i \in 1..(Len(pings) - 1) PROVE pings'[i] >= pings'[i + 1] + Interval
    <3>1. i \in 1..Len(pings) /\ i + 1 \in 1..Len(pings)
      BY <1>4
    <3>2. /\ pings'[i] = pings[i] + 1 /\ pings'[i + 1] = pings[i + 1] + 1
          /\ pings[i] >= pings[i + 1] + Interval
      BY <1>2, <2>1, <3>1
    <3>3. pings[i] \in Nat /\ pings[i + 1] \in Nat
      BY <2>2, <3>1
    <3> QED BY <1>1, <3>2, <3>3
  <2>4. pings' # <<>> => pings'[Len(pings')] + due' >= Interval
    <3> SUFFICES ASSUME pings' # <<>> PROVE pings'[Len(pings')] + due' >= Interval
      OBVIOUS
    <3>1. Len(pings) > 0
      BY <1>4, <2>1
    <3>2. Len(pings) \in 1..Len(pings) /\ pings # <<>>
      BY <1>1, <1>4, <3>1
    <3>3. pings'[Len(pings')] = pings[Len(pings)] + 1 /\ pings[Len(pings)] \in Nat
      BY <2>1, <2>2, <3>2
    <3>4. pings[Len(pings)] + due >= Interval
      BY <1>2, <3>2
    <3>5. due \in Nat /\ due' \in Nat /\ due' + 1 >= due
      BY <1>1, <2>1
    <3>6. (pings[Len(pings)] + 1) + due' >= Interval
      <4>1. PICK a \in Nat : a = pings[Len(pings)]
        BY <3>3
      <4>2. a + due >= Interval /\ Interval \in Nat
        BY <1>1, <3>4, <4>1
      <4>3. (a + 1) + due' >= Interval
        BY <3>5, <4>2, UnitGains
      <4> QED BY <4>1, <4>3
    <3> QED BY <3>3, <3>6
  <2>5. PingsAreSpaced'
    BY <2>1, <2>3, <2>4 DEF PingsAreSpaced
  <2>6. ~PingLeaves /\ ~PingLeaves' /\ (Moving' <=> Moving) /\ (Moving => pongs = 0)
    BY <1>1, <1>15, <2>1 DEF Pass, Ready, PingLeaves, Moving
  <2>7. FewUnderWay'
    BY <1>1, <1>3, <1>4, <2>1, <2>6 DEF FewUnderWay
  <2> QED BY <2>5, <2>7
<1> QED BY <1>6, <1>7, <1>8, <1>9, <1>10, <1>11, <1>12, <1>13, <1>14, <1>15 DEF Next

(***************************************************************************)
(* For any interval, timeout and round trip: Pings leave an interval       *)
(* apart, so that no more are under way than a round trip has intervals,   *)
(* and one, and the loop leaves no more Pongs waiting than those, and one. *)
(***************************************************************************)
THEOREM HeartbeatTypes == Spec => []TypeOK
<1>1. TypeInv => TypeOK
  <2> SUFFICES ASSUME TypeInv PROVE TypeOK
    OBVIOUS
  <2>1. /\ Typed /\ PingsAreSpaced /\ FewUnderWay /\ since <= Horizon /\ Horizon \in Nat
    BY ConstantsTyped DEF TypeInv, Horizon
  <2>2. Rounds \in Nat /\ Len(pings) \in Nat /\ Len(pings) <= Rounds + 1
    BY <2>1, FewPings DEF PingsAreSpaced
  <2>3. pongs \in 0..(Rounds + 2)
    BY <2>1, <2>2 DEF FewUnderWay, Typed
  <2> QED BY <2>1, <2>2, <2>3 DEF TypeInv, Typed, TypeOK, Rounds
<1>2. TypeInv /\ [Next]_vars => TypeInv'
  <2> SUFFICES ASSUME TypeInv, [Next]_vars PROVE TypeInv'
    OBVIOUS
  <2>1. Horizon' = Horizon
    BY DEF Horizon
  <2> QED BY <2>1, ClockTyped, UnderWayNext DEF TypeInv
<1> QED BY <1>1, <1>2, TypeInvInit, PTL DEF Spec
=============================================================================
