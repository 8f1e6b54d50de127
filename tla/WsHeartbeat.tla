------------------------------ MODULE WsHeartbeat ------------------------------
(***************************************************************************)
(* The clock of one open connection: the heartbeat of `handle_socket` in   *)
(* src/websocket/handler.rs.  A Ping leaves at every tick, a Pong that is  *)
(* read resets last_pong, and the tick that finds last_pong too old ends   *)
(* the loop.  All of it happens in one select! loop, whose arms await the  *)
(* writes they start.                                                      *)
(*                                                                         *)
(* Time passes in units.  The loop handles what is ready before the next   *)
(* unit, except while it awaits a write.  A peer may be gone without a     *)
(* word (its side of the network still takes bytes and never answers), or  *)
(* may stop reading for good, which leaves the write waiting.              *)
(***************************************************************************)
EXTENDS Naturals, Sequences

CONSTANTS
  Interval,  \* WS_HEARTBEAT_INTERVAL_SECS, in units
  Timeout,   \* WS_HEARTBEAT_TIMEOUT_SECS, in units
  MaxRtt,    \* a living peer's Pong is back within so many units of the Ping
  MayDie,    \* whether the peer may vanish
  MayStall   \* whether the peer may stop reading

\* AppConfig::from_env rejects a timeout that is not greater than the interval.
ASSUME HeartbeatAssumption ==
  /\ Interval \in Nat \ {0} /\ Timeout \in Nat /\ MaxRtt \in Nat
  /\ Timeout > Interval
  /\ MayDie \in BOOLEAN /\ MayStall \in BOOLEAN

VARIABLES
  loop,     \* "select", "writing", or how it ended: "timeout", "ended"
  since,    \* last_pong.elapsed(), saturated at Horizon
  due,      \* units to the next tick; 0 when it is ready
  frame,    \* what is being written: "ping", "alert", "pong", or "none"
  pings,    \* ages of the Pings whose Pong is still to come
  pongs,    \* Pongs that arrived and were not read
  alive,    \* the peer answers
  reading   \* the peer takes what is written

server == <<loop, since, due, frame>>
peer   == <<pings, pongs, alive, reading>>
vars   == <<server, peer>>

Horizon == Timeout + 2 * Interval

TypeOK ==
  /\ loop \in {"select", "writing", "timeout", "ended"}
  /\ since \in 0..Horizon
  /\ due \in 0..Interval
  /\ frame \in {"none", "ping", "alert", "pong"}
  /\ (loop = "select" => frame = "none") /\ (loop = "writing" => frame # "none")
  /\ pings \in Seq(0..MaxRtt)
  /\ Len(pings) <= (MaxRtt \div Interval) + 1
  /\ pongs \in 0..(MaxRtt \div Interval) + 2
  /\ alive \in BOOLEAN /\ reading \in BOOLEAN

\* tokio::time::interval: the first tick is ready at once
Init ==
  /\ loop = "select" /\ since = 0 /\ due = 0 /\ frame = "none"
  /\ pings = <<>> /\ pongs = 0
  /\ alive = TRUE /\ reading = TRUE

Open == loop \in {"select", "writing"}

-----------------------------------------------------------------------------
(* The loop *)

StartWrite(f) == loop' = "writing" /\ frame' = f

\* Mutation: the elapsed time is not looked at, only the write can fail.
Tick_NeverExpires ==
  /\ loop = "select" /\ due = 0
  /\ StartWrite("ping")
  /\ due' = Interval
  /\ UNCHANGED <<since, peer>>

\* Mutation: missed ticks are not skipped, the Ping leaves and the tick stays ready.
Tick_Bursts ==
  /\ loop = "select" /\ due = 0 /\ since < Timeout
  /\ StartWrite("ping")
  /\ UNCHANGED <<since, due, peer>>

\* heartbeat.tick(): MissedTickBehavior::Delay counts from this tick
Tick ==
  /\ loop = "select" /\ due = 0
  /\ \/ /\ since >= Timeout
        /\ loop' = "timeout"
        /\ UNCHANGED <<due, frame>>
     \/ /\ since < Timeout
        /\ StartWrite("ping")
        /\ due' = Interval
  /\ UNCHANGED <<since, peer>>

\* Mutation: the Pong is taken and last_pong stays.
ReadPong_Ignored ==
  /\ loop = "select" /\ pongs > 0
  /\ pongs' = pongs - 1
  /\ UNCHANGED <<server, pings, alive, reading>>

ReadPong ==
  /\ loop = "select" /\ pongs > 0
  /\ pongs' = pongs - 1
  /\ since' = 0
  /\ UNCHANGED <<loop, due, frame, pings, alive, reading>>

\* An alert from the channel, or the answer to a Ping of the peer
WriteOther ==
  /\ loop = "select"
  /\ \/ StartWrite("alert")
     \/ alive /\ StartWrite("pong")
  /\ UNCHANGED <<since, due, peer>>

Written ==
  /\ loop = "writing" /\ reading
  /\ loop' = "select" /\ frame' = "none"
  /\ pings' = IF frame = "ping" /\ alive THEN Append(pings, 0) ELSE pings
  /\ UNCHANGED <<since, due, pongs, alive, reading>>

\* A write error, a read error, a Close frame or the end of the stream
End ==
  /\ Open
  /\ loop' = "ended"
  /\ UNCHANGED <<since, due, frame, peer>>

-----------------------------------------------------------------------------
(* The peer and the clock *)

Answer ==
  /\ alive /\ pings # <<>>
  /\ pings' = Tail(pings)
  /\ pongs' = pongs + 1
  /\ UNCHANGED <<server, alive, reading>>

Vanish ==
  /\ MayDie /\ alive
  /\ alive' = FALSE /\ pings' = <<>>
  /\ UNCHANGED <<server, pongs, reading>>

StopReading ==
  /\ MayStall /\ reading
  /\ reading' = FALSE
  /\ UNCHANGED <<server, pings, pongs, alive>>

Ready ==
  \/ loop = "select" /\ (due = 0 \/ pongs > 0)
  \/ loop = "writing" /\ reading

Pass ==
  /\ Open /\ ~Ready
  /\ \A k \in 1..Len(pings) : pings[k] < MaxRtt
  /\ since' = IF since < Horizon THEN since + 1 ELSE since
  /\ due' = IF due = 0 THEN 0 ELSE due - 1
  /\ pings' = [k \in 1..Len(pings) |-> pings[k] + 1]
  /\ UNCHANGED <<loop, frame, pongs, alive, reading>>

Next ==
  \/ Tick \/ ReadPong \/ WriteOther \/ Written \/ End
  \/ Answer \/ Vanish \/ StopReading \/ Pass

Spec == Init /\ [][Next]_vars

-----------------------------------------------------------------------------
(* Properties *)

(***************************************************************************)
(* A peer that vanished and still takes what is written to it is found     *)
(* out: the server looks once per interval, so its connection is open no   *)
(* longer than the timeout and one interval after the last Pong, whatever  *)
(* else is written meanwhile.                                              *)
(***************************************************************************)
SilentPeerIsClosed == Open /\ reading => since < Timeout + Interval

(***************************************************************************)
(* README: "Heartbeat ping/pong para desconexion de conexiones colgadas",  *)
(* and "Si no llega Pong dentro de WS_HEARTBEAT_TIMEOUT_SECS, el servidor  *)
(* cierra la conexion", of every peer, the one that stops reading too.     *)
(***************************************************************************)
HungPeerIsClosed == Open => since < Timeout + Interval

(***************************************************************************)
(* A peer whose Pongs come back soon enough is never taken for dead: not   *)
(* when several Pings are under way at once, nor when a fast Pong is       *)
(* followed by a slow one, nor when it arrives with the tick that checks.  *)
(* Soon enough is what the timeout leaves after one interval, because      *)
(* last_pong ages an interval before the next Ping leaves; that something  *)
(* is left is the check of from_env.                                       *)
(***************************************************************************)
LivingPeerIsKept == alive /\ MaxRtt + Interval < Timeout => loop # "timeout"
=============================================================================
