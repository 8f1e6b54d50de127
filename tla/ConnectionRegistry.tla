-------------------------- MODULE ConnectionRegistry --------------------------
(***************************************************************************)
(* src/websocket/registry.rs: the open WebSocket connections, with an      *)
(* index by unit for the dispatcher and one by user for the log.  Every    *)
(* operation takes the lock once and is one function of the registry.      *)
(***************************************************************************)
EXTENDS Naturals, Sequences, SequencesExt

CONSTANTS
  Conn,   \* connections, each with a fresh connection_id
  Unit,   \* units that raise alerts
  Key,    \* pairs (organization, user)
  KeyOf,  \* [Conn -> Key]: who opened the connection
  None    \* an absent entry

ASSUME RegistryAssumption == KeyOf \in [Conn -> Key] /\ (\A units \in SUBSET Unit : units # None)

\* connections maps a registered connection to its unit_ids.
Registry == [connections : [Conn -> {None} \cup SUBSET Unit],
             by_unit     : [Unit -> Seq(Conn)],
             by_user     : [Key -> Seq(Conn)]]

EmptyRegistry == [connections |-> [c \in Conn |-> None],
                  by_unit     |-> [x \in Unit |-> <<>>],
                  by_user     |-> [k \in Key |-> <<>>]]

Registered(r) == {c \in Conn : r.connections[c] # None}

AddConnection(r, c, units) ==
  [connections |-> [r.connections EXCEPT ![c] = units],
   by_unit     |-> [x \in Unit |-> IF x \in units THEN Append(r.by_unit[x], c)
                                   ELSE r.by_unit[x]],
   by_user     |-> [r.by_user EXCEPT ![KeyOf[c]] = Append(@, c)]]

\* The ids that are in kept, in their order: what retain and filter_map leave of a Vec.
Keeping(ids, kept) ==
  LET first[i \in 0..Len(ids)] ==
        IF i = 0 THEN <<>>
        ELSE IF ids[i] \in kept THEN Append(first[i - 1], ids[i])
        ELSE first[i - 1]
  IN  first[Len(ids)]

\* connection_ids.retain
Without(ids, c) == Keeping(ids, Conn \ {c})

\* Mutation: the index by unit is not cleaned up.
RemoveConnection_KeepsUnits(r, c) ==
  IF c \notin Registered(r) THEN r
  ELSE [r EXCEPT !.connections[c] = None,
                 !.by_user[KeyOf[c]] = Without(@, c)]

RemoveConnection(r, c) ==
  IF c \notin Registered(r) THEN r
  ELSE [connections |-> [r.connections EXCEPT ![c] = None],
        by_unit     |-> [x \in Unit |-> IF x \in r.connections[c]
                                        THEN Without(r.by_unit[x], c)
                                        ELSE r.by_unit[x]],
        by_user     |-> [r.by_user EXCEPT ![KeyOf[c]] = Without(@, c)]]

\* Mutation: everybody is a target, as if the client filtered.
SendersForUnit_Everybody(r, x) ==
  SetToSeq(Registered(r))

\* The ids of senders_for_unit; each comes with a clone of its sender.
SendersForUnit(r, x) == Keeping(r.by_unit[x], Registered(r))

Lists(ids, members) == IsInjective(ids) /\ ToSet(ids) = members

\* A registered connection is indexed once where it belongs, and nothing else is.
Indexed(r) ==
  /\ \A x \in Unit : Lists(r.by_unit[x], {c \in Registered(r) : x \in r.connections[c]})
  /\ \A k \in Key : Lists(r.by_user[k], {c \in Registered(r) : KeyOf[c] = k})
=============================================================================
