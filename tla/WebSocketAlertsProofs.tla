------------------------- MODULE WebSocketAlertsProofs -------------------------
(***************************************************************************)
(* The registry of connections keeps its indexes, whoever removes a        *)
(* connection first, and what goes to a peer is in order, authorized by    *)
(* its handshake, and complete as long as its channel has room: theorems   *)
(* about WebSocketAlerts for any connections, units and capacity.          *)
(***************************************************************************)
EXTENDS WebSocketAlerts, SequenceTheorems, RecursionFacts

-----------------------------------------------------------------------------
(* Lists of ids *)

LEMMA SetOfNothing == ToSet(<<>>) = {} /\ IsInjective(<<>>)
BY DEF ToSet, IsInjective

LEMMA SetOfAppend ==
  ASSUME NEW S, NEW s \in Seq(S), NEW e \in S
  PROVE  ToSet(Append(s, e)) = ToSet(s) \cup {e}
<1>1. DOMAIN s = 1..Len(s) /\ DOMAIN Append(s, e) = 1..(Len(s) + 1) /\ Len(s) \in Nat
  BY AppendProperties, LenProperties
<1>2. /\ \A i \in 1..Len(s) : Append(s, e)[i] = s[i]
      /\ Append(s, e)[Len(s) + 1] = e
  BY AppendProperties
<1> HIDE DEF ToSet
<1>3. ASSUME NEW x \in ToSet(Append(s, e)) PROVE x \in ToSet(s) \cup {e}
  <2>1. PICK i \in 1..(Len(s) + 1) : x = Append(s, e)[i]
    BY <1>1 DEF ToSet
  <2> QED BY <1>1, <1>2, <2>1 DEF ToSet
<1>4. ASSUME NEW x \in ToSet(s) \cup {e} PROVE x \in ToSet(Append(s, e))
  <2>1. CASE x = e
    BY <1>1, <1>2, <2>1 DEF ToSet
  <2>2. CASE x \in ToSet(s)
    <3>1. PICK i \in 1..Len(s) : x = s[i]
      BY <1>1, <2>2 DEF ToSet
    <3> QED BY <1>1, <1>2, <3>1 DEF ToSet
  <2> QED BY <2>1, <2>2
<1> QED BY <1>3, <1>4

LEMMA InjectiveAppend ==
  ASSUME NEW S, NEW s \in Seq(S), NEW e \in S, IsInjective(s), e \notin ToSet(s)
  PROVE  IsInjective(Append(s, e))
<1>1. DOMAIN s = 1..Len(s) /\ DOMAIN Append(s, e) = 1..(Len(s) + 1) /\ Len(s) \in Nat
  BY AppendProperties, LenProperties
<1>2. /\ \A i \in 1..Len(s) : Append(s, e)[i] = s[i]
      /\ Append(s, e)[Len(s) + 1] = e
  BY AppendProperties
<1>3. \A i \in 1..Len(s) : s[i] # e
  BY <1>1 DEF ToSet
<1>4. ASSUME NEW i \in 1..(Len(s) + 1), NEW j \in 1..(Len(s) + 1),
             Append(s, e)[i] = Append(s, e)[j]
      PROVE  i = j
  BY <1>1, <1>2, <1>3, <1>4 DEF IsInjective
<1> QED BY <1>1, <1>4 DEF IsInjective

LEMMA SetOfTail ==
  ASSUME NEW S, NEW s \in Seq(S), s # <<>>
  PROVE  /\ Head(s) \in ToSet(s) /\ ToSet(Tail(s)) \subseteq ToSet(s)
         /\ ToSet(s) = ToSet(Tail(s)) \cup {Head(s)}
         /\ IsInjective(s) => IsInjective(Tail(s)) /\ Head(s) \notin ToSet(Tail(s))
<1>1. /\ DOMAIN s = 1..Len(s) /\ Len(s) \in Nat \ {0} /\ Tail(s) \in Seq(S)
      /\ DOMAIN Tail(s) = 1..(Len(s) - 1) /\ Head(s) = s[1]
      /\ \A i \in 1..(Len(s) - 1) : Tail(s)[i] = s[i + 1]
  BY LenProperties, HeadTailProperties, EmptySeq
<1>2. Head(s) \in ToSet(s)
  BY <1>1 DEF ToSet
<1>3. ASSUME NEW x \in ToSet(Tail(s)) PROVE x \in ToSet(s)
  <2>1. PICK i \in 1..(Len(s) - 1) : x = Tail(s)[i]
    BY <1>1 DEF ToSet
  <2>2. x = s[i + 1] /\ i + 1 \in 1..Len(s)
    BY <1>1, <2>1
  <2> QED BY <1>1, <2>2 DEF ToSet
<1>4. ASSUME NEW x \in ToSet(s), x # Head(s) PROVE x \in ToSet(Tail(s))
  <2>1. PICK i \in 1..Len(s) : x = s[i]
    BY <1>1 DEF ToSet
  <2>2. i - 1 \in 1..(Len(s) - 1) /\ x = Tail(s)[i - 1]
    BY <1>1, <1>4, <2>1
  <2> QED BY <1>1, <2>2 DEF ToSet
<1>5. ASSUME IsInjective(s) PROVE IsInjective(Tail(s)) /\ Head(s) \notin ToSet(Tail(s))
  <2>1. \A i, j \in 1..Len(s) : s[i] = s[j] => i = j
    BY <1>1, <1>5 DEF IsInjective
  <2>2. ASSUME NEW i \in 1..(Len(s) - 1), NEW j \in 1..(Len(s) - 1), Tail(s)[i] = Tail(s)[j]
        PROVE  i = j
    <3>1. s[i + 1] = s[j + 1] /\ i + 1 \in 1..Len(s) /\ j + 1 \in 1..Len(s)
      BY <1>1, <2>2
    <3> QED BY <2>1, <3>1
  <2>3. ASSUME NEW i \in 1..(Len(s) - 1) PROVE Tail(s)[i] # Head(s)
    <3>1. Tail(s)[i] = s[i + 1] /\ i + 1 \in 1..Len(s) /\ i + 1 # 1
      BY <1>1
    <3> QED BY <1>1, <2>1, <3>1
  <2> QED BY <1>1, <2>2, <2>3 DEF IsInjective, ToSet
<1> QED BY <1>2, <1>3, <1>4, <1>5

KeepsUpto(f, ids, kept, n) ==
  /\ f[0] = <<>>
  /\ \A i \in 1..n :
       f[i] = IF ids[i] \in kept THEN Append(f[i - 1], ids[i]) ELSE f[i - 1]

\* What Keeping computes, turn by turn of its recursion.
LEMMA KeepingUnfolds ==
  ASSUME NEW S, NEW ids \in Seq(S), NEW kept
  PROVE  \E f \in [0..Len(ids) -> Seq(S)] :
            KeepsUpto(f, ids, kept, Len(ids)) /\ Keeping(ids, kept) = f[Len(ids)]
<1> DEFINE N == Len(ids)
<1> DEFINE Rec(f, i) == f[i] = IF i = 0 THEN <<>>
                               ELSE IF ids[i] \in kept THEN Append(f[i - 1], ids[i])
                               ELSE f[i - 1]
<1> DEFINE Exists(n) == \E f \in [0..n -> Seq(S)] : \A i \in 0..n : Rec(f, i)
<1> DEFINE P == {n \in Nat : n <= N => Exists(n)}
<1>1. N \in Nat /\ \A i \in 1..N : ids[i] \in S
  BY LenProperties, ElementOfSeq
<1>2. 0 \in P
  <2>1. [i \in 0..0 |-> <<>>] \in [0..0 -> Seq(S)]
    BY EmptySeq
  <2>2. \A i \in 0..0 : Rec([k \in 0..0 |-> <<>>], i)
    OBVIOUS
  <2> QED BY <2>1, <2>2
<1>3. ASSUME NEW n \in P PROVE n + 1 \in P
  <2> HIDE DEF Exists
  <2> SUFFICES ASSUME n + 1 <= N PROVE Exists(n + 1)
    OBVIOUS
  <2>0. Exists(n)
    BY <1>1
  <2>1. PICK f \in [0..n -> Seq(S)] : \A i \in 0..n : Rec(f, i)
    BY <2>0 DEF Exists
  <2> DEFINE next == IF ids[n + 1] \in kept THEN Append(f[n], ids[n + 1]) ELSE f[n]
  <2> DEFINE g == [i \in 0..(n + 1) |-> IF i = n + 1 THEN next ELSE f[i]]
  <2>2. next \in Seq(S)
    <3>1. f[n] \in Seq(S) /\ ids[n + 1] \in S
      BY <1>1, <2>1
    <3> QED BY <3>1, AppendProperties
  <2> HIDE DEF next
  <2>3. g \in [0..(n + 1) -> Seq(S)]
    BY <2>1, <2>2
  <2>4. ASSUME NEW i \in 0..(n + 1) PROVE Rec(g, i)
    <3>1. CASE i = n + 1
      BY <2>1, <3>1 DEF next
    <3>2. CASE i # n + 1
      <4>1. i \in 0..n /\ g[i] = f[i] /\ (i # 0 => g[i - 1] = f[i - 1])
        BY <2>1, <3>2
      <4> QED BY <2>1, <4>1
    <3> QED BY <3>1, <3>2
  <2> HIDE DEF Rec, g
  <2> QED BY <2>3, <2>4 DEF Exists
<1>4. P = Nat
  <2>1. P \in SUBSET Nat
    OBVIOUS
  <2> HIDE DEF P
  <2> QED BY <1>2, <1>3, <2>1, Induction
<1>5. PICK f \in [0..N -> Seq(S)] : \A i \in 0..N : Rec(f, i)
  BY <1>1, <1>4
<1> DEFINE Body(h) == [i \in 0..N |-> IF i = 0 THEN <<>>
                                      ELSE IF ids[i] \in kept THEN Append(h[i - 1], ids[i])
                                      ELSE h[i - 1]]
<1> DEFINE first == CHOOSE h : h = Body(h)
<1>6. f = Body(f)
  BY <1>5
<1>7. first = Body(first)
  <2> HIDE DEF Body
  <2> QED BY <1>6
<1>8. Keeping(ids, kept) = first[N]
  BY DEF Keeping
<1> HIDE DEF first
<1>9. \A i \in 0..N : Rec(first, i)
  BY <1>7
<1> DEFINE Q == {n \in Nat : n <= N => first[n] \in Seq(S)}
<1>10. Q = Nat
  <2>1. Q \in SUBSET Nat
    OBVIOUS
  <2>2. 0 \in Q
    <3>1. first[0] = <<>>
      BY <1>1, <1>9
    <3> QED BY <3>1, EmptySeq
  <2>3. ASSUME NEW n \in Q PROVE n + 1 \in Q
    <3> SUFFICES ASSUME n + 1 <= N PROVE first[n + 1] \in Seq(S)
      OBVIOUS
    <3>1. first[n] \in Seq(S) /\ ids[n + 1] \in S /\ n + 1 \in 0..N /\ n + 1 # 0 /\ (n + 1) - 1 = n
      BY <1>1
    <3>2. first[n + 1] = IF ids[n + 1] \in kept THEN Append(first[n], ids[n + 1]) ELSE first[n]
      BY <1>9, <3>1
    <3> QED BY <3>1, <3>2, AppendProperties
  <2> HIDE DEF Q
  <2> QED BY <2>1, <2>2, <2>3, Induction
<1>11. first \in [0..N -> Seq(S)]
  <2>1. DOMAIN first = 0..N /\ first = [i \in 0..N |-> first[i]]
    BY <1>7
  <2>2. \A i \in 0..N : first[i] \in Seq(S)
    BY <1>1, <1>10
  <2> QED BY <2>1, <2>2
<1>12. KeepsUpto(first, ids, kept, N)
  BY <1>1, <1>9 DEF KeepsUpto
<1> QED BY <1>8, <1>11, <1>12

(***************************************************************************)
(* Keeping leaves the ids that are in kept, each once if each was there    *)
(* once.                                                                   *)
(***************************************************************************)
LEMMA KeepingLists ==
  ASSUME NEW S, NEW ids \in Seq(S), NEW kept, IsInjective(ids)
  PROVE  Keeping(ids, kept) \in Seq(S) /\ Lists(Keeping(ids, kept), ToSet(ids) \cap kept)
<1>1. PICK f \in [0..Len(ids) -> Seq(S)] :
         KeepsUpto(f, ids, kept, Len(ids)) /\ Keeping(ids, kept) = f[Len(ids)]
  BY KeepingUnfolds
<1>2. /\ Len(ids) \in Nat /\ DOMAIN ids = 1..Len(ids)
      /\ \A i \in 1..Len(ids) : ids[i] \in S
      /\ \A i, j \in 1..Len(ids) : ids[i] = ids[j] => i = j
  BY LenProperties, ElementOfSeq DEF IsInjective
<1> DEFINE Upto(n) == {ids[j] : j \in 1..n} \cap kept
<1> DEFINE P == {n \in Nat : n <= Len(ids) => Lists(f[n], Upto(n))}
<1>3. 0 \in P
  BY <1>1, SetOfNothing DEF Lists, KeepsUpto
<1>4. ASSUME NEW n \in P PROVE n + 1 \in P
  <2> SUFFICES ASSUME n + 1 <= Len(ids) PROVE Lists(f[n + 1], Upto(n + 1))
    OBVIOUS
  <2>1. /\ n + 1 \in 1..Len(ids) /\ ids[n + 1] \in S /\ f[n] \in Seq(S)
        /\ Lists(f[n], Upto(n))
    BY <1>1, <1>2
  <2>2. f[n + 1] = IF ids[n + 1] \in kept THEN Append(f[n], ids[n + 1]) ELSE f[n]
    BY <1>1, <2>1 DEF KeepsUpto
  <2>3. ids[n + 1] \notin Upto(n)
    BY <1>2, <2>1
  <2>4. Upto(n + 1) = IF ids[n + 1] \in kept THEN Upto(n) \cup {ids[n + 1]} ELSE Upto(n)
    <3>1. {ids[j] : j \in 1..(n + 1)} = {ids[j] : j \in 1..n} \cup {ids[n + 1]}
      OBVIOUS
    <3> QED BY <3>1
  <2> HIDE DEF Upto
  <2>5. CASE ids[n + 1] \in kept
    <3>1. f[n + 1] = Append(f[n], ids[n + 1]) /\ Upto(n + 1) = ToSet(f[n]) \cup {ids[n + 1]}
      BY <2>1, <2>2, <2>4, <2>5 DEF Lists
    <3>2. IsInjective(f[n]) /\ ids[n + 1] \notin ToSet(f[n])
      BY <2>1, <2>3 DEF Lists
    <3>3. ToSet(f[n + 1]) = ToSet(f[n]) \cup {ids[n + 1]}
      BY <2>1, <3>1, SetOfAppend
    <3>4. IsInjective(f[n + 1])
      BY <2>1, <3>1, <3>2, InjectiveAppend
    <3> QED BY <3>1, <3>3, <3>4 DEF Lists
  <2>6. CASE ids[n + 1] \notin kept
    BY <2>1, <2>2, <2>4, <2>6
  <2> QED BY <2>5, <2>6
<1>5. P = Nat
  <2>1. P \in SUBSET Nat
    OBVIOUS
  <2> HIDE DEF P
  <2> QED BY <1>3, <1>4, <2>1, Induction
<1>6. Upto(Len(ids)) = ToSet(ids) \cap kept
  BY <1>2 DEF ToSet
<1>7. Lists(f[Len(ids)], Upto(Len(ids)))
  <2> HIDE DEF Upto
  <2> QED BY <1>2, <1>5
<1>8. f[Len(ids)] \in Seq(S)
  BY <1>2
<1> HIDE DEF Upto
<1> QED BY <1>1, <1>6, <1>7, <1>8

LEMMA ListsAppend ==
  ASSUME NEW ids \in Seq(Conn), NEW members, Lists(ids, members), NEW c \in Conn, c \notin members
  PROVE  Append(ids, c) \in Seq(Conn) /\ Lists(Append(ids, c), members \cup {c})
<1>1. ToSet(ids) = members /\ IsInjective(ids)
  BY DEF Lists
<1>2. Append(ids, c) \in Seq(Conn)
  BY AppendProperties
<1>3. ToSet(Append(ids, c)) = members \cup {c}
  BY <1>1, SetOfAppend
<1>4. IsInjective(Append(ids, c))
  BY <1>1, InjectiveAppend
<1> QED BY <1>2, <1>3, <1>4 DEF Lists

LEMMA ListsWithout ==
  ASSUME NEW ids \in Seq(Conn), NEW members \in SUBSET Conn, Lists(ids, members), NEW c \in Conn
  PROVE  Without(ids, c) \in Seq(Conn) /\ Lists(Without(ids, c), members \ {c})
<1>1. ToSet(ids) = members /\ IsInjective(ids)
  BY DEF Lists
<1>2. members \cap (Conn \ {c}) = members \ {c}
  OBVIOUS
<1> QED BY <1>1, <1>2, KeepingLists DEF Without

-----------------------------------------------------------------------------
(* The registry *)

Subscribed(r, x) == {c \in Registered(r) : x \in r.connections[c]}
OfKey(r, k) == {c \in Registered(r) : KeyOf[c] = k}

LEMMA EmptyIsIndexed == EmptyRegistry \in Registry /\ Indexed(EmptyRegistry)
<1>1. EmptyRegistry \in Registry
  <2>1. <<>> \in Seq(Conn)
    BY EmptySeq
  <2> QED BY <2>1 DEF EmptyRegistry, Registry
<1>2. Registered(EmptyRegistry) = {}
  BY DEF Registered, EmptyRegistry
<1> QED BY <1>1, <1>2, SetOfNothing DEF Indexed, Lists, EmptyRegistry

LEMMA AddKeepsIndex ==
  ASSUME NEW r \in Registry, Indexed(r), NEW c \in Conn, c \notin Registered(r),
         NEW units \in SUBSET Unit
  PROVE  LET n == AddConnection(r, c, units)
         IN  /\ n \in Registry /\ Indexed(n)
             /\ Registered(n) = Registered(r) \cup {c}
             /\ n.connections = [r.connections EXCEPT ![c] = units]
<1> DEFINE n == AddConnection(r, c, units)
<1>1. /\ r.connections \in [Conn -> {None} \cup SUBSET Unit]
      /\ r.by_unit \in [Unit -> Seq(Conn)] /\ r.by_user \in [Key -> Seq(Conn)]
      /\ KeyOf \in [Conn -> Key] /\ units # None
  BY RegistryAssumption DEF Registry
<1>2. /\ n.connections = [r.connections EXCEPT ![c] = units]
      /\ n.by_unit = [x \in Unit |-> IF x \in units THEN Append(r.by_unit[x], c)
                                     ELSE r.by_unit[x]]
      /\ n.by_user = [r.by_user EXCEPT ![KeyOf[c]] = Append(@, c)]
      /\ n = [connections |-> n.connections, by_unit |-> n.by_unit, by_user |-> n.by_user]
  BY DEF AddConnection
<1> HIDE DEF n
<1>3. /\ Registered(n) = Registered(r) \cup {c}
      /\ \A d \in Conn : n.connections[d] = IF d = c THEN units ELSE r.connections[d]
  BY <1>1, <1>2 DEF Registered
<1>4. ASSUME NEW x \in Unit
      PROVE  n.by_unit[x] \in Seq(Conn) /\ Lists(n.by_unit[x], Subscribed(n, x))
  <2>1. r.by_unit[x] \in Seq(Conn) /\ Lists(r.by_unit[x], Subscribed(r, x))
    BY <1>1 DEF Indexed, Subscribed
  <2>2. c \notin Subscribed(r, x)
    BY DEF Subscribed
  <2>3. CASE x \in units
    <3>1. Subscribed(n, x) = Subscribed(r, x) \cup {c} /\ n.by_unit[x] = Append(r.by_unit[x], c)
      BY <1>2, <1>3, <2>3 DEF Subscribed, Registered
    <3> QED BY <2>1, <2>2, <3>1, ListsAppend
  <2>4. CASE x \notin units
    <3>1. Subscribed(n, x) = Subscribed(r, x) /\ n.by_unit[x] = r.by_unit[x]
      BY <1>2, <1>3, <2>4 DEF Subscribed, Registered
    <3> QED BY <2>1, <3>1
  <2> QED BY <2>3, <2>4
<1>5. ASSUME NEW k \in Key
      PROVE  n.by_user[k] \in Seq(Conn) /\ Lists(n.by_user[k], OfKey(n, k))
  <2>1. r.by_user[k] \in Seq(Conn) /\ Lists(r.by_user[k], OfKey(r, k))
    BY <1>1 DEF Indexed, OfKey
  <2>2. c \notin OfKey(r, k)
    BY DEF OfKey
  <2>3. CASE k = KeyOf[c]
    <3>1. OfKey(n, k) = OfKey(r, k) \cup {c} /\ n.by_user[k] = Append(r.by_user[k], c)
      BY <1>1, <1>2, <1>3, <2>3 DEF OfKey, Registered
    <3> QED BY <2>1, <2>2, <3>1, ListsAppend
  <2>4. CASE k # KeyOf[c]
    <3>1. OfKey(n, k) = OfKey(r, k) /\ n.by_user[k] = r.by_user[k]
      BY <1>1, <1>2, <1>3, <2>4 DEF OfKey, Registered
    <3> QED BY <2>1, <3>1
  <2> QED BY <2>3, <2>4
<1>6. n \in Registry
  <2>1. n.connections \in [Conn -> {None} \cup SUBSET Unit]
    BY <1>1, <1>2
  <2>2. n.by_unit \in [Unit -> Seq(Conn)]
    BY <1>2, <1>4
  <2>3. n.by_user \in [Key -> Seq(Conn)]
    BY <1>1, <1>2, <1>5
  <2> QED BY <1>2, <2>1, <2>2, <2>3 DEF Registry
<1>7. Indexed(n)
  BY <1>4, <1>5 DEF Indexed, Subscribed, OfKey
<1> QED BY <1>2, <1>3, <1>6, <1>7 DEF n

LEMMA RemoveKeepsIndex ==
  ASSUME NEW r \in Registry, Indexed(r), NEW c \in Conn
  PROVE  LET n == RemoveConnection(r, c)
         IN  /\ n \in Registry /\ Indexed(n)
             /\ Registered(n) = Registered(r) \ {c}
             /\ \A d \in Conn \ {c} : n.connections[d] = r.connections[d]
<1>1. CASE c \notin Registered(r)
  BY <1>1 DEF RemoveConnection
<1>2. CASE c \in Registered(r)
  <2> DEFINE n == RemoveConnection(r, c)
  <2>1. /\ r.connections \in [Conn -> {None} \cup SUBSET Unit]
        /\ r.by_unit \in [Unit -> Seq(Conn)] /\ r.by_user \in [Key -> Seq(Conn)]
        /\ KeyOf \in [Conn -> Key]
    BY RegistryAssumption DEF Registry
  <2>2. /\ n.connections = [r.connections EXCEPT ![c] = None]
        /\ n.by_unit = [x \in Unit |-> IF x \in r.connections[c] THEN Without(r.by_unit[x], c)
                                       ELSE r.by_unit[x]]
        /\ n.by_user = [r.by_user EXCEPT ![KeyOf[c]] = Without(@, c)]
        /\ n = [connections |-> n.connections, by_unit |-> n.by_unit, by_user |-> n.by_user]
    BY <1>2 DEF RemoveConnection
  <2> HIDE DEF n
  <2>3. /\ Registered(n) = Registered(r) \ {c}
        /\ \A d \in Conn \ {c} : n.connections[d] = r.connections[d]
    BY <2>1, <2>2 DEF Registered
  <2>4. ASSUME NEW x \in Unit
        PROVE  n.by_unit[x] \in Seq(Conn) /\ Lists(n.by_unit[x], Subscribed(n, x))
    <3>1. /\ r.by_unit[x] \in Seq(Conn) /\ Lists(r.by_unit[x], Subscribed(r, x))
          /\ Subscribed(r, x) \in SUBSET Conn
      BY <2>1 DEF Indexed, Subscribed, Registered
    <3>2. Subscribed(n, x) = Subscribed(r, x) \ {c}
      BY <2>3 DEF Subscribed, Registered
    <3>3. CASE x \in r.connections[c]
      BY <2>2, <3>1, <3>2, <3>3, ListsWithout
    <3>4. CASE x \notin r.connections[c]
      <4>1. Subscribed(n, x) = Subscribed(r, x) /\ n.by_unit[x] = r.by_unit[x]
        BY <2>2, <3>2, <3>4 DEF Subscribed
      <4> QED BY <3>1, <4>1
    <3> QED BY <3>3, <3>4
  <2>5. ASSUME NEW k \in Key
        PROVE  n.by_user[k] \in Seq(Conn) /\ Lists(n.by_user[k], OfKey(n, k))
    <3>1. /\ r.by_user[k] \in Seq(Conn) /\ Lists(r.by_user[k], OfKey(r, k))
          /\ OfKey(r, k) \in SUBSET Conn
      BY <2>1 DEF Indexed, OfKey, Registered
    <3>2. OfKey(n, k) = OfKey(r, k) \ {c}
      BY <2>3 DEF OfKey
    <3>3. CASE k = KeyOf[c]
      <4>1. n.by_user[k] = Without(r.by_user[k], c)
        BY <2>1, <2>2, <3>3
      <4> QED BY <3>1, <3>2, <4>1, ListsWithout
    <3>4. CASE k # KeyOf[c]
      <4>1. OfKey(n, k) = OfKey(r, k) /\ n.by_user[k] = r.by_user[k]
        BY <2>1, <2>2, <3>2, <3>4 DEF OfKey
      <4> QED BY <3>1, <4>1
    <3> QED BY <3>3, <3>4
  <2>6. n \in Registry
    <3>1. n.connections \in [Conn -> {None} \cup SUBSET Unit]
      BY <2>1, <2>2
    <3>2. n.by_unit \in [Unit -> Seq(Conn)]
      BY <2>2, <2>4
    <3>3. n.by_user \in [Key -> Seq(Conn)]
      BY <2>1, <2>2, <2>5
    <3> QED BY <2>2, <3>1, <3>2, <3>3 DEF Registry
  <2>7. Indexed(n)
    BY <2>4, <2>5 DEF Indexed, Subscribed, OfKey
  <2> QED BY <2>3, <2>6, <2>7 DEF n
<1> QED BY <1>1, <1>2

LEMMA SendersAreSubscribed ==
  ASSUME NEW r \in Registry, Indexed(r), NEW x \in Unit
  PROVE  /\ SendersForUnit(r, x) \in Seq(Conn)
         /\ Lists(SendersForUnit(r, x), Subscribed(r, x))
<1>1. /\ r.by_unit[x] \in Seq(Conn) /\ Lists(r.by_unit[x], Subscribed(r, x))
      /\ Subscribed(r, x) \cap Registered(r) = Subscribed(r, x)
  BY DEF Indexed, Subscribed, Registry
<1>2. IsInjective(r.by_unit[x]) /\ ToSet(r.by_unit[x]) = Subscribed(r, x)
  BY <1>1 DEF Lists
<1> QED BY <1>1, <1>2, KeepingLists DEF SendersForUnit

-----------------------------------------------------------------------------
(* What goes to a peer *)

LEMMA HeadMoves ==
  ASSUME NEW S, NEW got \in Seq(S), NEW waits \in Seq(S), waits # <<>>
  PROVE  got \o <<Head(waits)>> \o Tail(waits) = got \o <<>> \o waits
<1>1. Head(waits) \in S /\ Tail(waits) \in Seq(S) /\ <<Head(waits)>> \in Seq(S)
  BY HeadTailProperties
<1>2. <<Head(waits)>> \o Tail(waits) = waits
  BY <1>1
<1>3. (got \o <<Head(waits)>>) \o Tail(waits) = got \o (<<Head(waits)>> \o Tail(waits))
  BY <1>1, ConcatAssociative
<1>4. got \o <<>> = got
  BY ConcatEmptySeq
<1> QED BY <1>2, <1>3, <1>4

LEMMA FlowMoves ==
  ASSUME NEW S, NEW got \in Seq(S), NEW way \in Seq(S), NEW waits \in Seq(S)
  PROVE  /\ got \o way \o waits \in Seq(S)
         /\ (got \o way) \o <<>> \o waits = got \o way \o waits
<1>1. got \o way \in Seq(S) /\ got \o way \o waits \in Seq(S)
  BY ConcatProperties
<1>2. (got \o way) \o <<>> \o waits = got \o way \o waits
  BY <1>1, ConcatEmptySeq
<1> QED BY <1>1, <1>2

Along(got, way, waits) == got \o way \o waits
Grown(waits, a) == Append(waits, a)

LEMMA TailGrows ==
  ASSUME NEW S, NEW got \in Seq(S), NEW way \in Seq(S), NEW waits \in Seq(S), NEW a \in S
  PROVE  Along(got, way, Grown(waits, a)) = Grown(Along(got, way, waits), a)
<1>1. got \o way \in Seq(S) /\ got \o way \o waits \in Seq(S) /\ <<a>> \in Seq(S)
  BY ConcatProperties
<1>2. Append(waits, a) = waits \o <<a>>
  BY AppendIsConcat
<1>3. Append(got \o way \o waits, a) = (got \o way \o waits) \o <<a>>
  BY <1>1, AppendIsConcat
<1>4. ((got \o way) \o waits) \o <<a>> = (got \o way) \o (waits \o <<a>>)
  BY <1>1, ConcatAssociative
<1> QED BY <1>2, <1>3, <1>4 DEF Along, Grown

LEMMA OrderAppend ==
  ASSUME NEW seq \in Seq(Alert), InOrder(seq), NEW a \in Alert,
         \A b \in ToSet(seq) : b.n < a.n
  PROVE  InOrder(Append(seq, a))
<1>1. /\ Len(Append(seq, a)) = Len(seq) + 1 /\ Len(seq) \in Nat
      /\ \A i \in 1..Len(seq) : Append(seq, a)[i] = seq[i]
      /\ Append(seq, a)[Len(seq) + 1] = a
  BY AppendProperties, LenProperties
<1>2. \A i \in 1..Len(seq) : seq[i].n < a.n
  BY LenProperties DEF ToSet
<1>3. \A i, j \in 1..Len(seq) : i < j => seq[i].n < seq[j].n
  BY DEF InOrder
<1> QED BY <1>1, <1>2, <1>3 DEF InOrder

-----------------------------------------------------------------------------
(* The invariant *)

Fresh(c) == task[c] \in {"none", "refused", "upgrading"}

\* What the dispatcher still has to try.
Due(c) == c \in ToSet(targets)

(***************************************************************************)
(* One connection.  A registered one has the units of its handshake.       *)
(* Before it opens nothing was owed to it; later all that flows was owed,  *)
(* in order, and is older than the alert still to be tried.  In its loop,  *)
(* it misses that one at most, as long as the room of its channel was no   *)
(* limit.                                                                  *)
(***************************************************************************)
ConnectionInv(c) ==
  /\ c \in Registered(registry) => ~Fresh(c) /\ registry.connections[c] = unit_ids[c]
  /\ Fresh(c) => owed[c] = <<>> /\ received[c] = <<>> /\ inflight[c] = <<>> /\ channel[c] = <<>>
  /\ task[c] = "select" => inflight[c] = <<>>
  /\ \A a \in ToSet(owed[c]) : a.n <= count /\ a.unit \in unit_ids[c]
  /\ InOrder(Flow(c))
  /\ \A a \in ToSet(Flow(c)) : a \in ToSet(owed[c]) /\ (Due(c) => a.n < current.n)
  /\ task[c] \in {"select", "writing"} /\ NeverFull(c)
       => owed[c] = IF Due(c) THEN Append(Flow(c), current) ELSE Flow(c)

DispatcherInv ==
  /\ IsInjective(targets)
  /\ current = None => targets = <<>>
  /\ targets # <<>> => current # None /\ current.n = count
  /\ \A c \in ToSet(targets) : current \in ToSet(owed[c])

Inv ==
  /\ TypeOK
  /\ RegistryIndexed
  /\ DispatcherInv
  /\ \A c \in Conn : ConnectionInv(c)

LEMMA InvInit == Init => Inv
<1> SUFFICES ASSUME Init PROVE Inv
  OBVIOUS
<1> USE DEF Init
<1>1. <<>> \in Seq(Alert) /\ <<>> \in Seq(Conn) /\ Len(<<>>) = 0
  BY EmptySeq
<1>2. TypeOK
  BY <1>1, EmptyIsIndexed, WsAssumption DEF TypeOK, NoAlerts, Pc
<1>3. RegistryIndexed
  BY EmptyIsIndexed DEF RegistryIndexed
<1>4. DispatcherInv
  BY SetOfNothing DEF DispatcherInv
<1>5. ASSUME NEW c \in Conn PROVE ConnectionInv(c)
  <2>1. c \notin Registered(registry)
    BY DEF Registered, EmptyRegistry
  <2>2. Flow(c) = <<>>
    BY <1>1, ConcatEmptySeq DEF Flow, NoAlerts
  <2> QED BY <1>1, <2>1, <2>2, SetOfNothing DEF ConnectionInv, Fresh, InOrder, NoAlerts
<1> QED BY <1>2, <1>3, <1>4, <1>5 DEF Inv

LEMMA FlowTyped ==
  ASSUME TypeOK, NEW c \in Conn
  PROVE  /\ Flow(c) \in Seq(Alert) /\ owed[c] \in Seq(Alert)
         /\ Len(owed[c]) \in Nat /\ Len(Flow(c)) \in Nat
<1>1. received[c] \in Seq(Alert) /\ inflight[c] \in Seq(Alert) /\ channel[c] \in Seq(Alert)
  BY DEF TypeOK
<1>2. Flow(c) \in Seq(Alert)
  BY <1>1, FlowMoves DEF Flow
<1>3. owed[c] \in Seq(Alert)
  BY DEF TypeOK
<1> QED BY <1>2, <1>3, LenProperties

\* A connection whose alerts at most move on toward the peer.
LEMMA ConnectionKept ==
  ASSUME NEW c \in Conn, ConnectionInv(c), UNCHANGED dispatcher,
         Flow(c)' = Flow(c), unit_ids'[c] = unit_ids[c],
         Fresh(c)' => UNCHANGED <<received[c], inflight[c], channel[c]>> /\ Fresh(c),
         (task'[c] = "select") => inflight'[c] = <<>>,
         task'[c] \in {"select", "writing"} => task[c] \in {"select", "writing"},
         c \in Registered(registry)' =>
           ~Fresh(c)' /\ registry'.connections[c] = unit_ids[c]
  PROVE  ConnectionInv(c)'
<1> USE DEF dispatcher
<1>1. /\ owed'[c] = owed[c] /\ Due(c)' = Due(c) /\ InOrder(Flow(c))' = InOrder(Flow(c))
      /\ ToSet(Flow(c))' = ToSet(Flow(c)) /\ ToSet(owed[c])' = ToSet(owed[c])
      /\ NeverFull(c)' = NeverFull(c)
  BY DEF Due, NeverFull, ToSet, InOrder
<1> QED BY <1>1 DEF ConnectionInv

OthersStay(c) ==
  \A d \in Conn \ {c} :
    /\ task'[d] = task[d] /\ unit_ids'[d] = unit_ids[d]
    /\ channel'[d] = channel[d] /\ inflight'[d] = inflight[d] /\ received'[d] = received[d]
    /\ d \in Registered(registry)' =>
         d \in Registered(registry) /\ registry'.connections[d] = registry.connections[d]

\* A step of one connection leaves the dispatcher and the other connections alone.
LEMMA OneMoves ==
  ASSUME Inv, NEW c \in Conn, UNCHANGED dispatcher, TypeOK', RegistryIndexed',
         OthersStay(c), ConnectionInv(c)'
  PROVE  Inv'
<1>1. DispatcherInv'
  BY DEF Inv, DispatcherInv, dispatcher
<1>2. ASSUME NEW d \in Conn, d # c PROVE ConnectionInv(d)'
  <2>1. /\ Flow(d)' = Flow(d) /\ Fresh(d)' = Fresh(d)
        /\ UNCHANGED <<task[d], unit_ids[d], received[d], inflight[d], channel[d]>>
    BY <1>2 DEF OthersStay, Flow, Fresh
  <2>2. c # d /\ ConnectionInv(d)
    BY <1>2 DEF Inv
  <2>3. d \in Registered(registry)' => ~Fresh(d)' /\ registry'.connections[d] = unit_ids[d]
    BY <1>2, <2>1, <2>2 DEF OthersStay, ConnectionInv
  <2>4. (task'[d] = "select") => inflight'[d] = <<>>
    BY <2>1, <2>2 DEF ConnectionInv
  <2> QED BY <2>1, <2>2, <2>3, <2>4, ConnectionKept
<1> QED BY <1>1, <1>2 DEF Inv

\* Unauthorized, Forbidden, Handshake, UpgradeFails, Open
LEMMA OpeningKeepsInv ==
  ASSUME Inv, NEW c \in Conn, Fresh(c),
         Unauthorized(c) \/ Forbidden(c) \/ Handshake(c) \/ UpgradeFails(c) \/ Open(c)
  PROVE  Inv'
<1> USE DEF GoTo
<1>1. /\ TypeOK /\ RegistryIndexed /\ ConnectionInv(c) /\ DispatcherInv
      /\ UNCHANGED <<dispatcher, allowed, revokes, channel, inflight, received>>
  BY DEF Inv, Unauthorized, Forbidden, Handshake, UpgradeFails, Open
<1>2. KeyOf \in [Conn -> Key] /\ (\A units \in SUBSET Unit : units # None)
  BY RegistryAssumption
<1>3. c \notin Registered(registry) /\ owed[c] = <<>> /\ ~Due(c)
      /\ received[c] = <<>> /\ inflight[c] = <<>> /\ channel[c] = <<>>
  BY <1>1, SetOfNothing DEF ConnectionInv, DispatcherInv, Due
<1>4. /\ task' \in [Conn -> Pc]
      /\ unit_ids' \in [Conn -> SUBSET Unit]
      /\ \A d \in Conn \ {c} : task'[d] = task[d] /\ unit_ids'[d] = unit_ids[d]
  BY <1>1, <1>2 DEF TypeOK, Pc, Unauthorized, Forbidden, Handshake, UpgradeFails, Open
<1>5. /\ registry' \in Registry /\ Indexed(registry')
      /\ \A d \in Conn \ {c} : /\ d \in Registered(registry)' => d \in Registered(registry)
                               /\ registry'.connections[d] = registry.connections[d]
      /\ c \in Registered(registry)' => ~Fresh(c)' /\ registry'.connections[c] = unit_ids'[c]
  <2>1. CASE registry' = registry
    BY <1>1, <1>3, <2>1 DEF TypeOK, RegistryIndexed, Registered
  <2>2. CASE Open(c) /\ registry' = AddConnection(registry, c, unit_ids[c])
    <3>1. unit_ids[c] \in SUBSET Unit /\ registry \in Registry /\ Indexed(registry)
      BY <1>1 DEF TypeOK, RegistryIndexed
    <3>2. /\ registry' \in Registry /\ Indexed(registry')
          /\ Registered(registry') = Registered(registry) \cup {c}
          /\ registry'.connections = [registry.connections EXCEPT ![c] = unit_ids[c]]
      BY <1>3, <2>2, <3>1, AddKeepsIndex
    <3>3. registry.connections \in [Conn -> {None} \cup SUBSET Unit]
      BY <3>1 DEF Registry
    <3>4. task'[c] \in {"panicked", "select"} /\ unit_ids' = unit_ids
      BY <1>1, <2>2 DEF Open, TypeOK
    <3> QED BY <3>2, <3>3, <3>4 DEF Fresh, Registered
  <2> QED BY <2>1, <2>2 DEF Unauthorized, Forbidden, Handshake, UpgradeFails, Open
<1>6. TypeOK'
  BY <1>1, <1>4, <1>5 DEF TypeOK, dispatcher
<1>7. RegistryIndexed'
  BY <1>5 DEF RegistryIndexed
<1>8. OthersStay(c)
  BY <1>1, <1>4, <1>5 DEF OthersStay
<1>9. ConnectionInv(c)'
  <2>1. /\ owed'[c] = <<>> /\ received'[c] = <<>> /\ inflight'[c] = <<>> /\ channel'[c] = <<>>
        /\ ~Due(c)'
    BY <1>1, <1>3 DEF dispatcher, Due
  <2>2. Flow(c)' = <<>>
    BY <2>1 DEF Flow
  <2>3. ToSet(<<>>) = {} /\ Len(<<>>) = 0
    BY SetOfNothing
  <2>4. InOrder(Flow(c))'
    BY <2>2, <2>3 DEF InOrder
  <2>5. (ToSet(owed[c]))' = {} /\ (ToSet(Flow(c)))' = {}
    BY <2>1, <2>2, <2>3
  <2> QED BY <1>5, <2>1, <2>2, <2>4, <2>5 DEF ConnectionInv
<1> QED BY <1>1, <1>6, <1>7, <1>8, <1>9, OneMoves

\* Forward, WriteControlFrame, Written
LEMMA LoopKeepsInv ==
  ASSUME Inv, NEW c \in Conn, Forward(c) \/ WriteControlFrame(c) \/ Written(c)
  PROVE  Inv'
<1> USE DEF GoTo
<1>1. /\ TypeOK /\ RegistryIndexed /\ ConnectionInv(c)
      /\ UNCHANGED <<dispatcher, allowed, revokes, registry, unit_ids>>
      /\ task[c] \in {"select", "writing"} /\ task' \in [Conn -> Pc]
      /\ task'[c] \in {"select", "writing"}
      /\ \A d \in Conn \ {c} : task'[d] = task[d]
  BY DEF Inv, TypeOK, Pc, Forward, WriteControlFrame, Written
<1>2. received[c] \in Seq(Alert) /\ inflight[c] \in Seq(Alert) /\ channel[c] \in Seq(Alert)
  BY <1>1 DEF TypeOK
<1>3. /\ channel' \in [Conn -> Seq(Alert)] /\ inflight' \in [Conn -> Seq(Alert)]
      /\ received' \in [Conn -> Seq(Alert)]
      /\ \A d \in Conn : Len(channel'[d]) <= Capacity /\ Len(inflight'[d]) <= 1
      /\ \A d \in Conn \ {c} : /\ channel'[d] = channel[d] /\ inflight'[d] = inflight[d]
                               /\ received'[d] = received[d]
      /\ Flow(c)' = Flow(c) /\ ((task'[c] = "select") => inflight'[c] = <<>>)
  <2>1. CASE Forward(c)
    <3>1. /\ channel[c] # <<>> /\ inflight[c] = <<>> /\ received' = received
          /\ inflight' = [inflight EXCEPT ![c] = <<Head(channel[c])>>]
          /\ channel' = [channel EXCEPT ![c] = Tail(@)]
          /\ task'[c] = "writing"
      BY <1>1, <2>1 DEF Forward, ConnectionInv, TypeOK
    <3>2. /\ Head(channel[c]) \in Alert /\ Tail(channel[c]) \in Seq(Alert)
          /\ Len(Tail(channel[c])) = Len(channel[c]) - 1 /\ Len(channel[c]) \in Nat
      BY <1>2, <3>1, HeadTailProperties, LenProperties
    <3>3. <<Head(channel[c])>> \in Seq(Alert) /\ Len(<<Head(channel[c])>>) = 1
      BY <3>2
    <3>4. /\ inflight'[c] = <<Head(channel[c])>> /\ channel'[c] = Tail(channel[c])
          /\ received'[c] = received[c]
      BY <1>1, <3>1 DEF TypeOK
    <3>5. Flow(c)' = Flow(c)
      <4>1. received[c] \o <<Head(channel[c])>> \o Tail(channel[c])
              = received[c] \o <<>> \o channel[c]
        BY <1>2, <3>1, HeadMoves
      <4> QED BY <3>1, <3>4, <4>1, Zenon DEF Flow
    <3>6. Capacity \in Nat
      BY WsAssumption
    <3>7. \A d \in Conn : Len(channel'[d]) <= Capacity /\ Len(inflight'[d]) <= 1
      <4>1. Len(channel[c]) <= Capacity
        BY <1>1 DEF TypeOK
      <4> QED BY <1>1, <3>1, <3>2, <3>3, <3>4, <3>6, <4>1 DEF TypeOK
    <3> QED BY <1>1, <3>1, <3>2, <3>3, <3>5, <3>7 DEF TypeOK
  <2>2. CASE WriteControlFrame(c)
    BY <1>1, <2>2 DEF WriteControlFrame, TypeOK, Flow
  <2>3. CASE Written(c)
    <3>1. /\ received' = [received EXCEPT ![c] = @ \o inflight[c]]
          /\ inflight' = [inflight EXCEPT ![c] = <<>>] /\ channel' = channel
      BY <2>3 DEF Written
    <3>2. received[c] \o inflight[c] \in Seq(Alert) /\ <<>> \in Seq(Alert) /\ Len(<<>>) = 0
      BY <1>2, ConcatProperties, EmptySeq
    <3>3. /\ received'[c] = received[c] \o inflight[c] /\ inflight'[c] = <<>>
          /\ channel'[c] = channel[c]
      BY <1>1, <3>1 DEF TypeOK
    <3>4. Flow(c)' = Flow(c)
      BY <1>2, <3>3, FlowMoves DEF Flow
    <3> QED BY <1>1, <3>1, <3>2, <3>3, <3>4 DEF TypeOK
  <2> QED BY <2>1, <2>2, <2>3
<1>4. TypeOK'
  BY <1>1, <1>3 DEF TypeOK, dispatcher
<1>5. RegistryIndexed'
  BY <1>1 DEF RegistryIndexed
<1>6. OthersStay(c)
  BY <1>1, <1>3 DEF OthersStay
<1>7. ~Fresh(c) /\ ~Fresh(c)'
  BY <1>1 DEF Fresh
<1>8. c \in Registered(registry)' => registry'.connections[c] = unit_ids[c]
  BY <1>1 DEF ConnectionInv
<1>9. ConnectionInv(c)'
  BY <1>1, <1>3, <1>7, <1>8, ConnectionKept
<1> QED BY <1>1, <1>4, <1>5, <1>6, <1>9, OneMoves

\* Leave, Unregister, Return
LEMMA LeavingKeepsInv ==
  ASSUME Inv, NEW c \in Conn, Leave(c) \/ Unregister(c) \/ Return(c)
  PROVE  Inv'
<1> USE DEF GoTo
<1>1. /\ TypeOK /\ RegistryIndexed /\ ConnectionInv(c)
      /\ UNCHANGED <<dispatcher, allowed, revokes, unit_ids, channel, inflight, received>>
      /\ ~Fresh(c) /\ task' \in [Conn -> Pc] /\ task'[c] \in {"leaving", "removed", "done"}
      /\ \A d \in Conn \ {c} : task'[d] = task[d]
  BY DEF Inv, TypeOK, Pc, Leave, Unregister, Return, Fresh
<1>2. /\ registry' \in Registry /\ Indexed(registry')
      /\ \A d \in Conn : d \in Registered(registry)' =>
           d \in Registered(registry) /\ registry'.connections[d] = registry.connections[d]
  <2>1. CASE registry' = registry
    BY <1>1, <2>1 DEF TypeOK, RegistryIndexed
  <2>2. CASE registry' = RemoveConnection(registry, c)
    <3>1. /\ registry' \in Registry /\ Indexed(registry')
          /\ Registered(registry') = Registered(registry) \ {c}
          /\ \A d \in Conn \ {c} : registry'.connections[d] = registry.connections[d]
      BY <1>1, <2>2, RemoveKeepsIndex DEF TypeOK, RegistryIndexed
    <3> QED BY <3>1
  <2> QED BY <2>1, <2>2 DEF Leave, Unregister, Return
<1>3. TypeOK'
  BY <1>1, <1>2 DEF TypeOK, dispatcher
<1>4. RegistryIndexed'
  BY <1>2 DEF RegistryIndexed
<1>5. OthersStay(c)
  BY <1>1, <1>2 DEF OthersStay
<1>6. Flow(c)' = Flow(c) /\ ~Fresh(c)'
  BY <1>1 DEF Flow, Fresh
<1>7. c \in Registered(registry)' => registry'.connections[c] = unit_ids[c]
  BY <1>1, <1>2 DEF ConnectionInv
<1>8. ConnectionInv(c)'
  BY <1>1, <1>6, <1>7, ConnectionKept
<1> QED BY <1>1, <1>3, <1>4, <1>5, <1>8, OneMoves

LEMMA DispatchKeepsInv ==
  ASSUME Inv, NEW x \in Unit, Dispatch(x)
  PROVE  Inv'
<1> DEFINE ids == SendersForUnit(registry, x)
<1> DEFINE a == [n |-> count + 1, unit |-> x]
<1>1. /\ TypeOK /\ RegistryIndexed /\ DispatcherInv
      /\ current = None /\ targets = <<>> /\ count < MaxAlerts /\ count \in Nat /\ MaxAlerts \in Nat
      /\ UNCHANGED <<conns, allowed, revokes>>
  BY WsAssumption DEF Inv, Dispatch, DispatcherInv, TypeOK
<1>2. /\ count' = count + 1 /\ targets' = ids
      /\ current' = (IF ids = <<>> THEN None ELSE a)
      /\ owed' = [c \in Conn |-> IF c \in ToSet(ids) THEN Append(owed[c], a) ELSE owed[c]]
  BY DEF Dispatch
<1>3. ids \in Seq(Conn) /\ IsInjective(ids) /\ ToSet(ids) = Subscribed(registry, x)
  BY <1>1, SendersAreSubscribed DEF TypeOK, RegistryIndexed, Lists
<1>4. a \in Alert /\ a.n = count + 1 /\ a.unit = x
  BY <1>1 DEF Alert
<1>5. a # None
  BY <1>4, WsAssumption
<1> HIDE DEF ids, a
<1>6. ASSUME NEW c \in Conn
      PROVE  /\ owed'[c] \in Seq(Alert)
             /\ c \in ToSet(ids) => /\ owed'[c] = Append(owed[c], a)
                                    /\ ToSet(owed'[c]) = ToSet(owed[c]) \cup {a}
                                    /\ Len(owed'[c]) = Len(owed[c]) + 1
             /\ c \notin ToSet(ids) => owed'[c] = owed[c]
  <2>1. owed[c] \in Seq(Alert)
    BY <1>1 DEF TypeOK
  <2>2. CASE c \in ToSet(ids)
    <3>1. owed'[c] = Append(owed[c], a)
      BY <1>2, <2>2
    <3> QED BY <1>4, <2>1, <2>2, <3>1, SetOfAppend, AppendProperties
  <2>3. CASE c \notin ToSet(ids)
    BY <1>2, <2>1, <2>3
  <2> QED BY <2>2, <2>3
<1>7. TypeOK'
  <2>1. owed' \in [Conn -> Seq(Alert)]
    BY <1>2, <1>6
  <2>2. current' \in Alert \cup {None} /\ count' \in 0..MaxAlerts /\ targets' \in Seq(Conn)
    BY <1>1, <1>2, <1>3, <1>4
  <2> QED BY <1>1, <2>1, <2>2 DEF TypeOK, conns
<1>8. RegistryIndexed'
  BY <1>1 DEF RegistryIndexed, conns
<1>9. DispatcherInv'
  <2>1. ASSUME NEW c \in ToSet(targets)' PROVE current' \in (ToSet(owed[c]))'
    <3>1. c \in Conn /\ c \in ToSet(ids) /\ ids # <<>>
      BY <1>2, <1>3, <2>1, SetOfNothing DEF Subscribed, Registered
    <3> QED BY <1>2, <1>6, <3>1
  <2> QED BY <1>2, <1>3, <1>4, <1>5, <2>1 DEF DispatcherInv
<1>10. ASSUME NEW c \in Conn PROVE ConnectionInv(c)'
  <2>1. /\ Flow(c)' = Flow(c) /\ Fresh(c)' = Fresh(c) /\ ~Due(c) /\ (Due(c)' <=> c \in ToSet(ids))
        /\ UNCHANGED <<registry, task, unit_ids, channel, inflight, received>>
    BY <1>1, <1>2, SetOfNothing DEF Flow, Fresh, Due, conns
  <2>2. ConnectionInv(c)
    BY DEF Inv
  <2>3. Len(owed[c]) \in Nat /\ Capacity \in Nat
    BY <1>1, FlowTyped, WsAssumption
  <2>4. \A b \in ToSet(owed[c]) : b.n \in Nat /\ b.n <= count
    <3>1. \A b \in Alert : b.n \in Nat
      BY <1>1 DEF Alert
    <3>2. owed[c] \in Seq(Alert)
      BY <1>1 DEF TypeOK
    <3>3. \A b \in ToSet(owed[c]) : b \in Alert
      BY <3>2, LenProperties DEF ToSet
    <3> QED BY <2>2, <3>1, <3>3 DEF ConnectionInv
  <2>5. InOrder(Flow(c))' = InOrder(Flow(c)) /\ (ToSet(Flow(c)))' = ToSet(Flow(c))
    BY <2>1 DEF InOrder, ToSet
  <2>6. CASE c \in ToSet(ids)
    <3>1. c \in Registered(registry) /\ x \in unit_ids[c] /\ ~Fresh(c)
      BY <1>3, <2>2, <2>6 DEF Subscribed, ConnectionInv
    <3>2. current' = a /\ Due(c)'
      BY <1>2, <2>1, <2>6, SetOfNothing
    <3>a. /\ (ToSet(owed[c]))' = ToSet(owed[c]) \cup {a} /\ count' = count + 1 /\ count \in Nat
          /\ a.n = count + 1 /\ a.unit = x /\ unit_ids'[c] = unit_ids[c]
      <4>1. (ToSet(owed[c]))' = ToSet(owed'[c])
        OBVIOUS
      <4> QED BY <1>1, <1>2, <1>4, <1>6, <2>1, <2>6, <4>1
    <3>b. /\ \A b \in ToSet(owed[c]) : b.unit \in unit_ids[c]
          /\ \A b \in ToSet(Flow(c)) : b \in ToSet(owed[c])
      BY <2>2 DEF ConnectionInv
    <3>3. \A b \in (ToSet(owed[c]))' : b.n <= count' /\ b.unit \in unit_ids'[c]
      BY <2>4, <3>1, <3>a, <3>b
    <3>4. \A b \in ToSet(Flow(c)) : b \in (ToSet(owed[c]))' /\ b.n < current'.n
      BY <2>4, <3>2, <3>a, <3>b
    <3>5. NeverFull(c)' => NeverFull(c)
      BY <1>6, <2>3, <2>6 DEF NeverFull
    <3>6. task'[c] \in {"select", "writing"} /\ NeverFull(c)'
            => owed'[c] = Append(Flow(c)', current')
      BY <1>6, <2>1, <2>2, <2>6, <3>2, <3>5 DEF ConnectionInv
    <3> QED BY <2>1, <2>2, <2>5, <3>1, <3>2, <3>3, <3>4, <3>6 DEF ConnectionInv
  <2>7. CASE c \notin ToSet(ids)
    <3>1. owed'[c] = owed[c] /\ ~Due(c)' /\ NeverFull(c)' = NeverFull(c)
          /\ (ToSet(owed[c]))' = ToSet(owed[c])
      BY <1>6, <2>1, <2>7 DEF NeverFull, ToSet
    <3>2. \A b \in (ToSet(owed[c]))' : b.n <= count' /\ b.unit \in unit_ids'[c]
      BY <1>1, <1>2, <2>1, <2>2, <2>4, <3>1 DEF ConnectionInv
    <3> QED BY <2>1, <2>2, <2>5, <3>1, <3>2 DEF ConnectionInv
  <2> QED BY <2>6, <2>7
<1> QED BY <1>7, <1>8, <1>9, <1>10 DEF Inv

LEMMA TrySendKeepsInv ==
  ASSUME Inv, TrySend, NEW c, c = Head(targets)
  PROVE  Inv'
<1>1. /\ TypeOK /\ RegistryIndexed /\ DispatcherInv /\ targets # <<>>
      /\ UNCHANGED <<task, unit_ids, inflight, received, allowed, revokes, count, owed>>
      /\ targets' = Tail(targets) /\ current' = (IF Len(targets) = 1 THEN None ELSE current)
  BY DEF Inv, TrySend, NextTarget
<1>2. /\ c \in Conn /\ current # None /\ current \in Alert /\ current.n = count /\ Due(c)
      /\ targets' \in Seq(Conn) /\ IsInjective(targets') /\ ~Due(c)'
      /\ Len(targets') = Len(targets) - 1 /\ Len(targets) \in Nat
      /\ \A d \in Conn \ {c} : Due(d)' = Due(d)
      /\ ToSet(targets') \subseteq ToSet(targets)
  <2>1. targets \in Seq(Conn) /\ current \in Alert \cup {None}
    BY <1>1 DEF TypeOK
  <2>2. /\ Head(targets) \in Conn /\ Tail(targets) \in Seq(Conn)
        /\ Len(Tail(targets)) = Len(targets) - 1 /\ Len(targets) \in Nat
    BY <1>1, <2>1, HeadTailProperties, LenProperties
  <2>3. /\ Head(targets) \in ToSet(targets)
        /\ ToSet(targets) = ToSet(Tail(targets)) \cup {Head(targets)}
        /\ IsInjective(Tail(targets)) /\ Head(targets) \notin ToSet(Tail(targets))
    BY <1>1, <2>1, SetOfTail DEF DispatcherInv
  <2>4. ToSet(targets)' = ToSet(Tail(targets))
    BY <1>1
  <2> QED BY <1>1, <2>1, <2>2, <2>3, <2>4 DEF DispatcherInv, Due
<1>3. /\ registry' \in Registry /\ Indexed(registry')
      /\ \A d \in Conn : d \in Registered(registry)' =>
           d \in Registered(registry) /\ registry'.connections[d] = registry.connections[d]
  <2>1. CASE registry' = registry
    BY <1>1, <2>1 DEF TypeOK, RegistryIndexed
  <2>2. CASE registry' = RemoveConnection(registry, c)
    <3>1. registry \in Registry /\ Indexed(registry)
      BY <1>1 DEF TypeOK, RegistryIndexed
    <3>2. /\ registry' \in Registry /\ Indexed(registry')
          /\ Registered(registry') = Registered(registry) \ {c}
          /\ \A d \in Conn \ {c} : registry'.connections[d] = registry.connections[d]
      BY <1>2, <2>2, <3>1, RemoveKeepsIndex
    <3> QED BY <3>2
  <2> QED BY <2>1, <2>2 DEF TrySend
<1>4. \/ /\ Len(channel[c]) < Capacity /\ ReceiverAlive(c)
         /\ channel' = [channel EXCEPT ![c] = Append(@, current)]
      \/ channel' = channel /\ (ReceiverAlive(c) => Len(channel[c]) = Capacity)
  BY DEF TrySend
<1>5. /\ channel[c] \in Seq(Alert) /\ Append(channel[c], current) \in Seq(Alert)
      /\ Len(Append(channel[c], current)) = Len(channel[c]) + 1 /\ Len(channel[c]) \in Nat
      /\ Capacity \in Nat
  <2>1. channel[c] \in Seq(Alert)
    BY <1>1, <1>2 DEF TypeOK
  <2> QED BY <1>2, <2>1, AppendProperties, LenProperties, WsAssumption
<1>6. TypeOK'
  <2>1. channel' \in [Conn -> Seq(Alert)] /\ \A d \in Conn : Len(channel'[d]) <= Capacity
    <3>1. channel \in [Conn -> Seq(Alert)] /\ \A d \in Conn : Len(channel[d]) <= Capacity
      BY <1>1 DEF TypeOK
    <3>2. CASE channel' = channel
      BY <3>1, <3>2
    <3>3. CASE /\ Len(channel[c]) < Capacity
               /\ channel' = [channel EXCEPT ![c] = Append(@, current)]
      <4>1. \A d \in Conn :
              channel'[d] = IF d = c THEN Append(channel[c], current) ELSE channel[d]
        BY <3>1, <3>3
      <4>2. Len(Append(channel[c], current)) <= Capacity
        BY <1>5, <3>3
      <4>3. channel' \in [Conn -> Seq(Alert)]
        BY <1>5, <3>1, <3>3
      <4> QED BY <3>1, <4>1, <4>2, <4>3
    <3> QED BY <1>4, <3>2, <3>3
  <2> QED BY <1>1, <1>2, <1>3, <2>1 DEF TypeOK
<1>7. RegistryIndexed'
  BY <1>3 DEF RegistryIndexed
<1>8. targets' # <<>> => current' = current
  BY <1>1, <1>2
<1>9. DispatcherInv'
  <2>1. current' = None => targets' = <<>>
    BY <1>1, <1>2, LenProperties, EmptySeq
  <2>2. \A d \in ToSet(targets)' : targets' # <<>> /\ d \in ToSet(targets)
    BY <1>2, SetOfNothing
  <2> QED BY <1>1, <1>2, <1>8, <2>1, <2>2 DEF DispatcherInv
<1>10. ASSUME NEW d \in Conn
       PROVE  /\ ConnectionInv(d) /\ Fresh(d)' = Fresh(d)
              /\ UNCHANGED <<task[d], unit_ids[d], received[d], inflight[d], owed[d], count>>
              /\ NeverFull(d)' = NeverFull(d) /\ (ToSet(owed[d]))' = ToSet(owed[d])
              /\ d \in Registered(registry)' =>
                   ~Fresh(d)' /\ registry'.connections[d] = unit_ids'[d]
              /\ Due(d)' => current' = current
  <2>1. ConnectionInv(d)
    BY DEF Inv
  <2>2. Due(d)' => targets' # <<>>
    BY SetOfNothing DEF Due
  <2> QED BY <1>1, <1>3, <1>8, <2>1, <2>2 DEF ConnectionInv, Fresh, NeverFull, ToSet
<1>11. ASSUME NEW d \in Conn, d # c PROVE ConnectionInv(d)'
  <2>1. channel'[d] = channel[d] /\ Due(d)' = Due(d)
    BY <1>1, <1>2, <1>4, <1>11 DEF TypeOK
  <2>2. /\ Flow(d)' = Flow(d)
        /\ InOrder(Flow(d))' = InOrder(Flow(d)) /\ (ToSet(Flow(d)))' = ToSet(Flow(d))
    BY <1>10, <2>1 DEF Flow, InOrder, ToSet
  <2> QED BY <1>10, <2>1, <2>2 DEF ConnectionInv
<1>12. ConnectionInv(c)'
  <2>1. ConnectionInv(c) /\ Due(c) /\ ~Due(c)'
    BY <1>2, <1>10
  <2>2. received[c] \in Seq(Alert) /\ inflight[c] \in Seq(Alert) /\ Flow(c) \in Seq(Alert)
    BY <1>1, <1>2, FlowTyped DEF TypeOK
  <2>3. current \in ToSet(owed[c])
    BY <1>1, <2>1 DEF DispatcherInv, Due
  <2>4. ~Fresh(c)
    BY <2>1, <2>3, SetOfNothing DEF ConnectionInv
  <2>5. CASE channel' = [channel EXCEPT ![c] = Append(@, current)]
    <3>1. channel'[c] = Append(channel[c], current)
      BY <1>1, <1>2, <2>5 DEF TypeOK
    <3>2. Flow(c)' = Append(Flow(c), current)
      <4>1. received'[c] = received[c] /\ inflight'[c] = inflight[c]
        BY <1>2, <1>10
      <4>2. received[c] \in Seq(Alert) /\ inflight[c] \in Seq(Alert)
        BY <2>2
      <4>3. channel[c] \in Seq(Alert) /\ current \in Alert
        BY <1>2, <1>5
      <4>4. Along(received[c], inflight[c], Grown(channel[c], current))
              = Grown(Along(received[c], inflight[c], channel[c]), current)
        BY <4>2, <4>3, TailGrows
      <4> QED BY <3>1, <4>1, <4>4 DEF Flow, Along, Grown
    <3>3. InOrder(Append(Flow(c), current))
      BY <1>2, <2>1, <2>2, OrderAppend DEF ConnectionInv
    <3>4. ToSet(Append(Flow(c), current)) = ToSet(Flow(c)) \cup {current}
      BY <1>2, <2>2, SetOfAppend
    <3>5. InOrder(Flow(c))' /\ (ToSet(Flow(c)))' = ToSet(Flow(c)) \cup {current}
      BY <3>2, <3>3, <3>4 DEF InOrder
    <3> QED BY <1>2, <1>10, <2>1, <2>3, <2>4, <3>2, <3>5 DEF ConnectionInv
  <2>6. CASE channel' = channel /\ (ReceiverAlive(c) => Len(channel[c]) = Capacity)
    <3>1. /\ Flow(c)' = Flow(c) /\ InOrder(Flow(c))' = InOrder(Flow(c))
          /\ (ToSet(Flow(c)))' = ToSet(Flow(c))
      <4>1. received'[c] = received[c] /\ inflight'[c] = inflight[c] /\ channel'[c] = channel[c]
        BY <1>2, <1>10, <2>6
      <4>2. Flow(c)' = Flow(c)
        BY <4>1 DEF Flow
      <4> QED BY <4>2 DEF InOrder, ToSet
    <3>2. ~(task[c] \in {"select", "writing"} /\ NeverFull(c))
      <4> SUFFICES ASSUME task[c] \in {"select", "writing"}, NeverFull(c) PROVE FALSE
        OBVIOUS
      <4>1. owed[c] = Append(Flow(c), current) /\ Len(owed[c]) <= Capacity
        BY <2>1 DEF ConnectionInv, NeverFull
      <4>2. Len(channel[c]) = Capacity
        BY <2>6 DEF ReceiverAlive
      <4>3. Len(Append(Flow(c), current)) = Len(Flow(c)) + 1 /\ Len(Flow(c)) \in Nat
        BY <1>2, <2>2, AppendProperties, LenProperties
      <4>4. Len(Flow(c)) >= Len(channel[c])
        <5>1. received[c] \o inflight[c] \in Seq(Alert)
          BY <2>2, ConcatProperties
        <5>2. Len(Flow(c)) = Len(received[c] \o inflight[c]) + Len(channel[c])
          BY <1>5, <5>1, ConcatProperties DEF Flow
        <5>3. Len(received[c] \o inflight[c]) \in Nat
          BY <5>1, LenProperties
        <5>4. PICK k \in Nat : k = Len(received[c] \o inflight[c])
          BY <5>3
        <5>5. Len(Flow(c)) = k + Len(channel[c])
          BY <5>2, <5>4
        <5> QED BY <1>5, <5>5
      <4> QED BY <1>5, <4>1, <4>2, <4>3, <4>4
    <3> QED BY <1>2, <1>10, <2>1, <2>4, <3>1, <3>2 DEF ConnectionInv
  <2> QED BY <1>4, <2>5, <2>6
<1> QED BY <1>6, <1>7, <1>9, <1>11, <1>12 DEF Inv

LEMMA ConnectionStays ==
  ASSUME NEW c \in Conn, ConnectionInv(c), UNCHANGED <<conns, dispatcher>>
  PROVE  ConnectionInv(c)'
<1>1. /\ UNCHANGED <<registry, task, unit_ids, channel, inflight, received>>
      /\ Fresh(c)' = Fresh(c) /\ Flow(c)' = Flow(c)
      /\ Registered(registry)' = Registered(registry)
  BY DEF conns, Fresh, Flow, Registered
<1>2. /\ (task'[c] = "select") => inflight'[c] = <<>>
      /\ c \in Registered(registry)' => ~Fresh(c)' /\ registry'.connections[c] = unit_ids[c]
  BY <1>1 DEF ConnectionInv
<1> QED BY <1>1, <1>2, ConnectionKept

LEMMA InvNext == Inv /\ [Next]_vars => Inv'
<1> SUFFICES ASSUME Inv, [Next]_vars PROVE Inv'
  OBVIOUS
<1>1. ASSUME NEW c \in Conn, Connection(c) PROVE Inv'
  <2>1. CASE Unauthorized(c) \/ Forbidden(c) \/ Handshake(c) \/ UpgradeFails(c) \/ Open(c)
    <3>1. Fresh(c)
      BY <2>1 DEF Fresh, Unauthorized, Forbidden, Handshake, UpgradeFails, Open
    <3> QED BY <2>1, <3>1, OpeningKeepsInv
  <2>2. CASE Forward(c) \/ WriteControlFrame(c) \/ Written(c)
    BY <2>2, LoopKeepsInv
  <2>3. CASE Leave(c) \/ Unregister(c) \/ Return(c)
    BY <2>3, LeavingKeepsInv
  <2> QED BY <1>1, <2>1, <2>2, <2>3 DEF Connection
<1>2. ASSUME NEW k \in Key, ChangePermission(k) PROVE Inv'
  <2>1. /\ TypeOK /\ revokes' \in 0..MaxRevokes /\ allowed' \in [Key -> SUBSET Unit]
        /\ UNCHANGED <<conns, dispatcher>>
    BY <1>2, WsAssumption DEF Inv, TypeOK, ChangePermission
  <2>2. TypeOK' /\ RegistryIndexed' /\ DispatcherInv'
    BY <2>1 DEF Inv, TypeOK, RegistryIndexed, DispatcherInv, conns, dispatcher
  <2>3. ASSUME NEW c \in Conn PROVE ConnectionInv(c)'
    BY <2>1, ConnectionStays DEF Inv
  <2> QED BY <2>2, <2>3 DEF Inv
<1>3. ASSUME NEW x \in Unit, Dispatch(x) PROVE Inv'
  BY <1>3, DispatchKeepsInv
<1>4. CASE TrySend
  <2>1. PICK c : c = Head(targets)
    OBVIOUS
  <2> QED BY <1>4, <2>1, TrySendKeepsInv
<1>5. CASE UNCHANGED vars
  <2>1. UNCHANGED <<conns, allowed, dispatcher, revokes>>
    BY <1>5 DEF vars
  <2>2. TypeOK' /\ RegistryIndexed' /\ DispatcherInv'
    BY <2>1 DEF Inv, TypeOK, RegistryIndexed, DispatcherInv, conns, dispatcher
  <2>3. ASSUME NEW c \in Conn PROVE ConnectionInv(c)'
    BY <2>1, ConnectionStays DEF Inv
  <2> QED BY <2>2, <2>3 DEF Inv
<1> QED BY <1>1, <1>2, <1>3, <1>4, <1>5 DEF Next

-----------------------------------------------------------------------------
(* Theorems *)

LEMMA InvAlways == Spec => []Inv
BY InvInit, InvNext, PTL DEF Spec

(***************************************************************************)
(* Whatever order the handshakes, peers and the dispatcher take, the       *)
(* channels stay within WS_CHANNEL_CAPACITY and the registry is a          *)
(* registry.                                                               *)
(***************************************************************************)
THEOREM WebSocketTypes == Spec => []TypeOK
<1>1. Inv => TypeOK
  BY DEF Inv
<1> QED BY <1>1, InvAlways, PTL

(***************************************************************************)
(* add_connection and remove_connection keep the three maps of the         *)
(* registry in step, although a connection may be removed by its task and  *)
(* by the dispatcher, in any order and more than once.                     *)
(***************************************************************************)
THEOREM RegistryStaysIndexed == Spec => []RegistryIndexed
<1>1. Inv => RegistryIndexed
  BY DEF Inv
<1> QED BY <1>1, InvAlways, PTL

(***************************************************************************)
(* What dispatch_event puts into a channel reaches the peer in the order   *)
(* of dispatch, once, and is of the units resolved at its handshake.       *)
(***************************************************************************)
THEOREM FlowStaysInOrder == Spec => []FlowsInOrder
<1>1. Inv => FlowsInOrder
  <2> SUFFICES ASSUME Inv, NEW c \in Conn
               PROVE  /\ InOrder(Flow(c))
                      /\ \A a \in ToSet(Flow(c)) : a.unit \in unit_ids[c] /\ a \in ToSet(owed[c])
    BY DEF FlowsInOrder
  <2> QED BY DEF Inv, ConnectionInv
<1> QED BY <1>1, InvAlways, PTL

(***************************************************************************)
(* try_send to a channel that had room for all it was owed loses nothing,  *)
(* whatever the senders tried before it do.                                *)
(***************************************************************************)
THEOREM RoomLosesNothing == Spec => []NothingLostWithRoom
<1>1. Inv => NothingLostWithRoom
  <2> SUFFICES ASSUME Inv, NEW c \in Conn, task[c] \in {"select", "writing"}, NeverFull(c),
                      c \notin ToSet(targets)
               PROVE  Flow(c) = owed[c]
    BY DEF NothingLostWithRoom
  <2>1. ConnectionInv(c) /\ ~Due(c)
    BY DEF Inv, Due
  <2> QED BY <2>1 DEF ConnectionInv
<1> QED BY <1>1, InvAlways, PTL

LEMMA NoOrphanNext ==
  HeartbeatInterval > 0 /\ Inv /\ NoOrphan /\ [Next]_vars => NoOrphan'
<1> SUFFICES ASSUME HeartbeatInterval > 0, Inv, NoOrphan, [Next]_vars,
                    NEW d \in Registered(registry')
             PROVE  task'[d] \in {"select", "writing", "leaving"}
  BY DEF NoOrphan
<1> USE DEF GoTo
<1>1. /\ TypeOK /\ registry \in Registry /\ Indexed(registry) /\ d \in Conn
      /\ task \in [Conn -> Pc] /\ HeartbeatInterval # 0
  BY WsAssumption DEF Inv, TypeOK, RegistryIndexed, Registered
<1>2. \A e \in Registered(registry) : task[e] \in {"select", "writing", "leaving"}
  BY DEF NoOrphan
<1>3. ASSUME NEW c \in Conn, Connection(c)
      PROVE  task'[d] \in {"select", "writing", "leaving"}
  <2>1. CASE /\ registry' = registry
             /\ \/ Unauthorized(c) \/ Forbidden(c) \/ Handshake(c) \/ UpgradeFails(c) \/ Return(c)
                \/ Forward(c) \/ WriteControlFrame(c) \/ Written(c) \/ Leave(c)
    BY <1>1, <1>2, <2>1 DEF Unauthorized, Forbidden, Handshake, UpgradeFails, Return, Forward,
       WriteControlFrame, Written, Leave
  <2>2. CASE Open(c)
    <3>1. CASE registry' = registry
      BY <1>1, <1>2, <2>2, <3>1 DEF Open
    <3>2. CASE Capacity # 0 /\ registry' = AddConnection(registry, c, unit_ids[c])
      <4>1. c \notin Registered(registry) /\ unit_ids[c] \in SUBSET Unit
        BY <1>1, <1>2, <2>2 DEF Open, TypeOK
      <4>2. Registered(registry') = Registered(registry) \cup {c}
        BY <1>1, <3>2, <4>1, AddKeepsIndex
      <4>3. task' = [task EXCEPT ![c] = "select"]
        BY <1>1, <2>2, <3>2 DEF Open
      <4> QED BY <1>1, <1>2, <4>2, <4>3
    <3> QED BY <2>2, <3>1, <3>2 DEF Open
  <2>3. CASE Unregister(c)
    <3>1. Registered(registry') = Registered(registry) \ {c}
      BY <1>1, <2>3, RemoveKeepsIndex DEF Unregister
    <3> QED BY <1>1, <1>2, <2>3, <3>1 DEF Unregister
  <2> QED BY <1>3, <2>1, <2>2, <2>3 DEF Connection, Unauthorized, Forbidden, Handshake,
          UpgradeFails, Return, Forward, WriteControlFrame, Written, Leave
<1>4. ASSUME registry' = registry, task' = task
      PROVE  task'[d] \in {"select", "writing", "leaving"}
  BY <1>2, <1>4
<1>5. ASSUME TrySend, registry' # registry
      PROVE  task'[d] \in {"select", "writing", "leaving"}
  <2>1. PICK c : c = Head(targets)
    OBVIOUS
  <2>2. task' = task /\ registry' = RemoveConnection(registry, c) /\ targets # <<>>
    BY <1>5, <2>1 DEF TrySend
  <2>3. c \in Conn
    BY <1>1, <2>1, <2>2, HeadTailProperties DEF TypeOK
  <2>4. Registered(registry') = Registered(registry) \ {c}
    BY <1>1, <2>2, <2>3, RemoveKeepsIndex
  <2> QED BY <1>2, <2>2, <2>4
<1> QED BY <1>3, <1>4, <1>5 DEF Next, ChangePermission, Dispatch, TrySend, conns, vars

(***************************************************************************)
(* No path through handle_socket leaves an entry behind, but the panic of  *)
(* tokio::time::interval on a period of 0, that config/mod.rs lets pass.   *)
(***************************************************************************)
THEOREM EveryEntryHasItsTask == HeartbeatInterval > 0 => (Spec => []NoOrphan)
<1>1. Init => NoOrphan
  BY DEF Init, NoOrphan, Registered, EmptyRegistry
<1>2. CASE HeartbeatInterval > 0
  <2>1. Inv /\ NoOrphan /\ [Next]_vars => NoOrphan'
    BY <1>2, NoOrphanNext
  <2> QED BY <1>1, <2>1, InvAlways, PTL DEF Spec
<1> QED BY <1>2
=============================================================================
