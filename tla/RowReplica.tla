------------------------------ MODULE RowReplica ------------------------------
(***************************************************************************)
(* What a reader of the control plane may rely on, row by row, and nothing *)
(* about several rows at once.  While the replica serves, each row holds   *)
(* something that was true of that row at some time; a row with no news    *)
(* under way holds what is true now, and it does not move; news change one *)
(* row at a time.  Between two rows there is no order: a row that is being *)
(* replayed may be older than its neighbour.                               *)
(***************************************************************************)
EXTENDS Naturals

CONSTANTS
  Row,      \* the rows of the source
  Value,    \* row -> what it may contain
  Nothing   \* row -> what is known of a row that is not there

VARIABLES
  truth,    \* row -> what the source contains
  past,     \* row -> all it ever contained
  serving,  \* the replica answers queries
  held,     \* row -> what it answers with
  stale     \* rows with news that have not all arrived

vars == <<truth, past, serving, held, stale>>

Init ==
  /\ truth = Nothing
  /\ past = [r \in Row |-> {Nothing[r]}]
  /\ serving = FALSE
  /\ held = Nothing
  /\ stale = {}

\* The source changes a row, which is news for a replica that serves.
Update(r) ==
  /\ \E v \in Value[r] : /\ truth' = [truth EXCEPT ![r] = v]
                         /\ past' = [past EXCEPT ![r] = @ \cup {v}]
  /\ stale' = IF serving THEN stale \cup {r} ELSE {}
  /\ UNCHANGED <<serving, held>>

\* The replica starts to serve: it has missed nothing of the rows that are
\* not stale, and of the others it has some version.
Serve ==
  /\ ~serving /\ serving'
  /\ stale' \subseteq Row
  /\ held' = [r \in Row |-> held'[r]]
  /\ \A r \in Row : held'[r] \in past[r] /\ (r \notin stale' => held'[r] = truth[r])
  /\ UNCHANGED <<truth, past>>

\* News of a row arrive, the last of them with what is true.
Hear(r) ==
  /\ serving /\ r \in stale
  /\ \E v \in past[r] :
       /\ held' = [held EXCEPT ![r] = v]
       /\ stale' = stale \/ (v = truth[r] /\ stale' = stale \ {r})
  /\ UNCHANGED <<truth, past, serving>>

\* The replica ends and forgets all it held.
Stop ==
  /\ serving /\ ~serving'
  /\ held' = Nothing /\ stale' = {}
  /\ UNCHANGED <<truth, past>>

Next == Serve \/ Stop \/ (\E r \in Row : Update(r) \/ Hear(r))

Spec == Init /\ [][Next]_vars
=============================================================================
