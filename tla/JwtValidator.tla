----------------------------- MODULE JwtValidator -----------------------------
(***************************************************************************)
(* Who opens a WebSocket connection: `validate_bearer` of                  *)
(* src/websocket/auth.rs on the Authorization header.  A token is what its *)
(* checks tell apart: whether the signature is RS256 by the known key, the *)
(* expiry, and the claims, each of which may be missing or be no UUID.     *)
(***************************************************************************)
CONSTANTS
  Org,       \* organizations
  User,      \* people
  NotUuid,   \* a claim that Uuid::parse_str refuses
  None       \* a missing claim, a missing header, nobody

UserClaim == User \cup {NotUuid, None}

Token == [signed : BOOLEAN, exp : {"future", "past", None},
          user_id : UserClaim, sub : UserClaim,
          organization_id : Org \cup {NotUuid, None}]

\* The text of the header, None when it is missing or not ASCII.
Header == [prefix : {"Bearer ", "bearer ", "other"}, token : Token] \cup {None}

\* jsonwebtoken::decode with Validation::new(RS256), that requires exp; a token
\* it refuses for another reason counts as not signed.
Decodes(token) == token.signed /\ token.exp = "future"

\* The claim user_id hides sub, even when it is no UUID.
ClaimedUser(token) == IF token.user_id # None THEN token.user_id ELSE token.sub

\* The AuthContext, or None for an error.
ValidateBearer(header) ==
  IF /\ header # None
     /\ header.prefix \in {"Bearer ", "bearer "}
     /\ Decodes(header.token)
     /\ ClaimedUser(header.token) \in User
     /\ header.token.organization_id \in Org
  THEN <<header.token.organization_id, ClaimedUser(header.token)>>
  ELSE None
=============================================================================
