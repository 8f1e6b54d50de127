------------------------- MODULE MCControlPlaneCache -------------------------
(***************************************************************************)
(* Small instances of ControlPlaneCache.  Each .cfg picks the sets of      *)
(* model values and which organizations own which unit.                    *)
(***************************************************************************)
EXTENDS ControlPlaneCache, TLC

CONSTANTS o1, o2, x1, x2

\* Two units, one of each organization.
OneOrgEach == x1 :> {o1} @@ x2 :> {o2}

\* One unit of one organization.
OneOwner == x1 :> {o1}

\* One unit that messages place in either organization.
Transferred == x1 :> {o1, o2}

\* A message with no version, and one of a version to come; a plain one.
Versions == {2, None}
OnlyV1   == {1}
=============================================================================
