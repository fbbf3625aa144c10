--------------------------- MODULE MCPunchIngest ---------------------------
(***************************************************************************)
(* An importer beside the session thread, an enrolled badge and an unknown *)
(* one.  The reader's clock is right, or so far ahead that a scan is       *)
(* rejected now and accepted later; the two protocols report one punch     *)
(* byte for a scan, or two.                                                *)
(***************************************************************************)
EXTENDS PunchIngest

CONSTANTS known, stranger, session, import

MCBadges == {known, stranger}
MCEnrolled == {known}
MCImporters == {import}

Kind(badge, skew, live, log) == [badge |-> badge, skew |-> skew, live |-> live, log |-> log]

MCKinds ==
  {Kind(known, 0, 0, 1), Kind(known, 2, 0, 0), Kind(stranger, 0, 0, 0)}

=============================================================================
