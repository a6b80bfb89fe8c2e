------------------------- MODULE MCGroupMembership -------------------------
(* Model values for GroupMembership.                                        *)
EXTENDS GroupMembership, TLC

CONSTANTS c, a, b, d
=============================================================================
