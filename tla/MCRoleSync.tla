------------------------------- MODULE MCRoleSync -------------------------------
(* Instances of RoleSync for TLC. *)
EXTENDS RoleSync, TLC

CONSTANTS m1, r1

OnlyRole == m1 :> r1

EveryDirection == {"inbound", "outbound", "bidirectional"}
=============================================================================
