---------------------------- MODULE Organization ----------------------------
(***************************************************************************)
(* What authority is about: users, roles, and the grants of roles.  The    *)
(* administrability guard (AdminFloor) and the guard of a route (Policies, *)
(* Authorization) look at the same three.                                  *)
(***************************************************************************)
CONSTANTS User, Role, Grant
=============================================================================
