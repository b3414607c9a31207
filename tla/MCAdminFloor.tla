----------------------------- MODULE MCAdminFloor -----------------------------
(* Instances of AdminFloor for TLC: one standalone role, one division role. *)
EXTENDS AdminFloor, TLC

CONSTANTS adminRole, divisionRole, adminGrant, divisionGrant

OneGrantEach == adminGrant :> adminRole @@ divisionGrant :> divisionRole

Symmetry == Permutations(User) \cup Permutations(Request)
=============================================================================
