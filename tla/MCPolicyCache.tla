----------------------------- MODULE MCPolicyCache -----------------------------
(* An instance of PolicyCache for TLC: two requests share one process. *)
EXTENDS PolicyCache, TLC

CONSTANTS p1, p2, d1, d2, d3

TwoHereOneThere == d1 :> p1 @@ d2 :> p1 @@ d3 :> p2

SameProcess == Permutations({d1, d2})
=============================================================================
