----------------------------- MODULE MCTaskBoard -----------------------------
(* Instances of TaskBoard for TLC: users and requests are interchangeable. *)
EXTENDS TaskBoard, TLC

Symmetry == Permutations(User) \cup Permutations(ClaimReq) \cup Permutations(DeskReq)

SeedZero == {0}
OneUpOneDown == {1, -1}
=============================================================================
