------------------------------ MODULE MCAccounts ------------------------------
(* Instances of Accounts for TLC. *)
EXTENDS Accounts, TLC

\* None of the constants is compared or chosen by the model.
Symmetry == Permutations(Session) \cup Permutations(Request) \cup Permutations(User)
              \cup Permutations(Discord) \cup Permutations(Token)
=============================================================================
