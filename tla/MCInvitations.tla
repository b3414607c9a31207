---------------------------- MODULE MCInvitations ----------------------------
(* Instances of Invitations for TLC. *)
EXTENDS Invitations
=============================================================================
