---------------------------- MODULE MCMembership ----------------------------
(* Small instances of Membership for TLC.                                   *)
EXTENDS Membership, TLC

(* Nothing orders or compares requests or rows of invitations.              *)
Symmetry == Permutations(Requests) \cup Permutations(Invitations) \cup Permutations(Users)
=============================================================================
