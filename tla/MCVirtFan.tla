----------------------------- MODULE MCVirtFan -----------------------------
(* Instances of VirtFan for TLC. *)
EXTENDS VirtFan, TLC

UserSymmetry == Permutations(Users)
=============================================================================
