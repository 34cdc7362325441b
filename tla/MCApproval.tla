----------------------------- MODULE MCApproval -----------------------------
(* Small instances of Approval for TLC.                                     *)
EXTENDS Approval, TLC

(* The members of the project are interchangeable.                          *)
MCSymmetry == Permutations(Users)
=============================================================================
