----------------------------- MODULE MCCommands -----------------------------
(* Small instances of Commands for TLC.                                     *)
EXTENDS Commands, TLC

(* Clients, keys and contents are interchangeable.                          *)
MCSymmetry == Permutations(Requests) \cup Permutations(Keys) \cup Permutations(Args)
=============================================================================
