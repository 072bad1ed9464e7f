--------------------------- MODULE MCAccountSession ---------------------------
(***************************************************************************)
(* AccountSession with two accounts and few grants and rotations.          *)
(***************************************************************************)
EXTENDS AccountSession, TLC

Symmetry == Permutations(Accounts)
=============================================================================
