-------------------------------- MODULE MCLru --------------------------------
(* No action, property or constant of Lru tells one key from another.      *)
EXTENDS Lru, TLC

MCSymmetry == Permutations(Keys)
==============================================================================
