------------------------------- MODULE MCRekey -------------------------------
(* Model-checking instances of Rekey: small pools and hash sets.            *)
EXTENDS Rekey, TLC

Symmetry == Permutations(Hashes) \cup Permutations(Workers)
=============================================================================
