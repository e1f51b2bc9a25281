----------------------------- MODULE KeyRotation -----------------------------
(***************************************************************************)
(* What rotating the repository's symmetric key promises to whoever reads  *)
(* the repository through config.json: the active generation and its key   *)
(* change together, in one step, to the next generation and a key never    *)
(* active before, and exactly the objects readable before stay readable.   *)
(***************************************************************************)
EXTENDS Naturals

CONSTANT Hashes

VARIABLES
  gen,       \* the active generation
  key,       \* the key config.json wraps
  readable   \* the hashes whose object decrypts under that key

Init == gen = 1 /\ key = 1 /\ readable \subseteq Hashes

Rotate ==
  /\ gen' = gen + 1
  /\ key' \in Nat /\ key' > key
  /\ UNCHANGED readable

Spec == Init /\ [][Rotate]_<<gen, key, readable>>

=============================================================================
