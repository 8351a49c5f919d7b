--------------------------- MODULE MCFloodControl ---------------------------
(* FloodControl for model checking: threads and keys are interchangeable. *)
EXTENDS FloodControl, TLC

MCSymmetry == Permutations(Threads) \cup Permutations(Keys)
=============================================================================
