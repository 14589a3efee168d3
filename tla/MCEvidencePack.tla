--------------------------- MODULE MCEvidencePack ---------------------------
(* The cards are interchangeable. *)
EXTENDS EvidencePack, TLC

Swap == Permutations(Cards)

=============================================================================
