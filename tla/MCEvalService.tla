---------------------------- MODULE MCEvalService ----------------------------
(* Instances of EvalService for TLC: the symmetries of its model values.   *)
EXTENDS EvalService, TLC

MCSymmetry == Permutations(Clients) \cup Permutations(Keys) \cup Permutations(Bodies)
                \cup Permutations(Admins)
=============================================================================
