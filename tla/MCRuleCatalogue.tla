-------------------------- MODULE MCRuleCatalogue --------------------------
(* Small instances of RuleCatalogue for TLC. *)
EXTENDS RuleCatalogue, TLC

RequestSymmetry == Permutations(Requests)

=============================================================================
