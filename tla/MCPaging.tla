------------------------------ MODULE MCPaging ------------------------------
(* A small instance of Paging for TLC. *)
EXTENDS Paging, TLC

\* Page numbers below one, and one whose offset is no number of 4 bits.
MCPageTexts == {0, 1, 2, 10}
MCSizeTexts == {-1, 1, 9}

RowSymmetry == Permutations(Ids)

=============================================================================
