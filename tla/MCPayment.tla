----------------------------- MODULE MCPayment -----------------------------
(* Small instances of Payment for TLC. *)
EXTENDS Payment, TLC

\* Requests, members and violations are interchangeable: the specification
\* never tells two of them apart.
RequestSymmetry == Permutations(Requests)
FullSymmetry == Permutations(Requests) \cup Permutations(Members)
                                      \cup Permutations(ViolationIds)

=============================================================================
