-------------------------- MODULE PageOffsetProofs --------------------------
(***************************************************************************)
(* What the conversion of an offset to int32 keeps, whatever the width.    *)
(***************************************************************************)
EXTENDS PageOffset, TLAPS

\* Whatever is converted, an offset is a number of the width.
LEMMA NarrowInRange ==
    ASSUME NEW n \in Int
    PROVE  Narrow(n) \in -Half .. Half - 1
  <1>1. Half \in Nat \ {0}
    BY WidthAssumption
  <1>2. ASSUME NEW h \in Nat \ {0}
        PROVE  ((n + h) % (2 * h)) \in 0 .. 2 * h - 1
    BY SMT
  <1> QED
    BY <1>1, <1>2 DEF Narrow

\* A number that fits is not changed by the conversion.
LEMMA NarrowExact ==
    ASSUME NEW n \in Nat, n < Half
    PROVE  Narrow(n) = n
  <1>1. Half \in Nat
    BY WidthAssumption
  <1>2. ASSUME NEW h \in Nat, n < h PROVE (n + h) % (2 * h) = n + h
    BY <1>2, SMT
  <1> QED
    BY <1>1, <1>2 DEF Narrow

=============================================================================
