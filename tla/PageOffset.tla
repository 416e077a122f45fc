----------------------------- MODULE PageOffset -----------------------------
(***************************************************************************)
(* From a page number to the OFFSET of its query.  The services compute    *)
(* it as an int and convert it to the int32 of the query's parameter,      *)
(* which keeps the low bits: an offset that is too large comes out         *)
(* negative, or as another page's.                                         *)
(***************************************************************************)
EXTENDS Integers

CONSTANT Width  \* bits of an offset: 32 in the code

\* An offset is in -Half .. Half - 1.
Half == 2 ^ (Width - 1)

ASSUME WidthAssumption == Half \in Nat \ {0}

\* The conversion.  The 64 bits of the int are a multiple of it, so that
\* what may overflow there changes nothing here.
Narrow(n) == ((n + Half) % (2 * Half)) - Half

OffsetOf(page, size) == Narrow((page - 1) * size)

=============================================================================
