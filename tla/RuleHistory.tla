----------------------------- MODULE RuleHistory -----------------------------
(***************************************************************************)
(* What the fine-rules service promises to the rest of the portal: the     *)
(* versions of a rule code form a history that only grows.  Version k of   *)
(* code c is history[c][k]; the last one is the active one.  A row of      *)
(* fine_rules is therefore named by its code and version, and what a row   *)
(* says (its fine) never changes once it is published.                     *)
(*                                                                         *)
(* RuleCatalogue is the detailed model of the service and implements this  *)
(* module; Payment uses it as the environment of the payment service.      *)
(***************************************************************************)
EXTENDS Naturals, Sequences

CONSTANTS
    Codes,      \* the rule codes (already normalised)
    Amounts     \* the fines a rule may carry

VARIABLE history

TypeOK == history \in [Codes -> Seq(Amounts)]

Init == history = [c \in Codes |-> <<>>]

\* (mutant) an update rewrites the active version in place
PublishInPlace(c, a) ==
    history' = [history EXCEPT ![c] =
                  IF @ = << >> THEN <<a>> ELSE [@ EXCEPT ![Len(@)] = a]]

\* Create publishes version 1 of a code, Update the version after the last.
Publish(c, a) == history' = [history EXCEPT ![c] = Append(@, a)]

Next == \E c \in Codes, a \in Amounts : Publish(c, a)

Spec == Init /\ [][Next]_history

=============================================================================
