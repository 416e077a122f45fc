----------------------------- MODULE FineLedger -----------------------------
(***************************************************************************)
(* What the payment service promises about money, without its statements,  *)
(* its failures or its answers.  A request is admitted to a violation      *)
(* while the violation is unpaid.  Only an admitted request may settle the *)
(* violation, and only an admitted request may charge it, once, after it   *)
(* is settled.  Admissions end with the settlement, so the charges of a    *)
(* violation are at most the requests admitted before it was settled.      *)
(***************************************************************************)
CONSTANTS Violations, Requests

VARIABLES
    paid,      \* the violations settled
    admitted,  \* for each violation, the requests that may write on it
    charged    \* for each violation, the requests that charged it

vars == <<paid, admitted, charged>>

TypeOK == /\ paid \subseteq Violations
          /\ admitted \in [Violations -> SUBSET Requests]
          /\ charged \in [Violations -> SUBSET Requests]

Init == /\ paid = {}
        /\ admitted = [v \in Violations |-> {}]
        /\ charged = [v \in Violations |-> {}]

Admit(v, r) ==
    /\ v \notin paid
    /\ \A w \in Violations : r \notin admitted[w] \cup charged[w]
    /\ admitted' = [admitted EXCEPT ![v] = @ \cup {r}]
    /\ UNCHANGED <<paid, charged>>

\* A request may settle and be cut off before it hears of it.
Settle(v, r) ==
    /\ r \in admitted[v]
    /\ paid' = paid \cup {v}
    /\ \/ UNCHANGED admitted
       \/ admitted' = [admitted EXCEPT ![v] = @ \ {r}]
    /\ UNCHANGED charged

Charge(v, r) ==
    /\ v \in paid
    /\ r \in admitted[v]
    /\ charged' = [charged EXCEPT ![v] = @ \cup {r}]
    /\ admitted' = [admitted EXCEPT ![v] = @ \ {r}]
    /\ UNCHANGED paid

\* Requests are refused, declined, or end without having charged.
Withdraw ==
    /\ admitted' \in [Violations -> SUBSET Requests]
    /\ \A v \in Violations : admitted'[v] \subseteq admitted[v]
    /\ UNCHANGED <<paid, charged>>

Next == \/ \E v \in Violations, r \in Requests :
              Admit(v, r) \/ Settle(v, r) \/ Charge(v, r)
        \/ Withdraw

Spec == Init /\ [][Next]_vars

=============================================================================
