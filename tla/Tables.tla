------------------------------- MODULE Tables -------------------------------
(***************************************************************************)
(* The SQL statements the services run, as operators on the tables of the  *)
(* PostgreSQL schema.  A table with a key is a function from the keys of   *)
(* its rows to the rest of the row:                                        *)
(*                                                                         *)
(*   violations   id           -> [plate, code, version, status]           *)
(*   vehicles     plate_number -> owner   (plate_number is UNIQUE)         *)
(*   payments     id           -> [violation, amount, status]              *)
(*                                                                         *)
(* The pair (code, version) stands for fine_rule_id: the pair is UNIQUE in *)
(* fine_rules.  Columns nothing depends on (timestamps, descriptions,      *)
(* reference ids, the officer) are left out.                               *)
(***************************************************************************)
EXTENDS Naturals, Sequences

\* INSERT of a row under a key that the table does not hold yet.
Insert(table, key, row) ==
    [k \in DOMAIN table \cup {key} |-> IF k = key THEN row ELSE table[k]]

Delete(table, key) == [k \in DOMAIN table \ {key} |-> table[k]]

CreateViolation(violations, id, plate, code, version) ==
    Insert(violations, id, [plate   |-> plate,
                            code    |-> code,
                            version |-> version,
                            status  |-> "PENDING"])

\* The fine of the rule version a violation cites: the join of violations
\* with fine_rules on fine_rule_id.
FineOf(violation, history) == history[violation.code][violation.version]

\* (mutant) the adapter forgets to copy the status
GetViolationByIDNoStatus(violations, history, id) ==
    [plate  |-> violations[id].plate,
     status |-> "PENDING",
     amount |-> FineOf(violations[id], history)]

\* The columns of GetViolationByID that a payment uses.
GetViolationByID(violations, history, id) ==
    [plate  |-> violations[id].plate,
     status |-> violations[id].status,
     amount |-> FineOf(violations[id], history)]

\* (mutant) the UPDATE has lost its WHERE clause
UpdateViolationStatusEverywhere(violations, id, status) ==
    [v \in DOMAIN violations |-> [violations[v] EXCEPT !.status = status]]

\* UPDATE violations SET status WHERE id: whatever the status was before.
UpdateViolationStatus(violations, id, status) ==
    [violations EXCEPT ![id] = [@ EXCEPT !.status = status]]

CreatePayment(payments, id, violation, amount, status) ==
    Insert(payments, id, [violation |-> violation,
                          amount    |-> amount,
                          status    |-> status])

=============================================================================
