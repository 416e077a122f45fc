------------------------------- MODULE Payment -------------------------------
(***************************************************************************)
(* The payment service (internal/payment): any number of concurrent        *)
(* POST /payments requests, each a goroutine that sends a fixed sequence   *)
(* of autocommitted statements to PostgreSQL:                              *)
(*                                                                         *)
(*   GetViolation   the violation joined with the rule version it cites    *)
(*   GetVehicle     the vehicle with that plate, then the checks on both   *)
(*   RecordFailed   INSERT a FAILED payment        (declined card)         *)
(*   UpdateStatus   UPDATE the violation to PAID   (approved card)         *)
(*   RecordSuccess  INSERT a SUCCESS payment       (approved card)         *)
(*                                                                         *)
(* There is no transaction around them.  A statement may fail; the         *)
(* handler may lose touch with a statement PostgreSQL still executes       *)
(* (the request's context ends when the client goes away); the process     *)
(* may die between any two statements.  Around the requests, officers      *)
(* report violations, rules get new versions and vehicles change hands.    *)
(***************************************************************************)
EXTENDS Naturals, Sequences, FiniteSets, Tables

CONSTANTS
    Requests,    \* payment requests; also the ids of the rows they insert
    Members,     \* users with role "member"
    Officers,    \* users with role "officer"
    ViolationIds,
    Plates,
    Codes, Amounts,  \* as in RuleHistory
    MaxVersion       \* bound: versions published of one code

VARIABLES
    history,     \* table fine_rules, as the rules service keeps it
    vehicles, violations, payments,
    input,       \* the body and the caller of each request received
    seen,        \* the row GetViolation returned to each request
    pc,          \* the statement each request is at, or was at when it ended
    answer,      \* the HTTP status each request was answered with
    orphans,     \* requests whose statement outlived the handler's wait
    held         \* history: the plates that were the caller's at some moment
                 \* of the request

tables  == <<history, vehicles, violations, payments>>
handler == <<input, seen, pc, answer>>
vars    == <<tables, handler, orphans, held>>

Rules    == INSTANCE RuleHistory
Registry == INSTANCE PlateRegistry WITH Owners <- Members, owner <- vehicles

\* What a card and its CVV amount to: refused by validation, declined by
\* the mock gateway (card ...0000 or CVV 000), or approved.
Cards == {"invalid", "declined", "approved"}

Writes     == {"RecordFailed", "UpdateStatus", "RecordSuccess"}
Statements == {"GetViolation", "GetVehicle"} \cup Writes
Answers    == {"201", "402", "403", "404", "409", "422", "500"}

\* "none": not answered (yet).  "lost": the process died first.
Live(r) == pc[r] \in Statements /\ answer[r] = "none"

-----------------------------------------------------------------------------

InputRow     == [user : Members \cup Officers, violation : ViolationIds,
                 card : Cards]
SeenRow      == [plate : Plates, status : {"PENDING", "PAID"},
                 amount : Amounts]
ViolationRow == [plate : Plates, code : Codes, version : Nat,
                 status : {"PENDING", "PAID"}]
PaymentRow   == [violation : ViolationIds, amount : Amounts,
                 status : {"SUCCESS", "FAILED"}]

\* A table: rows of the given set under some of the given keys.
IsTable(table, keys, rows) ==
    /\ DOMAIN table \subseteq keys
    /\ table \in [DOMAIN table -> rows]

\* Type invariant: every table and every handler variable holds rows of
\* its type, and a violation cites a rule version that exists.
TypeOK ==
    /\ history \in [Codes -> Seq(Amounts)]
    /\ IsTable(vehicles, Plates, Members)
    /\ IsTable(violations, ViolationIds, ViolationRow)
    /\ \A v \in DOMAIN violations :
          violations[v].version \in 1..Len(history[violations[v].code])
    /\ IsTable(payments, Requests, PaymentRow)
    /\ IsTable(input, Requests, InputRow)
    /\ IsTable(seen, Requests, SeenRow)
    /\ pc \in [Requests -> Statements \cup {"idle"}]
    /\ answer \in [Requests -> Answers \cup {"none", "lost"}]
    /\ orphans \subseteq {r \in Requests : pc[r] \in Writes}
    /\ held \in [Requests -> SUBSET Plates]

Init ==
    /\ Rules!Init
    /\ vehicles = << >> /\ violations = << >> /\ payments = << >>
    /\ input = << >> /\ seen = << >>
    /\ pc = [r \in Requests |-> "idle"]
    /\ answer = [r \in Requests |-> "none"]
    /\ orphans = {}
    /\ held = [r \in Requests |-> {}]

-----------------------------------------------------------------------------
(* The handler, one action per statement.                                  *)

Goto(r, step)    == /\ pc' = [pc EXCEPT ![r] = step]
                    /\ UNCHANGED answer
Respond(r, code) == /\ answer' = [answer EXCEPT ![r] = code]
                    /\ UNCHANGED pc

PlatesOf(user) == {p \in DOMAIN vehicles : vehicles[p] = user}

\* A request arrives.  The role check and the validation of the card run
\* before any statement.
Receive(r, user, violation, card) ==
    /\ pc[r] = "idle"
    /\ input' = Insert(input, r, [user |-> user, violation |-> violation,
                                  card |-> card])
    /\ pc' = [pc EXCEPT ![r] = "GetViolation"]
    /\ answer' = [answer EXCEPT ![r] =
                    IF user \notin Members THEN "403"
                    ELSE IF card = "invalid" THEN "422" ELSE "none"]
    /\ held' = [held EXCEPT ![r] = PlatesOf(user)]
    /\ UNCHANGED <<tables, seen, orphans>>

At(r, step) == pc[r] = step /\ answer[r] = "none"

GetViolation(r) ==
    /\ At(r, "GetViolation")
    /\ LET id == input[r].violation IN
       \/ /\ id \notin DOMAIN violations
          /\ Respond(r, "404")
          /\ UNCHANGED seen
       \/ /\ id \in DOMAIN violations
          /\ seen' = Insert(seen, r, GetViolationByID(violations, history, id))
          /\ Goto(r, "GetVehicle")
    /\ UNCHANGED <<tables, input, orphans, held>>

Owns(user, plate) == plate \in DOMAIN vehicles /\ vehicles[plate] = user

\* (mutant) the status check is missing
GetVehicleAnyStatus(r) ==
    /\ At(r, "GetVehicle")
    /\ LET owned == Owns(input[r].user, seen[r].plate) IN
       \/ ~owned /\ Respond(r, "403")
       \/ /\ owned
          /\ Goto(r, IF input[r].card = "declined" THEN "RecordFailed"
                                                   ELSE "UpdateStatus")
    /\ UNCHANGED <<tables, input, seen, orphans, held>>

\* (mutant) the money is recorded without the status update
GetVehicleSkipsUpdate(r) ==
    /\ At(r, "GetVehicle")
    /\ Owns(input[r].user, seen[r].plate)
    /\ seen[r].status = "PENDING"
    /\ Goto(r, IF input[r].card = "declined" THEN "RecordFailed"
                                             ELSE "RecordSuccess")
    /\ UNCHANGED <<tables, input, seen, orphans, held>>

\* (mutant) whoever asks may pay
GetVehicleAnyOwner(r) ==
    /\ At(r, "GetVehicle")
    /\ IF seen[r].status = "PAID" THEN Respond(r, "409")
       ELSE Goto(r, IF input[r].card = "declined" THEN "RecordFailed"
                                                  ELSE "UpdateStatus")
    /\ UNCHANGED <<tables, input, seen, orphans, held>>

\* The checks are on the row GetViolation returned, not on the row as it is.
GetVehicle(r) ==
    /\ At(r, "GetVehicle")
    /\ LET owned == Owns(input[r].user, seen[r].plate)
           paid  == seen[r].status = "PAID"
       IN
       \/ ~owned /\ Respond(r, "403")
       \/ owned /\ paid /\ Respond(r, "409")
       \/ /\ owned /\ ~paid
          /\ Goto(r, IF input[r].card = "declined" THEN "RecordFailed"
                                                   ELSE "UpdateStatus")
    /\ UNCHANGED <<tables, input, seen, orphans, held>>

\* (mutant) a declined attempt settles the violation too
InsertionSettles(r, status) ==
    /\ payments' = CreatePayment(payments, r, input[r].violation,
                                 seen[r].amount, status)
    /\ violations' = UpdateViolationStatus(violations, input[r].violation,
                                           "PAID")
    /\ UNCHANGED <<history, vehicles>>

\* (mutant) the fine is that of the newest version of the rule
InsertionAtCurrentFine(r, status) ==
    /\ LET fines == history[violations[input[r].violation].code] IN
       payments' = CreatePayment(payments, r, input[r].violation,
                                 fines[Len(fines)], status)
    /\ UNCHANGED <<history, vehicles, violations>>

\* The write statement request r is at takes effect in the database.
Insertion(r, status) ==
    /\ payments' = CreatePayment(payments, r, input[r].violation,
                                 seen[r].amount, status)
    /\ UNCHANGED <<history, vehicles, violations>>

\* (mutant) the status written is the payment's
SettlementAsPayment(r) ==
    /\ violations' = UpdateViolationStatus(violations, input[r].violation,
                                           "SUCCESS")
    /\ UNCHANGED <<history, vehicles, payments>>

Settlement(r) ==
    /\ violations' = UpdateViolationStatus(violations, input[r].violation,
                                           "PAID")
    /\ UNCHANGED <<history, vehicles, payments>>

RecordFailed(r) ==
    /\ At(r, "RecordFailed")
    /\ Insertion(r, "FAILED")
    /\ Respond(r, "402")
    /\ UNCHANGED <<input, seen, orphans, held>>

UpdateStatus(r) ==
    /\ At(r, "UpdateStatus")
    /\ Settlement(r)
    /\ Goto(r, "RecordSuccess")
    /\ UNCHANGED <<input, seen, orphans, held>>

\* The transaction recorder that follows is a stub that only logs.
RecordSuccess(r) ==
    /\ At(r, "RecordSuccess")
    /\ Insertion(r, "SUCCESS")
    /\ Respond(r, "201")
    /\ UNCHANGED <<input, seen, orphans, held>>

\* (mutant) the error of the last insert is only logged
StatementFailsIgnored(r) ==
    /\ Live(r)
    /\ Respond(r, IF pc[r] = "RecordSuccess" THEN "201" ELSE "500")
    /\ UNCHANGED <<tables, input, seen, orphans, held>>

\* (mutant) when the last insert fails the settlement is tried again
StatementFailsRetries(r) ==
    /\ Live(r)
    /\ IF pc[r] = "RecordSuccess" THEN Goto(r, "UpdateStatus")
                                  ELSE Respond(r, "500")
    /\ UNCHANGED <<tables, input, seen, orphans, held>>

\* A statement returns an error.  Either it had no effect, or the handler
\* only lost the connection and PostgreSQL may yet execute it.
StatementFails(r) ==
    /\ Live(r)
    /\ Respond(r, "500")
    /\ \/ UNCHANGED orphans
       \/ pc[r] \in Writes /\ orphans' = orphans \cup {r}
    /\ UNCHANGED <<tables, input, seen, held>>

\* The process dies (and is started again: Receive stays possible).  The
\* writes that were sent are PostgreSQL's to execute or to drop.
Crash ==
    /\ \E r \in Requests : Live(r)
    /\ answer' = [r \in Requests |-> IF Live(r) THEN "lost" ELSE answer[r]]
    /\ \E sent \in SUBSET {r \in Requests : Live(r) /\ pc[r] \in Writes} :
          orphans' = orphans \cup sent
    /\ UNCHANGED <<tables, input, seen, pc, held>>

OrphanRuns(r) ==
    /\ r \in orphans
    /\ \/ pc[r] = "RecordFailed"  /\ Insertion(r, "FAILED")
       \/ pc[r] = "UpdateStatus"  /\ Settlement(r)
       \/ pc[r] = "RecordSuccess" /\ Insertion(r, "SUCCESS")
    /\ orphans' = orphans \ {r}
    /\ UNCHANGED <<handler, held>>

OrphanDies(r) ==
    /\ r \in orphans
    /\ orphans' = orphans \ {r}
    /\ UNCHANGED <<tables, handler, held>>

Step(r) == \/ GetViolation(r) \/ GetVehicle(r)
           \/ RecordFailed(r) \/ UpdateStatus(r) \/ RecordSuccess(r)
           \/ StatementFails(r)
Orphan(r) == OrphanRuns(r) \/ OrphanDies(r)

-----------------------------------------------------------------------------
(* The other services, as far as payments can tell: each of these is the   *)
(* one write statement (or transaction) of an operation of theirs.         *)

PublishRule(c, a) ==
    /\ Len(history[c]) < MaxVersion
    /\ Rules!Publish(c, a)
    /\ UNCHANGED <<vehicles, violations, payments, handler, orphans, held>>

\* (mutant) any version may be cited
ReportViolationUnchecked(v, plate, c, version) ==
    /\ v \notin DOMAIN violations
    /\ violations' = CreateViolation(violations, v, plate, c, version)
    /\ UNCHANGED <<history, vehicles, payments, handler, orphans, held>>

\* Report cites a version it read as active in an earlier statement, so
\* the version need not be the active one any more.
ReportViolation(v, plate, c, version) ==
    /\ v \notin DOMAIN violations
    /\ version \in 1..Len(history[c])
    /\ violations' = CreateViolation(violations, v, plate, c, version)
    /\ UNCHANGED <<history, vehicles, payments, handler, orphans, held>>

\* The plate becomes user's in the middle of the requests user has open.
RegisterVehicle(plate, user) ==
    /\ Registry!Register(plate, user)
    /\ held' = [r \in Requests |-> IF Live(r) /\ input[r].user = user
                                   THEN held[r] \cup {plate} ELSE held[r]]
    /\ UNCHANGED <<history, violations, payments, handler, orphans>>

RemoveVehicle(plate) ==
    /\ Registry!Remove(plate)
    /\ UNCHANGED <<history, violations, payments, handler, orphans, held>>

Environment ==
    \/ \E c \in Codes, a \in Amounts : PublishRule(c, a)
    \/ \E v \in ViolationIds, p \in Plates, c \in Codes, k \in 1..MaxVersion :
          ReportViolation(v, p, c, k)
    \/ \E p \in Plates, u \in Members : RegisterVehicle(p, u)
    \/ \E p \in Plates : RemoveVehicle(p)

Next ==
    \/ \E r \in Requests, u \in Members \cup Officers,
          v \in ViolationIds, card \in Cards : Receive(r, u, v, card)
    \/ \E r \in Requests : Step(r) \/ Orphan(r)
    \/ Crash
    \/ Environment

Spec == Init /\ [][Next]_vars

\* PostgreSQL answers every statement, with a result or an error, and
\* disposes of every statement nobody waits for; nothing else is promised.
FairSpec == /\ Spec
            /\ \A r \in Requests : WF_vars(Step(r)) /\ WF_vars(Orphan(r))

-----------------------------------------------------------------------------
(* Properties.                                                             *)

Paid(v) == v \in DOMAIN violations /\ violations[v].status = "PAID"

PaymentsFor(v) == {p \in DOMAIN payments : payments[p].violation = v}
Charges(v)     == {p \in PaymentsFor(v) : payments[p].status = "SUCCESS"}

\* Requests that read v as PENDING and may still write on the strength of
\* it: the handler is still running, or its statement is an orphan.
InFlight(v) == {r \in DOMAIN seen : /\ input[r].violation = v
                                    /\ seen[r].status = "PENDING"
                                    /\ Live(r) \/ r \in orphans}

\* A violation a SUCCESS payment points at is PAID: Pay settles the status
\* before it records the money (payment.go:152-158), whatever else runs.
ChargedImpliesPaid == \A v \in ViolationIds : Charges(v) # {} => Paid(v)

\* Every payment carries the fine of the rule version its violation cites,
\* however many versions are published between the report, the read of the
\* join and the insert.
ChargedTheCitedFine ==
    \A p \in DOMAIN payments :
        /\ payments[p].violation \in DOMAIN violations
        /\ payments[p].amount =
              FineOf(violations[payments[p].violation], history)

\* The status code a client sees says what the database holds: 201 a
\* SUCCESS payment by this request on a PAID violation, 402 a FAILED one,
\* 409 a PAID violation, every refusal that the request wrote nothing.
AnswersAreTruthful ==
    \A r \in Requests :
        /\ answer[r] = "201" => /\ r \in Charges(input[r].violation)
                                /\ Paid(input[r].violation)
        /\ answer[r] = "402" => /\ r \in PaymentsFor(input[r].violation)
                                /\ payments[r].status = "FAILED"
        /\ answer[r] = "409" => Paid(input[r].violation)
        /\ answer[r] \in {"403", "404", "409", "422"} =>
              r \notin DOMAIN payments /\ r \notin orphans

\* A PAID violation without a SUCCESS payment is the work of a request that
\* was between the status update and the insert, or was cut off there.
CutOff(r) ==
    \/ pc[r] = "RecordSuccess" /\ answer[r] \in {"none", "500", "lost"}
    \/ pc[r] = "UpdateStatus" /\ answer[r] \in {"500", "lost"}

PaidIsExplained ==
    \A v \in ViolationIds : Paid(v) =>
        \/ Charges(v) # {}
        \/ \E r \in DOMAIN seen : input[r].violation = v /\ CutOff(r)

\* Once a violation is PAID, no further request can come to write on it:
\* the requests that may double-charge are those that read it before.
ChargeWindowCloses ==
    [][\A v \in ViolationIds : Paid(v) => InFlight(v)' \subseteq InFlight(v)]_vars

\* Payments are never changed or removed, and only requests in flight add
\* some.  So when the last of these is over the payments of a PAID violation
\* are final: no retry can record a payment that was lost.
LedgerFreezes ==
    [][\A v \in ViolationIds :
          /\ \A p \in PaymentsFor(v) :
                p \in PaymentsFor(v)' /\ payments'[p] = payments[p]
          /\ PaymentsFor(v)' \subseteq PaymentsFor(v) \cup InFlight(v)]_vars

\* Nobody pays, or fails to, for another's vehicle: the plate was the
\* payer's at some moment of the request, although the vehicle may go, and
\* get another owner, between the check and the writes.
PayersHeldTheVehicle ==
    \A p \in DOMAIN payments :
        violations[payments[p].violation].plate \in held[p]

\* The abstract ledger this service implements: see FineLedger.
Ledger == INSTANCE FineLedger
            WITH Violations <- ViolationIds,
                 paid       <- {v \in ViolationIds : Paid(v)},
                 admitted   <- [v \in ViolationIds |-> InFlight(v)],
                 charged    <- [v \in ViolationIds |-> Charges(v)]

\* Every step of the service is a step of the ledger, or changes nothing
\* in it: a violation is settled and charged only by requests admitted
\* while it was unpaid, charged only once settled, and never unsettled.
ImplementsLedger == Ledger!Spec

\* Why the invariants hold: what is true of one request at any time.  A
\* request that fetched its violation holds a row whose fine is still that
\* of the table and whose PAID is still true; it reaches a write
\* only on a PENDING row, and the insert of a charge only when the status is
\* settled; its payment, if any, is the one its last statement inserts.  While
\* it runs it knows, in held, every plate of its caller.
Coherent(r) ==
    LET v == input[r].violation IN
    /\ pc[r] = "idle" => answer[r] = "none"
    /\ r \in DOMAIN input <=> pc[r] # "idle"
    /\ r \in DOMAIN seen <=> pc[r] \in {"GetVehicle"} \cup Writes
    /\ r \in DOMAIN seen =>
          /\ v \in DOMAIN violations
          /\ seen[r].amount = FineOf(violations[v], history)
          /\ seen[r].plate = violations[v].plate
          /\ seen[r].status = "PAID" => Paid(v)
    /\ Live(r) => PlatesOf(input[r].user) \subseteq held[r]
    /\ pc[r] \in Writes => /\ seen[r].status = "PENDING"
                           /\ seen[r].plate \in held[r]
    /\ pc[r] = "RecordSuccess" => Paid(v)
    /\ r \in orphans => pc[r] \in Writes /\ answer[r] \in {"500", "lost"}
    /\ r \in DOMAIN payments =>
          /\ payments[r].violation = v
          /\ payments[r].amount = seen[r].amount
          /\ \/ payments[r].status = "SUCCESS" /\ pc[r] = "RecordSuccess"
             \/ payments[r].status = "FAILED" /\ pc[r] = "RecordFailed"
          /\ ~Live(r) /\ r \notin orphans
    /\ answer[r] = "201" => r \in DOMAIN payments /\ pc[r] = "RecordSuccess"
    /\ answer[r] = "402" => r \in DOMAIN payments /\ pc[r] = "RecordFailed"
    /\ answer[r] = "409" => pc[r] = "GetVehicle" /\ seen[r].status = "PAID"
    /\ answer[r] \in {"403", "404", "422"} => pc[r] \notin Writes

PaymentInv == TypeOK /\ \A r \in Requests : Coherent(r)

\* Every request is answered, unless the process dies first.
EveryPaymentEnds == \A r \in Requests : Live(r) ~> ~Live(r)

\* The claims the code makes and the runs refute: see the README.

\* payment.go:119-121 refuses a second payment of a violation, and does
\* unless two requests that read it as PENDING overlap.
NoOverlap         == \A v \in ViolationIds : \A q, r \in InFlight(v) : q = r
ChargedAtMostOnce == \A v \in ViolationIds : Cardinality(Charges(v)) <= 1

\* What the 409 answer of payment.go:120 says, once nothing is in flight;
\* and so it is unless a request ended between its two writes.
NobodyCutOff     == \A r \in Requests : CutOff(r) => Live(r)
PaidMeansCharged ==
    (\A r \in Requests : ~Live(r) /\ r \notin orphans) =>
        \A v \in ViolationIds : Paid(v) => Charges(v) # {}

=============================================================================
