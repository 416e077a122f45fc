---------------------------- MODULE PaymentProofs ----------------------------
(***************************************************************************)
(* Proofs about Payment, for any sets of requests, users, violations,      *)
(* plates, codes and fines.  The inductive invariant is PaymentInv: the    *)
(* types, and what is true of each request on its own (Coherent).  The     *)
(* requests meet only in the tables, and Frame says that the tables move   *)
(* in a way (Grows) that keeps what the other requests know.               *)
(***************************************************************************)
EXTENDS Payment, FiniteSetTheorems, TLAPS

USE DEF Writes, Statements, Answers, Cards

-----------------------------------------------------------------------------
(* Tables.                                                                 *)

\* What UPDATE violations leaves of the rows: all but one status.
LEMMA StatusTable ==
    ASSUME TypeOK, NEW id \in DOMAIN violations,
           NEW table, table = UpdateViolationStatus(violations, id, "PAID")
    PROVE  /\ IsTable(table, ViolationIds, ViolationRow)
           /\ DOMAIN table = DOMAIN violations
           /\ \A v \in DOMAIN violations :
                 /\ table[v].plate = violations[v].plate
                 /\ table[v].code = violations[v].code
                 /\ table[v].version = violations[v].version
                 /\ v = id => table[v].status = "PAID"
                 /\ v # id => table[v] = violations[v]
  BY DEF TypeOK, IsTable, UpdateViolationStatus, ViolationRow

-----------------------------------------------------------------------------
(* How the tables of rules and violations move.                            *)

Grows ==
    \A v \in DOMAIN violations :
        /\ v \in DOMAIN violations'
        /\ violations[v].status = "PAID" => violations'[v].status = "PAID"
        /\ FineOf(violations'[v], history') = FineOf(violations[v], history)
        /\ violations'[v].plate = violations[v].plate

\* A step that writes neither rules nor violations is growth.
LEMMA GrowsUnchanged ==
    ASSUME UNCHANGED <<history, violations>>
    PROVE  Grows
  BY DEF Grows

\* A settlement is growth, and leaves its violation PAID.
LEMMA GrowsSettlement ==
    ASSUME TypeOK, NEW r, input[r].violation \in DOMAIN violations,
           Settlement(r)
    PROVE  /\ Grows
           /\ IsTable(violations', ViolationIds, ViolationRow)
           /\ \A v \in DOMAIN violations' :
                 violations'[v].version \in 1..Len(history'[violations'[v].code])
           /\ DOMAIN violations' = DOMAIN violations
           /\ violations'[input[r].violation].status = "PAID"
  BY StatusTable DEF Settlement, Grows, FineOf, TypeOK

\* A new violation is growth: it takes no id that is in use.
LEMMA GrowsReport ==
    ASSUME TypeOK, NEW v \in ViolationIds, NEW p \in Plates, NEW c \in Codes,
           NEW k \in 1..MaxVersion, ReportViolation(v, p, c, k)
    PROVE  Grows /\ TypeOK'
  <1> DEFINE row == [plate |-> p, code |-> c, version |-> k,
                     status |-> "PENDING"]
  <1>1. k \in Nat
    BY DEF ReportViolation
  <1>2. row \in ViolationRow
    BY <1>1 DEF ViolationRow
  <1>3. IsTable(violations, ViolationIds, ViolationRow)
    BY DEF TypeOK
  <1>4. violations' = Insert(violations, v, row)
    BY DEF ReportViolation, CreateViolation
  <1>5. /\ IsTable(violations', ViolationIds, ViolationRow)
        /\ DOMAIN violations' = DOMAIN violations \cup {v}
        /\ violations'[v] = row
        /\ \A w \in DOMAIN violations : violations'[w] = violations[w]
    <2> HIDE DEF row
    <2>1. /\ IsTable(Insert(violations, v, row), ViolationIds, ViolationRow)
          /\ DOMAIN Insert(violations, v, row) = DOMAIN violations \cup {v}
          /\ Insert(violations, v, row)[v] = row
          /\ \A w \in DOMAIN violations : w # v =>
                Insert(violations, v, row)[w] = violations[w]
      BY <1>2, <1>3 DEF Insert, IsTable
    <2> QED
      BY <1>4, <2>1 DEF ReportViolation
  <1>6. k \in 1..Len(history[c]) /\ UNCHANGED <<history, vehicles, payments, handler, orphans, held>>
    BY DEF ReportViolation
  <1>7. Grows
    BY <1>5, <1>6 DEF Grows
  <1>8. \A w \in DOMAIN violations' :
            violations'[w].version \in 1..Len(history'[violations'[w].code])
    BY <1>5, <1>6 DEF TypeOK
  <1> QED
    BY <1>5, <1>6, <1>7, <1>8 DEF TypeOK, handler

\* A new rule version is growth: no earlier version changes.
LEMMA GrowsPublish ==
    ASSUME TypeOK, NEW c \in Codes, NEW a \in Amounts, PublishRule(c, a)
    PROVE  Grows /\ TypeOK'
  <1>1. /\ history \in [Codes -> Seq(Amounts)]
        /\ history' = [history EXCEPT ![c] = Append(history[c], a)]
        /\ UNCHANGED <<vehicles, violations, payments, handler, orphans, held>>
    BY DEF PublishRule, Rules!Publish, TypeOK
  <1>2. history' \in [Codes -> Seq(Amounts)]
    BY <1>1
  <1>3. \A d \in Codes :
            /\ Len(history[d]) \in Nat
            /\ Len(history[d]) <= Len(history'[d])
            /\ Len(history'[d]) \in Nat
            /\ \A k \in 1..Len(history[d]) : history'[d][k] = history[d][k]
    BY <1>1
  <1>4. \A v \in DOMAIN violations :
            /\ violations[v].code \in Codes
            /\ violations[v].version \in 1..Len(history[violations[v].code])
    BY DEF TypeOK, IsTable, ViolationRow
  <1>5. Grows
    BY <1>1, <1>3, <1>4 DEF Grows, FineOf
  <1>6. \A v \in DOMAIN violations' :
            violations'[v].version \in 1..Len(history'[violations'[v].code])
    BY <1>1, <1>3, <1>4
  <1> QED
    BY <1>1, <1>2, <1>5, <1>6 DEF TypeOK, handler

-----------------------------------------------------------------------------
(* What a step leaves alone of request q.                                  *)

Same(q) ==
    /\ pc'[q] = pc[q] /\ answer'[q] = answer[q]
    /\ q \in DOMAIN input' <=> q \in DOMAIN input
    /\ q \in DOMAIN input => input'[q] = input[q]
    /\ q \in DOMAIN seen' <=> q \in DOMAIN seen
    /\ q \in DOMAIN seen => seen'[q] = seen[q]
    /\ q \in DOMAIN payments' <=> q \in DOMAIN payments
    /\ q \in DOMAIN payments => payments'[q] = payments[q]
    /\ q \in orphans' => q \in orphans
    /\ held[q] \subseteq held'[q]

Knows(q) == Live(q) => PlatesOf(input[q].user) \subseteq held[q]

\* Vehicles that do not move stay known.
LEMMA StillKnows ==
    ASSUME NEW q \in Requests, Coherent(q), Same(q), UNCHANGED vehicles
    PROVE  Knows(q)'
  BY DEF Coherent, Same, Knows, Live, PlatesOf

\* So they do to a request that goes on.
LEMMA KnowsOn ==
    ASSUME NEW q \in Requests, Coherent(q), Live(q),
           UNCHANGED <<vehicles, input, held>>
    PROVE  Knows(q)'
  BY DEF Coherent, Knows, Live, PlatesOf

\* The tables may grow under a request that the step does not touch.
LEMMA Frame ==
    ASSUME NEW q \in Requests, Coherent(q), Grows, Same(q), Knows(q)'
    PROVE  Coherent(q)'
  <1>1. q \in DOMAIN seen => q \in DOMAIN input
    BY DEF Coherent
  <1>2. q \in DOMAIN seen' => /\ input'[q].violation \in DOMAIN violations'
                              /\ seen'[q].amount =
                                   FineOf(violations'[input'[q].violation], history')
                              /\ seen'[q].plate =
                                   violations'[input'[q].violation].plate
                              /\ seen'[q].status = "PAID" => Paid(input[q].violation)'
    BY <1>1 DEF Coherent, Grows, Same, Paid
  <1>3. pc'[q] \in Writes => /\ q \in DOMAIN seen
                             /\ seen'[q].status = "PENDING"
                             /\ seen'[q].plate \in held'[q]
    BY DEF Coherent, Same
  <1>4. pc'[q] = "RecordSuccess" => Paid(input[q].violation)'
    BY <1>1 DEF Coherent, Same, Grows, Paid
  <1>5. q \in DOMAIN payments' =>
          /\ payments'[q].violation = input'[q].violation
          /\ payments'[q].amount = seen'[q].amount
          /\ \/ payments'[q].status = "SUCCESS" /\ pc'[q] = "RecordSuccess"
             \/ payments'[q].status = "FAILED" /\ pc'[q] = "RecordFailed"
          /\ ~Live(q)' /\ q \notin orphans'
    BY <1>1 DEF Coherent, Same, Live
  <1> QED
    BY <1>1, <1>2, <1>3, <1>4, <1>5 DEF Coherent, Same, Knows

\* A step of request r: it is enough to look at r.
LEMMA OneRequest ==
    ASSUME PaymentInv, NEW r \in Requests, Grows, TypeOK', Coherent(r)',
           UNCHANGED vehicles, \A q \in Requests \ {r} : Same(q)
    PROVE  PaymentInv'
  <1>1. ASSUME NEW q \in Requests \ {r} PROVE Coherent(q)'
    BY <1>1, Frame, StillKnows DEF PaymentInv
  <1> QED
    BY <1>1 DEF PaymentInv

\* A step of the environment.
LEMMA NoRequest ==
    ASSUME PaymentInv, Grows, TypeOK',
           \A q \in Requests : Same(q) /\ Knows(q)'
    PROVE  PaymentInv'
  BY Frame DEF PaymentInv

\* The same when no vehicle moves.
LEMMA NoVehicle ==
    ASSUME PaymentInv, Grows, TypeOK', UNCHANGED vehicles,
           \A q \in Requests : Same(q)
    PROVE  PaymentInv'
  BY StillKnows, NoRequest DEF PaymentInv

-----------------------------------------------------------------------------
(* The steps.                                                              *)

\* A request that arrives keeps the invariant.
LEMMA ReceiveStep ==
    ASSUME PaymentInv, NEW r \in Requests, NEW u \in Members \cup Officers,
           NEW v \in ViolationIds, NEW card \in Cards, Receive(r, u, v, card)
    PROVE  PaymentInv'
  <1> USE DEF Receive, tables
  <1>1. TypeOK /\ Coherent(r) /\ r \notin DOMAIN input
    BY DEF PaymentInv, Coherent
  <1>2. Grows
    BY GrowsUnchanged
  <1>3. TypeOK'
    <2>1. PlatesOf(u) \in SUBSET Plates
      BY <1>1 DEF PlatesOf, TypeOK, IsTable
    <2>2. held' \in [Requests -> SUBSET Plates]
      BY <1>1, <2>1 DEF TypeOK
    <2> QED
      BY <1>1, <2>2 DEF TypeOK, IsTable, Insert, InputRow
  <1>4. \A q \in Requests \ {r} : Same(q)
    BY <1>1 DEF TypeOK, Same, Insert
  <1>5. Coherent(r)'
    BY <1>1 DEF Coherent, Live, Insert, TypeOK, PlatesOf
  <1> QED
    BY <1>2, <1>3, <1>4, <1>5, OneRequest

\* What a request reads is true when it reads it.
LEMMA GetViolationStep ==
    ASSUME PaymentInv, NEW r \in Requests, GetViolation(r)
    PROVE  PaymentInv'
  <1> USE DEF GetViolation, At, tables
  <1>1. /\ TypeOK /\ Coherent(r)
        /\ pc[r] = "GetViolation" /\ answer[r] = "none"
        /\ r \in DOMAIN input /\ r \notin DOMAIN seen
        /\ r \notin orphans /\ r \notin DOMAIN payments
    BY DEF PaymentInv, Coherent, TypeOK
  <1>2. Grows
    BY GrowsUnchanged
  <1> DEFINE id == input[r].violation
             row == GetViolationByID(violations, history, id)
  <1>3. CASE id \notin DOMAIN violations /\ Respond(r, "404") /\ UNCHANGED seen
    <2>1. TypeOK'
      BY <1>1, <1>3 DEF TypeOK, Respond
    <2>2. \A q \in Requests \ {r} : Same(q)
      BY <1>1, <1>3 DEF TypeOK, Same, Respond
    <2>3. Coherent(r)'
      BY <1>1, <1>3 DEF Coherent, Respond, TypeOK, Live
    <2> QED
      BY <1>2, <2>1, <2>2, <2>3, OneRequest
  <1>4. CASE /\ id \in DOMAIN violations
             /\ seen' = Insert(seen, r, row)
             /\ Goto(r, "GetVehicle")
    <2>1. /\ violations[id] \in ViolationRow
          /\ FineOf(violations[id], history) \in Amounts
      BY <1>1, <1>4 DEF TypeOK, IsTable, ViolationRow, FineOf
    <2>2. row \in SeenRow /\ row.status = violations[id].status
                          /\ row.amount = FineOf(violations[id], history)
                          /\ row.plate = violations[id].plate
      BY <2>1 DEF GetViolationByID, ViolationRow, SeenRow
    <2> HIDE DEF row
    <2>3. TypeOK'
      BY <1>1, <1>4, <2>2 DEF TypeOK, IsTable, Insert, Goto
    <2>4. \A q \in Requests \ {r} : Same(q)
      BY <1>1, <1>4 DEF TypeOK, Same, Goto, Insert
    <2>5. Coherent(r)'
      BY <1>1, <1>4, <2>2, KnowsOn
         DEF Coherent, Knows, Goto, Insert, TypeOK, Paid, Live
    <2> QED
      BY <1>2, <2>3, <2>4, <2>5, OneRequest
  <1> QED
    BY <1>3, <1>4

\* A request passes its checks only on a row read as PENDING.
LEMMA GetVehicleStep ==
    ASSUME PaymentInv, NEW r \in Requests, GetVehicle(r)
    PROVE  PaymentInv'
  <1> USE DEF GetVehicle, At, tables
  <1>1. /\ TypeOK /\ Coherent(r)
        /\ pc[r] = "GetVehicle" /\ answer[r] = "none"
        /\ r \in DOMAIN input /\ r \in DOMAIN seen
        /\ seen[r].status \in {"PENDING", "PAID"}
        /\ r \notin orphans /\ r \notin DOMAIN payments
    BY DEF PaymentInv, Coherent, TypeOK, IsTable, SeenRow
  <1>2. Grows
    BY GrowsUnchanged
  <1>3. \/ Respond(r, "403")
        \/ seen[r].status = "PAID" /\ Respond(r, "409")
        \/ /\ seen[r].status = "PENDING" /\ seen[r].plate \in held[r]
           /\ Goto(r, "RecordFailed") \/ Goto(r, "UpdateStatus")
    BY <1>1 DEF Owns, PlatesOf, Coherent, Live
  <1>4. TypeOK'
    BY <1>1, <1>3 DEF TypeOK, Respond, Goto
  <1>5. \A q \in Requests \ {r} : Same(q)
    BY <1>1, <1>3 DEF TypeOK, Same, Respond, Goto
  <1>6. Coherent(r)'
    BY <1>1, <1>3, KnowsOn DEF Coherent, Knows, Respond, Goto, TypeOK, Paid, Live
  <1> QED
    BY <1>2, <1>4, <1>5, <1>6, OneRequest

\* The two inserts, by a handler or by an orphan.
LEMMA InsertionEffect ==
    ASSUME PaymentInv, NEW r \in Requests, pc[r] \in Writes,
           NEW status \in {"SUCCESS", "FAILED"}, Insertion(r, status)
    PROVE  /\ Grows
           /\ UNCHANGED <<history, vehicles, violations>>
           /\ IsTable(payments', Requests, PaymentRow)
           /\ DOMAIN payments' = DOMAIN payments \cup {r}
           /\ payments'[r] = [violation |-> input[r].violation,
                              amount |-> seen[r].amount, status |-> status]
           /\ \A q \in DOMAIN payments \ {r} : payments'[q] = payments[q]
  <1> DEFINE row == [violation |-> input[r].violation,
                     amount |-> seen[r].amount, status |-> status]
  <1>1. r \in DOMAIN input /\ r \in DOMAIN seen
    BY DEF PaymentInv, Coherent
  <1>2. input[r] \in InputRow /\ seen[r] \in SeenRow
    BY <1>1 DEF PaymentInv, TypeOK, IsTable
  <1>3. row \in PaymentRow
    BY <1>2 DEF InputRow, SeenRow, PaymentRow
  <1>4. payments' = Insert(payments, r, row)
    BY DEF Insertion, CreatePayment
  <1>5. UNCHANGED <<history, vehicles, violations>>
    BY DEF Insertion
  <1>6. IsTable(payments, Requests, PaymentRow)
    BY DEF PaymentInv, TypeOK
  <1>7. /\ IsTable(payments', Requests, PaymentRow)
        /\ DOMAIN payments' = DOMAIN payments \cup {r}
        /\ payments'[r] = row
        /\ \A q \in DOMAIN payments \ {r} : payments'[q] = payments[q]
    <2> HIDE DEF row
    <2> QED
      BY <1>3, <1>4, <1>6 DEF IsTable, Insert
  <1> QED
    BY <1>5, <1>7, GrowsUnchanged

\* The insert keeps the invariant and ends its request.
LEMMA RecordStep ==
    ASSUME PaymentInv, NEW r \in Requests, RecordFailed(r) \/ RecordSuccess(r)
    PROVE  PaymentInv'
  <1> USE DEF RecordFailed, RecordSuccess, At
  <1>1. /\ TypeOK /\ Coherent(r)
        /\ pc[r] \in Writes /\ answer[r] = "none" /\ r \notin orphans
    BY DEF PaymentInv, Coherent
  <1>2. PICK status \in {"SUCCESS", "FAILED"} :
          /\ Insertion(r, status)
          /\ \/ status = "SUCCESS" /\ pc[r] = "RecordSuccess" /\ Respond(r, "201")
             \/ status = "FAILED" /\ pc[r] = "RecordFailed" /\ Respond(r, "402")
    OBVIOUS
  <1>3. /\ Grows
        /\ UNCHANGED <<history, vehicles, violations, input, seen, orphans, held>>
        /\ IsTable(payments', Requests, PaymentRow)
        /\ DOMAIN payments' = DOMAIN payments \cup {r}
        /\ payments'[r] = [violation |-> input[r].violation,
                           amount |-> seen[r].amount, status |-> status]
        /\ \A q \in DOMAIN payments \ {r} : payments'[q] = payments[q]
    BY <1>1, <1>2, InsertionEffect
  <1>4. TypeOK'
    BY <1>1, <1>2, <1>3 DEF TypeOK, Respond
  <1>5. \A q \in Requests \ {r} : Same(q)
    BY <1>1, <1>2, <1>3 DEF TypeOK, Same, Respond
  <1>6. Coherent(r)'
    BY <1>1, <1>2, <1>3 DEF Coherent, Respond, TypeOK, Paid, Live
  <1> QED
    BY <1>3, <1>4, <1>5, <1>6, OneRequest

\* The settlement leads its request to a PAID violation.
LEMMA UpdateStatusStep ==
    ASSUME PaymentInv, NEW r \in Requests, UpdateStatus(r)
    PROVE  PaymentInv'
  <1> USE DEF UpdateStatus, At
  <1>1. /\ TypeOK /\ Coherent(r)
        /\ pc[r] = "UpdateStatus" /\ answer[r] = "none" /\ r \notin orphans
        /\ r \in DOMAIN seen /\ input[r].violation \in DOMAIN violations
        /\ r \notin DOMAIN payments
    BY DEF PaymentInv, Coherent
  <1>2. /\ Grows
        /\ IsTable(violations', ViolationIds, ViolationRow)
        /\ \A v \in DOMAIN violations' :
              violations'[v].version \in 1..Len(history'[violations'[v].code])
        /\ DOMAIN violations' = DOMAIN violations
        /\ violations'[input[r].violation].status = "PAID"
    BY <1>1, GrowsSettlement
  <1>3. /\ UNCHANGED <<history, vehicles, payments, input, seen, orphans, held>>
        /\ Goto(r, "RecordSuccess")
    BY DEF Settlement
  <1>4. TypeOK'
    BY <1>1, <1>2, <1>3 DEF TypeOK, Goto
  <1>5. \A q \in Requests \ {r} : Same(q)
    BY <1>1, <1>3 DEF TypeOK, Same, Goto
  <1>6. Coherent(r)'
    BY <1>1, <1>2, <1>3, KnowsOn
       DEF Coherent, Knows, Goto, TypeOK, Paid, Grows, Live
  <1> QED
    BY <1>2, <1>3, <1>4, <1>5, <1>6, OneRequest

\* A failed statement ends its request; a write may live on.
LEMMA StatementFailsStep ==
    ASSUME PaymentInv, NEW r \in Requests, StatementFails(r)
    PROVE  PaymentInv'
  <1> USE DEF StatementFails, tables
  <1>1. TypeOK /\ Coherent(r) /\ Live(r) /\ r \notin orphans
    BY DEF PaymentInv, Coherent, Live
  <1>2. Grows
    BY GrowsUnchanged
  <1>3. TypeOK'
    BY <1>1 DEF TypeOK, Respond
  <1>4. \A q \in Requests \ {r} : Same(q)
    BY <1>1 DEF TypeOK, Same, Respond
  <1>5. Coherent(r)'
    BY <1>1 DEF Coherent, Respond, TypeOK, Paid, Live
  <1> QED
    BY <1>2, <1>3, <1>4, <1>5, OneRequest

\* A crash does the same to every request at once.
LEMMA CrashStep ==
    ASSUME PaymentInv, Crash
    PROVE  PaymentInv'
  <1> USE DEF Crash, tables
  <1>1. TypeOK
    BY DEF PaymentInv
  <1>2. TypeOK'
    BY <1>1 DEF TypeOK, Live
  <1>3. ASSUME NEW q \in Requests PROVE Coherent(q)'
    <2>1. Coherent(q)
      BY DEF PaymentInv
    <2>2. /\ answer'[q] = IF Live(q) THEN "lost" ELSE answer[q]
          /\ q \in orphans' => q \in orphans \/ (Live(q) /\ pc[q] \in Writes)
          /\ UNCHANGED <<tables, input, seen, pc, held>>
      OBVIOUS
    <2> QED
      BY <2>1, <2>2 DEF Coherent, Live, Paid
  <1> QED
    BY <1>2, <1>3 DEF PaymentInv

\* An orphan writes what its request would have written.
LEMMA OrphanRunsStep ==
    ASSUME PaymentInv, NEW r \in Requests, OrphanRuns(r)
    PROVE  PaymentInv'
  <1> USE DEF OrphanRuns, handler
  <1>1. /\ TypeOK /\ Coherent(r) /\ r \in orphans
        /\ pc[r] \in Writes /\ answer[r] \in {"500", "lost"}
        /\ r \in DOMAIN seen /\ input[r].violation \in DOMAIN violations
        /\ r \notin DOMAIN payments
    BY DEF PaymentInv, Coherent
  <1>2. CASE pc[r] = "UpdateStatus" /\ Settlement(r)
    <2>1. /\ Grows
          /\ IsTable(violations', ViolationIds, ViolationRow)
          /\ \A v \in DOMAIN violations' :
                violations'[v].version \in 1..Len(history'[violations'[v].code])
          /\ DOMAIN violations' = DOMAIN violations
          /\ violations'[input[r].violation].status = "PAID"
      BY <1>1, <1>2, GrowsSettlement
    <2>2. /\ UNCHANGED <<history, vehicles, payments, input, seen, pc, answer, held>>
          /\ orphans' = orphans \ {r}
      BY <1>2 DEF Settlement
    <2>3. TypeOK'
      BY <1>1, <2>1, <2>2 DEF TypeOK
    <2>4. \A q \in Requests \ {r} : Same(q)
      BY <2>2 DEF Same
    <2>5. Coherent(r)'
      BY <1>1, <1>2, <2>1, <2>2 DEF Coherent, Paid, Grows, Live
    <2> QED
      BY <2>1, <2>2, <2>3, <2>4, <2>5, OneRequest
  <1>3. CASE \E status \in {"SUCCESS", "FAILED"} :
                /\ Insertion(r, status)
                /\ \/ status = "SUCCESS" /\ pc[r] = "RecordSuccess"
                   \/ status = "FAILED" /\ pc[r] = "RecordFailed"
    <2>1. PICK status \in {"SUCCESS", "FAILED"} :
                /\ Insertion(r, status)
                /\ \/ status = "SUCCESS" /\ pc[r] = "RecordSuccess"
                   \/ status = "FAILED" /\ pc[r] = "RecordFailed"
      BY <1>3
    <2>2. /\ Grows
          /\ UNCHANGED <<history, vehicles, violations, input, seen, pc, answer, held>>
          /\ orphans' = orphans \ {r}
          /\ IsTable(payments', Requests, PaymentRow)
          /\ DOMAIN payments' = DOMAIN payments \cup {r}
          /\ payments'[r] = [violation |-> input[r].violation,
                             amount |-> seen[r].amount, status |-> status]
          /\ \A q \in DOMAIN payments \ {r} : payments'[q] = payments[q]
      BY <1>1, <2>1, InsertionEffect
    <2>3. TypeOK'
      BY <1>1, <2>2 DEF TypeOK
    <2>4. \A q \in Requests \ {r} : Same(q)
      BY <2>2 DEF Same
    <2>5. Coherent(r)'
      BY <1>1, <2>1, <2>2 DEF Coherent, Paid, Live
    <2> QED
      BY <2>2, <2>3, <2>4, <2>5, OneRequest
  <1> QED
    BY <1>2, <1>3

\* An orphan that is dropped writes nothing.
LEMMA OrphanDiesStep ==
    ASSUME PaymentInv, NEW r \in Requests, OrphanDies(r)
    PROVE  PaymentInv'
  <1> USE DEF OrphanDies, handler, tables
  <1>1. TypeOK' /\ \A q \in Requests : Same(q)
    BY DEF PaymentInv, TypeOK, Same
  <1> QED
    BY <1>1, GrowsUnchanged, NoVehicle

\* The other services keep the invariant: they let the tables grow; a
\* request remembers the plates its caller registers, and needs none that
\* is removed.
LEMMA EnvironmentStep ==
    ASSUME PaymentInv, Environment
    PROVE  PaymentInv'
  <1>1. TypeOK
    BY DEF PaymentInv
  <1>2. CASE \E c \in Codes, a \in Amounts : PublishRule(c, a)
    <2>1. Grows /\ TypeOK'
      BY <1>1, <1>2, GrowsPublish
    <2>2. UNCHANGED vehicles /\ \A q \in Requests : Same(q)
      BY <1>2 DEF PublishRule, handler, Same
    <2> QED
      BY <2>1, <2>2, NoVehicle
  <1>3. CASE \E v \in ViolationIds, p \in Plates, c \in Codes, k \in 1..MaxVersion :
                ReportViolation(v, p, c, k)
    <2>1. Grows /\ TypeOK'
      BY <1>1, <1>3, GrowsReport
    <2>2. UNCHANGED vehicles /\ \A q \in Requests : Same(q)
      BY <1>3 DEF ReportViolation, handler, Same
    <2> QED
      BY <2>1, <2>2, NoVehicle
  <1>4. CASE \E p \in Plates : RemoveVehicle(p)
    <2>1. PICK p \in Plates : RemoveVehicle(p)
      BY <1>4
    <2>2. /\ UNCHANGED <<history, violations, payments, handler, orphans, held>>
          /\ IsTable(vehicles', Plates, Members)
          /\ DOMAIN vehicles' \subseteq DOMAIN vehicles
          /\ \A k \in DOMAIN vehicles' : vehicles'[k] = vehicles[k]
      BY <1>1, <2>1 DEF RemoveVehicle, Registry!Remove, Registry!Delete, TypeOK,
                        IsTable
    <2>3. TypeOK' /\ \A q \in Requests : Same(q)
      BY <1>1, <2>2 DEF TypeOK, handler, Same
    <2>4. ASSUME NEW q \in Requests PROVE Knows(q)'
      BY <2>2 DEF PaymentInv, Coherent, Knows, Live, PlatesOf, handler
    <2> QED
      BY <2>2, <2>3, <2>4, GrowsUnchanged, NoRequest
  <1>5. CASE \E p \in Plates, u \in Members : RegisterVehicle(p, u)
    <2>1. PICK p \in Plates, u \in Members : RegisterVehicle(p, u)
      BY <1>5
    <2>2. /\ UNCHANGED <<history, violations, payments, handler, orphans>>
          /\ IsTable(vehicles', Plates, Members)
          /\ DOMAIN vehicles' = DOMAIN vehicles \cup {p}
          /\ vehicles'[p] = u
          /\ \A k \in DOMAIN vehicles : vehicles'[k] = vehicles[k]
      BY <1>1, <2>1 DEF RegisterVehicle, Registry!Register, Registry!Insert,
                        TypeOK, IsTable
    <2>3. held' = [r \in Requests |-> IF Live(r) /\ input[r].user = u
                                      THEN held[r] \cup {p} ELSE held[r]]
      BY <2>1 DEF RegisterVehicle
    <2>4. held' \in [Requests -> SUBSET Plates]
      BY <1>1, <2>3 DEF TypeOK
    <2>5. TypeOK' /\ \A q \in Requests : Same(q)
      BY <1>1, <2>2, <2>3, <2>4 DEF TypeOK, handler, Same
    <2>6. ASSUME NEW q \in Requests PROVE Knows(q)'
      BY <2>2, <2>3 DEF PaymentInv, Coherent, Knows, Live, PlatesOf, handler
    <2> QED
      BY <2>2, <2>5, <2>6, GrowsUnchanged, NoRequest
  <1> QED
    BY <1>2, <1>3, <1>4, <1>5 DEF Environment

-----------------------------------------------------------------------------

\* It holds in the initial state.
LEMMA InitPayment == Init => PaymentInv
  BY DEF Init, Rules!Init, PaymentInv, TypeOK, IsTable, Coherent, Live

\* Every step keeps it.
LEMMA NextPayment == PaymentInv /\ [Next]_vars => PaymentInv'
  <1> SUFFICES ASSUME PaymentInv, [Next]_vars PROVE PaymentInv'
    OBVIOUS
  <1>1. CASE UNCHANGED vars
    <2>1. TypeOK' /\ \A q \in Requests : Same(q)
      BY <1>1 DEF vars, tables, handler, PaymentInv, TypeOK, Same
    <2> QED
      BY <1>1, <2>1, GrowsUnchanged, NoVehicle DEF vars, tables
  <1>2. CASE Next
    BY <1>2, ReceiveStep, GetViolationStep, GetVehicleStep, RecordStep,
       UpdateStatusStep, StatementFailsStep, CrashStep, OrphanRunsStep,
       OrphanDiesStep, EnvironmentStep DEF Next, Step, Orphan
  <1> QED
    BY <1>1, <1>2

\* PaymentInv holds in every reachable state, for any sets of requests,
\* users, violations, codes and fines (PaymentService.Pay).
THEOREM InvariantHolds == Spec => []PaymentInv
  BY InitPayment, NextPayment, PTL DEF Spec

\* Type correctness: the tables keep their row types whatever the handlers,
\* the orphaned statements and the other services do.
THEOREM TypeCorrect == Spec => []TypeOK
  <1>1. PaymentInv => TypeOK
    BY DEF PaymentInv
  <1> QED
    BY <1>1, InvariantHolds, PTL

\* A violation with a SUCCESS payment is PAID.
THEOREM ChargesAreSettled == Spec => []ChargedImpliesPaid
  <1>1. PaymentInv => ChargedImpliesPaid
    BY DEF PaymentInv, TypeOK, IsTable, Coherent, ChargedImpliesPaid, Charges,
           PaymentsFor
  <1> QED
    BY <1>1, InvariantHolds, PTL

\* A payment carries the fine of the rule version its violation cites.
THEOREM FinesAreRight == Spec => []ChargedTheCitedFine
  <1>1. PaymentInv => ChargedTheCitedFine
    <2> SUFFICES ASSUME PaymentInv, NEW p \in DOMAIN payments
                 PROVE  /\ payments[p].violation \in DOMAIN violations
                        /\ payments[p].amount =
                             FineOf(violations[payments[p].violation], history)
      BY DEF ChargedTheCitedFine
    <2>1. p \in Requests /\ Coherent(p)
      BY DEF PaymentInv, TypeOK, IsTable
    <2> QED
      BY <2>1 DEF Coherent
  <1> QED
    BY <1>1, InvariantHolds, PTL

\* Every payment is on a plate the payer had in the course of the request
\* (payment.go:104-117).
THEOREM PayersHeld == Spec => []PayersHeldTheVehicle
  <1>1. PaymentInv => PayersHeldTheVehicle
    <2> SUFFICES ASSUME PaymentInv, NEW p \in DOMAIN payments
                 PROVE  violations[payments[p].violation].plate \in held[p]
      BY DEF PayersHeldTheVehicle
    <2>1. p \in Requests /\ Coherent(p)
      BY DEF PaymentInv, TypeOK, IsTable
    <2> QED
      BY <2>1 DEF Coherent
  <1> QED
    BY <1>1, InvariantHolds, PTL

\* The status code of an answer says what the database holds.
THEOREM AnswersHold == Spec => []AnswersAreTruthful
  <1>1. PaymentInv => AnswersAreTruthful
    <2> SUFFICES ASSUME PaymentInv, NEW r \in Requests
                 PROVE  /\ answer[r] = "201" => /\ r \in Charges(input[r].violation)
                                                /\ Paid(input[r].violation)
                        /\ answer[r] = "402" => /\ r \in PaymentsFor(input[r].violation)
                                                /\ payments[r].status = "FAILED"
                        /\ answer[r] = "409" => Paid(input[r].violation)
                        /\ answer[r] \in {"403", "404", "409", "422"} =>
                              r \notin DOMAIN payments /\ r \notin orphans
      BY DEF AnswersAreTruthful
    <2>1. Coherent(r)
      BY DEF PaymentInv
    <2> QED
      BY <2>1 DEF Coherent, Charges, PaymentsFor
  <1> QED
    BY <1>1, InvariantHolds, PTL

-----------------------------------------------------------------------------
(* What a step does to the payments, and to the requests in flight.        *)

\* Only a request that is at its insert, or its orphan, inserts.
LEMMA WhoInserts ==
    ASSUME PaymentInv, [Next]_vars
    PROVE  \/ UNCHANGED payments
           \/ \E r \in Requests, status \in {"SUCCESS", "FAILED"} :
                 /\ Insertion(r, status)
                 /\ pc[r] = IF status = "SUCCESS" THEN "RecordSuccess"
                                                  ELSE "RecordFailed"
                 /\ At(r, pc[r]) \/ r \in orphans
  <1>1. CASE UNCHANGED vars
    BY <1>1 DEF vars, tables
  <1>2. CASE \E r \in Requests : RecordFailed(r) \/ RecordSuccess(r)
    BY <1>2 DEF RecordFailed, RecordSuccess, At
  <1>3. CASE \E r \in Requests : OrphanRuns(r)
    BY <1>3 DEF OrphanRuns, Settlement
  <1>4. CASE \/ \E r \in Requests, u \in Members \cup Officers,
                   v \in ViolationIds, card \in Cards : Receive(r, u, v, card)
             \/ \E r \in Requests : \/ GetViolation(r) \/ GetVehicle(r)
                                    \/ UpdateStatus(r) \/ StatementFails(r)
                                    \/ OrphanDies(r)
             \/ Crash \/ Environment
    BY <1>4 DEF Receive, GetViolation, GetVehicle, UpdateStatus, Settlement,
         StatementFails, OrphanDies, Crash, Environment, PublishRule,
         ReportViolation, RegisterVehicle, RemoveVehicle, tables
  <1> QED
    BY <1>1, <1>2, <1>3, <1>4 DEF Next, Step, Orphan

\* A request in flight after a step was in flight before it, or has just
\* read its violation.
LEMMA WhoIsInFlight ==
    ASSUME PaymentInv, [Next]_vars, NEW q \in Requests,
           q \in DOMAIN seen', Live(q)' \/ q \in orphans'
    PROVE  /\ q \in DOMAIN input /\ input'[q] = input[q]
           /\ Live(q) \/ q \in orphans
           /\ \/ q \in DOMAIN seen /\ seen'[q] = seen[q]
              \/ LET v == input[q].violation IN
                 /\ q \notin DOMAIN seen
                 /\ v \in DOMAIN violations
                 /\ seen'[q] = GetViolationByID(violations, history, v)
  <1>1. TypeOK /\ Coherent(q)
    BY DEF PaymentInv
  <1>2. CASE UNCHANGED vars
    BY <1>1, <1>2 DEF vars, handler, Live, Coherent
  <1>3. ASSUME NEW r \in Requests, NEW u \in Members \cup Officers,
               NEW v \in ViolationIds, NEW card \in Cards, Receive(r, u, v, card)
        PROVE  q # r /\ Same(q) /\ UNCHANGED <<seen, orphans>>
    BY <1>1, <1>3 DEF Receive, Same, Insert, TypeOK, Coherent, tables
  <1>4. ASSUME NEW r \in Requests, GetViolation(r)
        PROVE  /\ UNCHANGED <<input, orphans>>
               /\ Live(q)' => Live(q)
               /\ \/ q \in DOMAIN seen /\ seen'[q] = seen[q]
                  \/ LET v == input[q].violation IN
                     /\ q \notin DOMAIN seen
                     /\ v \in DOMAIN violations
                     /\ seen'[q] = GetViolationByID(violations, history, v)
    BY <1>1, <1>4 DEF GetViolation, At, Goto, Respond, Insert, Live, TypeOK,
                      Coherent
  <1>5. ASSUME NEW r \in Requests, \/ GetVehicle(r) \/ RecordFailed(r)
                                   \/ UpdateStatus(r) \/ RecordSuccess(r)
                                   \/ StatementFails(r) \/ OrphanRuns(r)
                                   \/ OrphanDies(r)
        PROVE  /\ UNCHANGED <<input, seen>>
               /\ Live(q)' => Live(q)
               /\ q \in orphans' => q \in orphans \/ Live(q)
    BY <1>1, <1>5 DEF GetVehicle, RecordFailed, UpdateStatus, RecordSuccess,
         StatementFails, OrphanRuns, OrphanDies, At, Goto, Respond, Live,
         TypeOK, handler
  <1>6. CASE Crash
    BY <1>1, <1>6 DEF Crash, Live, TypeOK, Coherent
  <1>7. CASE Environment
    BY <1>1, <1>7 DEF Environment, PublishRule, ReportViolation,
         RegisterVehicle, RemoveVehicle, handler, Live, Coherent
  <1>8. q \in DOMAIN seen => q \in DOMAIN input
    BY <1>1 DEF Coherent
  <1>9. Live(q) \/ q \in orphans => q \in DOMAIN input
    BY <1>1 DEF Coherent, Live
  <1> QED
    BY <1>1, <1>2, <1>3, <1>4, <1>5, <1>6, <1>7, <1>8, <1>9
       DEF Next, Step, Orphan, Same, Live

\* Once a violation is PAID, no request comes to be in flight on it.
THEOREM WindowCloses == Spec => ChargeWindowCloses
  <1> DEFINE Closes == \A v \in ViolationIds :
                          Paid(v) => InFlight(v)' \subseteq InFlight(v)
  <1>1. PaymentInv /\ PaymentInv' /\ [Next]_vars => [Closes]_vars
    <2> SUFFICES ASSUME PaymentInv, PaymentInv', [Next]_vars,
                        NEW v \in ViolationIds, Paid(v),
                        NEW q \in InFlight(v)'
                 PROVE  q \in InFlight(v)
      OBVIOUS
    <2>1. /\ q \in DOMAIN seen' /\ input'[q].violation = v
          /\ seen'[q].status = "PENDING" /\ (Live(q)' \/ q \in orphans')
      BY DEF InFlight
    <2>2. q \in Requests
      BY <2>1 DEF PaymentInv, TypeOK, IsTable
    <2>3. GetViolationByID(violations, history, v).status = "PAID"
      BY DEF GetViolationByID, Paid
    <2> QED
      BY <2>1, <2>2, <2>3, WhoIsInFlight DEF InFlight
  <1> QED
    BY <1>1, InvariantHolds, PTL DEF Spec, ChargeWindowCloses

\* Payments stay as they are, and only requests in flight add to them.
THEOREM LedgerIsFinal == Spec => LedgerFreezes
  <1> DEFINE Frozen ==
        \A v \in ViolationIds :
           /\ \A p \in PaymentsFor(v) :
                 p \in PaymentsFor(v)' /\ payments'[p] = payments[p]
           /\ PaymentsFor(v)' \subseteq PaymentsFor(v) \cup InFlight(v)
  <1>1. PaymentInv /\ [Next]_vars => [Frozen]_vars
    <2> SUFFICES ASSUME PaymentInv, [Next]_vars PROVE Frozen
      OBVIOUS
    <2>1. CASE UNCHANGED payments
      BY <2>1 DEF PaymentsFor
    <2>2. ASSUME NEW r \in Requests, NEW status \in {"SUCCESS", "FAILED"},
                 Insertion(r, status),
                 pc[r] = IF status = "SUCCESS" THEN "RecordSuccess"
                                               ELSE "RecordFailed",
                 At(r, pc[r]) \/ r \in orphans
          PROVE  Frozen
      <3>1. r \in InFlight(input[r].violation) /\ r \notin DOMAIN payments
        BY <2>2 DEF PaymentInv, Coherent, InFlight, Live, At
      <3>2. pc[r] \in Writes
        BY <2>2
      <3>3. /\ DOMAIN payments' = DOMAIN payments \cup {r}
            /\ payments'[r] = [violation |-> input[r].violation,
                               amount |-> seen[r].amount, status |-> status]
            /\ \A q \in DOMAIN payments \ {r} : payments'[q] = payments[q]
        BY <2>2, <3>2, InsertionEffect
      <3>4. payments'[r].violation = input[r].violation
        BY <3>3
      <3> QED
        BY <3>1, <3>3, <3>4 DEF PaymentsFor
    <2> QED
      BY <2>1, <2>2, WhoInserts
  <1> QED
    BY <1>1, InvariantHolds, PTL DEF Spec, LedgerFreezes

-----------------------------------------------------------------------------
(* Why a violation is PAID.                                                *)

\* A charge is never withdrawn.
LEMMA ChargesStay ==
    ASSUME PaymentInv, [Next]_vars, NEW v, NEW p \in Charges(v)
    PROVE  p \in Charges(v)'
  <1>1. CASE UNCHANGED payments
    BY <1>1 DEF Charges, PaymentsFor
  <1>2. ASSUME NEW r \in Requests, NEW status \in {"SUCCESS", "FAILED"},
               Insertion(r, status), pc[r] \in Writes,
               At(r, pc[r]) \/ r \in orphans
        PROVE  p \in Charges(v)'
    <2>1. r \notin DOMAIN payments
      BY <1>2 DEF PaymentInv, Coherent, Live, At
    <2>2. /\ DOMAIN payments' = DOMAIN payments \cup {r}
          /\ \A q \in DOMAIN payments \ {r} : payments'[q] = payments[q]
      BY <1>2, InsertionEffect
    <2> QED
      BY <2>1, <2>2 DEF Charges, PaymentsFor
  <1> QED
    BY <1>1, <1>2, WhoInserts

\* A violation becomes PAID by the settlement of a request that read it.
LEMMA WhoSettles ==
    ASSUME PaymentInv, [Next]_vars, NEW v, ~Paid(v), Paid(v)'
    PROVE  \E r \in DOMAIN seen : /\ input[r].violation = v
                                  /\ UpdateStatus(r) \/ OrphanRuns(r)
                                  /\ pc[r] = "UpdateStatus"
                                  /\ UNCHANGED <<input, seen>>
  <1>1. ASSUME UNCHANGED violations PROVE FALSE
    BY <1>1 DEF Paid
  <1>2. ASSUME Environment PROVE FALSE
    <2>1. PICK w \in ViolationIds, p \in Plates, c \in Codes, k \in 1..MaxVersion :
              ReportViolation(w, p, c, k)
      BY <1>1, <1>2 DEF Environment, PublishRule, RegisterVehicle, RemoveVehicle
    <2> QED
      BY <2>1 DEF ReportViolation, CreateViolation, Insert, Paid
  <1>3. ASSUME NEW r \in Requests, UpdateStatus(r) \/ OrphanRuns(r)
        PROVE  \E q \in DOMAIN seen : /\ input[q].violation = v
                                      /\ UpdateStatus(q) \/ OrphanRuns(q)
                                      /\ pc[q] = "UpdateStatus"
                                      /\ UNCHANGED <<input, seen>>
    <2>1. pc[r] = "UpdateStatus" /\ Settlement(r) /\ UNCHANGED <<input, seen>>
      BY <1>1, <1>3 DEF UpdateStatus, OrphanRuns, At, Insertion, handler
    <2>2. r \in DOMAIN seen
      BY <2>1 DEF PaymentInv, Coherent
    <2>3. input[r].violation = v
      BY <2>1 DEF Settlement, UpdateViolationStatus, Paid
    <2> QED
      BY <1>3, <2>1, <2>2, <2>3
  <1> QED
    BY <1>1, <1>2, <1>3 DEF Next, Step, Orphan, Receive, GetViolation,
       GetVehicle, RecordFailed, RecordSuccess, Insertion, StatementFails,
       OrphanDies, Crash, tables, vars

\* A request cut off after a settlement stays so, unless it charges.
LEMMA CutOffStays ==
    ASSUME PaymentInv, [Next]_vars, NEW r \in DOMAIN seen, CutOff(r),
           NEW w, input[r].violation = w
    PROVE  \/ /\ r \in DOMAIN seen' /\ input'[r] = input[r]
              /\ CutOff(r)'
           \/ r \in Charges(w)'
  <1>1. r \in Requests /\ TypeOK /\ Coherent(r)
    BY DEF PaymentInv, TypeOK, IsTable
  <1>2. CASE UNCHANGED vars
    BY <1>2 DEF vars, handler, CutOff
  <1>3. ASSUME NEW q \in Requests, NEW u \in Members \cup Officers,
               NEW v \in ViolationIds, NEW card \in Cards, Receive(q, u, v, card)
        PROVE  r # q /\ r \in DOMAIN seen' /\ input'[r] = input[r] /\ CutOff(r)'
    BY <1>1, <1>3 DEF Receive, Insert, CutOff, Coherent, TypeOK
  <1>4. ASSUME NEW q \in Requests, GetViolation(q)
        PROVE  r # q /\ r \in DOMAIN seen' /\ input'[r] = input[r] /\ CutOff(r)'
    BY <1>1, <1>4 DEF GetViolation, At, Insert, CutOff, Goto, Respond, TypeOK
  <1>5. ASSUME NEW q \in Requests,
               \/ GetVehicle(q) \/ UpdateStatus(q) \/ RecordFailed(q)
               \/ StatementFails(q) \/ OrphanDies(q)
        PROVE  r \in DOMAIN seen' /\ input'[r] = input[r] /\ CutOff(r)'
    BY <1>1, <1>5 DEF GetVehicle, UpdateStatus, RecordFailed, StatementFails,
         OrphanDies, At, CutOff, Goto, Respond, TypeOK, handler
  <1>6. ASSUME NEW q \in Requests, RecordSuccess(q)
        PROVE  \/ r \in DOMAIN seen' /\ input'[r] = input[r] /\ CutOff(r)'
               \/ r \in Charges(w)'
    BY <1>1, <1>6 DEF RecordSuccess, At, CutOff, Respond, TypeOK,
         Insertion, CreatePayment, Insert, Charges, PaymentsFor
  <1>7. ASSUME NEW q \in Requests, OrphanRuns(q)
        PROVE  r \in DOMAIN seen' /\ input'[r] = input[r] /\ CutOff(r)'
    BY <1>7 DEF OrphanRuns, handler, CutOff
  <1>8. CASE Crash
    BY <1>1, <1>8 DEF Crash, CutOff, TypeOK
  <1>9. CASE Environment
    BY <1>9 DEF Environment, PublishRule, ReportViolation, RegisterVehicle,
         RemoveVehicle, handler, CutOff
  <1> QED
    BY <1>2, <1>3, <1>4, <1>5, <1>6, <1>7, <1>8, <1>9 DEF Next, Step, Orphan

\* A PAID violation has a charge, or a request cut off before its charge.
THEOREM PaidHasAReason == Spec => []PaidIsExplained
  <1>1. Init => PaidIsExplained
    BY DEF Init, PaidIsExplained, Paid
  <1>2. PaymentInv /\ PaidIsExplained /\ [Next]_vars => PaidIsExplained'
    <2> SUFFICES ASSUME PaymentInv, PaidIsExplained, [Next]_vars,
                        NEW v \in ViolationIds, Paid(v)'
                 PROVE  \/ Charges(v)' # {}
                        \/ \E r \in DOMAIN seen' :
                              input'[r].violation = v /\ CutOff(r)'
      BY DEF PaidIsExplained
    <2>1. CASE Paid(v)
      <3>1. CASE Charges(v) # {}
        BY <3>1, ChargesStay
      <3>2. CASE \E r \in DOMAIN seen : input[r].violation = v /\ CutOff(r)
        <4>1. PICK r \in DOMAIN seen : input[r].violation = v /\ CutOff(r)
          BY <3>2
        <4>2. \/ r \in DOMAIN seen' /\ input'[r] = input[r] /\ CutOff(r)'
              \/ r \in Charges(v)'
          BY <4>1, CutOffStays
        <4> QED
          BY <4>1, <4>2
      <3> QED
        BY <2>1, <3>1, <3>2 DEF PaidIsExplained
    <2>2. CASE ~Paid(v)
      <3>1. PICK r \in DOMAIN seen : /\ input[r].violation = v
                                     /\ UpdateStatus(r) \/ OrphanRuns(r)
                                     /\ pc[r] = "UpdateStatus"
                                     /\ UNCHANGED <<input, seen>>
        BY <2>2, WhoSettles
      <3>2. r \in Requests /\ TypeOK /\ Coherent(r)
        BY DEF PaymentInv, TypeOK, IsTable
      <3>3. CutOff(r)'
        BY <3>1, <3>2 DEF CutOff, UpdateStatus, OrphanRuns, At, Goto, handler,
                          TypeOK, Coherent
      <3> QED
        BY <3>1, <3>3
    <2> QED
      BY <2>1, <2>2
  <1> QED
    BY <1>1, <1>2, InvariantHolds, PTL DEF Spec

-----------------------------------------------------------------------------
(* The service implements FineLedger.                                      *)

SamePaid    == \A v \in ViolationIds : Paid(v)' <=> Paid(v)
SameCharges == \A v \in ViolationIds : Charges(v)' = Charges(v)

\* What the refinement mapping of Ledger is made of.
LEMMA InFlightTyped ==
    ASSUME PaymentInv
    PROVE  \A v \in ViolationIds :
              /\ InFlight(v) \in SUBSET Requests
              /\ Charges(v) \in SUBSET Requests
              /\ \A r \in InFlight(v) :
                    /\ input[r].violation = v
                    /\ \A w \in ViolationIds : r \notin Charges(w)
  BY DEF PaymentInv, TypeOK, IsTable, InFlight, Charges, PaymentsFor,
         Coherent

\* Steps that only end requests, or change nothing the ledger sees.
LEMMA WithdrawStep ==
    ASSUME PaymentInv', SamePaid, SameCharges,
           \A v \in ViolationIds : InFlight(v)' \subseteq InFlight(v)
    PROVE  Ledger!Withdraw
  <1>1. \A v \in ViolationIds : InFlight(v)' \in SUBSET Requests
    BY DEF PaymentInv, TypeOK, IsTable, InFlight
  <1> QED
    BY <1>1 DEF Ledger!Withdraw, SamePaid, SameCharges

\* Reading an unpaid violation is an admission; any other a stutter.
LEMMA FetchRefines ==
    ASSUME PaymentInv, PaymentInv', NEW r \in Requests, GetViolation(r)
    PROVE  Ledger!Next
  <1> DEFINE id == input[r].violation
  <1>1. /\ TypeOK /\ Coherent(r) /\ pc[r] = "GetViolation"
        /\ r \in DOMAIN input /\ r \notin DOMAIN seen
        /\ r \notin orphans /\ r \notin DOMAIN payments /\ id \in ViolationIds
        /\ UNCHANGED <<tables, input, orphans>>
    BY DEF PaymentInv, Coherent, TypeOK, IsTable, InputRow, GetViolation, At
  <1>2. SamePaid /\ SameCharges
    BY <1>1 DEF SamePaid, SameCharges, Paid, Charges, PaymentsFor, tables
  <1>3. CASE id \notin DOMAIN violations
    <2>1. UNCHANGED seen /\ Respond(r, "404")
      BY <1>3 DEF GetViolation
    <2>2. \A v \in ViolationIds : InFlight(v)' \subseteq InFlight(v)
      BY <1>1, <2>1 DEF InFlight, Live, Respond, TypeOK
    <2> QED
      BY <1>2, <2>2, WithdrawStep DEF Ledger!Next
  <1>4. CASE id \in DOMAIN violations
    <2>1. /\ seen' = Insert(seen, r, GetViolationByID(violations, history, id))
          /\ Goto(r, "GetVehicle")
      BY <1>4 DEF GetViolation
    <2>2. \A q \in Requests : Live(q)' <=> Live(q)
      BY <1>1, <2>1 DEF Goto, Live, TypeOK, GetViolation, At
    <2>3. /\ DOMAIN seen' = DOMAIN seen \cup {r}
          /\ seen'[r].status = violations[id].status
          /\ \A q \in DOMAIN seen : seen'[q] = seen[q]
      BY <1>1, <2>1 DEF Insert, GetViolationByID
    <2>4. violations[id].status \in {"PAID", "PENDING"}
      BY <1>1, <1>4 DEF TypeOK, IsTable, ViolationRow
    <2>5. DOMAIN seen \subseteq Requests
      BY <1>1 DEF TypeOK, IsTable
    <2>6. CASE violations[id].status = "PAID"
      <3>1. \A v \in ViolationIds : InFlight(v)' \subseteq InFlight(v)
        BY <1>1, <2>2, <2>3, <2>5, <2>6 DEF InFlight
      <3> QED
        BY <1>2, <3>1, WithdrawStep DEF Ledger!Next
    <2>7. CASE violations[id].status = "PENDING"
      <3>1. \A v \in ViolationIds :
                InFlight(v)' = IF v = id THEN InFlight(v) \cup {r} ELSE InFlight(v)
        BY <1>1, <2>2, <2>3, <2>5, <2>7 DEF InFlight, Live, GetViolation, At
      <3>2. ~Paid(id) /\ \A w \in ViolationIds : r \notin InFlight(w) \cup Charges(w)
        BY <1>1, <2>7 DEF Paid, InFlight, Charges, PaymentsFor
      <3>3. Ledger!Admit(id, r)
        BY <1>1, <1>2, <3>1, <3>2 DEF Ledger!Admit, SamePaid, SameCharges
      <3> QED
        BY <1>1, <3>3 DEF Ledger!Next
    <2> QED
      BY <2>4, <2>6, <2>7
  <1> QED
    BY <1>3, <1>4

\* The update of the status settles, or withdraws after a settlement.
LEMMA SettleRefines ==
    ASSUME PaymentInv, NEW r \in Requests, UpdateStatus(r)
    PROVE  Ledger!Next
  <1> DEFINE id == input[r].violation
  <1>1. /\ TypeOK /\ Coherent(r) /\ pc[r] = "UpdateStatus" /\ answer[r] = "none"
        /\ r \in DOMAIN seen /\ seen[r].status = "PENDING"
        /\ id \in ViolationIds /\ id \in DOMAIN violations
        /\ Settlement(r) /\ Goto(r, "RecordSuccess")
        /\ UNCHANGED <<payments, input, seen, orphans>>
    BY DEF PaymentInv, Coherent, TypeOK, IsTable, InputRow, UpdateStatus, At,
           Settlement
  <1>2. \A v \in ViolationIds : InFlight(v)' = InFlight(v)
    <2>1. \A q \in Requests : Live(q)' <=> Live(q)
      BY <1>1 DEF Goto, Live, TypeOK
    <2> QED
      BY <1>1, <2>1 DEF InFlight, TypeOK, IsTable
  <1>3. r \in InFlight(id)
    BY <1>1 DEF InFlight, Live
  <1>4. \A v \in ViolationIds : Paid(v)' <=> Paid(v) \/ v = id
    BY <1>1 DEF Paid, Settlement, UpdateViolationStatus, TypeOK, IsTable,
                ViolationRow
  <1>5. SameCharges
    BY <1>1 DEF SameCharges, Charges, PaymentsFor
  <1>6. Ledger!Settle(id, r)
    BY <1>1, <1>2, <1>3, <1>4, <1>5 DEF Ledger!Settle, SameCharges
  <1> QED
    BY <1>1, <1>6 DEF Ledger!Next

\* The last step of a request in flight: it leaves InFlight.
LEMMA Leaves ==
    ASSUME PaymentInv, NEW r \in Requests, UNCHANGED <<input, seen>>,
           ~Live(r)' /\ r \notin orphans',
           \A q \in Requests \ {r} : /\ Live(q)' <=> Live(q)
                                     /\ q \in orphans' <=> q \in orphans
    PROVE  \A v \in ViolationIds : InFlight(v)' = InFlight(v) \ {r}
  BY DEF InFlight, PaymentInv, TypeOK, IsTable

\* After its insert, or its orphan's write, a request is gone.
LEMMA LastStatement ==
    ASSUME PaymentInv, NEW r \in Requests,
           RecordFailed(r) \/ RecordSuccess(r) \/ OrphanRuns(r)
    PROVE  /\ \A v \in ViolationIds : InFlight(v)' = InFlight(v) \ {r}
           /\ r \in InFlight(input[r].violation)
           /\ input[r].violation \in ViolationIds
           /\ Coherent(r)
           /\ UNCHANGED <<input, seen>>
  <1>1. /\ TypeOK /\ Coherent(r) /\ pc[r] \in Writes
        /\ Live(r) \/ r \in orphans
        /\ r \in DOMAIN seen /\ r \in DOMAIN input
        /\ seen[r].status = "PENDING" /\ input[r].violation \in ViolationIds
        /\ UNCHANGED <<input, seen>>
    BY DEF PaymentInv, Coherent, TypeOK, IsTable, InputRow, RecordFailed,
           RecordSuccess, OrphanRuns, At, Live, handler
  <1>2. /\ ~Live(r)' /\ r \notin orphans'
        /\ \A q \in Requests \ {r} : /\ Live(q)' <=> Live(q)
                                     /\ q \in orphans' <=> q \in orphans
    BY <1>1 DEF RecordFailed, RecordSuccess, OrphanRuns, At, Live, Respond,
                Coherent, TypeOK, handler
  <1> QED
    BY <1>1, <1>2, Leaves DEF InFlight

\* The insert of a payment is a charge or a withdrawal.
LEMMA InsertRefines ==
    ASSUME PaymentInv, PaymentInv', NEW r \in Requests,
           RecordFailed(r) \/ RecordSuccess(r) \/ OrphanRuns(r),
           NEW status \in {"SUCCESS", "FAILED"}, Insertion(r, status),
           pc[r] = IF status = "SUCCESS" THEN "RecordSuccess" ELSE "RecordFailed"
    PROVE  Ledger!Next
  <1> DEFINE id == input[r].violation
  <1>1. /\ \A v \in ViolationIds : InFlight(v)' = InFlight(v) \ {r}
        /\ r \in InFlight(id) /\ id \in ViolationIds /\ Coherent(r)
    BY LastStatement
  <1>2. pc[r] \in Writes
    OBVIOUS
  <1>3. /\ UNCHANGED violations
        /\ DOMAIN payments' = DOMAIN payments \cup {r}
        /\ payments'[r] = [violation |-> id, amount |-> seen[r].amount,
                           status |-> status]
        /\ \A q \in DOMAIN payments \ {r} : payments'[q] = payments[q]
    BY <1>2, InsertionEffect
  <1>4. SamePaid
    BY <1>3 DEF SamePaid, Paid
  <1>5. r \notin DOMAIN payments
    BY <1>1 DEF Coherent, InFlight
  <1>6. CASE status = "FAILED"
    <2>1. SameCharges
      BY <1>3, <1>5, <1>6 DEF SameCharges, Charges, PaymentsFor
    <2> QED
      BY <1>1, <1>4, <2>1, WithdrawStep DEF Ledger!Next
  <1>7. CASE status = "SUCCESS"
    <2>1. \A v \in ViolationIds :
              Charges(v)' = IF v = id THEN Charges(v) \cup {r} ELSE Charges(v)
      BY <1>3, <1>5, <1>7 DEF Charges, PaymentsFor
    <2>2. Paid(id)
      BY <1>1, <1>7 DEF Coherent
    <2>3. \A v \in ViolationIds :
              InFlight(v)' = IF v = id THEN InFlight(v) \ {r} ELSE InFlight(v)
      <3>1. \A v \in ViolationIds : v # id => r \notin InFlight(v)
        BY InFlightTyped
      <3> QED
        BY <1>1, <3>1
    <2>4. Ledger!Charge(id, r)
      <3> HIDE DEF id
      <3> QED
        BY <1>1, <1>4, <2>1, <2>2, <2>3 DEF Ledger!Charge, SamePaid
    <2> QED
      BY <1>1, <2>4 DEF Ledger!Next
  <1> QED
    BY <1>6, <1>7

\* An orphan's update settles as its request would have.
LEMMA OrphanSettleRefines ==
    ASSUME PaymentInv, NEW r \in Requests, OrphanRuns(r), Settlement(r)
    PROVE  Ledger!Next
  <1> DEFINE id == input[r].violation
  <1>1. /\ \A v \in ViolationIds : InFlight(v)' = InFlight(v) \ {r}
        /\ r \in InFlight(id) /\ id \in ViolationIds /\ Coherent(r)
    BY LastStatement
  <1>2. id \in DOMAIN violations
    BY <1>1 DEF Coherent, InFlight
  <1>3. \A v \in ViolationIds : Paid(v)' <=> Paid(v) \/ v = id
    BY <1>2 DEF Paid, Settlement, UpdateViolationStatus, PaymentInv, TypeOK,
                IsTable, ViolationRow
  <1>4. SameCharges
    BY DEF SameCharges, Charges, PaymentsFor, Settlement
  <1>5. \A v \in ViolationIds :
            InFlight(v)' = IF v = id THEN InFlight(v) \ {r} ELSE InFlight(v)
    BY <1>1, InFlightTyped
  <1>6. Ledger!Settle(id, r)
    <2> HIDE DEF id
    <2> QED
      BY <1>1, <1>3, <1>4, <1>5 DEF Ledger!Settle, SameCharges
  <1> QED
    BY <1>1, <1>6 DEF Ledger!Next

\* The steps that neither read a violation, nor write for a request.
LEMMA OtherRefines ==
    ASSUME PaymentInv, PaymentInv', [Next]_vars, UNCHANGED payments,
           \A v \in ViolationIds : Paid(v)' <=> Paid(v),
           \A q \in DOMAIN seen' : q \in DOMAIN seen
    PROVE  Ledger!Next
  <1>1. SamePaid /\ SameCharges
    BY DEF SamePaid, SameCharges, Charges, PaymentsFor
  <1>2. \A v \in ViolationIds : InFlight(v)' \subseteq InFlight(v)
    <2> SUFFICES ASSUME NEW v \in ViolationIds, NEW q \in InFlight(v)'
                 PROVE  q \in InFlight(v)
      OBVIOUS
    <2>1. /\ q \in DOMAIN seen' /\ input'[q].violation = v
          /\ seen'[q].status = "PENDING" /\ (Live(q)' \/ q \in orphans')
      BY DEF InFlight
    <2>2. q \in Requests
      BY <2>1 DEF PaymentInv, TypeOK, IsTable
    <2> QED
      BY <2>1, <2>2, WhoIsInFlight DEF InFlight
  <1> QED
    BY <1>1, <1>2, WithdrawStep DEF Ledger!Next

\* Every step of Payment is a step of FineLedger or a stutter.
LEMMA StepRefines ==
    ASSUME PaymentInv, PaymentInv', [Next]_vars
    PROVE  Ledger!Next
  <1>1. CASE \E r \in Requests : GetViolation(r)
    BY <1>1, FetchRefines
  <1>2. CASE \E r \in Requests : UpdateStatus(r)
    BY <1>2, SettleRefines
  <1>3. CASE \E r \in Requests : RecordFailed(r) \/ RecordSuccess(r)
    <2>1. PICK r \in Requests : RecordFailed(r) \/ RecordSuccess(r)
      BY <1>3
    <2>2. \E status \in {"SUCCESS", "FAILED"} :
             /\ Insertion(r, status)
             /\ pc[r] = IF status = "SUCCESS" THEN "RecordSuccess"
                                              ELSE "RecordFailed"
      BY <2>1 DEF RecordFailed, RecordSuccess, At
    <2> QED
      BY <2>1, <2>2, InsertRefines
  <1>4. CASE \E r \in Requests : OrphanRuns(r)
    <2>1. PICK r \in Requests : OrphanRuns(r)
      BY <1>4
    <2>2. CASE Settlement(r)
      BY <2>1, <2>2, OrphanSettleRefines
    <2>3. CASE \E status \in {"SUCCESS", "FAILED"} :
                  /\ Insertion(r, status)
                  /\ pc[r] = IF status = "SUCCESS" THEN "RecordSuccess"
                                                   ELSE "RecordFailed"
      BY <2>1, <2>3, InsertRefines
    <2> QED
      BY <2>1, <2>2, <2>3 DEF OrphanRuns
  <1>5. CASE \/ UNCHANGED vars
             \/ \E r \in Requests, u \in Members \cup Officers,
                   v \in ViolationIds, card \in Cards : Receive(r, u, v, card)
             \/ \E r \in Requests : \/ GetVehicle(r) \/ StatementFails(r)
                                    \/ OrphanDies(r)
             \/ Crash \/ Environment
    <2>1. UNCHANGED payments /\ UNCHANGED seen
      BY <1>5 DEF vars, tables, handler, Receive, GetVehicle, StatementFails,
         OrphanDies, Crash, Environment, PublishRule, ReportViolation,
         RegisterVehicle, RemoveVehicle
    <2>2. \/ UNCHANGED violations
          \/ \E v \in ViolationIds, p \in Plates, c \in Codes, k \in 1..MaxVersion :
                ReportViolation(v, p, c, k)
      BY <1>5 DEF vars, tables, Receive, GetVehicle, StatementFails,
         OrphanDies, Crash, Environment, PublishRule, RegisterVehicle,
         RemoveVehicle
    <2>3. \A v \in ViolationIds : Paid(v)' <=> Paid(v)
      <3>1. CASE UNCHANGED violations
        BY <3>1 DEF Paid
      <3>2. ASSUME NEW w \in ViolationIds, NEW p \in Plates, NEW c \in Codes,
                   NEW k \in 1..MaxVersion, ReportViolation(w, p, c, k)
            PROVE  \A v \in ViolationIds : Paid(v)' <=> Paid(v)
        <4>1. /\ w \notin DOMAIN violations
              /\ DOMAIN violations' = DOMAIN violations \cup {w}
              /\ violations'[w] = [plate |-> p, code |-> c, version |-> k,
                                   status |-> "PENDING"]
              /\ \A v \in DOMAIN violations : violations'[v] = violations[v]
          BY <3>2 DEF ReportViolation, CreateViolation, Insert
        <4>2. violations'[w].status = "PENDING"
          BY <4>1
        <4> QED
          BY <4>1, <4>2 DEF Paid
      <3> QED
        BY <2>2, <3>1, <3>2
    <2> QED
      BY <2>1, <2>3, OtherRefines
  <1> QED
    BY <1>1, <1>2, <1>3, <1>4, <1>5 DEF Next, Step, Orphan

\* Payment implements FineLedger under the mapping of its instance Ledger.
THEOREM Refinement == Spec => ImplementsLedger
  <1>1. Init => Ledger!Init
    BY DEF Init, Ledger!Init, Paid, InFlight, Charges, PaymentsFor
  <1>2. PaymentInv /\ PaymentInv' /\ [Next]_vars => [Ledger!Next]_(Ledger!vars)
    BY StepRefines
  <1> QED
    BY <1>1, <1>2, InvariantHolds, PTL DEF Spec, ImplementsLedger, Ledger!Spec

-----------------------------------------------------------------------------
(* What the claims that fail do hold under.                                *)

\* At most one request may charge a violation, or has.  The requests of a
\* violation, in flight or successful, change as FineLedger lets them: one
\* more is admitted only while the violation has no charge.
Holders(v) == InFlight(v) \cup Charges(v)
OneHolder  == \A v \in ViolationIds : \A q, r \in Holders(v) : q = r

\* Who is added to the holders of a violation was admitted to it.
LEMMA NewHolders ==
    ASSUME PaymentInv, PaymentInv', [Next]_vars, NEW v \in ViolationIds,
           ~(Holders(v)' \subseteq Holders(v))
    PROVE  Charges(v)' = {} /\ Holders(v)' = InFlight(v)'
  <1>1. Ledger!Next
    BY StepRefines
  <1>2. /\ \A w \in ViolationIds : Charges(w) # {} => Paid(w)
        /\ \A w \in ViolationIds : Charges(w) \subseteq DOMAIN payments
    BY DEF PaymentInv, Coherent, Charges, PaymentsFor, TypeOK, IsTable
  <1>3. PICK w \in ViolationIds, r \in Requests : Ledger!Admit(w, r)
    BY <1>1 DEF Ledger!Next, Ledger!Settle, Ledger!Charge, Ledger!Withdraw,
                Holders
  <1>4. /\ ~Paid(w)
        /\ \A u \in ViolationIds : Charges(u)' = Charges(u)
        /\ \A u \in ViolationIds \ {w} : InFlight(u)' = InFlight(u)
    BY <1>3 DEF Ledger!Admit
  <1> QED
    BY <1>2, <1>4 DEF Holders

\* Requests that do not overlap charge a violation at most once: the check
\* of payment.go:119-121 is enough for them, whatever fails.
THEOREM AloneChargesOnce == Spec /\ []NoOverlap => []ChargedAtMostOnce
  <1>1. Init => OneHolder
    BY DEF Init, OneHolder, Holders, InFlight, Charges, PaymentsFor
  <1>2. PaymentInv /\ PaymentInv' /\ NoOverlap' /\ OneHolder /\ [Next]_vars
            => OneHolder'
    <2> SUFFICES ASSUME PaymentInv, PaymentInv', NoOverlap', OneHolder,
                        [Next]_vars, NEW v \in ViolationIds,
                        NEW q \in Holders(v)', NEW r \in Holders(v)'
                 PROVE  q = r
      BY DEF OneHolder
    <2>1. CASE Holders(v)' \subseteq Holders(v)
      BY <2>1 DEF OneHolder
    <2>2. CASE Holders(v)' = InFlight(v)'
      BY <2>2 DEF NoOverlap
    <2> QED
      BY <2>1, <2>2, NewHolders
  <1>3. PaymentInv /\ OneHolder => ChargedAtMostOnce
    <2> SUFFICES ASSUME OneHolder, NEW v \in ViolationIds
                 PROVE  Cardinality(Charges(v)) <= 1
      BY DEF ChargedAtMostOnce
    <2>1. CASE Charges(v) = {}
      BY <2>1, FS_EmptySet
    <2>2. CASE Charges(v) # {}
      <3>1. PICK q \in Charges(v) : TRUE
        BY <2>2
      <3>2. Charges(v) = {q}
        BY <3>1 DEF OneHolder, Holders
      <3> QED
        BY <3>2, FS_Singleton
    <2> QED
      BY <2>1, <2>2
  <1> QED
    BY <1>1, <1>2, <1>3, InvariantHolds, PTL DEF Spec

\* A PAID violation at rest has a charge, unless a request was cut off
\* between the status update and the insert of payment.go:152-158.
THEOREM CutOffsAside == Spec => [](NobodyCutOff => PaidMeansCharged)
  <1>1. PaymentInv /\ PaidIsExplained => (NobodyCutOff => PaidMeansCharged)
    BY DEF PaymentInv, TypeOK, IsTable, PaidIsExplained, NobodyCutOff,
           PaidMeansCharged
  <1> QED
    BY <1>1, InvariantHolds, PaidHasAReason, PTL

=============================================================================
