---------------------------- MODULE ReportsProofs ----------------------------
(***************************************************************************)
(* Proofs about Reports, for any users, plates, codes, texts and fines,    *)
(* any finite set of requests, any page size and any width of the offset.  *)
(* The inductive invariant is ReportsInv: the types, and what is true of   *)
(* each request on its own (Coherent).  As in PaymentProofs, the requests meet only in the tables: *)
(* Frame says that the way the tables move (Grows) keeps what the other    *)
(* requests know.                                                          *)
(***************************************************************************)
EXTENDS Reports, PageOffsetProofs, FiniteSetTheorems, SequenceTheorems, TLAPS

USE DEF Statements, Answers

-----------------------------------------------------------------------------
(* The tables.                                                             *)

\* The types of what a request has read and of the rows it read them from.
LEMMA RowTypes ==
    ASSUME TypeOK
    PROVE  /\ \A v \in DOMAIN violations :
                 /\ v \in Requests
                 /\ violations[v] \in ViolationRow
                 /\ violations[v].code \in Codes
                 /\ violations[v].plate \in Plates
                 /\ violations[v].status \in {"PENDING", "PAID"}
                 /\ FineOf(violations[v], history) \in Amounts
           /\ \A c \in Codes : Len(history[c]) \in Nat
           /\ \A text : Active(text) \in Nat
           /\ \A u : PlatesOf(u) \subseteq Plates
  BY DEF TypeOK, IsTable, ViolationRow, FineOf, Active, PlatesOf

\* How the tables move: violations keep what they are and stay PAID, codes
\* keep their versions.
Grows ==
    /\ \A v \in DOMAIN violations :
          /\ v \in DOMAIN violations'
          /\ violations'[v].plate = violations[v].plate
          /\ violations'[v].code = violations[v].code
          /\ violations'[v].version = violations[v].version
          /\ violations[v].status = "PAID" => violations'[v].status = "PAID"
          /\ FineOf(violations'[v], history') = FineOf(violations[v], history)
    /\ \A c \in Codes : Len(history[c]) <= Len(history'[c])

\* Steps that read, or that change only vehicles, are growth.
LEMMA GrowsUnchanged ==
    ASSUME TypeOK, UNCHANGED <<history, violations>>
    PROVE  Grows
  BY RowTypes DEF Grows

\* Publishing a version is growth: no earlier version changes.
LEMMA GrowsPublish ==
    ASSUME TypeOK, NEW c \in Codes, NEW a \in Amounts, PublishRule(c, a)
    PROVE  Grows /\ TypeOK'
  <1>1. /\ history \in [Codes -> Seq(Amounts)]
        /\ history' = [history EXCEPT ![c] = Append(history[c], a)]
        /\ UNCHANGED <<vehicles, violations, handler, orphans, past>>
    BY DEF PublishRule, Rules!Publish, TypeOK
  <1>2. history' \in [Codes -> Seq(Amounts)]
    BY <1>1
  <1>3. \A d \in Codes :
            /\ Len(history[d]) \in Nat
            /\ Len(history[d]) <= Len(history'[d])
            /\ Len(history'[d]) \in Nat
            /\ \A k \in 1..Len(history[d]) : history'[d][k] = history[d][k]
    BY <1>1
  <1>4. \A v \in DOMAIN violations :
            /\ violations[v].code \in Codes
            /\ violations[v].version \in 1..Len(history[violations[v].code])
    BY DEF TypeOK, IsTable, ViolationRow
  <1>5. Grows
    BY <1>1, <1>3, <1>4 DEF Grows, FineOf
  <1>6. \A v \in DOMAIN violations' :
            violations'[v].version \in 1..Len(history'[violations'[v].code])
    BY <1>1, <1>3, <1>4
  <1> QED
    BY <1>1, <1>2, <1>5, <1>6 DEF TypeOK, handler, past

\* A payment is growth: it only turns a status to PAID.
LEMMA GrowsPay ==
    ASSUME TypeOK, NEW v \in Requests, PayViolation(v)
    PROVE  Grows /\ TypeOK' /\ DOMAIN violations' = DOMAIN violations
  <1>1. /\ IsTable(violations, Requests, ViolationRow)
        /\ v \in DOMAIN violations
        /\ violations' = UpdateViolationStatus(violations, v, "PAID")
    BY DEF TypeOK, PayViolation
  <1>2. /\ IsTable(violations', Requests, ViolationRow)
        /\ DOMAIN violations' = DOMAIN violations
        /\ \A w \in DOMAIN violations :
              /\ violations'[w].plate = violations[w].plate
              /\ violations'[w].code = violations[w].code
              /\ violations'[w].version = violations[w].version
              /\ violations[w].status = "PAID" =>
                    violations'[w].status = "PAID"
    BY <1>1 DEF IsTable, UpdateViolationStatus, ViolationRow
  <1>3. UNCHANGED <<history, vehicles, handler, orphans, past>>
    BY DEF PayViolation
  <1>4. Grows
    BY <1>2, <1>3, RowTypes DEF Grows, FineOf
  <1> QED
    BY <1>2, <1>3, <1>4 DEF TypeOK, handler, past

-----------------------------------------------------------------------------
(* The rows a listing is about.                                            *)

\* They are finitely many.
LEMMA MatchingFinite ==
    ASSUME TypeOK, NEW r \in Requests
    PROVE  /\ IsFiniteSet(Matching(r))
           /\ Cardinality(Matching(r)) \in Nat
  <1>1. Matching(r) \subseteq Requests
    BY RowTypes DEF Matching
  <1> QED
    BY <1>1, SizeAssumption, FS_Subset, FS_CardinalityType

\* The same for any subset, the page among them.
LEMMA PageFinite ==
    ASSUME NEW S, IsFiniteSet(S), NEW page \in SUBSET S
    PROVE  /\ IsFiniteSet(page) /\ Cardinality(page) \in Nat
           /\ Cardinality(page) <= Cardinality(S)
  BY FS_Subset, FS_CardinalityType

\* What each kind of request asks for.
LEMMA InputTypes ==
    ASSUME TypeOK, NEW r \in DOMAIN input
    PROVE  /\ r \in Requests
           /\ input[r].op \in {"Report", "Get", "List"}
           /\ input[r].op = "Get" => input[r].id \in Requests
           /\ input[r].op = "List" => /\ input[r].page \in Pages
                                      /\ Offset(r) \in Int
  <1>1. r \in Requests /\ input[r] \in InputRow
    BY DEF TypeOK, IsTable
  <1>2. /\ input[r].op \in {"Report", "Get", "List"}
        /\ input[r].op = "Get" => input[r].id \in Requests
        /\ input[r].op = "List" => input[r].page \in Pages
    BY <1>1 DEF InputRow
  <1>3. ASSUME NEW n \in Int PROVE (n - 1) * PageSize \in Int
    BY SizeAssumption
  <1>4. \A n \in Pages : n \in Int
    BY SizeAssumption
  <1>5. ASSUME NEW n \in Pages PROVE OffsetOf(n, PageSize) \in Int
    <2>1. (n - 1) * PageSize \in Int
      BY <1>3, <1>4
    <2>2. Narrow((n - 1) * PageSize) \in -Half .. Half - 1
      BY <2>1, NarrowInRange
    <2> QED
      BY <2>2, WidthAssumption DEF OffsetOf
  <1> QED
    BY <1>1, <1>2, <1>5 DEF Offset

\* The offset of a page that fits is the number of rows before it.
LEMMA OffsetFits ==
    ASSUME TypeOK, NEW r \in DOMAIN input, input[r].op = "List",
           RowsBefore(r) < Half
    PROVE  Offset(r) = RowsBefore(r)
  <1>1. input[r].page \in Nat \ {0} /\ PageSize \in Nat
    BY InputTypes, SizeAssumption
  <1>2. ASSUME NEW n \in Nat \ {0}, NEW k \in Nat PROVE (n - 1) * k \in Nat
    BY SMT
  <1>3. RowsBefore(r) \in Nat
    BY <1>1, <1>2 DEF RowsBefore
  <1> QED
    BY <1>3, NarrowExact DEF Offset, OffsetOf, RowsBefore

\* The last row of a page that is not empty is one of the n rows.
LEMMA PageWithin ==
    ASSUME TypeOK, NEW r \in DOMAIN input, input[r].op = "List",
           NEW n \in Nat, PageLength(r, n) # 0
    PROVE  Offset(r) + PageLength(r, n) <= n
  <1>1. Offset(r) \in Int
    BY InputTypes
  <1>2. n > Offset(r) /\ PageLength(r, n) = Min({n - Offset(r), PageSize})
    BY <1>1 DEF PageLength
  <1>3. \A a, b \in Int : Min({a, b}) \in Int /\ Min({a, b}) <= a
    <2> TAKE a, b \in Int
    <2>1. \E x \in {a, b} : \A y \in {a, b} : x <= y
      OBVIOUS
    <2> QED
      BY <2>1 DEF Min
  <1>4. PageLength(r, n) \in Int /\ PageLength(r, n) <= n - Offset(r)
    BY <1>1, <1>2, <1>3, SizeAssumption
  <1> QED
    BY <1>1, <1>4

-----------------------------------------------------------------------------
(* What a step leaves alone of request q.                                  *)

Same(q) ==
    /\ pc'[q] = pc[q] /\ answer'[q] = answer[q]
    /\ q \in DOMAIN input' <=> q \in DOMAIN input
    /\ q \in DOMAIN input => input'[q] = input[q]
    /\ cited'[q] = cited[q] /\ plates'[q] = plates[q]
    /\ shown'[q] = shown[q] /\ total'[q] = total[q]
    /\ q \in DOMAIN violations' <=> q \in DOMAIN violations
    /\ q \in orphans' => q \in orphans
    /\ since'[q] = since[q] /\ held[q] \subseteq held'[q]

Knows(q) == Live(q) => PlatesOf(User(q)) \subseteq held[q]

\* Vehicles that do not move stay known.
LEMMA StillKnows ==
    ASSUME NEW q \in Requests, Coherent(q), Same(q), UNCHANGED vehicles
    PROVE  Knows(q)'
  BY DEF Coherent, Same, Knows, Live, PlatesOf, User

\* What a Report knows survives growth of the tables.
LEMMA FrameReporting ==
    ASSUME TypeOK, TypeOK', NEW q \in Requests, Coherent(q), Grows, Same(q)
    PROVE  Reporting(q)'
  <1>1. pc[q] # "idle" => q \in DOMAIN input /\ input'[q] = input[q]
    BY DEF Coherent, Same
  <1>2. \A text : Active(text) \in Nat /\ Active(text)' \in Nat
                  /\ Active(text) <= Active(text)'
    BY RowTypes DEF Active, Grows, TypeOK
  <1>3. cited[q] \in Nat /\ since[q] \in Nat
    BY DEF TypeOK
  <1>4. pc[q] \in {"CreateViolation", "ReadBack"} =>
           cited[q] \in 1..Len(history'[input[q].code])
    BY <1>3, RowTypes DEF Coherent, Reporting, Grows, TypeOK
  <1>5. q \in DOMAIN violations' =>
           /\ violations'[q].code = input'[q].code
           /\ violations'[q].plate = Normal[input'[q].plate]
           /\ violations'[q].version = cited'[q]
    BY <1>1 DEF Coherent, Reporting, Grows, Same
  <1>6. pc[q] \in {"ResolveRule", "CreateViolation", "ReadBack"} =>
           since[q] <= Active(input[q].code)'
    <2>1. ASSUME NEW text, since[q] <= Active(text)
          PROVE  since[q] <= Active(text)'
      BY <1>2, <1>3, <2>1
    <2> QED
      BY <1>1, <2>1 DEF Coherent, Reporting
  <1> QED
    BY <1>1, <1>4, <1>5, <1>6 DEF Coherent, Reporting, Same, At, Active

\* What a request has read survives growth of the tables.
LEMMA FrameReading ==
    ASSUME NEW q \in Requests, Coherent(q), Grows, Same(q)
    PROVE  Reading(q)'
  <1>1. pc[q] # "idle" => q \in DOMAIN input /\ input'[q] = input[q]
    BY DEF Coherent, Same
  <1>2. pc[q] = "GetVehicle" => input[q].id \in DOMAIN shown[q]
    BY DEF Coherent, Reading
  <1> QED
    BY <1>1, <1>2 DEF Coherent, Reading, Grows, Same, User

\* A page stays within the matching rows when they become more.
LEMMA FrameListing ==
    ASSUME TypeOK, TypeOK', NEW q \in Requests, Coherent(q), Grows, Same(q)
    PROVE  Listing(q)'
  <1>1. pc[q] # "idle" => q \in DOMAIN input /\ input'[q] = input[q]
    BY DEF Coherent, Same
  <1>2. pc[q] = "Count" =>
           /\ Matching(q) \subseteq Matching(q)'
           /\ Offset(q)' = Offset(q)
    BY <1>1 DEF Matching, Grows, Same, User, Offset
  <1>3. pc[q] = "Count" =>
           /\ Cardinality(Matching(q)) \in Nat
           /\ Cardinality(Matching(q))' \in Nat
           /\ Cardinality(Matching(q)) <= Cardinality(Matching(q))'
    <2>1. Matching(q)' \subseteq Requests
      BY DEF Matching, TypeOK, IsTable
    <2>2. IsFiniteSet(Matching(q)') /\ Cardinality(Matching(q)') \in Nat
      BY <2>1, SizeAssumption, FS_Subset, FS_CardinalityType
    <2> QED
      BY <1>2, <2>2, PageFinite, MatchingFinite
  <1>4. pc[q] = "Count" =>
           /\ Cardinality(DOMAIN shown[q]) \in Nat
           /\ Offset(q) \in Int
    <2>1. pc[q] = "Count" => /\ q \in DOMAIN input /\ input[q].op = "List"
                            /\ DOMAIN shown[q] \subseteq Matching(q)
      BY DEF Coherent, Listing
    <2> QED
      BY <2>1, InputTypes, MatchingFinite, PageFinite
  <1>5. pc[q] = "Count" /\ DOMAIN shown[q] # {} =>
           /\ Offset(q) + Cardinality(DOMAIN shown[q])
                 <= Cardinality(Matching(q))'
           /\ answer[q] = "200" =>
                 Offset(q) + Cardinality(DOMAIN shown[q]) <= total[q]
    BY <1>3, <1>4 DEF Coherent, Listing
  <1> QED
    BY <1>1, <1>2, <1>5 DEF Coherent, Listing, Same

\* The tables may move under a request that the step does not touch.
LEMMA Frame ==
    ASSUME TypeOK, TypeOK', NEW q \in Requests, Coherent(q), Grows, Same(q),
           Knows(q)'
    PROVE  Coherent(q)'
  <1>1. Reporting(q)' /\ Reading(q)' /\ Listing(q)'
    BY FrameReporting, FrameReading, FrameListing
  <1> QED
    BY <1>1 DEF Coherent, Same, Knows

\* A step of request r: it is enough to look at r.
LEMMA OneRequest ==
    ASSUME ReportsInv, NEW r \in Requests, Grows, TypeOK', Coherent(r)',
           UNCHANGED vehicles, \A q \in Requests \ {r} : Same(q)
    PROVE  ReportsInv'
  <1>1. ASSUME NEW q \in Requests \ {r} PROVE Coherent(q)'
    BY <1>1, Frame, StillKnows DEF ReportsInv
  <1> QED
    BY <1>1 DEF ReportsInv

\* A step of no request.
LEMMA NoRequest ==
    ASSUME ReportsInv, Grows, TypeOK',
           \A q \in Requests : Same(q) /\ Knows(q)'
    PROVE  ReportsInv'
  BY Frame DEF ReportsInv

\* A step of r that reads, or ends: the tables and what was asked stay.
Quiet(r) ==
    /\ UNCHANGED <<tables, input, past>>
    /\ orphans' \subseteq orphans \cup {r}
    /\ \A q \in Requests \ {r} :
          /\ pc'[q] = pc[q] /\ answer'[q] = answer[q]
          /\ cited'[q] = cited[q] /\ plates'[q] = plates[q]
          /\ shown'[q] = shown[q] /\ total'[q] = total[q]

\* A step of a running request that writes no table.
LEMMA QuietStep ==
    ASSUME ReportsInv, NEW r \in Requests, Quiet(r), TypeOK', r \in DOMAIN input,
           pc[r] # "idle", pc'[r] # "idle", Live(r),
           Reporting(r)', Reading(r)', Listing(r)'
    PROVE  ReportsInv'
  <1>1. Grows /\ UNCHANGED vehicles
    BY GrowsUnchanged DEF Quiet, tables, ReportsInv
  <1>2. \A q \in Requests \ {r} : Same(q)
    BY DEF Quiet, Same, tables, past
  <1>3. Knows(r)'
    BY DEF ReportsInv, Coherent, Knows, Live, PlatesOf, User, Quiet, tables,
           past
  <1>4. Coherent(r)'
    BY <1>3 DEF Coherent, Knows, Quiet
  <1> QED
    BY <1>1, <1>2, <1>4, OneRequest

\* What a request that is not at a Report's statement keeps of Reporting.
LEMMA NotReporting ==
    ASSUME ReportsInv, NEW r \in Requests, UNCHANGED violations,
           pc[r] \in Statements \ {"CreateViolation", "ReadBack"},
           pc'[r] \in Statements \ {"ResolveRule", "CreateViolation", "ReadBack"},
           answer'[r] # "201", r \notin orphans'
    PROVE  Reporting(r)'
  BY DEF ReportsInv, Coherent, Reporting

-----------------------------------------------------------------------------
(* The arrival of a request.                                               *)

\* An arrival, given what its first statement needs.
LEMMA ArriveStep ==
    ASSUME ReportsInv, NEW r \in Requests, NEW row \in InputRow,
           NEW step \in Statements, NEW refusal \in {"none", "403", "422"},
           Arrive(r, row, step, refusal),
           since' \in [Requests -> Nat],
           \A q \in Requests \ {r} : since'[q] = since[q],
           due' \in [Requests -> SUBSET Requests],
           \/ /\ row.op = "Report" /\ step = "ResolveRule"
              /\ since'[r] <= Active(row.code)
              /\ refusal = "none" => Normal[row.plate] \in Plates
           \/ /\ row.op = "Get" /\ step = "GetDetail"
           \/ /\ row.op = "List" /\ step \in {"ListVehicles", "ListPage"}
    PROVE  ReportsInv'
  <1>1. /\ TypeOK /\ Coherent(r) /\ pc[r] = "idle" /\ r \notin DOMAIN input
        /\ UNCHANGED <<tables, cited, plates, shown, total, orphans>>
    BY DEF ReportsInv, Coherent, Arrive
  <1>2. /\ DOMAIN shown[r] = {} /\ plates[r] = {} /\ r \notin orphans
        /\ r \notin DOMAIN violations
    BY <1>1 DEF Coherent, Reporting
  <1>3. Grows /\ UNCHANGED vehicles
    BY <1>1, GrowsUnchanged DEF tables
  <1>4. /\ DOMAIN input' = DOMAIN input \cup {r}
        /\ input'[r] = row
        /\ \A q \in DOMAIN input : input'[q] = input[q]
        /\ IsTable(input', Requests, InputRow)
    <2> HIDE DEF InputRow
    <2> QED
      BY <1>1 DEF Arrive, Insert, TypeOK, IsTable
  <1>5. /\ pc' = [pc EXCEPT ![r] = step]
        /\ answer' = [answer EXCEPT ![r] = refusal]
        /\ held' = [held EXCEPT ![r] = PlatesOf(row.user)]
    BY DEF Arrive
  <1>6. TypeOK'
    <2>1. PlatesOf(row.user) \subseteq Plates
      BY <1>1, RowTypes
    <2> QED
      BY <1>1, <1>4, <1>5, <2>1 DEF TypeOK, tables
  <1>7. \A q \in Requests \ {r} : Same(q)
    BY <1>1, <1>4, <1>5 DEF Same, TypeOK, tables
  <1>8. pc'[r] = step /\ answer'[r] = refusal /\ held'[r] = PlatesOf(row.user)
    BY <1>1, <1>5 DEF TypeOK
  <1>9. Reporting(r)'
    <2>1. since'[r] <= Active(row.code) => since'[r] <= Active(input[r].code)'
      BY <1>1, <1>4 DEF Active, tables
    <2> QED
      BY <1>1, <1>2, <1>4, <1>8, <2>1 DEF Reporting, tables
  <1>10. Reading(r)'
    BY <1>1, <1>2, <1>4, <1>8 DEF Reading
  <1>11. Listing(r)'
    BY <1>1, <1>2, <1>4, <1>8 DEF Listing
  <1>12. Knows(r)'
    BY <1>1, <1>4, <1>8 DEF Knows, PlatesOf, User, tables
  <1>13. Coherent(r)'
    BY <1>4, <1>8, <1>9, <1>10, <1>11, <1>12 DEF Coherent, Knows
  <1> QED
    BY <1>3, <1>6, <1>7, <1>13, OneRequest

\* The three kinds of request arrive as ArriveStep asks.
LEMMA ReceiveStep ==
    ASSUME ReportsInv, NEW r \in Requests, NEW u \in Members \cup Officers,
           Receive(r, u)
    PROVE  ReportsInv'
  <1>1. TypeOK
    BY DEF ReportsInv
  <1>2. CASE \E c \in CodeTexts, p \in PlateTexts : ReceiveReport(r, u, c, p)
    <2>1. PICK c \in CodeTexts, p \in PlateTexts : ReceiveReport(r, u, c, p)
      BY <1>2
    <2> DEFINE row == [op |-> "Report", user |-> u, code |-> c, plate |-> p]
               refusal == IF u \notin Officers THEN "403"
                          ELSE IF Normal[p] \notin Plates THEN "422"
                          ELSE "none"
    <2>2. row \in InputRow /\ row.op = "Report" /\ row.code = c /\ row.plate = p
      BY DEF InputRow
    <2>3. /\ refusal \in {"none", "403", "422"}
          /\ refusal = "none" => Normal[p] \in Plates
      OBVIOUS
    <2>4. Arrive(r, row, "ResolveRule", refusal)
      BY <2>1 DEF ReceiveReport
    <2>5. Active(c) \in Nat /\ since' = [since EXCEPT ![r] = Active(c)]
      BY <1>1, <2>1, RowTypes DEF ReceiveReport
    <2>6. /\ since' \in [Requests -> Nat]
          /\ since'[r] <= Active(c)
          /\ \A q \in Requests \ {r} : since'[q] = since[q]
      BY <1>1, <2>5 DEF TypeOK
    <2>7. due' \in [Requests -> SUBSET Requests]
      BY <1>1, <2>1 DEF ReceiveReport, TypeOK
    <2> HIDE DEF row, refusal
    <2> QED
      BY <2>2, <2>3, <2>4, <2>6, <2>7, ArriveStep
  <1>3. CASE \E v \in Requests : ReceiveGet(r, u, v)
    <2>1. PICK v \in Requests : ReceiveGet(r, u, v)
      BY <1>3
    <2> DEFINE row == [op |-> "Get", user |-> u, id |-> v]
    <2>2. row \in InputRow /\ row.op = "Get"
      BY DEF InputRow
    <2>3. Arrive(r, row, "GetDetail", "none") /\ UNCHANGED <<since, due>>
      BY <2>1 DEF ReceiveGet
    <2> HIDE DEF row
    <2> QED
      BY <1>1, <2>2, <2>3, ArriveStep DEF TypeOK
  <1>4. CASE \E n \in Pages : ReceiveList(r, u, n)
    <2>1. PICK n \in Pages : ReceiveList(r, u, n)
      BY <1>4
    <2> DEFINE row == [op |-> "List", user |-> u, page |-> n]
    <2>2. row \in InputRow /\ row.op = "List"
      BY DEF InputRow
    <2>3. /\ \E step \in {"ListPage", "ListVehicles"} :
                Arrive(r, row, step, "none")
          /\ since' = since
      BY <2>1 DEF ReceiveList
    <2>4. due' \in [Requests -> SUBSET Requests]
      BY <1>1, <2>1, RowTypes DEF ReceiveList, TypeOK
    <2> HIDE DEF row
    <2> QED
      BY <1>1, <2>2, <2>3, <2>4, ArriveStep DEF TypeOK
  <1> QED
    BY <1>2, <1>3, <1>4 DEF Receive

-----------------------------------------------------------------------------
(* The steps of Report.                                                    *)

\* The resolved version is the last one, no older than the request.
LEMMA ResolveRuleStep ==
    ASSUME ReportsInv, NEW r \in Requests, ResolveRule(r)
    PROVE  ReportsInv'
  <1>1. /\ TypeOK /\ Coherent(r) /\ r \in DOMAIN input
        /\ pc[r] = "ResolveRule" /\ answer[r] = "none"
        /\ Active(input[r].code) \in Nat /\ r \notin orphans
    BY RowTypes DEF ReportsInv, Coherent, Reporting, ResolveRule, At
  <1>2. UNCHANGED <<tables, input, plates, shown, total, orphans, past>>
    BY DEF ResolveRule
  <1>3. \/ /\ answer' = [answer EXCEPT ![r] = "422"]
           /\ UNCHANGED <<pc, cited>>
        \/ /\ Active(input[r].code) # 0
           /\ cited' = [cited EXCEPT ![r] = Active(input[r].code)]
           /\ pc' = [pc EXCEPT ![r] = "CreateViolation"]
           /\ UNCHANGED answer
    BY DEF ResolveRule, Goto, Respond
  <1>4. TypeOK'
    <2>1. /\ pc' \in [Requests -> Statements \cup {"idle"}]
          /\ answer' \in [Requests -> Answers \cup {"none", "lost"}]
      BY <1>1, <1>3 DEF TypeOK
    <2>2. cited' \in [Requests -> Nat]
      <3>1. ASSUME NEW k \in Nat PROVE [cited EXCEPT ![r] = k] \in [Requests -> Nat]
        BY <1>1 DEF TypeOK
      <3>2. cited \in [Requests -> Nat]
        BY <1>1 DEF TypeOK
      <3> QED
        BY <1>1, <1>3, <3>1, <3>2
    <2>3. orphans' \subseteq {q \in Requests : pc'[q] = "CreateViolation"}
      BY <1>1, <1>2, <1>3 DEF TypeOK
    <2>4. UNCHANGED <<history, vehicles, violations, input, plates, shown,
                      total, orphans, since, held, due>>
      BY <1>2 DEF tables, past
    <2> QED
      BY <1>1, <2>1, <2>2, <2>3, <2>4 DEF TypeOK
  <1>5. Quiet(r)
    BY <1>1, <1>2, <1>3 DEF Quiet, TypeOK
  <1>6. \/ answer'[r] = "422" /\ pc'[r] = pc[r]
        \/ /\ Active(input[r].code) # 0
           /\ cited'[r] = Active(input[r].code)
           /\ pc'[r] = "CreateViolation" /\ answer'[r] = answer[r]
    BY <1>1, <1>3 DEF TypeOK
  <1>7. Active(input[r].code)' = Active(input[r].code)
    BY <1>2 DEF Active, tables
  <1>8. Active(input[r].code) # 0 =>
           /\ input[r].code \in Codes
           /\ Active(input[r].code) = Len(history[input[r].code])
    BY DEF Active
  <1>9. Reporting(r)'
    BY <1>1, <1>2, <1>6, <1>7, <1>8
       DEF Coherent, Reporting, TypeOK, tables, past, At
  <1>10. Reading(r)' /\ Listing(r)'
    BY <1>1, <1>2, <1>6 DEF Coherent, Reading, Listing, tables, past
  <1> QED
    BY <1>1, <1>4, <1>5, <1>6, <1>9, <1>10, QuietStep DEF Live

\* Violations cite versions of their code.
Citing == \A v \in DOMAIN violations :
             violations[v].version \in 1..Len(history[violations[v].code])

\* A new violation that cites a version of its code is growth.
LEMMA FilingEffect ==
    ASSUME TypeOK, NEW r \in Requests, r \notin DOMAIN violations,
           NEW plate \in Plates, NEW code \in Codes,
           NEW k \in 1..Len(history[code]),
           violations' = CreateViolation(violations, r, plate, code, k),
           UNCHANGED history
    PROVE  /\ Grows
           /\ IsTable(violations', Requests, ViolationRow)
           /\ Citing'
           /\ DOMAIN violations' = DOMAIN violations \cup {r}
           /\ violations'[r].code = code
           /\ violations'[r].plate = plate
           /\ violations'[r].version = k
           /\ violations'[r].status = "PENDING"
  <1> DEFINE row == [plate |-> plate, code |-> code, version |-> k,
                     status |-> "PENDING"]
  <1>1. /\ row \in ViolationRow
        /\ row.code = code /\ row.version = k /\ row.plate = plate
        /\ row.status = "PENDING"
    BY RowTypes DEF ViolationRow
  <1>2. violations' = Insert(violations, r, row)
    BY DEF CreateViolation
  <1>3. IsTable(violations, Requests, ViolationRow)
    BY DEF TypeOK
  <1> HIDE DEF row
  <1>4. /\ IsTable(violations', Requests, ViolationRow)
        /\ DOMAIN violations' = DOMAIN violations \cup {r}
        /\ violations'[r] = row
        /\ \A v \in DOMAIN violations : violations'[v] = violations[v]
    BY <1>1, <1>2, <1>3 DEF IsTable, Insert
  <1>5. Grows
    BY <1>4, RowTypes DEF Grows
  <1>6. Citing'
    BY <1>1, <1>4 DEF TypeOK, Citing
  <1> QED
    BY <1>1, <1>4, <1>5, <1>6

\* The insert, by a handler or by an orphan.
LEMMA InsertionEffect ==
    ASSUME ReportsInv, NEW r \in Requests, pc[r] = "CreateViolation",
           r \notin DOMAIN violations, Insertion(r)
    PROVE  /\ Grows
           /\ UNCHANGED <<history, vehicles>>
           /\ IsTable(violations', Requests, ViolationRow)
           /\ \A v \in DOMAIN violations' :
                 violations'[v].version \in 1..Len(history'[violations'[v].code])
           /\ DOMAIN violations' = DOMAIN violations \cup {r}
           /\ violations'[r].code = input[r].code
           /\ violations'[r].plate = Normal[input[r].plate]
           /\ violations'[r].version = cited[r]
  <1>1. /\ TypeOK
        /\ input[r].code \in Codes /\ Normal[input[r].plate] \in Plates
        /\ cited[r] \in 1..Len(history[input[r].code])
    BY DEF ReportsInv, Coherent, Reporting, TypeOK
  <1>2. /\ violations' = CreateViolation(violations, r, Normal[input[r].plate],
                                         input[r].code, cited[r])
        /\ UNCHANGED history /\ UNCHANGED vehicles
    BY DEF Insertion
  <1>3. /\ Grows
        /\ IsTable(violations', Requests, ViolationRow)
        /\ Citing'
        /\ DOMAIN violations' = DOMAIN violations \cup {r}
        /\ violations'[r].code = input[r].code
        /\ violations'[r].plate = Normal[input[r].plate]
        /\ violations'[r].version = cited[r]
    BY <1>1, <1>2, FilingEffect DEF CreateViolation, Insert
  <1> QED
    BY <1>2, <1>3 DEF Citing

\* After the insert request r, at pc'[r], is still coherent.
LEMMA AfterInsertion ==
    ASSUME ReportsInv, TypeOK', NEW r \in Requests, pc[r] = "CreateViolation",
           r \notin DOMAIN violations, Insertion(r),
           UNCHANGED <<input, cited, plates, shown, total, past>>,
           \/ /\ pc'[r] = "ReadBack"
              /\ answer[r] = "none" /\ answer'[r] = "none"
           \/ /\ pc'[r] = "CreateViolation"
              /\ answer'[r] \in {"500", "lost"},
           r \notin orphans'
    PROVE  Coherent(r)'
  <1>1. /\ Grows /\ UNCHANGED <<history, vehicles>>
        /\ DOMAIN violations' = DOMAIN violations \cup {r}
        /\ violations'[r].code = input[r].code
        /\ violations'[r].plate = Normal[input[r].plate]
        /\ violations'[r].version = cited[r]
    BY InsertionEffect
  <1>2. TypeOK /\ Coherent(r) /\ r \in DOMAIN input
    BY DEF ReportsInv, Coherent
  <1>3. Reporting(r)'
    BY <1>1, <1>2 DEF Coherent, Reporting, Active, At, past
  <1>4. Reading(r)' /\ Listing(r)'
    BY <1>1, <1>2 DEF Coherent, Reading, Listing, Grows, past
  <1>5. Live(r)' => PlatesOf(User(r))' \subseteq held'[r]
    <2>1. Live(r)' => Live(r)
      BY <1>2 DEF Coherent, Reporting, Live, ReportsInv, TypeOK
    <2> QED
      BY <1>1, <1>2, <2>1 DEF Coherent, PlatesOf, User, past
  <1> QED
    BY <1>2, <1>3, <1>4, <1>5 DEF Coherent

\* A handler's insert keeps the invariant.
LEMMA CreateViolationStep ==
    ASSUME ReportsInv, NEW r \in Requests, CreateViolationOf(r)
    PROVE  ReportsInv'
  <1>1. /\ TypeOK /\ Coherent(r)
        /\ pc[r] = "CreateViolation" /\ answer[r] = "none"
        /\ r \notin DOMAIN violations /\ r \notin orphans
        /\ Insertion(r)
    BY DEF ReportsInv, Coherent, Reporting, CreateViolationOf, At
  <1>2. /\ pc' = [pc EXCEPT ![r] = "ReadBack"]
        /\ UNCHANGED <<answer, input, cited, plates, shown, total, orphans,
                       past>>
    BY DEF CreateViolationOf, Goto
  <1>3. /\ Grows /\ UNCHANGED <<history, vehicles>>
        /\ IsTable(violations', Requests, ViolationRow)
        /\ \A v \in DOMAIN violations' :
              violations'[v].version \in 1..Len(history'[violations'[v].code])
        /\ DOMAIN violations' = DOMAIN violations \cup {r}
    BY <1>1, InsertionEffect
  <1>4. TypeOK'
    BY <1>1, <1>2, <1>3 DEF TypeOK, past
  <1>5. \A q \in Requests \ {r} : Same(q)
    BY <1>1, <1>2, <1>3 DEF Same, TypeOK, past
  <1>6. pc'[r] = "ReadBack" /\ answer'[r] = "none"
    BY <1>1, <1>2 DEF TypeOK
  <1>7. Coherent(r)'
    BY <1>1, <1>2, <1>4, <1>6, AfterInsertion
  <1> QED
    BY <1>3, <1>4, <1>5, <1>7, OneRequest

\* What a request reads of violations is a detail of them.
LEMMA DetailsTyped ==
    ASSUME TypeOK, NEW ids \in SUBSET DOMAIN violations
    PROVE  /\ IsTable(Details(ids), Requests, DetailRow)
           /\ DOMAIN Details(ids) = ids
           /\ \A v \in ids :
                 /\ Details(ids)[v].plate = violations[v].plate
                 /\ Details(ids)[v].status = violations[v].status
                 /\ Details(ids)[v].amount = FineOf(violations[v], history)
  <1>1. ASSUME NEW v \in ids
        PROVE  GetViolationByID(violations, history, v) \in DetailRow
    BY RowTypes DEF GetViolationByID, DetailRow
  <1>2. DOMAIN Details(ids) = ids /\ ids \subseteq Requests
    BY RowTypes DEF Details
  <1>3. \A v \in ids :
           Details(ids)[v] = GetViolationByID(violations, history, v)
    BY DEF Details
  <1>4. Details(ids) \in [ids -> DetailRow]
    BY <1>1 DEF Details
  <1> QED
    BY <1>2, <1>3, <1>4 DEF IsTable, GetViolationByID

\* The violation read back is the request's own.
LEMMA ReadBackStep ==
    ASSUME ReportsInv, NEW r \in Requests, ReadBack(r)
    PROVE  ReportsInv'
  <1>1. /\ TypeOK /\ Coherent(r) /\ r \in DOMAIN input
        /\ pc[r] = "ReadBack" /\ answer[r] = "none"
        /\ r \in DOMAIN violations
    BY DEF ReportsInv, Coherent, Reporting, ReadBack, At
  <1>2. /\ shown' = [shown EXCEPT ![r] = Details({r})]
        /\ answer' = [answer EXCEPT ![r] = "201"]
        /\ UNCHANGED <<tables, input, cited, plates, total, pc, orphans, past>>
    BY DEF ReadBack, Respond
  <1>3. shown'[r] = Details({r}) /\ answer'[r] = "201" /\ pc'[r] = pc[r]
    BY <1>1, <1>2 DEF TypeOK
  <1>4. /\ IsTable(shown'[r], Requests, DetailRow)
        /\ DOMAIN shown'[r] = {r}
        /\ shown'[r][r].plate = violations[r].plate
        /\ shown'[r][r].status = violations[r].status
        /\ shown'[r][r].amount = FineOf(violations[r], history)
    BY <1>1, <1>3, DetailsTyped
  <1>5. TypeOK'
    BY <1>1, <1>2, <1>4 DEF TypeOK, tables, past
  <1>6. Quiet(r)
    BY <1>1, <1>2 DEF Quiet, TypeOK
  <1>7. Reporting(r)'
    BY <1>1, <1>2, <1>3, <1>4
       DEF Coherent, Reporting, Active, At, tables, past
  <1>8. Reading(r)' /\ Listing(r)'
    BY <1>1, <1>2, <1>3, <1>4
       DEF Coherent, Reading, Listing, tables, past
  <1> QED
    BY <1>1, <1>3, <1>5, <1>6, <1>7, <1>8, QuietStep DEF Live

\* The four steps in one leave what they leave one by one.
LEMMA ReportAloneStep ==
    ASSUME ReportsInv, NEW r \in Requests, NEW u \in Members \cup Officers,
           NEW c \in CodeTexts, NEW p \in PlateTexts, ReportAlone(r, u, c, p)
    PROVE  ReportsInv'
  <1> DEFINE row == [op |-> "Report", user |-> u, code |-> c, plate |-> p]
             k   == Active(c)
  <1>1. /\ TypeOK /\ Coherent(r) /\ pc[r] = "idle" /\ r \notin DOMAIN input
        /\ plates[r] = {} /\ r \notin orphans /\ r \notin DOMAIN violations
        /\ UNCHANGED history
        /\ UNCHANGED <<vehicles, plates, total, orphans, due>>
    BY DEF ReportsInv, Coherent, Reporting, ReportAlone
  <1>2. /\ c \in Codes /\ Normal[p] \in Plates
        /\ k \in Nat /\ k \in 1..Len(history[c]) /\ k = Len(history[c])
    BY <1>1, RowTypes DEF ReportAlone, Active
  <1>3. row \in InputRow /\ row.op = "Report" /\ row.code = c /\ row.plate = p
        /\ row.user = u
    BY DEF InputRow
  <1>4. /\ input' = Insert(input, r, row)
        /\ since' = [since EXCEPT ![r] = k] /\ cited' = [cited EXCEPT ![r] = k]
        /\ violations' = CreateViolation(violations, r, Normal[p], c, k)
        /\ shown' = [shown EXCEPT ![r] = Details({r})']
        /\ pc' = [pc EXCEPT ![r] = "ReadBack"]
        /\ answer' = [answer EXCEPT ![r] = "201"]
        /\ held' = [held EXCEPT ![r] = PlatesOf(u)]
    BY <1>1 DEF ReportAlone, Details
  <1> HIDE DEF row, k
  <1>5. /\ Grows
        /\ IsTable(violations', Requests, ViolationRow)
        /\ Citing'
        /\ DOMAIN violations' = DOMAIN violations \cup {r}
        /\ violations'[r].code = c
        /\ violations'[r].plate = Normal[p]
        /\ violations'[r].version = k
        /\ violations'[r].status = "PENDING"
    <2>1. ASSUME NEW plate \in Plates, NEW n \in 1..Len(history[c]),
                 plate = Normal[p], n = k
          PROVE  /\ Grows
                 /\ IsTable(violations', Requests, ViolationRow)
                 /\ Citing'
                 /\ DOMAIN violations' = DOMAIN violations \cup {r}
                 /\ violations'[r].code = c
                 /\ violations'[r].plate = plate
                 /\ violations'[r].version = n
                 /\ violations'[r].status = "PENDING"
      <3>1. violations' = CreateViolation(violations, r, plate, c, n)
        BY <1>4, <2>1
      <3> QED
        BY <1>1, <1>2, <3>1, FilingEffect
    <2> QED
      BY <1>2, <2>1
  <1>6. /\ DOMAIN input' = DOMAIN input \cup {r} /\ input'[r] = row
        /\ \A q \in DOMAIN input : input'[q] = input[q]
        /\ IsTable(input', Requests, InputRow)
    <2> HIDE DEF InputRow
    <2> QED
      BY <1>1, <1>3, <1>4 DEF Insert, TypeOK, IsTable
  <1>7. /\ IsTable(Details({r})', Requests, DetailRow)
        /\ DOMAIN Details({r})' = {r}
        /\ Details({r})'[r].plate = violations'[r].plate
        /\ Details({r})'[r].status = violations'[r].status
        /\ Details({r})'[r].amount = FineOf(violations'[r], history')
    <2>1. /\ violations'[r] \in ViolationRow /\ r \in DOMAIN violations'
          /\ FineOf(violations'[r], history') \in Amounts
      BY <1>1, <1>2, <1>5 DEF TypeOK, IsTable, FineOf, Citing
    <2>2. GetViolationByID(violations', history', r) \in DetailRow
      BY <2>1 DEF GetViolationByID, DetailRow, ViolationRow
    <2> QED
      BY <2>2 DEF Details, GetViolationByID, IsTable
  <1>8. /\ pc'[r] = "ReadBack" /\ answer'[r] = "201" /\ cited'[r] = k
        /\ since'[r] = k /\ shown'[r] = Details({r})'
    BY <1>1, <1>4 DEF TypeOK
  <1>9. TypeOK'
    <2>1. /\ DOMAIN shown' = Requests
          /\ \A q \in Requests : IsTable(shown'[q], Requests, DetailRow)
      BY <1>1, <1>4, <1>7 DEF TypeOK
    <2>2. held' \in [Requests -> SUBSET Plates]
      BY <1>1, <1>4, RowTypes DEF TypeOK
    <2> QED
      BY <1>1, <1>2, <1>4, <1>5, <1>6, <2>1, <2>2 DEF TypeOK, Citing
  <1>10. \A q \in Requests \ {r} : Same(q)
    BY <1>1, <1>4, <1>5, <1>6 DEF Same, TypeOK
  <1>11. Reporting(r)'
    BY <1>1, <1>2, <1>3, <1>5, <1>6, <1>7, <1>8 DEF Reporting, At, Active, k
  <1>12. Reading(r)' /\ Listing(r)'
    BY <1>1, <1>5, <1>7, <1>8 DEF Reading, Listing
  <1>13. Coherent(r)'
    BY <1>6, <1>8, <1>11, <1>12 DEF Coherent, Live
  <1> QED
    BY <1>1, <1>5, <1>9, <1>10, <1>13, OneRequest

-----------------------------------------------------------------------------
(* The steps of Get.                                                       *)

\* The detail of a Get is true when it is read.
LEMMA GetDetailStep ==
    ASSUME ReportsInv, NEW r \in Requests, GetDetail(r)
    PROVE  ReportsInv'
  <1>1. /\ TypeOK /\ Coherent(r) /\ r \in DOMAIN input
        /\ pc[r] = "GetDetail" /\ answer[r] = "none"
        /\ r \notin orphans /\ input[r].op = "Get"
        /\ r \notin DOMAIN violations
    BY DEF ReportsInv, Coherent, Reporting, Reading, GetDetail, At
  <1>2. UNCHANGED <<tables, input, cited, plates, total, orphans, past>>
    BY DEF GetDetail
  <1> DEFINE id == input[r].id
  <1>3. CASE /\ answer' = [answer EXCEPT ![r] = "404"]
             /\ UNCHANGED <<shown, pc>>
    <2>1. TypeOK' /\ Quiet(r)
      BY <1>1, <1>2, <1>3 DEF TypeOK, Quiet, tables, past
    <2>2. answer'[r] = "404" /\ pc'[r] = pc[r]
      BY <1>1, <1>3 DEF TypeOK
    <2>3. Reporting(r)'
      BY <1>1, <1>2, <2>2, NotReporting DEF tables
    <2>4. Reading(r)' /\ Listing(r)'
      BY <1>1, <1>2, <1>3, <2>2 DEF Coherent, Reading, Listing, tables, past
    <2> QED
      BY <1>1, <2>1, <2>2, <2>3, <2>4, QuietStep DEF Live
  <1>4. CASE /\ id \in DOMAIN violations
             /\ shown' = [shown EXCEPT ![r] = Details({id})]
             /\ \/ /\ User(r) \in Officers
                   /\ answer' = [answer EXCEPT ![r] = "200"]
                   /\ UNCHANGED pc
                \/ /\ pc' = [pc EXCEPT ![r] = "GetVehicle"]
                   /\ UNCHANGED answer
    <2>1. shown'[r] = Details({id})
      BY <1>1, <1>4 DEF TypeOK
    <2>2. /\ IsTable(shown'[r], Requests, DetailRow)
          /\ DOMAIN shown'[r] = {id}
          /\ shown'[r][id].plate = violations[id].plate
          /\ shown'[r][id].status = violations[id].status
          /\ shown'[r][id].amount = FineOf(violations[id], history)
      BY <1>1, <1>4, <2>1, DetailsTyped
    <2>3. \/ /\ User(r) \in Officers
             /\ answer'[r] = "200" /\ pc'[r] = pc[r]
          \/ pc'[r] = "GetVehicle" /\ answer'[r] = "none"
      BY <1>1, <1>4 DEF TypeOK
    <2>4. TypeOK'
      <3>1. /\ DOMAIN shown' = Requests
            /\ \A q \in Requests : IsTable(shown'[q], Requests, DetailRow)
        BY <1>1, <1>4, <2>2 DEF TypeOK
      <3>2. /\ pc' \in [Requests -> Statements \cup {"idle"}]
            /\ answer' \in [Requests -> Answers \cup {"none", "lost"}]
            /\ orphans' \subseteq {q \in Requests : pc'[q] = "CreateViolation"}
        BY <1>1, <1>2, <1>4 DEF TypeOK
      <3> QED
        BY <1>1, <1>2, <3>1, <3>2 DEF TypeOK, tables, past
    <2>5. Quiet(r)
      BY <1>1, <1>2, <1>4 DEF TypeOK, Quiet
    <2>6. Reporting(r)'
      BY <1>1, <1>2, <2>3, NotReporting DEF tables
    <2>7. Reading(r)'
      BY <1>1, <1>2, <1>4, <2>2, <2>3 DEF Reading, tables, past, User
    <2>8. Listing(r)'
      BY <1>1, <1>2, <2>3 DEF Coherent, Listing, past
    <2> QED
      BY <1>1, <2>3, <2>4, <2>5, <2>6, <2>7, <2>8, QuietStep DEF Live
  <1> QED
    BY <1>3, <1>4 DEF GetDetail, Respond, Goto

\* A Get answers 200 only for a plate the caller has, so has held.
LEMMA GetVehicleStep ==
    ASSUME ReportsInv, NEW r \in Requests, GetVehicle(r)
    PROVE  ReportsInv'
  <1>1. /\ TypeOK /\ Coherent(r) /\ r \in DOMAIN input
        /\ pc[r] = "GetVehicle" /\ answer[r] = "none"
        /\ r \notin orphans /\ r \notin DOMAIN violations
    BY DEF ReportsInv, Coherent, Reporting, GetVehicle, At
  <1>2. UNCHANGED <<tables, input, cited, plates, shown, total, orphans, past,
                    pc>>
    BY DEF GetVehicle, Respond
  <1> DEFINE id == input[r].id
  <1>3. /\ id \in DOMAIN shown[r]
        /\ shown[r][id].plate = violations[id].plate
        /\ PlatesOf(User(r)) \subseteq held[r]
    BY <1>1 DEF Coherent, Reading, Live
  <1>4. PICK code \in {"200", "403"} :
          /\ answer' = [answer EXCEPT ![r] = code]
          /\ code = "200" => shown[r][id].plate \in PlatesOf(User(r))
    BY DEF GetVehicle, Respond
  <1>5. TypeOK' /\ Quiet(r) /\ answer'[r] = code
    BY <1>1, <1>2, <1>4 DEF TypeOK, Quiet, tables, past
  <1>6. Reporting(r)'
    BY <1>1, <1>2, <1>4, <1>5, NotReporting DEF tables
  <1>7. Reading(r)' /\ Listing(r)'
    BY <1>1, <1>2, <1>3, <1>4, <1>5
       DEF Coherent, Reading, Listing, tables, past, User
  <1> QED
    BY <1>1, <1>2, <1>5, <1>6, <1>7, QuietStep DEF Live

-----------------------------------------------------------------------------
(* The steps of List.                                                      *)

\* The plates of a List are the caller's, so among those held.
LEMMA ListVehiclesStep ==
    ASSUME ReportsInv, NEW r \in Requests, ListVehicles(r)
    PROVE  ReportsInv'
  <1>1. /\ TypeOK /\ Coherent(r) /\ r \in DOMAIN input
        /\ pc[r] = "ListVehicles" /\ answer[r] = "none"
        /\ r \notin orphans /\ r \notin DOMAIN violations
        /\ PlatesOf(User(r)) \subseteq held[r]
    BY DEF ReportsInv, Coherent, Reporting, ListVehicles, At, Live
  <1>2. UNCHANGED <<tables, input, cited, shown, total, orphans, past>>
    BY DEF ListVehicles
  <1>3. PICK some \in SUBSET PlatesOf(User(r)) :
          /\ plates' = [plates EXCEPT ![r] = some]
          /\ \/ answer' = [answer EXCEPT ![r] = "200"] /\ UNCHANGED pc
             \/ pc' = [pc EXCEPT ![r] = "ListPage"] /\ UNCHANGED answer
    BY DEF ListVehicles, Respond, Goto
  <1>4. /\ plates'[r] = some
        /\ \/ answer'[r] = "200" /\ pc'[r] = pc[r]
           \/ pc'[r] = "ListPage" /\ answer'[r] = "none"
    BY <1>1, <1>3 DEF TypeOK
  <1>5. TypeOK'
    <2>1. some \subseteq Plates
      BY <1>1, RowTypes
    <2>2. plates' \in [Requests -> SUBSET Plates]
      BY <1>1, <1>3, <2>1 DEF TypeOK
    <2>3. /\ pc' \in [Requests -> Statements \cup {"idle"}]
          /\ answer' \in [Requests -> Answers \cup {"none", "lost"}]
          /\ orphans' \subseteq {q \in Requests : pc'[q] = "CreateViolation"}
      BY <1>1, <1>2, <1>3 DEF TypeOK
    <2> QED
      BY <1>1, <1>2, <2>2, <2>3 DEF TypeOK, tables, past
  <1>6. Quiet(r)
    BY <1>1, <1>2, <1>3 DEF TypeOK, Quiet
  <1>7. Reporting(r)'
    BY <1>1, <1>2, <1>4, NotReporting DEF tables
  <1>8. Reading(r)' /\ Listing(r)'
    BY <1>1, <1>2, <1>4 DEF Coherent, Reading, Listing, tables, past
  <1> QED
    BY <1>1, <1>4, <1>5, <1>6, <1>7, <1>8, QuietStep DEF Live

\* The page lies within the matching rows.
LEMMA ListPageStep ==
    ASSUME ReportsInv, NEW r \in Requests, ListPage(r)
    PROVE  ReportsInv'
  <1>1. /\ TypeOK /\ Coherent(r) /\ r \in DOMAIN input
        /\ pc[r] = "ListPage" /\ answer[r] = "none"
        /\ r \notin orphans /\ r \notin DOMAIN violations
        /\ input[r].op = "List"
    BY DEF ReportsInv, Coherent, Reporting, Listing, ListPage, At
  <1>2. UNCHANGED <<tables, input, cited, plates, total, orphans, past>>
    BY DEF ListPage
  <1>3. CASE Respond(r, "500") /\ UNCHANGED shown
    <2>1. TypeOK' /\ Quiet(r) /\ answer'[r] = "500" /\ pc'[r] = "ListPage"
      BY <1>1, <1>2, <1>3 DEF Respond, TypeOK, Quiet, tables, past
    <2>2. Reporting(r)'
      BY <1>1, <1>2, <2>1, NotReporting DEF tables
    <2>3. Reading(r)' /\ Listing(r)'
      BY <1>1, <1>2, <1>3, <2>1 DEF Coherent, Reading, Listing, tables, past
    <2> QED
      BY <1>1, <2>1, <2>2, <2>3, QuietStep DEF Live
  <1>4. CASE /\ \E page \in SUBSET Matching(r) :
                   /\ Cardinality(page) =
                        PageLength(r, Cardinality(Matching(r)))
                   /\ shown' = [shown EXCEPT ![r] = Details(page)]
             /\ Goto(r, "Count")
    <2> DEFINE n == Cardinality(Matching(r))
    <2>1. UNCHANGED answer
      BY <1>4 DEF Goto
    <2>2. PICK page \in SUBSET Matching(r) :
            /\ Cardinality(page) = PageLength(r, n)
            /\ shown' = [shown EXCEPT ![r] = Details(page)]
            /\ pc' = [pc EXCEPT ![r] = "Count"]
      BY <1>4 DEF Goto
    <2>3. page \subseteq DOMAIN violations
      BY <2>2 DEF Matching
    <2>4. shown'[r] = Details(page) /\ pc'[r] = "Count" /\ answer'[r] = "none"
      BY <1>1, <1>2, <2>1, <2>2 DEF TypeOK
    <2>5. /\ IsTable(shown'[r], Requests, DetailRow)
          /\ DOMAIN shown'[r] = page
          /\ \A v \in page :
                /\ shown'[r][v].plate = violations[v].plate
                /\ shown'[r][v].status = violations[v].status
                /\ shown'[r][v].amount = FineOf(violations[v], history)
      BY <1>1, <2>3, <2>4, DetailsTyped
    <2>6. page # {} => Offset(r) + Cardinality(page) <= n
      <3>1. n \in Nat /\ IsFiniteSet(Matching(r)) /\ IsFiniteSet(page)
        BY <1>1, MatchingFinite, PageFinite
      <3>2. page # {} => Cardinality(page) # 0
        BY <3>1, FS_EmptySet
      <3> QED
        BY <1>1, <2>2, <3>1, <3>2, PageWithin
    <2>7. TypeOK'
      <3>1. /\ DOMAIN shown' = Requests
            /\ \A q \in Requests : IsTable(shown'[q], Requests, DetailRow)
        BY <1>1, <2>2, <2>5 DEF TypeOK
      <3>2. /\ pc' \in [Requests -> Statements \cup {"idle"}]
            /\ orphans' \subseteq {q \in Requests : pc'[q] = "CreateViolation"}
        BY <1>1, <1>2, <2>2 DEF TypeOK
      <3> QED
        BY <1>1, <1>2, <2>1, <3>1, <3>2 DEF TypeOK, tables, past
    <2>8. Quiet(r)
      BY <1>1, <1>2, <2>1, <2>2 DEF TypeOK, Quiet
    <2>9. Reporting(r)'
      BY <1>1, <1>2, <2>4, NotReporting DEF tables
    <2>10. Reading(r)'
      BY <1>1, <1>2, <2>3, <2>4, <2>5 DEF Coherent, Reading, tables
    <2>11. Matching(r)' = Matching(r) /\ Offset(r)' = Offset(r)
      BY <1>2 DEF Matching, Offset, User, tables
    <2>12. Listing(r)'
      BY <1>1, <1>2, <2>2, <2>4, <2>5, <2>6, <2>11
         DEF Coherent, Listing, past
    <2> QED
      BY <1>1, <2>4, <2>7, <2>8, <2>9, <2>10, <2>12, QuietStep DEF Live
  <1> QED
    BY <1>3, <1>4 DEF ListPage

\* The total is not below the end of the page read before it.
LEMMA CountStep ==
    ASSUME ReportsInv, NEW r \in Requests, Count(r)
    PROVE  ReportsInv'
  <1>1. /\ TypeOK /\ Coherent(r) /\ r \in DOMAIN input
        /\ pc[r] = "Count" /\ answer[r] = "none"
        /\ r \notin orphans /\ r \notin DOMAIN violations
    BY DEF ReportsInv, Coherent, Reporting, Count, At
  <1>2. UNCHANGED <<tables, input, cited, plates, shown, orphans, past, pc>>
    BY DEF Count, Respond
  <1> DEFINE n == Cardinality(Matching(r))
  <1>3. n \in Nat
    BY <1>1, MatchingFinite
  <1>4. /\ total' = [total EXCEPT ![r] = n]
        /\ answer' = [answer EXCEPT ![r] = "200"]
    BY DEF Count, Respond
  <1> HIDE DEF n
  <1>5. TypeOK' /\ Quiet(r)
    BY <1>1, <1>2, <1>3, <1>4 DEF TypeOK, Quiet, tables, past
  <1>6. total'[r] = n /\ answer'[r] = "200"
    BY <1>1, <1>4 DEF TypeOK
  <1>7. Reporting(r)' /\ Reading(r)'
    BY <1>1, <1>2, <1>6, NotReporting DEF Coherent, Reading, tables
  <1>8. Matching(r)' = Matching(r) /\ Offset(r)' = Offset(r)
    BY <1>2 DEF Matching, Offset, User, tables
  <1>9. Listing(r)'
    BY <1>1, <1>2, <1>6, <1>8 DEF Coherent, Listing, past, n
  <1> QED
    BY <1>1, <1>2, <1>5, <1>7, <1>9, QuietStep DEF Live

-----------------------------------------------------------------------------
(* Failures.                                                               *)

\* A failed statement ends its request; an insert may live on.
LEMMA StatementFailsStep ==
    ASSUME ReportsInv, NEW r \in Requests, StatementFails(r)
    PROVE  ReportsInv'
  <1>1. /\ TypeOK /\ Coherent(r) /\ r \in DOMAIN input
        /\ pc[r] \in Statements /\ answer[r] = "none" /\ Live(r)
    BY DEF ReportsInv, Coherent, StatementFails, Live
  <1>2. /\ answer' = [answer EXCEPT ![r] = "500"]
        /\ \/ orphans' = orphans
           \/ pc[r] = "CreateViolation" /\ orphans' = orphans \cup {r}
        /\ UNCHANGED <<tables, input, cited, plates, shown, total, pc, past>>
    BY DEF StatementFails, Respond
  <1>3. TypeOK' /\ Quiet(r) /\ answer'[r] = "500"
    BY <1>1, <1>2 DEF TypeOK, Quiet, tables, past
  <1>4. Reporting(r)'
    BY <1>1, <1>2, <1>3 DEF Coherent, Reporting, Active, At, tables, past
  <1>5. Reading(r)'
    BY <1>1, <1>2, <1>3 DEF Coherent, Reading, tables, past
  <1>6. Matching(r)' = Matching(r) /\ Offset(r)' = Offset(r)
    BY <1>2 DEF Matching, Offset, User, tables
  <1>7. Listing(r)'
    BY <1>1, <1>2, <1>3, <1>6 DEF Coherent, Listing, past
  <1> QED
    BY <1>1, <1>2, <1>3, <1>4, <1>5, <1>7, QuietStep

\* A crash does the same to every request at once.
LEMMA CrashStep ==
    ASSUME ReportsInv, Crash
    PROVE  ReportsInv'
  <1>1. /\ TypeOK
        /\ UNCHANGED <<tables, input, cited, plates, shown, total, pc, past>>
    BY DEF ReportsInv, Crash
  <1>2. /\ answer' = [q \in Requests |-> IF Live(q) THEN "lost" ELSE answer[q]]
        /\ \A q \in orphans' \ orphans : Live(q) /\ pc[q] = "CreateViolation"
        /\ orphans' \subseteq Requests
    BY <1>1 DEF Crash, TypeOK
  <1>3. TypeOK'
    BY <1>1, <1>2 DEF TypeOK, tables, past
  <1>4. ASSUME NEW q \in Requests PROVE Coherent(q)'
    <2>1. /\ Coherent(q) /\ answer'[q] \in {"lost", answer[q]}
          /\ Live(q) => answer'[q] = "lost"
          /\ ~Live(q) => answer'[q] = answer[q]
          /\ q \in orphans' =>
                \/ q \in orphans /\ (Live(q) => pc[q] = "CreateViolation")
                \/ Live(q) /\ pc[q] = "CreateViolation"
      BY <1>1, <1>2 DEF ReportsInv, TypeOK
    <2>2. Reporting(q)'
      BY <1>1, <2>1 DEF Coherent, Reporting, Active, At, Live, tables, past
    <2>3. Reading(q)'
      <3>1. answer'[q] = "200" => answer[q] = "200"
        BY <2>1
      <3> QED
        BY <1>1, <2>1, <3>1 DEF Coherent, Reading, User, tables, past
    <2>4. Matching(q)' = Matching(q) /\ Offset(q)' = Offset(q)
      BY <1>1 DEF Matching, Offset, User, tables
    <2>5. Listing(q)'
      BY <1>1, <2>1, <2>4 DEF Coherent, Listing, past
    <2>6. ~Live(q)'
      BY <1>1, <2>1 DEF Live
    <2> QED
      BY <1>1, <2>1, <2>2, <2>3, <2>5, <2>6 DEF Coherent, Live
  <1> QED
    BY <1>3, <1>4 DEF ReportsInv

\* An orphaned insert is what its request would have inserted.
LEMMA OrphanRunsStep ==
    ASSUME ReportsInv, NEW r \in Requests, OrphanRuns(r)
    PROVE  ReportsInv'
  <1>1. /\ TypeOK /\ Coherent(r)
        /\ pc[r] = "CreateViolation" /\ answer[r] \in {"500", "lost"}
        /\ r \notin DOMAIN violations
        /\ Insertion(r)
    BY DEF ReportsInv, Coherent, Reporting, OrphanRuns
  <1>2. /\ orphans' = orphans \ {r}
        /\ UNCHANGED <<input, cited, plates, shown, total, pc, answer, past>>
    BY DEF OrphanRuns, handler
  <1>3. /\ Grows /\ UNCHANGED <<history, vehicles>>
        /\ IsTable(violations', Requests, ViolationRow)
        /\ \A v \in DOMAIN violations' :
              violations'[v].version \in 1..Len(history'[violations'[v].code])
        /\ DOMAIN violations' = DOMAIN violations \cup {r}
    BY <1>1, InsertionEffect
  <1>4. TypeOK'
    BY <1>1, <1>2, <1>3 DEF TypeOK, past
  <1>5. \A q \in Requests \ {r} : Same(q)
    BY <1>1, <1>2, <1>3 DEF Same, past
  <1>6. Coherent(r)'
    BY <1>1, <1>2, <1>4, AfterInsertion
  <1> QED
    BY <1>3, <1>4, <1>5, <1>6, OneRequest

\* An orphan that is dropped inserts nothing.
LEMMA OrphanDiesStep ==
    ASSUME ReportsInv, NEW r \in Requests, OrphanDies(r)
    PROVE  ReportsInv'
  <1>1. /\ TypeOK
        /\ orphans' = orphans \ {r}
        /\ UNCHANGED <<history, vehicles, violations, input, cited, plates,
                       shown, total, pc, answer, past>>
    BY DEF ReportsInv, OrphanDies, tables, handler
  <1>2. TypeOK' /\ Grows
    BY <1>1, GrowsUnchanged DEF TypeOK, past
  <1>3. \A q \in Requests : Same(q)
    BY <1>1 DEF Same, past
  <1>4. \A q \in Requests : Knows(q)'
    BY <1>1, <1>3, StillKnows DEF ReportsInv
  <1> QED
    BY <1>2, <1>3, <1>4, NoRequest

-----------------------------------------------------------------------------
(* The other services.                                                     *)

\* The other services let the tables grow; a request remembers the
\* plates its caller registers, and needs none that is removed.
LEMMA EnvironmentStep ==
    ASSUME ReportsInv, Environment
    PROVE  ReportsInv'
  <1>1. TypeOK
    BY DEF ReportsInv
  <1>2. CASE \E c \in Codes, a \in Amounts : PublishRule(c, a)
    <2>1. /\ Grows /\ TypeOK'
          /\ UNCHANGED <<vehicles, violations, handler, orphans, past>>
      BY <1>1, <1>2, GrowsPublish DEF PublishRule
    <2>2. \A q \in Requests : Same(q)
      BY <2>1 DEF Same, handler, past
    <2>3. \A q \in Requests : Knows(q)'
      BY <2>1, <2>2, StillKnows DEF ReportsInv
    <2> QED
      BY <2>1, <2>2, <2>3, NoRequest
  <1>3. CASE \E v \in Requests : PayViolation(v)
    <2>1. /\ Grows /\ TypeOK' /\ DOMAIN violations' = DOMAIN violations
          /\ UNCHANGED <<history, vehicles, handler, orphans, past>>
      BY <1>1, <1>3, GrowsPay DEF PayViolation
    <2>2. \A q \in Requests : Same(q)
      BY <2>1 DEF Same, handler, past
    <2>3. \A q \in Requests : Knows(q)'
      BY <2>1, <2>2, StillKnows DEF ReportsInv
    <2> QED
      BY <2>1, <2>2, <2>3, NoRequest
  <1>4. CASE \E p \in Plates : RemoveVehicle(p)
    <2>1. PICK p \in Plates : RemoveVehicle(p)
      BY <1>4
    <2>2. /\ UNCHANGED <<history, violations, handler, orphans, since, held>>
          /\ IsTable(vehicles', Plates, Members)
          /\ DOMAIN vehicles' \subseteq DOMAIN vehicles
          /\ \A k \in DOMAIN vehicles' : vehicles'[k] = vehicles[k]
      BY <1>1, <2>1 DEF RemoveVehicle, Registry!Remove, Registry!Delete, TypeOK,
                        IsTable
    <2>3. TypeOK' /\ Grows
      <3>1. due' \in [Requests -> SUBSET Requests]
        BY <1>1, <2>1 DEF RemoveVehicle, TypeOK
      <3> QED
        BY <1>1, <2>2, <3>1, GrowsUnchanged DEF TypeOK, handler
    <2>4. \A q \in Requests : Same(q)
      BY <2>2 DEF Same, handler
    <2>5. ASSUME NEW q \in Requests PROVE Knows(q)'
      BY <2>2 DEF ReportsInv, Coherent, Knows, Live, PlatesOf, User, handler
    <2> QED
      BY <2>3, <2>4, <2>5, NoRequest
  <1>5. CASE \E p \in Plates, u \in Members : RegisterVehicle(p, u)
    <2>1. PICK p \in Plates, u \in Members : RegisterVehicle(p, u)
      BY <1>5
    <2>2. /\ UNCHANGED <<history, violations, handler, orphans, since, due>>
          /\ IsTable(vehicles', Plates, Members)
          /\ DOMAIN vehicles' = DOMAIN vehicles \cup {p}
          /\ vehicles'[p] = u
          /\ \A k \in DOMAIN vehicles : vehicles'[k] = vehicles[k]
      BY <1>1, <2>1 DEF RegisterVehicle, Registry!Register, Registry!Insert,
                        TypeOK, IsTable
    <2>3. /\ held' \in [Requests -> SUBSET Plates]
          /\ \A q \in Requests :
                /\ held[q] \subseteq held'[q]
                /\ Live(q) /\ User(q) = u => p \in held'[q]
      BY <1>1, <2>1 DEF RegisterVehicle, TypeOK
    <2>4. TypeOK' /\ Grows
      BY <1>1, <2>2, <2>3, GrowsUnchanged DEF TypeOK, handler
    <2>5. \A q \in Requests : Same(q)
      BY <2>2, <2>3 DEF Same, handler
    <2>6. ASSUME NEW q \in Requests PROVE Knows(q)'
      BY <2>2, <2>3 DEF ReportsInv, Coherent, Knows, Live, PlatesOf, User,
                        handler
    <2> QED
      BY <2>4, <2>5, <2>6, NoRequest
  <1> QED
    BY <1>2, <1>3, <1>4, <1>5 DEF Environment

-----------------------------------------------------------------------------
(* The invariant.                                                          *)

\* The initial state has no request and empty tables.
LEMMA InitReports == Init => ReportsInv
  <1> SUFFICES ASSUME Init PROVE ReportsInv
    OBVIOUS
  <1>1. TypeOK
    BY DEF Init, Rules!Init, TypeOK, IsTable
  <1>2. ASSUME NEW r \in Requests PROVE Coherent(r)
    BY DEF Init, Coherent, Reporting, Reading, Listing, Live
  <1> QED
    BY <1>1, <1>2 DEF ReportsInv

\* Every step keeps the invariant.
LEMMA NextReports == ReportsInv /\ [Next]_vars => ReportsInv'
  <1> SUFFICES ASSUME ReportsInv, [Next]_vars PROVE ReportsInv'
    OBVIOUS
  <1>1. CASE UNCHANGED vars
    <2>1. TypeOK' /\ Grows
      BY <1>1, GrowsUnchanged DEF ReportsInv, TypeOK, vars, tables, handler, past
    <2>2. \A q \in Requests : Same(q)
      BY <1>1 DEF Same, vars, tables, handler, past
    <2>3. \A q \in Requests : Knows(q)'
      BY <1>1, <2>2, StillKnows DEF ReportsInv, vars, tables
    <2> QED
      BY <2>1, <2>2, <2>3, NoRequest
  <1>2. CASE \E r \in Requests, u \in Members \cup Officers : Receive(r, u)
    BY <1>2, ReceiveStep
  <1>3. ASSUME NEW r \in Requests, Step(r) PROVE ReportsInv'
    BY <1>3, ResolveRuleStep, CreateViolationStep, ReadBackStep, GetDetailStep,
       GetVehicleStep, ListVehiclesStep, ListPageStep, CountStep,
       StatementFailsStep, OrphanRunsStep, OrphanDiesStep DEF Step
  <1>4. CASE Crash
    BY <1>4, CrashStep
  <1>5. CASE Environment
    BY <1>5, EnvironmentStep
  <1>6. CASE \E r \in Requests, u \in Members \cup Officers, c \in CodeTexts,
                p \in PlateTexts : ReportAlone(r, u, c, p)
    BY <1>6, ReportAloneStep
  <1> QED
    BY <1>1, <1>2, <1>3, <1>4, <1>5, <1>6 DEF Next

-----------------------------------------------------------------------------
(* What is due to a listing.                                               *)

\* Request q keeps its place, or fails there, and is owed no more.
Stays(q) ==
    /\ pc'[q] = pc[q] /\ answer'[q] \in {answer[q], "500", "lost"}
    /\ q \in DOMAIN input => q \in DOMAIN input' /\ input'[q] = input[q]
    /\ plates'[q] = plates[q] /\ shown'[q] = shown[q] /\ total'[q] = total[q]
    /\ held[q] \subseteq held'[q] /\ due'[q] \subseteq due[q]
    /\ pc[q] = "ListVehicles" /\ answer'[q] = "none" =>
          \A v \in due'[q] :
             violations[v].plate \in PlatesOf(User(q)) =>
                violations[v].plate \in PlatesOf(User(q))'

\* Plates and rows are finitely many.
LEMMA FinitelyMany ==
    ASSUME TypeOK, NEW r \in Requests
    PROVE  /\ IsFiniteSet(held[r]) /\ Cardinality(held[r]) \in Nat
           /\ IsFiniteSet(due[r]) /\ Cardinality(due[r]) \in Nat
  <1>1. held[r] \subseteq Plates /\ due[r] \subseteq Requests
    BY DEF TypeOK
  <1> QED
    BY <1>1, SizeAssumption, FS_Subset, FS_CardinalityType

\* The same of the next state.
LEMMA FinitelyManyNext ==
    ASSUME TypeOK', NEW r \in Requests
    PROVE  /\ IsFiniteSet(held'[r]) /\ Cardinality(held'[r]) \in Nat
           /\ IsFiniteSet(due'[r]) /\ Cardinality(due'[r]) \in Nat
           /\ Matching(r)' \subseteq Requests
           /\ IsFiniteSet(Matching(r)') /\ Cardinality(Matching(r)') \in Nat
  <1>1. held'[r] \subseteq Plates /\ due'[r] \subseteq Requests
    BY DEF TypeOK
  <1>2. Matching(r)' \subseteq Requests
    BY DEF TypeOK, IsTable, Matching
  <1> QED
    BY <1>1, <1>2, SizeAssumption, FS_Subset, FS_CardinalityType

\* A member with few enough vehicles held no more of them before.
LEMMA ListedBefore ==
    ASSUME TypeOK, TypeOK', NEW q \in Requests, held[q] \subseteq held'[q],
           User(q)' = User(q), ListedAll(q)'
    PROVE  ListedAll(q)
  <1>1. Cardinality(held[q]) <= Cardinality(held'[q])
    BY FinitelyManyNext, FS_Subset
  <1>2. /\ Cardinality(held[q]) \in Nat /\ Cardinality(held'[q]) \in Nat
        /\ MaxVehicles \in Nat
    BY FinitelyMany, FinitelyManyNext, SizeAssumption
  <1> QED
    BY <1>1, <1>2 DEF ListedAll

\* A request that stays where it is is still owed what it was, or less.
LEMMA OwedFrame ==
    ASSUME ReportsInv, ReportsInv', NEW q \in Requests, Owed(q), Grows,
           Stays(q)
    PROVE  Owed(q)'
  <1>1. /\ TypeOK /\ TypeOK' /\ Coherent(q)
        /\ pc[q] # "idle" => q \in DOMAIN input
    BY DEF ReportsInv, Coherent
  <1>2. q \in DOMAIN input =>
           User(q)' = User(q) /\ input'[q] = input[q] /\ q \in DOMAIN input'
    BY DEF Stays, User
  <1>3. due'[q] \subseteq DOMAIN violations'
    BY DEF Stays, Owed, Grows
  <1>4. At(q, "ListVehicles")' =>
           \A v \in due'[q] : violations'[v].plate \in PlatesOf(User(q))'
    <2> SUFFICES ASSUME At(q, "ListVehicles")', NEW v \in due'[q]
                 PROVE  violations'[v].plate \in PlatesOf(User(q))'
      OBVIOUS
    <2>1. pc[q] = "ListVehicles" /\ answer'[q] = "none" /\ answer[q] = "none"
      BY <1>1 DEF At, Stays
    <2>2. v \in due[q] /\ v \in DOMAIN violations
      BY DEF Stays, Owed
    <2>3. violations[v].plate \in PlatesOf(User(q))
      BY <2>1, <2>2 DEF Owed, At
    <2>4. violations[v].plate \in PlatesOf(User(q))'
      BY <2>1, <2>3 DEF Stays
    <2> QED
      BY <2>2, <2>4 DEF Grows
  <1>5. pc[q] \in {"ListVehicles", "ListPage", "Count"} /\ ListedAll(q)' =>
           ListedAll(q)
    BY <1>1, <1>2, ListedBefore DEF Stays
  <1>6. pc[q] \in {"ListPage", "Count"} => Matching(q) \subseteq Matching(q)'
    BY <1>1, <1>2 DEF Matching, Grows, Stays
  <1>7. Cardinality(due'[q]) <= Cardinality(due[q])
    BY <1>1, FinitelyMany, FS_Subset DEF Stays
  <1>8. /\ Cardinality(due'[q]) \in Nat /\ Cardinality(due[q]) \in Nat
        /\ total[q] \in Nat
    BY <1>1, FinitelyMany, FinitelyManyNext DEF TypeOK
  <1>9. pc[q] = "Count" /\ answer'[q] = "200" /\ ListedAll(q)' =>
           Cardinality(due'[q]) <= total[q]
    <2> SUFFICES ASSUME pc[q] = "Count", answer'[q] = "200", ListedAll(q)'
                 PROVE  Cardinality(due'[q]) <= total[q]
      OBVIOUS
    <2>1. answer[q] = "200" /\ ListedAll(q)
      BY <1>5 DEF Stays
    <2>2. Cardinality(due[q]) <= total[q]
      BY <2>1 DEF Owed
    <2> QED
      BY <1>7, <1>8, <2>2
  <1>10. /\ due'[q] # {} => q \in DOMAIN input' /\ input'[q].op = "List"
         /\ pc'[q] \in {"ListPage", "Count"} /\ ListedAll(q)' =>
               due'[q] \subseteq Matching(q)'
         /\ pc'[q] = "ListVehicles" /\ answer'[q] = "200" /\ ListedAll(q)' =>
               due'[q] = {}
         /\ pc'[q] = "ListPage" => answer'[q] # "200"
    BY <1>2, <1>5, <1>6 DEF Stays, Owed
  <1>11. pc'[q] = "Count" /\ ListedAll(q)' =>
            (input'[q].page = 1 /\ Cardinality(DOMAIN shown'[q]) < PageSize
               => due'[q] \subseteq DOMAIN shown'[q])
    BY <1>1, <1>2, <1>5 DEF Stays, Owed
  <1> QED
    BY <1>3, <1>4, <1>9, <1>10, <1>11 DEF Owed, Stays

\* Nothing is owed to what is not a listing.
LEMMA NothingOwed ==
    ASSUME NEW r \in Requests, due'[r] = {},
           pc'[r] \notin {"ListVehicles", "ListPage", "Count"}
    PROVE  Owed(r)'
  BY DEF Owed, At

\* A step of request r: it is enough to look at r.
LEMMA OneListing ==
    ASSUME ReportsInv, ReportsInv', DueInv, NEW r \in Requests, Grows,
           Owed(r)', \A q \in Requests \ {r} : Stays(q)
    PROVE  DueInv'
  <1>1. ASSUME NEW q \in Requests \ {r} PROVE Owed(q)'
    BY <1>1, OwedFrame DEF DueInv
  <1> QED
    BY <1>1 DEF DueInv

\* An arriving List is owed what is there for it.
LEMMA ReceiveOwes ==
    ASSUME ReportsInv, ReportsInv', DueInv, NEW r \in Requests,
           NEW u \in Members \cup Officers, Receive(r, u)
    PROVE  DueInv'
  <1>1. /\ TypeOK /\ Coherent(r) /\ Owed(r)
    BY DEF ReportsInv, DueInv
  <1>2. PICK row, step, refusal : Arrive(r, row, step, refusal)
    BY DEF Receive, ReceiveReport, ReceiveGet, ReceiveList
  <1>3. /\ pc[r] = "idle" /\ r \notin DOMAIN input /\ due[r] = {}
        /\ UNCHANGED <<tables, cited, plates, shown, total, orphans>>
        /\ input' = Insert(input, r, row)
        /\ pc' = [pc EXCEPT ![r] = step]
        /\ answer' = [answer EXCEPT ![r] = refusal]
        /\ held' = [held EXCEPT ![r] = PlatesOf(row.user)]
    BY <1>1, <1>2 DEF Arrive, Coherent, Owed
  <1>4. Grows
    BY <1>1, <1>3, GrowsUnchanged DEF tables
  <1>5. input'[r] = row /\ pc'[r] = step /\ answer'[r] = refusal
    BY <1>1, <1>3 DEF TypeOK, Insert
  <1>6. \A q \in Requests \ {r} : due'[q] = due[q]
    BY <1>1 DEF Receive, ReceiveReport, ReceiveGet, ReceiveList, TypeOK
  <1>7. \A q \in Requests \ {r} : Stays(q)
    <2> SUFFICES ASSUME NEW q \in Requests \ {r} PROVE Stays(q)
      OBVIOUS
    <2>1. /\ pc'[q] = pc[q] /\ answer'[q] = answer[q] /\ held'[q] = held[q]
          /\ q \in DOMAIN input => q \in DOMAIN input' /\ input'[q] = input[q]
      BY <1>1, <1>3 DEF TypeOK, Insert
    <2>2. pc[q] # "idle" => q \in DOMAIN input
      BY DEF ReportsInv, Coherent
    <2> QED
      BY <1>3, <1>6, <2>1, <2>2 DEF Stays, tables, PlatesOf, User
  <1>8. Owed(r)'
    <2>1. CASE \/ \E c \in CodeTexts, p \in PlateTexts :
                     ReceiveReport(r, u, c, p)
               \/ \E v \in Requests : ReceiveGet(r, u, v)
      <3>1. due'[r] = {}
        BY <1>3, <2>1 DEF ReceiveReport, ReceiveGet
      <3>2. pc'[r] \in {"ResolveRule", "GetDetail"}
        BY <1>1, <2>1 DEF ReceiveReport, ReceiveGet, Arrive, TypeOK
      <3> QED
        BY <3>1, <3>2, NothingOwed
    <2>2. CASE \E n \in Pages : ReceiveList(r, u, n)
      <3>1. PICK n \in Pages : ReceiveList(r, u, n)
        BY <2>2
      <3>2. /\ input'[r].user = u /\ input'[r].op = "List"
            /\ r \in DOMAIN input' /\ answer'[r] = "none"
            /\ pc'[r] = IF u \in Officers THEN "ListPage" ELSE "ListVehicles"
        BY <1>1, <3>1 DEF ReceiveList, Arrive, TypeOK, Insert
      <3>3. due'[r] = {v \in DOMAIN violations :
                         u \in Officers \/ violations[v].plate \in PlatesOf(u)}
        BY <1>1, <3>1 DEF ReceiveList, TypeOK
      <3>4. /\ violations' = violations
            /\ PlatesOf(User(r))' = PlatesOf(u) /\ User(r)' = u
        BY <1>3, <3>2 DEF PlatesOf, User, tables
      <3> QED
        BY <3>2, <3>3, <3>4 DEF Owed, At, Matching
    <2> QED
      BY <2>1, <2>2 DEF Receive
  <1> QED
    BY <1>4, <1>7, <1>8, OneListing

\* The vehicles of a member that has few enough of them are all looked at.
LEMMA ListVehiclesOwes ==
    ASSUME ReportsInv, ReportsInv', NEW r \in Requests, Owed(r),
           ListVehicles(r)
    PROVE  Owed(r)'
  <1> DEFINE own == PlatesOf(User(r))
  <1>1. /\ TypeOK /\ TypeOK' /\ r \in DOMAIN input /\ own \subseteq held[r]
        /\ pc[r] = "ListVehicles" /\ answer[r] = "none"
    BY DEF ReportsInv, Coherent, ListVehicles, At, Live
  <1>2. UNCHANGED <<tables, input, shown, total, past>>
    BY DEF ListVehicles
  <1>3. PICK some \in SUBSET own :
          /\ Cardinality(some) = Min({Cardinality(own), MaxVehicles})
          /\ plates' = [plates EXCEPT ![r] = some]
          /\ IF some = {} THEN Respond(r, "200") ELSE Goto(r, "ListPage")
    BY DEF ListVehicles
  <1>4. plates'[r] = some
    BY <1>1, <1>3 DEF TypeOK
  <1>5. \/ some = {} /\ answer'[r] = "200" /\ pc'[r] = "ListVehicles"
        \/ some # {} /\ answer'[r] = "none" /\ pc'[r] = "ListPage"
    BY <1>1, <1>3 DEF Respond, Goto, TypeOK
  <1>6. /\ IsFiniteSet(own) /\ Cardinality(own) \in Nat
        /\ Cardinality(own) <= Cardinality(held[r])
        /\ Cardinality(held[r]) \in Nat
        /\ MaxVehicles \in Nat /\ MaxVehicles # 0
    BY <1>1, FinitelyMany, FS_Subset, FS_CardinalityType, SizeAssumption
  <1> HIDE DEF own
  <1>7. \/ Cardinality(some) = Cardinality(own)
        \/ /\ Cardinality(some) = MaxVehicles
           /\ MaxVehicles < Cardinality(own)
    <2>1. ASSUME NEW n \in Nat, NEW m \in Nat
          PROVE  Min({n, m}) = n \/ (Min({n, m}) = m /\ m < n)
      <3>1. \E x \in {n, m} : \A y \in {n, m} : x <= y
        OBVIOUS
      <3> QED
        BY <3>1 DEF Min
    <2> QED
      BY <1>3, <1>6, <2>1
  <1>8. some = {} => own = {}
    BY <1>6, <1>7, FS_EmptySet
  <1>9. Cardinality(held[r]) <= MaxVehicles => some = own
    <2>1. Cardinality(held[r]) <= MaxVehicles =>
             Cardinality(some) = Cardinality(own)
      BY <1>6, <1>7
    <2> QED
      BY <1>3, <1>6, <2>1, FS_Subset
  <1>10. /\ \A v \in due[r] : violations[v].plate \in own
         /\ due[r] \subseteq DOMAIN violations
         /\ due[r] # {} => input[r].op = "List"
    BY <1>1 DEF Owed, At, own
  <1>11. /\ ListedAll(r)' => ListedAll(r)
         /\ User(r)' = User(r)
         /\ Matching(r)' = {v \in DOMAIN violations :
                User(r) \in Officers \/ violations[v].plate \in some}
    BY <1>2, <1>4 DEF ListedAll, Matching, User, tables, past
  <1>12. ListedAll(r)' => due[r] \subseteq Matching(r)'
    BY <1>9, <1>10, <1>11 DEF ListedAll
  <1> QED
    BY <1>1, <1>2, <1>5, <1>8, <1>10, <1>12 DEF Owed, At, tables, past

\* A first page that is not full holds all that matches.
LEMMA ListPageOwes ==
    ASSUME ReportsInv, ReportsInv', NEW r \in Requests, Owed(r), ListPage(r)
    PROVE  Owed(r)'
  <1> DEFINE n == Cardinality(Matching(r))
  <1>1. /\ TypeOK /\ r \in DOMAIN input /\ input[r].op = "List"
        /\ pc[r] = "ListPage" /\ answer[r] = "none"
        /\ n \in Nat /\ IsFiniteSet(Matching(r))
    BY MatchingFinite DEF ReportsInv, Coherent, Listing, ListPage, At
  <1>2. UNCHANGED <<tables, input, plates, total, past>>
    BY DEF ListPage
  <1>3. due[r] \subseteq DOMAIN violations
    BY DEF Owed
  <1>4. ListedAll(r) => due[r] \subseteq Matching(r)
    BY <1>1 DEF Owed
  <1>5. /\ Matching(r)' = Matching(r)
        /\ ListedAll(r)' => ListedAll(r)
    BY <1>2 DEF ListedAll, Matching, User, tables, past
  <1>6. CASE Respond(r, "500") /\ UNCHANGED shown
    <2>1. pc'[r] = "ListPage" /\ answer'[r] = "500"
      BY <1>1, <1>6 DEF Respond, TypeOK
    <2> QED
      BY <1>1, <1>2, <1>3, <1>4, <1>5, <2>1 DEF Owed, At, tables, past
  <1>7. CASE /\ \E page \in SUBSET Matching(r) :
                   /\ Cardinality(page) = PageLength(r, n)
                   /\ shown' = [shown EXCEPT ![r] = Details(page)]
             /\ Goto(r, "Count")
    <2>1. PICK page \in SUBSET Matching(r) :
            /\ Cardinality(page) = PageLength(r, n)
            /\ shown' = [shown EXCEPT ![r] = Details(page)]
      BY <1>7
    <2>2. DOMAIN shown'[r] = page /\ pc'[r] = "Count" /\ UNCHANGED answer
      BY <1>1, <1>7, <2>1 DEF TypeOK, Details, Goto
    <2>3. input[r].page = 1 /\ Cardinality(page) < PageSize =>
             page = Matching(r)
      <3> SUFFICES ASSUME input[r].page = 1, Cardinality(page) < PageSize
                   PROVE  page = Matching(r)
        OBVIOUS
      <3>1. Offset(r) = 0
        <4>1. (input[r].page - 1) * PageSize = 0
          BY SizeAssumption
        <4>2. Half \in Nat \ {0}
          BY WidthAssumption
        <4> QED
          BY <4>1, <4>2, NarrowExact DEF Offset, OffsetOf
      <3>2. Cardinality(page) = IF n = 0 THEN 0 ELSE Min({n, PageSize})
        <4>1. n - 0 = n /\ (n <= 0 <=> n = 0)
          BY <1>1
        <4>2. PageLength(r, n) = IF n = 0 THEN 0 ELSE Min({n, PageSize})
          BY <3>1, <4>1 DEF PageLength
        <4> QED
          BY <2>1, <4>2
      <3>3. Min({n, PageSize}) \in {n, PageSize}
        <4>1. \E x \in {n, PageSize} : \A y \in {n, PageSize} : x <= y
          BY <1>1, SizeAssumption
        <4> QED
          BY <4>1 DEF Min
      <3>4. Cardinality(page) = n
        BY <1>1, <3>2, <3>3, SizeAssumption
      <3> QED
        BY <1>1, <2>1, <3>4, FS_Subset
    <2> HIDE DEF n
    <2> QED
      BY <1>1, <1>2, <1>3, <1>4, <1>5, <2>2, <2>3 DEF Owed, At, tables, past
  <1> QED
    BY <1>6, <1>7 DEF ListPage

\* All that is owed matches, so it is counted.
LEMMA CountOwes ==
    ASSUME ReportsInv, ReportsInv', NEW r \in Requests, Owed(r), Count(r)
    PROVE  Owed(r)'
  <1>1. /\ TypeOK /\ r \in DOMAIN input
        /\ pc[r] = "Count" /\ answer[r] = "none"
        /\ IsFiniteSet(Matching(r))
    BY MatchingFinite DEF ReportsInv, Coherent, Count, At
  <1>2. UNCHANGED <<tables, input, plates, shown, past, pc>>
    BY DEF Count, Respond
  <1>3. total'[r] = Cardinality(Matching(r)) /\ answer'[r] = "200"
    BY <1>1 DEF Count, Respond, TypeOK
  <1>4. /\ Matching(r)' = Matching(r)
        /\ ListedAll(r)' => ListedAll(r)
    BY <1>2 DEF ListedAll, Matching, User, tables, past
  <1>5. ListedAll(r) => /\ due[r] \subseteq Matching(r)
                        /\ Cardinality(due[r]) <= Cardinality(Matching(r))
    <2>1. ListedAll(r) => due[r] \subseteq Matching(r)
      BY <1>1 DEF Owed
    <2> QED
      BY <1>1, <2>1, FS_Subset
  <1> QED
    BY <1>1, <1>2, <1>3, <1>4, <1>5 DEF Owed, At, tables, past

\* A statement of a Report or a Get, and what is left of one, owe nothing.
LEMMA OthersOwe ==
    ASSUME ReportsInv, NEW r \in Requests, Owed(r), UNCHANGED past,
           pc[r] \in {"ResolveRule", "CreateViolation", "ReadBack",
                      "GetDetail", "GetVehicle"},
           pc'[r] \in {"ResolveRule", "CreateViolation", "ReadBack",
                       "GetDetail", "GetVehicle"}
    PROVE  Owed(r)'
  <1>1. input[r].op \in {"Report", "Get"}
    BY DEF ReportsInv, Coherent, Reporting, Reading
  <1>2. due[r] = {}
    BY <1>1 DEF Owed
  <1> QED
    BY <1>2, NothingOwed DEF past

\* A step of a request leaves the others what they are owed.
LEMMA StepStays ==
    ASSUME ReportsInv, NEW r \in Requests, Step(r)
    PROVE  /\ Grows
           /\ UNCHANGED <<vehicles, input, past>>
           /\ \A q \in Requests \ {r} : Stays(q)
  <1>1. TypeOK
    BY DEF ReportsInv
  <1>2. UNCHANGED <<history, vehicles, input, past>>
    BY DEF Step, ResolveRule, CreateViolationOf, ReadBack, GetDetail,
           GetVehicle, ListVehicles, ListPage, Count, StatementFails,
           OrphanRuns, OrphanDies, Insertion, tables, handler
  <1>3. \A q \in Requests \ {r} :
           /\ pc'[q] = pc[q] /\ answer'[q] = answer[q]
           /\ plates'[q] = plates[q] /\ shown'[q] = shown[q]
           /\ total'[q] = total[q]
    <2>1. CASE ResolveRule(r) \/ CreateViolationOf(r) \/ ReadBack(r)
      BY <1>1, <2>1 DEF ResolveRule, CreateViolationOf, ReadBack, Goto,
                        Respond, TypeOK
    <2>2. CASE GetDetail(r) \/ GetVehicle(r)
      BY <1>1, <2>2 DEF GetDetail, GetVehicle, Goto, Respond, TypeOK
    <2>3. CASE ListVehicles(r) \/ ListPage(r) \/ Count(r)
      BY <1>1, <2>3 DEF ListVehicles, ListPage, Count, Goto, Respond, TypeOK
    <2>4. CASE StatementFails(r) \/ OrphanRuns(r) \/ OrphanDies(r)
      BY <1>1, <2>4 DEF StatementFails, OrphanRuns, OrphanDies, Respond,
                        handler, TypeOK
    <2> QED
      BY <2>1, <2>2, <2>3, <2>4 DEF Step
  <1>4. \A q \in Requests \ {r} : Stays(q)
    BY <1>2, <1>3 DEF Stays, PlatesOf, User, past
  <1>5. Grows
    <2>1. CASE CreateViolationOf(r) \/ OrphanRuns(r)
      <3>1. /\ pc[r] = "CreateViolation" /\ r \notin DOMAIN violations
            /\ Insertion(r)
        BY <2>1 DEF ReportsInv, Coherent, Reporting, CreateViolationOf,
                    OrphanRuns, At
      <3> QED
        BY <3>1, InsertionEffect
    <2>2. CASE ~(CreateViolationOf(r) \/ OrphanRuns(r))
      <3>1. UNCHANGED violations
        BY <2>2 DEF Step, ResolveRule, ReadBack, GetDetail, GetVehicle,
                    ListVehicles, ListPage, Count, StatementFails,
                    OrphanDies, tables
      <3> QED
        BY <1>1, <1>2, <3>1, GrowsUnchanged
    <2> QED
      BY <2>1, <2>2
  <1> QED
    BY <1>2, <1>4, <1>5

\* A Report on its own is owed nothing.
LEMMA ReportAloneOwes ==
    ASSUME ReportsInv, ReportsInv', DueInv, NEW r \in Requests,
           NEW u \in Members \cup Officers, NEW c \in CodeTexts,
           NEW p \in PlateTexts, ReportAlone(r, u, c, p)
    PROVE  DueInv'
  <1>1. /\ TypeOK /\ Owed(r) /\ pc[r] = "idle" /\ r \notin DOMAIN input
        /\ r \notin DOMAIN violations
        /\ UNCHANGED <<history, vehicles, plates, total, due>>
    BY DEF ReportsInv, DueInv, Coherent, Reporting, ReportAlone
  <1>2. Grows
    <2>1. /\ c \in Codes /\ Normal[p] \in Plates
          /\ Active(c) \in 1..Len(history[c])
      BY <1>1, RowTypes DEF ReportAlone, Active
    <2> QED
      BY <1>1, <2>1, FilingEffect DEF ReportAlone
  <1>3. Owed(r)'
    <2>1. due'[r] = {} /\ pc'[r] = "ReadBack"
      BY <1>1 DEF Owed, ReportAlone, TypeOK
    <2> QED
      BY <2>1, NothingOwed
  <1>4. \A q \in Requests \ {r} : Stays(q)
    <2> SUFFICES ASSUME NEW q \in Requests \ {r} PROVE Stays(q)
      OBVIOUS
    <2>1. /\ pc'[q] = pc[q] /\ answer'[q] = answer[q] /\ held'[q] = held[q]
          /\ shown'[q] = shown[q]
          /\ q \in DOMAIN input => q \in DOMAIN input' /\ input'[q] = input[q]
      BY <1>1 DEF ReportAlone, TypeOK, Insert
    <2>2. pc[q] # "idle" => q \in DOMAIN input
      BY DEF ReportsInv, Coherent
    <2> QED
      BY <1>1, <2>1, <2>2 DEF Stays, PlatesOf, User
  <1> QED
    BY <1>2, <1>3, <1>4, OneListing

\* A step of a request keeps what is due.
LEMMA StepOwes ==
    ASSUME ReportsInv, ReportsInv', DueInv, NEW r \in Requests, Step(r)
    PROVE  DueInv'
  <1>1. /\ Grows /\ UNCHANGED <<vehicles, input, past>>
        /\ \A q \in Requests \ {r} : Stays(q)
    BY StepStays
  <1>2. TypeOK /\ Owed(r)
    BY DEF ReportsInv, DueInv
  <1>3. CASE ResolveRule(r) \/ CreateViolationOf(r) \/ ReadBack(r)
             \/ GetDetail(r) \/ GetVehicle(r)
    <2>1. /\ pc[r] \in {"ResolveRule", "CreateViolation", "ReadBack",
                        "GetDetail", "GetVehicle"}
          /\ pc'[r] \in {"ResolveRule", "CreateViolation", "ReadBack",
                         "GetDetail", "GetVehicle"}
      BY <1>2, <1>3 DEF ResolveRule, CreateViolationOf, ReadBack, GetDetail,
                        GetVehicle, At, Goto, Respond, TypeOK
    <2> QED
      BY <1>1, <1>2, <2>1, OthersOwe, OneListing
  <1>4. CASE ListVehicles(r) \/ ListPage(r) \/ Count(r)
    BY <1>1, <1>2, <1>4, ListVehiclesOwes, ListPageOwes, CountOwes, OneListing
  <1>5. CASE StatementFails(r) \/ OrphanRuns(r) \/ OrphanDies(r)
    <2>1. /\ pc'[r] = pc[r] /\ answer'[r] \in {answer[r], "500"}
          /\ UNCHANGED <<plates, shown, total>>
      BY <1>2, <1>5 DEF StatementFails, OrphanRuns, OrphanDies, Respond,
                        handler, TypeOK
    <2>2. Stays(r)
      BY <1>1, <2>1 DEF Stays, PlatesOf, User, past
    <2> QED
      BY <1>1, <1>2, <2>2, OwedFrame, OneListing
  <1> QED
    BY <1>3, <1>4, <1>5 DEF Step

\* What moves under a request takes what is owed with it.
LEMMA EnvironmentOwes ==
    ASSUME ReportsInv, ReportsInv', DueInv, Environment
    PROVE  DueInv'
  <1>1. TypeOK
    BY DEF ReportsInv
  <1>2. SUFFICES Grows /\ \A q \in Requests : Stays(q)
    BY OwedFrame DEF DueInv
  <1>3. CASE \E c \in Codes, a \in Amounts : PublishRule(c, a)
    <2>1. Grows /\ UNCHANGED <<vehicles, handler, past>>
      BY <1>1, <1>3, GrowsPublish DEF PublishRule
    <2> QED
      BY <2>1 DEF Stays, PlatesOf, User, handler, past
  <1>4. CASE \E v \in Requests : PayViolation(v)
    <2>1. Grows /\ UNCHANGED <<vehicles, handler, past>>
      BY <1>1, <1>4, GrowsPay DEF PayViolation
    <2> QED
      BY <2>1 DEF Stays, PlatesOf, User, handler, past
  <1>5. CASE \E p \in Plates, u \in Members : RegisterVehicle(p, u)
    <2>1. PICK p \in Plates, u \in Members : RegisterVehicle(p, u)
      BY <1>5
    <2>2. /\ UNCHANGED <<history, violations, handler, due>>
          /\ DOMAIN vehicles' = DOMAIN vehicles \cup {p}
          /\ p \notin DOMAIN vehicles
          /\ \A k \in DOMAIN vehicles : vehicles'[k] = vehicles[k]
      BY <2>1 DEF RegisterVehicle, Registry!Register, Registry!Insert
    <2>3. \A q \in Requests : held[q] \subseteq held'[q]
      BY <2>1 DEF RegisterVehicle
    <2>4. Grows
      BY <1>1, <2>2, GrowsUnchanged
    <2> QED
      BY <2>2, <2>3, <2>4 DEF Stays, PlatesOf, User, handler
  <1>6. CASE \E p \in Plates : RemoveVehicle(p)
    <2>1. PICK p \in Plates : RemoveVehicle(p)
      BY <1>6
    <2>2. /\ UNCHANGED <<history, violations, handler, held>>
          /\ DOMAIN vehicles' = DOMAIN vehicles \ {p}
          /\ \A k \in DOMAIN vehicles' : vehicles'[k] = vehicles[k]
      BY <2>1 DEF RemoveVehicle, Registry!Remove, Registry!Delete
    <2>3. Grows
      BY <1>1, <2>2, GrowsUnchanged
    <2>4. ASSUME NEW q \in Requests PROVE Stays(q)
      <3>1. due'[q] = {v \in due[q] : ~(/\ Live(q) /\ User(q) = vehicles[p]
                                       /\ violations[v].plate = p)}
        BY <2>1 DEF RemoveVehicle
      <3>2. ASSUME pc[q] = "ListVehicles", answer'[q] = "none",
                   NEW v \in due'[q], violations[v].plate \in PlatesOf(User(q))
            PROVE  violations[v].plate \in PlatesOf(User(q))'
        <4>1. Live(q)
          BY <2>2, <3>2 DEF Live, handler
        <4>2. violations[v].plate # p
          BY <3>1, <3>2, <4>1 DEF PlatesOf
        <4> QED
          BY <2>2, <3>2, <4>2 DEF PlatesOf, User, handler
      <3>3. due'[q] \subseteq due[q]
        BY <3>1
      <3> QED
        BY <2>2, <3>2, <3>3 DEF Stays, handler
    <2> QED
      BY <2>3, <2>4
  <1> QED
    BY <1>3, <1>4, <1>5, <1>6 DEF Environment

\* Nothing is due before a listing is asked for.
LEMMA InitDue == Init => DueInv
  BY DEF Init, DueInv, Owed, At

\* Every step keeps what is due.
LEMMA NextDue == ReportsInv /\ ReportsInv' /\ DueInv /\ [Next]_vars => DueInv'
  <1> SUFFICES ASSUME ReportsInv, ReportsInv', DueInv, [Next]_vars
               PROVE  DueInv'
    OBVIOUS
  <1>1. TypeOK
    BY DEF ReportsInv
  <1>2. CASE UNCHANGED vars
    <2>1. Grows /\ \A q \in Requests : Stays(q)
      BY <1>1, <1>2, GrowsUnchanged
         DEF Stays, PlatesOf, User, vars, tables, handler, past
    <2> QED
      BY <2>1, OwedFrame DEF DueInv
  <1>3. CASE \E r \in Requests, u \in Members \cup Officers : Receive(r, u)
    BY <1>3, ReceiveOwes
  <1>4. CASE \E r \in Requests : Step(r)
    BY <1>4, StepOwes
  <1>5. CASE Crash
    <2>1. /\ UNCHANGED <<tables, input, plates, shown, total, pc, past>>
          /\ \A q \in Requests : answer'[q] \in {answer[q], "lost"}
      BY <1>5 DEF Crash
    <2>2. Grows /\ \A q \in Requests : Stays(q)
      BY <1>1, <2>1, GrowsUnchanged DEF Stays, PlatesOf, User, tables, past
    <2> QED
      BY <2>2, OwedFrame DEF DueInv
  <1>6. CASE Environment
    BY <1>6, EnvironmentOwes
  <1>7. CASE \E r \in Requests, u \in Members \cup Officers, c \in CodeTexts,
                p \in PlateTexts : ReportAlone(r, u, c, p)
    BY <1>7, ReportAloneOwes
  <1> QED
    BY <1>2, <1>3, <1>4, <1>5, <1>6, <1>7 DEF Next

-----------------------------------------------------------------------------
(* What the invariants show.                                               *)

\* ReportsInv holds in every reachable state, for any users, plates, codes
\* page size and width of the offset and any finite set of requests
\* (ViolationService).
THEOREM InvariantHolds == Spec => []ReportsInv
  BY InitReports, NextReports, PTL DEF Spec

\* The tables and what the requests hold keep their types (Reports!TypeOK).
THEOREM TypeCorrect == Spec => []TypeOK
  <1>1. ReportsInv => TypeOK
    BY DEF ReportsInv
  <1> QED
    BY <1>1, InvariantHolds, PTL

\* A violation cites a version its code had active at some moment between
\* the arrival of the report and the insert (violation.go:109-126).
THEOREM CitationsHold == Spec => []CitesTheRuleOfItsTime
  <1>1. ReportsInv => CitesTheRuleOfItsTime
    <2> SUFFICES ASSUME ReportsInv, NEW v \in DOMAIN violations
                 PROVE  /\ violations[v].code = input[v].code
                        /\ violations[v].plate = Normal[input[v].plate]
                        /\ violations[v].version >= since[v]
                        /\ violations[v].version
                              <= Len(history[violations[v].code])
      BY DEF CitesTheRuleOfItsTime
    <2>1. v \in Requests /\ TypeOK /\ Coherent(v)
      BY RowTypes DEF ReportsInv
    <2>2. /\ violations[v].code = input[v].code
          /\ violations[v].plate = Normal[input[v].plate]
          /\ violations[v].version = cited[v]
          /\ cited[v] >= since[v]
      BY <2>1 DEF Coherent, Reporting
    <2>3. violations[v].version \in 1..Len(history[violations[v].code])
      BY <2>1 DEF TypeOK
    <2>4. Len(history[violations[v].code]) \in Nat
      BY <2>1, RowTypes
    <2> QED
      BY <2>2, <2>3, <2>4
  <1> QED
    BY <1>1, InvariantHolds, PTL

\* 201 means the violation is there and was shown; a refusal means nothing
\* was inserted and nothing will be (violation.go:93-138).
THEOREM AnswersHold == Spec => []AnswersAreTruthful
  <1>1. ReportsInv => AnswersAreTruthful
    BY DEF ReportsInv, Coherent, Reporting, AnswersAreTruthful, Answered
  <1> QED
    BY <1>1, InvariantHolds, PTL

\* What a request has read stays true but for a status that turns PAID.
THEOREM ReadsHold == Spec => []ReadsStayTrue
  <1>1. ReportsInv => ReadsStayTrue
    BY DEF ReportsInv, Coherent, Reading, ReadsStayTrue
  <1> QED
    BY <1>1, InvariantHolds, PTL

\* A member is shown violations of plates that were the member's while the
\* request ran (violation.go:151-166 and 196-229).
THEOREM OwnersOnly == Spec => []MembersSeeTheirOwn
  <1>1. ReportsInv => MembersSeeTheirOwn
    <2> SUFFICES ASSUME ReportsInv, NEW r \in Requests, answer[r] = "200",
                        User(r) \notin Officers, NEW v \in DOMAIN shown[r]
                 PROVE  violations[v].plate \in held[r]
      BY DEF MembersSeeTheirOwn, Answered
    <2>1. Coherent(r) /\ pc[r] \in Statements
      BY DEF ReportsInv, Coherent, TypeOK
    <2>2. pc[r] \in {"GetVehicle", "Count"}
      BY <2>1 DEF Coherent, Reporting, Reading, Listing
    <2>3. CASE pc[r] = "GetVehicle"
      BY <2>1, <2>3 DEF Coherent, Reading
    <2>4. CASE pc[r] = "Count"
      BY <2>1, <2>4 DEF Coherent, Listing, Matching
    <2> QED
      BY <2>2, <2>3, <2>4
  <1> QED
    BY <1>1, InvariantHolds, PTL

\* The total reaches to the last row of the page shown with it, on every
\* page whose offset fits (violation.go:178).
THEOREM CountsCover == Spec => []CountCoversPage
  <1>1. ReportsInv => CountCoversPage
    <2> SUFFICES ASSUME ReportsInv, NEW r \in Requests, answer[r] = "200",
                        input[r].op = "List", DOMAIN shown[r] # {},
                        RowsBefore(r) < Half
                 PROVE  RowsBefore(r) + Cardinality(DOMAIN shown[r])
                           <= total[r]
      BY DEF CountCoversPage, Answered
    <2>1. Coherent(r) /\ pc[r] \in Statements
      BY DEF ReportsInv, Coherent, TypeOK
    <2>2. pc[r] = "Count"
      BY <2>1 DEF Coherent, Reporting, Reading, Listing
    <2>3. Offset(r) = RowsBefore(r)
      BY <2>1, <2>2, OffsetFits DEF ReportsInv, Coherent
    <2> QED
      BY <2>1, <2>2, <2>3 DEF Coherent, Listing
  <1> QED
    BY <1>1, InvariantHolds, PTL

\* What is due to a listing stays within what it finds, however vehicles
\* change hands and violations come in between its statements.
THEOREM DueHolds == Spec => []DueInv
  BY InitReports, InitDue, NextReports, NextDue, PTL DEF Spec

\* A listing omits nothing that is due, its total counts all of it, and the
\* total reaches to the last row shown on a page whose offset fits
\* (violation.go:178-241).
THEOREM ListingsComplete == Spec => []ListingsAddUp
  <1>1. ReportsInv /\ DueInv => NothingOmitted
    <2> SUFFICES ASSUME ReportsInv, DueInv, NEW r \in Requests,
                        answer[r] = "200", input[r].op = "List", ListedAll(r)
                 PROVE  /\ Cardinality(due[r]) <= total[r]
                        /\ /\ input[r].page = 1
                           /\ Cardinality(DOMAIN shown[r]) < PageSize
                           => due[r] \subseteq DOMAIN shown[r]
      BY DEF NothingOmitted, Answered
    <2>1. Coherent(r) /\ Owed(r) /\ TypeOK
      BY DEF ReportsInv, DueInv
    <2>2. pc[r] \in {"ListVehicles", "Count"}
      BY <2>1 DEF TypeOK, Coherent, Reporting, Reading, Owed
    <2>3. CASE pc[r] = "Count"
      BY <2>1, <2>3 DEF Owed
    <2>4. CASE pc[r] = "ListVehicles"
      <3>1. due[r] = {}
        BY <2>1, <2>4 DEF Owed
      <3> QED
        BY <2>1, <3>1, FS_EmptySet DEF TypeOK
    <2> QED
      BY <2>2, <2>3, <2>4
  <1>2. NothingOmitted /\ CountCoversPage => ListingsAddUp
    BY DEF ListingsAddUp
  <1> QED
    BY <1>1, <1>2, InvariantHolds, DueHolds, CountsCover, PTL

-----------------------------------------------------------------------------
(* What the claim that fails does hold under.                              *)

\* The lookup of a Report (violation.go:109-113) refuses a code for no other
\* reason than its spelling or that it has no rule.
THEOREM StoredSpellingsResolve ==
    ASSUME CodesAsStored PROVE Spec => RefusedCodeDoesNotExist
  <1> DEFINE Refusal == \A r \in Requests :
        answer[r] # "422" /\ answer'[r] = "422" /\ pc[r] = "ResolveRule"
          => \A c \in Codes : c = Normal[input[r].code] => history[c] = << >>
  <1>1. ReportsInv /\ [Next]_vars => [Refusal]_vars
    <2> SUFFICES ASSUME ReportsInv, Next, NEW r \in Requests,
                        answer[r] # "422", answer'[r] = "422",
                        pc[r] = "ResolveRule",
                        NEW c \in Codes, c = Normal[input[r].code]
                 PROVE  history[c] = << >>
      OBVIOUS
    <2>1. TypeOK /\ Coherent(r) /\ Reporting(r)
      BY DEF ReportsInv, Coherent
    <2>2. ResolveRule(r)
      <3>1. ASSUME NEW q \in Requests, NEW u \in Members \cup Officers, Receive(q, u)
            PROVE  FALSE
        BY <2>1, <3>1 DEF Receive, ReceiveReport, ReceiveGet, ReceiveList, Arrive,
                          TypeOK
      <3>2. ASSUME Crash \/ Environment PROVE FALSE
        BY <2>1, <3>2 DEF Crash, Environment, PublishRule, RegisterVehicle,
                          RemoveVehicle, PayViolation, handler, TypeOK
      <3>3. ASSUME NEW q \in Requests, NEW u, NEW d, NEW p,
                   ReportAlone(q, u, d, p)
            PROVE  FALSE
        BY <2>1, <3>3 DEF ReportAlone, TypeOK
      <3>4. ASSUME NEW q \in Requests, Step(q) PROVE q = r /\ ResolveRule(r)
        <4>1. q = r
          BY <3>4, StepStays DEF Stays
        <4> QED
          BY <2>1, <3>4, <4>1 DEF Step, CreateViolationOf, ReadBack, GetDetail,
             GetVehicle, ListVehicles, ListPage, Count, StatementFails,
             OrphanRuns, OrphanDies, At, Respond, Goto, handler, TypeOK
      <3> QED
        BY <3>1, <3>2, <3>3, <3>4 DEF Next
    <2>3. Active(input[r].code) = 0
      BY <2>1, <2>2 DEF ResolveRule, Respond, Goto, At, TypeOK
    <2>4. input[r].code = c
      <3>1. input[r] \in InputRow /\ input[r].op = "Report"
        BY <2>1 DEF ReportsInv, Coherent, TypeOK, IsTable, Reporting
      <3>2. input[r].code \in CodeTexts
        BY <3>1 DEF InputRow
      <3> QED
        BY <3>2 DEF CodesAsStored
    <2>5. history[c] \in Seq(Amounts) /\ Len(history[c]) = 0
      BY <2>1, <2>3, <2>4 DEF Active, TypeOK
    <2> QED
      BY <2>5, EmptySeq
  <1> QED
    BY <1>1, InvariantHolds, PTL DEF Spec, RefusedCodeDoesNotExist

=============================================================================
