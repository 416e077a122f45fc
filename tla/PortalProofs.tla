---------------------------- MODULE PortalProofs ----------------------------
(***************************************************************************)
(* Proofs about Portal: running together, in a process that may be stopped *)
(* or killed at any time, the two services are what their own modules say. *)
(* What is proved of each in PaymentProofs and ReportsProofs, for an       *)
(* environment it makes assumptions about, then holds of the portal.       *)
(***************************************************************************)
EXTENDS Portal, TLAPS

PP == INSTANCE PaymentProofs
        WITH Requests <- Payers, ViolationIds <- Reporters, input <- pInput,
             seen <- pSeen, pc <- pPc, answer <- pAnswer,
             orphans <- pOrphans, held <- pHeld
RR == INSTANCE ReportsProofs
        WITH Requests <- Reporters, Alone <- {}, input <- rInput, pc <- rPc,
             answer <- rAnswer, orphans <- rOrphans, held <- rHeld

\* The instances with the proofs are of the same specifications.
LEMMA SamePayment ==
    /\ [P!Next]_(P!vars) <=> [PP!Next]_(PP!vars)
    /\ P!PaymentInv <=> PP!PaymentInv
    /\ P!PaymentInv' <=> PP!PaymentInv'
    /\ P!Init <=> PP!Init
  <1>1. [P!Next]_(P!vars) <=> [PP!Next]_(PP!vars)
    BY DEF P!Live, PP!Live, P!Cards, PP!Cards, P!Writes, PP!Writes,
       P!Statements, PP!Statements, P!Answers, PP!Answers, P!At, PP!At,
       P!Goto, PP!Goto, P!Respond, PP!Respond, P!PlatesOf, PP!PlatesOf,
       P!Receive, PP!Receive, P!GetViolation, PP!GetViolation, P!Owns,
       PP!Owns, P!GetVehicle, PP!GetVehicle, P!Insertion, PP!Insertion,
       P!Settlement, PP!Settlement, P!RecordFailed, PP!RecordFailed,
       P!UpdateStatus, PP!UpdateStatus, P!RecordSuccess, PP!RecordSuccess,
       P!StatementFails, PP!StatementFails, P!Crash, PP!Crash, P!OrphanRuns,
       PP!OrphanRuns, P!OrphanDies, PP!OrphanDies, P!Step, PP!Step,
       P!Orphan, PP!Orphan, P!PublishRule, PP!PublishRule,
       P!ReportViolation, PP!ReportViolation, P!RegisterVehicle,
       PP!RegisterVehicle, P!RemoveVehicle, PP!RemoveVehicle, P!Environment,
       PP!Environment, P!Next, PP!Next, P!tables, PP!tables, P!handler,
       PP!handler, P!vars, PP!vars, P!Rules!Publish, PP!Rules!Publish,
       P!Registry!Register, PP!Registry!Register, P!Registry!Remove,
       PP!Registry!Remove, P!Registry!Insert, PP!Registry!Insert,
       P!Registry!Delete, PP!Registry!Delete, P!CreateViolation,
       PP!CreateViolation, P!Insert, PP!Insert, P!Delete, PP!Delete,
       P!GetViolationByID, PP!GetViolationByID, P!FineOf, PP!FineOf,
       P!UpdateViolationStatus, PP!UpdateViolationStatus, P!CreatePayment,
       PP!CreatePayment
  <1>2. P!PaymentInv <=> PP!PaymentInv
    BY DEF P!PaymentInv, PP!PaymentInv, P!TypeOK, PP!TypeOK, P!IsTable,
       PP!IsTable, P!Coherent, PP!Coherent, P!Live, PP!Live, P!At, PP!At,
       P!PlatesOf, PP!PlatesOf, P!Paid, PP!Paid, P!Writes, PP!Writes,
       P!Statements, PP!Statements, P!Answers, PP!Answers, P!InputRow,
       PP!InputRow, P!SeenRow, PP!SeenRow, P!ViolationRow, PP!ViolationRow,
       P!PaymentRow, PP!PaymentRow, P!FineOf, PP!FineOf, P!Cards, PP!Cards
  <1>3. P!PaymentInv' <=> PP!PaymentInv'
    BY DEF P!PaymentInv, PP!PaymentInv, P!TypeOK, PP!TypeOK, P!IsTable,
       PP!IsTable, P!Coherent, PP!Coherent, P!Live, PP!Live, P!At, PP!At,
       P!PlatesOf, PP!PlatesOf, P!Paid, PP!Paid, P!Writes, PP!Writes,
       P!Statements, PP!Statements, P!Answers, PP!Answers, P!InputRow,
       PP!InputRow, P!SeenRow, PP!SeenRow, P!ViolationRow, PP!ViolationRow,
       P!PaymentRow, PP!PaymentRow, P!FineOf, PP!FineOf, P!Cards, PP!Cards
  <1>4. P!Init <=> PP!Init
    BY DEF P!Init, PP!Init, P!Rules!Init, PP!Rules!Init
  <1> QED
    BY <1>1, <1>2, <1>3, <1>4

\* And so for the violation service.
LEMMA SameReports ==
    /\ [R!Next]_(R!vars) <=> [RR!Next]_(RR!vars)
    /\ R!ReportsInv <=> RR!ReportsInv
    /\ R!ReportsInv' <=> RR!ReportsInv'
    /\ R!Init <=> RR!Init
  <1>1. [R!Next]_(R!vars) <=> [RR!Next]_(RR!vars)
    BY DEF R!Live, RR!Live, R!Statements, RR!Statements, R!Answers, RR!Answers,
       R!At, RR!At, R!Goto, RR!Goto, R!Respond, RR!Respond, R!User, RR!User,
       R!PlatesOf, RR!PlatesOf, R!Active, RR!Active, R!Arrive, RR!Arrive,
       R!ReceiveReport, RR!ReceiveReport, R!ReceiveGet, RR!ReceiveGet,
       R!ReceiveList, RR!ReceiveList, R!ResolveRule, RR!ResolveRule,
       R!Insertion, RR!Insertion, R!CreateViolationOf, RR!CreateViolationOf,
       R!Details, RR!Details, R!ReadBack, RR!ReadBack, R!GetDetail,
       RR!GetDetail, R!GetVehicle, RR!GetVehicle, R!ListVehicles,
       RR!ListVehicles, R!Matching, RR!Matching, R!Offset, RR!Offset, R!OffsetOf,
       RR!OffsetOf, R!Narrow, RR!Narrow, R!Half, RR!Half,
       R!PageLength, RR!PageLength, R!ListPage, RR!ListPage, R!Count,
       RR!Count, R!StatementFails, RR!StatementFails, R!Crash, RR!Crash,
       R!OrphanRuns, RR!OrphanRuns, R!OrphanDies, RR!OrphanDies,
       R!PublishRule, RR!PublishRule, R!RegisterVehicle, RR!RegisterVehicle,
       R!RemoveVehicle, RR!RemoveVehicle, R!PayViolation, RR!PayViolation,
       R!Receive, RR!Receive, R!Step, RR!Step, R!Environment,
       RR!Environment, R!ReportAlone, RR!ReportAlone, R!Next, RR!Next, R!tables, RR!tables, R!handler,
       RR!handler, R!past, RR!past, R!vars, RR!vars, R!Rules!Publish,
       RR!Rules!Publish, R!Registry!Register, RR!Registry!Register,
       R!Registry!Remove, RR!Registry!Remove, R!Registry!Insert,
       RR!Registry!Insert, R!Registry!Delete, RR!Registry!Delete,
       R!CreateViolation, RR!CreateViolation, R!Insert, RR!Insert, R!Delete,
       RR!Delete, R!GetViolationByID, RR!GetViolationByID, R!FineOf,
       RR!FineOf, R!UpdateViolationStatus, RR!UpdateViolationStatus, R!Cardinality, RR!Cardinality,
       R!Min,
       RR!Min
  <1>2. R!ReportsInv <=> RR!ReportsInv
    BY DEF R!ReportsInv, RR!ReportsInv, R!TypeOK, RR!TypeOK, R!IsTable,
       RR!IsTable, R!Coherent, RR!Coherent, R!Reporting, RR!Reporting,
       R!Reading, RR!Reading, R!Listing, RR!Listing, R!Live, RR!Live, R!At,
       RR!At, R!User, RR!User, R!PlatesOf, RR!PlatesOf, R!Active, RR!Active,
       R!Matching, RR!Matching, R!Offset, RR!Offset, R!OffsetOf,
       RR!OffsetOf, R!Narrow, RR!Narrow, R!Half, RR!Half, R!Statements,
       RR!Statements, R!Answers, RR!Answers, R!InputRow, RR!InputRow,
       R!ViolationRow, RR!ViolationRow, R!DetailRow, RR!DetailRow, R!FineOf,
       RR!FineOf, R!Cardinality, RR!Cardinality
  <1>3. R!ReportsInv' <=> RR!ReportsInv'
    BY DEF R!ReportsInv, RR!ReportsInv, R!TypeOK, RR!TypeOK, R!IsTable,
       RR!IsTable, R!Coherent, RR!Coherent, R!Reporting, RR!Reporting,
       R!Reading, RR!Reading, R!Listing, RR!Listing, R!Live, RR!Live, R!At,
       RR!At, R!User, RR!User, R!PlatesOf, RR!PlatesOf, R!Active, RR!Active,
       R!Matching, RR!Matching, R!Offset, RR!Offset, R!OffsetOf,
       RR!OffsetOf, R!Narrow, RR!Narrow, R!Half, RR!Half, R!Statements,
       RR!Statements, R!Answers, RR!Answers, R!InputRow, RR!InputRow,
       R!ViolationRow, RR!ViolationRow, R!DetailRow, RR!DetailRow, R!FineOf,
       RR!FineOf, R!Cardinality, RR!Cardinality
  <1>4. R!Init <=> RR!Init
    BY DEF R!Init, RR!Init, R!Rules!Init, RR!Rules!Init
  <1> QED
    BY <1>1, <1>2, <1>3, <1>4

\* A step of the payment service keeps its invariant.
LEMMA PaymentStep == P!PaymentInv /\ [P!Next]_(P!vars) => P!PaymentInv'
  BY SamePayment, PP!NextPayment

\* So does one of the violation service.
LEMMA ReportsStep == R!ReportsInv /\ [R!Next]_(R!vars) => R!ReportsInv'
  <1>1. RR!IsFiniteSet(Reporters) /\ RR!IsFiniteSet(Plates)
    BY PortalAssumption DEF RR!IsFiniteSet, IsFiniteSet
  <1> QED
    BY <1>1, SameReports, RR!NextReports, PortalAssumption DEF RR!Half

-----------------------------------------------------------------------------
(* What the step of one service is to the other.                           *)

\* An insert of the violation service is a report to the payment service:
\* of a new violation, citing a version that exists.
LEMMA InsertionIsReport ==
    ASSUME PortalInv, NEW r \in Reporters, R!Insertion(r), UNCHANGED paying,
           R!At(r, "CreateViolation") \/ r \in rOrphans
    PROVE  P!Environment
  <1>1. R!Coherent(r) /\ R!TypeOK
    BY DEF PortalInv, R!ReportsInv
  <1>2. rPc[r] = "CreateViolation"
    BY <1>1 DEF R!Coherent, R!Reporting, R!At
  <1>3. /\ rInput[r].code \in Codes /\ Normal[rInput[r].plate] \in Plates
        /\ cited[r] \in 1..Len(history[rInput[r].code])
        /\ r \notin DOMAIN violations
    BY <1>1, <1>2 DEF R!Coherent, R!Reporting, R!At
  <1>4. cited[r] \in 1..MaxVersion
    <2>1. Len(history[rInput[r].code]) \in Nat
      BY <1>1, <1>3 DEF R!TypeOK
    <2>2. Len(history[rInput[r].code]) <= MaxVersion
      BY <1>3 DEF PortalInv
    <2> QED
      BY <1>3, <2>1, <2>2, PortalAssumption
  <1>5. P!ReportViolation(r, Normal[rInput[r].plate], rInput[r].code, cited[r])
    BY <1>3 DEF R!Insertion, P!ReportViolation, R!CreateViolation,
                P!CreateViolation, R!Insert, P!Insert, paying, P!handler
  <1> QED
    BY <1>3, <1>4, <1>5 DEF P!Environment

\* Nothing else a request to the violation service does concerns payments.
LEMMA ReporterStep ==
    ASSUME PortalInv, NEW r \in Reporters, R!Step(r), UNCHANGED paying
    PROVE  P!Environment \/ UNCHANGED P!vars
  <1>1. \/ R!CreateViolationOf(r) \/ R!OrphanRuns(r)
        \/ UNCHANGED <<history, vehicles, violations>>
    BY DEF R!Step, R!ResolveRule, R!ReadBack, R!GetDetail, R!GetVehicle,
           R!ListVehicles, R!ListPage, R!Count, R!StatementFails,
           R!OrphanDies, R!tables
  <1>2. CASE R!CreateViolationOf(r) \/ R!OrphanRuns(r)
    BY <1>2, InsertionIsReport DEF R!CreateViolationOf, R!OrphanRuns
  <1>3. CASE UNCHANGED <<history, vehicles, violations>>
    BY <1>3 DEF paying, P!vars, P!tables, P!handler
  <1> QED
    BY <1>1, <1>2, <1>3

\* A settlement of the payment service is a payment to the violation service.
LEMMA SettlementIsPayment ==
    ASSUME PortalInv, NEW r \in Payers, P!Settlement(r), UNCHANGED reporting,
           pPc[r] \in P!Writes
    PROVE  R!Environment
  <1>1. P!Coherent(r) /\ P!TypeOK
    BY DEF PortalInv, P!PaymentInv
  <1>2. pInput[r].violation \in DOMAIN violations
    BY <1>1 DEF P!Coherent
  <1>3. pInput[r].violation \in Reporters
    BY <1>1, <1>2 DEF P!TypeOK, P!IsTable
  <1>4. R!PayViolation(pInput[r].violation)
    BY <1>2 DEF P!Settlement, R!PayViolation, P!UpdateViolationStatus,
                R!UpdateViolationStatus, reporting, R!handler, R!past
  <1> QED
    BY <1>3, <1>4 DEF R!Environment

\* Nothing else a payment request does concerns the violation service.
LEMMA PayerStep ==
    ASSUME PortalInv, NEW r \in Payers, P!Step(r) \/ P!Orphan(r),
           UNCHANGED reporting
    PROVE  R!Environment \/ UNCHANGED R!vars
  <1>1. \/ P!Settlement(r) /\ pPc[r] = "UpdateStatus"
        \/ UNCHANGED <<history, vehicles, violations>>
    BY DEF P!Step, P!Orphan, P!GetViolation, P!GetVehicle, P!RecordFailed,
           P!UpdateStatus, P!RecordSuccess, P!StatementFails, P!OrphanRuns,
           P!OrphanDies, P!Insertion, P!At, P!tables
  <1>2. CASE P!Settlement(r) /\ pPc[r] = "UpdateStatus"
    BY <1>2, SettlementIsPayment DEF P!Writes
  <1>3. CASE UNCHANGED <<history, vehicles, violations>>
    BY <1>3 DEF reporting, R!vars, R!tables, R!handler, R!past
  <1> QED
    BY <1>1, <1>2, <1>3

-----------------------------------------------------------------------------
(* What a step of the portal is to each service.                           *)

\* A process that perishes is a crash to both services, if they run.
LEMMA PerishStep ==
    ASSUME NEW sent, Perish(sent)
    PROVE  /\ P!Crash \/ UNCHANGED P!vars
           /\ R!Crash \/ UNCHANGED R!vars
  BY DEF Perish, paying, reporting, P!vars, P!tables, P!handler, R!vars,
         R!tables, R!handler, R!past

\* To the payment service it is one of its own steps, or none.
LEMMA PaymentSees ==
    ASSUME PortalInv, [Next]_vars
    PROVE  [P!Next]_(P!vars)
  <1> DEFINE same == UNCHANGED P!vars
  <1>1. ASSUME UNCHANGED <<history, vehicles, violations, paying>> PROVE same
    BY <1>1 DEF paying, P!vars, P!tables, P!handler
  <1>2. CASE UNCHANGED vars
    BY <1>1, <1>2 DEF vars
  <1>3. CASE Arrives
    <2>1. ASSUME NEW r \in Reporters, NEW u \in Members \cup Officers,
                 R!Receive(r, u)
          PROVE  UNCHANGED <<history, vehicles, violations>>
      BY <2>1 DEF R!Receive, R!ReceiveReport, R!ReceiveGet, R!ReceiveList,
                  R!Arrive, R!tables
    <2> QED
      BY <1>1, <1>3, <2>1 DEF Arrives, P!Next
  <1>4. ASSUME NEW r \in Payers \cup Reporters,
               StepOf(r) \/ Refused(r) \/ OrphanOf(r)
        PROVE  P!Next \/ same
    <2>1. \/ r \in Payers /\ (P!Step(r) \/ P!Orphan(r))
          \/ r \in Reporters /\ R!Step(r) /\ UNCHANGED paying
      BY <1>4 DEF StepOf, Refused, OrphanOf, P!Step, R!Step
    <2> QED
      BY <2>1, ReporterStep DEF P!Next
  <1>5. CASE Start \/ Signal \/ Expire \/ Close
    BY <1>1, <1>5 DEF Start, Signal, Expire, Close
  <1>6. CASE Exit \/ Kill
    BY <1>6, PerishStep DEF Exit, Kill, P!Next
  <1>7. CASE Others
    BY <1>7 DEF Others, P!Next, P!Environment
  <1> QED
    BY <1>2, <1>3, <1>4, <1>5, <1>6, <1>7 DEF Next

\* So it is to the violation service.
LEMMA ReportsSee ==
    ASSUME PortalInv, [Next]_vars
    PROVE  [R!Next]_(R!vars)
  <1> DEFINE same == UNCHANGED R!vars
  <1>1. ASSUME UNCHANGED <<history, vehicles, violations, reporting>> PROVE same
    BY <1>1 DEF reporting, R!vars, R!tables, R!handler, R!past
  <1>2. CASE UNCHANGED vars
    BY <1>1, <1>2 DEF vars
  <1>3. CASE Arrives
    <2>1. ASSUME NEW r \in Payers, NEW u \in Members \cup Officers,
                 NEW v \in Reporters, NEW card \in P!Cards,
                 P!Receive(r, u, v, card)
          PROVE  UNCHANGED <<history, vehicles, violations>>
      BY <2>1 DEF P!Receive, P!tables
    <2> QED
      BY <1>1, <1>3, <2>1 DEF Arrives, R!Next
  <1>4. ASSUME NEW r \in Payers \cup Reporters,
               StepOf(r) \/ Refused(r) \/ OrphanOf(r)
        PROVE  R!Next \/ same
    <2>1. \/ r \in Payers /\ (P!Step(r) \/ P!Orphan(r)) /\ UNCHANGED reporting
          \/ r \in Reporters /\ R!Step(r)
      BY <1>4 DEF StepOf, Refused, OrphanOf, P!Step, R!Step
    <2> QED
      BY <2>1, PayerStep DEF R!Next
  <1>5. CASE Start \/ Signal \/ Expire \/ Close
    BY <1>1, <1>5 DEF Start, Signal, Expire, Close
  <1>6. CASE Exit \/ Kill
    BY <1>6, PerishStep DEF Exit, Kill, R!Next
  <1>7. CASE Others
    BY <1>7 DEF Others, R!Next, R!Environment
  <1> QED
    BY <1>2, <1>3, <1>4, <1>5, <1>6, <1>7 DEF Next

-----------------------------------------------------------------------------
(* The requests that run, and the life of the process.                     *)

\* A statement of a payment request ends that request at most, and answers
\* it: nobody else is touched, and none is lost.
LEMMA PayerKeepsFaith ==
    ASSUME P!TypeOK, NEW r \in Payers, P!Step(r), NEW q \in Payers
    PROVE  /\ P!Live(q)' => P!Live(q)
           /\ q # r /\ P!Live(q) => P!Live(q)'
           /\ pAnswer'[q] = "lost" => pAnswer[q] = "lost"
  <1>1. pPc \in [Payers -> P!Statements \cup {"idle"}]
        /\ pAnswer \in [Payers -> P!Answers \cup {"none", "lost"}]
    BY DEF P!TypeOK
  <1>2. P!Live(r)
    BY DEF P!Step, P!GetViolation, P!GetVehicle, P!RecordFailed,
           P!UpdateStatus, P!RecordSuccess, P!StatementFails, P!At, P!Live,
           P!Statements, P!Writes
  <1>3. \/ \E step : P!Goto(r, step)
        \/ \E code \in {"201", "402", "403", "404", "409", "500"} :
              P!Respond(r, code)
    BY DEF P!Step, P!GetViolation, P!GetVehicle, P!RecordFailed,
           P!UpdateStatus, P!RecordSuccess, P!StatementFails
  <1> QED
    BY <1>1, <1>2, <1>3 DEF P!Goto, P!Respond, P!Live

\* So it is for the violation service.
LEMMA ReporterKeepsFaith ==
    ASSUME R!TypeOK, NEW r \in Reporters, R!Step(r), R!Live(r),
           NEW q \in Reporters
    PROVE  /\ R!Live(q)' => R!Live(q)
           /\ q # r /\ R!Live(q) => R!Live(q)'
           /\ rAnswer'[q] = "lost" => rAnswer[q] = "lost"
  <1>1. rPc \in [Reporters -> R!Statements \cup {"idle"}]
        /\ rAnswer \in [Reporters -> R!Answers \cup {"none", "lost"}]
    BY DEF R!TypeOK
  <1>2. \/ \E step : R!Goto(r, step)
        \/ \E code \in {"200", "201", "403", "404", "422", "500"} :
              R!Respond(r, code)
        \/ UNCHANGED <<rPc, rAnswer>>
    BY DEF R!Step, R!ResolveRule, R!CreateViolationOf, R!ReadBack,
           R!GetDetail, R!GetVehicle, R!ListVehicles, R!ListPage, R!Count,
           R!StatementFails, R!OrphanRuns, R!OrphanDies, R!handler
  <1> QED
    BY <1>1, <1>2 DEF R!Goto, R!Respond, R!Live

\* After a step of r that answers it or moves it on, all others run as they
\* did, and nobody has become lost.
LEMMA StepKeepsFaith ==
    ASSUME PortalInv, NEW r \in Payers \cup Reporters,
           StepOf(r) \/ Refused(r)
    PROVE  /\ Live' \subseteq Live /\ Live \ {r} \subseteq Live'
           /\ OrderlyStopsLoseNothing'
  <1>1. \/ r \in Payers /\ P!Step(r) /\ UNCHANGED reporting
        \/ r \in Reporters /\ R!Live(r) /\ R!Step(r) /\ UNCHANGED paying
    BY DEF StepOf, Refused, P!Step, R!Step, R!StatementFails
  <1>2. cut' = cut
    BY DEF StepOf, Refused, process
  <1>3. Payers \cap Reporters = {}
    BY PortalAssumption
  <1>4. CASE r \in Payers /\ P!Step(r) /\ UNCHANGED reporting
    <2>1. \A q \in Reporters : (R!Live(q)' <=> R!Live(q))
                               /\ rAnswer'[q] = rAnswer[q]
      BY <1>4 DEF reporting, R!Live
    <2>2. \A q \in Payers : /\ P!Live(q)' => P!Live(q)
                            /\ q # r /\ P!Live(q) => P!Live(q)'
                            /\ pAnswer'[q] = "lost" => pAnswer[q] = "lost"
      BY <1>4, PayerKeepsFaith DEF PortalInv, TypeOK
    <2> QED
      BY <1>2, <2>1, <2>2 DEF Live, OrderlyStopsLoseNothing, PortalInv
  <1>5. CASE r \in Reporters /\ R!Live(r) /\ R!Step(r) /\ UNCHANGED paying
    <2>1. \A q \in Payers : (P!Live(q)' <=> P!Live(q))
                            /\ pAnswer'[q] = pAnswer[q]
      BY <1>5 DEF paying, P!Live
    <2>2. \A q \in Reporters : /\ R!Live(q)' => R!Live(q)
                               /\ q # r /\ R!Live(q) => R!Live(q)'
                               /\ rAnswer'[q] = "lost" => rAnswer[q] = "lost"
      BY <1>5, ReporterKeepsFaith DEF PortalInv, TypeOK
    <2> QED
      BY <1>2, <2>1, <2>2 DEF Live, OrderlyStopsLoseNothing, PortalInv
  <1> QED
    BY <1>1, <1>4, <1>5

\* When the process perishes nothing runs any more; if nothing ran, nothing
\* is lost.
LEMMA PerishLeavesNone ==
    ASSUME P!TypeOK, R!TypeOK, NEW sent, Perish(sent)
    PROVE  /\ Live' = {}
           /\ Live = {} => UNCHANGED <<pAnswer, rAnswer>>
  <1>1. /\ pAnswer \in [Payers -> P!Answers \cup {"none", "lost"}]
        /\ rAnswer \in [Reporters -> R!Answers \cup {"none", "lost"}]
    BY DEF P!TypeOK, R!TypeOK
  <1>2. \A q \in Payers : ~P!Live(q)'
    <2>1. CASE P!Crash
      BY <1>1, <2>1 DEF P!Crash, P!Live
    <2>2. CASE ~(\E r \in Payers : P!Live(r)) /\ UNCHANGED paying
      BY <2>2 DEF paying, P!Live
    <2> QED
      BY <2>1, <2>2 DEF Perish
  <1>3. \A q \in Reporters : ~R!Live(q)'
    <2>1. CASE R!Crash
      BY <1>1, <2>1 DEF R!Crash, R!Live
    <2>2. CASE ~(\E r \in Reporters : R!Live(r)) /\ UNCHANGED reporting
      BY <2>2 DEF reporting, R!Live
    <2> QED
      BY <2>1, <2>2 DEF Perish
  <1>4. Live = {} => UNCHANGED <<pAnswer, rAnswer>>
    BY DEF Live, Perish, P!Crash, R!Crash, paying, reporting
  <1> QED
    BY <1>2, <1>3, <1>4 DEF Live

-----------------------------------------------------------------------------
(* The invariant.                                                          *)

\* What PortalInv says of the process and of the requests that run in it.
Process ==
    /\ server \in {"up", "draining", "late", "closing", "down"}
    /\ flight \subseteq Live
    /\ server # "closing" => flight = {}
    /\ server = "down" => Live = {}
    /\ cut \in BOOLEAN
    /\ OrderlyStopsLoseNothing
    /\ server = "late" => cut
    /\ server = "closing" /\ ~cut => Live = {}

\* The invariant in three parts.
LEMMA Parts ==
    PortalInv <=> /\ P!PaymentInv /\ R!ReportsInv /\ Process
                  /\ \A c \in Codes : Len(history[c]) <= MaxVersion
  BY DEF PortalInv, TypeOK, Process, P!PaymentInv, R!ReportsInv

\* The portal starts with the invariant: nothing has arrived.
LEMMA InitPortal == Init => PortalInv
  <1> SUFFICES ASSUME Init PROVE PortalInv
    OBVIOUS
  <1>1. P!PaymentInv
    BY SamePayment, PP!InitPayment DEF Init
  <1>2. R!ReportsInv
    <2>1. RR!IsFiniteSet(Reporters) /\ RR!IsFiniteSet(Plates)
      BY PortalAssumption DEF RR!IsFiniteSet, IsFiniteSet
    <2> QED
      BY <2>1, SameReports, RR!InitReports, PortalAssumption DEF Init, RR!Half
  <1>3. Process
    BY DEF Process, Init, P!Init, R!Init, P!Live, R!Live, Live,
           P!Statements, P!Writes, R!Statements, OrderlyStopsLoseNothing
  <1>4. \A c \in Codes : Len(history[c]) <= MaxVersion
    BY PortalAssumption DEF Init, P!Init, P!Rules!Init
  <1> QED
    BY <1>1, <1>2, <1>3, <1>4, Parts

\* Only the rules service publishes versions, and never beyond the bound.
LEMMA VersionsBounded ==
    ASSUME PortalInv, [P!Next]_(P!vars)
    PROVE  \A c \in Codes : Len(history'[c]) <= MaxVersion
  <1>1. history \in [Codes -> Seq(Amounts)]
    BY DEF PortalInv, TypeOK, P!TypeOK
  <1>2. CASE UNCHANGED history
    BY <1>2 DEF PortalInv
  <1>3. ASSUME NEW c \in Codes, NEW a \in Amounts, P!PublishRule(c, a)
        PROVE  \A d \in Codes : Len(history'[d]) <= MaxVersion
    <2>1. history' = [history EXCEPT ![c] = Append(history[c], a)]
          /\ Len(history[c]) < MaxVersion
      BY <1>3 DEF P!PublishRule, P!Rules!Publish
    <2>2. Len(Append(history[c], a)) = Len(history[c]) + 1
          /\ Len(history[c]) \in Nat
      BY <1>1
    <2>3. Len(history[c]) + 1 <= MaxVersion
      BY <2>1, <2>2, PortalAssumption
    <2> QED
      BY <1>1, <2>1, <2>2, <2>3 DEF PortalInv
  <1>4. \/ UNCHANGED history
        \/ \E c \in Codes, a \in Amounts : P!PublishRule(c, a)
    BY DEF P!Next, P!Receive, P!Step, P!Orphan, P!GetViolation, P!GetVehicle,
           P!RecordFailed, P!UpdateStatus, P!RecordSuccess, P!StatementFails,
           P!OrphanRuns, P!OrphanDies, P!Crash, P!Environment, P!Insertion,
           P!Settlement, P!ReportViolation, P!RegisterVehicle,
           P!RemoveVehicle, P!tables, P!vars
  <1> QED
    BY <1>2, <1>3, <1>4

\* A step that leaves every request where it is keeps what the process is
\* at, if it leaves that too.
LEMMA QuietStep ==
    ASSUME Process, UNCHANGED process, UNCHANGED <<pPc, pAnswer, rPc, rAnswer>>
    PROVE  Process'
  BY DEF Process, process, Live, P!Live, R!Live, OrderlyStopsLoseNothing

\* Requests arrive only while the process listens.
LEMMA ArrivalStep ==
    ASSUME PortalInv, Arrives
    PROVE  Process'
  <1>1. /\ pAnswer \in [Payers -> P!Answers \cup {"none", "lost"}]
        /\ rAnswer \in [Reporters -> R!Answers \cup {"none", "lost"}]
    BY DEF PortalInv, TypeOK, P!TypeOK, R!TypeOK
  <1>2. /\ server \in {"up", "draining", "late"} /\ flight = {}
        /\ UNCHANGED <<server, flight, cut>>
    BY DEF Arrives, Listening, process, PortalInv, TypeOK
  <1>3. \A q \in Payers : pAnswer'[q] = "lost" => pAnswer[q] = "lost"
    BY <1>1 DEF Arrives, P!Receive, paying
  <1>4. \A q \in Reporters : rAnswer'[q] = "lost" => rAnswer[q] = "lost"
    <2>1. CASE UNCHANGED reporting
      BY <2>1 DEF reporting
    <2>2. ASSUME NEW r \in Reporters, NEW u \in Members \cup Officers,
                 R!Receive(r, u), NEW q \in Reporters, rAnswer'[q] = "lost"
          PROVE  rAnswer[q] = "lost"
      <3>1. \E refusal \in {"none", "403", "422"} :
               rAnswer' = [rAnswer EXCEPT ![r] = refusal]
        BY <2>2 DEF R!Receive, R!ReceiveReport, R!ReceiveGet, R!ReceiveList,
                    R!Arrive
      <3> QED
        BY <1>1, <2>2, <3>1
    <2> QED
      BY <2>1, <2>2 DEF Arrives
  <1> QED
    BY <1>2, <1>3, <1>4
    DEF Process, PortalInv, TypeOK, OrderlyStopsLoseNothing

\* Every step of the portal keeps what the process is at.
LEMMA ProcessStep ==
    ASSUME PortalInv, [Next]_vars
    PROVE  Process'
  <1>0. Process /\ P!TypeOK /\ R!TypeOK
    BY Parts DEF PortalInv, TypeOK
  <1>1. CASE UNCHANGED vars
    BY <1>0, <1>1, QuietStep DEF vars, paying, reporting
  <1>2. CASE Arrives
    BY <1>2, ArrivalStep
  <1>3. ASSUME NEW r \in Payers \cup Reporters, StepOf(r) PROVE Process'
    <2>1. /\ Live' \subseteq Live /\ Live \ {r} \subseteq Live'
          /\ OrderlyStopsLoseNothing'
      BY <1>3, StepKeepsFaith
    <2>2. flight' = flight \ {r} /\ UNCHANGED <<server, cut>>
      BY <1>3 DEF StepOf, GivesBack
    <2> QED
      BY <1>0, <2>1, <2>2 DEF Process
  <1>4. ASSUME NEW r \in Payers \cup Reporters, Refused(r) PROVE Process'
    <2>1. /\ Live' \subseteq Live /\ Live \ {r} \subseteq Live'
          /\ OrderlyStopsLoseNothing'
      BY <1>4, StepKeepsFaith
    <2>2. r \notin flight /\ UNCHANGED <<server, flight, cut>>
      BY <1>4 DEF Refused, process
    <2> QED
      BY <1>0, <2>1, <2>2 DEF Process
  <1>5. ASSUME NEW r \in Payers \cup Reporters, OrphanOf(r) PROVE Process'
    <2>1. UNCHANGED <<pPc, pAnswer, rPc, rAnswer>> /\ UNCHANGED process
      BY <1>5 DEF OrphanOf, P!Orphan, P!OrphanRuns, P!OrphanDies,
                  R!OrphanRuns, R!OrphanDies, P!handler, R!handler, paying,
                  reporting
    <2> QED
      BY <1>0, <2>1, QuietStep
  <1>6. CASE Start \/ Signal \/ Expire \/ Close
    <2>1. Live' = Live /\ UNCHANGED <<pAnswer, rAnswer>>
      BY <1>6 DEF Start, Signal, Expire, Close, paying, reporting, Live,
                  P!Live, R!Live
    <2> QED
      BY <1>0, <1>6, <2>1 DEF Process, Start, Signal, Expire, Close,
                              OrderlyStopsLoseNothing
  <1>7. CASE Exit
    <2>1. /\ Live' = {}
          /\ Live = {} => UNCHANGED <<pAnswer, rAnswer>>
      BY <1>0, <1>7, PerishLeavesNone DEF Exit
    <2>2. /\ server = "closing" /\ flight = {} /\ server' = "down"
          /\ UNCHANGED <<flight, cut>>
      BY <1>7 DEF Exit
    <2>3. ~cut => UNCHANGED <<pAnswer, rAnswer>>
      BY <1>0, <2>1, <2>2 DEF Process
    <2> QED
      BY <1>0, <2>1, <2>2, <2>3 DEF Process, OrderlyStopsLoseNothing
  <1>8. CASE Kill
    <2>1. Live' = {}
      BY <1>0, <1>8, PerishLeavesNone DEF Kill
    <2> QED
      BY <1>8, <2>1 DEF Kill, Process, OrderlyStopsLoseNothing
  <1>9. CASE Others
    <2>1. UNCHANGED <<pPc, pAnswer, rPc, rAnswer>> /\ UNCHANGED process
      BY <1>9 DEF Others, P!PublishRule, P!RegisterVehicle, P!RemoveVehicle,
                  R!PublishRule, R!RegisterVehicle, R!RemoveVehicle,
                  P!handler, R!handler
    <2> QED
      BY <1>0, <2>1, QuietStep
  <1> QED
    BY <1>1, <1>2, <1>3, <1>4, <1>5, <1>6, <1>7, <1>8, <1>9 DEF Next

\* The inductive step.
LEMMA NextPortal == PortalInv /\ [Next]_vars => PortalInv'
  <1> SUFFICES ASSUME PortalInv, [Next]_vars PROVE PortalInv'
    OBVIOUS
  <1>1. [P!Next]_(P!vars) /\ [R!Next]_(R!vars)
    BY PaymentSees, ReportsSee
  <1>2. P!PaymentInv' /\ R!ReportsInv'
    BY <1>1, PaymentStep, ReportsStep DEF PortalInv
  <1>3. Process'
    BY ProcessStep
  <1>4. \A c \in Codes : Len(history'[c]) <= MaxVersion
    BY <1>1, VersionsBounded
  <1> QED
    BY <1>2, <1>3, <1>4
    DEF PortalInv, TypeOK, Process, P!PaymentInv, R!ReportsInv

-----------------------------------------------------------------------------
(* The theorems.                                                           *)

\* The invariant of the portal, inductive.
THEOREM InvariantHolds == Spec => []PortalInv
  BY InitPortal, NextPortal, PTL DEF Spec

\* Every variable of the portal has its type, and nothing runs in a process
\* that is down (main.go:80-103).
THEOREM TypeCorrect == Spec => []TypeOK
  <1>1. PortalInv => TypeOK
    BY DEF PortalInv
  <1> QED
    BY <1>1, InvariantHolds, PTL

\* In the portal the payment service behaves as Payment says, whatever the
\* violation service and the life of the process do to it.
THEOREM PaymentRefined == Spec => ImplementsPayment
  <1>1. Init => P!Init
    BY DEF Init
  <1>2. PortalInv /\ [Next]_vars => [P!Next]_(P!vars)
    BY PaymentSees
  <1> QED
    BY <1>1, <1>2, InvariantHolds, PTL DEF Spec, ImplementsPayment, P!Spec

\* And the violation service as Reports says.
THEOREM ReportsRefined == Spec => ImplementsReports
  <1>1. Init => R!Init
    BY DEF Init
  <1>2. PortalInv /\ [Next]_vars => [R!Next]_(R!vars)
    BY ReportsSee
  <1> QED
    BY <1>1, <1>2, InvariantHolds, PTL DEF Spec, ImplementsReports, R!Spec

\* A payment is of the amount every reader of its violation was shown
\* (payment.go:139-158 charges what violation.go answers with).
THEOREM ChargesAsShown == Spec => []ChargedAsShown
  <1>1. PortalInv => ChargedAsShown
    <2> SUFFICES ASSUME PortalInv, NEW p \in DOMAIN payments,
                        NEW r \in Reporters,
                        payments[p].violation \in DOMAIN shown[r]
                 PROVE  payments[p].amount
                          = shown[r][payments[p].violation].amount
      BY DEF ChargedAsShown
    <2> DEFINE v == payments[p].violation
    <2>1. p \in Payers /\ P!Coherent(p)
      BY DEF PortalInv, P!PaymentInv, P!TypeOK, P!IsTable
    <2>2. payments[p].amount = P!FineOf(violations[v], history)
      <3>1. pPc[p] \in P!Writes /\ v = pInput[p].violation
            /\ payments[p].amount = pSeen[p].amount
        BY <2>1 DEF P!Coherent, P!Writes
      <3>2. p \in DOMAIN pSeen
        BY <2>1, <3>1 DEF P!Coherent
      <3> QED
        BY <2>1, <3>1, <3>2 DEF P!Coherent
    <2>3. shown[r][v].amount = R!FineOf(violations[v], history)
      BY DEF PortalInv, R!ReportsInv, R!Coherent, R!Reading
    <2> QED
      BY <2>2, <2>3 DEF P!FineOf, R!FineOf
  <1> QED
    BY <1>1, InvariantHolds, PTL

\* No request is lost to a stop that is in time (main.go:97-102).
THEOREM OrderlyStops == Spec => []OrderlyStopsLoseNothing
  <1>1. PortalInv => OrderlyStopsLoseNothing
    BY DEF PortalInv
  <1> QED
    BY <1>1, InvariantHolds, PTL

=============================================================================
