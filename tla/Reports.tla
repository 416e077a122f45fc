------------------------------ MODULE Reports ------------------------------
(***************************************************************************)
(* The violation service (internal/violation): concurrent requests         *)
(*                                                                         *)
(*   Report   ResolveRule, CreateViolation, ReadBack                       *)
(*   Get      GetDetail, and for a member GetVehicle                       *)
(*   List     for a member ListVehicles, then ListPage, Count              *)
(*                                                                         *)
(* each a fixed sequence of autocommitted statements, with failures, lost  *)
(* connections and crashes as in Payment.  Around them rules get new       *)
(* versions, vehicles change hands and violations are paid.                *)
(*                                                                         *)
(* The order of the rows of a listing is abstracted: a page is any set of  *)
(* matching rows of the right size.                                        *)
(***************************************************************************)
EXTENDS Sequences, FiniteSets, FiniteSetsExt, Tables, PageOffset

CONSTANTS
    Requests,      \* requests; also the ids of the violations they insert
    Alone,         \* bound: requests of which only a whole Report is taken
    Members, Officers,
    Codes, Plates, \* rule codes and plates as they are stored: normalised
    CodeTexts, PlateTexts,  \* what callers write for them
    Normal,        \* TrimSpace(ToUpper(text)), for every text
    Amounts,
    MaxVersion,    \* bound: versions published of one code
    PageSize,      \* rows of a page
    Pages,         \* page numbers asked for
    MaxVehicles    \* vehicles a member's listing looks at (1000 in the code)

\* A code or plate written as it is stored is its own normal form.
ASSUME NormalAssumption ==
    \A text \in CodeTexts \cup PlateTexts :
        text \in Codes \cup Plates => Normal[text] = text

ASSUME SizeAssumption ==
    /\ IsFiniteSet(Requests) /\ IsFiniteSet(Plates)
    /\ PageSize \in Nat \ {0} /\ Pages \subseteq Nat \ {0}
    /\ MaxVehicles \in Nat \ {0}

VARIABLES
    history, vehicles, violations,  \* the tables, as in Payment
    input,       \* what each request received asks for
    cited,       \* the version each Report resolved
    plates,      \* the plates each member's List looks for
    shown,       \* the rows each request read to answer with: id -> detail
    total,       \* the count each List answers with
    pc, answer, orphans,  \* as in Payment
    since, held, due  \* history variables of the request, see TypeOK

tables  == <<history, vehicles, violations>>
handler == <<input, cited, plates, shown, total, pc, answer>>
past    == <<since, held, due>>
vars    == <<tables, handler, orphans, past>>

Rules    == INSTANCE RuleHistory
Registry == INSTANCE PlateRegistry WITH Owners <- Members, owner <- vehicles

Statements == {"ResolveRule", "CreateViolation", "ReadBack", "GetDetail",
               "GetVehicle", "ListVehicles", "ListPage", "Count"}
Answers    == {"200", "201", "403", "404", "422", "500"}

Live(r) == pc[r] \in Statements /\ answer[r] = "none"

-----------------------------------------------------------------------------

InputRow ==
         [op : {"Report"}, user : Members \cup Officers,
          code : CodeTexts, plate : PlateTexts]
    \cup [op : {"Get"}, user : Members \cup Officers, id : Requests]
    \cup [op : {"List"}, user : Members \cup Officers, page : Pages]

ViolationRow == [plate : Plates, code : Codes, version : Nat,
                 status : {"PENDING", "PAID"}]
DetailRow    == [plate : Plates, status : {"PENDING", "PAID"},
                 amount : Amounts]

IsTable(table, keys, rows) ==
    /\ DOMAIN table \subseteq keys
    /\ table \in [DOMAIN table -> rows]

\* Type invariant.  since[r] is the number of versions the code of a Report
\* had when the request arrived; held[r] are the plates that were the
\* caller's at some moment since then; due[r] are the violations a List owes
\* its caller: those there were when it arrived, but for those of a vehicle
\* the caller has removed since.
TypeOK ==
    /\ history \in [Codes -> Seq(Amounts)]
    /\ IsTable(vehicles, Plates, Members)
    /\ IsTable(violations, Requests, ViolationRow)
    /\ \A v \in DOMAIN violations :
          violations[v].version \in 1..Len(history[violations[v].code])
    /\ IsTable(input, Requests, InputRow)
    /\ cited \in [Requests -> Nat]
    /\ plates \in [Requests -> SUBSET Plates]
    /\ DOMAIN shown = Requests
    /\ \A r \in Requests : IsTable(shown[r], Requests, DetailRow)
    /\ total \in [Requests -> Nat]
    /\ pc \in [Requests -> Statements \cup {"idle"}]
    /\ answer \in [Requests -> Answers \cup {"none", "lost"}]
    /\ orphans \subseteq {r \in Requests : pc[r] = "CreateViolation"}
    /\ since \in [Requests -> Nat]
    /\ held \in [Requests -> SUBSET Plates]
    /\ due \in [Requests -> SUBSET Requests]

Init ==
    /\ Rules!Init
    /\ vehicles = << >> /\ violations = << >> /\ input = << >>
    /\ cited = [r \in Requests |-> 0]
    /\ plates = [r \in Requests |-> {}]
    /\ shown = [r \in Requests |-> << >>]
    /\ total = [r \in Requests |-> 0]
    /\ pc = [r \in Requests |-> "idle"]
    /\ answer = [r \in Requests |-> "none"]
    /\ orphans = {}
    /\ since = [r \in Requests |-> 0]
    /\ held = [r \in Requests |-> {}]
    /\ due = [r \in Requests |-> {}]

-----------------------------------------------------------------------------

At(r, step)      == pc[r] = step /\ answer[r] = "none"
Goto(r, step)    == pc' = [pc EXCEPT ![r] = step] /\ UNCHANGED answer
Respond(r, code) == answer' = [answer EXCEPT ![r] = code] /\ UNCHANGED pc

User(r)     == input[r].user
PlatesOf(u) == {p \in DOMAIN vehicles : vehicles[p] = u}

\* The active version of a code as it is written, 0 if there is none.
Active(code) == IF code \in Codes THEN Len(history[code]) ELSE 0

\* A request arrives and is checked before any statement: it goes to its
\* first statement, or is refused.
Arrive(r, row, step, refusal) ==
    /\ pc[r] = "idle"
    /\ input' = Insert(input, r, row)
    /\ pc' = [pc EXCEPT ![r] = step]
    /\ answer' = [answer EXCEPT ![r] = refusal]
    /\ held' = [held EXCEPT ![r] = PlatesOf(row.user)]
    /\ UNCHANGED <<tables, cited, plates, shown, total, orphans>>

\* The plate is normalised before it is checked and stored, the code is
\* not.  A plate that is too short or too long has no normal form in Plates.
ReceiveReport(r, user, code, plate) ==
    /\ Arrive(r, [op |-> "Report", user |-> user, code |-> code,
                  plate |-> plate], "ResolveRule",
              IF user \notin Officers THEN "403"
              ELSE IF Normal[plate] \notin Plates THEN "422" ELSE "none")
    /\ since' = [since EXCEPT ![r] = Active(code)]
    /\ UNCHANGED due

ReceiveGet(r, user, id) ==
    /\ Arrive(r, [op |-> "Get", user |-> user, id |-> id],
              "GetDetail", "none")
    /\ UNCHANGED <<since, due>>

ReceiveList(r, user, page) ==
    /\ Arrive(r, [op |-> "List", user |-> user, page |-> page],
              IF user \in Officers THEN "ListPage" ELSE "ListVehicles",
              "none")
    /\ due' = [due EXCEPT ![r] = {v \in DOMAIN violations :
          user \in Officers \/ violations[v].plate \in PlatesOf(user)}]
    /\ UNCHANGED since

-----------------------------------------------------------------------------
(* Report.                                                                 *)

\* (mutant) the query has lost its condition on is_active
ResolveRuleAnyVersion(r) ==
    /\ At(r, "ResolveRule")
    /\ Active(input[r].code) # 0
    /\ \E k \in 1..Active(input[r].code) : cited' = [cited EXCEPT ![r] = k]
    /\ Goto(r, "CreateViolation")
    /\ UNCHANGED <<tables, input, plates, shown, total, orphans, past>>

ResolveRule(r) ==
    /\ At(r, "ResolveRule")
    /\ LET k == Active(input[r].code) IN
       \/ k = 0 /\ Respond(r, "422") /\ UNCHANGED cited
       \/ /\ k # 0
          /\ cited' = [cited EXCEPT ![r] = k]
          /\ Goto(r, "CreateViolation")
    /\ UNCHANGED <<tables, input, plates, shown, total, orphans, past>>

\* (mutant) the plate is checked in its normal form and stored as it came
InsertionAsWritten(r) ==
    /\ violations' = CreateViolation(violations, r, input[r].plate,
                                     input[r].code, cited[r])
    /\ UNCHANGED <<history, vehicles>>

\* The INSERT takes effect in the database.
Insertion(r) ==
    /\ violations' = CreateViolation(violations, r, Normal[input[r].plate],
                                     input[r].code, cited[r])
    /\ UNCHANGED <<history, vehicles>>

CreateViolationOf(r) ==
    /\ At(r, "CreateViolation")
    /\ Insertion(r)
    /\ Goto(r, "ReadBack")
    /\ UNCHANGED <<input, cited, plates, shown, total, orphans, past>>

Details(ids) == [v \in ids |-> GetViolationByID(violations, history, v)]

\* The row is there: nothing deletes violations.
ReadBack(r) ==
    /\ At(r, "ReadBack")
    /\ shown' = [shown EXCEPT ![r] = Details({r})]
    /\ Respond(r, "201")
    /\ UNCHANGED <<tables, input, cited, plates, total, orphans, past>>

\* A Report that succeeds and meets nobody: its four steps in one.
ReportAlone(r, user, code, plate) ==
    /\ pc[r] = "idle"
    /\ user \in Officers /\ Normal[plate] \in Plates /\ Active(code) # 0
    /\ input' = Insert(input, r, [op |-> "Report", user |-> user,
                                  code |-> code, plate |-> plate])
    /\ since' = [since EXCEPT ![r] = Active(code)]
    /\ cited' = [cited EXCEPT ![r] = Active(code)]
    /\ violations' = CreateViolation(violations, r, Normal[plate], code,
                                     Active(code))
    /\ shown' = [shown EXCEPT ![r] =
                   [v \in {r} |-> GetViolationByID(violations', history, v)]]
    /\ pc' = [pc EXCEPT ![r] = "ReadBack"]
    /\ answer' = [answer EXCEPT ![r] = "201"]
    /\ held' = [held EXCEPT ![r] = PlatesOf(user)]
    /\ UNCHANGED <<history, vehicles, plates, total, orphans, due>>

-----------------------------------------------------------------------------
(* Get.                                                                    *)

GetDetail(r) ==
    /\ At(r, "GetDetail")
    /\ LET id == input[r].id IN
       \/ /\ id \notin DOMAIN violations
          /\ Respond(r, "404")
          /\ UNCHANGED shown
       \/ /\ id \in DOMAIN violations
          /\ shown' = [shown EXCEPT ![r] = Details({id})]
          /\ IF User(r) \in Officers THEN Respond(r, "200")
                                     ELSE Goto(r, "GetVehicle")
    /\ UNCHANGED <<tables, input, cited, plates, total, orphans, past>>

\* (mutant) the plate must be registered, by whomever
GetVehicleAnyOwner(r) ==
    /\ At(r, "GetVehicle")
    /\ Respond(r, IF shown[r][input[r].id].plate \in DOMAIN vehicles
                  THEN "200" ELSE "403")
    /\ UNCHANGED <<tables, input, cited, plates, shown, total, orphans, past>>

GetVehicle(r) ==
    /\ At(r, "GetVehicle")
    /\ Respond(r, IF shown[r][input[r].id].plate \in PlatesOf(User(r))
                  THEN "200" ELSE "403")
    /\ UNCHANGED <<tables, input, cited, plates, shown, total, orphans, past>>

-----------------------------------------------------------------------------
(* List.                                                                   *)

\* (mutant) one vehicle too few is asked for
ListVehiclesButOne(r) ==
    /\ At(r, "ListVehicles")
    /\ LET own == PlatesOf(User(r)) IN
       \E some \in SUBSET own :
          /\ Cardinality(some) = Min({Cardinality(own), MaxVehicles - 1})
          /\ plates' = [plates EXCEPT ![r] = some]
          /\ IF some = {} THEN Respond(r, "200") ELSE Goto(r, "ListPage")
    /\ UNCHANGED <<tables, input, cited, shown, total, orphans, past>>

\* The caller's first vehicles, in an order that is abstracted.  Without
\* any the answer is an empty page.
ListVehicles(r) ==
    /\ At(r, "ListVehicles")
    /\ LET own == PlatesOf(User(r)) IN
       \E some \in SUBSET own :
          /\ Cardinality(some) = Min({Cardinality(own), MaxVehicles})
          /\ plates' = [plates EXCEPT ![r] = some]
          /\ IF some = {} THEN Respond(r, "200") ELSE Goto(r, "ListPage")
    /\ UNCHANGED <<tables, input, cited, shown, total, orphans, past>>

\* The violations a List is about.
Matching(r) == {v \in DOMAIN violations :
                  User(r) \in Officers \/ violations[v].plate \in plates[r]}

Offset(r) == OffsetOf(input[r].page, PageSize)

\* OFFSET and LIMIT applied to n rows.
PageLength(r, n) ==
    IF n <= Offset(r) THEN 0 ELSE Min({n - Offset(r), PageSize})

\* PostgreSQL refuses a negative offset.
ListPage(r) ==
    /\ At(r, "ListPage")
    /\ \/ Offset(r) < 0 /\ Respond(r, "500") /\ UNCHANGED shown
       \/ /\ Offset(r) >= 0
          /\ \E page \in SUBSET Matching(r) :
                /\ Cardinality(page) = PageLength(r, Cardinality(Matching(r)))
                /\ shown' = [shown EXCEPT ![r] = Details(page)]
          /\ Goto(r, "Count")
    /\ UNCHANGED <<tables, input, cited, plates, total, orphans, past>>

Count(r) ==
    /\ At(r, "Count")
    /\ total' = [total EXCEPT ![r] = Cardinality(Matching(r))]
    /\ Respond(r, "200")
    /\ UNCHANGED <<tables, input, cited, plates, shown, orphans, past>>

-----------------------------------------------------------------------------
(* Failures, as in Payment.                                                *)

\* (mutant) the error of the insert is only logged
StatementFailsIgnored(r) ==
    /\ Live(r)
    /\ IF pc[r] = "CreateViolation" THEN Respond(r, "201")
                                    ELSE Respond(r, "500")
    /\ UNCHANGED <<tables, input, cited, plates, shown, total, orphans, past>>

StatementFails(r) ==
    /\ Live(r)
    /\ Respond(r, "500")
    /\ \/ UNCHANGED orphans
       \/ pc[r] = "CreateViolation" /\ orphans' = orphans \cup {r}
    /\ UNCHANGED <<tables, input, cited, plates, shown, total, past>>

Crash ==
    /\ \E r \in Requests : Live(r)
    /\ answer' = [r \in Requests |-> IF Live(r) THEN "lost" ELSE answer[r]]
    /\ \E sent \in SUBSET {r \in Requests : Live(r) /\ pc[r] = "CreateViolation"} :
          orphans' = orphans \cup sent
    /\ UNCHANGED <<tables, input, cited, plates, shown, total, pc, past>>

OrphanRuns(r) ==
    /\ r \in orphans
    /\ Insertion(r)
    /\ orphans' = orphans \ {r}
    /\ UNCHANGED <<handler, past>>

OrphanDies(r) ==
    /\ r \in orphans
    /\ orphans' = orphans \ {r}
    /\ UNCHANGED <<tables, handler, past>>

-----------------------------------------------------------------------------
(* The other services.                                                     *)

PublishRule(c, a) ==
    /\ Len(history[c]) < MaxVersion
    /\ Rules!Publish(c, a)
    /\ UNCHANGED <<vehicles, violations, handler, orphans, past>>

\* The plate becomes user's in the middle of the requests user has open.
RegisterVehicle(plate, user) ==
    /\ Registry!Register(plate, user)
    /\ held' = [r \in Requests |-> IF Live(r) /\ User(r) = user
                                   THEN held[r] \cup {plate} ELSE held[r]]
    /\ UNCHANGED <<history, violations, handler, orphans, since, due>>

RemoveVehicle(plate) ==
    /\ Registry!Remove(plate)
    /\ due' = [r \in Requests |->
                 {v \in due[r] : ~(/\ Live(r) /\ User(r) = vehicles[plate]
                                  /\ violations[v].plate = plate)}]
    /\ UNCHANGED <<history, violations, handler, orphans, since, held>>

PayViolation(v) ==
    /\ v \in DOMAIN violations
    /\ violations' = UpdateViolationStatus(violations, v, "PAID")
    /\ UNCHANGED <<history, vehicles, handler, orphans, past>>

Receive(r, u) ==
    \/ \E c \in CodeTexts, p \in PlateTexts : ReceiveReport(r, u, c, p)
    \/ \E v \in Requests : ReceiveGet(r, u, v)
    \/ \E n \in Pages : ReceiveList(r, u, n)

Step(r) ==
    \/ ResolveRule(r) \/ CreateViolationOf(r) \/ ReadBack(r)
    \/ GetDetail(r) \/ GetVehicle(r)
    \/ ListVehicles(r) \/ ListPage(r) \/ Count(r)
    \/ StatementFails(r)
    \/ OrphanRuns(r) \/ OrphanDies(r)

Environment ==
    \/ \E c \in Codes, a \in Amounts : PublishRule(c, a)
    \/ \E p \in Plates, u \in Members : RegisterVehicle(p, u)
    \/ \E p \in Plates : RemoveVehicle(p)
    \/ \E v \in Requests : PayViolation(v)

Next ==
    \/ \E r \in Requests \ Alone, u \in Members \cup Officers : Receive(r, u)
    \/ \E r \in Requests : Step(r)
    \/ Crash
    \/ \E r \in Requests \cap Alone, u \in Members \cup Officers,
          c \in CodeTexts, p \in PlateTexts : ReportAlone(r, u, c, p)
    \/ Environment

Spec == Init /\ [][Next]_vars

-----------------------------------------------------------------------------
(* Properties.                                                             *)

Answered(r, codes) == answer[r] \in codes

\* A violation cites a version that was the active one at some moment
\* between the arrival of its report and its insertion, though the two
\* statements of Report are not one and the insertion may come late.
CitesTheRuleOfItsTime ==
    \A v \in DOMAIN violations :
        /\ violations[v].code = input[v].code
        /\ violations[v].plate = Normal[input[v].plate]
        /\ violations[v].version >= since[v]
        /\ violations[v].version <= Len(history[violations[v].code])

\* 201 means the violation is there and is what the officer was shown; a
\* refusal means the request has inserted nothing and never will.
AnswersAreTruthful ==
    \A r \in Requests :
        /\ Answered(r, {"201"}) => r \in DOMAIN violations
                                   /\ DOMAIN shown[r] = {r}
        /\ Answered(r, {"200", "403", "404", "422"}) =>
              r \notin DOMAIN violations /\ r \notin orphans

\* What a request has read of violations does not go stale in anything but
\* the status, and that only from PENDING to PAID.
ReadsStayTrue ==
    \A r \in Requests : \A v \in DOMAIN shown[r] :
        /\ v \in DOMAIN violations
        /\ shown[r][v].plate = violations[v].plate
        /\ shown[r][v].amount = FineOf(violations[v], history)
        /\ shown[r][v].status = "PAID" => violations[v].status = "PAID"

\* A member is shown violations only of plates that were the member's at
\* some moment of the request, however vehicles change hands between the
\* statements of Get and List.
MembersSeeTheirOwn ==
    \A r \in Requests :
        Answered(r, {"200"}) /\ User(r) \notin Officers =>
            \A v \in DOMAIN shown[r] : violations[v].plate \in held[r]

\* The total of a listing reaches to the last row of a page that is not
\* empty, although page and total are read by two statements: on every page
\* whose offset fits its 32 bits.  Of the pages after those nothing is
\* promised: page 2^30 + 1 of 20 rows is answered with the first 20.
RowsBefore(r) == (input[r].page - 1) * PageSize

CountCoversPage ==
    \A r \in Requests :
        /\ Answered(r, {"200"}) /\ input[r].op = "List"
        /\ DOMAIN shown[r] # {} /\ RowsBefore(r) < Half
        => RowsBefore(r) + Cardinality(DOMAIN shown[r]) <= total[r]

\* A listing leaves out nothing that is due, unless it is a member's with
\* more than MaxVehicles vehicles: its total counts all of it, and a first
\* page that is not full shows it, although vehicles, page and total are
\* read by three statements.
ListedAll(r) == User(r) \in Officers \/ Cardinality(held[r]) <= MaxVehicles

NothingOmitted ==
    \A r \in Requests :
        Answered(r, {"200"}) /\ input[r].op = "List" /\ ListedAll(r) =>
            /\ Cardinality(due[r]) <= total[r]
            /\ input[r].page = 1 /\ Cardinality(DOMAIN shown[r]) < PageSize
                  => due[r] \subseteq DOMAIN shown[r]

ListingsAddUp == CountCoversPage /\ NothingOmitted

\* Why the invariants hold: what is true of one request at any time.  What
\* a Report resolved is still a version of its code, no older than the
\* request; a request that runs knows, in held, every plate of its caller;
\* what it has read is true, and its page lies within the matching rows.
Reporting(r) ==
    /\ pc[r] \in {"ResolveRule", "CreateViolation", "ReadBack"} =>
          /\ input[r].op = "Report"
          /\ since[r] <= Active(input[r].code)
          /\ answer[r] # "200"
    /\ pc[r] = "ResolveRule" /\ answer[r] = "none" =>
          Normal[input[r].plate] \in Plates
    /\ pc[r] \in {"CreateViolation", "ReadBack"} =>
          /\ input[r].code \in Codes /\ Normal[input[r].plate] \in Plates
          /\ cited[r] \in 1..Len(history[input[r].code])
          /\ cited[r] >= since[r]
          /\ answer[r] \in {"none", "201", "500", "lost"}
    /\ r \in DOMAIN violations =>
          /\ pc[r] \in {"CreateViolation", "ReadBack"}
          /\ violations[r].code = input[r].code
          /\ violations[r].plate = Normal[input[r].plate]
          /\ violations[r].version = cited[r]
          /\ ~At(r, "CreateViolation") /\ r \notin orphans
    /\ pc[r] = "ReadBack" => r \in DOMAIN violations
    /\ r \in orphans => pc[r] = "CreateViolation"
                        /\ answer[r] \in {"500", "lost"}
    /\ answer[r] = "201" => pc[r] = "ReadBack" /\ DOMAIN shown[r] = {r}

Reading(r) ==
    /\ \A v \in DOMAIN shown[r] :
          /\ v \in DOMAIN violations
          /\ shown[r][v].plate = violations[v].plate
          /\ shown[r][v].amount = FineOf(violations[v], history)
          /\ shown[r][v].status = "PAID" => violations[v].status = "PAID"
    /\ pc[r] \in {"GetDetail", "GetVehicle"} => input[r].op = "Get"
    /\ pc[r] = "GetDetail" /\ answer[r] = "200" => User(r) \in Officers
    /\ pc[r] = "GetVehicle" => DOMAIN shown[r] = {input[r].id}
    /\ pc[r] = "GetVehicle" /\ answer[r] = "200" =>
          violations[input[r].id].plate \in held[r]

Listing(r) ==
    /\ pc[r] \in {"ListVehicles", "ListPage", "Count"} =>
          input[r].op = "List"
    /\ pc[r] \in {"ListVehicles", "ListPage"} => DOMAIN shown[r] = {}
    /\ plates[r] \subseteq held[r]
    /\ pc[r] = "Count" => DOMAIN shown[r] \subseteq Matching(r)
    /\ pc[r] = "Count" /\ DOMAIN shown[r] # {} =>
          LET last == Offset(r) + Cardinality(DOMAIN shown[r]) IN
          /\ last <= Cardinality(Matching(r))
          /\ answer[r] = "200" => last <= total[r]

Coherent(r) ==
    /\ pc[r] = "idle" => /\ answer[r] = "none" /\ r \notin orphans
                         /\ DOMAIN shown[r] = {} /\ plates[r] = {}
    /\ r \in DOMAIN input <=> pc[r] # "idle"
    /\ Live(r) => PlatesOf(User(r)) \subseteq held[r]
    /\ Reporting(r) /\ Reading(r) /\ Listing(r)

ReportsInv == TypeOK /\ \A r \in Requests : Coherent(r)

\* Why nothing is omitted: what is due to a member is on plates the member
\* has, so on those ListVehicles finds, and what matched once still does.
Owed(r) ==
    /\ due[r] # {} => r \in DOMAIN input /\ input[r].op = "List"
    /\ due[r] \subseteq DOMAIN violations
    /\ At(r, "ListVehicles") =>
          \A v \in due[r] : violations[v].plate \in PlatesOf(User(r))
    /\ pc[r] \in {"ListPage", "Count"} /\ ListedAll(r) =>
          due[r] \subseteq Matching(r)
    /\ pc[r] = "Count" /\ ListedAll(r) =>
          (input[r].page = 1 /\ Cardinality(DOMAIN shown[r]) < PageSize
             => due[r] \subseteq DOMAIN shown[r])
    /\ pc[r] = "ListVehicles" /\ answer[r] = "200" /\ ListedAll(r) =>
          due[r] = {}
    /\ pc[r] = "ListPage" => answer[r] # "200"
    /\ pc[r] = "Count" /\ answer[r] = "200" /\ ListedAll(r) =>
          Cardinality(due[r]) <= total[r]

DueInv == \A r \in Requests : Owed(r)

\* A 422 to an officer whose plate is in order says that the code has no
\* active rule (violation.go:113): true at the moment it is said, if codes
\* are written as they are stored.
CodesAsStored == \A text \in CodeTexts : Normal[text] \in Codes => text = Normal[text]

RefusedCodeDoesNotExist ==
    [][\A r \in Requests :
          answer[r] # "422" /\ answer'[r] = "422" /\ pc[r] = "ResolveRule"
          => \A c \in Codes : c = Normal[input[r].code] => history[c] = << >>
      ]_vars

=============================================================================
