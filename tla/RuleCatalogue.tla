---------------------------- MODULE RuleCatalogue ----------------------------
(***************************************************************************)
(* The fine-rules service (internal/rules): concurrent Create and Update   *)
(* requests over the table fine_rules and the two unique indexes of        *)
(* migration 003, on a bounded pool of connections.                        *)
(*                                                                         *)
(*   Create   GetActive (autocommit), Insert (autocommit)                  *)
(*   Update   GetActive (autocommit), then in one transaction              *)
(*            Begin, Deactivate, LockRow, InsertVersion, Commit            *)
(*   GetActiveByCode, ListActive, ListVersions                             *)
(*            Select (autocommit)                                          *)
(*                                                                         *)
(* The transaction runs at READ COMMITTED: the UPDATE of Deactivate picks  *)
(* the active row of its snapshot, then waits for the row's lock and looks *)
(* at the row again (LockRow).  What a transaction wrote is not in         *)
(* fine_rules until it commits, but unique indexes see it: an INSERT for   *)
(* the same code waits for the transaction to end.                         *)
(*                                                                         *)
(* Any statement may fail; the handler may lose its connection, and the    *)
(* process may die: then the transaction stays open in PostgreSQL, with    *)
(* its locks, until the server notices.                                    *)
(***************************************************************************)
EXTENDS Naturals, FiniteSets

CONSTANTS
    Requests,  \* Create and Update requests; also the ids of the rows they
               \* insert
    Readers,   \* requests of the three reading operations
    Codes, Amounts,
    MaxConns   \* size of the connection pool

ASSUME MaxConnsAssumption == MaxConns \in Nat \ {0}

VARIABLES
    fine_rules,  \* the committed rows
    input,       \* kind, code and fine of each request received
    pc, answer,  \* as in Payment
    read,        \* the version each Update read as active (0: none yet)
    target,      \* the versions its Deactivate statement set out to change
    locked,      \* the versions it locked and deactivated
    open,        \* the requests whose transaction is open in PostgreSQL
    orphans,     \* Creates whose INSERT outlived the handler's wait
    query, reply,  \* what each reader asks for, and how it is answered
    shown,       \* the rows each reader was answered with
    since        \* history: the active version of each code (0: none) when
                 \* each reader asked

tx      == <<read, target, locked, open>>
writers == <<fine_rules, input, pc, answer, tx, orphans>>
readers == <<query, reply, shown, since>>
vars    == <<writers, readers>>

InTx       == {"Deactivate", "LockRow", "InsertVersion", "Commit"}
Statements == {"GetActive", "Insert", "Begin"} \cup InTx
Answers    == {"200", "201", "403", "404", "409", "422", "500"}

Row      == [id : Requests, code : Codes, version : Nat \ {0},
             amount : Amounts, active : BOOLEAN]
InputRow == [kind : {"Create", "Update"}, code : Codes, amount : Amounts]
Query    == [op : {"GetActiveByCode", "ListActive", "ListVersions"},
             code : Codes]
NoQuery  == [op |-> "none"]

\* An open transaction is at one of its statements.
WritersOK ==
    /\ fine_rules \subseteq Row
    /\ DOMAIN input \subseteq Requests
    /\ input \in [DOMAIN input -> InputRow]
    /\ pc \in [Requests -> Statements \cup {"idle"}]
    /\ answer \in [Requests -> Answers \cup {"none", "lost"}]
    /\ read \in [Requests -> Nat]
    /\ target \in [Requests -> SUBSET (Nat \ {0})]
    /\ locked \in [Requests -> SUBSET (Nat \ {0})]
    /\ open \subseteq {r \in Requests : pc[r] \in InTx}
    /\ orphans \subseteq {r \in Requests : pc[r] = "Insert"}

ReadersOK ==
    /\ query \in [Readers -> Query \cup {NoQuery}]
    /\ reply \in [Readers -> {"idle", "none", "200", "403", "404", "500", "lost"}]
    /\ shown \in [Readers -> SUBSET Row]
    /\ since \in [Readers -> [Codes -> Nat]]

\* Type invariant: tables and requests have their types, and transactions
\* are open only while a request is, or was, in its transaction.
TypeOK == WritersOK /\ ReadersOK

Init ==
    /\ fine_rules = {}
    /\ input = << >>
    /\ pc = [r \in Requests |-> "idle"]
    /\ answer = [r \in Requests |-> "none"]
    /\ read = [r \in Requests |-> 0]
    /\ target = [r \in Requests |-> {}]
    /\ locked = [r \in Requests |-> {}]
    /\ open = {} /\ orphans = {}
    /\ query = [g \in Readers |-> NoQuery]
    /\ reply = [g \in Readers |-> "idle"]
    /\ shown = [g \in Readers |-> {}]
    /\ since = [g \in Readers |-> [c \in Codes |-> 0]]

-----------------------------------------------------------------------------

At(r, step)      == pc[r] = step /\ answer[r] = "none"
Live(r)          == pc[r] \in Statements /\ answer[r] = "none"
Goto(r, step)    == pc' = [pc EXCEPT ![r] = step] /\ UNCHANGED answer
Respond(r, code) == answer' = [answer EXCEPT ![r] = code] /\ UNCHANGED pc

Code(r) == input[r].code

Versions(c)       == {row.version : row \in {w \in fine_rules : w.code = c}}
ActiveVersions(c) == {row.version : row \in {w \in fine_rules :
                                               w.code = c /\ w.active}}

\* The active version of a code, 0 when it has none.
Latest(c) == IF ActiveVersions(c) = {} THEN 0
                                       ELSE CHOOSE v \in ActiveVersions(c) : TRUE

\* (mutant) versions are numbered from 0
NewRowFromZero(r, version) ==
    [id |-> r, code |-> Code(r), version |-> version - 1,
     amount |-> input[r].amount, active |-> TRUE]

NewRow(r, version) == [id |-> r, code |-> Code(r), version |-> version,
                       amount |-> input[r].amount, active |-> TRUE]

\* A connection is free: only transactions of live handlers hold one from
\* one statement to the next.
ConnectionFree == Cardinality({r \in open : Live(r)}) < MaxConns

\* (mutant) the callback of WithTx inserts through the pool
UsesPoolInTx == {"GetActive", "Insert", "Begin", "InsertVersion"}

\* The statements that take a connection from the pool; all others run on
\* that of their transaction.
UsesPool == {"GetActive", "Insert", "Begin"}

\* Transaction q has changed the active row of a code, and may have inserted
\* the next: whether an insert by r clashes depends on how q ends.
Decides(q, r) == q # r /\ Code(q) = Code(r) /\ locked[q] # {}

\* Transaction q holds the lock of a row that r set out to change.
Holds(q, r) == Code(q) = Code(r) /\ target[r] \cap locked[q] # {}

\* The transactions that must end before the statement of r goes on.
WaitsFor(r) ==
    {q \in open : \/ pc[r] \in UsesPool /\ Live(q) /\ ~ConnectionFree
                  \/ pc[r] \in {"Insert", "InsertVersion"} /\ Decides(q, r)
                  \/ pc[r] = "LockRow" /\ Holds(q, r)}

\* The role and the body are checked before any statement; the code is
\* normalised here, so the model's codes are normalised ones.
Receive(r, role, kind, c, a, valid) ==
    /\ pc[r] = "idle"
    /\ input' = [q \in DOMAIN input \cup {r} |->
                   IF q = r THEN [kind |-> kind, code |-> c, amount |-> a]
                            ELSE input[q]]
    /\ pc' = [pc EXCEPT ![r] = "GetActive"]
    /\ answer' = [answer EXCEPT ![r] =
                    IF role # "officer" THEN "403"
                    ELSE IF ~valid THEN "422" ELSE "none"]
    /\ UNCHANGED <<fine_rules, tx, orphans, readers>>

GetActive(r) ==
    /\ At(r, "GetActive")
    /\ WaitsFor(r) = {}
    /\ LET found == ActiveVersions(Code(r)) IN
       \/ /\ input[r].kind = "Create" /\ found # {}
          /\ Respond(r, "409") /\ UNCHANGED read
       \/ /\ input[r].kind = "Create" /\ found = {}
          /\ Goto(r, "Insert") /\ UNCHANGED read
       \/ /\ input[r].kind = "Update" /\ found = {}
          /\ Respond(r, "404") /\ UNCHANGED read
       \/ /\ input[r].kind = "Update"
          /\ \E v \in found : read' = [read EXCEPT ![r] = v]
          /\ Goto(r, "Begin")
    /\ UNCHANGED <<fine_rules, input, target, locked, open, orphans, readers>>

-----------------------------------------------------------------------------
(* Create.                                                                 *)

\* Version 1 clashes with the code's active row, or with its version 1.
Clash(r) == ActiveVersions(Code(r)) # {} \/ 1 \in Versions(Code(r))

Insert(r) ==
    /\ At(r, "Insert")
    /\ WaitsFor(r) = {}
    /\ \/ Clash(r) /\ Respond(r, "500") /\ UNCHANGED fine_rules
       \/ /\ ~Clash(r) /\ Respond(r, "201")
          /\ fine_rules' = fine_rules \cup {NewRow(r, 1)}
    /\ UNCHANGED <<input, tx, orphans, readers>>

\* PostgreSQL executes, or drops, an INSERT nobody waits for any more.
OrphanInsert(r) ==
    /\ r \in orphans
    /\ \/ UNCHANGED fine_rules
       \/ /\ ~(\E q \in open : Decides(q, r)) /\ ~Clash(r)
          /\ fine_rules' = fine_rules \cup {NewRow(r, 1)}
    /\ orphans' = orphans \ {r}
    /\ UNCHANGED <<input, pc, answer, tx, readers>>

-----------------------------------------------------------------------------
(* Update: the transaction.                                                *)

Begin(r) ==
    /\ At(r, "Begin")
    /\ WaitsFor(r) = {}
    /\ open' = open \cup {r}
    /\ Goto(r, "Deactivate")
    /\ UNCHANGED <<fine_rules, input, read, target, locked, orphans, readers>>

\* (mutant) the UPDATE runs outside the transaction
DeactivateAtOnce(r) ==
    /\ At(r, "Deactivate")
    /\ fine_rules' = {IF row.code = Code(r) THEN [row EXCEPT !.active = FALSE]
                                           ELSE row : row \in fine_rules}
    /\ Goto(r, "LockRow")
    /\ UNCHANGED <<input, read, target, locked, open, orphans, readers>>

\* UPDATE ... WHERE code = $1 AND is_active: the rows of its snapshot.
Deactivate(r) ==
    /\ At(r, "Deactivate")
    /\ target' = [target EXCEPT ![r] = ActiveVersions(Code(r))]
    /\ Goto(r, "LockRow")
    /\ UNCHANGED <<fine_rules, input, read, locked, open, orphans, readers>>

\* It waits until no other transaction holds those rows, and changes the
\* ones that are still active.
LockRow(r) ==
    /\ At(r, "LockRow")
    /\ WaitsFor(r) = {}
    /\ locked' = [locked EXCEPT ![r] =
                    target[r] \cap ActiveVersions(Code(r))]
    /\ Goto(r, "InsertVersion")
    /\ UNCHANGED <<fine_rules, input, read, target, open, orphans, readers>>

\* (mutant) there is no unique index on (code, version)
VersionClashActiveOnly(r) == ~(ActiveVersions(Code(r)) \subseteq locked[r])

\* The new version clashes with one that exists, or with an active row that
\* this transaction did not deactivate.
VersionClash(r) ==
    \/ read[r] + 1 \in Versions(Code(r))
    \/ ~(ActiveVersions(Code(r)) \subseteq locked[r])

\* On a clash WithTx rolls back and the request is answered 500.
InsertVersion(r) ==
    /\ At(r, "InsertVersion")
    /\ WaitsFor(r) = {}
    /\ \/ VersionClash(r) /\ Respond(r, "500") /\ open' = open \ {r}
       \/ ~VersionClash(r) /\ Goto(r, "Commit") /\ UNCHANGED open
    /\ UNCHANGED <<fine_rules, input, read, target, locked, orphans, readers>>

\* (mutant) an update changes the fine of the active version in place
CommittedInPlace(r) ==
    {IF row.code = Code(r) /\ row.version \in locked[r]
       THEN [row EXCEPT !.amount = input[r].amount] ELSE row : row \in fine_rules}

\* The writes of transaction r reach the table.
Committed(r) ==
    {IF row.code = Code(r) /\ row.version \in locked[r]
       THEN [row EXCEPT !.active = FALSE] ELSE row : row \in fine_rules}
    \cup {NewRow(r, read[r] + 1)}

Commit(r) ==
    /\ At(r, "Commit")
    /\ fine_rules' = Committed(r)
    /\ open' = open \ {r}
    /\ Respond(r, "200")
    /\ UNCHANGED <<input, read, target, locked, orphans, readers>>

-----------------------------------------------------------------------------
(* The reading operations.                                                 *)

\* Only officers see the version history.
Ask(g, role, op, c) ==
    /\ reply[g] = "idle"
    /\ query' = [query EXCEPT ![g] = [op |-> op, code |-> c]]
    /\ since' = [since EXCEPT ![g] = [k \in Codes |-> Latest(k)]]
    /\ reply' = [reply EXCEPT ![g] =
                   IF op = "ListVersions" /\ role # "officer"
                     THEN "403" ELSE "none"]
    /\ UNCHANGED <<writers, shown>>

\* The rows of each operation's query.
Selected(q) ==
    {w \in fine_rules : /\ q.op = "ListActive" \/ w.code = q.code
                        /\ q.op = "ListVersions" \/ w.active}

Select(g) ==
    /\ reply[g] = "none"
    /\ ConnectionFree
    /\ LET rows == Selected(query[g]) IN
       /\ shown' = [shown EXCEPT ![g] = rows]
       /\ reply' = [reply EXCEPT ![g] =
                      IF rows = {} /\ query[g].op # "ListActive"
                        THEN "404" ELSE "200"]
    /\ UNCHANGED <<writers, query, since>>

ReadFails(g) ==
    /\ reply[g] = "none"
    /\ reply' = [reply EXCEPT ![g] = "500"]
    /\ UNCHANGED <<writers, query, shown, since>>

-----------------------------------------------------------------------------
(* Failures.                                                               *)

\* (mutant) the error of Commit is dropped
StatementFailsUnnoticed(r) ==
    /\ Live(r)
    /\ Respond(r, IF pc[r] = "Commit" THEN "200" ELSE "500")
    /\ open' = open \ {r}
    /\ UNCHANGED <<fine_rules, input, read, target, locked, orphans, readers>>

\* A statement returns an error.  In a transaction WithTx rolls it back; if
\* the connection is gone the transaction is left to the server.
StatementFails(r) ==
    /\ Live(r)
    /\ Respond(r, "500")
    /\ \/ open' = open \ {r} /\ UNCHANGED orphans
       \/ pc[r] \in InTx /\ UNCHANGED <<open, orphans>>
       \/ pc[r] = "Insert" /\ orphans' = orphans \cup {r} /\ UNCHANGED open
    /\ UNCHANGED <<fine_rules, input, read, target, locked, readers>>

Crash ==
    /\ \/ \E r \in Requests : Live(r)
       \/ \E g \in Readers : reply[g] = "none"
    /\ answer' = [r \in Requests |-> IF Live(r) THEN "lost" ELSE answer[r]]
    /\ orphans' = orphans \cup {r \in Requests : At(r, "Insert")}
    /\ reply' = [g \in Readers |->
                   IF reply[g] = "none" THEN "lost" ELSE reply[g]]
    /\ UNCHANGED <<fine_rules, input, pc, tx, query, shown, since>>

\* The server ends a transaction whose client is gone: it commits only if
\* it was asked to.
ServerEnds(r) ==
    /\ r \in open /\ ~Live(r)
    /\ \/ UNCHANGED fine_rules
       \/ pc[r] = "Commit" /\ fine_rules' = Committed(r)
    /\ open' = open \ {r}
    /\ UNCHANGED <<input, pc, answer, read, target, locked, orphans, readers>>

Statement(r) == \/ GetActive(r) \/ Insert(r) \/ Begin(r) \/ Deactivate(r)
                \/ LockRow(r) \/ InsertVersion(r) \/ Commit(r)
Server(r)    == ServerEnds(r) \/ OrphanInsert(r)

Next ==
    \/ \E r \in Requests, role \in {"officer", "member"},
          kind \in {"Create", "Update"}, c \in Codes, a \in Amounts,
          valid \in BOOLEAN : Receive(r, role, kind, c, a, valid)
    \/ \E r \in Requests : Statement(r) \/ StatementFails(r) \/ Server(r)
    \/ \E g \in Readers :
          \/ \E role \in {"officer", "member"}, q \in Query :
                Ask(g, role, q.op, q.code)
          \/ Select(g) \/ ReadFails(g)
    \/ Crash

Spec == Init /\ [][Next]_vars

\* PostgreSQL executes a statement that has its connection and its locks,
\* and ends the transactions and statements of clients that are gone.  A
\* statement that waits is not bound to fail: the handlers set no timeout.
FairSpec == /\ Spec
            /\ \A r \in Requests : WF_vars(Statement(r)) /\ WF_vars(Server(r))
            /\ \A g \in Readers : WF_vars(Select(g))

-----------------------------------------------------------------------------
(* Properties.                                                             *)

\* The rows of a code are its versions 1..n, each once, and n alone is
\* active: what "the active version" and "the next version" rely on, across
\* any overlap of Creates, Updates, aborts and crashes.
OneHistoryPerCode ==
    \A c \in Codes : LET rows == {w \in fine_rules : w.code = c} IN
        /\ \A w1, w2 \in rows : w1.version = w2.version => w1 = w2
        /\ \A w \in rows : \A k \in 1..w.version : k \in Versions(c)
        /\ \A w \in rows : w.active <=> \A k \in Versions(c) : k <= w.version

\* An acknowledged request has published its version, and the version an
\* acknowledged Update replaced is the one it read: no update is lost.
\* A refused request has published nothing.
Published(r) == \E w \in fine_rules :
                    /\ w.id = r /\ w.code = Code(r)
                    /\ w.amount = input[r].amount
                    /\ w.version = read[r] + 1

AnswersAreTruthful ==
    \A r \in Requests :
        /\ answer[r] \in {"200", "201"} => Published(r)
        /\ answer[r] \in {"403", "404", "409", "422"} =>
              /\ \A w \in fine_rules : w.id # r
              /\ r \notin open \cup orphans

\* Why the invariants hold.  A transaction holds the lock of rows that are
\* still active; from its insert to its end it holds the active row, which
\* is the version it read, so the version it adds is the next one.
Coherent(r) ==
    /\ pc[r] = "idle" => answer[r] = "none"
    /\ r \in DOMAIN input <=> pc[r] # "idle"
    /\ pc[r] \in {"idle", "GetActive", "Insert"} => read[r] = 0
    /\ pc[r] \in InTx \cup {"Begin"} => read[r] \in Versions(Code(r))
    /\ pc[r] \notin {"InsertVersion", "Commit"} => locked[r] = {}
    /\ r \in open => locked[r] \subseteq ActiveVersions(Code(r))
    /\ r \in open /\ pc[r] = "Commit" =>
          /\ ActiveVersions(Code(r)) \subseteq locked[r]
          /\ read[r] \in locked[r]
          /\ read[r] + 1 \notin Versions(Code(r))
    /\ pc[r] \in InTx /\ Live(r) => r \in open
    /\ r \in orphans => ~Live(r)
    /\ answer[r] \in {"200", "201"} => Published(r)
    /\ answer[r] \in {"403", "404", "409", "422"} => pc[r] = "GetActive"
    /\ \A w \in fine_rules : w.id = r =>
          /\ pc[r] \in {"Insert", "Commit"}
          /\ ~Live(r) /\ r \notin open \cup orphans

LocksDisjoint ==
    \A q, r \in open : q # r /\ Code(q) = Code(r) =>
                          locked[q] \cap locked[r] = {}

RulesInv == /\ WritersOK /\ OneHistoryPerCode /\ LocksDisjoint
            /\ \A r \in Requests : Coherent(r)

\* What the other services see of a code: its fines in version order.
FineOfVersion(c, v) ==
    (CHOOSE w \in fine_rules : w.code = c /\ w.version = v).amount

Fines == [c \in Codes |-> [v \in 1..Latest(c) |-> FineOfVersion(c, v)]]

History == INSTANCE RuleHistory WITH history <- Fines

\* A step publishes at most one version, after the last one of its code,
\* and never touches a published one.
ImplementsHistory == History!Spec

\* Nobody waits in a circle: a transaction that another one waits for, be it
\* for a row, for a key of a unique index or for a connection of the pool,
\* does not itself wait.  Updates lock before they insert, and WithTx gives
\* its callback the connection it already has.
WaitsEnd == \A q \in open : \A p \in WaitsFor(q) : WaitsFor(p) = {}

\* So the service never stands still: while a request is being served, one
\* waits for nobody, or the server has a transaction to end.
SomeoneCanMove ==
    (\E r \in Requests : Live(r)) =>
        \E r \in Requests : WaitsFor(r) = {} /\ (Live(r) \/ r \in open)

\* Nor does a request go in circles: each statement leaves it fewer, and
\* nothing the others do adds one.
StatementsLeft(r) ==
    IF Live(r) THEN [GetActive |-> 6, Begin |-> 5, Deactivate |-> 4, LockRow |-> 3,
                     InsertVersion |-> 2, Commit |-> 1, Insert |-> 1][pc[r]]
               ELSE 0

StatementsAdvance ==
    [][\A r \in Requests :
          /\ Live(r) => StatementsLeft(r)' <= StatementsLeft(r)
          /\ Statement(r) => StatementsLeft(r)' < StatementsLeft(r)]_vars

\* Two acknowledged Updates of a code have replaced different versions.
NoUpdateLost ==
    \A q, r \in Requests :
        q # r /\ answer[q] = "200" /\ answer[r] = "200" /\ Code(q) = Code(r)
            => read[q] # read[r]

\* A reader never looks into the gap between the two writes of an Update: of
\* a code that had an active version when it asked, it is shown one, that
\* one or a later one, and no second; the history it is shown starts at
\* version 1 and has no gap; and what it was shown stays true, except that
\* the active version may have been replaced.
Asked(q)     == IF q.op = "ListActive" THEN Codes ELSE {q.code}
ShownOf(g, c) == {w \in shown[g] : w.code = c}

ShownActive(g, c) ==
    /\ since[g][c] > 0 =>
          \E w \in ShownOf(g, c) : w.active /\ w.version >= since[g][c]
    /\ \A w1, w2 \in ShownOf(g, c) : w1.active /\ w2.active => w1 = w2

ShownComplete(g, c) ==
    \A w \in ShownOf(g, c) : \A k \in 1..w.version :
        \E x \in ShownOf(g, c) : x.version = k

StillTrue(w) == \E b \in {w.active, FALSE} : [w EXCEPT !.active = b] \in fine_rules

SeesOneHistory(g) ==
    /\ \A c \in Asked(query[g]) :
          /\ ShownActive(g, c)
          /\ query[g].op = "ListVersions" => ShownComplete(g, c)
    /\ \A w \in shown[g] : StillTrue(w)

ReadersSeeOneHistory ==
    \A g \in Readers : reply[g] \in {"200", "404"} => SeesOneHistory(g)

\* Why it holds: a code's active version never falls or disappears.
ReadersInv ==
    /\ ReadersOK /\ ReadersSeeOneHistory
    /\ \A g \in Readers, c \in Codes : since[g][c] <= Latest(c)
    /\ \A g \in Readers : reply[g] # "idle" => query[g] \in Query

\* Every request is answered unless the process dies first: neither the
\* row locks, nor the unique indexes, nor the pool can hold it for ever.
EveryRequestEnds == /\ \A r \in Requests : Live(r) ~> ~Live(r)
                    /\ \A g \in Readers : reply[g] = "none" ~> reply[g] # "none"

\* The claim of rule.go:91-92 that a run refutes: a Create of a code that
\* already has an active rule is answered 409.  It holds of Creates of which
\* no two of a code are past the check at a time.
Inserting(r) == pc[r] = "Insert" /\ (answer[r] = "none" \/ r \in orphans)

OneCreateAtATime ==
    \A q, r \in Requests :
        Inserting(q) /\ Inserting(r) /\ Code(q) = Code(r) => q = r

LateCreateConflicts ==
    [][\A r \in Requests :
          At(r, "Insert") /\ ActiveVersions(Code(r)) # {} /\ Insert(r)
             => answer'[r] = "409"]_vars

=============================================================================
