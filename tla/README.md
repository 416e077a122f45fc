# A TLA+ verification of the parking violation portal

The portal (`src/backend`, Go, gin, pgx, sqlc, PostgreSQL) lets officers
publish fine rules and report violations, and lets members register vehicles
and pay. This directory holds TLA+ modules of the parts where concurrency and
failure matter, TLC configurations that check small instances of them, and
proofs, checked by TLAPS, for instances of every size.

## 1. The system

Every HTTP request is a goroutine. Handlers keep no state of their own between
requests: all shared state is in PostgreSQL, reached through one connection
pool (`pkg/db/pool.go`, at most 10 connections). Unless said otherwise a
handler sends autocommitted statements one after another, without a
transaction around them and without a time limit, under the context of its
HTTP request.

| Component | State | Operations that change it | Interacts with |
|---|---|---|---|
| Payment service, `internal/payment` | `payments` | `Pay` | reads `violations` joined with `fine_rules`, reads `vehicles`, sets `violations.status` (through `paymentViolationAdapter` in `main.go`), calls a transaction recorder that is a stub |
| Rules service, `internal/rules` | `fine_rules`, two unique indexes | `Create`, `Update` (a transaction); `GetActiveByCode`, `ListActive`, `ListVersions` only read | read by violations and payments |
| Violation service, `internal/violation` | `violations` | `Report` (`Get`, `List` only read) | reads `fine_rules`, `vehicles`; its status column is written by payments |
| Vehicle registry, `internal/auth/usecase/vehicle.go` | `vehicles` (unique plate) | `Create`, `Delete` (`List`, `GetByPlate` only read) | read by violations and payments |
| Accounts, `internal/auth/usecase/auth.go` | `users` (unique e-mail) | `Register` (`Login`, `Me` only read) | issues tokens |
| Tokens and authentication, `pkg/jwt`, `gateway/middleware/auth.go` | none (signed claims, an expiry) | none | puts the caller's id and role in front of every handler |
| Gateway, `internal/gateway` | none | none | routes, CORS, logging, health check |
| Server lifecycle, `cmd/server/main.go` | the process, the pool | start, shutdown on a signal with a 10 s limit | kills whatever is still running |

What is hard here, and what makes each component correct:

* **Payment.** Two reads, a check on what they returned, two writes, nothing
  that makes them one. Requests overlap on one violation; either write may fail;
  a write whose client went away may still happen, later; the process may die
  between the writes. Correct means: money is recorded only against a settled
  violation, with the fine of the rule version the violation cites; every
  answer is true of the tables; the set of requests that may still charge a
  violation only shrinks once it is paid.
* **Rules.** `Update` computes the next version from a read made before its
  transaction, and two Creates can pass the existence check together. What
  saves the history is the row lock of the UPDATE and the two unique indexes.
  Correct means: the versions of a code are 1..n, each once, n alone active,
  never rewritten; an acknowledged update replaced the version it read; a reader
  never looks into the gap between the two writes of an `Update`; locks, index
  waits and the pool never hold anybody for ever.
* **Violations.** `Report` resolves a rule, inserts, and reads back, in three
  statements; so does `List`. Correct means: a violation cites a version that was
  active while the request ran; lists show what the caller may see and leave out
  nothing that is due to the caller, and pages and counts fit.
* **Vehicles, accounts.** Each request is one statement, and a unique
  constraint decides races. What is hard is time: a write may be executed after
  its request was given up, a token speaks for an account long after it was
  looked up. Correct means: tokens and vehicles say only what the accounts say;
  answers are true of the tables and stay true; the second of two registrations
  changes nothing; only its owner removes a vehicle.
* **Listings.** A caller reads a listing by OFFSET, a request per page and two
  statements per request, while rows come and go. Correct means: who follows the
  counts to the end has seen every row that was there all along, and no offset
  wraps on the way. The first of these the code gives with two exceptions: rows
  that share a `created_at` (nothing orders them) and rows older than one that is
  removed during the walk (they move up, perhaps to a page already read) may be
  missed.
* **Lifecycle.** The process waits ten seconds for its requests and then goes.
  Correct means: a stop that is in time loses nothing, one that is not is to the
  tables no worse than a crash, and every stop ends.
* **All together.** Each service is written for an environment of its own.
  Correct means: what each takes for granted of the shared tables is what the
  others do to them.

## 2. The modules

```
          promises                                services
  RuleHistory   <== implemented by ==  RuleCatalogue     RuleCatalogueProofs
  PlateRegistry <== implemented by ==  Accounts          AccountsProofs
  FineLedger    <== implemented by ==  Payment           PaymentProofs
                                       Reports           ReportsProofs
                                       Paging            PagingProofs

  RuleHistory, PlateRegistry ----- the environment of Payment and Reports

  Payment, Reports <== implemented by ==  Portal         PortalProofs
                                          (both, in one server process)

  Tables ---- the effect of each SQL statement, used by all services
  PageOffset ---- the int32 conversion of an offset,     PageOffsetProofs
                  used by Reports and Paging
  MC<Module>, <Run>.cfg ---- the instances TLC checks
```

**Tables** holds the effect of each SQL statement as an operator on tables (a
table is a function from keys to rows). `(code, version)` stands for
`fine_rule_id`. Columns on which nothing depends are left out.

**PageOffset** is the offset of a page as both `List`s compute it
(`violation.go:178`, `vehicle.go:60`): `Narrow` is the conversion to int32, for
any width, so a large page number comes out with a negative offset, which
PostgreSQL refuses, or with the offset of another page.

**RuleHistory** is one variable, `history[c]`, the fines of the versions of
code `c`, and one action, `Publish`. RuleCatalogue implements it; Payment runs
beside it. So what is shown of the rules service is exactly what the payment
model assumes of it.

**PlateRegistry** is the same for vehicles: one variable, `owner`, a free plate
is registered, a registered one removed, and no step passes a plate from one
owner to another. Accounts implements it; Payment and Reports run beside it.

**RuleCatalogue** models `RuleService.Create` and `Update`. `pc[r]` is the
statement request `r` is at; `read[r]` is `active.Version` of `rule.go:134`;
`open` are the transactions open in PostgreSQL, `target` and `locked` the rows
their UPDATE picked and locked. The transaction runs at READ COMMITTED: the
UPDATE picks rows from its snapshot (`Deactivate`), waits for their locks and
looks at them again (`LockRow`). Uncommitted writes are not in `fine_rules`.
`WaitsFor(r)` are the transactions whose end the statement of `r` has to await:
for the lock of a row it set out to change (`Holds`); for a key of a unique
index, because a transaction that has changed the active row *decides* whether
an insert for the code clashes (`Decides`); or for a connection, when the
transactions of live handlers have them all (`UsesPool` are the statements that
take one from the pool; `WithTx` gives its callback the transaction's own).
`StatementFails` covers every error return; when the connection itself is lost
the transaction, or a Create's INSERT, is left to the server (`ServerEnds`,
`OrphanInsert`), which may commit it only if COMMIT had been sent. `Crash` ends
the process at any point. A waiting autocommitted INSERT keeps its connection
too, but for a transaction that has its own, so only transactions count in
`ConnectionFree`. `Readers` are requests of `GetActiveByCode`, `ListActive` and
`ListVersions`: `Ask` (which refuses `ListVersions` to members), then one
`Select` of the committed rows. `since[g]` is history: the active version of
each code when reader `g` asked.

**Payment** models `PaymentService.Pay`, one action per statement.
`seen[r]` is the row `GetViolationForPayment` returned, and every check is on
it. `StatementFails` may leave an orphan: a write PostgreSQL still executes or
drops, at any later time (`OrphanRuns`, `OrphanDies`). A card is `invalid`,
`declined` or `approved`; which strings are which is not modelled. Role and card
are checked before any statement (`Receive`). The other services appear as the
atomic statements that matter to payments: publishing a rule version,
inserting a violation (citing any version up to the last one: `Report` reads the
active version one statement earlier), registering and deleting a vehicle. The
history variable `held[r]`, which no action reads, collects the plates that were
the caller's at some moment of the request.

**FineLedger** is the abstract promise: a request is *admitted* to an unpaid
violation; only an admitted request settles it; only an admitted request
charges it, once, after the settlement; nobody is admitted afterwards. The
refinement mapping in Payment (`Ledger`) takes for *admitted* the requests that
read the violation as PENDING and can still write, in person or as an orphan.

**Reports** models `ViolationService.Report`, `GetViolation` and `List`, again
one action per statement, with the failures and orphans of Payment (only the
insert of a report can be an orphan: the rest reads). `cited[r]` is the rule
`Report` resolved, `plates[r]` the plates `List` found for a member, `shown[r]`
the rows the request read to answer with, `total[r]` the count. A request stands
for the id of the violation it inserts. Three history variables, which no action
reads, say what was true when: `since[r]` is the version that was active when
the report arrived (0 if none), `held[r]` are the plates that were the caller's
at some moment from the arrival on, `due[r]` are the violations a listing owes
its caller: those there were for the caller when it arrived, but for those of a
vehicle the caller has removed since. `Normal` is `strings.TrimSpace(
strings.ToUpper(text))`: the plate of a report goes through it
(`violation.go:94`), the code does not (`violation.go:109`), while the rules
service stores codes in that form; so texts as written (`CodeTexts`,
`PlateTexts`) and keys as stored (`Codes`, `Plates`) are different sets. A plate
of the wrong length is a text whose normal form is not in `Plates`; an empty
code, refused with the same 422 before any statement, is not told apart from
it. The order of rows in a listing is abstracted: a page is any set of matching
rows of the size that OFFSET and LIMIT leave. `Offset` is PageOffset's; a negative one
is answered 500. So the total of a listing covers its page only when the offset
fits its bits (`CountCoversPage`); page 2^30 + 1 of 20 rows shows the first 20. `MaxVehicles` is the 1000 of
`violation.go:197`. The roles are the two of `authdomain`, so the "forbidden
role" branch of `List` is not there: tokens carry the role of a row of `users`,
whose CHECK allows no other. Publishing a rule, registering and deleting a vehicle and the
settlement of a violation are atomic steps of the environment. `ReportAlone` is a bound
of the run and not a step of the code: a whole successful Report in one step, which
the requests in `Alone` take and the others do not. It leads where the four steps
`ReceiveReport`, `ResolveRule`, `CreateViolationOf` and `ReadBack` lead one after the
other, and with `Alone` empty, as in Portal, there is none.

**Accounts** models `AuthService.Register`, `Login`, `Me` and
`VehicleService.Create`, `Delete`, with the handlers and the middleware in front
of them. `Arrive` is everything that is decided before the one statement: the
token (`Refusal`), the role (`MembersOnly`), the validation, the hash. `users` and
`vehicles` are keyed by the columns that are UNIQUE; a request stands for the id
of the row it inserts. A token is its claims, `tokens` are those that are out,
and `Expire` may take any at any time; nobody but the server can make one. A
password matches the hash of itself and of nothing else; `TooLong` are those
bcrypt refuses. Texts as written and keys as stored differ as in Reports: an
address of no account form has no normal form in `Emails`, a blank one the
normal form `""`. `Founders` and `Fleet` are the accounts and vehicles there are
when the requests begin. `issued` and `known` are history.

**Paging** is one caller's walk through a listing. `rows` are the rows the
listing is about (all violations, those of a member's plates, or a member's
vehicles), `page` and `size` what is asked for after `normalizePagination`, or
`List`'s own rules (`PageSize` has the difference: above 100 becomes 100 for
vehicles, 20 for violations). `Slices` is what ORDER BY created_at DESC, LIMIT and
OFFSET may return: rows of one created_at in any order, a new one for each
statement. The offset is PageOffset's; PostgreSQL refuses a negative one, always. The caller asks for the next page until page times
size reaches the total, and for the same page again when it failed. `AddRow`
inserts with any created_at: NOW() is the start of a transaction and not the
order of commits, and a vehicle that becomes the caller's brings violations of
any age. `due` is history: the rows the walk owes its caller. A row leaves it when
it comes to share its created_at, or when a newer row is removed, which may
move it to a page already read: the code promises nothing then.

**Portal** is the process of `main.go`, with Payment and Reports in it on shared
tables. A report is an insert the payment service sees, a settlement one the
violation service sees (`StepOf`); rules and vehicles change for both at once
(`Others`). `server` is `up`, `draining` (in Shutdown), `late` (the ten seconds are
over), `closing` (in the deferred pool.Close) or `down`. While the pool closes,
the requests in `flight` hold a connection and finish their statement; all
others are refused one and answer 500 (`Refused`). The process ends when nobody
holds a connection (`Exit`) or at any time (`Kill`), which is a crash to both
services; statements PostgreSQL has are its own to execute (`OrphanOf`). `cut`
is history: some process was killed or late. The rules and auth services take part only as
far as these two can tell, which RuleHistory and PlateRegistry say and
RuleCatalogue and Accounts implement.

The operators marked `(mutant)` are not part of the specifications. Each is a
plausible bug of the definition it precedes, and PROJECT.json says which property
it breaks: evidence that the property can fail.

## 3. The runs

| Run | Instance | What it shows |
|---|---|---|
| `Payment_race` | 3 requests, 1 violation, 1 rule version; 462 514 states | with every interleaving of three Pays, failures, orphans, crashes and changes of the vehicle's owner: `ChargedImpliesPaid`, `AnswersAreTruthful`, `PaidIsExplained`, `ChargeWindowCloses`, `LedgerFreezes`, and, with weak fairness, `EveryPaymentEnds` |
| `Payment_fines` | 2 requests, 2 violations, 2 members, 2 versions, 2 fines; 574 562 states | `ChargedTheCitedFine`: rules change between the report, the read and the insert; `PayersHeldTheVehicle`: vehicles change hands; the refinement `ImplementsLedger`: a settlement is of its own violation only |
| `Rules_race` | 4 requests, 1 code, 2 fines, pool of 2; 963 891 states | `OneHistoryPerCode`, `AnswersAreTruthful`, `WaitsEnd`: nobody waits in a circle, and the refinement `ImplementsHistory` |
| `Rules_live` | 3 requests, 1 reader, pool of 2, weak fairness; 678 424 states | `EveryRequestEnds`: no wait for locks, indexes or connections is for ever; `ReadersSeeOneHistory`: the reader asks and is answered at every point of the transactions |
| `Reports_race` | 2 requests beside one whole Report, 2 plates, 2 members, 1 officer, 2 versions, 2 fines, pages 1, 2, 3 and 5 with offsets of 2 bits; 3 225 919 states | a report against a rule that is being replaced, a read of a vehicle that is being sold and a violation that is being paid, with failures and orphans: `CitesTheRuleOfItsTime`, `AnswersAreTruthful`, `ReadsStayTrue`, `MembersSeeTheirOwn`; listings of a first, a second, a refused and a wrapped page: `ListingsAddUp` |
| `Accounts_race` | 3 requests, 4 addresses, 1 plate, a member with a vehicle and an officer; 1 970 208 states | registrations of one address, logins among them, and vehicles that are deleted and registered again, with expiring tokens, failures, orphans and crashes: `TokensSpeakForAccounts`, `VehiclesBelongToMembers`, `AnswersAreTruthful`, `RegisteredMayLogIn`, `FirstRegistrationStands`, `RemovedByTheirOwners`, and the refinement `ImplementsRegistry` |
| `Paging_walk` | 5 rows, 5 values of created_at, pages of 1 to 3 rows, offsets of 4 bits; 441 094 states | `WalkFindsAll` (but for rows that share a created_at and rows older than a removed one), `OffsetsAreExact` |
| `Portal_stop` | 1 report, 1 payment, 2 versions, 2 fines, weak fairness; 241 838 states | a process that is stopped, late, killed and started again at every point of both requests: the refinements `ImplementsPayment` and `ImplementsReports`, `ChargedAsShown`, `OrderlyStopsLoseNothing`, `SignalsStop` |
| `Payment_double` | 2 requests | a violation of `ChargedAtMostOnce` |
| `Payment_cutoff` | 2 requests | a violation of `PaidMeansCharged` |
| `Rules_create` | 2 requests | a violation of `LateCreateConflicts` |
| `Reports_code` | 1 request | a violation of `RefusedCodeDoesNotExist` |

The runs that pass also check `TypeOK` of their module, but for `Payment_fines` and
`Rules_live`, where it would repeat `Payment_race` and `Rules_race`.

*Bounds.* A request is handled once, so the number of requests bounds every run;
`MaxVersion` bounds the versions a code gets in Payment (a guard of
`PublishRule`, and of nothing else). Payments interfere only through the row of
their violation, in pairs; three requests give an overtaken, an overtaking and
a late one. Two violations and two versions are what `ChargedTheCitedFine`
needs to go wrong. Rules interfere only per code, so one code is enough; four
requests are one Create and three Updates, of which one can hold the lock, one
wait with a stale snapshot and one wait with a stale version, and two
connections are fewer than the transactions that compete for them. One reader is
enough: readers change nothing. In Reports,
`MaxVersion` bounds the versions of a code and `Pages` are the page numbers asked
for. Requests meet there only through rows: a report and a reader of its violation, or two of a kind, with
the other writers (rules, vehicles, payments) as unbounded environment steps. So two
requests are enough, but for the second page of a listing: that takes two violations
and a reader between whose page and count a row may come. The third request, in `Alone`,
inserts the other violation at any time; it need not be cut into statements, because
what its statements could meet the other two can. A page is of one row, and offsets
are of two bits (-2 to 1): page 2 has the last offset that fits, page 3 a negative one and
page 5 that of page 1.
Two members and two plates let a vehicle change hands in the middle of a
member's request; `MaxVehicles` 1 makes a listing of one vehicle complete and cuts one of two.
Accounts meet only in one row of `users` or of `vehicles`: three requests are two
that compete and a third that follows (a Delete, a Create of the freed plate and
a late Create; or two Registers and a Login), beside founders who hold one token
of each role. Five rows in pages of one to three give walks of up to five pages,
rows that move across a page's edge and back, and, with four bits, page numbers
whose offset wraps to a negative and to a small number; `PageTexts` and `SizeTexts`
have a number below, within and above every limit. `Portal_stop` has one request
to each service because its questions are about the pair: everything that
requests of one service do to each other is in that service's own run, and the
refinements are proved for any number (section 4); both requests can meet every
state of the process, which restarts without a bound.

*Symmetry* is used in runs without liveness, over sets whose members the
specification never tells apart. `Reports_race` also has a VIEW (`ReportsView` in
MCReports): of a request that failed or was refused and has no insert left to be
executed, only that it did, what it has read and what its violation, if it has
one, came from are told apart. No step reads the rest, and of the properties only `TypeOK` does.

*Deadlock* is checked but for RuleCatalogue and Accounts. These really stop, when
all their requests have ended and, in Accounts, all tokens have expired; `Rules_live` checks instead that every request ends.

*Fairness.* `FairSpec` assumes weak fairness of each request's next statement
and of the server's clean-up: a goroutine that is runnable is run, PostgreSQL
answers a statement that has what it waits for, and notices dead clients. In
Payment the answer may be an error (no statement of Pay waits for anybody). In
RuleCatalogue fairness is on the statements, the readers' among them, alone: the handlers set no timeout,
so a wait must end because what it waits for comes, not because it fails.
In Portal it is on the statements that are served, on the timer of `shutdownCtx`
and on main, which returns when it can; nobody is obliged to send a signal, and
nothing depends on `Kill` or `Start`.

### Where the code does not do what it says

* `Payment_double`: two overlapping payments both find the violation PENDING;
  both update it, both insert a SUCCESS payment, both are answered 201.
  `payment.go:119-121` and `TestPaymentService_Pay_AlreadyPaid` say the second
  is refused. What does hold is `ChargeWindowCloses` with `LedgerFreezes`: the
  excess is limited to the requests that had read the violation before it was
  paid. `AloneChargesOnce` proves that the overlap is all it takes: requests that
  do not overlap charge once, whatever fails.
* `Payment_cutoff`: the violation is PAID and there is no payment, because the
  insert at `payment.go:158` failed, or the process died before it. Retries are
  answered 409 (by `ChargeWindowCloses` and `LedgerFreezes` no payment can ever be
  added). `PaidIsExplained` says this is the only way to get there, `CutOffsAside`
  that without it the 409 is true.
* `Rules_create`: the loser of two Creates of a new code is answered 500, not
  the 409 of `rule.go:92`; `OneHistoryPerCode` shows that the table is right, and
  `LoneCreatesSucceed` proves that Creates which do not overlap are answered 201
  or 409.
* `Reports_code`: `Report` refuses the lower-case spelling of the code of an
  active rule with "specified active rule code does not exist"
  (`violation.go:113`), since it looks the text up as written; the rules service
  normalises what it stores and what it looks up (`rule.go:71, 115, 175`).
  `StoredSpellingsResolve` proves that there is no other reason for the refusal.

## 4. The proofs

Proved for any sets of requests, users, violations, plates, codes and fines,
any number of versions and any pool, from these assumptions alone:
`MaxConnsAssumption` (a pool holds at least one connection), and in Reports
`NormalAssumption` (what is stored is its own normal form) and
`SizeAssumption` (finitely many requests and plates; page size, page numbers and
vehicle limit are positive), in PageOffset `WidthAssumption` (half the numbers an offset can be
is a positive natural number: an offset has a bit or more), in Accounts `FoundersAssumption` (the accounts and vehicles
there are at the start have types and ids of their own, and the vehicles belong
to members), in Paging `PagingAssumption` (there are fewer rows than half the
numbers an offset can be; page sizes are positive), and in Portal
`PortalAssumption` (a request is sent to one service, and what Reports and PageOffset assume).

**PageOffsetProofs.** Two lemmas, which ReportsProofs and PagingProofs cite: what the conversion returns
is in range (`NarrowInRange`), and a number in range is left as it is (`NarrowExact`).

**PaymentProofs.** `PaymentInv` is `TypeOK` and, for each request, `Coherent`:
what its program counter says of the row it read, of the violation and of its
payment. None of the safety properties is inductive by itself. For instance
`ChargedImpliesPaid` needs that a request at `RecordSuccess` stands before a
PAID violation, also when the insert is an orphan's; and that needs that PAID
is never undone, since two requests may be between the writes. The lemmas
about `Grows` say what every step does to rows others have read (a violation
keeps its fine, and stays PAID), `Frame` carries `Coherent` of the other requests
over it, and there is one lemma per action for the request that moves. From the
invariant follow `TypeCorrect`, `ChargesAreSettled`, `FinesAreRight`,
`AnswersHold`, `PaidHasAReason`, `PayersHeld`, the action properties `WindowCloses` and
`LedgerIsFinal`, and `Refinement`: Payment implements FineLedger.

Two more theorems say under which condition the claims hold that two runs refute.
`AloneChargesOnce` (`Spec /\ []NoOverlap => []ChargedAtMostOnce`) is drawn from the
refinement: of the steps of FineLedger only an admission adds to the requests that
are in flight on a violation or have charged it, an admission needs a violation that is not
paid, and such a one has no charge (`NewHolders`). So the set never has two members
unless two are in flight. `CutOffsAside` is `PaidIsExplained` when every request
that was cut off is excluded.

**RuleCatalogueProofs.** `RulesInv` is `TypeOK`, `OneHistoryPerCode`,
`LocksDisjoint` and, for each request, `Coherent`. The argument: a transaction
locks only rows that are active, and they stay active while it holds them
(`Alone`); to pass its insert it must hold every active row of the code, and
the version after the one it read must not exist; as versions have no gap, the
one it read is the last and the last is the active one (`LastIsActive`). So
what it publishes at the commit, or what the server publishes for it later, is
the next version (`NextVersion`). A Create publishes version 1 only of a code
without any (`FirstVersion`). `Publishes` is the effect both have on the table, and
`PublishStep` and `PublishesFine` draw from it the invariant and the
refinement.

That nobody waits in a circle (`NoCircle`) is not an invariant of its own but
follows from `RulesInv` in every state (`WaitsEndHere`). A transaction that another one
waits for has locked a row, so it is at its insert or its commit. It has locked the
code's one active row, so no other transaction decides its insert
(`LocksDisjoint`), and it needs no connection but its own: it waits for no one.
What waits for a connection holds none, so the transactions that have them all
end before it. Hence somebody can always move (`NeverStuck`), and each move brings its request nearer its end (`Advance`): what is
left to the fairness of PostgreSQL is that a move that is possible is made.
`UpdatesKept`, that two acknowledged Updates replaced different versions, is what
`OneHistoryPerCode` and `AnswersAreTruthful` say together.

The readers have an invariant of their own, `ReadersInv`, inductive beside `RulesInv`
(`NextReaders` takes both states' `RulesInv` as hypotheses). It rests on what every
step does to the table (`TableStep`): a version once there stays, inactive rows
stay inactive, and the active version of a code never falls (`LatestAfter`),
because an Update publishes its two writes at once and in the right order. So a
SELECT finds a version no older than `since` (`SelectSees`), and what it found stays
true (`StaysTrue`).

A code that has a version has an active one (`NeverInactive`). This does not follow from
`OneHistoryPerCode` when there may be infinitely many rows, and is proved from
`TableStep`. With it, a Create that passes its check has found a code without versions, and
under `OneCreateAtATime` nobody else can give it one: another Create at its insert is excluded,
and an Update has read a version (`StaysFirst`). So its insert cannot clash
(`LoneCreatesSucceed`).

Theorems: `TypeCorrect`, `OneHistory`, `AnswersHold`, `Refinement` (RuleCatalogue
implements RuleHistory), `NoCircle`, `NeverStuck`, the action property `Advance`,
`UpdatesKept`, `ReadersInvHolds`, `ReadersSeeHistory`, `NeverInactive`,
`LoneCreatesSucceed`.

**ReportsProofs.** `ReportsInv` is `TypeOK` and, for each request, `Coherent`, in
four parts. `Reporting`: from its resolution on, a report's version is one of
its code and no older than the request (versions are never taken back); a
violation has the plate, code and version of its request and is inserted by it
alone, once, in person or as an orphan. `Reading`: whatever was read of a
violation still holds but for a status that moved to PAID, because tables only
grow (`Grows`). `Listing`: the page lies within the matching rows, from the offset that was sent on, and ends no
later than they do; rows never stop matching, so a later count covers it. That offset is
the page's own when it fits (`OffsetFits`), which is where `CountsCover` stops; the page of a wrapped
offset is in the invariant like any other, but says nothing of the page asked for. This
part needs cardinalities, hence the finiteness in `SizeAssumption`. And: while a
request runs, every plate of its caller is in `held`, which is why a plate found
by a later statement was the caller's in time (`Knows`). The layout is that of
PaymentProofs: `Frame` for the requests a step does not touch, one lemma per
action for the one it does. That a listing is complete has an
invariant of its own, `DueInv`, inductive beside `ReportsInv`. While the request is
at `ListVehicles`, what is due is on plates the member has *now*: a plate that goes
takes its violations out of `due`, one that comes adds none. There are no more of
these plates than the member has held, so a member within the limit has all of
them looked for (`ListVehiclesOwes`; equal cardinalities make the subset the whole).
From then on the plates are fixed and rows only come, so what is due matches, a
first page that is not full is all that matches (`ListPageOwes`), and a count
covers it (`CountOwes`). Theorems: `TypeCorrect`, `CitationsHold`, `AnswersHold`,
`ReadsHold`, `OwnersOnly`, `CountsCover`, `DueHolds`, `ListingsComplete`, and, when callers write
codes as they are stored (`CodesAsStored`), `StoredSpellingsResolve`.

**AccountsProofs.** `AccountsInv` is `TypeOK`, what tokens and vehicles say of
accounts, `VehiclesExplained` (the id of a vehicle says which request inserted it
and when it may be there) and, for each request, `Coherent` in three parts:
`Admitted` (what validation and the token let through is still in order when
the statement runs, in person or as an orphan), `Wrote` (a row with its id is the
one it inserts, once) and `Answered`. The argument rests on one fact the code
never states: accounts are never removed or changed, so what a token said once is
true for ever, and a role that was checked need not be checked again. Theorems:
`TypeCorrect`, `TokensHold`, `OwnersAreMembers`, `AnswersHold`, `LoginsHold`, the
action properties `AccountsStand` and `RemovalsAreOwners`, and `Refinement`
(Accounts implements PlateRegistry).

**PagingProofs.** `PagingInv` says of a row that is owed and not shown yet that its
place, the number of newer rows, is on the page that is asked for or after it
(`Beyond`), and once the page is read, that it was on it or is after it. Inserts
only move rows to later places; a removal moves only rows that it takes from
`due`. At the count: if page times size reaches the total, no row is beyond the
page. And a walk asks for a page beyond the first only because the total was
larger than the offset, so the offset is below the number of rows there may be,
which fits. The lemmas about cardinalities (`Newer` sets, what is skipped and
read) need the rows to be finite. Theorems: `TypeCorrect`, `WalksFindAll`,
`OffsetsExact`.

**PortalProofs.** Each service was proved correct in an environment it makes
assumptions about; here the environment is the other service and the process.
`PortalInv` is both services' invariants and `Process`, what the process is at.
The argument goes round: by the invariant of Reports an insert of a report is one
that Payment allows its environment (a new violation, citing a version that
exists: `InsertionIsReport`); by that of Payment a settlement is of a violation
there is (`SettlementIsPayment`); a process that perishes is a crash to both
(`PerishStep`). So every step of the portal is, to each, one of its own steps or
none (`PaymentSees`, `ReportsSee`), and each keeps its invariant by its own proof,
cited through INSTANCE (`PP`, `RR`). Theorems: `PaymentRefined` and `ReportsRefined`
(hence all that is proved of the two holds of the portal), `ChargesAsShown`, which
neither service could state alone, `OrderlyStops`, `TypeCorrect`.

**Only model-checked:** `EveryPaymentEnds` in Payment, `EveryRequestEnds` in RuleCatalogue and
`SignalsStop` in Portal (liveness under fairness is beyond the prover).

## 5. What is not modelled

* What a listing of a member with more than 1000 vehicles leaves out
  (`violation.go:197`): Reports has the bound, and `ListingsAddUp` promises
  nothing above it, as the code does not.
* The content of addresses, plates, passwords and cards. Boundary cases of one
  call's text (a name of 255 characters and a space, `rule.go:32`; a padded CVV,
  `payment.go:126`) are for unit tests.
* The rules and auth services inside Portal, and more than one server process
  at a time.
* The gateway, JSON, logging, CORS, request ids, configuration: stateless, and no
  property depends on them. A body that cannot be parsed is answered before
  anything else happens.
* Failures of PostgreSQL itself: what it has committed stays.
* Retries by clients are new requests, but for those of a page in Paging.

## 6. Plan

Everything that changes state is modelled, and every safety property that is
checked is proved. What would be worth adding:

1. RuleCatalogue and Accounts inside Portal, in the manner of PortalProofs, so
   that a rule transaction meets the closing pool: its connection is the one
   `pool.Close` waits for over several statements.
2. Two server processes on one database, as during a rolling restart: Portal's
   `Kill` and `Start` cover their succession, not their overlap.
3. The safety halves of `EveryPaymentEnds` in Payment and of `SignalsStop`, as
   `Advance` and `NeverStuck` are that of RuleCatalogue.

Runs are kept few: a small module shares an instance with a neighbour where one
question covers both.
