------------------------------- MODULE Portal -------------------------------
(***************************************************************************)
(* The server process (cmd/server): the violation service and the payment  *)
(* service on the same tables, in a process that is started, told to stop, *)
(* or killed.                                                              *)
(*                                                                         *)
(* Reports and Payment each model one service and take the other for its   *)
(* environment.  Here they run together: a report of the one is an insert  *)
(* the other sees, a settlement likewise, and both come to know of rules   *)
(* and vehicles at the same moment.                                        *)
(*                                                                         *)
(* A signal makes main wait for the open requests, ten seconds at most,    *)
(* and return.  The deferred pool.Close waits for the statements that hold *)
(* a connection and refuses all others; then the process is gone.          *)
(***************************************************************************)
EXTENDS Integers, Sequences, FiniteSets

CONSTANTS
    Payers,     \* the requests to the payment service
    Reporters,  \* the requests to the violation service
    Members, Officers, Codes, Plates, CodeTexts, PlateTexts, Normal,
    Amounts, MaxVersion, PageSize, Pages, Width, MaxVehicles

\* A request is sent to one service.  The rest is what Reports assumes.
ASSUME PortalAssumption ==
    /\ Payers \cap Reporters = {}
    /\ \A text \in CodeTexts \cup PlateTexts :
          text \in Codes \cup Plates => Normal[text] = text
    /\ IsFiniteSet(Reporters) /\ IsFiniteSet(Plates)
    /\ MaxVersion \in Nat
    /\ {PageSize, 2 ^ (Width - 1), MaxVehicles} \subseteq Nat \ {0}
    /\ Pages \subseteq Nat \ {0}

VARIABLES
    history, vehicles, violations, payments,  \* the tables
    pInput, pSeen, pPc, pAnswer, pOrphans, pHeld,         \* as in Payment
    rInput, cited, plates, shown, total,                  \* as in Reports
    rPc, rAnswer, rOrphans, since, rHeld, due,
    server,  \* what the process is at
    flight,  \* while the pool closes: the requests that hold a connection
    cut      \* history: a process has been killed, or been late to stop

P == INSTANCE Payment
       WITH Requests <- Payers, ViolationIds <- Reporters, input <- pInput,
            seen <- pSeen, pc <- pPc, answer <- pAnswer,
            orphans <- pOrphans, held <- pHeld
R == INSTANCE Reports
       WITH Requests <- Reporters, Alone <- {}, input <- rInput, pc <- rPc,
            answer <- rAnswer, orphans <- rOrphans, held <- rHeld

paying    == <<payments, pInput, pSeen, pPc, pAnswer, pOrphans, pHeld>>
reporting == <<rInput, cited, plates, shown, total, rPc, rAnswer, rOrphans,
               since, rHeld, due>>
process   == <<server, flight, cut>>
vars      == <<history, vehicles, violations, paying, reporting, process>>

Live == {r \in Payers : P!Live(r)} \cup {r \in Reporters : R!Live(r)}

\* "up" serves, "draining" waits in Shutdown until it is "late", "closing"
\* waits in pool.Close.
TypeOK ==
    /\ P!TypeOK /\ R!TypeOK
    /\ server \in {"up", "draining", "late", "closing", "down"}
    /\ flight \subseteq Live
    /\ server # "closing" => flight = {}
    /\ server = "down" => Live = {}
    /\ cut \in BOOLEAN

Init == P!Init /\ R!Init /\ server = "up" /\ flight = {} /\ cut = FALSE

-----------------------------------------------------------------------------
(* Requests.                                                               *)

\* Shutdown closes the listener, but a connection it has accepted before
\* may still bring its request.
Listening == server \in {"up", "draining", "late"}

Arrives ==
    /\ Listening
    /\ \/ /\ \E r \in Payers, u \in Members \cup Officers,
                v \in Reporters, card \in P!Cards : P!Receive(r, u, v, card)
          /\ UNCHANGED reporting
       \/ /\ \E r \in Reporters, u \in Members \cup Officers : R!Receive(r, u)
          /\ UNCHANGED paying
    /\ UNCHANGED process

\* (mutant) the connection of a statement is not given back
KeepsConnection(r) == UNCHANGED flight

\* A statement is over and its connection given back.
GivesBack(r) == flight' = flight \ {r}

\* The pool serves a statement unless it is closing.  Then it serves those
\* that hold a connection already.
Served(r) == server # "closing" \/ r \in flight

StepOf(r) ==
    /\ Served(r)
    /\ \/ r \in Payers /\ P!Step(r) /\ UNCHANGED reporting
       \/ r \in Reporters /\ R!Live(r) /\ R!Step(r) /\ UNCHANGED paying
    /\ GivesBack(r)
    /\ UNCHANGED <<server, cut>>

\* All others are refused a connection: the handler answers 500.
Refused(r) ==
    /\ server = "closing" /\ r \notin flight
    /\ \/ /\ r \in Payers /\ P!StatementFails(r) /\ pOrphans' = pOrphans
          /\ UNCHANGED reporting
       \/ /\ r \in Reporters /\ R!StatementFails(r) /\ rOrphans' = rOrphans
          /\ UNCHANGED paying
    /\ UNCHANGED process

\* What nobody waits for is PostgreSQL's, whatever the process is at.
OrphanOf(r) ==
    /\ \/ r \in Payers /\ P!Orphan(r) /\ UNCHANGED reporting
       \/ /\ r \in Reporters /\ (R!OrphanRuns(r) \/ R!OrphanDies(r))
          /\ UNCHANGED paying
    /\ UNCHANGED process

-----------------------------------------------------------------------------
(* The process.                                                            *)

\* All that run lose their handlers; of the writes that hold a connection
\* some may be executed later.
Perish(sent) ==
    /\ \/ P!Crash /\ pOrphans' \subseteq pOrphans \cup sent
       \/ ~(\E r \in Payers : P!Live(r)) /\ UNCHANGED paying
    /\ \/ R!Crash /\ rOrphans' \subseteq rOrphans \cup sent
       \/ ~(\E r \in Reporters : R!Live(r)) /\ UNCHANGED reporting
    /\ UNCHANGED <<history, vehicles, violations>>

Start ==
    /\ server = "down" /\ server' = "up"
    /\ UNCHANGED <<history, vehicles, violations, paying, reporting, flight,
                   cut>>

\* SIGTERM or SIGINT.
Signal ==
    /\ server = "up" /\ server' = "draining"
    /\ UNCHANGED <<history, vehicles, violations, paying, reporting, flight,
                   cut>>

\* The ten seconds of shutdownCtx are over.
Expire ==
    /\ server = "draining" /\ server' = "late"
    /\ cut' = TRUE
    /\ UNCHANGED <<history, vehicles, violations, paying, reporting, flight>>

\* (mutant) main does not wait for Shutdown
CloseAtOnce ==
    /\ server \in {"draining", "late"} /\ server' = "closing"
    /\ flight' \in SUBSET Live
    /\ UNCHANGED <<history, vehicles, violations, paying, reporting, cut>>

\* Shutdown returns because nothing runs any more, or because it is late:
\* its error is only logged.  Either way the pool is closed.
Close ==
    /\ \/ server = "late"
       \/ server = "draining" /\ Live = {}
    /\ server' = "closing"
    /\ flight' \in SUBSET Live
    /\ UNCHANGED <<history, vehicles, violations, paying, reporting, cut>>

\* pool.Close returns, main returns, and the process is gone.
Exit ==
    /\ server = "closing" /\ flight = {} /\ server' = "down"
    /\ Perish({})
    /\ UNCHANGED <<flight, cut>>

Kill ==
    /\ server # "down" /\ server' = "down"
    /\ Perish(IF server = "closing" THEN flight ELSE Live)
    /\ flight' = {} /\ cut' = TRUE

-----------------------------------------------------------------------------
(* The other services, as both see them.                                   *)

Others ==
    /\ \/ \E c \in Codes, a \in Amounts : P!PublishRule(c, a)
                                          /\ R!PublishRule(c, a)
       \/ \E p \in Plates, u \in Members : P!RegisterVehicle(p, u)
                                           /\ R!RegisterVehicle(p, u)
       \/ \E p \in Plates : P!RemoveVehicle(p) /\ R!RemoveVehicle(p)
    /\ UNCHANGED process

Next ==
    \/ Arrives
    \/ \E r \in Payers \cup Reporters : StepOf(r) \/ Refused(r) \/ OrphanOf(r)
    \/ Start \/ Signal \/ Expire \/ Close \/ Exit \/ Kill
    \/ Others

Spec == Init /\ [][Next]_vars

\* PostgreSQL answers every statement, the ten seconds pass, and main
\* returns when it can.
FairSpec == /\ Spec
            /\ \A r \in Payers \cup Reporters : WF_vars(StepOf(r))
            /\ WF_vars(Expire) /\ WF_vars(Close) /\ WF_vars(Exit)

-----------------------------------------------------------------------------
(* Properties.                                                             *)

\* Running together each service is what it is in its own module: what
\* either takes for granted of the rest of the portal, the other and the
\* life of the process keep to.
ImplementsPayment == P!Spec
ImplementsReports == R!Spec

\* A payment is of the amount every reader of the violation has been shown,
\* by whichever version of the rule and at whatever time.
ChargedAsShown ==
    \A p \in DOMAIN payments, r \in Reporters :
        payments[p].violation \in DOMAIN shown[r] =>
            payments[p].amount = shown[r][payments[p].violation].amount

\* Every request is answered by the process it was sent to, unless that is
\* killed, or told to stop and then not done within ten seconds.
OrderlyStopsLoseNothing ==
    ~cut => /\ \A r \in Payers : pAnswer[r] # "lost"
            /\ \A r \in Reporters : rAnswer[r] # "lost"

\* A process told to stop does, whatever is running then.
SignalsStop == server \in {"draining", "late", "closing"} ~> server = "down"

\* Why all this holds: each service keeps its own invariant, no process that
\* is late or killed goes unnoticed, and one that was not late closes the
\* pool when nothing runs.
PortalInv ==
    /\ TypeOK
    /\ P!PaymentInv /\ R!ReportsInv
    /\ \A c \in Codes : Len(history[c]) <= MaxVersion
    /\ OrderlyStopsLoseNothing
    /\ server = "late" => cut
    /\ server = "closing" /\ ~cut => Live = {}

=============================================================================
