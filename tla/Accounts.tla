------------------------------ MODULE Accounts ------------------------------
(***************************************************************************)
(* Accounts, tokens and vehicles (internal/auth, pkg/jwt and the auth      *)
(* middleware): concurrent requests of one statement each                  *)
(*                                                                         *)
(*   Register        CreateUser                                            *)
(*   Login           GetUserByEmail, then the password and the token       *)
(*   Me              GetUserByID                                           *)
(*   CreateVehicle   CreateVehicle                                         *)
(*   DeleteVehicle   DeleteVehicle                                         *)
(*                                                                         *)
(* with failures, lost connections and crashes as in Payment.  The last    *)
(* three come with a token, which is believed without looking at the       *)
(* account it was issued for, and only when the request arrives.           *)
(***************************************************************************)
EXTENDS Naturals, Tables

CONSTANTS
    Requests,     \* requests; also the ids of the rows they insert
    Emails, Plates,          \* as they are stored: valid and normalised
    EmailTexts, PlateTexts,  \* what callers write for them
    Normal,       \* NormalizeEmail, NormalizePlate of every text
    Passwords,
    Short,        \* passwords below 8 bytes: refused by validation
    TooLong,      \* passwords above 72 bytes: refused by bcrypt
    Founders,     \* the accounts there are when the requests begin
    Fleet         \* the vehicles there are when the requests begin

Roles      == {"officer", "member"}
UserIds    == Requests \cup {Founders[e].id : e \in DOMAIN Founders}
VehicleIds == Requests \cup {Fleet[p].id : p \in DOMAIN Fleet}

\* A token is what it claims: only the server can sign one.
Claims  == [user : UserIds, role : Roles]
NoToken == [user |-> "nobody", role |-> "none"]

UserRow    == [id : UserIds, password : Passwords, role : Roles]
VehicleRow == [id : VehicleIds, user : UserIds]

IsTable(table, keys, rows) ==
    /\ DOMAIN table \subseteq keys
    /\ table \in [DOMAIN table -> rows]

\* Founders and Fleet are tables of their types with ids of their own, and
\* the vehicles belong to members.  No address is empty.
ASSUME FoundersAssumption ==
    /\ "" \notin Emails
    /\ IsTable(Founders, Emails, UserRow)
    /\ IsTable(Fleet, Plates, VehicleRow)
    /\ \A e \in DOMAIN Founders : Founders[e].id \notin Requests
    /\ \A p \in DOMAIN Fleet :
          /\ Fleet[p].id \notin Requests
          /\ \A q \in DOMAIN Fleet : Fleet[q].id = Fleet[p].id => q = p
          /\ \E e \in DOMAIN Founders : /\ Founders[e].id = Fleet[p].user
                                        /\ Founders[e].role = "member"

VARIABLES
    users,     \* email -> [id, password, role]   (email is UNIQUE)
    vehicles,  \* plate_number -> [id, user]      (plate_number is UNIQUE)
    tokens,    \* the claims of the tokens that are out and not expired
    input,     \* the body and the token of each request received
    pc, answer, orphans,  \* as in Payment
    issued,    \* history: the ids of all vehicles ever inserted
    known      \* history: Logins that came with the credentials of an account

tables  == <<users, vehicles>>
handler == <<tokens, input, pc, answer>>
past    == <<issued, known>>
vars    == <<tables, handler, orphans, past>>

Writes     == {"CreateUser", "CreateVehicle", "DeleteVehicle"}
Statements == {"GetUserByEmail", "GetUserByID"} \cup Writes
Answers    == {"200", "201", "204", "400", "401", "403", "404", "409", "422",
               "500"}

Live(r) == pc[r] \in Statements /\ answer[r] = "none"

InputRow ==
         [op : {"Register"}, email : EmailTexts, password : Passwords,
          role : Roles \cup {"other"}]
    \cup [op : {"Login"}, email : EmailTexts, password : Passwords]
    \cup [op : {"Me"}, caller : Claims \cup {NoToken}]
    \cup [op : {"CreateVehicle"}, caller : Claims \cup {NoToken},
          plate : PlateTexts]
    \cup [op : {"DeleteVehicle"}, caller : Claims \cup {NoToken},
          vehicle : VehicleIds \cup {"malformed"}]

\* Type invariant: tables, tokens and handler variables hold rows of their
\* types; only writes are left to the database.
TypeOK ==
    /\ IsTable(users, Emails, UserRow)
    /\ IsTable(vehicles, Plates, VehicleRow)
    /\ tokens \subseteq Claims
    /\ IsTable(input, Requests, InputRow)
    /\ pc \in [Requests -> Statements \cup {"idle"}]
    /\ answer \in [Requests -> Answers \cup {"none", "lost"}]
    /\ orphans \subseteq {r \in Requests : pc[r] \in Writes}
    /\ issued \subseteq VehicleIds
    /\ known \subseteq Requests

\* What Login puts in the token of an account.
ClaimsOf(row) == [user |-> row.id, role |-> row.role]

\* The founders are logged in.
Init ==
    /\ users = Founders
    /\ vehicles = Fleet
    /\ tokens = {ClaimsOf(users[e]) : e \in DOMAIN users}
    /\ input = << >>
    /\ pc = [r \in Requests |-> "idle"]
    /\ answer = [r \in Requests |-> "none"]
    /\ orphans = {}
    /\ issued = {Fleet[p].id : p \in DOMAIN Fleet}
    /\ known = {}

-----------------------------------------------------------------------------
(* Arrival: everything that is decided before the statement.               *)

At(r, step)      == pc[r] = step /\ answer[r] = "none"
Respond(r, code) == answer' = [answer EXCEPT ![r] = code] /\ UNCHANGED pc

Arrive(r, row, step, refusal) ==
    /\ pc[r] = "idle"
    /\ input' = Insert(input, r, row)
    /\ pc' = [pc EXCEPT ![r] = step]
    /\ answer' = [answer EXCEPT ![r] = refusal]
    /\ UNCHANGED <<tables, tokens, orphans, issued>>

ReceiveRegister(r, email, password, role) ==
    /\ Arrive(r, [op |-> "Register", email |-> email, password |-> password,
                  role |-> role], "CreateUser",
              IF Normal[email] \notin Emails \/ password \in Short
                 \/ role \notin Roles THEN "422"
              ELSE IF password \in TooLong THEN "500" ELSE "none")
    /\ UNCHANGED known

\* The password that was hashed at the registration, and no other, passes.
Matches(email, password) == /\ email \in DOMAIN users
                            /\ users[email].password = password

ReceiveLogin(r, email, password) ==
    /\ Arrive(r, [op |-> "Login", email |-> email, password |-> password],
              "GetUserByEmail", IF Normal[email] = "" THEN "401" ELSE "none")
    /\ known' = IF Matches(Normal[email], password) THEN known \cup {r}
                                                    ELSE known

\* Auth: the header holds a token that is signed and not expired.
Refusal(token, otherwise) == IF token \in tokens THEN otherwise ELSE "401"

ReceiveMe(r, token) ==
    /\ Arrive(r, [op |-> "Me", caller |-> token], "GetUserByID",
              Refusal(token, "none"))
    /\ UNCHANGED known

\* (mutant) any role may register vehicles
MembersOnlyNot(token, otherwise) == Refusal(token, otherwise)

MembersOnly(token, otherwise) ==
    Refusal(token, IF token.role # "member" THEN "403" ELSE otherwise)

ReceiveCreateVehicle(r, token, plate) ==
    /\ Arrive(r, [op |-> "CreateVehicle", caller |-> token, plate |-> plate],
              "CreateVehicle",
              MembersOnly(token, IF Normal[plate] \notin Plates THEN "422"
                                                               ELSE "none"))
    /\ UNCHANGED known

\* Clients learn the id of a vehicle from the answers that show it.
ReceiveDeleteVehicle(r, token, vehicle) ==
    /\ vehicle \in issued \cup {"malformed"}
    /\ Arrive(r, [op |-> "DeleteVehicle", caller |-> token,
                  vehicle |-> vehicle],
              "DeleteVehicle",
              MembersOnly(token, IF vehicle = "malformed" THEN "400"
                                                         ELSE "none"))
    /\ UNCHANGED known

-----------------------------------------------------------------------------
(* The statements.                                                         *)

Account(r) == Normal[input[r].email]
Plate(r)   == Normal[input[r].plate]
Caller(r)  == input[r].caller.user

\* The row a Register inserts.
UserOf(r) == [id |-> r, password |-> input[r].password, role |-> input[r].role]

\* (mutant) the account is stored under the address as it was written
NewUserAsWritten(r) ==
    /\ users' = Insert(users, input[r].email, UserOf(r))
    /\ UNCHANGED vehicles

NewUser(r) ==
    /\ users' = Insert(users, Account(r), UserOf(r))
    /\ UNCHANGED vehicles

\* (mutant) the INSERT has become an upsert
CreateUserUpserts(r) ==
    /\ At(r, "CreateUser")
    /\ NewUser(r)
    /\ Respond(r, "201")
    /\ UNCHANGED <<tokens, input, orphans, past>>

CreateUser(r) ==
    /\ At(r, "CreateUser")
    /\ \/ Account(r) \in DOMAIN users /\ Respond(r, "409") /\ UNCHANGED tables
       \/ Account(r) \notin DOMAIN users /\ Respond(r, "201") /\ NewUser(r)
    /\ UNCHANGED <<tokens, input, orphans, past>>

\* (mutant) the account is looked up by the address as it was written
GetUserByEmailAsWritten(r) ==
    /\ At(r, "GetUserByEmail")
    /\ LET email == input[r].email IN
       \/ /\ Matches(email, input[r].password)
          /\ tokens' = tokens \cup {ClaimsOf(users[email])}
          /\ Respond(r, "200")
       \/ /\ ~Matches(email, input[r].password)
          /\ Respond(r, "401")
          /\ UNCHANGED tokens
    /\ UNCHANGED <<tables, input, orphans, past>>

GetUserByEmail(r) ==
    /\ At(r, "GetUserByEmail")
    /\ \/ /\ Matches(Account(r), input[r].password)
          /\ tokens' = tokens \cup {ClaimsOf(users[Account(r)])}
          /\ Respond(r, "200")
       \/ /\ ~Matches(Account(r), input[r].password)
          /\ Respond(r, "401")
          /\ UNCHANGED tokens
    /\ UNCHANGED <<tables, input, orphans, past>>

Registered(id) == \E e \in DOMAIN users : users[e].id = id

GetUserByID(r) ==
    /\ At(r, "GetUserByID")
    /\ Respond(r, IF Registered(Caller(r)) THEN "200" ELSE "404")
    /\ UNCHANGED <<tables, tokens, input, orphans, past>>

VehicleOf(r) == [id |-> r, user |-> Caller(r)]

NewVehicle(r) ==
    /\ vehicles' = Insert(vehicles, Plate(r), VehicleOf(r))
    /\ issued' = issued \cup {r}
    /\ UNCHANGED users

\* (mutant) a plate that is taken goes to the new caller
CreateVehicleTakesOver(r) ==
    /\ At(r, "CreateVehicle")
    /\ NewVehicle(r)
    /\ Respond(r, "201")
    /\ UNCHANGED <<tokens, input, orphans, known>>

\* The user is there, or the foreign key fails the statement.
CreateVehicle(r) ==
    /\ At(r, "CreateVehicle")
    /\ \/ /\ Plate(r) \in DOMAIN vehicles \/ ~Registered(Caller(r))
          /\ Respond(r, IF Registered(Caller(r)) THEN "409" ELSE "500")
          /\ UNCHANGED <<tables, issued>>
       \/ /\ Plate(r) \notin DOMAIN vehicles /\ Registered(Caller(r))
          /\ Respond(r, "201")
          /\ NewVehicle(r)
    /\ UNCHANGED <<tokens, input, orphans, known>>

\* (mutant) the DELETE has lost its condition on user_id
TargetAnyOwner(r) ==
    {p \in DOMAIN vehicles : vehicles[p].id = input[r].vehicle}

\* The rows WHERE id AND user_id: one at most.
Target(r) == {p \in DOMAIN vehicles :
                vehicles[p] = [id |-> input[r].vehicle, user |-> Caller(r)]}

Removal(r) ==
    /\ vehicles' = [p \in DOMAIN vehicles \ Target(r) |-> vehicles[p]]
    /\ UNCHANGED users

\* (mutant) the count of deleted rows is not looked at
DeleteVehicleUnchecked(r) ==
    /\ At(r, "DeleteVehicle")
    /\ Respond(r, "204")
    /\ UNCHANGED <<tables, tokens, input, orphans, past>>

DeleteVehicle(r) ==
    /\ At(r, "DeleteVehicle")
    /\ Removal(r)
    /\ Respond(r, IF Target(r) = {} THEN "404" ELSE "204")
    /\ UNCHANGED <<tokens, input, orphans, past>>

-----------------------------------------------------------------------------
(* Failures, as in Payment.                                                *)

StatementFails(r) ==
    /\ Live(r)
    /\ Respond(r, "500")
    /\ \/ UNCHANGED orphans
       \/ pc[r] \in Writes /\ orphans' = orphans \cup {r}
    /\ UNCHANGED <<tables, tokens, input, past>>

Crash ==
    /\ \E r \in Requests : Live(r)
    /\ answer' = [r \in Requests |-> IF Live(r) THEN "lost" ELSE answer[r]]
    /\ \E sent \in SUBSET {r \in Requests : Live(r) /\ pc[r] \in Writes} :
          orphans' = orphans \cup sent
    /\ UNCHANGED <<tables, tokens, input, pc, past>>

\* An INSERT that meets its key, or no user, fails with nobody to tell.
OrphanRuns(r) ==
    /\ r \in orphans
    /\ \/ /\ pc[r] = "CreateUser" /\ Account(r) \notin DOMAIN users
          /\ NewUser(r) /\ UNCHANGED issued
       \/ /\ pc[r] = "CreateVehicle" /\ Plate(r) \notin DOMAIN vehicles
          /\ Registered(Caller(r)) /\ NewVehicle(r)
       \/ /\ pc[r] = "DeleteVehicle" /\ Removal(r) /\ UNCHANGED issued
    /\ orphans' = orphans \ {r}
    /\ UNCHANGED <<handler, known>>

OrphanDies(r) ==
    /\ r \in orphans
    /\ orphans' = orphans \ {r}
    /\ UNCHANGED <<tables, handler, past>>

\* The last token with these claims expires.
Expire(token) ==
    /\ token \in tokens
    /\ tokens' = tokens \ {token}
    /\ UNCHANGED <<tables, input, pc, answer, orphans, past>>

Receive(r) ==
    \/ \E e \in EmailTexts, w \in Passwords, role \in Roles \cup {"other"} :
          ReceiveRegister(r, e, w, role)
    \/ \E e \in EmailTexts, w \in Passwords : ReceiveLogin(r, e, w)
    \/ \E t \in tokens \cup {NoToken} :
          \/ ReceiveMe(r, t)
          \/ \E p \in PlateTexts : ReceiveCreateVehicle(r, t, p)
          \/ \E v \in issued \cup {"malformed"} : ReceiveDeleteVehicle(r, t, v)

Step(r) ==
    \/ CreateUser(r) \/ GetUserByEmail(r) \/ GetUserByID(r)
    \/ CreateVehicle(r) \/ DeleteVehicle(r)
    \/ StatementFails(r)
    \/ OrphanRuns(r) \/ OrphanDies(r)

Next ==
    \/ \E r \in Requests : Receive(r) \/ Step(r)
    \/ Crash
    \/ \E token \in tokens : Expire(token)

Spec == Init /\ [][Next]_vars

-----------------------------------------------------------------------------
(* Properties.                                                             *)

\* Every token that is out says of its account what the table says: it
\* exists and has that role, though the token was issued long ago and no
\* handler looks the account up.
TokensSpeakForAccounts ==
    \A t \in tokens : \E e \in DOMAIN users : ClaimsOf(users[e]) = t

\* Every vehicle belongs to the account of a member, although the role is
\* checked on a token and the row may be inserted long after the token
\* expired.
Member(user) == \E e \in DOMAIN users : /\ users[e].id = user
                                         /\ users[e].role = "member"

VehiclesBelongToMembers ==
    \A p \in DOMAIN vehicles : Member(vehicles[p].user)

\* The row of a Register or a CreateVehicle is there.
HasAccount(r) == /\ Account(r) \in DOMAIN users
                 /\ users[Account(r)] = UserOf(r)
HasVehicle(r) == /\ Plate(r) \in DOMAIN vehicles
                 /\ vehicles[Plate(r)] = VehicleOf(r)

\* A Delete by r's caller of the vehicle r inserted that may have happened.
Withdrawn(r) ==
    \E d \in DOMAIN input :
        /\ input[d].op = "DeleteVehicle"
        /\ input[d].vehicle = r /\ Caller(d) = Caller(r)
        /\ answer[d] \in {"204", "500", "lost"}

\* The status code a client sees says what the database holds, and goes on
\* being true.  201: the account, or the vehicle unless its owner has
\* withdrawn it.  204 and 404: the vehicle is not the caller's, for good.
\* A refusal: the request has written nothing and never will.
AnswersAreTruthful ==
    \A r \in DOMAIN input :
        LET op == input[r].op IN
        /\ answer[r] = "201" /\ op = "Register" => HasAccount(r)
        /\ answer[r] = "201" /\ op = "CreateVehicle" =>
              HasVehicle(r) \/ Withdrawn(r)
        /\ answer[r] \in {"204", "404"} /\ op = "DeleteVehicle" =>
              Target(r) = {}
        /\ answer[r] \in {"400", "401", "403", "404", "409", "422"} =>
              /\ r \notin orphans /\ r \notin issued
              /\ \A e \in DOMAIN users : users[e].id # r
        /\ answer[r] = "409" /\ op = "Register" => Account(r) \in DOMAIN users

\* Whoever registered an address and password before a login arrives is not
\* refused, however the address is written and whatever else is registered
\* meanwhile.
RegisteredMayLogIn == \A r \in known : answer[r] # "401"

\* An account keeps its id, its password and its role: neither another
\* registration of the address nor one that was given up changes it.
FirstRegistrationStands ==
    [][\A e \in DOMAIN users : e \in DOMAIN users' /\ users'[e] = users[e]]_vars

\* A vehicle goes only by a Delete of that vehicle by its owner: also when
\* the Delete comes late and the plate is registered again meanwhile.
RemovedByTheirOwners ==
    [][\A p \in DOMAIN vehicles :
          \/ p \in DOMAIN vehicles' /\ vehicles'[p] = vehicles[p]
          \/ \E r \in DOMAIN input :
                /\ input[r].op = "DeleteVehicle"
                /\ input[r].vehicle = vehicles[p].id
                /\ Caller(r) = vehicles[p].user
                /\ Live(r) \/ r \in orphans
      ]_vars

\* Why the invariants hold: what is true of one request at any time.  What
\* validation and the token let through is still in order when the statement
\* runs, in person or as an orphan, for accounts stay; a row with the id of
\* a request is the one it inserts, once, at its only statement.
Pending(r) == answer[r] = "none" \/ r \in orphans

Admitted(r) ==
    /\ pc[r] = "CreateUser" => input[r].op = "Register"
    /\ pc[r] = "GetUserByEmail" => input[r].op = "Login"
    /\ pc[r] = "GetUserByID" => input[r].op = "Me"
    /\ pc[r] = "CreateVehicle" => input[r].op = "CreateVehicle"
    /\ pc[r] = "DeleteVehicle" =>
          /\ input[r].op = "DeleteVehicle"
          /\ input[r].vehicle \in issued \/ answer[r] \in {"400", "401", "403"}
    /\ pc[r] = "CreateUser" /\ Pending(r) =>
          Account(r) \in Emails /\ input[r].role \in Roles
    /\ pc[r] = "CreateVehicle" /\ Pending(r) =>
          /\ Plate(r) \in Plates
          /\ input[r].caller \in Claims /\ Member(Caller(r))

Wrote(r) ==
    /\ r \in orphans => answer[r] \in {"500", "lost"}
    /\ \A e \in DOMAIN users : users[e].id = r =>
          /\ pc[r] = "CreateUser" /\ e = Account(r) /\ users[e] = UserOf(r)
          /\ ~Pending(r) /\ answer[r] \in {"201", "500", "lost"}
    /\ r \in issued => /\ pc[r] = "CreateVehicle" /\ ~Pending(r)
                       /\ answer[r] \in {"201", "500", "lost"}

Answered(r) ==
    /\ answer[r] = "201" =>
          \/ pc[r] = "CreateUser" /\ HasAccount(r)
          \/ pc[r] = "CreateVehicle" /\ (HasVehicle(r) \/ Withdrawn(r))
    /\ pc[r] = "DeleteVehicle" /\ answer[r] \in {"204", "404"} =>
          Target(r) = {}
    /\ pc[r] = "CreateUser" /\ answer[r] = "409" =>
          Account(r) \in DOMAIN users
    /\ r \in known =>
          /\ pc[r] = "GetUserByEmail" /\ answer[r] # "401"
          /\ Matches(Account(r), input[r].password)

Coherent(r) ==
    /\ pc[r] = "idle" => answer[r] = "none" /\ r \notin orphans
    /\ r \in DOMAIN input <=> pc[r] # "idle"
    /\ Admitted(r) /\ Wrote(r) /\ Answered(r)

\* A vehicle is one of the Fleet or the work of a request, and its id says
\* which.
VehiclesExplained ==
    \A p \in DOMAIN vehicles :
        /\ vehicles[p].id \in issued
        /\ \A q \in DOMAIN vehicles : vehicles[q].id = vehicles[p].id => q = p
        /\ vehicles[p].id \in Requests =>
              LET r == vehicles[p].id IN
              pc[r] = "CreateVehicle" /\ p = Plate(r) /\ vehicles[p] = VehicleOf(r)

AccountsInv ==
    /\ TypeOK
    /\ TokensSpeakForAccounts /\ VehiclesBelongToMembers /\ VehiclesExplained
    /\ \A r \in Requests : Coherent(r)

\* The abstract registry, which Payment and Reports build on.
Registry == INSTANCE PlateRegistry
              WITH Owners <- UserIds,
                   owner  <- [p \in DOMAIN vehicles |-> vehicles[p].user]

\* Every step of the service registers a free plate, removes one, or leaves
\* the registry alone.
ImplementsRegistry == Registry!Spec

=============================================================================
