--------------------------- MODULE AccountsProofs ---------------------------
(***************************************************************************)
(* Proofs about Accounts, for any requests, addresses, plates, passwords,  *)
(* texts and any accounts and vehicles to begin with.  The inductive       *)
(* invariant is AccountsInv.  A request meets the others only in the two   *)
(* tables: Grows says how these move, Frame that a request the step does   *)
(* not touch stays Coherent.                                               *)
(***************************************************************************)
EXTENDS Accounts, TLAPS

USE DEF Statements, Writes, Answers

-----------------------------------------------------------------------------
(* Types.                                                                  *)

\* What each kind of request asks for.
LEMMA InputTypes ==
    ASSUME TypeOK, NEW r \in DOMAIN input
    PROVE  /\ r \in Requests
           /\ input[r].op = "Register" =>
                 input[r].password \in Passwords /\ input[r].email \in EmailTexts
  <1>1. r \in Requests /\ input[r] \in InputRow
    BY DEF TypeOK, IsTable
  <1> QED
    BY <1>1 DEF InputRow

\* The rows of the two tables.
LEMMA RowTypes ==
    ASSUME TypeOK
    PROVE  /\ \A e \in DOMAIN users : e \in Emails /\ users[e] \in UserRow
           /\ \A p \in DOMAIN vehicles :
                 p \in Plates /\ vehicles[p] \in VehicleRow
  BY DEF TypeOK, IsTable

-----------------------------------------------------------------------------
(* How the state moves under a request.                                    *)

\* Accounts stay as they are, and requests where they are.
Keeps ==
    /\ \A e \in DOMAIN users : e \in DOMAIN users' /\ users'[e] = users[e]
    /\ issued \subseteq issued'
    /\ \A d \in DOMAIN input :
          /\ d \in DOMAIN input' /\ input'[d] = input[d] /\ pc'[d] = pc[d]
          /\ answer[d] # "none" => answer'[d] = answer[d]

\* A Delete, after the step, that may have removed this row.
RemovedBy(row, d) ==
    /\ d \in DOMAIN input'
    /\ input'[d].op = "DeleteVehicle"
    /\ input'[d].vehicle = row.id /\ input'[d].caller.user = row.user
    /\ answer'[d] \in {"204", "500", "lost"}

\* Vehicles come with new ids and go by a Delete of their owner.
VehiclesMove ==
    /\ \A p \in DOMAIN vehicles' :
          \/ p \in DOMAIN vehicles /\ vehicles'[p] = vehicles[p]
          \/ vehicles'[p].id \notin issued
    /\ \A p \in DOMAIN vehicles :
          \/ p \in DOMAIN vehicles' /\ vehicles'[p] = vehicles[p]
          \/ \E d : RemovedBy(vehicles[p], d)

Grows == Keeps /\ VehiclesMove

\* What a step leaves alone of request q.
Same(q) ==
    /\ pc'[q] = pc[q] /\ answer'[q] = answer[q]
    /\ q \in DOMAIN input' <=> q \in DOMAIN input
    /\ q \in orphans' => q \in orphans
    /\ q \in issued' => q \in issued
    /\ q \in known' => q \in known
    /\ \A e \in DOMAIN users' : users'[e].id = q => e \in DOMAIN users

\* Members stay members.
LEMMA MembersStay ==
    ASSUME Keeps, NEW user, Member(user)
    PROVE  Member(user)'
  BY DEF Keeps, Member

\* What a request was admitted with stays in order.
LEMMA FrameAdmitted ==
    ASSUME NEW q \in Requests, Coherent(q), Keeps, Same(q)
    PROVE  Admitted(q)'
  <1>1. pc[q] # "idle" => q \in DOMAIN input /\ input'[q] = input[q]
    BY DEF Coherent, Keeps
  <1>2. pc[q] # "idle" /\ Member(Caller(q)) => Member(Caller(q))'
    <2>1. ASSUME pc[q] # "idle" PROVE Caller(q)' = Caller(q)
      BY <1>1, <2>1 DEF Caller
    <2>2. Member(Caller(q)) => \E e \in DOMAIN users' :
             users'[e].id = Caller(q) /\ users'[e].role = "member"
      BY DEF Member, Keeps
    <2> QED
      BY <2>1, <2>2 DEF Member
  <1> QED
    BY <1>1, <1>2
       DEF Coherent, Admitted, Same, Pending, Keeps, Account, Plate

\* A row with the id of a request stays the one it inserted.
LEMMA FrameWrote ==
    ASSUME NEW q \in Requests, Coherent(q), Keeps, Same(q)
    PROVE  Wrote(q)'
  <1>1. pc[q] # "idle" => q \in DOMAIN input /\ input'[q] = input[q]
    BY DEF Coherent, Keeps
  <1> QED
    BY <1>1 DEF Coherent, Wrote, Same, Pending, Keeps, Account, UserOf

\* An answer stays true.
LEMMA FrameAnswered ==
    ASSUME NEW q \in Requests, Coherent(q), Grows, Same(q)
    PROVE  Answered(q)'
  <1>1. pc[q] # "idle" => q \in DOMAIN input /\ input'[q] = input[q]
    BY DEF Coherent, Grows, Keeps
  <1>2. Withdrawn(q) /\ pc[q] # "idle" => Withdrawn(q)'
    BY <1>1 DEF Withdrawn, Grows, Keeps, Caller
  <1>3. HasVehicle(q) /\ pc[q] # "idle" => HasVehicle(q)' \/ Withdrawn(q)'
    <2> SUFFICES ASSUME HasVehicle(q), pc[q] # "idle"
                 PROVE  HasVehicle(q)' \/ Withdrawn(q)'
      OBVIOUS
    <2>1. /\ Plate(q) \in DOMAIN vehicles
          /\ vehicles[Plate(q)] = [id |-> q, user |-> Caller(q)]
          /\ Plate(q)' = Plate(q) /\ Caller(q)' = Caller(q)
      BY <1>1 DEF HasVehicle, VehicleOf, Plate, Caller
    <2>2. CASE /\ Plate(q) \in DOMAIN vehicles'
               /\ vehicles'[Plate(q)] = vehicles[Plate(q)]
      BY <2>1, <2>2 DEF HasVehicle, VehicleOf
    <2>3. CASE \E d : RemovedBy(vehicles[Plate(q)], d)
      BY <2>1, <2>3 DEF RemovedBy, Withdrawn, Caller
    <2> QED
      BY <2>1, <2>2, <2>3 DEF Grows, VehiclesMove
  <1>4. pc[q] = "DeleteVehicle" /\ answer[q] \in {"204", "404"} =>
           Target(q)' = {}
    <2> SUFFICES ASSUME pc[q] = "DeleteVehicle", answer[q] \in {"204", "404"}
                 PROVE  Target(q)' = {}
      OBVIOUS
    <2>1. Target(q) = {} /\ input[q].vehicle \in issued /\ input'[q] = input[q]
      BY <1>1 DEF Coherent, Answered, Admitted
    <2> QED
      BY <2>1 DEF Target, Caller, Grows, VehiclesMove
  <1>5. HasAccount(q) /\ pc[q] # "idle" => HasAccount(q)'
    BY <1>1 DEF HasAccount, Account, UserOf, Grows, Keeps
  <1>6. Account(q) \in DOMAIN users /\ pc[q] # "idle" =>
           Account(q)' \in DOMAIN users'
    BY <1>1 DEF Account, Grows, Keeps
  <1>7. Matches(Account(q), input[q].password) /\ pc[q] # "idle" =>
           Matches(Account(q), input[q].password)'
    BY <1>1 DEF Account, Matches, Grows, Keeps
  <1> QED
    BY <1>2, <1>3, <1>4, <1>5, <1>6, <1>7 DEF Coherent, Answered, Same

\* A request the step does not touch stays Coherent.
LEMMA Frame ==
    ASSUME NEW q \in Requests, Coherent(q), Grows, Same(q)
    PROVE  Coherent(q)'
  <1>1. Admitted(q)' /\ Wrote(q)' /\ Answered(q)'
    BY FrameAdmitted, FrameWrote, FrameAnswered DEF Grows
  <1> QED
    BY <1>1 DEF Coherent, Same

\* Tokens that stay, or are of an account, speak for accounts.
LEMMA TokensStay ==
    ASSUME TokensSpeakForAccounts, Keeps, tokens' \subseteq tokens
    PROVE  TokensSpeakForAccounts'
  BY DEF TokensSpeakForAccounts, Keeps, ClaimsOf

\* Vehicles that stay are explained and belong to members.
LEMMA VehiclesStay ==
    ASSUME AccountsInv, Keeps,
           \A p \in DOMAIN vehicles' :
               p \in DOMAIN vehicles /\ vehicles'[p] = vehicles[p]
    PROVE  VehiclesBelongToMembers' /\ VehiclesExplained'
  <1>1. VehiclesBelongToMembers'
    <2> SUFFICES ASSUME NEW p \in DOMAIN vehicles'
                 PROVE  Member(vehicles[p].user)'
      BY DEF VehiclesBelongToMembers, Member
    <2>1. Member(vehicles[p].user)
      BY DEF AccountsInv, VehiclesBelongToMembers
    <2>2. \E e \in DOMAIN users' : /\ users'[e].id = vehicles[p].user
                                   /\ users'[e].role = "member"
      BY <2>1 DEF Member, Keeps
    <2>3. vehicles'[p] = vehicles[p]
      OBVIOUS
    <2> QED
      BY <2>2, <2>3 DEF Member
  <1>2. VehiclesExplained'
    <2> SUFFICES ASSUME NEW p \in DOMAIN vehicles',
                        NEW r, r = vehicles'[p].id
                 PROVE  /\ r \in issued'
                        /\ \A q \in DOMAIN vehicles' :
                              vehicles'[q].id = r => q = p
                        /\ r \in Requests =>
                              /\ pc'[r] = "CreateVehicle" /\ p = Plate(r)'
                              /\ vehicles'[p] = VehicleOf(r)'
      BY DEF VehiclesExplained
    <2>1. /\ r \in issued
          /\ \A q \in DOMAIN vehicles : vehicles[q].id = r => q = p
          /\ r \in Requests => /\ pc[r] = "CreateVehicle" /\ p = Plate(r)
                               /\ vehicles[p] = VehicleOf(r)
      BY DEF AccountsInv, VehiclesExplained
    <2>2. r \in Requests => r \in DOMAIN input
      BY <2>1 DEF AccountsInv, Coherent
    <2> QED
      BY <2>1, <2>2 DEF Keeps, Plate, VehicleOf, Caller
  <1> QED
    BY <1>1, <1>2

\* A step of request r.
LEMMA OneRequest ==
    ASSUME AccountsInv, NEW r \in Requests, Grows, TypeOK', Coherent(r)',
           TokensSpeakForAccounts', VehiclesBelongToMembers',
           VehiclesExplained', \A q \in Requests \ {r} : Same(q)
    PROVE  AccountsInv'
  <1>1. ASSUME NEW q \in Requests \ {r} PROVE Coherent(q)'
    BY <1>1, Frame DEF AccountsInv
  <1> QED
    BY <1>1 DEF AccountsInv

-----------------------------------------------------------------------------
(* The arrival of a request.                                               *)

\* An arrival, given what its statement needs.
LEMMA ArriveStep ==
    ASSUME AccountsInv, NEW r \in Requests, NEW row \in InputRow,
           NEW step \in Statements, NEW refusal,
           refusal \in {"none", "400", "401", "403", "422", "500"},
           Arrive(r, row, step, refusal), known' \in SUBSET (known \cup {r}),
           r \in known' => /\ step = "GetUserByEmail" /\ refusal # "401"
                           /\ Matches(Normal[row.email], row.password),
           \/ /\ step = "CreateUser" /\ row.op = "Register"
              /\ refusal = "none" =>
                    Normal[row.email] \in Emails /\ row.role \in Roles
           \/ step = "GetUserByEmail" /\ row.op = "Login"
           \/ step = "GetUserByID" /\ row.op = "Me"
           \/ /\ step = "CreateVehicle" /\ row.op = "CreateVehicle"
              /\ refusal = "none" =>
                    /\ Normal[row.plate] \in Plates
                    /\ row.caller \in Claims /\ Member(row.caller.user)
           \/ /\ step = "DeleteVehicle" /\ row.op = "DeleteVehicle"
              /\ row.vehicle \in issued \/ refusal \in {"400", "401", "403"}
    PROVE  AccountsInv'
  <1>1. /\ TypeOK /\ Coherent(r) /\ pc[r] = "idle" /\ r \notin DOMAIN input
        /\ UNCHANGED <<users, vehicles, tokens, orphans, issued>>
        /\ r \notin orphans /\ r \notin issued
        /\ \A e \in DOMAIN users : users[e].id # r
    BY DEF AccountsInv, Coherent, Wrote, Arrive, tables
  <1>2. /\ DOMAIN input' = DOMAIN input \cup {r}
        /\ input'[r] = row
        /\ \A q \in DOMAIN input : input'[q] = input[q]
        /\ IsTable(input', Requests, InputRow)
    <2> HIDE DEF InputRow
    <2> QED
      BY <1>1 DEF Arrive, Insert, TypeOK, IsTable
  <1>3. /\ pc' = [pc EXCEPT ![r] = step]
        /\ answer' = [answer EXCEPT ![r] = refusal]
    BY DEF Arrive
  <1>4. pc'[r] = step /\ answer'[r] = refusal
    BY <1>1, <1>3 DEF TypeOK
  <1>5. TypeOK'
    <2>1. /\ pc' \in [Requests -> Statements \cup {"idle"}]
          /\ answer' \in [Requests -> Answers \cup {"none", "lost"}]
      BY <1>1, <1>3 DEF TypeOK
    <2>2. orphans' \subseteq {q \in Requests : pc'[q] \in Writes}
      BY <1>1, <1>3 DEF TypeOK
    <2>3. known' \subseteq Requests
      BY <1>1 DEF TypeOK
    <2> QED
      BY <1>1, <1>2, <2>1, <2>2, <2>3 DEF TypeOK
  <1>6. Grows
    BY <1>1, <1>2, <1>3 DEF Grows, Keeps, VehiclesMove, TypeOK
  <1>7. \A q \in Requests \ {r} : Same(q)
    BY <1>1, <1>2, <1>3 DEF Same, TypeOK
  <1>8. Admitted(r)'
    <2>1. ASSUME NEW user, Member(user) PROVE Member(user)'
      BY <1>6, <2>1, MembersStay DEF Grows
    <2>2. Caller(r)' = row.caller.user
      BY <1>2 DEF Caller
    <2>3. step = "CreateVehicle" /\ refusal = "none" => Member(Caller(r))'
      <3>1. ASSUME Member(row.caller.user)
            PROVE  \E e \in DOMAIN users' : /\ users'[e].id = row.caller.user
                                            /\ users'[e].role = "member"
        BY <1>1, <3>1 DEF Member
      <3> QED
        BY <2>2, <3>1 DEF Member
    <2> QED
      BY <1>1, <1>2, <1>4, <2>3 DEF Admitted, Pending, Account, Plate
  <1>9. Wrote(r)'
    BY <1>1, <1>4 DEF Wrote
  <1>10. Answered(r)'
    BY <1>1, <1>2, <1>4 DEF Answered, Matches, Account
  <1>11. Coherent(r)'
    BY <1>1, <1>2, <1>4, <1>8, <1>9, <1>10 DEF Coherent
  <1>12. /\ TokensSpeakForAccounts'
         /\ VehiclesBelongToMembers' /\ VehiclesExplained'
    BY <1>1, <1>6, TokensStay, VehiclesStay DEF Grows, AccountsInv
  <1> QED
    BY <1>5, <1>6, <1>7, <1>11, <1>12, OneRequest

\* A token that is out is well-formed, and of a member if it says so.
LEMMA TokenTyped ==
    ASSUME AccountsInv, NEW t \in tokens
    PROVE  /\ t \in Claims
           /\ t.role = "member" => Member(t.user)
  <1>1. PICK e \in DOMAIN users : ClaimsOf(users[e]) = t
    BY DEF AccountsInv, TokensSpeakForAccounts
  <1>2. t.user = users[e].id /\ t.role = users[e].role
    BY <1>1 DEF ClaimsOf
  <1> QED
    BY <1>2 DEF AccountsInv, TypeOK, Member

\* Every kind of request arrives as ArriveStep asks.
LEMMA ReceiveStep ==
    ASSUME AccountsInv, NEW r \in Requests, Receive(r)
    PROVE  AccountsInv'
  <1>1. TypeOK
    BY DEF AccountsInv
  <1>2. r \notin known \/ pc[r] # "idle"
    BY DEF AccountsInv, Coherent, Answered
  <1>3. ASSUME NEW e \in EmailTexts, NEW w \in Passwords,
               NEW role \in Roles \cup {"other"},
               ReceiveRegister(r, e, w, role)
        PROVE  AccountsInv'
    <2> DEFINE row == [op |-> "Register", email |-> e, password |-> w,
                       role |-> role]
               refusal == IF \/ Normal[e] \notin Emails \/ w \in Short
                             \/ role \notin Roles THEN "422"
                          ELSE IF w \in TooLong THEN "500" ELSE "none"
    <2>1. /\ row \in InputRow /\ row.op = "Register"
          /\ row.email = e /\ row.role = role
      BY DEF InputRow
    <2>2. /\ refusal \in {"none", "400", "401", "403", "422", "500"}
          /\ refusal = "none" => Normal[e] \in Emails /\ role \in Roles
      OBVIOUS
    <2>3. /\ Arrive(r, row, "CreateUser", refusal) /\ UNCHANGED known
          /\ pc[r] = "idle"
      BY <1>3 DEF ReceiveRegister, Arrive
    <2> HIDE DEF row, refusal
    <2> QED
      BY <1>2, <2>1, <2>2, <2>3, ArriveStep
  <1>4. ASSUME NEW e \in EmailTexts, NEW w \in Passwords,
               ReceiveLogin(r, e, w)
        PROVE  AccountsInv'
    <2> DEFINE row == [op |-> "Login", email |-> e, password |-> w]
               refusal == IF Normal[e] = "" THEN "401" ELSE "none"
    <2>1. /\ row \in InputRow /\ row.op = "Login"
          /\ row.email = e /\ row.password = w
      BY DEF InputRow
    <2>2. /\ refusal \in {"none", "400", "401", "403", "422", "500"}
          /\ refusal = "401" => Normal[e] = ""
      OBVIOUS
    <2>3. /\ Arrive(r, row, "GetUserByEmail", refusal) /\ pc[r] = "idle"
          /\ known' = IF Matches(Normal[e], w) THEN known \cup {r} ELSE known
      BY <1>4 DEF ReceiveLogin, Arrive
    <2>4. Matches(Normal[e], w) => Normal[e] # ""
      BY <1>1, RowTypes, FoundersAssumption DEF Matches
    <2> HIDE DEF row, refusal
    <2>5. /\ known' \in SUBSET (known \cup {r})
          /\ r \in known' => refusal # "401" /\ Matches(Normal[e], w)
      BY <1>2, <2>2, <2>3, <2>4
    <2> QED
      BY <2>1, <2>2, <2>3, <2>5, ArriveStep
  <1>5. ASSUME NEW t \in tokens \cup {NoToken}
        PROVE  /\ t \in Claims \cup {NoToken}
               /\ t \in tokens /\ t.role = "member" =>
                     t \in Claims /\ Member(t.user)
    BY <1>5, TokenTyped
  <1>6. ASSUME NEW t \in tokens \cup {NoToken}, ReceiveMe(r, t)
        PROVE  AccountsInv'
    <2> DEFINE row == [op |-> "Me", caller |-> t]
               refusal == Refusal(t, "none")
    <2>1. row \in InputRow /\ row.op = "Me"
      BY <1>5 DEF InputRow
    <2>2. refusal \in {"none", "400", "401", "403", "422", "500"}
      BY DEF Refusal
    <2>3. /\ Arrive(r, row, "GetUserByID", refusal) /\ UNCHANGED known
          /\ pc[r] = "idle"
      BY <1>6 DEF ReceiveMe, Arrive
    <2> HIDE DEF row, refusal
    <2> QED
      BY <1>2, <2>1, <2>2, <2>3, ArriveStep
  <1>7. ASSUME NEW t \in tokens \cup {NoToken}, NEW p \in PlateTexts,
               ReceiveCreateVehicle(r, t, p)
        PROVE  AccountsInv'
    <2> DEFINE row == [op |-> "CreateVehicle", caller |-> t, plate |-> p]
               refusal == MembersOnly(t, IF Normal[p] \notin Plates THEN "422"
                                                                   ELSE "none")
    <2>1. /\ row \in InputRow /\ row.op = "CreateVehicle"
          /\ row.caller = t /\ row.plate = p
      BY <1>5 DEF InputRow
    <2>2. /\ refusal \in {"none", "400", "401", "403", "422", "500"}
          /\ refusal = "none" => /\ t \in tokens /\ t.role = "member"
                                 /\ Normal[p] \in Plates
      BY DEF Refusal, MembersOnly
    <2>3. /\ Arrive(r, row, "CreateVehicle", refusal) /\ UNCHANGED known
          /\ pc[r] = "idle"
      BY <1>7 DEF ReceiveCreateVehicle, Arrive
    <2> HIDE DEF row, refusal
    <2> QED
      BY <1>2, <1>5, <2>1, <2>2, <2>3, ArriveStep
  <1>8. ASSUME NEW t \in tokens \cup {NoToken},
               NEW v \in issued \cup {"malformed"},
               ReceiveDeleteVehicle(r, t, v)
        PROVE  AccountsInv'
    <2> DEFINE row == [op |-> "DeleteVehicle", caller |-> t, vehicle |-> v]
               refusal == MembersOnly(t, IF v = "malformed" THEN "400"
                                                           ELSE "none")
    <2>1. /\ row \in InputRow /\ row.op = "DeleteVehicle"
          /\ row.vehicle = v
      BY <1>1, <1>5 DEF InputRow, TypeOK
    <2>2. /\ refusal \in {"none", "400", "401", "403", "422", "500"}
          /\ v \in issued \/ refusal \in {"400", "401", "403"}
      BY DEF Refusal, MembersOnly
    <2>3. /\ Arrive(r, row, "DeleteVehicle", refusal) /\ UNCHANGED known
          /\ pc[r] = "idle"
      BY <1>8 DEF ReceiveDeleteVehicle, Arrive
    <2> HIDE DEF row, refusal
    <2> QED
      BY <1>2, <2>1, <2>2, <2>3, ArriveStep
  <1> QED
    BY <1>3, <1>4, <1>6, <1>7, <1>8 DEF Receive

-----------------------------------------------------------------------------
(* The statements.                                                         *)

\* A running request of any kind has arrived.
LEMMA Running ==
    ASSUME AccountsInv, NEW r \in Requests, pc[r] \in Statements
    PROVE  /\ TypeOK /\ Coherent(r) /\ r \in DOMAIN input
           /\ Pending(r) => /\ r \notin issued
                            /\ \A e \in DOMAIN users : users[e].id # r
  BY DEF AccountsInv, Coherent, Wrote

\* A step of r that ends it and leaves the tables alone.
Quiet(r, code) ==
    /\ UNCHANGED <<tables, input, pc, past>>
    /\ answer' = [answer EXCEPT ![r] = code]
    /\ orphans' \subseteq orphans \cup {r}

\* Such a step keeps the invariant when its answer is true.
LEMMA QuietStep ==
    ASSUME AccountsInv, NEW r \in Requests, Live(r), TokensSpeakForAccounts',
           tokens' \subseteq Claims,
           NEW code \in Answers, Quiet(r, code),
           r \in orphans' => code = "500" /\ pc[r] \in Writes,
           code # "201", code # "204", code # "404" \/ pc[r] # "DeleteVehicle",
           pc[r] = "CreateUser" /\ code = "409" => Account(r) \in DOMAIN users,
           code = "401" => r \notin known
    PROVE  AccountsInv'
  <1>1. /\ TypeOK /\ Coherent(r) /\ r \in DOMAIN input
        /\ pc[r] \in Statements /\ answer[r] = "none"
        /\ r \notin issued /\ \A e \in DOMAIN users : users[e].id # r
    BY Running DEF Live, Pending
  <1>2. /\ UNCHANGED <<users, vehicles, input, pc, issued, known>>
        /\ answer' = [answer EXCEPT ![r] = code] /\ answer'[r] = code
        /\ orphans' \subseteq orphans \cup {r}
    BY <1>1 DEF Quiet, tables, past, TypeOK
  <1>3. TypeOK'
    <2>1. answer' \in [Requests -> Answers \cup {"none", "lost"}]
      BY <1>1, <1>2 DEF TypeOK
    <2>2. orphans' \subseteq {q \in Requests : pc'[q] \in Writes}
      BY <1>1, <1>2 DEF TypeOK
    <2> QED
      BY <1>1, <1>2, <2>1, <2>2 DEF TypeOK
  <1>4. Grows
    BY <1>1, <1>2 DEF Grows, Keeps, VehiclesMove, TypeOK
  <1>5. \A q \in Requests \ {r} : Same(q)
    BY <1>1, <1>2 DEF Same, TypeOK
  <1>6. Admitted(r)'
    <2>1. Caller(r)' = Caller(r) /\ (Member(Caller(r)) => Member(Caller(r))')
      BY <1>2 DEF Caller, Member
    <2> QED
      BY <1>1, <1>2, <2>1
         DEF Coherent, Admitted, Pending, Account, Plate
  <1>7. Wrote(r)'
    BY <1>1, <1>2 DEF Wrote
  <1>8. Answered(r)'
    BY <1>1, <1>2 DEF Coherent, Answered, Account, Matches
  <1>9. Coherent(r)'
    BY <1>1, <1>2, <1>6, <1>7, <1>8 DEF Coherent
  <1>10. VehiclesBelongToMembers' /\ VehiclesExplained'
    BY <1>2, <1>4, VehiclesStay DEF Grows
  <1> QED
    BY <1>3, <1>4, <1>5, <1>9, <1>10, OneRequest

\* Steps that keep the tokens, too.
LEMMA TokensKept ==
    ASSUME AccountsInv, UNCHANGED <<users, tokens>>
    PROVE  TokensSpeakForAccounts' /\ tokens' \subseteq Claims
  BY DEF AccountsInv, TokensSpeakForAccounts, ClaimsOf, TypeOK

\* The types when r inserts an account.
LEMMA NewUserEffect ==
    ASSUME AccountsInv, NEW r \in Requests, pc[r] = "CreateUser", Pending(r),
           NewUser(r), Account(r) \notin DOMAIN users
    PROVE  /\ IsTable(users', Emails, UserRow)
           /\ DOMAIN users' = DOMAIN users \cup {Account(r)}
           /\ users'[Account(r)] = UserOf(r)
           /\ \A e \in DOMAIN users : users'[e] = users[e]
           /\ UNCHANGED vehicles
  <1>1. /\ TypeOK /\ r \in DOMAIN input /\ input[r].op = "Register"
        /\ Account(r) \in Emails /\ input[r].role \in Roles
    BY Running DEF Coherent, Admitted
  <1>2. UserOf(r) \in UserRow
    BY <1>1, InputTypes DEF UserOf, UserRow, UserIds
  <1>3. users' = Insert(users, Account(r), UserOf(r)) /\ UNCHANGED vehicles
    BY DEF NewUser
  <1>4. IsTable(users, Emails, UserRow)
    BY <1>1 DEF TypeOK
  <1> HIDE DEF UserRow
  <1> QED
    BY <1>1, <1>2, <1>3, <1>4 DEF Insert, IsTable

\* An account is inserted, by a handler or as an orphan.
LEMMA NewUserStep ==
    ASSUME AccountsInv, NEW r \in Requests, pc[r] = "CreateUser", Pending(r),
           NewUser(r), Account(r) \notin DOMAIN users,
           UNCHANGED <<tokens, input, pc, past>>,
           \/ /\ answer[r] = "none" /\ answer' = [answer EXCEPT ![r] = "201"]
              /\ orphans' = orphans
           \/ /\ r \in orphans /\ answer' = answer /\ orphans' = orphans \ {r}
    PROVE  AccountsInv'
  <1>1. /\ TypeOK /\ Coherent(r) /\ r \in DOMAIN input /\ r \notin issued
        /\ \A e \in DOMAIN users : users[e].id # r
    BY Running
  <1>2. /\ IsTable(users', Emails, UserRow)
        /\ DOMAIN users' = DOMAIN users \cup {Account(r)}
        /\ users'[Account(r)] = UserOf(r)
        /\ \A e \in DOMAIN users : users'[e] = users[e]
        /\ UNCHANGED <<vehicles, tokens, input, pc, issued, known>>
        /\ UserOf(r).id = r
    BY NewUserEffect DEF past, UserOf
  <1>3. /\ orphans' \subseteq orphans /\ r \notin orphans'
        /\ answer'[r] \in {"201", "500", "lost"}
        /\ \A q \in Requests \ {r} : answer'[q] = answer[q]
        /\ answer' \in [Requests -> Answers \cup {"none", "lost"}]
        /\ answer[r] # "none" => answer'[r] = answer[r]
    BY <1>1 DEF TypeOK, Coherent, Wrote
  <1>4. TypeOK'
    BY <1>1, <1>2, <1>3 DEF TypeOK
  <1>5. Grows
    BY <1>1, <1>2, <1>3 DEF Grows, Keeps, VehiclesMove, TypeOK, IsTable
  <1>6. \A q \in Requests \ {r} : Same(q)
    BY <1>1, <1>2, <1>3 DEF Same
  <1>7. Account(r)' = Account(r) /\ UserOf(r)' = UserOf(r)
    BY <1>2 DEF Account, UserOf
  <1>8. Coherent(r)'
    <2>1. Admitted(r)'
      BY <1>1, <1>2, <1>3 DEF Coherent, Admitted, Pending
    <2>2. Wrote(r)'
      BY <1>1, <1>2, <1>3, <1>7 DEF Wrote, Pending
    <2>3. Answered(r)'
      BY <1>1, <1>2, <1>3, <1>7 DEF Coherent, Answered, HasAccount
    <2> QED
      BY <1>1, <1>2, <1>3, <2>1, <2>2, <2>3 DEF Coherent
  <1>9. /\ TokensSpeakForAccounts'
        /\ VehiclesBelongToMembers' /\ VehiclesExplained'
    BY <1>2, <1>5, TokensStay, VehiclesStay DEF Grows, AccountsInv
  <1> QED
    BY <1>4, <1>5, <1>6, <1>8, <1>9, OneRequest

\* The types when r inserts a vehicle.
LEMMA NewVehicleEffect ==
    ASSUME AccountsInv, NEW r \in Requests, pc[r] = "CreateVehicle",
           Pending(r), NewVehicle(r), Plate(r) \notin DOMAIN vehicles
    PROVE  /\ IsTable(vehicles', Plates, VehicleRow)
           /\ DOMAIN vehicles' = DOMAIN vehicles \cup {Plate(r)}
           /\ vehicles'[Plate(r)] = VehicleOf(r)
           /\ \A p \in DOMAIN vehicles : vehicles'[p] = vehicles[p]
           /\ issued' = issued \cup {r} /\ UNCHANGED users
  <1>1. /\ TypeOK /\ r \in DOMAIN input
        /\ Plate(r) \in Plates /\ input[r].caller \in Claims
    BY Running DEF Coherent, Admitted
  <1>2. VehicleOf(r) \in VehicleRow
    BY <1>1 DEF VehicleOf, VehicleRow, VehicleIds, Caller, Claims
  <1>3. /\ vehicles' = Insert(vehicles, Plate(r), VehicleOf(r))
        /\ issued' = issued \cup {r} /\ UNCHANGED users
    BY DEF NewVehicle
  <1>4. IsTable(vehicles, Plates, VehicleRow)
    BY <1>1 DEF TypeOK
  <1> HIDE DEF VehicleRow
  <1> QED
    BY <1>1, <1>2, <1>3, <1>4 DEF Insert, IsTable

\* A vehicle is inserted, by a handler or as an orphan.
LEMMA NewVehicleStep ==
    ASSUME AccountsInv, NEW r \in Requests, pc[r] = "CreateVehicle",
           Pending(r), NewVehicle(r), Plate(r) \notin DOMAIN vehicles,
           UNCHANGED <<tokens, input, pc, known>>,
           \/ /\ answer[r] = "none" /\ answer' = [answer EXCEPT ![r] = "201"]
              /\ orphans' = orphans
           \/ /\ r \in orphans /\ answer' = answer /\ orphans' = orphans \ {r}
    PROVE  AccountsInv'
  <1>1. /\ TypeOK /\ Coherent(r) /\ r \in DOMAIN input /\ r \notin issued
        /\ \A e \in DOMAIN users : users[e].id # r
    BY Running
  <1>2. /\ IsTable(vehicles', Plates, VehicleRow)
        /\ DOMAIN vehicles' = DOMAIN vehicles \cup {Plate(r)}
        /\ vehicles'[Plate(r)] = VehicleOf(r)
        /\ \A p \in DOMAIN vehicles : vehicles'[p] = vehicles[p]
        /\ issued' = issued \cup {r}
        /\ UNCHANGED <<users, tokens, input, pc, known>>
        /\ VehicleOf(r).id = r /\ VehicleOf(r).user = Caller(r)
    BY NewVehicleEffect DEF VehicleOf
  <1>3. /\ orphans' \subseteq orphans /\ r \notin orphans'
        /\ answer'[r] \in {"201", "500", "lost"}
        /\ \A q \in Requests \ {r} : answer'[q] = answer[q]
        /\ answer' \in [Requests -> Answers \cup {"none", "lost"}]
        /\ answer[r] # "none" => answer'[r] = answer[r]
    BY <1>1 DEF TypeOK, Coherent, Wrote
  <1>4. TypeOK'
    <2>1. issued' \subseteq VehicleIds
      BY <1>1, <1>2 DEF TypeOK, VehicleIds
    <2> QED
      BY <1>1, <1>2, <1>3, <2>1 DEF TypeOK
  <1>5. Grows
    BY <1>1, <1>2, <1>3 DEF Grows, Keeps, VehiclesMove, TypeOK, IsTable
  <1>6. \A q \in Requests \ {r} : Same(q)
    BY <1>1, <1>2, <1>3 DEF Same
  <1>7. /\ Plate(r)' = Plate(r) /\ VehicleOf(r)' = VehicleOf(r)
    BY <1>2 DEF Plate, VehicleOf, Caller
  <1>8. Coherent(r)'
    <2>1. Admitted(r)'
      BY <1>1, <1>2, <1>3 DEF Coherent, Admitted, Pending
    <2>2. Wrote(r)'
      BY <1>1, <1>2, <1>3 DEF Wrote, Pending
    <2>3. Answered(r)'
      BY <1>1, <1>2, <1>3, <1>7 DEF Coherent, Answered, HasVehicle
    <2> QED
      BY <1>1, <1>2, <1>3, <2>1, <2>2, <2>3 DEF Coherent
  <1>9. TokensSpeakForAccounts'
    BY <1>2, <1>5, TokensStay DEF Grows, AccountsInv
  <1>10. VehiclesBelongToMembers'
    <2>1. \A user : Member(user) => Member(user)'
      BY <1>2 DEF Member
    <2>2. Member(Caller(r))
      BY <1>1 DEF Coherent, Admitted
    <2>3. \A p \in DOMAIN vehicles' : Member(vehicles'[p].user)
      BY <1>2, <2>2 DEF AccountsInv, VehiclesBelongToMembers
    <2> QED
      BY <1>2, <2>3 DEF VehiclesBelongToMembers, Member
  <1>11. VehiclesExplained'
    <2>1. \A p \in DOMAIN vehicles :
             /\ vehicles[p].id \in issued
             /\ \A q \in DOMAIN vehicles :
                   vehicles[q].id = vehicles[p].id => q = p
             /\ vehicles[p].id \in Requests =>
                   /\ pc[vehicles[p].id] = "CreateVehicle"
                   /\ p = Plate(vehicles[p].id)
                   /\ vehicles[p] = VehicleOf(vehicles[p].id)
      BY DEF AccountsInv, VehiclesExplained
    <2> QED
      BY <1>2, <2>1 DEF VehiclesExplained, Plate, VehicleOf, Caller
  <1> QED
    BY <1>4, <1>5, <1>6, <1>8, <1>9, <1>10, <1>11, OneRequest

\* A removal, by a handler or as an orphan.
LEMMA RemovalStep ==
    ASSUME AccountsInv, NEW r \in Requests, pc[r] = "DeleteVehicle",
           Pending(r), Removal(r), UNCHANGED <<tokens, input, pc, past>>,
           \/ /\ answer[r] = "none" /\ orphans' = orphans
              /\ answer' = [answer EXCEPT ![r] =
                               IF Target(r) = {} THEN "404" ELSE "204"]
           \/ /\ r \in orphans /\ answer' = answer /\ orphans' = orphans \ {r}
    PROVE  AccountsInv'
  <1>1. /\ TypeOK /\ Coherent(r) /\ r \in DOMAIN input /\ r \notin issued
        /\ \A e \in DOMAIN users : users[e].id # r
    BY Running
  <1>2. /\ vehicles' = [p \in DOMAIN vehicles \ Target(r) |-> vehicles[p]]
        /\ UNCHANGED <<users, tokens, input, pc, issued, known>>
    BY DEF Removal, past
  <1>3. \A p \in DOMAIN vehicles' :
           p \in DOMAIN vehicles /\ vehicles'[p] = vehicles[p]
    BY <1>2
  <1>4. /\ orphans' \subseteq orphans /\ r \notin orphans'
        /\ answer'[r] \in {"204", "404", "500", "lost"}
        /\ Target(r) # {} => answer'[r] \in {"204", "500", "lost"}
        /\ \A q \in Requests \ {r} : answer'[q] = answer[q]
        /\ answer' \in [Requests -> Answers \cup {"none", "lost"}]
        /\ answer[r] # "none" => answer'[r] = answer[r]
    BY <1>1 DEF TypeOK, Coherent, Wrote
  <1>5. TypeOK'
    <2>1. IsTable(vehicles', Plates, VehicleRow)
      BY <1>1, <1>2 DEF IsTable, TypeOK
    <2> QED
      BY <1>1, <1>2, <1>4, <2>1 DEF TypeOK
  <1>6. Grows
    <2>1. Keeps
      BY <1>1, <1>2, <1>4 DEF Keeps, TypeOK, IsTable
    <2>2. ASSUME NEW p \in DOMAIN vehicles
          PROVE  \/ p \in DOMAIN vehicles' /\ vehicles'[p] = vehicles[p]
                 \/ \E d : RemovedBy(vehicles[p], d)
      <3>1. CASE p \notin Target(r)
        BY <1>2, <3>1
      <3>2. CASE p \in Target(r)
        <4>1. /\ vehicles[p].id = input[r].vehicle
              /\ vehicles[p].user = input[r].caller.user
              /\ input[r].op = "DeleteVehicle"
          BY <1>1, <3>2 DEF Target, Caller, Coherent, Admitted
        <4> QED
          BY <1>1, <1>2, <1>4, <3>2, <4>1 DEF RemovedBy
      <3> QED
        BY <3>1, <3>2
    <2> QED
      BY <1>3, <2>1, <2>2 DEF Grows, VehiclesMove
  <1>7. \A q \in Requests \ {r} : Same(q)
    BY <1>1, <1>2, <1>4 DEF Same
  <1>8. Coherent(r)'
    <2>1. Admitted(r)'
      BY <1>1, <1>2, <1>4 DEF Coherent, Admitted, Pending
    <2>2. Wrote(r)'
      BY <1>1, <1>2, <1>4 DEF Wrote, Pending
    <2>3. Target(r)' = {}
      BY <1>2 DEF Target, Caller
    <2>4. Answered(r)'
      BY <1>1, <1>2, <1>4, <2>3 DEF Coherent, Answered
    <2> QED
      BY <1>1, <1>2, <1>4, <2>1, <2>2, <2>4 DEF Coherent
  <1>9. TokensSpeakForAccounts' /\ VehiclesBelongToMembers'
        /\ VehiclesExplained'
    BY <1>2, <1>3, <1>6, TokensStay, VehiclesStay DEF Grows, AccountsInv
  <1> QED
    BY <1>5, <1>6, <1>7, <1>8, <1>9, OneRequest

\* Register: the unique constraint decides.
LEMMA CreateUserStep ==
    ASSUME AccountsInv, NEW r \in Requests, CreateUser(r)
    PROVE  AccountsInv'
  <1>1. /\ pc[r] = "CreateUser" /\ answer[r] = "none" /\ Pending(r) /\ Live(r)
        /\ UNCHANGED <<tokens, input, orphans, past>> /\ TypeOK /\ Coherent(r)
    BY Running DEF CreateUser, At, Pending, Live
  <1>2. CASE Account(r) \in DOMAIN users /\ Respond(r, "409") /\ UNCHANGED tables
    <2>1. /\ Quiet(r, "409") /\ r \notin orphans' /\ UNCHANGED <<users, tokens>>
      BY <1>1, <1>2 DEF Quiet, Respond, tables, Coherent, Wrote
    <2> QED
      BY <1>1, <1>2, <2>1, QuietStep, TokensKept
  <1>3. CASE Account(r) \notin DOMAIN users /\ Respond(r, "201") /\ NewUser(r)
    BY <1>1, <1>3, NewUserStep DEF Respond
  <1> QED
    BY <1>2, <1>3 DEF CreateUser

\* Login: a token with the claims of the row that was read.
LEMMA GetUserByEmailStep ==
    ASSUME AccountsInv, NEW r \in Requests, GetUserByEmail(r)
    PROVE  AccountsInv'
  <1>1. /\ pc[r] = "GetUserByEmail" /\ answer[r] = "none" /\ Live(r)
        /\ UNCHANGED <<tables, input, orphans, past>> /\ TypeOK /\ Coherent(r)
        /\ r \notin orphans'
    BY Running DEF GetUserByEmail, At, Live, Coherent, Wrote
  <1>2. CASE /\ Matches(Account(r), input[r].password)
             /\ tokens' = tokens \cup {ClaimsOf(users[Account(r)])}
             /\ Respond(r, "200")
    <2>1. Quiet(r, "200")
      BY <1>1, <1>2 DEF Quiet, Respond
    <2>2. /\ Account(r) \in DOMAIN users
          /\ users[Account(r)] \in UserRow
          /\ ClaimsOf(users[Account(r)]) \in Claims
      BY <1>1, <1>2, RowTypes DEF Matches, UserRow, ClaimsOf, Claims
    <2>3. tokens' \subseteq Claims
      BY <1>1, <1>2, <2>2 DEF TypeOK
    <2>4. TokensSpeakForAccounts'
      BY <1>1, <1>2, <2>2
         DEF AccountsInv, TokensSpeakForAccounts, ClaimsOf, tables
    <2> QED
      BY <1>1, <2>1, <2>3, <2>4, QuietStep
  <1>3. CASE /\ ~Matches(Account(r), input[r].password)
             /\ Respond(r, "401") /\ UNCHANGED tokens
    <2>1. /\ Quiet(r, "401") /\ UNCHANGED <<users, tokens>>
          /\ r \notin known
      BY <1>1, <1>3 DEF Quiet, Respond, tables, Coherent, Answered
    <2> QED
      BY <1>1, <2>1, QuietStep, TokensKept
  <1> QED
    BY <1>2, <1>3 DEF GetUserByEmail

\* Me only reads.
LEMMA GetUserByIDStep ==
    ASSUME AccountsInv, NEW r \in Requests, GetUserByID(r)
    PROVE  AccountsInv'
  <1> DEFINE code == IF Registered(Caller(r)) THEN "200" ELSE "404"
  <1>1. /\ pc[r] = "GetUserByID" /\ Live(r) /\ r \notin orphans'
        /\ Quiet(r, code) /\ UNCHANGED <<users, tokens>>
    BY Running DEF GetUserByID, At, Live, Coherent, Wrote, Quiet, Respond,
                   tables, AccountsInv, TypeOK
  <1>2. code \in {"200", "404"}
    OBVIOUS
  <1> HIDE DEF code
  <1> QED
    BY <1>1, <1>2, QuietStep, TokensKept

\* The unique constraint decides who has the plate.
LEMMA CreateVehicleStep ==
    ASSUME AccountsInv, NEW r \in Requests, CreateVehicle(r)
    PROVE  AccountsInv'
  <1> DEFINE code == IF Registered(Caller(r)) THEN "409" ELSE "500"
  <1>1. /\ pc[r] = "CreateVehicle" /\ answer[r] = "none" /\ Pending(r)
        /\ Live(r) /\ TypeOK /\ r \notin orphans
        /\ UNCHANGED <<tokens, input, orphans, known>>
    BY Running DEF CreateVehicle, At, Pending, Live, Coherent, Wrote
  <1>2. CASE Respond(r, code) /\ UNCHANGED <<tables, issued>>
    <2>1. Quiet(r, code) /\ UNCHANGED <<users, tokens>>
      BY <1>1, <1>2 DEF Quiet, Respond, tables, past
    <2>2. code \in {"409", "500"}
      OBVIOUS
    <2> HIDE DEF code
    <2> QED
      BY <1>1, <2>1, <2>2, QuietStep, TokensKept
  <1>3. CASE /\ Plate(r) \notin DOMAIN vehicles
             /\ Respond(r, "201") /\ NewVehicle(r)
    BY <1>1, <1>3, NewVehicleStep DEF Respond
  <1> QED
    BY <1>2, <1>3 DEF CreateVehicle

\* Delete: by id and owner.
LEMMA DeleteVehicleStep ==
    ASSUME AccountsInv, NEW r \in Requests, DeleteVehicle(r)
    PROVE  AccountsInv'
  <1>1. /\ pc[r] = "DeleteVehicle" /\ answer[r] = "none" /\ Pending(r)
        /\ Removal(r) /\ UNCHANGED <<tokens, input, pc, past>>
        /\ orphans' = orphans
        /\ answer' = [answer EXCEPT ![r] =
                         IF Target(r) = {} THEN "404" ELSE "204"]
    BY DEF DeleteVehicle, At, Pending, Respond
  <1> QED
    BY <1>1, RemovalStep

-----------------------------------------------------------------------------
(* Failures.                                                               *)

\* An error may leave an orphan.
LEMMA StatementFailsStep ==
    ASSUME AccountsInv, NEW r \in Requests, StatementFails(r)
    PROVE  AccountsInv'
  <1>1. /\ Live(r) /\ Quiet(r, "500") /\ UNCHANGED <<users, tokens>>
        /\ r \in orphans' => pc[r] \in Writes
    BY DEF StatementFails, Quiet, Respond, tables, AccountsInv, TypeOK
  <1> QED
    BY <1>1, QuietStep, TokensKept

\* A crash ends every running request.
LEMMA CrashStep ==
    ASSUME AccountsInv, Crash
    PROVE  AccountsInv'
  <1>1. /\ TypeOK
        /\ UNCHANGED <<users, vehicles, tokens, input, pc, issued, known>>
        /\ answer' = [r \in Requests |-> IF Live(r) THEN "lost" ELSE answer[r]]
    BY DEF Crash, tables, past, AccountsInv
  <1>2. PICK sent \in SUBSET {r \in Requests : Live(r) /\ pc[r] \in Writes} :
            orphans' = orphans \cup sent
    BY DEF Crash
  <1>3. \A q \in Requests :
           \/ ~Live(q) /\ answer'[q] = answer[q] /\ (q \in orphans' => q \in orphans)
           \/ /\ Live(q) /\ answer'[q] = "lost" /\ q \notin issued
              /\ q \in orphans' => pc[q] \in Writes
              /\ \A e \in DOMAIN users : users[e].id # q
    <2> TAKE q \in Requests
    <2>1. answer'[q] = IF Live(q) THEN "lost" ELSE answer[q]
      BY <1>1
    <2>2. q \in orphans' => q \in orphans \/ (Live(q) /\ pc[q] \in Writes)
      BY <1>2
    <2>3. CASE Live(q)
      <3>1. /\ q \notin issued /\ \A e \in DOMAIN users : users[e].id # q
            /\ q \notin orphans
        BY <2>3, Running DEF Live, Pending, Coherent, Wrote
      <3> QED
        BY <2>1, <2>2, <2>3, <3>1
    <2>4. CASE ~Live(q)
      BY <2>1, <2>2, <2>4
    <2> QED
      BY <2>3, <2>4
  <1>4. TypeOK'
    <2>1. answer' \in [Requests -> Answers \cup {"none", "lost"}]
      BY <1>1 DEF TypeOK
    <2>2. orphans' \subseteq {q \in Requests : pc'[q] \in Writes}
      BY <1>1, <1>2 DEF TypeOK
    <2> QED
      BY <1>1, <2>1, <2>2 DEF TypeOK
  <1>5. Grows
    BY <1>1, <1>3 DEF Grows, Keeps, VehiclesMove, Live, TypeOK, IsTable
  <1>6. ASSUME NEW q \in Requests PROVE Coherent(q)'
    <2>1. Coherent(q)
      BY DEF AccountsInv
    <2>2. CASE /\ answer'[q] = answer[q]
               /\ q \in orphans' => q \in orphans
      BY <1>1, <1>5, <2>1, <2>2, Frame DEF Same
    <2>3. CASE /\ Live(q) /\ answer'[q] = "lost" /\ q \notin issued
               /\ q \in orphans' => pc[q] \in Writes
               /\ \A e \in DOMAIN users : users[e].id # q
      <3>1. Caller(q)' = Caller(q) /\ (Member(Caller(q)) => Member(Caller(q))')
        BY <1>1 DEF Caller, Member
      <3>2. Admitted(q)'
        BY <1>1, <2>1, <2>3, <3>1
           DEF Coherent, Admitted, Pending, Account, Plate, Live
      <3>3. Wrote(q)'
        BY <1>1, <2>3 DEF Wrote
      <3>4. Answered(q)'
        BY <1>1, <2>1, <2>3 DEF Coherent, Answered, Account, Matches
      <3> QED
        BY <1>1, <2>1, <2>3, <3>2, <3>3, <3>4 DEF Coherent, Live
    <2> QED
      BY <1>3, <2>2, <2>3
  <1>7. /\ TokensSpeakForAccounts'
        /\ VehiclesBelongToMembers' /\ VehiclesExplained'
    BY <1>1, <1>5, TokensStay, VehiclesStay DEF Grows, AccountsInv
  <1> QED
    BY <1>4, <1>6, <1>7 DEF AccountsInv

\* An orphan takes effect as the statement of its request would have.
LEMMA OrphanRunsStep ==
    ASSUME AccountsInv, NEW r \in Requests, OrphanRuns(r)
    PROVE  AccountsInv'
  <1>1. /\ r \in orphans /\ orphans' = orphans \ {r} /\ Pending(r)
        /\ UNCHANGED <<tokens, input, pc, answer, known>>
    BY DEF OrphanRuns, handler, Pending
  <1>2. CASE /\ pc[r] = "CreateUser" /\ Account(r) \notin DOMAIN users
             /\ NewUser(r) /\ UNCHANGED issued
    BY <1>1, <1>2, NewUserStep DEF past
  <1>3. CASE /\ pc[r] = "CreateVehicle" /\ Plate(r) \notin DOMAIN vehicles
             /\ NewVehicle(r)
    BY <1>1, <1>3, NewVehicleStep
  <1>4. CASE pc[r] = "DeleteVehicle" /\ Removal(r) /\ UNCHANGED issued
    BY <1>1, <1>4, RemovalStep DEF past
  <1> QED
    BY <1>2, <1>3, <1>4 DEF OrphanRuns

\* Steps under which no request learns anything.
LEMMA OutsideStep ==
    ASSUME AccountsInv,
           \/ \E r \in Requests : OrphanDies(r)
           \/ \E token \in tokens : Expire(token)
           \/ UNCHANGED vars
    PROVE  AccountsInv'
  <1>1. /\ UNCHANGED <<users, vehicles, input, pc, answer, issued, known>>
        /\ orphans' \subseteq orphans /\ tokens' \subseteq tokens /\ TypeOK
    BY DEF OrphanDies, Expire, vars, tables, handler, past, AccountsInv
  <1>2. TypeOK'
    BY <1>1 DEF TypeOK
  <1>3. Grows /\ \A q \in Requests : Same(q)
    BY <1>1 DEF Grows, Keeps, VehiclesMove, Same
  <1>4. \A q \in Requests : Coherent(q)'
    BY <1>3, Frame DEF AccountsInv
  <1>5. /\ TokensSpeakForAccounts'
        /\ VehiclesBelongToMembers' /\ VehiclesExplained'
    BY <1>1, <1>3, TokensStay, VehiclesStay DEF Grows, AccountsInv
  <1> QED
    BY <1>2, <1>4, <1>5 DEF AccountsInv

-----------------------------------------------------------------------------
(* The theorems.                                                           *)

\* The invariant holds when the requests begin.
LEMMA InitAccounts == Init => AccountsInv
  <1> SUFFICES ASSUME Init PROVE AccountsInv
    OBVIOUS
  <1>1. /\ users = Founders /\ vehicles = Fleet /\ input = << >>
        /\ tokens = {ClaimsOf(users[e]) : e \in DOMAIN users}
        /\ pc = [r \in Requests |-> "idle"]
        /\ answer = [r \in Requests |-> "none"]
        /\ orphans = {} /\ known = {}
        /\ issued = {Fleet[p].id : p \in DOMAIN Fleet}
    BY DEF Init
  <1>2. /\ IsTable(users, Emails, UserRow) /\ IsTable(vehicles, Plates, VehicleRow)
        /\ \A e \in DOMAIN users : users[e].id \notin Requests
        /\ \A p \in DOMAIN vehicles :
              vehicles[p].id \notin Requests /\ Member(vehicles[p].user)
    BY <1>1, FoundersAssumption DEF Member
  <1>3. TypeOK
    <2>1. \A e \in DOMAIN users : users[e] \in UserRow
      BY <1>2 DEF IsTable
    <2>2. tokens \subseteq Claims
      BY <1>1, <2>1 DEF UserRow, ClaimsOf, Claims
    <2>3. issued \subseteq VehicleIds
      BY <1>1 DEF VehicleIds
    <2>4. IsTable(input, Requests, InputRow)
      BY <1>1 DEF IsTable
    <2> QED
      BY <1>1, <1>2, <2>2, <2>3, <2>4 DEF TypeOK
  <1>4. TokensSpeakForAccounts /\ VehiclesBelongToMembers
    BY <1>1, <1>2 DEF TokensSpeakForAccounts, VehiclesBelongToMembers
  <1>5. VehiclesExplained
    BY <1>1, <1>2, FoundersAssumption DEF VehiclesExplained
  <1>6. ASSUME NEW r \in Requests PROVE Coherent(r)
    <2>1. pc[r] = "idle" /\ answer[r] = "none" /\ r \notin issued
      BY <1>1, FoundersAssumption
    <2> QED
      BY <1>1, <1>2, <2>1 DEF Coherent, Admitted, Wrote, Answered
  <1> QED
    BY <1>3, <1>4, <1>5, <1>6 DEF AccountsInv

\* Every step preserves the invariant.
LEMMA NextAccounts == AccountsInv /\ [Next]_vars => AccountsInv'
  <1> SUFFICES ASSUME AccountsInv, [Next]_vars PROVE AccountsInv'
    OBVIOUS
  <1>1. ASSUME NEW r \in Requests, Step(r) PROVE AccountsInv'
    BY <1>1, CreateUserStep, GetUserByEmailStep, GetUserByIDStep,
       CreateVehicleStep, DeleteVehicleStep, StatementFailsStep,
       OrphanRunsStep, OutsideStep DEF Step
  <1> QED
    BY <1>1, ReceiveStep, CrashStep, OutsideStep DEF Next

\* AccountsInv holds in every reachable state, for any accounts, vehicles
\* and requests (AuthService, VehicleService).
THEOREM InvariantHolds == Spec => []AccountsInv
  BY InitAccounts, NextAccounts, PTL DEF Spec

\* Tables, tokens and handler variables keep their types.
THEOREM TypeCorrect == Spec => []TypeOK
  <1>1. AccountsInv => TypeOK
    BY DEF AccountsInv
  <1> QED
    BY <1>1, InvariantHolds, PTL

\* Every token that is out is of an account that exists with that role
\* (auth.go:115, middleware/auth.go:36-52).
THEOREM TokensHold == Spec => []TokensSpeakForAccounts
  <1>1. AccountsInv => TokensSpeakForAccounts
    BY DEF AccountsInv
  <1> QED
    BY <1>1, InvariantHolds, PTL

\* Every vehicle belongs to a member (auth_handler.go:107, vehicle.go:41).
THEOREM OwnersAreMembers == Spec => []VehiclesBelongToMembers
  <1>1. AccountsInv => VehiclesBelongToMembers
    BY DEF AccountsInv
  <1> QED
    BY <1>1, InvariantHolds, PTL

\* Every answer is true of the tables and stays true.
THEOREM AnswersHold == Spec => []AnswersAreTruthful
  <1>1. AccountsInv => AnswersAreTruthful
    <2> SUFFICES ASSUME AccountsInv, NEW r \in DOMAIN input
                 PROVE  LET op == input[r].op IN
                        /\ answer[r] = "201" /\ op = "Register" => HasAccount(r)
                        /\ answer[r] = "201" /\ op = "CreateVehicle" =>
                              HasVehicle(r) \/ Withdrawn(r)
                        /\ answer[r] \in {"204", "404"} /\ op = "DeleteVehicle" =>
                              Target(r) = {}
                        /\ answer[r] \in {"400", "401", "403", "404", "409", "422"} =>
                              /\ r \notin orphans /\ r \notin issued
                              /\ \A e \in DOMAIN users : users[e].id # r
                        /\ answer[r] = "409" /\ op = "Register" =>
                              Account(r) \in DOMAIN users
      BY DEF AnswersAreTruthful
    <2>1. /\ r \in Requests /\ Coherent(r) /\ pc[r] \in Statements
      BY DEF AccountsInv, TypeOK, IsTable, Coherent
    <2>2. /\ pc[r] = "CreateUser" <=> input[r].op = "Register"
          /\ pc[r] = "CreateVehicle" <=> input[r].op = "CreateVehicle"
          /\ pc[r] = "DeleteVehicle" <=> input[r].op = "DeleteVehicle"
      BY <2>1 DEF Coherent, Admitted
    <2> QED
      BY <2>1, <2>2 DEF Coherent, Wrote, Answered
  <1> QED
    BY <1>1, InvariantHolds, PTL

\* Who has registered may log in (auth.go:59, 99).
THEOREM LoginsHold == Spec => []RegisteredMayLogIn
  <1>1. AccountsInv => RegisteredMayLogIn
    BY DEF AccountsInv, TypeOK, Coherent, Answered, RegisteredMayLogIn
  <1> QED
    BY <1>1, InvariantHolds, PTL

\* What a step does to the tables.
LEMMA TableSteps ==
    ASSUME [Next]_vars
    PROVE  \/ UNCHANGED tables
           \/ \E r \in Requests : /\ pc[r] = "CreateUser" /\ Pending(r)
                                  /\ Account(r) \notin DOMAIN users /\ NewUser(r)
           \/ \E r \in Requests : /\ pc[r] = "CreateVehicle" /\ Pending(r)
                                  /\ Plate(r) \notin DOMAIN vehicles
                                  /\ NewVehicle(r)
           \/ \E r \in Requests : /\ pc[r] = "DeleteVehicle"
                                  /\ Live(r) \/ r \in orphans
                                  /\ Removal(r)
  <1>1. ASSUME NEW r \in Requests, Receive(r) PROVE UNCHANGED tables
    BY <1>1 DEF Receive, ReceiveRegister, ReceiveLogin, ReceiveMe,
       ReceiveCreateVehicle, ReceiveDeleteVehicle, Arrive
  <1>2. ASSUME NEW r \in Requests,
               \/ StatementFails(r) \/ OrphanDies(r)
               \/ GetUserByEmail(r) \/ GetUserByID(r)
        PROVE  UNCHANGED tables
    BY <1>2 DEF StatementFails, OrphanDies, GetUserByEmail, GetUserByID
  <1>3. ASSUME Crash \/ (\E token \in tokens : Expire(token)) \/ UNCHANGED vars
        PROVE  UNCHANGED tables
    BY <1>3 DEF Crash, Expire, vars
  <1>4. ASSUME NEW r \in Requests, CreateUser(r)
        PROVE  \/ UNCHANGED tables
               \/ /\ pc[r] = "CreateUser" /\ Pending(r)
                  /\ Account(r) \notin DOMAIN users /\ NewUser(r)
    BY <1>4 DEF CreateUser, At, Pending
  <1>5. ASSUME NEW r \in Requests, CreateVehicle(r)
        PROVE  \/ UNCHANGED tables
               \/ /\ pc[r] = "CreateVehicle" /\ Pending(r)
                  /\ Plate(r) \notin DOMAIN vehicles /\ NewVehicle(r)
    BY <1>5 DEF CreateVehicle, At, Pending
  <1>6. ASSUME NEW r \in Requests, DeleteVehicle(r)
        PROVE  pc[r] = "DeleteVehicle" /\ Live(r) /\ Removal(r)
    BY <1>6 DEF DeleteVehicle, At, Live
  <1>7. ASSUME NEW r \in Requests, OrphanRuns(r)
        PROVE  /\ r \in orphans /\ Pending(r)
               /\ \/ /\ pc[r] = "CreateUser" /\ Account(r) \notin DOMAIN users
                     /\ NewUser(r)
                  \/ /\ pc[r] = "CreateVehicle" /\ NewVehicle(r)
                     /\ Plate(r) \notin DOMAIN vehicles
                  \/ pc[r] = "DeleteVehicle" /\ Removal(r)
    BY <1>7 DEF OrphanRuns, Pending
  <1> QED
    BY <1>1, <1>2, <1>3, <1>4, <1>5, <1>6, <1>7 DEF Next, Step

\* An account is never changed (users.sql.go:27-31: the INSERT has no
\* ON CONFLICT, and nothing updates users).
THEOREM AccountsStand == Spec => FirstRegistrationStands
  <1> DEFINE Stands == \A e \in DOMAIN users :
                          e \in DOMAIN users' /\ users'[e] = users[e]
  <1>1. AccountsInv /\ [Next]_vars => [Stands]_vars
    <2> SUFFICES ASSUME AccountsInv, [Next]_vars PROVE Stands
      OBVIOUS
    <2>1. CASE \E r \in Requests : /\ pc[r] = "CreateUser" /\ Pending(r)
                                   /\ Account(r) \notin DOMAIN users
                                   /\ NewUser(r)
      BY <2>1, NewUserEffect
    <2>2. CASE UNCHANGED users
      BY <2>2
    <2> QED
      BY <2>1, <2>2, TableSteps DEF NewVehicle, Removal, tables
  <1> QED
    BY <1>1, InvariantHolds, PTL DEF Spec, FirstRegistrationStands

\* A vehicle goes only by a Delete of its owner (users.sql.go:76-79).
THEOREM RemovalsAreOwners == Spec => RemovedByTheirOwners
  <1> DEFINE ByOwner ==
        \A p \in DOMAIN vehicles :
          \/ p \in DOMAIN vehicles' /\ vehicles'[p] = vehicles[p]
          \/ \E r \in DOMAIN input :
                /\ input[r].op = "DeleteVehicle"
                /\ input[r].vehicle = vehicles[p].id
                /\ Caller(r) = vehicles[p].user
                /\ Live(r) \/ r \in orphans
  <1>1. AccountsInv /\ [Next]_vars => [ByOwner]_vars
    <2> SUFFICES ASSUME AccountsInv, [Next]_vars PROVE ByOwner
      OBVIOUS
    <2>1. CASE UNCHANGED vehicles
      BY <2>1
    <2>2. CASE \E r \in Requests : /\ pc[r] = "CreateVehicle" /\ Pending(r)
                                   /\ Plate(r) \notin DOMAIN vehicles
                                   /\ NewVehicle(r)
      BY <2>2, NewVehicleEffect
    <2>3. ASSUME NEW r \in Requests, pc[r] = "DeleteVehicle",
                 Live(r) \/ r \in orphans, Removal(r)
          PROVE  ByOwner
      <3>1. r \in DOMAIN input /\ input[r].op = "DeleteVehicle"
        BY <2>3, Running DEF Coherent, Admitted
      <3>2. \A p \in DOMAIN vehicles \ Target(r) :
               p \in DOMAIN vehicles' /\ vehicles'[p] = vehicles[p]
        BY <2>3 DEF Removal
      <3>3. \A p \in Target(r) : /\ vehicles[p].id = input[r].vehicle
                                 /\ vehicles[p].user = Caller(r)
        BY DEF Target
      <3> QED
        BY <2>3, <3>1, <3>2, <3>3
    <2> QED
      BY <2>1, <2>2, <2>3, TableSteps DEF NewUser, tables
  <1> QED
    BY <1>1, InvariantHolds, PTL DEF Spec, RemovedByTheirOwners

\* Accounts implements PlateRegistry: what Payment and Reports assume of
\* vehicles is what the service does.
THEOREM Refinement == Spec => ImplementsRegistry
  <1> DEFINE owner == [p \in DOMAIN vehicles |-> vehicles[p].user]
  <1>1. Init => Registry!Init
    <2> SUFFICES ASSUME Init PROVE Registry!Init
      OBVIOUS
    <2>1. \A p \in DOMAIN vehicles : p \in Plates /\ vehicles[p] \in VehicleRow
      BY InitAccounts, RowTypes DEF AccountsInv
    <2> QED
      BY <2>1 DEF Registry!Init, VehicleRow
  <1>2. AccountsInv /\ [Next]_vars => [Registry!Next]_owner
    <2> SUFFICES ASSUME AccountsInv, [Next]_vars
                 PROVE  [Registry!Next]_owner
      OBVIOUS
    <2>1. CASE UNCHANGED vehicles
      BY <2>1
    <2>2. ASSUME NEW r \in Requests, pc[r] = "CreateVehicle", Pending(r),
                 Plate(r) \notin DOMAIN vehicles, NewVehicle(r)
          PROVE  Registry!Next
      <3>1. /\ DOMAIN vehicles' = DOMAIN vehicles \cup {Plate(r)}
            /\ vehicles'[Plate(r)] = VehicleOf(r)
            /\ \A p \in DOMAIN vehicles : vehicles'[p] = vehicles[p]
        BY <2>2, NewVehicleEffect
      <3>2. Plate(r) \in Plates /\ Caller(r) \in UserIds
        BY <2>2, Running DEF Coherent, Admitted, Caller, Claims
      <3>3. vehicles'[Plate(r)].user = Caller(r)
        BY <3>1 DEF VehicleOf
      <3>4. owner' = Registry!Insert(owner, Plate(r), Caller(r))
        BY <3>1, <3>3 DEF Registry!Insert
      <3>5. Plate(r) \notin DOMAIN owner
        BY <2>2
      <3> HIDE DEF owner
      <3>6. \E user \in UserIds : /\ Plate(r) \notin DOMAIN owner
                                 /\ owner' = Registry!Insert(owner, Plate(r), user)
        BY <3>2, <3>4, <3>5
      <3> QED
        BY <3>2, <3>6 DEF Registry!Next, Registry!Register, owner
    <2>3. ASSUME NEW r \in Requests, pc[r] = "DeleteVehicle", Removal(r)
          PROVE  [Registry!Next]_owner
      <3>1. vehicles' = [p \in DOMAIN vehicles \ Target(r) |-> vehicles[p]]
        BY <2>3 DEF Removal
      <3>2. CASE Target(r) = {}
        BY <3>1, <3>2
      <3>3. ASSUME NEW p \in Target(r) PROVE Registry!Next
        <4>1. \A q \in Target(r) : q \in DOMAIN vehicles /\ q = p
          BY DEF Target, AccountsInv, VehiclesExplained
        <4>2. owner' = [q \in DOMAIN vehicles \ {p} |-> vehicles[q].user]
          BY <3>1, <4>1
        <4>3. owner' = Registry!Delete(owner, p)
          BY <4>2 DEF Registry!Delete
        <4>4. p \in Plates /\ p \in DOMAIN owner
          BY <4>1, RowTypes DEF AccountsInv
        <4> HIDE DEF owner
        <4>5. Registry!Remove(p)
          BY <4>3, <4>4 DEF Registry!Remove, owner
        <4> QED
          BY <4>4, <4>5 DEF Registry!Next
      <3> QED
        BY <3>2, <3>3
    <2> QED
      BY <2>1, <2>2, <2>3, TableSteps DEF NewUser, tables
  <1> QED
    BY <1>1, <1>2, InvariantHolds, PTL DEF Spec, ImplementsRegistry, Registry!Spec

=============================================================================
